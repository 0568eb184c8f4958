------------------------------ MODULE Channel ------------------------------
(***************************************************************************)
(* The multi-producer multi-consumer channel of include/common/channel.h:  *)
(* a queue under m_, and the condition variable cv_ that Get waits on and  *)
(* Put notifies after it has released m_.  A wait gives up m_ and joins    *)
(* the waiters in one step; a wakeup (by notify_all or spurious) has to    *)
(* get m_ again and look at the queue again.                               *)
(***************************************************************************)
EXTENDS Integers, Sequences

CONSTANTS
    Producers, Consumers,
    Elements,
    MaxPuts         \* bound on the elements put

ASSUME ChannelAssumption ==
    MaxPuts \in Nat /\ Producers \cap Consumers = {} /\ "none" \notin Producers \cup Consumers

NoThread == "none"
Threads == Producers \cup Consumers

VARIABLES
    q_, m_,
    waiters,        \* threads asleep in cv_.wait
    pc,
    put, got        \* history: elements in the order pushed and popped

vars == <<q_, m_, waiters, pc, put, got>>

Init ==
    /\ q_ = <<>> /\ m_ = NoThread /\ waiters = {}
    /\ pc = [t \in Threads |-> "idle"]
    /\ put = <<>> /\ got = <<>>

Goto(t, label) == pc' = [pc EXCEPT ![t] = label]

-----------------------------------------------------------------------------
(* Put *)

PutLock(t) ==
    /\ pc[t] = "idle" /\ m_ = NoThread /\ m_' = t /\ Len(put) < MaxPuts
    /\ Goto(t, "push") /\ UNCHANGED <<q_, waiters, put, got>>

(* Mutant: the element is put in front. *)
PutPush_Front(t, e) ==
    /\ pc[t] = "push" /\ q_' = <<e>> \o q_ /\ put' = Append(put, e)
    /\ Goto(t, "unlock") /\ UNCHANGED <<m_, waiters, got>>

PutPush(t, e) ==
    /\ pc[t] = "push" /\ q_' = Append(q_, e) /\ put' = Append(put, e)
    /\ Goto(t, "unlock") /\ UNCHANGED <<m_, waiters, got>>

(* Mutant: Put forgets to notify. *)
PutUnlock_NoNotify(t) ==
    /\ pc[t] = "unlock" /\ m_' = NoThread
    /\ Goto(t, "idle") /\ UNCHANGED <<q_, waiters, put, got>>

PutUnlock(t) ==
    /\ pc[t] = "unlock" /\ m_' = NoThread
    /\ Goto(t, "notify") /\ UNCHANGED <<q_, waiters, put, got>>

PutNotify(t) ==
    /\ pc[t] = "notify" /\ waiters' = {}
    /\ Goto(t, "idle") /\ UNCHANGED <<q_, m_, put, got>>

-----------------------------------------------------------------------------
(* Get *)

GetLock(t) ==
    /\ pc[t] = "idle" /\ m_ = NoThread /\ m_' = t
    /\ Goto(t, "test") /\ UNCHANGED <<q_, waiters, put, got>>

(* Mutant: m_ is given up before the thread is among the waiters. *)
GetWait_NotAtomic(t) ==
    \/ /\ pc[t] = "test" /\ q_ = <<>> /\ m_' = NoThread
       /\ Goto(t, "waiting") /\ UNCHANGED <<q_, waiters, put, got>>
    \/ /\ pc[t] = "waiting" /\ waiters' = waiters \cup {t}
       /\ Goto(t, "wait") /\ UNCHANGED <<q_, m_, put, got>>

(* The predicate is false: sleep. *)
GetWait(t) ==
    /\ pc[t] = "test" /\ q_ = <<>> /\ m_' = NoThread /\ waiters' = waiters \cup {t}
    /\ Goto(t, "wait") /\ UNCHANGED <<q_, put, got>>

(* A wakeup nobody asked for. *)
Spurious(t) ==
    /\ pc[t] = "wait" /\ t \in waiters /\ waiters' = waiters \ {t}
    /\ UNCHANGED <<q_, m_, pc, put, got>>

(* Woken up: m_ again, and the predicate again. *)
GetRelock(t) ==
    /\ pc[t] = "wait" /\ t \notin waiters /\ m_ = NoThread /\ m_' = t
    /\ Goto(t, "test") /\ UNCHANGED <<q_, waiters, put, got>>

GetTest(t) ==
    /\ pc[t] = "test" /\ q_ # <<>>
    /\ Goto(t, "pop") /\ UNCHANGED <<q_, m_, waiters, put, got>>

(* front, pop, and the unlock at return *)
GetPop(t) ==
    /\ pc[t] = "pop" /\ q_ # <<>>
    /\ got' = Append(got, Head(q_)) /\ q_' = Tail(q_)
    /\ m_' = NoThread /\ Goto(t, "idle") /\ UNCHANGED <<waiters, put>>

PutStep(t) == PutLock(t) \/ (\E e \in Elements : PutPush(t, e)) \/ PutUnlock(t) \/ PutNotify(t)
GetStep(t) == GetLock(t) \/ GetWait(t) \/ Spurious(t) \/ GetRelock(t) \/ GetTest(t) \/ GetPop(t)

Next == (\E t \in Producers : PutStep(t)) \/ (\E t \in Consumers : GetStep(t))

Spec == Init /\ [][Next]_vars

(* A thread inside Put or Get goes on, and a woken Get that keeps asking    *)
(* for m_ is given it; nobody has to call Put or Get.                       *)
FairSpec ==
    /\ Spec
    /\ \A t \in Producers : WF_vars((\E e \in Elements : PutPush(t, e)) \/ PutUnlock(t) \/ PutNotify(t))
    /\ \A t \in Consumers : WF_vars(GetWait(t) \/ GetTest(t) \/ GetPop(t))
    /\ \A t \in Consumers : SF_vars(GetRelock(t))

-----------------------------------------------------------------------------
Labels == {"idle", "push", "unlock", "notify", "test", "wait", "pop"}

(* TypeOK: every variable has its type, and m_ is held by the one thread    *)
(* that is between a lock and an unlock of channel.h.                       *)
TypeOK ==
    /\ q_ \in Seq(Elements) /\ put \in Seq(Elements) /\ got \in Seq(Elements)
    /\ m_ \in Threads \cup {NoThread} /\ waiters \subseteq Consumers
    /\ pc \in [Threads -> Labels]
    /\ \A t \in Threads : m_ = t <=> pc[t] \in {"push", "unlock", "test", "pop"}

(* front() and pop() are never called on an empty queue. *)
PopsSomething == \A t \in Consumers : pc[t] = "pop" => q_ # <<>>

(* What was popped, followed by what is queued, is what was put. *)
InOrder == put = got \o q_

(* PopsInOrder: Get gives out what Put put in, in that order: nothing is    *)
(* lost, doubled or overtaken, and front() and pop() are never called on a  *)
(* queue that another Get emptied after the wakeup.                         *)
PopsInOrder == InOrder /\ PopsSomething

(* NoLostWakeup: a Get sleeps while the queue has an element only as long   *)
(* as some Put still has its notify_all to do.                              *)
NoLostWakeup ==
    waiters # {} /\ q_ # <<>> => \E t \in Producers : pc[t] \in {"unlock", "notify"}

(* ElementsTaken: while a Get is waiting, an element in the queue is taken. *)
ElementsTaken ==
    (q_ # <<>> /\ \E t \in Consumers : pc[t] = "wait") ~> (Len(q_) = 0 \/ \A t \in Consumers : pc[t] # "wait")
=============================================================================
