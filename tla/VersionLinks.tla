---------------------------- MODULE VersionLinks ----------------------------
(***************************************************************************)
(* The version chains of the tuples of one table page: UpdateUndoLink,     *)
(* GetUndoLink, UpdateTupleAndUndoLink and GetTupleAndUndoLink of          *)
(* concurrency/transaction_manager_impl.cpp, one step per lock.  A thread  *)
(* reads a tuple and its undo link, appends an undo log that holds what it *)
(* read, and installs a new version with a check that the tuple is still   *)
(* the one it read; it may then put the old version back.                  *)
(* Version v of a tuple comes with undo log v; NoLink is std::nullopt.     *)
(***************************************************************************)
EXTENDS Integers, Sequences

CONSTANTS
    Threads,
    Slots,          \* slots of the page in use
    MaxVersions     \* bound on the versions made

NoThread == "no thread"

VersionAssumption == MaxVersions \in Nat /\ Slots # {} /\ NoThread \notin Threads

NoLink == 0
First == 0          \* the version a tuple is inserted with
Versions == 1..MaxVersions

VARIABLES
    tuple,          \* slot -> version in the table page
    has_info,       \* the page has its PageVersionInfo in version_info_
    prev_link_,     \* slot -> undo link
    undo_logs_,     \* version -> the version and link it replaces
    next,           \* next fresh version
    page_w, page_r,         \* the latch of the table page
    info_w, info_r,         \* version_info_mutex_
    mutex_,                 \* PageVersionInfo::mutex_ (always exclusive)
    pc, rid,
    seen,           \* thread -> tuple and link that GetTupleAndUndoLink gave
    new,            \* thread -> tuple and link to be installed
    own,            \* thread -> version it installed, or First
    stack           \* history: slot -> versions installed and not undone

locks == <<page_w, page_r, info_w, info_r, mutex_>>
vars == <<tuple, has_info, prev_link_, undo_logs_, next, locks, pc, rid, seen, new, own, stack>>

Pair(v, l) == [tuple |-> v, link |-> l]
NoPair == Pair(First, NoLink)

Init ==
    /\ tuple = [s \in Slots |-> First] /\ has_info = FALSE
    /\ prev_link_ = [s \in Slots |-> NoLink]
    /\ undo_logs_ = [v \in Versions |-> NoPair] /\ next = 1
    /\ page_w = NoThread /\ page_r = {} /\ info_w = NoThread /\ info_r = {}
    /\ mutex_ = NoThread
    /\ pc = [t \in Threads |-> "idle"]
    /\ rid = [t \in Threads |-> CHOOSE s \in Slots : TRUE]
    /\ seen = [t \in Threads |-> NoPair] /\ new = [t \in Threads |-> NoPair]
    /\ own = [t \in Threads |-> First]
    /\ stack = [s \in Slots |-> <<>>]

Goto(t, label) == pc' = [pc EXCEPT ![t] = label]

(* std::shared_mutex: one writer or any number of readers. *)
LockPage(t) == page_w = NoThread /\ page_r = {} /\ page_w' = t /\ UNCHANGED page_r
LockPageShared(t) == page_w = NoThread /\ page_r' = page_r \cup {t} /\ UNCHANGED page_w

-----------------------------------------------------------------------------
(* GetTupleAndUndoLink *)

(* Mutant: the page guard is dropped as soon as the tuple is copied. *)
GetTuple_DropsGuard(t, s) ==
    /\ pc[t] = "idle" /\ page_w = NoThread /\ UNCHANGED <<page_r, page_w>>
    /\ Goto(t, "get_info") /\ rid' = [rid EXCEPT ![t] = s]
    /\ seen' = [seen EXCEPT ![t] = Pair(tuple[s], NoLink)]
    /\ UNCHANGED <<tuple, has_info, prev_link_, undo_logs_, next, info_w, info_r, mutex_, new, own, stack>>

(* AcquireTablePageReadLock, page->GetTuple *)
GetTuple(t, s) ==
    /\ pc[t] = "idle" /\ LockPageShared(t)
    /\ Goto(t, "get_info") /\ rid' = [rid EXCEPT ![t] = s]
    /\ seen' = [seen EXCEPT ![t] = Pair(tuple[s], NoLink)]
    /\ UNCHANGED <<tuple, has_info, prev_link_, undo_logs_, next, info_w, info_r, mutex_, new, own, stack>>

(* GetUndoLink: a page without PageVersionInfo has no links ... *)
GetNoInfo(t) ==
    /\ pc[t] = "get_info" /\ info_w = NoThread /\ ~has_info
    /\ Goto(t, "have") /\ page_r' = page_r \ {t}
    /\ UNCHANGED <<tuple, has_info, prev_link_, undo_logs_, next, page_w, info_w, info_r, mutex_,
                   rid, seen, new, own, stack>>

(* ... otherwise version_info_mutex_ is kept until the page's mutex_ is. *)
GetInfo(t) ==
    /\ pc[t] = "get_info" /\ info_w = NoThread /\ has_info
    /\ Goto(t, "get_lock") /\ info_r' = info_r \cup {t}
    /\ UNCHANGED <<tuple, has_info, prev_link_, undo_logs_, next, page_w, page_r, info_w, mutex_,
                   rid, seen, new, own, stack>>

GetLock(t) ==
    /\ pc[t] = "get_lock" /\ mutex_ = NoThread
    /\ Goto(t, "get_link") /\ mutex_' = t /\ info_r' = info_r \ {t}
    /\ UNCHANGED <<tuple, has_info, prev_link_, undo_logs_, next, page_w, page_r, info_w,
                   rid, seen, new, own, stack>>

GetLink(t) ==
    /\ pc[t] = "get_link" /\ mutex_' = NoThread
    /\ seen' = [seen EXCEPT ![t].link = prev_link_[rid[t]]]
    /\ Goto(t, "have") /\ page_r' = page_r \ {t}
    /\ UNCHANGED <<tuple, has_info, prev_link_, undo_logs_, next, page_w, info_w, info_r,
                   rid, new, own, stack>>

(* The caller does not write. *)
Drop(t) ==
    /\ pc[t] = "have" /\ Goto(t, "idle") /\ seen' = [seen EXCEPT ![t] = NoPair]
    /\ rid' = [rid EXCEPT ![t] = CHOOSE s \in Slots : TRUE]
    /\ UNCHANGED <<tuple, has_info, prev_link_, undo_logs_, next, locks, new, own, stack>>

-----------------------------------------------------------------------------
(* UpdateTupleAndUndoLink *)

(* The caller makes a new version and the undo log that goes with it. *)
AppendUndoLog(t) ==
    /\ pc[t] = "have" /\ next <= MaxVersions /\ next' = next + 1
    /\ undo_logs_' = [undo_logs_ EXCEPT ![next] = seen[t]]
    /\ new' = [new EXCEPT ![t] = Pair(next, next)]
    /\ Goto(t, "update")
    /\ UNCHANGED <<tuple, has_info, prev_link_, locks, rid, seen, own, stack>>

GetUndoLog(link) == undo_logs_[link]

(* The caller puts back what its version replaced. *)
Undo(t) ==
    /\ pc[t] = "installed" /\ own[t] # First
    /\ new' = [new EXCEPT ![t] = GetUndoLog(own[t])]
    /\ seen' = [seen EXCEPT ![t] = Pair(own[t], own[t])]
    /\ Goto(t, "update")
    /\ UNCHANGED <<tuple, has_info, prev_link_, undo_logs_, next, locks, rid, own, stack>>

Leave(t) ==
    /\ Goto(t, "idle") /\ seen' = [seen EXCEPT ![t] = NoPair] /\ new' = [new EXCEPT ![t] = NoPair]
    /\ own' = [own EXCEPT ![t] = First] /\ rid' = [rid EXCEPT ![t] = CHOOSE s \in Slots : TRUE]

(* The caller is content with its version. *)
Finish(t) ==
    /\ pc[t] = "installed" /\ Leave(t)
    /\ UNCHANGED <<tuple, has_info, prev_link_, undo_logs_, next, locks, stack>>

Check(t) == tuple[rid[t]] = seen[t].tuple

(* Page latch taken, check fails: the latch is released, false returned. *)
UpdateRefused(t) ==
    /\ pc[t] = "update" /\ page_w = NoThread /\ page_r = {} /\ ~Check(t)
    /\ Leave(t)
    /\ UNCHANGED <<tuple, has_info, prev_link_, undo_logs_, next, locks, stack>>

Undoing(t) == own[t] # First

(* Page latch taken, check passed, tuple written. *)
UpdateTuple(t) ==
    /\ pc[t] = "update" /\ LockPage(t) /\ Check(t)
    /\ tuple' = [tuple EXCEPT ![rid[t]] = new[t].tuple]
    /\ stack' = [stack EXCEPT ![rid[t]] = IF Undoing(t) THEN SubSeq(@, 1, Len(@) - 1)
                                          ELSE Append(@, new[t].tuple)]
    /\ Goto(t, "put_info")
    /\ UNCHANGED <<has_info, prev_link_, undo_logs_, next, info_w, info_r, mutex_, rid, seen, new, own>>

(* UpdateUndoLink: version_info_mutex_ taken, PageVersionInfo found or made *)
PutInfo(t) ==
    /\ pc[t] = "put_info" /\ info_w = NoThread /\ info_r = {} /\ info_w' = t
    /\ has_info' = TRUE /\ Goto(t, "put_lock")
    /\ UNCHANGED <<tuple, prev_link_, undo_logs_, next, page_w, page_r, info_r, mutex_,
                   rid, seen, new, own, stack>>

PutLock(t) ==
    /\ pc[t] = "put_lock" /\ mutex_ = NoThread /\ mutex_' = t /\ info_w' = NoThread
    /\ Goto(t, "put_link")
    /\ UNCHANGED <<tuple, has_info, prev_link_, undo_logs_, next, page_w, page_r, info_r,
                   rid, seen, new, own, stack>>

LinkAfter(s, link) == link

(* The link is set, or erased when it is nullopt; the locks are released. *)
PutLink(t) ==
    /\ pc[t] = "put_link" /\ mutex_' = NoThread /\ page_w' = NoThread
    /\ prev_link_' = [prev_link_ EXCEPT ![rid[t]] = LinkAfter(rid[t], new[t].link)]
    /\ IF Undoing(t) THEN Leave(t)
       ELSE /\ own' = [own EXCEPT ![t] = new[t].tuple] /\ Goto(t, "installed")
            /\ seen' = [seen EXCEPT ![t] = NoPair] /\ new' = [new EXCEPT ![t] = NoPair]
            /\ UNCHANGED rid
    /\ UNCHANGED <<tuple, has_info, undo_logs_, next, page_r, info_w, info_r, stack>>

Step(t) ==
    \/ \E s \in Slots : GetTuple(t, s)
    \/ GetNoInfo(t) \/ GetInfo(t) \/ GetLock(t) \/ GetLink(t) \/ Drop(t)
    \/ AppendUndoLog(t) \/ Undo(t) \/ Finish(t)
    \/ UpdateRefused(t) \/ UpdateTuple(t) \/ PutInfo(t) \/ PutLock(t) \/ PutLink(t)

Next == \E t \in Threads : Step(t)

Spec == Init /\ [][Next]_vars

-----------------------------------------------------------------------------
(* TypeOK: every variable has its type, and every thread inside a locked    *)
(* part of the code holds the lock that part took, alone if exclusive.      *)
TypeOK ==
    /\ tuple \in [Slots -> 0..MaxVersions] /\ prev_link_ \in [Slots -> 0..MaxVersions]
    /\ has_info \in BOOLEAN /\ next \in 1..(MaxVersions + 1)
    /\ undo_logs_ \in [Versions -> [tuple : 0..MaxVersions, link : 0..MaxVersions]]
    /\ rid \in [Threads -> Slots] /\ own \in [Threads -> 0..MaxVersions]
    /\ seen \in [Threads -> [tuple : 0..MaxVersions, link : 0..MaxVersions]]
    /\ new \in [Threads -> [tuple : 0..MaxVersions, link : 0..MaxVersions]]
    /\ \A t \in Threads :
          /\ page_w = t <=> pc[t] \in {"put_info", "put_lock", "put_link"}
          /\ t \in page_r <=> pc[t] \in {"get_info", "get_lock", "get_link"}
          /\ info_w = t <=> pc[t] = "put_lock"
          /\ t \in info_r <=> pc[t] = "get_lock"
          /\ mutex_ = t <=> pc[t] \in {"get_link", "put_link"}

Matching(p) == p.link = p.tuple

(* ReadsAtomic: GetTupleAndUndoLink gets "the tuple and its undo link in    *)
(* the table heap atomically": never the tuple of one version with the link *)
(* of another, though page and version info have separate locks.            *)
ReadsAtomic == \A t \in Threads : pc[t] = "have" => Matching(seen[t])

(* ChainComplete: whenever no update is on, following the undo logs from a  *)
(* tuple's link gives every version that was installed and not put back,    *)
(* newest first: concurrent updates lose no version.                        *)
ChainComplete ==
    page_w = NoThread => \A s \in Slots :
        LET n == Len(stack[s])
            Version(i) == IF i = 0 THEN First ELSE stack[s][i]
        IN  /\ tuple[s] = Version(n) /\ prev_link_[s] = Version(n)
            /\ \A i \in 1..n : undo_logs_[Version(i)] = Pair(Version(i - 1), Version(i - 1))
=============================================================================
