---------------------------- MODULE ORSetDriver -----------------------------
(***************************************************************************)
(* The OR-set driver (primer/orset_driver.cpp): nodes publish copies of    *)
(* their set with a version number and take in the copies of their peers   *)
(* that are newer than the last one they read.                             *)
(*                                                                         *)
(* ORSet itself is a parameter of the driver: its Add and Merge throw in   *)
(* this repository.  Here each call either throws or does what its comment *)
(* says, and the value of a set is the uids of the Add calls whose effect  *)
(* reached it.                                                             *)
(***************************************************************************)
EXTENDS Integers

CONSTANTS
    Peers,       \* number of nodes
    MaxAdds,     \* bound on the calls of Add
    MaxVersion   \* bound on the saves of a node, below the 2^32 of its counter

Nodes == 0..Peers - 1

VARIABLES
    orset_,              \* the nodes' own sets
    saved_copies_,
    version_counter_,
    last_read_version_,  \* per node, the version read of each peer
    next_uid_

driverVars == <<orset_, saved_copies_, version_counter_, last_read_version_, next_uid_>>

DriverInit ==
    /\ orset_ = [n \in Nodes |-> {}]
    /\ saved_copies_ = [n \in Nodes |-> {}]
    /\ version_counter_ = [n \in Nodes |-> 0]
    /\ last_read_version_ = [n \in Nodes |-> [p \in Nodes |-> 0]]
    /\ next_uid_ = 0

(* The uid is drawn before ORSet::Add is called, and is lost when it throws. *)
Add(n) ==
    /\ next_uid_ < MaxAdds
    /\ next_uid_' = next_uid_ + 1
    /\ \/ UNCHANGED orset_
       \/ orset_' = [orset_ EXCEPT ![n] = @ \cup {next_uid_}]
    /\ UNCHANGED <<saved_copies_, version_counter_, last_read_version_>>

(* Mutant: the copy is replaced under the same version. *)
Save_SameVersion(nodes) ==
    /\ \A n \in nodes : version_counter_[n] < MaxVersion
    /\ saved_copies_' = [n \in Nodes |-> IF n \in nodes THEN orset_[n] ELSE saved_copies_[n]]
    /\ version_counter_' = [n \in Nodes |-> IF n \in nodes /\ version_counter_[n] = 0
                                            THEN 1 ELSE version_counter_[n]]

(* Save by each node of nodes *)
Save(nodes) ==
    /\ \A n \in nodes : version_counter_[n] < MaxVersion
    /\ saved_copies_' = [n \in Nodes |-> IF n \in nodes THEN orset_[n] ELSE saved_copies_[n]]
    /\ version_counter_' = [n \in Nodes |-> IF n \in nodes THEN version_counter_[n] + 1
                                            ELSE version_counter_[n]]

Newer(n, p, version) == p # n /\ last_read_version_[n][p] < version[p]

(* Load by the nodes, given what is saved; taken are the peers whose copies  *)
(* each of them merged before a call of Merge threw: all the newer ones      *)
(* unless one did.                                                           *)
Load(taken, saved, version) ==
    /\ orset_' = [n \in Nodes |-> orset_[n] \cup UNION {saved[p] : p \in taken[n]}]
    /\ last_read_version_' =
         [n \in Nodes |-> [p \in Nodes |-> IF p \in taken[n] THEN version[p]
                                           ELSE last_read_version_[n][p]]]

(* The newer copies node n comes to before position stop of its loop *)
Before(n, stop, version) == {p \in Nodes : Newer(n, p, version) /\ p < stop}

SaveOne(n) == Save({n}) /\ UNCHANGED <<orset_, last_read_version_, next_uid_>>

LoadOne(n) ==
    /\ \E stop \in 0..Peers :
         Load([m \in Nodes |-> IF m = n THEN Before(n, stop, version_counter_) ELSE {}],
              saved_copies_, version_counter_)
    /\ UNCHANGED <<saved_copies_, version_counter_, next_uid_>>

(* Every node saves, then the nodes load in turn; a throw in node m's load   *)
(* ends the call.                                                            *)
SyncUpTo(m, stop) ==
    /\ Save(Nodes)
    /\ Load([n \in Nodes |-> IF n < m THEN Before(n, Peers, version_counter_')
                             ELSE IF n = m THEN Before(n, stop, version_counter_') ELSE {}],
            saved_copies_', version_counter_')
    /\ UNCHANGED next_uid_

Sync == \E m \in Nodes, stop \in 0..Peers : SyncUpTo(m, stop)

DriverNext ==
    \/ \E n \in Nodes : Add(n) \/ SaveOne(n) \/ LoadOne(n)
    \/ Sync

DriverSpec == DriverInit /\ [][DriverNext]_driverVars

-----------------------------------------------------------------------------
DriverTypeOK ==
    /\ orset_ \in [Nodes -> SUBSET Nat]
    /\ saved_copies_ \in [Nodes -> SUBSET Nat]
    /\ version_counter_ \in [Nodes -> Nat]
    /\ last_read_version_ \in [Nodes -> [Nodes -> Nat]]
    /\ next_uid_ \in Nat

(* ReadMeansMerged: a node never runs ahead of a peer's version, and when it *)
(* has read the current one everything in the peer's saved copy has reached  *)
(* its set, whichever calls of Merge threw on the way: Load never skips a    *)
(* copy its node has not taken in.                                           *)
ReadMeansMerged ==
    \A n, p \in Nodes :
        /\ last_read_version_[n][p] <= version_counter_[p]
        /\ n # p /\ last_read_version_[n][p] = version_counter_[p]
             => saved_copies_[p] \subseteq orset_[n]
=============================================================================
