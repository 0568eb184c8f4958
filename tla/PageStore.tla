----------------------------- MODULE PageStore -----------------------------
(***************************************************************************)
(* What the disk manager promises its callers, without slots, capacities   *)
(* or free lists (include/storage/disk/disk_manager.h): a store of pages   *)
(* in which a page accessed for the first time holds some contents, and    *)
(* holds them until it is written or deleted.  An I/O error costs at most  *)
(* the page it hits, and from then on the store only answers that it       *)
(* cannot.  After a shutdown writes are lost and reads yield zeroes; a     *)
(* reopened store holds no page.                                           *)
(***************************************************************************)
CONSTANTS PageIds, Values, Data, Zero, Untouched, None

VARIABLES store, status, out

vars == <<store, status, out>>

Held(p) == p \in DOMAIN store

Put(p, d) == store' = [x \in DOMAIN store \cup {p} |-> IF x = p THEN d ELSE store[x]]

Init ==
    /\ store = [p \in {} |-> Zero]
    /\ status = "good"
    /\ out = [page |-> None, data |-> Untouched]

Write(p, d) ==
    /\ status = "good" /\ UNCHANGED <<status, out>>
    /\ Put(p, d)

(* A first access fixes the contents of the page. *)
Appear(p) == IF Held(p) THEN UNCHANGED store ELSE \E d \in Data : Put(p, d)

Read(p) ==
    /\ status = "good" /\ UNCHANGED status
    /\ Appear(p)
    /\ out' = [page |-> p, data |-> store'[p]]

(* A store in good order refuses only to read a page that it does not hold. *)
Refuse(p) ==
    /\ out' = [page |-> p, data |-> Untouched]
    /\ Held(p) => status # "good"
    /\ UNCHANGED <<status, store>>

Delete(p) ==
    /\ UNCHANGED <<status, out>>
    /\ Held(p)
    /\ store' = [x \in DOMAIN store \ {p} |-> store[x]]

(* An I/O error while p is accessed: p alone may lose its contents. *)
Break(p) ==
    /\ status = "good" /\ status' = "bad"
    /\ out' \in {out, [page |-> p, data |-> Untouched]}
    /\ UNCHANGED store \/ \E d \in Data : Put(p, d)

ReadBroken(p) ==
    /\ status = "bad" /\ UNCHANGED status
    /\ out' = [page |-> p, data |-> Untouched]
    /\ Appear(p)

Close ==
    /\ status' = IF status = "bad" THEN "bad" ELSE "closed"
    /\ UNCHANGED <<out, store>>

WriteClosed(p) == status = "closed" /\ UNCHANGED <<status, out>> /\ Appear(p)

ReadClosed(p) ==
    /\ status = "closed" /\ UNCHANGED status
    /\ out' = [page |-> p, data |-> Zero]
    /\ Appear(p)

Reopen ==
    /\ status' = "good" /\ UNCHANGED out
    /\ store' = [p \in {} |-> Zero]

Next ==
    \/ \E p \in PageIds, d \in Values : Write(p, d)
    \/ \E p \in PageIds : Read(p) \/ Refuse(p) \/ Delete(p)
                           \/ Break(p) \/ ReadBroken(p) \/ WriteClosed(p) \/ ReadClosed(p)
    \/ Close
    \/ Reopen

Spec == Init /\ [][Next]_vars
=============================================================================
