----------------------------- MODULE TableHeap -----------------------------
(***************************************************************************)
(* The table heap and its iterators (storage/table/table_heap.cpp,         *)
(* table_iterator.cpp): a chain of slotted pages that inserters append to  *)
(* while scanners walk it.  latch_ protects last_page_id_; each page has   *)
(* the reader-writer latch of its buffer pool guard.  A page is reduced to *)
(* its number of tuples and its next_page_id_; a read guard is taken, used *)
(* and dropped in one step, a write guard is held across steps.            *)
(* Updates in place change no slot and are modelled in TablePage.          *)
(***************************************************************************)
EXTENDS Integers, FiniteSets

CONSTANTS
    Inserters, Scanners,    \* threads
    SlotsPerPage,           \* the most tuples a page takes
    Kinds,                  \* lengths of the tuples inserted, see Fits
    MaxPages                \* bound on the pages of the heap

NoThread == "no thread"

ASSUME HeapAssumption ==
    /\ SlotsPerPage \in Nat \ {0} /\ MaxPages \in Nat \ {0}
    /\ Kinds \subseteq {"small", "long", "huge"}
    /\ NoThread \notin Inserters

INVALID_PAGE_ID == 0
first_page_id_ == 1
PageIds == 1..MaxPages

VARIABLES
    num_tuples,     \* page id -> tuples in the page
    next_page_id,   \* page id -> next page, or INVALID_PAGE_ID
    num_pages,      \* pages the buffer pool has handed out
    last_page_id_,
    latch_,         \* the thread that holds the heap's latch
    wlatch,         \* page id -> the thread that holds its write guard
    ipc, ikind, ipage,      \* inserter: program counter, tuple, page of its guard
    spc,            \* scanner: program counter
    stop_page, stop_slot,   \* scanner: stop_at_rid_ (MakeIterator)
    rid_page, rid_slot,     \* scanner: rid_
    visited,        \* scanner: history, the rids GetTuple returned
    snapshot,       \* scanner: history, the rids up to stop_at_rid_
    present,        \* scanner: history, the rids of finished inserts at the call
    returned,       \* history: the rids InsertTuple has returned
    failed          \* the assertion or exception that ended the process

heap == <<num_tuples, next_page_id, num_pages, last_page_id_>>
scan == <<spc, stop_page, stop_slot, rid_page, rid_slot, visited, snapshot, present>>
inserter == <<ipc, ikind, ipage>>
vars == <<heap, latch_, wlatch, inserter, scan, returned, failed>>

(* The rids of the tuples in the pages up to page p, below slot n of p. *)
RidsBelow(p, n) ==
    {r \in PageIds \X (0..SlotsPerPage) :
        \/ r[1] < p /\ r[2] < num_tuples[r[1]]
        \/ r[1] = p /\ r[2] < n}

(* The constructor has made the first page. *)
Init ==
    /\ num_tuples = [p \in PageIds |-> 0]
    /\ next_page_id = [p \in PageIds |-> INVALID_PAGE_ID]
    /\ num_pages = 1 /\ last_page_id_ = first_page_id_
    /\ latch_ = NoThread /\ wlatch = [p \in PageIds |-> NoThread]
    /\ ipc = [t \in Inserters |-> "idle"] /\ ikind = [t \in Inserters |-> "small"]
    /\ ipage = [t \in Inserters |-> INVALID_PAGE_ID]
    /\ spc = [t \in Scanners |-> "idle"]
    /\ stop_page = [t \in Scanners |-> INVALID_PAGE_ID] /\ stop_slot = [t \in Scanners |-> 0]
    /\ rid_page = [t \in Scanners |-> INVALID_PAGE_ID] /\ rid_slot = [t \in Scanners |-> 0]
    /\ visited = [t \in Scanners |-> {}] /\ snapshot = [t \in Scanners |-> {}]
    /\ present = [t \in Scanners |-> {}]
    /\ returned = {} /\ failed = "no"

-----------------------------------------------------------------------------
(* InsertTuple *)

(* The call begins; it may need one new page (two if the tuple is huge and  *)
(* the process then ends).                                                  *)
Latch(t, kind) ==
    /\ failed = "no" /\ ipc[t] = "idle" /\ latch_ = NoThread /\ num_pages < MaxPages
    /\ latch_' = t /\ ikind' = [ikind EXCEPT ![t] = kind] /\ ipc' = [ipc EXCEPT ![t] = "latched"]
    /\ UNCHANGED <<heap, wlatch, ipage, scan, returned, failed>>

WritePage(t) ==
    /\ failed = "no" /\ ipc[t] = "latched" /\ wlatch[last_page_id_] = NoThread
    /\ wlatch' = [wlatch EXCEPT ![last_page_id_] = t]
    /\ ipage' = [ipage EXCEPT ![t] = last_page_id_] /\ ipc' = [ipc EXCEPT ![t] = "guarded"]
    /\ UNCHANGED <<heap, latch_, ikind, scan, returned, failed>>

(* GetNextTupleOffset: what it can say of the tuple depends on the lengths  *)
(* of those in the page, which the model does not keep, so that the three   *)
(* overlap.  A small tuple (no longer than a page header and a slot entry)  *)
(* and a long one fit an empty page, a huge one fits no page.  The offset   *)
(* of a long or huge tuple wraps when it is longer than what is left below  *)
(* the last one.                                                            *)
Fits(t) == ikind[t] # "huge" /\ num_tuples[ipage[t]] < SlotsPerPage
NoRoom(t) == ikind[t] = "huge" \/ num_tuples[ipage[t]] # 0
Wraps(t) == ikind[t] = "huge" \/ (ikind[t] = "long" /\ num_tuples[ipage[t]] # 0)

(* The tuple is put in the page and latch_ released; the guard is kept. *)
Insert(t) ==
    /\ failed = "no" /\ ipc[t] = "guarded" /\ Fits(t)
    /\ num_tuples' = [num_tuples EXCEPT ![ipage[t]] = @ + 1]
    /\ latch_' = NoThread /\ ipc' = [ipc EXCEPT ![t] = "inserted"]
    /\ UNCHANGED <<next_page_id, num_pages, last_page_id_, wlatch, ikind, ipage, scan, returned, failed>>

(* Mutant: the full page is not linked to the new one. *)
NewPage_Unlinked(t) ==
    /\ failed = "no" /\ ipc[t] = "guarded" /\ NoRoom(t) /\ num_tuples[ipage[t]] # 0
    /\ num_pages' = num_pages + 1 /\ last_page_id_' = num_pages + 1
    /\ wlatch' = [wlatch EXCEPT ![ipage[t]] = NoThread, ![num_pages + 1] = t]
    /\ ipage' = [ipage EXCEPT ![t] = num_pages + 1]
    /\ UNCHANGED <<num_tuples, next_page_id, ipc, ikind, latch_, scan, returned, failed>>

(* The last page has no room: a new one is made, linked and guarded, and the    *)
(* guard of the old one dropped.  Only this thread can reach the new page  *)
(* before that, so the steps are one.                                       *)
NewPage(t) ==
    /\ failed = "no" /\ ipc[t] = "guarded" /\ NoRoom(t) /\ num_tuples[ipage[t]] # 0
    /\ num_pages' = num_pages + 1 /\ last_page_id_' = num_pages + 1
    /\ next_page_id' = [next_page_id EXCEPT ![ipage[t]] = num_pages + 1]
    /\ wlatch' = [wlatch EXCEPT ![ipage[t]] = NoThread, ![num_pages + 1] = t]
    /\ ipage' = [ipage EXCEPT ![t] = num_pages + 1]
    /\ UNCHANGED <<num_tuples, ipc, ikind, latch_, scan, returned, failed>>

(* BUSTUB_ENSURE: an empty page cannot take the tuple; the process ends. *)
TooLarge(t) ==
    /\ failed = "no" /\ ipc[t] = "guarded" /\ NoRoom(t) /\ num_tuples[ipage[t]] = 0
    /\ failed' = "tuple is too large"
    /\ UNCHANGED <<heap, latch_, wlatch, inserter, scan, returned>>

(* The wrapped offset is taken for one that fits: InsertTuple of the page   *)
(* copies the tuple beyond it, and what follows is undefined.               *)
InsertWrapped(t) ==
    /\ failed = "no" /\ ipc[t] = "guarded" /\ Wraps(t)
    /\ failed' = "tuple outside the page"
    /\ UNCHANGED <<heap, latch_, wlatch, inserter, scan, returned>>

(* Mutant: the page guard is never dropped. *)
Return_KeepsGuard(t) ==
    /\ failed = "no" /\ ipc[t] = "inserted"
    /\ returned' = returned \cup {<<ipage[t], num_tuples[ipage[t]] - 1>>}
    /\ ipc' = [ipc EXCEPT ![t] = "idle"] /\ ipage' = [ipage EXCEPT ![t] = INVALID_PAGE_ID]
    /\ UNCHANGED <<heap, latch_, wlatch, ikind, scan, failed>>

(* page_guard.Drop() and return RID(last_page_id, slot_id) *)
Return(t) ==
    /\ failed = "no" /\ ipc[t] = "inserted"
    /\ wlatch' = [wlatch EXCEPT ![ipage[t]] = NoThread]
    /\ returned' = returned \cup {<<ipage[t], num_tuples[ipage[t]] - 1>>}
    /\ ipc' = [ipc EXCEPT ![t] = "idle"] /\ ipage' = [ipage EXCEPT ![t] = INVALID_PAGE_ID]
    /\ UNCHANGED <<heap, latch_, ikind, scan, failed>>

Inserter(t) ==
    \/ \E kind \in Kinds : Latch(t, kind)
    \/ WritePage(t) \/ Insert(t) \/ NewPage(t) \/ TooLarge(t) \/ InsertWrapped(t) \/ Return(t)

-----------------------------------------------------------------------------
(* MakeIterator, MakeEagerIterator and TableIterator *)

(* MakeIterator reads last_page_id_ under latch_. *)
ReadLastPage(t) ==
    /\ failed = "no" /\ spc[t] = "idle" /\ latch_ = NoThread
    /\ stop_page' = [stop_page EXCEPT ![t] = last_page_id_]
    /\ present' = [present EXCEPT ![t] = returned]
    /\ visited' = [visited EXCEPT ![t] = {}]
    /\ spc' = [spc EXCEPT ![t] = "count"]
    /\ UNCHANGED <<heap, latch_, wlatch, inserter, stop_slot, rid_page, rid_slot, snapshot,
                   returned, failed>>

(* ... then the number of tuples of that page under its read guard. *)
ReadNumTuples(t) ==
    /\ failed = "no" /\ spc[t] = "count" /\ wlatch[stop_page[t]] = NoThread
    /\ stop_slot' = [stop_slot EXCEPT ![t] = num_tuples[stop_page[t]]]
    /\ snapshot' = [snapshot EXCEPT ![t] = RidsBelow(stop_page[t], num_tuples[stop_page[t]])]
    /\ spc' = [spc EXCEPT ![t] = "construct"]
    /\ UNCHANGED <<heap, latch_, wlatch, inserter, stop_page, rid_page, rid_slot, visited,
                   present, returned, failed>>

(* MakeEagerIterator: no stop rid. *)
MakeEagerIterator(t) ==
    /\ failed = "no" /\ spc[t] = "idle"
    /\ stop_page' = [stop_page EXCEPT ![t] = INVALID_PAGE_ID]
    /\ stop_slot' = [stop_slot EXCEPT ![t] = 0]
    /\ present' = [present EXCEPT ![t] = returned]
    /\ visited' = [visited EXCEPT ![t] = {}]
    /\ snapshot' = [snapshot EXCEPT ![t] = {}]
    /\ spc' = [spc EXCEPT ![t] = "construct"]
    /\ UNCHANGED <<heap, latch_, wlatch, inserter, rid_page, rid_slot, returned, failed>>

(* The constructor: rid_ is the first tuple, or invalid when there is none. *)
Construct(t) ==
    /\ failed = "no" /\ spc[t] = "construct" /\ wlatch[first_page_id_] = NoThread
    /\ rid_page' = [rid_page EXCEPT ![t] = IF 0 >= num_tuples[first_page_id_] THEN INVALID_PAGE_ID
                                           ELSE first_page_id_]
    /\ rid_slot' = [rid_slot EXCEPT ![t] = 0]
    /\ spc' = [spc EXCEPT ![t] = "check"]
    /\ UNCHANGED <<heap, latch_, wlatch, inserter, stop_page, stop_slot, visited, snapshot,
                   present, returned, failed>>

(* The caller's loop: while !IsEnd(), GetTuple() ... *)
GetTuple(t) ==
    /\ failed = "no" /\ spc[t] = "check" /\ rid_page[t] # INVALID_PAGE_ID /\ wlatch[rid_page[t]] = NoThread
    /\ IF rid_slot[t] >= num_tuples[rid_page[t]]
       THEN failed' = "Tuple ID out of range" /\ UNCHANGED <<visited, spc>>
       ELSE /\ visited' = [visited EXCEPT ![t] = @ \cup {<<rid_page[t], rid_slot[t]>>}]
            /\ spc' = [spc EXCEPT ![t] = "advance"]
            /\ UNCHANGED failed
    /\ UNCHANGED <<heap, latch_, wlatch, inserter, stop_page, stop_slot, rid_page, rid_slot,
                   snapshot, present, returned>>

OutOfBound(t) ==
    /\ stop_page[t] # INVALID_PAGE_ID
    /\ ~ \/ rid_page[t] < stop_page[t]
         \/ rid_page[t] = stop_page[t] /\ rid_slot[t] + 1 <= stop_slot[t]

(* Mutant: the iterator does not look at its stop rid. *)
Following_NoStop(t) ==
    IF rid_slot[t] + 1 < num_tuples[rid_page[t]] THEN <<rid_page[t], rid_slot[t] + 1>>
    ELSE <<next_page_id[rid_page[t]], 0>>

(* rid_ after ++: the stop rid ends the scan before the page is looked at. *)
Following(t) ==
    IF rid_page[t] = stop_page[t] /\ rid_slot[t] + 1 = stop_slot[t] THEN <<INVALID_PAGE_ID, 0>>
    ELSE IF rid_slot[t] + 1 < num_tuples[rid_page[t]] THEN <<rid_page[t], rid_slot[t] + 1>>
    ELSE <<next_page_id[rid_page[t]], 0>>

(* ... operator++ *)
Increment(t) ==
    /\ failed = "no" /\ spc[t] = "advance" /\ wlatch[rid_page[t]] = NoThread
    /\ IF OutOfBound(t)
       THEN failed' = "iterate out of bound" /\ UNCHANGED <<rid_page, rid_slot, spc>>
       ELSE /\ rid_page' = [rid_page EXCEPT ![t] = Following(t)[1]]
            /\ rid_slot' = [rid_slot EXCEPT ![t] = Following(t)[2]]
            /\ spc' = [spc EXCEPT ![t] = "check"]
            /\ UNCHANGED failed
    /\ UNCHANGED <<heap, latch_, wlatch, inserter, stop_page, stop_slot, visited, snapshot,
                   present, returned>>

(* ... IsEnd(): the scan is over. *)
IsEnd(t) ==
    /\ failed = "no" /\ spc[t] = "check" /\ rid_page[t] = INVALID_PAGE_ID
    /\ spc' = [spc EXCEPT ![t] = "idle"]
    /\ UNCHANGED <<heap, latch_, wlatch, inserter, stop_page, stop_slot, rid_page, rid_slot,
                   visited, snapshot, present, returned, failed>>

Scanner(t) ==
    \/ ReadLastPage(t) \/ ReadNumTuples(t) \/ MakeEagerIterator(t) \/ Construct(t)
    \/ GetTuple(t) \/ Increment(t) \/ IsEnd(t)

Next ==
    \/ \E t \in Inserters : Inserter(t)
    \/ \E t \in Scanners : Scanner(t)

Spec == Init /\ [][Next]_vars

(* A thread that can go on does: a mutex and a page latch that stay free    *)
(* are taken in the end.  Starting a call is the caller's choice.           *)
InserterGoesOn(t) == Inserter(t) /\ ipc[t] # "idle"
ScannerGoesOn(t) == Scanner(t) /\ spc[t] # "idle"

FairSpec ==
    /\ Spec
    /\ \A t \in Inserters : WF_vars(InserterGoesOn(t))
    /\ \A t \in Scanners : WF_vars(ScannerGoesOn(t))

-----------------------------------------------------------------------------
Rids == PageIds \X (0..SlotsPerPage)

(* TypeOK: pages hold at most SlotsPerPage tuples, and links, guards and    *)
(* iterators name pages that exist.                                         *)
TypeOK ==
    /\ num_tuples \in [PageIds -> 0..SlotsPerPage]
    /\ next_page_id \in [PageIds -> PageIds \cup {INVALID_PAGE_ID}]
    /\ num_pages \in PageIds /\ last_page_id_ \in PageIds
    /\ latch_ \in Inserters \cup {NoThread}
    /\ wlatch \in [PageIds -> Inserters \cup {NoThread}]
    /\ ipc \in [Inserters -> {"idle", "latched", "guarded", "inserted"}]
    /\ ikind \in [Inserters -> {"small", "long", "huge"}]
    /\ ipage \in [Inserters -> PageIds \cup {INVALID_PAGE_ID}]
    /\ spc \in [Scanners -> {"idle", "count", "construct", "check", "advance"}]
    /\ stop_page \in [Scanners -> PageIds \cup {INVALID_PAGE_ID}]
    /\ stop_slot \in [Scanners -> 0..SlotsPerPage]
    /\ rid_page \in [Scanners -> PageIds \cup {INVALID_PAGE_ID}]
    /\ rid_slot \in [Scanners -> 0..SlotsPerPage]
    /\ visited \in [Scanners -> SUBSET Rids] /\ snapshot \in [Scanners -> SUBSET Rids]
    /\ present \in [Scanners -> SUBSET Rids]
    /\ returned \subseteq Rids
    /\ failed \in {"no", "tuple is too large", "tuple outside the page", "Tuple ID out of range", "iterate out of bound"}

Snapshots(t) == stop_page[t] # INVALID_PAGE_ID

(* MakeIterator found the heap empty. *)
MadeEmpty(t) == Snapshots(t) /\ snapshot[t] = {}

Ended(t) == spc[t] = "check" /\ rid_page[t] = INVALID_PAGE_ID

(* No scan fails: GetTuple is never asked for a slot that is not there, and *)
(* the assertion of operator++ holds, except for an iterator that was made  *)
(* of an empty heap and constructed after the first insert.                 *)
ScanInBounds ==
    /\ failed # "Tuple ID out of range"
    /\ failed = "iterate out of bound" => \E t \in Scanners : MadeEmpty(t) /\ OutOfBound(t)

(* ScanIsSnapshot: MakeIterator "will record the current last tuple in the  *)
(* table heap, and the iterator will stop at that point, in order to avoid  *)
(* halloween problem": however inserts interleave with the scan, it visits  *)
(* no tuple beyond the recorded one, and when it ends it has visited every  *)
(* tuple up to it; it never fails, as a new page is guarded until its first *)
(* tuple is in.  The exception is an iterator made of an empty heap: its    *)
(* constructor does not know that rid_ may be at the stop rid already.      *)
ScanIsSnapshot ==
    /\ ScanInBounds
    /\ \A t \in Scanners : Snapshots(t) /\ ~MadeEmpty(t) /\ spc[t] \in {"check", "advance"} =>
          /\ visited[t] \subseteq snapshot[t]
          /\ Ended(t) => visited[t] = snapshot[t]

(* ScanSeesReturned: a scan of either kind that ends has visited every      *)
(* tuple whose InsertTuple had returned before the iterator was asked for.  *)
ScanSeesReturned ==
    \A t \in Scanners : Ended(t) => present[t] \subseteq visited[t]

(* an assertion or exception ended the process, or undefined behaviour *)
ProcessEnded == failed # "no"

(* CallsFinish: an InsertTuple that has the latch finishes, so that latch_  *)
(* is released for the others, and a scan of MakeIterator that has read     *)
(* last_page_id_ ends, however many tuples are inserted behind it, unless   *)
(* the process ends.  (A scan of MakeEagerIterator need not: it follows the *)
(* inserts.)                                                                *)
CallsFinish ==
    /\ \A t \in Inserters : ipc[t] = "latched" ~> ipc[t] = "idle" \/ ProcessEnded
    /\ \A t \in Scanners : spc[t] = "count" ~> spc[t] = "idle" \/ ProcessEnded
=============================================================================
