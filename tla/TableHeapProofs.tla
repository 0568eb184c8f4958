-------------------------- MODULE TableHeapProofs --------------------------
(***************************************************************************)
(* The inductive invariant of the table heap, what InsertTuple does to it  *)
(* and what a scan sees, for any number of inserters and scanners, any     *)
(* capacity of a page and any bound on the pages.                          *)
(***************************************************************************)
EXTENDS TableHeap, TLAPS

(* Leaves go to the SMT solver unless they name another prover. *)
USE SMTT(30)

(* The tuples in the heap. *)
Tuples == {r \in Rids : r[2] < num_tuples[r[1]]}

(* The pages are chained in the order they were made; all but the last hold *)
(* tuples, and those not made hold none.                                    *)
Chained ==
    /\ last_page_id_ = num_pages
    /\ \A p \in PageIds : next_page_id[p] = IF p < num_pages THEN p + 1 ELSE INVALID_PAGE_ID
    /\ \A p \in PageIds : p < num_pages => num_tuples[p] > 0
    /\ \A p \in PageIds : p > num_pages => num_tuples[p] = 0

(* The thread at work on the last page has latch_, and a guard is held by   *)
(* the one thread whose call is at that page.                               *)
Latched ==
    /\ \A t \in Inserters : ipc[t] \in {"latched", "guarded"} <=> latch_ = t
    /\ \A t \in Inserters : ipc[t] \in {"guarded", "inserted"} =>
          /\ ipage[t] \in PageIds /\ ipage[t] <= num_pages /\ wlatch[ipage[t]] = t
    /\ \A t \in Inserters : ipc[t] = "guarded" => ipage[t] = num_pages
    /\ \A t \in Inserters : ipc[t] = "inserted" => num_tuples[ipage[t]] > 0
    /\ \A p \in PageIds : wlatch[p] # NoThread =>
          ipc[wlatch[p]] \in {"guarded", "inserted"} /\ ipage[wlatch[p]] = p

(* A new page is guarded by the holder of latch_ until its first tuple is   *)
(* in; and the call that holds latch_ has a page left to make.              *)
Growing ==
    /\ num_pages > 1 /\ num_tuples[num_pages] = 0 =>
          latch_ # NoThread /\ wlatch[num_pages] = latch_
    /\ latch_ # NoThread /\ num_tuples[num_pages] # 0 => num_pages < MaxPages

HeapInv == Chained /\ Latched /\ Growing /\ returned \subseteq Tuples

(* The stop rid of MakeIterator. *)
StopInv(t) ==
    /\ spc[t] # "idle" => present[t] \subseteq Tuples
    /\ spc[t] # "idle" /\ Snapshots(t) =>
          /\ stop_page[t] <= num_pages
          /\ stop_page[t] > 1 => num_tuples[stop_page[t]] > 0
    /\ spc[t] = "count" => Snapshots(t) /\ \A r \in present[t] : r[1] <= stop_page[t]
    /\ Snapshots(t) /\ spc[t] \in {"construct", "check", "advance"} =>
          /\ snapshot[t] = RidsBelow(stop_page[t], stop_slot[t])
          /\ stop_slot[t] <= num_tuples[stop_page[t]]
          /\ stop_page[t] > 1 => stop_slot[t] > 0
          /\ present[t] \subseteq snapshot[t]

Bounded(t) == Snapshots(t) /\ ~MadeEmpty(t)

(* Where the iterator is: it has visited exactly the tuples before rid_. *)
PositionInv(t) ==
    /\ spc[t] \in {"count", "construct"} => visited[t] = {}
    /\ spc[t] \in {"check", "advance"} /\ rid_page[t] # INVALID_PAGE_ID =>
          /\ rid_page[t] <= num_pages
          /\ visited[t] = RidsBelow(rid_page[t], IF spc[t] = "check" THEN rid_slot[t] ELSE rid_slot[t] + 1)
          /\ rid_slot[t] < num_tuples[rid_page[t]] \/ (spc[t] = "check" /\ rid_slot[t] = 0 /\ rid_page[t] > 1)
          /\ Bounded(t) => rid_page[t] < stop_page[t] \/ (rid_page[t] = stop_page[t] /\ rid_slot[t] < stop_slot[t])
    /\ spc[t] = "advance" => rid_page[t] # INVALID_PAGE_ID
    /\ Ended(t) =>
          /\ present[t] \subseteq visited[t]
          /\ Bounded(t) => visited[t] = snapshot[t]

ScanInv == \A t \in Scanners : StopInv(t) /\ PositionInv(t)

IInv == TypeOK /\ HeapInv /\ ScanInv /\ ScanInBounds

-----------------------------------------------------------------------------
(* Inserters *)

(* The page at which a call is has been made, and one more can be. *)
LEMMA GuardedPage ==
    ASSUME TypeOK, HeapInv, NEW t \in Inserters, ipc[t] = "guarded"
    PROVE  /\ latch_ = t /\ latch_ # NoThread
           /\ ipage[t] = num_pages /\ num_pages \in PageIds /\ wlatch[num_pages] = t
           /\ num_tuples[num_pages] # 0 => num_pages + 1 \in PageIds
  <1>1. latch_ = t /\ latch_ # NoThread BY HeapAssumption DEF HeapInv, Latched
  <1>2. ipage[t] = num_pages /\ num_pages \in PageIds /\ wlatch[num_pages] = t
    <2>1. num_pages \in PageIds BY Zenon DEF TypeOK
    <2>2. ipage[t] = num_pages /\ wlatch[ipage[t]] = t BY Zenon DEF HeapInv, Latched
    <2> QED BY Zenon, <2>1, <2>2
  <1>3. num_tuples[num_pages] # 0 => num_pages < MaxPages BY Zenon, <1>1 DEF HeapInv, Growing
  <1> QED BY <1>1, <1>2, <1>3, HeapAssumption DEF PageIds

LEMMA LatchHeap ==
    ASSUME TypeOK, HeapInv, NEW t \in Inserters, NEW knd \in Kinds, Latch(t, knd)
    PROVE  TypeOK' /\ HeapInv'
  <1>1. knd \in {"small", "long", "huge"} BY Zenon, HeapAssumption
  <1>2. TypeOK' BY Zenon, <1>1 DEF TypeOK, Latch, heap, scan
  <1>3. Chained' BY Zenon DEF HeapInv, Chained, Latch, heap
  <1>4. Latched'
    <2>1. \A u \in Inserters : ipc'[u] = IF u = t THEN "latched" ELSE ipc[u] BY Zenon DEF TypeOK, Latch
    <2>2. latch_' = t /\ latch_ = NoThread /\ ipc[t] = "idle" /\ UNCHANGED <<ipage, wlatch, num_pages, num_tuples>>
      BY Zenon DEF Latch, heap
    <2>3. \A u \in Inserters : ipc'[u] \in {"latched", "guarded"} <=> latch_' = u
      BY <2>1, <2>2, HeapAssumption DEF HeapInv, Latched
    <2>4. \A u \in Inserters : ipc'[u] \in {"guarded", "inserted"} => u # t /\ ipc'[u] = ipc[u] BY Zenon, <2>1
    <2>5. \A p \in PageIds : wlatch[p] # NoThread => wlatch[p] \in Inserters /\ wlatch[p] # t
      <3>1. \A p \in PageIds : wlatch[p] \in Inserters \cup {NoThread} BY Zenon DEF TypeOK
      <3>2. \A p \in PageIds : wlatch[p] # NoThread => ipc[wlatch[p]] \in {"guarded", "inserted"}
        BY Zenon DEF HeapInv, Latched
      <3> QED BY Zenon, <2>2, <3>1, <3>2
    <2>6. \A p \in PageIds : wlatch'[p] # NoThread =>
            ipc'[wlatch'[p]] \in {"guarded", "inserted"} /\ ipage'[wlatch'[p]] = p
      BY Zenon, <2>1, <2>2, <2>5 DEF HeapInv, Latched
    <2> QED BY <2>2, <2>3, <2>4, <2>6 DEF HeapInv, Latched
  <1>5. Growing'
    <2>1. UNCHANGED heap /\ num_pages < MaxPages /\ latch_ = NoThread BY Zenon DEF Latch
    <2> QED BY Zenon, <2>1 DEF HeapInv, Growing, heap
  <1>6. (returned \subseteq Tuples)' BY Zenon DEF HeapInv, Tuples, Latch, heap
  <1> QED BY Zenon, <1>2, <1>3, <1>4, <1>5, <1>6 DEF HeapInv

LEMMA WriteHeap ==
    ASSUME TypeOK, HeapInv, NEW t \in Inserters, WritePage(t)
    PROVE  TypeOK' /\ HeapInv'
  <1>1. TypeOK' BY Zenon DEF TypeOK, WritePage, heap, scan
  <1>2. Chained' BY Zenon DEF HeapInv, Chained, WritePage, heap
  <1>3. last_page_id_ = num_pages /\ num_pages \in PageIds BY Zenon DEF HeapInv, Chained, TypeOK
  <1>4. /\ \A u \in Inserters : ipc'[u] = IF u = t THEN "guarded" ELSE ipc[u]
        /\ \A u \in Inserters : ipage'[u] = IF u = t THEN num_pages ELSE ipage[u]
        /\ \A p \in PageIds : wlatch'[p] = IF p = num_pages THEN t ELSE wlatch[p]
    BY Zenon, <1>3 DEF TypeOK, WritePage
  <1>5. ipc[t] = "latched" /\ wlatch[num_pages] = NoThread /\ UNCHANGED <<heap, latch_, returned>>
    BY Zenon, <1>3 DEF WritePage
  <1>6. Latched'
    <2>1. \A u \in Inserters : ipc'[u] \in {"latched", "guarded"} <=> latch_' = u
      BY <1>4, <1>5 DEF HeapInv, Latched
    <2>2. \A u \in Inserters : ipc'[u] = "guarded" => ipage'[u] = num_pages'
      BY <1>4, <1>5 DEF HeapInv, Latched, heap
    <2>3. \A u \in Inserters : ipc'[u] \in {"guarded", "inserted"} =>
            /\ ipage'[u] \in PageIds /\ ipage'[u] <= num_pages' /\ wlatch'[ipage'[u]] = u
      <3> SUFFICES ASSUME NEW u \in Inserters, ipc'[u] \in {"guarded", "inserted"}
                   PROVE  ipage'[u] \in PageIds /\ ipage'[u] <= num_pages' /\ wlatch'[ipage'[u]] = u
        BY Zenon
      <3>1. CASE u = t BY <1>3, <1>4, <1>5, <3>1, HeapAssumption DEF PageIds, heap
      <3>2. CASE u # t
        <4>1. ipage[u] \in PageIds /\ ipage[u] <= num_pages /\ wlatch[ipage[u]] = u
          BY Zenon, <1>4, <3>2 DEF HeapInv, Latched
        <4>2. ipage[u] # num_pages BY Zenon, <1>5, <4>1, HeapAssumption
        <4> QED BY Zenon, <1>4, <1>5, <3>2, <4>1, <4>2 DEF heap
      <3> QED BY Zenon, <3>1, <3>2
    <2>4. \A u \in Inserters : ipc'[u] = "inserted" => num_tuples'[ipage'[u]] > 0
      BY Zenon, <1>4, <1>5 DEF HeapInv, Latched, heap
    <2>5. \A p \in PageIds : wlatch'[p] # NoThread =>
            ipc'[wlatch'[p]] \in {"guarded", "inserted"} /\ ipage'[wlatch'[p]] = p
      <3> SUFFICES ASSUME NEW p \in PageIds, wlatch'[p] # NoThread
                   PROVE  ipc'[wlatch'[p]] \in {"guarded", "inserted"} /\ ipage'[wlatch'[p]] = p
        BY Zenon
      <3>1. CASE p = num_pages BY Zenon, <1>4, <3>1
      <3>2. CASE p # num_pages
        <4>1. wlatch[p] \in Inserters /\ wlatch'[p] = wlatch[p] /\ ipc[wlatch[p]] \in {"guarded", "inserted"}
              /\ ipage[wlatch[p]] = p
          <5>1. wlatch[p] \in Inserters \cup {NoThread} BY Zenon DEF TypeOK
          <5>2. wlatch'[p] = wlatch[p] BY Zenon, <1>4, <3>2
          <5>3. ipc[wlatch[p]] \in {"guarded", "inserted"} /\ ipage[wlatch[p]] = p
            BY Zenon, <5>2 DEF HeapInv, Latched
          <5> QED BY Zenon, <5>1, <5>2, <5>3
        <4>2. wlatch[p] # t BY Zenon, <1>5, <4>1
        <4> QED BY <1>4, <4>1, <4>2
      <3> QED BY Zenon, <3>1, <3>2
    <2> QED BY Zenon, <2>1, <2>2, <2>3, <2>4, <2>5 DEF Latched
  <1>7. Growing'
    <2>1. ~(num_pages > 1 /\ num_tuples[num_pages] = 0) BY Zenon, <1>5, HeapAssumption DEF HeapInv, Growing
    <2> QED BY Zenon, <1>5, <2>1 DEF HeapInv, Growing, heap
  <1>8. (returned \subseteq Tuples)' BY Zenon, <1>5 DEF HeapInv, Tuples, heap
  <1> QED BY Zenon, <1>1, <1>2, <1>6, <1>7, <1>8 DEF HeapInv

LEMMA InsertHeap ==
    ASSUME TypeOK, HeapInv, NEW t \in Inserters, Insert(t)
    PROVE  TypeOK' /\ HeapInv'
  <1>1. /\ latch_ = t /\ latch_ # NoThread /\ ipage[t] = num_pages
        /\ num_pages \in PageIds /\ wlatch[num_pages] = t
    BY Zenon, GuardedPage DEF Insert
  <1>2. num_tuples[num_pages] \in 0..SlotsPerPage /\ num_tuples[num_pages] + 1 \in 0..SlotsPerPage
    <2>1. num_tuples[num_pages] \in 0..SlotsPerPage BY <1>1, Zenon DEF TypeOK
    <2>2. num_tuples[num_pages] < SlotsPerPage \/ num_tuples[num_pages] = 0 BY Zenon, <1>1 DEF Insert, Fits
    <2> QED BY <2>1, <2>2, HeapAssumption
  <1>3. /\ num_tuples' \in [PageIds -> 0..SlotsPerPage]
        /\ \A p \in PageIds : num_tuples'[p] = IF p = num_pages THEN num_tuples[p] + 1 ELSE num_tuples[p]
    BY Zenon, <1>1, <1>2 DEF TypeOK, Insert
  <1>4. \A u \in Inserters : ipc'[u] = IF u = t THEN "inserted" ELSE ipc[u] BY Zenon DEF TypeOK, Insert
  <1>5. ipc[t] = "guarded" /\ latch_' = NoThread
        /\ UNCHANGED <<next_page_id, num_pages, last_page_id_, wlatch, ipage, returned>>
    BY Zenon DEF Insert
  <1>6. TypeOK' BY Zenon, <1>3 DEF TypeOK, Insert, scan
  <1>7. Chained'
    <2>1. num_pages \in Int /\ \A p \in PageIds : p \in Int BY <1>1 DEF PageIds
    <2>2. \A p \in PageIds : p # num_pages => num_tuples'[p] = num_tuples[p] BY Zenon, <1>3
    <2>3. \A p \in PageIds : p < num_pages \/ p > num_pages => p # num_pages BY <2>1
    <2> QED BY Zenon, <1>5, <2>2, <2>3 DEF HeapInv, Chained
  <1>8. Latched'
    <2>1. \A u \in Inserters : ipc'[u] \in {"latched", "guarded"} <=> latch_' = u
      BY <1>1, <1>4, <1>5, HeapAssumption DEF HeapInv, Latched
    <2>2. \A u \in Inserters : ipc'[u] \in {"guarded", "inserted"} => ipc[u] \in {"guarded", "inserted"}
      BY Zenon, <1>4, <1>5
    <2>3. \A u \in Inserters : ipc'[u] = "guarded" => ipage'[u] = num_pages'
      BY <1>4, <1>5 DEF HeapInv, Latched
    <2>4. \A u \in Inserters : ipc'[u] = "inserted" => num_tuples'[ipage'[u]] > 0
      <3> SUFFICES ASSUME NEW u \in Inserters, ipc'[u] = "inserted" PROVE num_tuples'[ipage[u]] > 0
        BY Zenon, <1>5
      <3>1. CASE u = t BY <1>1, <1>2, <1>3, <3>1
      <3>2. CASE u # t
        <4>1. ipage[u] \in PageIds /\ wlatch[ipage[u]] = u /\ num_tuples[ipage[u]] > 0
          BY Zenon, <1>4, <3>2 DEF HeapInv, Latched
        <4>2. ipage[u] # num_pages BY Zenon, <1>1, <3>2, <4>1
        <4> QED BY Zenon, <1>3, <4>1, <4>2
      <3> QED BY Zenon, <3>1, <3>2
    <2>5. \A p \in PageIds : wlatch'[p] # NoThread =>
            ipc'[wlatch'[p]] \in {"guarded", "inserted"} /\ ipage'[wlatch'[p]] = p
      <3>1. \A p \in PageIds : wlatch[p] \in Inserters \cup {NoThread} BY Zenon DEF TypeOK
      <3> QED BY <1>4, <1>5, <3>1 DEF HeapInv, Latched
    <2> QED BY Zenon, <1>5, <2>1, <2>2, <2>3, <2>4, <2>5 DEF HeapInv, Latched
  <1>9. Growing' BY <1>1, <1>2, <1>3, <1>5 DEF Growing
  <1>10. (returned \subseteq Tuples)'
    <2>1. \A r \in Rids : r[1] \in PageIds /\ r[2] \in 0..SlotsPerPage BY Zenon DEF Rids
    <2>2. \A p \in PageIds : num_tuples[p] \in 0..SlotsPerPage BY Zenon DEF TypeOK
    <2>3. Tuples \subseteq Tuples' BY <1>3, <2>1, <2>2 DEF Tuples
    <2> QED BY Zenon, <1>5, <2>3 DEF HeapInv
  <1> QED BY Zenon, <1>6, <1>7, <1>8, <1>9, <1>10 DEF HeapInv

LEMMA NewPageHeap ==
    ASSUME TypeOK, HeapInv, NEW t \in Inserters, NewPage(t)
    PROVE  TypeOK' /\ HeapInv' /\ num_pages + 1 \in PageIds
  <1>1. /\ latch_ = t /\ latch_ # NoThread /\ ipage[t] = num_pages
        /\ num_pages \in PageIds /\ wlatch[num_pages] = t /\ num_pages + 1 \in PageIds
        /\ num_tuples[num_pages] # 0
    BY Zenon, GuardedPage DEF NewPage
  <1> DEFINE n == num_pages + 1
  <1>2. n \in PageIds /\ n # num_pages /\ n > num_pages /\ n > 1 BY <1>1, HeapAssumption DEF PageIds
  <1>3. num_pages' = n /\ last_page_id_' = n /\ ipc[t] = "guarded" /\ UNCHANGED <<num_tuples, ipc, latch_, returned>>
    BY Zenon DEF NewPage
  <1>4. /\ next_page_id' \in [PageIds -> PageIds \cup {INVALID_PAGE_ID}]
        /\ \A p \in PageIds : next_page_id'[p] = IF p = num_pages THEN n ELSE next_page_id[p]
    BY Zenon, <1>1, <1>2 DEF TypeOK, NewPage
  <1>5. /\ wlatch' \in [PageIds -> Inserters \cup {NoThread}]
        /\ \A p \in PageIds : wlatch'[p] = IF p = n THEN t ELSE IF p = num_pages THEN NoThread ELSE wlatch[p]
    BY Zenon, <1>1, <1>2 DEF TypeOK, NewPage
  <1>6. /\ ipage' \in [Inserters -> PageIds \cup {INVALID_PAGE_ID}]
        /\ \A u \in Inserters : ipage'[u] = IF u = t THEN n ELSE ipage[u]
    BY Zenon, <1>2 DEF TypeOK, NewPage
  <1>7. num_tuples[n] = 0 BY Zenon, <1>2 DEF HeapInv, Chained
  <1> HIDE DEF n
  <1>8. TypeOK' BY <1>2, <1>3, <1>4, <1>5, <1>6 DEF TypeOK, NewPage, scan
  <1>9. Chained'
    <2>1. num_pages \in Int /\ n = num_pages + 1 /\ \A p \in PageIds : p \in Int
      BY <1>1 DEF PageIds, n
    <2>2. \A p \in PageIds : next_page_id'[p] = IF p < n THEN p + 1 ELSE INVALID_PAGE_ID
      BY <1>4, <2>1 DEF HeapInv, Chained
    <2>3. num_tuples[num_pages] > 0
      <3>1. num_tuples[num_pages] \in 0..SlotsPerPage BY <1>1, Zenon DEF TypeOK
      <3> QED BY <1>1, <3>1, HeapAssumption
    <2>4. \A p \in PageIds : p < n => num_tuples[p] > 0 BY <2>1, <2>3 DEF HeapInv, Chained
    <2>5. \A p \in PageIds : p > n => num_tuples[p] = 0 BY <2>1 DEF HeapInv, Chained
    <2> QED BY Zenon, <1>3, <2>2, <2>4, <2>5 DEF Chained
  <1>10. \A u \in Inserters : ipc[u] \in {"guarded", "inserted"} =>
            ipage[u] \in PageIds /\ ipage[u] <= num_pages /\ wlatch[ipage[u]] = u
    BY Zenon DEF HeapInv, Latched
  <1>11. \A u \in Inserters \ {t} : ipc[u] \in {"guarded", "inserted"} => ipage[u] # num_pages
    BY Zenon, <1>1, <1>10
  <1>12. Latched'
    <2>1. \A u \in Inserters : ipc'[u] \in {"latched", "guarded"} <=> latch_' = u
      BY Zenon, <1>3 DEF HeapInv, Latched
    <2>2. \A u \in Inserters : ipc'[u] = "guarded" => ipage'[u] = num_pages'
      BY <1>1, <1>3, <1>6 DEF HeapInv, Latched
    <2>3. \A u \in Inserters : ipc'[u] \in {"guarded", "inserted"} =>
            /\ ipage'[u] \in PageIds /\ ipage'[u] <= num_pages' /\ wlatch'[ipage'[u]] = u
      <3> SUFFICES ASSUME NEW u \in Inserters, ipc[u] \in {"guarded", "inserted"}
                   PROVE  ipage'[u] \in PageIds /\ ipage'[u] <= num_pages' /\ wlatch'[ipage'[u]] = u
        BY Zenon, <1>3
      <3>0. num_pages \in Int /\ n \in Int /\ \A p \in PageIds : p \in Int BY <1>1, <1>2 DEF PageIds
      <3>1. CASE u = t BY <1>2, <1>3, <1>5, <1>6, <3>0, <3>1
      <3>2. CASE u # t
        <4>1. ipage[u] \in PageIds /\ ipage[u] <= num_pages /\ wlatch[ipage[u]] = u /\ ipage[u] # num_pages
          BY Zenon, <1>10, <1>11, <3>2
        <4>2. ipage[u] # n /\ ipage[u] <= n
          <5>1. ipage[u] \in Int BY Zenon, <3>0, <4>1
          <5>2. n > num_pages BY Zenon, <1>2
          <5> QED BY <3>0, <4>1, <5>1, <5>2
        <4> QED BY Zenon, <1>3, <1>5, <1>6, <3>2, <4>1, <4>2
      <3> QED BY Zenon, <3>1, <3>2
    <2>4. \A u \in Inserters : ipc'[u] = "inserted" => num_tuples'[ipage'[u]] > 0
      BY Zenon, <1>3, <1>6 DEF HeapInv, Latched
    <2>5. \A p \in PageIds : wlatch'[p] # NoThread =>
            ipc'[wlatch'[p]] \in {"guarded", "inserted"} /\ ipage'[wlatch'[p]] = p
      <3> SUFFICES ASSUME NEW p \in PageIds, wlatch'[p] # NoThread
                   PROVE  ipc'[wlatch'[p]] \in {"guarded", "inserted"} /\ ipage'[wlatch'[p]] = p
        BY Zenon
      <3>1. CASE p = n BY Zenon, <1>3, <1>5, <1>6, <3>1
      <3>2. CASE p # n
        <4>1. p # num_pages /\ wlatch'[p] = wlatch[p] BY Zenon, <1>5, <3>2
        <4>2. wlatch[p] \in Inserters \cup {NoThread} BY Zenon DEF TypeOK
        <4>3. ipc[wlatch[p]] \in {"guarded", "inserted"} /\ ipage[wlatch[p]] = p BY Zenon, <4>1 DEF HeapInv, Latched
        <4>4. wlatch[p] # t BY Zenon, <1>1, <4>1, <4>3
        <4> QED BY Zenon, <1>3, <1>6, <4>1, <4>2, <4>3, <4>4
      <3> QED BY Zenon, <3>1, <3>2
    <2> QED BY Zenon, <2>1, <2>2, <2>3, <2>4, <2>5 DEF Latched
  <1>13. Growing' BY Zenon, <1>1, <1>2, <1>3, <1>5, <1>7 DEF Growing
  <1>14. (returned \subseteq Tuples)' BY Zenon, <1>3 DEF HeapInv, Tuples
  <1> QED BY Zenon, <1>1, <1>8, <1>9, <1>12, <1>13, <1>14 DEF HeapInv

LEMMA ReturnHeap ==
    ASSUME TypeOK, HeapInv, NEW t \in Inserters, Return(t)
    PROVE  TypeOK' /\ HeapInv'
  <1>1. ipc[t] = "inserted" /\ UNCHANGED <<heap, latch_>> BY Zenon DEF Return
  <1>2. ipage[t] \in PageIds /\ ipage[t] <= num_pages /\ wlatch[ipage[t]] = t /\ num_tuples[ipage[t]] > 0
    BY Zenon, <1>1 DEF HeapInv, Latched
  <1>3. /\ wlatch' \in [PageIds -> Inserters \cup {NoThread}]
        /\ \A p \in PageIds : wlatch'[p] = IF p = ipage[t] THEN NoThread ELSE wlatch[p]
    BY Zenon, <1>2 DEF TypeOK, Return
  <1>4. /\ \A u \in Inserters : ipc'[u] = IF u = t THEN "idle" ELSE ipc[u]
        /\ \A u \in Inserters : ipage'[u] = IF u = t THEN INVALID_PAGE_ID ELSE ipage[u]
    BY Zenon DEF TypeOK, Return
  <1>5. returned' \subseteq Tuples
    <2>1. num_tuples[ipage[t]] \in 0..SlotsPerPage BY <1>2, Zenon DEF TypeOK
    <2>2. num_tuples[ipage[t]] - 1 \in 0..SlotsPerPage /\ num_tuples[ipage[t]] - 1 < num_tuples[ipage[t]]
      BY <1>2, <2>1, HeapAssumption
    <2>3. <<ipage[t], num_tuples[ipage[t]] - 1>> \in Tuples BY Zenon, <1>2, <2>2 DEF Tuples, Rids
    <2> QED BY Zenon, <2>3 DEF Return, HeapInv
  <1>6. TypeOK'
    <2>1. returned' \subseteq Rids BY Zenon, <1>5 DEF Tuples
    <2> QED BY Zenon, <1>3, <2>1 DEF TypeOK, Return, heap, scan
  <1>7. Chained' BY Zenon, <1>1 DEF HeapInv, Chained, heap
  <1>8. Latched'
    <2>1. \A u \in Inserters : ipc'[u] \in {"latched", "guarded"} <=> latch_' = u
      BY <1>1, <1>4 DEF HeapInv, Latched
    <2>2. \A u \in Inserters : ipc'[u] \in {"guarded", "inserted"} =>
            u # t /\ ipc'[u] = ipc[u] /\ ipage'[u] = ipage[u] /\ ipage[u] # ipage[t]
      BY <1>2, <1>4 DEF HeapInv, Latched
    <2>3. \A p \in PageIds : wlatch'[p] # NoThread =>
            ipc'[wlatch'[p]] \in {"guarded", "inserted"} /\ ipage'[wlatch'[p]] = p
      <3> SUFFICES ASSUME NEW p \in PageIds, wlatch'[p] # NoThread
                   PROVE  ipc'[wlatch'[p]] \in {"guarded", "inserted"} /\ ipage'[wlatch'[p]] = p
        BY Zenon
      <3>1. p # ipage[t] /\ wlatch'[p] = wlatch[p] BY Zenon, <1>3
      <3>2. wlatch[p] \in Inserters \cup {NoThread} BY Zenon DEF TypeOK
      <3>3. ipc[wlatch[p]] \in {"guarded", "inserted"} /\ ipage[wlatch[p]] = p BY Zenon, <3>1 DEF HeapInv, Latched
      <3> QED BY Zenon, <1>4, <3>1, <3>2, <3>3
    <2> QED BY <1>1, <1>3, <2>1, <2>2, <2>3 DEF HeapInv, Latched, heap
  <1>9. Growing'
    <2>1. latch_ # t BY Zenon, <1>1 DEF HeapInv, Latched
    <2>2. num_pages \in PageIds BY Zenon DEF TypeOK
    <2> QED BY Zenon, <1>1, <1>2, <1>3, <2>1, <2>2 DEF HeapInv, Growing, heap
  <1>10. (returned \subseteq Tuples)' BY Zenon, <1>1, <1>5 DEF Tuples, heap
  <1> QED BY Zenon, <1>6, <1>7, <1>8, <1>9, <1>10 DEF HeapInv

LEMMA TooLargeHeap ==
    ASSUME TypeOK, HeapInv, NEW t \in Inserters, TooLarge(t) \/ InsertWrapped(t)
    PROVE  TypeOK' /\ HeapInv'
  <1>1. UNCHANGED <<heap, latch_, wlatch, inserter, scan, returned>>
        /\ failed' \in {"tuple is too large", "tuple outside the page"}
    BY Zenon DEF TooLarge, InsertWrapped
  <1>2. TypeOK' BY <1>1, Zenon DEF TypeOK, heap, inserter, scan
  <1>3. Chained' /\ Growing' /\ (returned \subseteq Tuples)'
    BY <1>1, Zenon DEF HeapInv, Chained, Growing, Tuples, heap, inserter
  <1>4. Latched' BY <1>1, Zenon DEF HeapInv, Latched, heap, inserter
  <1> QED BY Zenon, <1>2, <1>3, <1>4 DEF HeapInv

(* A full page never changes again, and no page loses a tuple. *)
Grows ==
    /\ num_pages <= num_pages'
    /\ \A p \in PageIds : p < num_pages => num_tuples'[p] = num_tuples[p]
    /\ \A p \in PageIds : num_tuples[p] <= num_tuples'[p]

LEMMA HeapTypes ==
    ASSUME TypeOK
    PROVE  /\ num_pages \in PageIds /\ num_pages \in Int
           /\ \A p \in PageIds : num_tuples[p] \in Nat /\ p \in Int /\ p >= 1
  <1>1. num_pages \in PageIds BY Zenon DEF TypeOK
  <1>2. \A p \in PageIds : num_tuples[p] \in 0..SlotsPerPage BY Zenon DEF TypeOK
  <1>3. \A p \in PageIds : p \in Int /\ p >= 1 BY HeapAssumption DEF PageIds
  <1>4. \A k \in 0..SlotsPerPage : k \in Nat BY HeapAssumption
  <1> QED BY Zenon, <1>1, <1>2, <1>3, <1>4

LEMMA StaysGrows ==
    ASSUME TypeOK, UNCHANGED <<num_pages, num_tuples>>
    PROVE  Grows
  <1>1. num_pages \in Int /\ \A p \in PageIds : num_tuples[p] \in Nat BY Zenon, HeapTypes
  <1> QED BY <1>1 DEF Grows

LEMMA InserterGrows ==
    ASSUME TypeOK, HeapInv, NEW t \in Inserters, Inserter(t)
    PROVE  /\ TypeOK' /\ HeapInv' /\ Grows /\ UNCHANGED scan
           /\ failed = "no" /\ failed' \in {"no", "tuple is too large", "tuple outside the page"}
  <1>1. UNCHANGED scan /\ failed = "no" /\ failed' \in {"no", "tuple is too large", "tuple outside the page"}
    BY Zenon DEF Inserter, Latch, WritePage, Insert, NewPage, TooLarge, InsertWrapped, Return
  <1>2. ASSUME NEW knd \in Kinds, Latch(t, knd) PROVE TypeOK' /\ HeapInv' /\ Grows
    BY <1>2, LatchHeap, StaysGrows, Zenon DEF Latch, heap
  <1>3. CASE WritePage(t) BY <1>1, <1>3, WriteHeap, StaysGrows, Zenon DEF WritePage, heap
  <1>4. CASE TooLarge(t) \/ InsertWrapped(t)
    BY <1>1, <1>4, TooLargeHeap, StaysGrows, Zenon DEF TooLarge, InsertWrapped, heap
  <1>5. CASE Return(t) BY <1>1, <1>5, ReturnHeap, StaysGrows, Zenon DEF Return, heap
  <1>6. CASE Insert(t)
    <2>1. TypeOK' /\ HeapInv' BY Zenon, <1>6, InsertHeap
    <2>2. ipage[t] = num_pages /\ num_pages \in PageIds BY Zenon, <1>6, GuardedPage DEF Insert
    <2>3. num_pages' = num_pages
          /\ \A p \in PageIds : num_tuples'[p] = IF p = num_pages THEN num_tuples[p] + 1 ELSE num_tuples[p]
      BY Zenon, <1>6, <2>2 DEF TypeOK, Insert
    <2>4. num_pages \in Int /\ \A p \in PageIds : p \in Int BY <2>2 DEF PageIds
    <2>5. \A p \in PageIds : num_tuples[p] \in Nat BY Zenon, HeapTypes
    <2>6. Grows BY <2>3, <2>4, <2>5 DEF Grows
    <2> QED BY Zenon, <1>1, <2>1, <2>6
  <1>7. CASE NewPage(t)
    <2>1. TypeOK' /\ HeapInv' BY Zenon, <1>7, NewPageHeap
    <2>2. num_pages' = num_pages + 1 /\ num_tuples' = num_tuples BY Zenon, <1>7 DEF NewPage
    <2>3. num_pages \in Int /\ \A p \in PageIds : num_tuples[p] \in Nat BY Zenon, HeapTypes
    <2>4. Grows BY <2>2, <2>3 DEF Grows
    <2> QED BY Zenon, <1>1, <2>1, <2>4
  <1> QED BY <1>1, <1>2, <1>3, <1>4, <1>5, <1>6, <1>7, Zenon DEF Inserter

-----------------------------------------------------------------------------
(* What an iterator has visited *)

LEMMA RidType == \A r \in Rids : r[1] \in PageIds /\ r[1] \in Int /\ r[2] \in Nat
  BY HeapAssumption DEF Rids, PageIds

(* What was visited, or recorded, below a rid stays what is below it. *)
LEMMA RidsBelowKept ==
    ASSUME TypeOK, Grows, NEW p \in Int, p <= num_pages, NEW n
    PROVE  RidsBelow(p, n)' = RidsBelow(p, n)
  <1>1. num_pages \in Int BY Zenon, HeapTypes
  <1>2. \A r \in Rids : r[1] < p => num_tuples'[r[1]] = num_tuples[r[1]] BY <1>1, RidType DEF Grows
  <1> QED BY Zenon, <1>2 DEF RidsBelow, Rids

LEMMA TuplesKept ==
    ASSUME TypeOK, TypeOK', Grows
    PROVE  Tuples \subseteq Tuples'
  <1>1. \A p \in PageIds : num_tuples[p] \in Nat BY Zenon, HeapTypes
  <1>2. \A p \in PageIds : num_tuples'[p] \in 0..SlotsPerPage BY Zenon DEF TypeOK
  <1>3. \A p \in PageIds : num_tuples'[p] \in Nat BY <1>2, HeapAssumption
  <1> QED BY <1>1, <1>3, RidType DEF Tuples, Grows

ScanSame(t) ==
    /\ spc'[t] = spc[t] /\ stop_page'[t] = stop_page[t] /\ stop_slot'[t] = stop_slot[t]
    /\ rid_page'[t] = rid_page[t] /\ rid_slot'[t] = rid_slot[t]
    /\ visited'[t] = visited[t] /\ snapshot'[t] = snapshot[t] /\ present'[t] = present[t]

LEMMA ScanTypes ==
    ASSUME TypeOK, NEW t \in Scanners
    PROVE  /\ stop_page[t] \in Int /\ (stop_page[t] # INVALID_PAGE_ID => stop_page[t] \in PageIds)
           /\ rid_page[t] \in Int /\ (rid_page[t] # INVALID_PAGE_ID => rid_page[t] \in PageIds)
           /\ stop_slot[t] \in Nat /\ rid_slot[t] \in Nat
           /\ num_pages \in Int /\ num_pages \in PageIds
           /\ \A p \in PageIds : num_tuples[p] \in Nat /\ p \in Int /\ p >= 1
  <1>1. stop_page[t] \in PageIds \cup {INVALID_PAGE_ID} /\ rid_page[t] \in PageIds \cup {INVALID_PAGE_ID}
        /\ stop_slot[t] \in 0..SlotsPerPage /\ rid_slot[t] \in 0..SlotsPerPage
    BY Zenon DEF TypeOK
  <1>2. \A k \in 0..SlotsPerPage : k \in Nat BY HeapAssumption
  <1> QED BY <1>1, <1>2, HeapTypes DEF INVALID_PAGE_ID

(* The steps of the others do not disturb a scan. *)
LEMMA ScanKept ==
    ASSUME TypeOK, TypeOK', Grows, NEW t \in Scanners, ScanSame(t), StopInv(t), PositionInv(t)
    PROVE  StopInv(t)' /\ PositionInv(t)'
  <1>1. Tuples \subseteq Tuples' BY Zenon, TuplesKept
  <1>2. \A p \in Int : p <= num_pages => \A n : RidsBelow(p, n)' = RidsBelow(p, n) BY Zenon, RidsBelowKept
  <1>3. /\ stop_page[t] \in Int /\ (stop_page[t] # INVALID_PAGE_ID => stop_page[t] \in PageIds)
        /\ rid_page[t] \in Int /\ (rid_page[t] # INVALID_PAGE_ID => rid_page[t] \in PageIds)
        /\ stop_slot[t] \in Nat /\ rid_slot[t] \in Nat /\ num_pages \in Int
        /\ \A p \in PageIds : num_tuples[p] \in Nat
    BY Zenon, ScanTypes
  <1>4. num_pages' \in Int /\ \A p \in PageIds : num_tuples'[p] \in Nat
    <2>1. num_pages' \in PageIds /\ \A p \in PageIds : num_tuples'[p] \in 0..SlotsPerPage BY Zenon DEF TypeOK
    <2> QED BY <2>1, HeapAssumption DEF PageIds
  <1>5. /\ Snapshots(t)' = Snapshots(t) /\ MadeEmpty(t)' = MadeEmpty(t)
        /\ Bounded(t)' = Bounded(t) /\ Ended(t)' = Ended(t)
    BY Zenon DEF ScanSame, Snapshots, MadeEmpty, Bounded, Ended
  <1>6. num_pages <= num_pages' /\ \A p \in PageIds : num_tuples[p] <= num_tuples'[p] BY Zenon DEF Grows
  <1>7. StopInv(t)'
    <2>1. (spc[t] # "idle" => present[t] \subseteq Tuples)' BY Zenon, <1>1 DEF StopInv, ScanSame
    <2>2. (spc[t] # "idle" /\ Snapshots(t) =>
            /\ stop_page[t] <= num_pages
            /\ stop_page[t] > 1 => num_tuples[stop_page[t]] > 0)'
      <3> SUFFICES ASSUME spc[t] # "idle", Snapshots(t)
                   PROVE  stop_page[t] <= num_pages' /\ (stop_page[t] > 1 => num_tuples'[stop_page[t]] > 0)
        BY <1>5, Zenon DEF ScanSame
      <3>1. stop_page[t] <= num_pages /\ (stop_page[t] > 1 => num_tuples[stop_page[t]] > 0) BY Zenon DEF StopInv
      <3>2. stop_page[t] \in PageIds BY Zenon, <1>3 DEF Snapshots
      <3>3. num_tuples[stop_page[t]] <= num_tuples'[stop_page[t]] /\ num_tuples[stop_page[t]] \in Nat
            /\ num_tuples'[stop_page[t]] \in Nat
        BY Zenon, <1>3, <1>4, <1>6, <3>2
      <3> QED BY <1>3, <1>4, <1>6, <3>1, <3>3
    <2>3. (spc[t] = "count" => Snapshots(t) /\ \A r \in present[t] : r[1] <= stop_page[t])'
      BY Zenon, <1>5 DEF StopInv, ScanSame
    <2>4. (Snapshots(t) /\ spc[t] \in {"construct", "check", "advance"} =>
            /\ snapshot[t] = RidsBelow(stop_page[t], stop_slot[t])
            /\ stop_slot[t] <= num_tuples[stop_page[t]]
            /\ stop_page[t] > 1 => stop_slot[t] > 0
            /\ present[t] \subseteq snapshot[t])'
      <3> SUFFICES ASSUME Snapshots(t), spc[t] \in {"construct", "check", "advance"}
                   PROVE  /\ snapshot[t] = RidsBelow(stop_page[t], stop_slot[t])'
                          /\ stop_slot[t] <= num_tuples'[stop_page[t]]
                          /\ stop_page[t] > 1 => stop_slot[t] > 0
                          /\ present[t] \subseteq snapshot[t]
        BY <1>5, Zenon DEF ScanSame
      <3>1. /\ snapshot[t] = RidsBelow(stop_page[t], stop_slot[t]) /\ stop_page[t] <= num_pages
            /\ stop_slot[t] <= num_tuples[stop_page[t]]
            /\ stop_page[t] > 1 => stop_slot[t] > 0
            /\ present[t] \subseteq snapshot[t]
        BY Zenon DEF StopInv
      <3>2. stop_page[t] \in PageIds BY Zenon, <1>3 DEF Snapshots
      <3>3. num_tuples[stop_page[t]] <= num_tuples'[stop_page[t]] /\ num_tuples[stop_page[t]] \in Nat
            /\ num_tuples'[stop_page[t]] \in Nat
        BY Zenon, <1>3, <1>4, <1>6, <3>2
      <3>4. RidsBelow(stop_page[t], stop_slot[t])' = RidsBelow(stop_page[t], stop_slot[t])
        BY <1>2, <1>3, <3>1 DEF ScanSame, RidsBelow
      <3> QED BY <1>3, <3>1, <3>3, <3>4
    <2> QED BY Zenon, <2>1, <2>2, <2>3, <2>4 DEF StopInv
  <1>8. PositionInv(t)'
    <2>1. (spc[t] \in {"count", "construct"} => visited[t] = {})' BY Zenon DEF PositionInv, ScanSame
    <2>2. ASSUME spc[t] \in {"check", "advance"}, rid_page[t] # INVALID_PAGE_ID
          PROVE  /\ rid_page[t] <= num_pages'
                 /\ visited[t] = RidsBelow(rid_page[t], IF spc[t] = "check" THEN rid_slot[t] ELSE rid_slot[t] + 1)'
                 /\ rid_slot[t] < num_tuples'[rid_page[t]] \/ (spc[t] = "check" /\ rid_slot[t] = 0 /\ rid_page[t] > 1)
      <3>1. /\ rid_page[t] <= num_pages
            /\ visited[t] = RidsBelow(rid_page[t], IF spc[t] = "check" THEN rid_slot[t] ELSE rid_slot[t] + 1)
            /\ rid_slot[t] < num_tuples[rid_page[t]] \/ (spc[t] = "check" /\ rid_slot[t] = 0 /\ rid_page[t] > 1)
        BY <2>2, Zenon DEF PositionInv
      <3>2. rid_page[t] \in PageIds BY Zenon, <1>3, <2>2
      <3>3. num_tuples[rid_page[t]] <= num_tuples'[rid_page[t]] /\ num_tuples[rid_page[t]] \in Nat
            /\ num_tuples'[rid_page[t]] \in Nat
        BY Zenon, <1>3, <1>4, <1>6, <3>2
      <3>4. RidsBelow(rid_page[t], IF spc[t] = "check" THEN rid_slot[t] ELSE rid_slot[t] + 1)'
              = RidsBelow(rid_page[t], IF spc[t] = "check" THEN rid_slot[t] ELSE rid_slot[t] + 1)
        BY <1>2, <1>3, <3>1 DEF ScanSame, RidsBelow
      <3>5. rid_page[t] <= num_pages' BY <1>3, <1>4, <1>6, <3>1
      <3>6. rid_slot[t] < num_tuples'[rid_page[t]] \/ (spc[t] = "check" /\ rid_slot[t] = 0 /\ rid_page[t] > 1)
        BY <1>3, <3>1, <3>3
      <3> QED BY Zenon, <3>1, <3>4, <3>5, <3>6
    <2>3. (spc[t] \in {"check", "advance"} /\ rid_page[t] # INVALID_PAGE_ID =>
            (Bounded(t) => rid_page[t] < stop_page[t] \/ (rid_page[t] = stop_page[t] /\ rid_slot[t] < stop_slot[t])))'
      BY <1>5, Zenon DEF PositionInv, ScanSame
    <2>4. (spc[t] = "advance" => rid_page[t] # INVALID_PAGE_ID)' BY Zenon DEF PositionInv, ScanSame
    <2>5. (Ended(t) => present[t] \subseteq visited[t] /\ (Bounded(t) => visited[t] = snapshot[t]))'
      BY <1>5, Zenon DEF PositionInv, ScanSame
    <2> QED BY <2>1, <2>2, <2>3, <2>4, <2>5, Zenon DEF PositionInv, ScanSame
  <1> QED BY Zenon, <1>7, <1>8

(* The rids below a rid, as rid_ advances. *)
LEMMA RidsBelowFirst ==
    ASSUME TypeOK
    PROVE  RidsBelow(first_page_id_, 0) = {}
  BY RidType, HeapTypes DEF RidsBelow, Rids, first_page_id_

LEMMA RidsBelowNext ==
    ASSUME TypeOK, NEW p \in PageIds, NEW n \in Nat, n < num_tuples[p]
    PROVE  RidsBelow(p, n + 1) = RidsBelow(p, n) \cup {<<p, n>>}
  <1>1. num_tuples[p] \in 0..SlotsPerPage BY Zenon DEF TypeOK
  <1>2. n \in 0..SlotsPerPage BY <1>1, HeapAssumption
  <1>3. \A r \in Rids : r[1] \in Int /\ r[2] \in Nat /\ r = <<r[1], r[2]>> BY RidType DEF Rids
  <1>4. <<p, n>> \in Rids BY Zenon, <1>2 DEF Rids
  <1>5. p \in Int BY Zenon, HeapTypes
  <1>6. ASSUME NEW r \in Rids PROVE r \in RidsBelow(p, n + 1) <=> r \in RidsBelow(p, n) \cup {<<p, n>>}
    <2>1. r[2] < n + 1 <=> r[2] < n \/ r[2] = n BY <1>3, <1>6
    <2>2. r = <<p, n>> <=> r[1] = p /\ r[2] = n BY <1>3, <1>6
    <2> QED BY Zenon, <2>1, <2>2 DEF RidsBelow, Rids
  <1>7. RidsBelow(p, n + 1) \subseteq Rids /\ RidsBelow(p, n) \subseteq Rids BY Zenon DEF RidsBelow, Rids
  <1> QED BY Zenon, <1>4, <1>6, <1>7

LEMMA RidsBelowPage ==
    ASSUME TypeOK, NEW p \in PageIds
    PROVE  RidsBelow(p + 1, 0) = RidsBelow(p, num_tuples[p])
  <1>1. p \in Int BY Zenon, HeapTypes
  <1>2. ASSUME NEW r \in Rids PROVE r \in RidsBelow(p + 1, 0) <=> r \in RidsBelow(p, num_tuples[p])
    <2>1. r[1] \in Int /\ r[2] \in Nat BY Zenon, <1>2, RidType
    <2>2. r[1] < p + 1 <=> r[1] < p \/ r[1] = p BY <1>1, <2>1
    <2>3. ~(r[2] < 0) BY <2>1
    <2> QED BY Zenon, <2>2, <2>3 DEF RidsBelow, Rids
  <1>3. RidsBelow(p + 1, 0) \subseteq Rids /\ RidsBelow(p, num_tuples[p]) \subseteq Rids BY Zenon DEF RidsBelow, Rids
  <1> QED BY Zenon, <1>2, <1>3

LEMMA RidsBelowAll ==
    ASSUME TypeOK, Chained
    PROVE  RidsBelow(num_pages, num_tuples[num_pages]) = Tuples
  <1>1. num_pages \in Int BY Zenon, HeapTypes
  <1>2. ASSUME NEW r \in Rids PROVE r \in RidsBelow(num_pages, num_tuples[num_pages]) <=> r \in Tuples
    <2>1. r[1] \in PageIds /\ r[1] \in Int /\ r[2] \in Nat BY Zenon, <1>2, RidType
    <2>2. r[1] > num_pages => ~(r[2] < num_tuples[r[1]]) BY <2>1 DEF Chained
    <2>3. r[1] < num_pages \/ r[1] = num_pages \/ r[1] > num_pages BY <1>1, <2>1
    <2>4. r[1] > num_pages => ~(r[1] < num_pages) /\ r[1] # num_pages BY <1>1, <2>1
    <2> QED BY Zenon, <2>2, <2>3, <2>4 DEF RidsBelow, Rids, Tuples
  <1>3. RidsBelow(num_pages, num_tuples[num_pages]) \subseteq Rids /\ Tuples \subseteq Rids
    BY Zenon DEF RidsBelow, Rids, Tuples
  <1> QED BY Zenon, <1>2, <1>3

LEMMA RidsBelowMonotone ==
    ASSUME TypeOK, NEW p \in PageIds, NEW q \in PageIds, NEW n \in Nat, NEW m \in Nat,
           (p < q /\ n <= num_tuples[p]) \/ (p = q /\ n <= m)
    PROVE  RidsBelow(p, n) \subseteq RidsBelow(q, m)
  <1>1. p \in Int /\ q \in Int /\ num_tuples[p] \in Nat BY Zenon, HeapTypes
  <1>2. ASSUME NEW r \in Rids, r \in RidsBelow(p, n) PROVE r \in RidsBelow(q, m)
    <2>1. r[1] \in Int /\ r[2] \in Nat BY Zenon, <1>2, RidType
    <2>2. (r[1] < p /\ r[2] < num_tuples[r[1]]) \/ (r[1] = p /\ r[2] < n) BY Zenon, <1>2 DEF RidsBelow
    <2>3. (r[1] < q /\ r[2] < num_tuples[r[1]]) \/ (r[1] = q /\ r[2] < m) BY <1>1, <2>1, <2>2
    <2> QED BY Zenon, <1>2, <2>3 DEF RidsBelow, Rids
  <1>3. RidsBelow(p, n) \subseteq Rids BY Zenon DEF RidsBelow, Rids
  <1> QED BY Zenon, <1>2, <1>3

(* An iterator whose snapshot is not empty was made of a heap with tuples. *)
LEMMA BoundedStop ==
    ASSUME TypeOK, NEW t \in Scanners, StopInv(t), Bounded(t), spc[t] \in {"construct", "check", "advance"}
    PROVE  /\ stop_page[t] \in PageIds /\ stop_page[t] <= num_pages
           /\ stop_slot[t] > 0 /\ stop_slot[t] <= num_tuples[stop_page[t]]
           /\ snapshot[t] = RidsBelow(stop_page[t], stop_slot[t])
  <1>1. stop_page[t] \in PageIds /\ stop_page[t] \in Int /\ stop_page[t] >= 1 /\ stop_slot[t] \in Nat
    BY Zenon, ScanTypes DEF Bounded, Snapshots
  <1>2. /\ snapshot[t] = RidsBelow(stop_page[t], stop_slot[t]) /\ stop_page[t] <= num_pages
        /\ stop_slot[t] <= num_tuples[stop_page[t]] /\ (stop_page[t] > 1 => stop_slot[t] > 0)
        /\ snapshot[t] # {}
    BY Zenon DEF StopInv, Bounded, MadeEmpty
  <1>3. ~(stop_page[t] = 1 /\ stop_slot[t] = 0) BY Zenon, <1>2, RidsBelowFirst DEF first_page_id_
  <1>4. stop_page[t] > 1 \/ stop_page[t] = 1 BY <1>1
  <1>5. stop_slot[t] > 0 BY <1>1, <1>2, <1>3, <1>4
  <1> QED BY Zenon, <1>1, <1>2, <1>5

-----------------------------------------------------------------------------
(* Scanners *)

LEMMA ScannerFrame ==
    ASSUME TypeOK, HeapInv, NEW t \in Scanners, Scanner(t)
    PROVE  /\ UNCHANGED <<heap, latch_, wlatch, inserter, returned>> /\ failed = "no"
           /\ \A u \in Scanners \ {t} : ScanSame(u)
  <1>1. UNCHANGED <<heap, latch_, wlatch, inserter, returned>> /\ failed = "no"
    BY Zenon DEF Scanner, ReadLastPage, ReadNumTuples, MakeEagerIterator, Construct, GetTuple, Increment, IsEnd
  <1>2. \A u \in Scanners \ {t} : spc'[u] = spc[u] /\ stop_page'[u] = stop_page[u]
    BY Zenon DEF TypeOK, Scanner, ReadLastPage, ReadNumTuples, MakeEagerIterator, Construct, GetTuple, Increment, IsEnd
  <1>3. \A u \in Scanners \ {t} : stop_slot'[u] = stop_slot[u]
    BY Zenon DEF TypeOK, Scanner, ReadLastPage, ReadNumTuples, MakeEagerIterator, Construct, GetTuple, Increment, IsEnd
  <1>4. \A u \in Scanners \ {t} : rid_page'[u] = rid_page[u]
    BY Zenon DEF TypeOK, Scanner, ReadLastPage, ReadNumTuples, MakeEagerIterator, Construct, GetTuple, Increment, IsEnd
  <1>5. \A u \in Scanners \ {t} : rid_slot'[u] = rid_slot[u]
    BY Zenon DEF TypeOK, Scanner, ReadLastPage, ReadNumTuples, MakeEagerIterator, Construct, GetTuple, Increment, IsEnd
  <1>6. \A u \in Scanners \ {t} : visited'[u] = visited[u]
    BY Zenon DEF TypeOK, Scanner, ReadLastPage, ReadNumTuples, MakeEagerIterator, Construct, GetTuple, Increment, IsEnd
  <1>7. \A u \in Scanners \ {t} : snapshot'[u] = snapshot[u] /\ present'[u] = present[u]
    BY Zenon DEF TypeOK, Scanner, ReadLastPage, ReadNumTuples, MakeEagerIterator, Construct, GetTuple, Increment, IsEnd
  <1> QED BY <1>1, <1>2, <1>3, <1>4, <1>5, <1>6, <1>7, Zenon DEF ScanSame

LEMMA ReadLastPageScan ==
    ASSUME TypeOK, HeapInv, NEW t \in Scanners, ReadLastPage(t)
    PROVE  TypeOK' /\ StopInv(t)' /\ PositionInv(t)' /\ failed' = "no"
  <1>1. TypeOK' /\ failed' = "no" BY Zenon DEF TypeOK, ReadLastPage, heap, inserter
  <1>2. /\ spc'[t] = "count" /\ stop_page'[t] = num_pages /\ present'[t] = returned /\ visited'[t] = {}
        /\ UNCHANGED <<heap, returned>> /\ latch_ = NoThread
    BY Zenon DEF TypeOK, ReadLastPage, HeapInv, Chained
  <1>3. num_pages \in PageIds /\ num_pages \in Int /\ num_pages >= 1 /\ num_tuples[num_pages] \in Nat
    BY Zenon, HeapTypes
  <1>4. returned \subseteq Tuples /\ Chained BY Zenon DEF HeapInv
  <1>5. \A r \in returned : r[1] <= num_pages
    <2>1. \A r \in Tuples : r[1] \in PageIds /\ r[1] \in Int /\ r[2] \in Nat /\ r[2] < num_tuples[r[1]]
      BY Zenon, RidType DEF Tuples
    <2>2. \A r \in Tuples : ~(r[1] > num_pages) BY <1>4, <2>1 DEF Chained
    <2> QED BY <1>3, <1>4, <2>1, <2>2
  <1>6. num_pages > 1 => num_tuples[num_pages] > 0 BY <1>2, <1>3 DEF HeapInv, Growing
  <1>7. Tuples' = Tuples BY Zenon, <1>2 DEF Tuples, heap
  <1>8. Snapshots(t)' BY <1>2, <1>3 DEF Snapshots, INVALID_PAGE_ID
  <1>9. StopInv(t)'
    BY <1>2, <1>3, <1>4, <1>5, <1>6, <1>7, <1>8 DEF StopInv, heap
  <1>10. PositionInv(t)' BY Zenon, <1>2 DEF PositionInv, Ended
  <1> QED BY Zenon, <1>1, <1>9, <1>10

LEMMA ReadNumTuplesScan ==
    ASSUME TypeOK, HeapInv, NEW t \in Scanners, StopInv(t), PositionInv(t), ReadNumTuples(t)
    PROVE  TypeOK' /\ StopInv(t)' /\ PositionInv(t)' /\ failed' = "no"
  <1> DEFINE p == stop_page[t]
  <1>1. spc[t] = "count" /\ Snapshots(t) /\ present[t] \subseteq Tuples /\ visited[t] = {}
        /\ (\A r \in present[t] : r[1] <= p) /\ p <= num_pages /\ (p > 1 => num_tuples[p] > 0)
    BY Zenon DEF ReadNumTuples, StopInv, PositionInv
  <1>2. p \in PageIds /\ p \in Int /\ num_tuples[p] \in Nat BY <1>1, ScanTypes, Zenon DEF Snapshots
  <1>3. num_tuples[p] \in 0..SlotsPerPage BY <1>2, Zenon DEF TypeOK
  <1>4. RidsBelow(p, num_tuples[p]) \subseteq Rids BY Zenon DEF RidsBelow, Rids
  <1>5. /\ spc'[t] = "construct" /\ stop_page'[t] = p /\ stop_slot'[t] = num_tuples[p]
        /\ snapshot'[t] = RidsBelow(p, num_tuples[p]) /\ present'[t] = present[t] /\ visited'[t] = {}
        /\ UNCHANGED heap /\ failed' = "no"
    BY Zenon, <1>1 DEF TypeOK, ReadNumTuples
  <1>6. TypeOK' BY Zenon, <1>3, <1>4 DEF TypeOK, ReadNumTuples, heap, inserter
  <1>7. Tuples' = Tuples /\ RidsBelow(stop_page[t], stop_slot[t])' = RidsBelow(p, num_tuples[p])
    BY <1>5, Zenon DEF Tuples, RidsBelow, heap
  <1>8. present[t] \subseteq RidsBelow(p, num_tuples[p])
    <2>1. \A r \in present[t] : r \in Rids /\ r[1] \in Int /\ r[1] <= p /\ r[2] < num_tuples[r[1]]
      BY Zenon, <1>1, RidType DEF Tuples
    <2>2. \A r \in present[t] : r[1] < p \/ r[1] = p BY <1>2, <2>1
    <2> QED BY <2>1, <2>2, Zenon DEF RidsBelow, Rids
  <1>9. StopInv(t)' BY <1>1, <1>2, <1>5, <1>7, <1>8 DEF StopInv, Snapshots, heap
  <1>10. PositionInv(t)' BY <1>5, Zenon DEF PositionInv, Ended
  <1> QED BY Zenon, <1>5, <1>6, <1>9, <1>10

LEMMA EagerScan ==
    ASSUME TypeOK, HeapInv, NEW t \in Scanners, MakeEagerIterator(t)
    PROVE  TypeOK' /\ StopInv(t)' /\ PositionInv(t)' /\ failed' = "no"
  <1>1. 0 \in 0..SlotsPerPage BY HeapAssumption
  <1>2. TypeOK' /\ failed' = "no" BY Zenon, <1>1 DEF TypeOK, MakeEagerIterator, heap, inserter
  <1>3. /\ spc'[t] = "construct" /\ stop_page'[t] = INVALID_PAGE_ID /\ present'[t] = returned /\ visited'[t] = {}
        /\ UNCHANGED <<heap, returned>>
    BY Zenon DEF TypeOK, MakeEagerIterator
  <1>4. Tuples' = Tuples /\ returned \subseteq Tuples BY <1>3, Zenon DEF Tuples, heap, HeapInv
  <1>5. StopInv(t)' BY <1>3, <1>4, Zenon DEF StopInv, Snapshots
  <1>6. PositionInv(t)' BY Zenon, <1>3 DEF PositionInv, Ended
  <1> QED BY Zenon, <1>2, <1>5, <1>6

(* A step of the scan itself leaves the stop rid alone. *)
LEMMA StopKept ==
    ASSUME NEW t \in Scanners, StopInv(t), UNCHANGED heap,
           spc[t] \in {"construct", "check", "advance"}, spc'[t] \in {"check", "advance"},
           stop_page'[t] = stop_page[t], stop_slot'[t] = stop_slot[t],
           snapshot'[t] = snapshot[t], present'[t] = present[t]
    PROVE  StopInv(t)' /\ (Bounded(t)' <=> Bounded(t))
  <1>1. Tuples' = Tuples /\ RidsBelow(stop_page[t], stop_slot[t])' = RidsBelow(stop_page[t], stop_slot[t])
    BY Zenon DEF Tuples, RidsBelow, heap
  <1>2. Snapshots(t)' <=> Snapshots(t) BY Zenon DEF Snapshots
  <1>3. StopInv(t)' BY <1>1, <1>2, Zenon DEF StopInv, heap
  <1> QED BY <1>2, <1>3, Zenon DEF Bounded, MadeEmpty

LEMMA ConstructScan ==
    ASSUME TypeOK, HeapInv, NEW t \in Scanners, StopInv(t), PositionInv(t), Construct(t)
    PROVE  TypeOK' /\ StopInv(t)' /\ PositionInv(t)' /\ failed' = "no"
  <1>1. spc[t] = "construct" /\ UNCHANGED heap /\ failed' = "no" /\ visited[t] = {}
    BY Zenon DEF Construct, PositionInv
  <1>2. /\ spc'[t] = "check" /\ rid_slot'[t] = 0
        /\ rid_page'[t] = IF 0 >= num_tuples[1] THEN INVALID_PAGE_ID ELSE 1
        /\ stop_page'[t] = stop_page[t] /\ stop_slot'[t] = stop_slot[t] /\ snapshot'[t] = snapshot[t]
        /\ present'[t] = present[t] /\ visited'[t] = visited[t]
    BY Zenon DEF TypeOK, Construct, first_page_id_
  <1>3. 1 \in PageIds /\ 0 \in 0..SlotsPerPage BY HeapAssumption DEF PageIds
  <1>4. num_pages \in PageIds /\ num_pages \in Int /\ num_pages >= 1 /\ num_tuples[1] \in Nat
    BY Zenon, <1>3, HeapTypes
  <1>5. TypeOK' BY Zenon, <1>3 DEF TypeOK, Construct, heap, inserter, first_page_id_
  <1>6. StopInv(t)' /\ (Bounded(t)' <=> Bounded(t)) BY Zenon, <1>1, <1>2, StopKept
  <1>7. Bounded(t) =>
          /\ stop_page[t] \in PageIds /\ stop_page[t] <= num_pages /\ stop_page[t] \in Int /\ stop_page[t] >= 1
          /\ stop_slot[t] \in Nat /\ stop_slot[t] > 0 /\ stop_slot[t] <= num_tuples[stop_page[t]]
    BY Zenon, <1>1, BoundedStop, ScanTypes
  <1>8. CASE 0 >= num_tuples[1]
    <2>1. num_tuples[1] = 0 BY <1>4, <1>8
    <2>2. num_pages = 1 BY <1>3, <1>4, <2>1 DEF HeapInv, Chained
    <2>3. Tuples = {}
      <3>1. RidsBelow(1, 0) = {} BY Zenon, RidsBelowFirst DEF first_page_id_
      <3> QED BY Zenon, <2>1, <2>2, <3>1, RidsBelowAll DEF HeapInv
    <2>4. present[t] = {} BY <1>1, <2>3, Zenon DEF StopInv
    <2>5. ~Bounded(t)
      <3> SUFFICES ASSUME Bounded(t) PROVE FALSE BY Zenon
      <3>1. stop_page[t] = 1 BY <1>4, <1>7, <2>2
      <3> QED BY <1>7, <2>1, <3>1
    <2>6. rid_page'[t] = INVALID_PAGE_ID BY <1>2, <1>8, Zenon
    <2> QED BY <1>1, <1>2, <1>5, <1>6, <2>4, <2>5, <2>6, Zenon DEF PositionInv, Ended
  <1>9. CASE ~(0 >= num_tuples[1])
    <2>1. num_tuples[1] > 0 BY <1>4, <1>9
    <2>2. rid_page'[t] = 1 BY <1>2, <1>9, Zenon
    <2>3. RidsBelow(1, 0) = {} BY Zenon, RidsBelowFirst DEF first_page_id_
    <2>4. RidsBelow(rid_page[t], IF spc[t] = "check" THEN rid_slot[t] ELSE rid_slot[t] + 1)' = RidsBelow(1, 0)
      BY Zenon, <1>1, <1>2, <2>2 DEF RidsBelow, heap
    <2>5. Bounded(t) => 1 < stop_page[t] \/ (1 = stop_page[t] /\ 0 < stop_slot[t]) BY <1>7
    <2> QED BY <1>1, <1>2, <1>4, <1>5, <1>6, <2>1, <2>2, <2>3, <2>4, <2>5
            DEF PositionInv, Ended, INVALID_PAGE_ID, heap
  <1> QED BY Zenon, <1>8, <1>9

(* GetTuple finds its slot: a page that was empty when rid_ reached it is    *)
(* guarded until its first tuple is in.                                     *)
LEMMA GetTupleScan ==
    ASSUME TypeOK, HeapInv, NEW t \in Scanners, StopInv(t), PositionInv(t), GetTuple(t)
    PROVE  TypeOK' /\ StopInv(t)' /\ PositionInv(t)' /\ failed' = "no"
  <1> DEFINE p == rid_page[t]
             n == rid_slot[t]
  <1>1. spc[t] = "check" /\ p # INVALID_PAGE_ID /\ wlatch[p] = NoThread /\ UNCHANGED heap /\ failed = "no"
    BY Zenon DEF GetTuple
  <1>2. p \in PageIds /\ p \in Int /\ n \in Nat /\ num_tuples[p] \in Nat /\ num_pages \in Int
    BY Zenon, <1>1, ScanTypes
  <1>3. /\ p <= num_pages /\ visited[t] = RidsBelow(p, n)
        /\ n < num_tuples[p] \/ (n = 0 /\ p > 1)
        /\ Bounded(t) => p < stop_page[t] \/ (p = stop_page[t] /\ n < stop_slot[t])
    BY Zenon, <1>1 DEF PositionInv
  <1>4. n < num_tuples[p]
    <2> SUFFICES ASSUME n = 0, p > 1 PROVE num_tuples[p] > 0 BY Zenon, <1>2, <1>3
    <2>1. CASE p < num_pages BY Zenon, <1>2, <2>1 DEF HeapInv, Chained
    <2>2. CASE p = num_pages
      <3>1. num_tuples[p] # 0 BY Zenon, <1>1, <2>2 DEF HeapInv, Growing
      <3> QED BY <1>2, <3>1
    <2> QED BY <1>2, <1>3, <2>1, <2>2
  <1>5. ~(n >= num_tuples[p]) BY <1>2, <1>4
  <1>6. <<p, n>> \in Rids
    <2>1. num_tuples[p] \in 0..SlotsPerPage BY <1>2, Zenon DEF TypeOK
    <2>2. n \in 0..SlotsPerPage BY <1>2, <1>4, <2>1, HeapAssumption
    <2> QED BY Zenon, <1>2, <2>2 DEF Rids
  <1>7. /\ visited' = [visited EXCEPT ![t] = @ \cup {<<p, n>>}] /\ spc' = [spc EXCEPT ![t] = "advance"] /\ UNCHANGED failed
        /\ UNCHANGED <<heap, latch_, wlatch, inserter, stop_page, stop_slot, rid_page, rid_slot, snapshot, present, returned>>
    BY <1>5, Zenon DEF GetTuple
  <1>8. TypeOK' BY <1>6, <1>7, Zenon DEF TypeOK, heap, inserter
  <1>9. spc'[t] = "advance" /\ visited'[t] = visited[t] \cup {<<p, n>>} BY <1>7, Zenon DEF TypeOK
  <1>10. StopInv(t)' /\ (Bounded(t)' <=> Bounded(t)) BY Zenon, <1>1, <1>7, <1>9, StopKept
  <1>11. visited'[t] = RidsBelow(p, n + 1) BY Zenon, <1>2, <1>3, <1>4, <1>9, RidsBelowNext
  <1>12. RidsBelow(rid_page[t], IF spc[t] = "check" THEN rid_slot[t] ELSE rid_slot[t] + 1)' = RidsBelow(p, n + 1)
    BY <1>7, <1>9, Zenon DEF RidsBelow, heap
  <1>13. PositionInv(t)'
    BY <1>1, <1>3, <1>4, <1>7, <1>9, <1>10, <1>11, <1>12, Zenon DEF PositionInv, Ended, heap
  <1> QED BY Zenon, <1>1, <1>7, <1>8, <1>10, <1>13

(* operator++ stays within the stop rid, unless the iterator was made of an *)
(* empty heap.                                                              *)
LEMMA IncrementScan ==
    ASSUME TypeOK, HeapInv, NEW t \in Scanners, StopInv(t), PositionInv(t), Increment(t)
    PROVE  /\ TypeOK' /\ StopInv(t)' /\ PositionInv(t)'
           /\ failed' = "no" \/ (failed' = "iterate out of bound" /\ (MadeEmpty(t) /\ OutOfBound(t))')
  <1> DEFINE p == rid_page[t]
             n == rid_slot[t]
  <1>1. spc[t] = "advance" /\ failed = "no"
        /\ UNCHANGED <<heap, latch_, wlatch, inserter, stop_page, stop_slot, visited, snapshot, present, returned>>
    BY Zenon DEF Increment
  <1>2. p # INVALID_PAGE_ID BY <1>1, Zenon DEF PositionInv
  <1>3. p \in PageIds /\ p \in Int /\ p >= 1 /\ n \in Nat /\ num_tuples[p] \in Nat /\ num_pages \in Int
        /\ stop_page[t] \in Int /\ stop_slot[t] \in Nat
    BY Zenon, <1>2, ScanTypes
  <1>4. /\ p <= num_pages /\ visited[t] = RidsBelow(p, n + 1) /\ n < num_tuples[p]
        /\ Bounded(t) => p < stop_page[t] \/ (p = stop_page[t] /\ n < stop_slot[t])
    BY <1>1, <1>2, Zenon DEF PositionInv
  <1>5. Bounded(t) =>
          /\ stop_page[t] \in PageIds /\ stop_page[t] <= num_pages
          /\ stop_slot[t] > 0 /\ stop_slot[t] <= num_tuples[stop_page[t]]
          /\ snapshot[t] = RidsBelow(stop_page[t], stop_slot[t])
    BY Zenon, <1>1, BoundedStop
  <1>6. CASE OutOfBound(t)
    <2>1. failed' = "iterate out of bound" /\ UNCHANGED <<rid_page, rid_slot, spc>> BY <1>6, Zenon DEF Increment
    <2>2. TypeOK' BY <1>1, <2>1, Zenon DEF TypeOK, heap, inserter
    <2>3. Grows BY Zenon, <1>1, StaysGrows DEF heap
    <2>4. StopInv(t)' /\ PositionInv(t)' BY <1>1, <2>1, <2>2, <2>3, ScanKept, Zenon DEF ScanSame
    <2>5. ~Bounded(t) BY <1>3, <1>4, <1>6 DEF OutOfBound
    <2>6. MadeEmpty(t) BY <1>6, <2>5, Zenon DEF OutOfBound, Bounded, Snapshots
    <2>7. (MadeEmpty(t) /\ OutOfBound(t))' BY <1>1, <1>6, <2>1, <2>6, Zenon DEF MadeEmpty, Snapshots, OutOfBound
    <2> QED BY Zenon, <2>1, <2>2, <2>4, <2>7
  <1>7. CASE ~OutOfBound(t)
    <2>1. /\ rid_page' = [rid_page EXCEPT ![t] = Following(t)[1]] /\ rid_slot' = [rid_slot EXCEPT ![t] = Following(t)[2]]
          /\ spc' = [spc EXCEPT ![t] = "check"] /\ failed' = "no"
      BY <1>1, <1>7, Zenon DEF Increment
    <2>2. rid_page'[t] = Following(t)[1] /\ rid_slot'[t] = Following(t)[2] /\ spc'[t] = "check"
      BY <2>1, Zenon DEF TypeOK
    <2>3. StopInv(t)' /\ (Bounded(t)' <=> Bounded(t)) BY Zenon, <1>1, <2>2, StopKept
    <2>4. 0 \in 0..SlotsPerPage /\ num_tuples[p] \in 0..SlotsPerPage
      <3>1. 0 \in 0..SlotsPerPage BY HeapAssumption
      <3>2. num_tuples[p] \in 0..SlotsPerPage BY <1>3, Zenon DEF TypeOK
      <3> QED BY Zenon, <3>1, <3>2
    <2>5. n + 1 < num_tuples[p] => n + 1 \in 0..SlotsPerPage BY <1>3, <2>4, HeapAssumption
    <2>6. next_page_id[p] \in PageIds \cup {INVALID_PAGE_ID} BY <1>3, Zenon DEF TypeOK
    <2>7. Following(t)[1] \in PageIds \cup {INVALID_PAGE_ID} /\ Following(t)[2] \in 0..SlotsPerPage
      BY Zenon, <1>3, <2>4, <2>5, <2>6 DEF Following
    <2>8. TypeOK' BY Zenon, <1>1, <2>1, <2>7 DEF TypeOK, heap, inserter
    <2>9. \A x, y : rid_page'[t] = x /\ rid_slot'[t] = y =>
            RidsBelow(rid_page[t], IF spc[t] = "check" THEN rid_slot[t] ELSE rid_slot[t] + 1)' = RidsBelow(x, y)
      BY <1>1, <2>2, Zenon DEF RidsBelow, heap
    <2>10. CASE p = stop_page[t] /\ n + 1 = stop_slot[t]
      <3>1. rid_page'[t] = INVALID_PAGE_ID BY Zenon, <2>2, <2>10 DEF Following
      <3>2. Snapshots(t) BY Zenon, <1>2, <2>10 DEF Snapshots
      <3>3. snapshot[t] = RidsBelow(stop_page[t], stop_slot[t]) /\ present[t] \subseteq snapshot[t]
        BY <1>1, <3>2, Zenon DEF StopInv
      <3>4. visited[t] = snapshot[t] BY Zenon, <1>4, <2>10, <3>3
      <3>5. PositionInv(t)' BY <1>1, <2>2, <3>1, <3>3, <3>4, Zenon DEF PositionInv, Ended
      <3> QED BY Zenon, <2>1, <2>3, <2>8, <3>5
    <2>11. CASE ~(p = stop_page[t] /\ n + 1 = stop_slot[t]) /\ n + 1 < num_tuples[p]
      <3>1. rid_page'[t] = p /\ rid_slot'[t] = n + 1 BY <2>2, <2>11, Zenon DEF Following
      <3>2. Bounded(t) => p < stop_page[t] \/ (p = stop_page[t] /\ n + 1 < stop_slot[t])
        BY <1>3, <1>4, <2>11
      <3>3. visited'[t] = RidsBelow(rid_page[t], IF spc[t] = "check" THEN rid_slot[t] ELSE rid_slot[t] + 1)'
        BY Zenon, <1>1, <1>4, <2>9, <3>1
      <3>4. PositionInv(t)'
        BY <1>1, <1>2, <1>4, <2>2, <2>3, <2>11, <3>1, <3>2, <3>3, Zenon DEF PositionInv, Ended, heap
      <3> QED BY Zenon, <2>1, <2>3, <2>8, <3>4
    <2>12. CASE ~(p = stop_page[t] /\ n + 1 = stop_slot[t]) /\ ~(n + 1 < num_tuples[p])
      <3>1. rid_page'[t] = next_page_id[p] /\ rid_slot'[t] = 0 BY Zenon, <2>2, <2>12 DEF Following
      <3>2. num_tuples[p] = n + 1 BY <1>3, <1>4, <2>12
      <3>3. next_page_id[p] = IF p < num_pages THEN p + 1 ELSE INVALID_PAGE_ID BY <1>3, Zenon DEF HeapInv, Chained
      <3>4. Bounded(t) => p < stop_page[t] /\ p < num_pages
        <4> SUFFICES ASSUME Bounded(t) PROVE p < stop_page[t] /\ p < num_pages BY Zenon
        <4>1. p # stop_page[t]
          <5> SUFFICES ASSUME p = stop_page[t] PROVE FALSE BY Zenon
          <5>1. n < stop_slot[t] /\ stop_slot[t] <= n + 1 /\ n + 1 # stop_slot[t] BY <1>3, <1>4, <1>5, <2>12, <3>2
          <5> QED BY <1>3, <5>1
        <4> QED BY <1>3, <1>4, <1>5, <4>1
      <3>5. CASE p < num_pages
        <4>1. rid_page'[t] = p + 1 BY Zenon, <3>1, <3>3, <3>5
        <4>2. visited[t] = RidsBelow(p + 1, 0) BY Zenon, <1>3, <1>4, <3>2, RidsBelowPage
        <4>3. visited'[t] = RidsBelow(rid_page[t], IF spc[t] = "check" THEN rid_slot[t] ELSE rid_slot[t] + 1)'
          BY Zenon, <1>1, <2>9, <3>1, <4>1, <4>2
        <4>4. p + 1 <= num_pages /\ p + 1 > 1 /\ p + 1 # INVALID_PAGE_ID BY <1>3, <3>5 DEF INVALID_PAGE_ID
        <4>5. Bounded(t) => p + 1 < stop_page[t] \/ (p + 1 = stop_page[t] /\ 0 < stop_slot[t])
          BY <1>3, <1>5, <3>4
        <4>6. PositionInv(t)'
          BY <1>1, <2>2, <2>3, <3>1, <4>1, <4>3, <4>4, <4>5, Zenon DEF PositionInv, Ended, heap
        <4> QED BY Zenon, <2>1, <2>3, <2>8, <4>6
      <3>6. CASE ~(p < num_pages)
        <4>1. p = num_pages /\ rid_page'[t] = INVALID_PAGE_ID BY <1>3, <1>4, <3>1, <3>3, <3>6
        <4>2. visited[t] = Tuples BY Zenon, <1>4, <3>2, <4>1, RidsBelowAll DEF HeapInv
        <4>3. present[t] \subseteq visited[t] BY <1>1, <4>2, Zenon DEF StopInv
        <4>4. PositionInv(t)' BY <1>1, <2>2, <2>3, <3>4, <3>6, <4>1, <4>3, Zenon DEF PositionInv, Ended
        <4> QED BY Zenon, <2>1, <2>3, <2>8, <4>4
      <3> QED BY Zenon, <3>5, <3>6
    <2> QED BY Zenon, <2>10, <2>11, <2>12
  <1> QED BY Zenon, <1>6, <1>7

LEMMA IsEndScan ==
    ASSUME TypeOK, HeapInv, NEW t \in Scanners, IsEnd(t)
    PROVE  TypeOK' /\ StopInv(t)' /\ PositionInv(t)' /\ failed' = "no"
  <1>1. TypeOK' /\ failed' = "no" BY Zenon DEF TypeOK, IsEnd, heap, inserter
  <1>2. spc'[t] = "idle" BY Zenon DEF TypeOK, IsEnd
  <1> QED BY <1>1, <1>2, Zenon DEF StopInv, PositionInv, Ended

-----------------------------------------------------------------------------
(* The inductive invariant *)

LEMMA InvInit == Init => IInv
  <1> SUFFICES ASSUME Init PROVE IInv BY Zenon
  <1>1. 1 \in PageIds /\ 0 \in 0..SlotsPerPage BY HeapAssumption DEF PageIds
  <1>2. TypeOK BY Zenon, <1>1 DEF Init, TypeOK, first_page_id_
  <1>3. \A p \in PageIds : p \in Int /\ p >= 1 BY Zenon, HeapTypes, <1>2
  <1>4. Chained BY <1>3 DEF Init, Chained, first_page_id_, INVALID_PAGE_ID
  <1>5. Latched
    <2>1. \A t \in Inserters : ipc[t] = "idle" /\ latch_ # t BY Zenon, HeapAssumption DEF Init
    <2>2. \A p \in PageIds : wlatch[p] = NoThread BY Zenon DEF Init
    <2> QED BY Zenon, <2>1, <2>2 DEF Latched
  <1>6. Growing BY DEF Init, Growing
  <1>7. HeapInv BY Zenon, <1>4, <1>5, <1>6 DEF HeapInv, Init
  <1>8. ScanInv BY Zenon DEF Init, ScanInv, StopInv, PositionInv, Ended
  <1>9. ScanInBounds BY Zenon DEF Init, ScanInBounds
  <1> QED BY Zenon, <1>2, <1>7, <1>8, <1>9 DEF IInv

LEMMA InvStep ==
    ASSUME IInv, [Next]_vars
    PROVE  IInv'
  <1>1. TypeOK /\ HeapInv /\ ScanInv /\ ScanInBounds BY Zenon DEF IInv
  <1>2. CASE UNCHANGED vars
    <2>1. UNCHANGED <<heap, latch_, wlatch, inserter, scan, returned, failed>> BY Zenon, <1>2 DEF vars
    <2>2. TypeOK' BY <1>1, <2>1, Zenon DEF TypeOK, heap, inserter, scan
    <2>3. Chained' /\ Growing' /\ (returned \subseteq Tuples)'
      BY Zenon, <1>1, <2>1 DEF HeapInv, Chained, Growing, Tuples, heap, inserter
    <2>4. Latched' BY Zenon, <1>1, <2>1 DEF HeapInv, Latched, heap, inserter
    <2>5. Grows BY Zenon, <1>1, <2>1, StaysGrows DEF heap
    <2>6. ScanInv' BY <1>1, <2>1, <2>2, <2>5, ScanKept, Zenon DEF ScanInv, ScanSame, scan
    <2>7. ScanInBounds'
      BY <1>1, <2>1, Zenon DEF ScanInBounds, MadeEmpty, Snapshots, OutOfBound, scan
    <2> QED BY Zenon, <2>2, <2>3, <2>4, <2>6, <2>7 DEF IInv, HeapInv
  <1>3. ASSUME NEW t \in Inserters, Inserter(t) PROVE IInv'
    <2>1. /\ TypeOK' /\ HeapInv' /\ Grows /\ UNCHANGED scan
          /\ failed' \in {"no", "tuple is too large", "tuple outside the page"}
      BY Zenon, <1>1, <1>3, InserterGrows
    <2>2. ScanInv' BY <1>1, <2>1, ScanKept, Zenon DEF ScanInv, ScanSame, scan
    <2>3. ScanInBounds' BY <2>1, Zenon DEF ScanInBounds
    <2> QED BY <2>1, <2>2, <2>3, Zenon DEF IInv
  <1>4. ASSUME NEW t \in Scanners, Scanner(t) PROVE IInv'
    <2>1. /\ UNCHANGED <<heap, latch_, wlatch, inserter, returned>>
          /\ \A u \in Scanners \ {t} : ScanSame(u)
      BY Zenon, <1>1, <1>4, ScannerFrame
    <2>2. StopInv(t) /\ PositionInv(t) BY Zenon, <1>1 DEF ScanInv
    <2>3. /\ TypeOK' /\ StopInv(t)' /\ PositionInv(t)'
          /\ failed' = "no" \/ (failed' = "iterate out of bound" /\ (MadeEmpty(t) /\ OutOfBound(t))')
      <3>1. CASE ReadLastPage(t) BY Zenon, <1>1, <3>1, ReadLastPageScan
      <3>2. CASE ReadNumTuples(t) BY Zenon, <1>1, <2>2, <3>2, ReadNumTuplesScan
      <3>3. CASE MakeEagerIterator(t) BY Zenon, <1>1, <3>3, EagerScan
      <3>4. CASE Construct(t) BY Zenon, <1>1, <2>2, <3>4, ConstructScan
      <3>5. CASE GetTuple(t) BY Zenon, <1>1, <2>2, <3>5, GetTupleScan
      <3>6. CASE Increment(t) BY Zenon, <1>1, <2>2, <3>6, IncrementScan
      <3>7. CASE IsEnd(t) BY Zenon, <1>1, <3>7, IsEndScan
      <3> QED BY <1>4, <3>1, <3>2, <3>3, <3>4, <3>5, <3>6, <3>7, Zenon DEF Scanner
    <2>4. Grows BY Zenon, <1>1, <2>1, StaysGrows DEF heap
    <2>5. HeapInv'
      <3>1. Chained' /\ Growing' /\ (returned \subseteq Tuples)'
        BY Zenon, <1>1, <2>1 DEF HeapInv, Chained, Growing, Tuples, heap, inserter
      <3>2. Latched' BY Zenon, <1>1, <2>1 DEF HeapInv, Latched, heap, inserter
      <3> QED BY Zenon, <3>1, <3>2 DEF HeapInv
    <2>6. ScanInv'
      <3>1. ASSUME NEW u \in Scanners \ {t} PROVE StopInv(u)' /\ PositionInv(u)'
        BY <1>1, <2>1, <2>3, <2>4, <3>1, ScanKept, Zenon DEF ScanInv
      <3> QED BY <2>3, <3>1, Zenon DEF ScanInv
    <2>7. ScanInBounds' BY <2>3, Zenon DEF ScanInBounds
    <2> QED BY <2>3, <2>5, <2>6, <2>7, Zenon DEF IInv
  <1> QED BY Zenon, <1>2, <1>3, <1>4 DEF Next

LEMMA InvHolds == Spec => []IInv
  <1>1. IInv /\ [Next]_vars => IInv' BY Zenon, InvStep
  <1> QED BY <1>1, InvInit, PTL DEF Spec

(* Pages, guards, links and iterators of the table heap keep their types:   *)
(* InsertTuple never names a page beyond those that were made.              *)
THEOREM HeapTypeCorrect == Spec => []TypeOK
  <1>1. IInv => TypeOK BY Zenon DEF IInv
  <1> QED BY <1>1, InvHolds, PTL

(* MakeIterator: a scan visits exactly the tuples up to the one recorded    *)
(* when it was made, and never fails, unless the heap was empty then,       *)
(* whatever InsertTuple does meanwhile and however many threads take part.  *)
THEOREM ScansAreSnapshots == Spec => []ScanIsSnapshot
  <1>1. IInv => ScanIsSnapshot
    <2> SUFFICES ASSUME IInv PROVE ScanIsSnapshot BY Zenon
    <2>1. TypeOK /\ ScanInBounds BY Zenon DEF IInv
    <2>2. ASSUME NEW t \in Scanners, Snapshots(t), ~MadeEmpty(t), spc[t] \in {"check", "advance"}
          PROVE  visited[t] \subseteq snapshot[t] /\ (Ended(t) => visited[t] = snapshot[t])
      <3>1. StopInv(t) /\ PositionInv(t) /\ Bounded(t) BY <2>2, Zenon DEF IInv, ScanInv, Bounded
      <3>2. Ended(t) => visited[t] = snapshot[t] BY <3>1, Zenon DEF PositionInv
      <3>3. spc[t] = "advance" => rid_page[t] # INVALID_PAGE_ID BY <3>1, Zenon DEF PositionInv
      <3>4. CASE rid_page[t] = INVALID_PAGE_ID BY Zenon, <2>2, <3>2, <3>3, <3>4 DEF Ended
      <3>5. CASE rid_page[t] # INVALID_PAGE_ID
        <4> DEFINE n == IF spc[t] = "check" THEN rid_slot[t] ELSE rid_slot[t] + 1
        <4>1. /\ rid_page[t] \in PageIds /\ rid_page[t] \in Int /\ rid_slot[t] \in Nat
              /\ stop_slot[t] \in Nat /\ num_tuples[rid_page[t]] \in Nat
          BY Zenon, <2>1, <3>5, ScanTypes
        <4>2. stop_page[t] \in PageIds /\ snapshot[t] = RidsBelow(stop_page[t], stop_slot[t])
          BY Zenon, <2>1, <2>2, <3>1, BoundedStop
        <4>3. /\ visited[t] = RidsBelow(rid_page[t], n)
              /\ rid_slot[t] < num_tuples[rid_page[t]] \/ (spc[t] = "check" /\ rid_slot[t] = 0)
              /\ rid_page[t] < stop_page[t] \/ (rid_page[t] = stop_page[t] /\ rid_slot[t] < stop_slot[t])
          BY <2>2, <3>1, <3>5, Zenon DEF PositionInv
        <4>4. n \in Nat /\ n <= num_tuples[rid_page[t]] BY <4>1, <4>3
        <4>5. rid_slot[t] < stop_slot[t] => n <= stop_slot[t] BY <4>1
        <4> HIDE DEF n
        <4>6. visited[t] \subseteq snapshot[t] BY <2>1, <4>1, <4>2, <4>3, <4>4, <4>5, RidsBelowMonotone
        <4> QED BY Zenon, <3>2, <4>6
      <3> QED BY Zenon, <3>4, <3>5
    <2> QED BY Zenon, <2>1, <2>2 DEF ScanIsSnapshot
  <1> QED BY <1>1, InvHolds, PTL

(* MakeIterator and MakeEagerIterator: a scan that ends has visited every   *)
(* tuple whose InsertTuple had returned before the iterator was asked for.  *)
THEOREM ScansSeeReturned == Spec => []ScanSeesReturned
  <1>1. IInv => ScanSeesReturned BY Zenon DEF IInv, ScanInv, PositionInv, ScanSeesReturned
  <1> QED BY <1>1, InvHolds, PTL
=============================================================================
