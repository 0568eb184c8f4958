------------------------- MODULE DiskManagerProofs -------------------------
(***************************************************************************)
(* Proofs about DiskManager, for every set of pages and values, initial    *)
(* capacity, int width and set of faults.                                  *)
(***************************************************************************)
EXTENDS DiskManager, FiniteSetTheorems, SequenceTheorems, TLAPS

(* Leaves go to the SMT solver unless they name another prover. *)
USE SMTT(30) DEF None, Zero, Torn, Untouched

(* The number of mapped pages, pages_.size(), is a natural number. *)
LEMMA PageCountNat ==
    ASSUME TypeOK
    PROVE  IsFiniteSet(DOMAIN pages_) /\ PageCount \in Nat
  BY Zenon, FS_Subset, FS_CardinalityType, PagesAssumption DEF TypeOK, PageCount

(* AllocatePage returns a slot number, and the doubled capacity and file    *)
(* size are positive.                                                       *)
LEMMA AllocateType ==
    ASSUME TypeOK, NEW p \in PageIds, Allocate(p)
    PROVE  /\ SlotOf(p) \in Nat
           /\ SizeAfterAllocate(p) \in Nat \ {0}
           /\ page_capacity_' \in Nat \ {0}
           /\ free_slots_' \in Seq(Nat)
  <1>1. SlotOf(p) \in Nat
    BY PageCountNat DEF TypeOK, SlotOf, Mapped
  <1>a. page_capacity_ \in Nat \ {0} /\ file_size \in Nat \ {0}
    BY Zenon DEF TypeOK
  <1>b. 2 * page_capacity_ \in Nat \ {0} /\ 2 * page_capacity_ + 1 \in Nat \ {0}
    BY <1>a
  <1>2. SizeAfterAllocate(p) \in Nat \ {0} /\ page_capacity_' \in Nat \ {0}
    <2>1. CASE MustGrow(p)
      BY <1>b, <2>1, Zenon DEF SizeAfterAllocate, Allocate
    <2>2. CASE ~MustGrow(p)
      BY <1>a, <2>2, Zenon DEF SizeAfterAllocate, Allocate
    <2> QED BY Zenon, <2>1, <2>2
  <1>3. free_slots_' \in Seq(Nat)
    <2>1. free_slots_ \in Seq(Nat) BY Zenon DEF TypeOK
    <2>2. free_slots_ # <<>> => SubSeq(free_slots_, 1, Len(free_slots_) - 1) \in Seq(Nat) BY <2>1
    <2> QED BY <2>1, <2>2, Zenon DEF Allocate
  <1> QED BY Zenon, <1>1, <1>2, <1>3

(* Resizing a file keeps it a sequence of pages of the new size. *)
LEMMA FileResizeType ==
    ASSUME NEW f, NEW k \in Nat, f \in [0..(k - 1) -> Data], NEW n \in Nat \ {0}
    PROVE  FileResize(f, n) \in [0..(n - 1) -> Data]
  BY Zenon DEF FileResize, Data

(* The db file stays well formed whether or not p's slot is written. *)
LEMMA StoreType ==
    ASSUME TypeOK, NEW p \in PageIds, NEW d \in Data, Allocate(p),
           NoStore(p) \/ Store(p, d)
    PROVE  file_size' \in Nat \ {0} /\ file' \in [0..(file_size' - 1) -> Data]
  <1>1. CASE NoStore(p)
    BY <1>1, AllocateType, FileResizeType, Zenon DEF TypeOK, NoStore, FileAfterAllocate, SizeAfterAllocate
  <1>2. CASE Store(p, d)
    <2> DEFINE n == IF SlotOf(p) < SizeAfterAllocate(p) THEN SizeAfterAllocate(p) ELSE SlotOf(p) + 1
    <2>1. n \in Nat \ {0} BY AllocateType
    <2>2. FileResize(file, n) \in [0..(n - 1) -> Data] BY Zenon, <2>1, FileResizeType DEF TypeOK
    <2>3. file_size' = n /\ file' = [FileResize(file, n) EXCEPT ![SlotOf(p)] = d]
      BY Zenon, <1>2 DEF Store
    <2> HIDE DEF n
    <2> QED BY <2>1, <2>2, <2>3, Zenon
  <1> QED BY Zenon, <1>1, <1>2

(* Recording a slot for a page keeps pages_ a map of page ids to slots. *)
LEMMA RecordType ==
    ASSUME TypeOK, NEW p \in PageIds, Allocate(p), Record(p)
    PROVE  DOMAIN pages_' \in SUBSET PageIds /\ pages_' \in [DOMAIN pages_' -> Nat]
  <1>1. SlotOf(p) \in Nat BY Zenon, AllocateType
  <1> QED BY Zenon, <1>1 DEF TypeOK, Record, Put

(* WritePage keeps the state well typed. *)
LEMMA WriteType ==
    ASSUME TypeOK, NEW p \in PageIds, NEW d \in Values, WritePage(p, d)
    PROVE  TypeOK'
  <1>1. CASE ResizeFails(p)
    BY Zenon, <1>1, AllocateType DEF TypeOK, ResizeFails
  <1>2. CASE ~ResizeFails(p)
    <2>1. Allocate(p) /\ UNCHANGED <<num_deletes_, out>>
      BY Zenon, <1>2 DEF WritePage
    <2>2. file_size' \in Nat \ {0} /\ file' \in [0..(file_size' - 1) -> Data]
      BY Zenon, <1>2, <2>1, StoreType DEF WritePage, WriteOk, WriteFlushFails, WriteFails, WriteWhenBad, WriteWhenClosed, PartialStore, Data
    <2>3. DOMAIN pages_' \in SUBSET PageIds /\ pages_' \in [DOMAIN pages_' -> Nat]
      BY Zenon, <1>2, <2>1, RecordType DEF TypeOK, WritePage, WriteOk, WriteFlushFails, WriteFails, WriteWhenBad, WriteWhenClosed, WriteDone
    <2>4a. num_writes_' \in Nat /\ victim' \in PageIds \cup {None}
      BY <1>2 DEF TypeOK, WritePage, WriteOk, WriteFlushFails, WriteFails, WriteWhenBad, WriteWhenClosed, WriteDone
    <2>4b. stream' \in {"good", "bad", "closed"}
      BY Zenon, <1>2 DEF TypeOK, WritePage, WriteOk, WriteFlushFails, WriteFails, WriteWhenBad, WriteWhenClosed
    <2>5. DOMAIN acked' \in SUBSET PageIds /\ acked' \in [DOMAIN acked' -> Values]
      BY Zenon, <1>2 DEF TypeOK, WritePage, WriteOk, WriteFlushFails, WriteFails, WriteWhenBad, WriteWhenClosed, Put
    <2> QED BY Zenon, <2>1, <2>2, <2>3, <2>4a, <2>4b, <2>5, AllocateType DEF TypeOK
  <1> QED BY Zenon, <1>1, <1>2

(* ReadPage keeps the state well typed. *)
LEMMA ReadType ==
    ASSUME TypeOK, NEW p \in PageIds, ReadPage(p)
    PROVE  TypeOK'
  <1>1. CASE ResizeFails(p)
    BY Zenon, <1>1, AllocateType DEF TypeOK, ResizeFails
  <1>2. CASE ~ResizeFails(p)
    <2>1. Allocate(p) /\ NoStore(p) /\ UNCHANGED <<num_writes_, num_deletes_, acked>>
      BY Zenon, <1>2 DEF ReadPage
    <2>2. file_size' \in Nat \ {0} /\ file' \in [0..(file_size' - 1) -> Data]
      BY Zenon, <2>1, StoreType DEF Data
    <2>3. DOMAIN pages_' \in SUBSET PageIds /\ pages_' \in [DOMAIN pages_' -> Nat]
      BY Zenon, <1>2, <2>1, RecordType DEF TypeOK, ReadPage, ReadNoSize, ReadOk, ReadFails, ReadWhenBad, ReadWhenClosed
    <2>4. stream' \in {"good", "bad", "closed"}
      BY Zenon, <1>2 DEF TypeOK, ReadPage, ReadNoSize, ReadOk, ReadFails, ReadWhenBad, ReadWhenClosed
    <2>5. victim' \in PageIds \cup {None}
      BY Zenon, <1>2 DEF TypeOK, ReadPage, ReadNoSize, ReadOk, ReadFails, ReadWhenBad, ReadWhenClosed
    <2>6. out' \in [page : PageIds \cup {None}, data : Data \cup {Untouched}]
      <3>1. CASE ReadOk(p)
        <4> DEFINE d == IF SlotOf(p) < SizeAfterAllocate(p) THEN FileAfterAllocate(p)[SlotOf(p)] ELSE Zero
        <4>1. SlotOf(p) \in Nat /\ SizeAfterAllocate(p) \in Nat BY Zenon, <2>1, AllocateType
        <4>2. FileAfterAllocate(p) \in [0..(SizeAfterAllocate(p) - 1) -> Data]
          BY Zenon, <2>1, <2>2 DEF NoStore
        <4>3. d \in Data BY <4>1, <4>2 DEF Data
        <4> QED BY Zenon, <3>1, <4>3 DEF ReadOk, Returned
      <3>2. CASE ~ReadOk(p)
        BY <1>2, <3>2 DEF ReadPage, ReadNoSize, ReadFails, ReadWhenBad, ReadWhenClosed, Returned, Data
      <3> QED BY Zenon, <3>1, <3>2
    <2> QED BY Zenon, <2>1, <2>2, <2>3, <2>4, <2>5, <2>6, AllocateType DEF TypeOK
  <1> QED BY Zenon, <1>1, <1>2

(* Deleting, shutting down and reopening keep the state well typed. *)
LEMMA OtherType ==
    ASSUME TypeOK, (\E p \in PageIds : DeletePage(p)) \/ ShutDown \/ Reopen
    PROVE  TypeOK'
  <1>1. ASSUME NEW p \in PageIds, DeletePage(p) PROVE TypeOK'
    BY <1>1 DEF TypeOK, DeletePage, Mapped, Remove
  <1>2. CASE ShutDown BY Zenon, <1>2 DEF TypeOK, ShutDown
  <1>3. CASE Reopen
    <2>1. file' \in [0..(file_size' - 1) -> Data] /\ file_size' \in Nat \ {0}
      BY <1>3, FileResizeType, CapacityAssumption DEF TypeOK, Reopen
    <2> QED BY <1>3, <2>1, CapacityAssumption DEF TypeOK, Reopen, EmptyMap
  <1> QED BY Zenon, <1>1, <1>2, <1>3

(* Every reachable state of the disk manager is well typed. *)
THEOREM TypeCorrect == Spec => []TypeOK
  <1>1. Init => TypeOK
    BY CapacityAssumption DEF Init, TypeOK, EmptyMap, Data
  <1>2. TypeOK /\ [Next]_vars => TypeOK'
    <2> SUFFICES ASSUME TypeOK, [Next]_vars PROVE TypeOK' BY Zenon
    <2>1. CASE UNCHANGED vars BY Zenon, <2>1 DEF vars, TypeOK
    <2>2. CASE Next BY Zenon, <2>2, WriteType, ReadType, OtherType DEF Next
    <2> QED BY Zenon, <2>1, <2>2
  <1> QED BY <1>1, <1>2, PTL DEF Spec

-----------------------------------------------------------------------------
(* Slot ownership.                                                         *)

Total == PageCount + Len(free_slots_)
Owned == PagesDistinct /\ FreeDistinct /\ SlotsCover

(* A slot found or allocated for p is no other page's, and lies below the   *)
(* capacity; only an append takes a slot that was not handed out before.    *)
LEMMA SlotFresh ==
    ASSUME TypeOK, Owned, NEW p \in PageIds, Allocate(p)
    PROVE  /\ \A q \in DOMAIN pages_ \ {p} : pages_[q] # SlotOf(p)
           /\ SlotOf(p) < page_capacity_'
           /\ page_capacity_' >= page_capacity_
           /\ Mapped(p) \/ free_slots_ # <<>> => SlotOf(p) < Total
  <1>1. PageCount \in Nat BY Zenon, PageCountNat
  <1>2. Len(free_slots_) \in Nat BY DEF TypeOK
  <1>3. page_capacity_ \in Nat \ {0} BY Zenon DEF TypeOK
  <1>4. \A q \in DOMAIN pages_ : pages_[q] \in 0..(PageCount + Len(free_slots_) - 1)
    BY Zenon DEF Owned, SlotsCover, UsedSlots
  <1>5. CASE Mapped(p)
    BY <1>1, <1>2, <1>3, <1>4, <1>5 DEF SlotOf, Mapped, Owned, PagesDistinct, SlotsCover, Total, Allocate, MustGrow
  <1>6. CASE ~Mapped(p) /\ free_slots_ # <<>>
    <2>1. Len(free_slots_) \in 1..Len(free_slots_) BY <1>6 DEF TypeOK
    <2>2. SlotOf(p) \in FreeSlots BY Zenon, <1>6, <2>1 DEF SlotOf, FreeSlots
    <2>3. SlotOf(p) \in 0..(PageCount + Len(free_slots_) - 1) BY Zenon, <2>2 DEF Owned, SlotsCover
    <2>4. SlotOf(p) \notin UsedSlots BY Zenon, <2>2 DEF Owned, SlotsCover
    <2> QED BY <1>1, <1>2, <1>3, <1>6, <2>3, <2>4 DEF UsedSlots, Total, Allocate, MustGrow, Owned, SlotsCover
  <1>7. CASE ~Mapped(p) /\ free_slots_ = <<>>
    <2>1. SlotOf(p) = PageCount /\ Len(free_slots_) = 0 BY Zenon, <1>7 DEF SlotOf
    <2> QED BY <1>1, <1>3, <1>4, <1>7, <2>1 DEF Allocate, MustGrow, Total, Owned, SlotsCover
  <1> QED BY Zenon, <1>5, <1>6, <1>7

(* pages_.size() after pages_[p] = offset. *)
LEMMA RecordCount ==
    ASSUME TypeOK, NEW p \in PageIds, Record(p)
    PROVE  /\ DOMAIN pages_' = DOMAIN pages_ \cup {p}
           /\ PageCount' = IF Mapped(p) THEN PageCount ELSE PageCount + 1
           /\ \A q \in DOMAIN pages_' : pages_'[q] = IF q = p THEN SlotOf(p) ELSE pages_[q]
  <1>1. IsFiniteSet(DOMAIN pages_) BY Zenon, PageCountNat
  <1>2. DOMAIN pages_' = DOMAIN pages_ \cup {p}
        /\ \A q \in DOMAIN pages_' : pages_'[q] = IF q = p THEN SlotOf(p) ELSE pages_[q]
    BY Zenon DEF Record, Put
  <1>3. Cardinality(DOMAIN pages_ \cup {p})
          = IF p \in DOMAIN pages_ THEN Cardinality(DOMAIN pages_) ELSE Cardinality(DOMAIN pages_) + 1
    BY Zenon, <1>1, FS_AddElement
  <1> QED BY Zenon, <1>2, <1>3 DEF PageCount, Mapped

(* Allocating a slot and recording it keeps every slot owned once, and adds *)
(* a slot only if the slot lies at the end of those handed out.             *)
LEMMA RecordOwned ==
    ASSUME TypeOK, Owned, NEW p \in PageIds, Allocate(p), Record(p)
    PROVE  Owned' /\ (Total' = Total \/ (Total' = Total + 1 /\ SlotOf(p) = Total))
  <1>1. PageCount \in Nat /\ Len(free_slots_) \in Nat /\ page_capacity_ \in Nat \ {0}
    BY PageCountNat DEF TypeOK
  <1>r. /\ DOMAIN pages_' = DOMAIN pages_ \cup {p}
        /\ \A q \in DOMAIN pages_' : pages_'[q] = IF q = p THEN SlotOf(p) ELSE pages_[q]
    BY Zenon, RecordCount
  <1>d. PagesDistinct'
    <2>1. \A q \in DOMAIN pages_ \ {p} : pages_[q] # SlotOf(p) BY Zenon, SlotFresh
    <2>2. \A q, r \in DOMAIN pages_ : pages_[q] = pages_[r] => q = r BY Zenon DEF Owned, PagesDistinct
    <2> QED BY Zenon, <1>r, <2>1, <2>2 DEF PagesDistinct
  <1>u. ~Mapped(p) => UsedSlots' = UsedSlots \cup {SlotOf(p)}
    BY Zenon, <1>r DEF UsedSlots, Mapped
  <1>2. CASE Mapped(p)
    <2>1. pages_' = pages_ BY <1>2 DEF TypeOK, Record, Put, SlotOf, Mapped
    <2>2. free_slots_' = free_slots_ /\ page_capacity_' = page_capacity_
      BY Zenon, <1>2 DEF Allocate, MustGrow
    <2> QED BY <2>1, <2>2 DEF Owned, PagesDistinct, FreeDistinct, SlotsCover, UsedSlots, FreeSlots, PageCount, Total
  <1>3. CASE ~Mapped(p) /\ free_slots_ # <<>>
    <2> DEFINE n == Len(free_slots_)
    <2>1. /\ free_slots_' = SubSeq(free_slots_, 1, n - 1) /\ page_capacity_' = page_capacity_
          /\ SlotOf(p) = free_slots_[n]
      BY Zenon, <1>3 DEF Allocate, MustGrow, SlotOf
    <2>0. free_slots_ \in Seq(Nat) /\ n \in Nat \ {0} BY <1>3 DEF TypeOK
    <2>2. /\ n \in Nat \ {0} /\ Len(free_slots_') = n - 1
          /\ \A i \in 1..(n - 1) : free_slots_'[i] = free_slots_[i]
      <3>1. \A i \in 1..(n - 1) : free_slots_[i] \in Nat BY <2>0
      <3>2. /\ Len(SubSeq(free_slots_, 1, n - 1)) = IF 1 <= n - 1 THEN (n - 1) - 1 + 1 ELSE 0
            /\ \A i \in 1..((n - 1) - 1 + 1) : SubSeq(free_slots_, 1, n - 1)[i] = free_slots_[1 + i - 1]
        BY <2>0, <3>1, SubSeqProperties
      <3> HIDE DEF n
      <3>3. Len(SubSeq(free_slots_, 1, n - 1)) = n - 1 BY <2>0, <3>2
      <3>4. \A i \in 1..(n - 1) : SubSeq(free_slots_, 1, n - 1)[i] = free_slots_[i] BY <2>0, <3>2
      <3> QED BY Zenon, <2>0, <2>1, <3>3, <3>4
    <2>3. PageCount' = PageCount + 1 BY <1>3, RecordCount, Zenon
    <2>4. FreeDistinct' BY <2>2 DEF Owned, FreeDistinct
    <2>5. FreeSlots' = FreeSlots \ {SlotOf(p)}
      BY <2>1, <2>2 DEF FreeSlots, Owned, FreeDistinct
    <2>6. SlotOf(p) \in FreeSlots BY <2>1, <2>2 DEF FreeSlots
    <2>7. UsedSlots' = UsedSlots \cup {SlotOf(p)} BY Zenon, <1>3, <1>u
    <2>9. Total' = Total BY <1>1, <2>2, <2>3 DEF Total
    <2>10. SlotsCover'
      <3>1. UsedSlots' \cap FreeSlots' = {} BY Zenon, <2>5, <2>7 DEF SlotsCover, Owned
      <3>2. UsedSlots' \cup FreeSlots' = UsedSlots \cup FreeSlots BY Zenon, <2>5, <2>6, <2>7
      <3>3. PageCount' + Len(free_slots_') = PageCount + Len(free_slots_) BY Zenon, <2>9 DEF Total
      <3>4. UsedSlots \cup FreeSlots = 0..(PageCount + Len(free_slots_) - 1)
            /\ PageCount + Len(free_slots_) <= page_capacity_
        BY Zenon DEF SlotsCover, Owned
      <3>5. page_capacity_' = page_capacity_ BY Zenon, <2>1
      <3>6. UsedSlots' \cup FreeSlots' = 0..(PageCount' + Len(free_slots_') - 1) 
        BY <1>1, <2>2, <2>3, <3>2, <3>4
      <3>7. PageCount' + Len(free_slots_') <= page_capacity_' BY Zenon, <3>3, <3>4, <3>5
      <3> QED BY Zenon, <3>1, <3>6, <3>7 DEF SlotsCover
    <2> QED BY Zenon, <1>d, <2>4, <2>9, <2>10 DEF Owned
  <1>4. CASE ~Mapped(p) /\ free_slots_ = <<>>
    <2>1. SlotOf(p) = PageCount /\ free_slots_' = <<>> /\ Len(free_slots_) = 0
      BY Zenon, <1>4 DEF SlotOf, Allocate
    <2>2. PageCount' = PageCount + 1 BY <1>4, RecordCount, Zenon
    <2>3. FreeDistinct' /\ FreeSlots' = {} /\ FreeSlots = {} BY <1>4, <2>1 DEF FreeDistinct, FreeSlots
    <2>4. UsedSlots' = UsedSlots \cup {PageCount} BY Zenon, <1>4, <1>u, <2>1
    <2>5. UsedSlots = 0..(PageCount - 1) BY <1>1, <2>1, <2>3 DEF Owned, SlotsCover
    <2>6. UsedSlots' = 0..PageCount BY <1>1, <2>4, <2>5
    <2>8. PageCount + 1 <= page_capacity_' BY <1>1, <2>1, SlotFresh, AllocateType
    <2>9. SlotsCover' BY <1>1, <2>1, <2>2, <2>3, <2>6, <2>8 DEF SlotsCover
    <2> QED BY <1>1, <2>1, <2>2, <2>3, <1>d, <2>9 DEF Owned, Total
  <1> QED BY Zenon, <1>2, <1>3, <1>4

(* Allocation keeps the capacity and the file within their bounds, and the  *)
(* file size read by ReadPage is then the true one.                         *)
LEMMA AllocateBounds ==
    ASSUME TypeOK, FileBound, CapacityBound, NEW p \in PageIds, Allocate(p)
    PROVE  /\ CapacityBound'
           /\ SizeAfterAllocate(p) <= page_capacity_' + 1
           /\ file_size <= SizeAfterAllocate(p)
           /\ FileSizeFits => AsInt(SizeAfterAllocate(p)) = SizeAfterAllocate(p)
  <1>1. PageCount \in Nat /\ IsFiniteSet(DOMAIN pages_) BY Zenon, PageCountNat
  <1>2. Cardinality(PageIds) \in Nat BY Zenon, PagesAssumption, FS_CardinalityType
  <1>3. ~Mapped(p) => PageCount + 1 <= Cardinality(PageIds)
    <2> SUFFICES ASSUME ~Mapped(p) PROVE PageCount + 1 <= Cardinality(PageIds) BY Zenon
    <2>1. DOMAIN pages_ \subseteq PageIds BY Zenon DEF TypeOK
    <2>2. DOMAIN pages_ \cup {p} \subseteq PageIds BY Zenon, <2>1
    <2>3. Cardinality(DOMAIN pages_ \cup {p}) = PageCount + 1
      BY <1>1, FS_AddElement, Zenon DEF Mapped, PageCount
    <2>4. Cardinality(DOMAIN pages_ \cup {p}) <= Cardinality(PageIds)
      BY Zenon, <2>2, FS_Subset, PagesAssumption
    <2> QED BY Zenon, <2>3, <2>4
  <1>4. CapacityBound'
    BY <1>1, <1>2, <1>3, CapacityAssumption DEF TypeOK, CapacityBound, Allocate, MustGrow
  <1>5. /\ SizeAfterAllocate(p) \in Nat
        /\ SizeAfterAllocate(p) <= page_capacity_' + 1
        /\ file_size <= SizeAfterAllocate(p)
    BY DEF TypeOK, FileBound, SizeAfterAllocate, Allocate
  <1>6. FileSizeFits => SizeAfterAllocate(p) < IntPages
    BY <1>2, <1>4, <1>5, AllocateType, CapacityAssumption DEF FileSizeFits, CapacityBound
  <1> QED BY Zenon, <1>4, <1>5, <1>6 DEF AsInt

(* Neither the resize of AllocatePage nor a write to p's slot touches the   *)
(* contents of any other slot.                                              *)
LEMMA FileKept ==
    ASSUME TypeOK, FileBound, CapacityBound, NEW p \in PageIds, NEW d \in Data, Allocate(p),
           NoStore(p) \/ Store(p, d)
    PROVE  /\ file_size <= file_size'
           /\ \A s \in 0..(file_size - 1) : NoStore(p) \/ s # SlotOf(p) => file'[s] = file[s]
           /\ Store(p, d) => SlotOf(p) < file_size' /\ file'[SlotOf(p)] = d
           /\ file_size' <= page_capacity_' + 1 \/ SlotOf(p) >= page_capacity_'
  <1>1. /\ SlotOf(p) \in Nat /\ SizeAfterAllocate(p) \in Nat \ {0} /\ page_capacity_' \in Nat
        /\ file_size \in Nat \ {0} /\ DOMAIN file = 0..(file_size - 1)
    BY Zenon, AllocateType DEF TypeOK
  <1>2. file_size <= SizeAfterAllocate(p) /\ SizeAfterAllocate(p) <= page_capacity_' + 1
    BY Zenon, AllocateBounds
  <1>3. \A n \in Nat : n >= file_size =>
            /\ DOMAIN FileResize(file, n) = 0..(n - 1)
            /\ \A s \in 0..(file_size - 1) : FileResize(file, n)[s] = file[s]
    BY <1>1 DEF FileResize
  <1>4. CASE NoStore(p) /\ ~Store(p, d)
    BY Zenon, <1>1, <1>2, <1>3, <1>4 DEF NoStore, FileAfterAllocate, SizeAfterAllocate
  <1>5. CASE Store(p, d)
    <2> DEFINE n == IF SlotOf(p) < SizeAfterAllocate(p) THEN SizeAfterAllocate(p) ELSE SlotOf(p) + 1
    <2>1. file_size' = n /\ file' = [FileResize(file, n) EXCEPT ![SlotOf(p)] = d]
      BY Zenon, <1>5 DEF Store
    <2>2. n \in Nat /\ n >= file_size /\ SlotOf(p) \in 0..(n - 1) BY <1>1, <1>2
    <2>3. n <= page_capacity_' + 1 \/ SlotOf(p) >= page_capacity_' BY <1>1, <1>2
    <2> HIDE DEF n
    <2>4. file'[SlotOf(p)] = d BY Zenon, <1>3, <2>1, <2>2
    <2>5. \A s \in 0..(file_size - 1) : s # SlotOf(p) => file'[s] = file[s]
      BY <1>1, <1>3, <2>1, <2>2
    <2>6. \A s \in 0..(file_size - 1) : NoStore(p) => file'[s] = file[s]
      BY Zenon, <1>1, <1>2, <1>3 DEF NoStore, FileAfterAllocate
    <2>7. SlotOf(p) < file_size' /\ file_size <= file_size' BY <1>1, <2>1, <2>2
    <2> QED BY Zenon, <2>1, <2>3, <2>4, <2>5, <2>6, <2>7
  <1> QED BY Zenon, <1>4, <1>5

Intact(q) == Mapped(q) /\ pages_[q] < file_size /\ file[pages_[q]] = acked[q]

(* Stored pages other than p survive an access to p, whether or not it      *)
(* records p's slot and, on a usable stream, writes it.                     *)
LEMMA AckedKept ==
    ASSUME OwnershipInv, NEW p \in PageIds, NEW d \in Data, Allocate(p),
           NoStore(p) \/ (stream = "good" /\ Store(p, d)),
           UNCHANGED pages_ \/ Record(p)
    PROVE  \A q \in DOMAIN acked \ {victim} : q # p \/ NoStore(p) =>
              Mapped(q)' /\ pages_'[q] < file_size' /\ file'[pages_'[q]] = acked[q]
  <1> SUFFICES ASSUME NEW q \in DOMAIN acked \ {victim}, q # p \/ NoStore(p)
               PROVE  Mapped(q)' /\ pages_'[q] < file_size' /\ file'[pages_'[q]] = acked[q]
    BY Zenon
  <1>1. TypeOK /\ FileBound /\ CapacityBound BY Zenon DEF OwnershipInv
  <1>2. Intact(q) BY Zenon DEF OwnershipInv, AckedIntact, Intact
  <1>3. pages_[q] \in Nat /\ file_size \in Nat /\ file_size' \in Nat
    BY Zenon, <1>1, <1>2, StoreType DEF TypeOK, Intact, Mapped
  <1>4. Mapped(q)' /\ pages_'[q] = pages_[q]
    <2>1. CASE UNCHANGED pages_ BY Zenon, <1>2, <2>1 DEF Intact, Mapped
    <2>2. CASE Record(p) BY <1>1, <1>2, <2>2, RecordCount, Zenon DEF Intact, Mapped, SlotOf
    <2> QED BY Zenon, <2>1, <2>2
  <1>5. pages_[q] \in 0..(file_size - 1) BY <1>2, <1>3 DEF Intact
  <1>6. NoStore(p) \/ pages_[q] # SlotOf(p)
    <2>1. CASE q = p BY Zenon, <2>1
    <2>2. CASE q # p /\ stream = "good"
      <3>1. Owned BY Zenon, <2>2 DEF OwnershipInv, SlotOwnership, Owned
      <3> QED BY Zenon, <1>1, <1>2, <2>2, <3>1, SlotFresh DEF Intact, Mapped
    <2> QED BY Zenon, <2>1, <2>2
  <1>7. file_size <= file_size' /\ file'[pages_[q]] = file[pages_[q]]
    BY Zenon, <1>1, <1>5, <1>6, FileKept
  <1> QED BY <1>2, <1>3, <1>4, <1>7 DEF Intact

(* On a usable stream, an access that records p's slot keeps ownership, the *)
(* bounds, and every slot within the file if p's is.                        *)
LEMMA RecordInv ==
    ASSUME OwnershipInv, NEW p \in PageIds, NEW d \in Data, stream = "good",
           Allocate(p), NoStore(p) \/ Store(p, d), Record(p), SlotOf(p) <= file_size'
    PROVE  Owned' /\ SlotsInFile'
  <1>1. TypeOK /\ FileBound /\ CapacityBound /\ Owned /\ SlotsInFile
    BY Zenon DEF OwnershipInv, SlotOwnership, Owned
  <1>2. Owned' /\ (Total' = Total \/ (Total' = Total + 1 /\ SlotOf(p) = Total))
    BY Zenon, <1>1, RecordOwned
  <1>3. file_size <= file_size' /\ file_size' \in Nat /\ file_size \in Nat
    BY Zenon, <1>1, FileKept, StoreType DEF TypeOK
  <1>4. Total \in Nat BY <1>1, PageCountNat DEF TypeOK, Total
  <1>5. Total <= file_size + 1 BY Zenon, <1>1 DEF SlotsInFile, Total
  <1>6. Total' <= file_size' + 1 BY <1>2, <1>3, <1>4, <1>5
  <1> QED BY Zenon, <1>2, <1>6 DEF SlotsInFile, Total

(* The file stays within page_capacity_ + 1 pages whatever is written. *)
LEMMA FileBoundKept ==
    ASSUME OwnershipInv, NEW p \in PageIds, NEW d \in Data, Allocate(p),
           NoStore(p) \/ (stream = "good" /\ Store(p, d))
    PROVE  FileBound'
  <1>1. TypeOK /\ FileBound /\ CapacityBound BY Zenon DEF OwnershipInv
  <1>2. SlotOf(p) \in Nat /\ page_capacity_' \in Nat /\ file_size' \in Nat
    BY Zenon, <1>1, AllocateType, StoreType
  <1>3. CASE NoStore(p)
    BY Zenon, <1>1, <1>3, AllocateBounds DEF NoStore, FileBound
  <1>4. CASE stream = "good"
    <2>1. Owned BY Zenon, <1>4 DEF OwnershipInv, SlotOwnership, Owned
    <2>2. SlotOf(p) < page_capacity_' BY Zenon, <1>1, <2>1, SlotFresh
    <2>3. NoStore(p) \/ Store(p, d) BY Zenon
    <2>4. file_size' <= page_capacity_' + 1 \/ SlotOf(p) >= page_capacity_'
      BY <1>1, <2>3, FileKept, Zenon
    <2>5. ~(SlotOf(p) >= page_capacity_') BY <1>2, <2>2
    <2> QED BY <2>4, <2>5, Zenon DEF FileBound
  <1> QED BY Zenon, <1>3, <1>4

(* A resize that throws only leaves the doubled capacity behind. *)
LEMMA ResizeFailsInv ==
    ASSUME OwnershipInv, NEW p \in PageIds, ResizeFails(p), TypeOK'
    PROVE  OwnershipInv'
  <1>1. TypeOK /\ FileBound /\ CapacityBound /\ Allocate(p) BY Zenon DEF OwnershipInv, ResizeFails
  <1>2. CapacityBound' BY Zenon, <1>1, AllocateBounds
  <1>3. page_capacity_ <= page_capacity_' /\ free_slots_' = free_slots_
    BY <1>1 DEF ResizeFails, Allocate, MustGrow, TypeOK
  <1>4. UNCHANGED <<pages_, file, file_size, stream, acked, victim>> BY Zenon DEF ResizeFails
  <1>5. PageCount \in Nat /\ Len(free_slots_) \in Nat /\ page_capacity_ \in Nat /\ page_capacity_' \in Nat
        /\ file_size \in Nat
    <2>1. PageCount \in Nat BY Zenon, <1>1, PageCountNat
    <2>2. page_capacity_' \in Nat BY Zenon, <1>1, AllocateType
    <2>3. Len(free_slots_) \in Nat /\ page_capacity_ \in Nat /\ file_size \in Nat BY <1>1 DEF TypeOK
    <2> QED BY Zenon, <2>1, <2>2, <2>3
  <1>6. FileBound'
    <2>1. file_size <= page_capacity_ + 1 BY Zenon, <1>1 DEF FileBound
    <2>2. file_size' = file_size BY Zenon, <1>4
    <2>3. page_capacity_ <= page_capacity_' BY Zenon, <1>3
    <2>4. \A a, b, c \in Nat : a <= b + 1 /\ b <= c => a <= c + 1 OBVIOUS
    <2>5. file_size <= page_capacity_' + 1 BY <1>5, <2>1, <2>3, <2>4, Zenon
    <2>6. file_size' <= page_capacity_' + 1 BY <2>2, <2>5, Zenon
    <2> QED BY Zenon, <2>6 DEF FileBound
  <1>7. PageCount' = PageCount /\ UsedSlots' = UsedSlots /\ FreeSlots' = FreeSlots
    BY Zenon, <1>3, <1>4 DEF PageCount, UsedSlots, FreeSlots
  <1>8. SlotsCover => SlotsCover'
    BY <1>3, <1>5, <1>7 DEF SlotsCover
  <1>9. SlotOwnership' BY Zenon, <1>3, <1>4, <1>8 DEF OwnershipInv, SlotOwnership, PagesDistinct, FreeDistinct
  <1>10. AckedIntact' BY Zenon, <1>4 DEF OwnershipInv, AckedIntact, Mapped
  <1>11. (stream = "good" => SlotsInFile)' BY Zenon, <1>3, <1>4, <1>7 DEF OwnershipInv, SlotsInFile
  <1>12. VictimBad' BY Zenon, <1>4 DEF OwnershipInv, VictimBad
  <1> QED BY Zenon, <1>2, <1>6, <1>9, <1>10, <1>11, <1>12 DEF OwnershipInv

(* WritePage preserves the invariant. *)
LEMMA WriteInv ==
    ASSUME OwnershipInv, NEW p \in PageIds, NEW d \in Values, WritePage(p, d)
    PROVE  OwnershipInv'
  <1>1. TypeOK /\ FileBound /\ CapacityBound BY Zenon DEF OwnershipInv
  <1>2. TypeOK' BY Zenon, <1>1, WriteType
  <1>3. CASE ResizeFails(p) BY Zenon, <1>2, <1>3, ResizeFailsInv
  <1>4. CASE ~ResizeFails(p)
    <2>1. Allocate(p) BY Zenon, <1>4 DEF WritePage
    <2>2. CapacityBound' BY Zenon, <1>1, <2>1, AllocateBounds
    <2>3. d \in Data /\ Torn \in Data BY Zenon DEF Data
    <2>4. CASE WriteOk(p, d)
      <3>1. stream = "good" /\ stream' = "good" /\ victim' = victim /\ Store(p, d) /\ Record(p)
            /\ acked' = Put(acked, p, d)
        BY Zenon, <2>4 DEF WriteOk, WriteDone
      <3>2. FileBound' BY Zenon, <2>1, <2>3, <3>1, FileBoundKept
      <3>3. SlotOf(p) < file_size' /\ file'[SlotOf(p)] = d BY Zenon, <1>1, <2>1, <2>3, <3>1, FileKept
      <3>4. SlotOf(p) <= file_size' BY <1>1, <1>2, <2>1, <3>3, AllocateType DEF TypeOK
      <3>5. Owned' /\ SlotsInFile' BY Zenon, <2>1, <2>3, <3>1, <3>4, RecordInv
      <3>6. AckedIntact'
        <4> SUFFICES ASSUME NEW q \in DOMAIN acked' \ {victim'} PROVE Intact(q)'
          BY Zenon DEF AckedIntact, Intact
        <4>1. CASE q = p
          BY <1>1, <3>1, <3>3, <4>1, RecordCount, Zenon DEF Intact, Mapped, Put
        <4>2. CASE q # p
          <5>1. q \in DOMAIN acked \ {victim} /\ acked'[q] = acked[q] BY Zenon, <3>1, <4>2 DEF Put
          <5> QED BY Zenon, <2>1, <2>3, <3>1, <4>2, <5>1, AckedKept DEF Intact
        <4> QED BY Zenon, <4>1, <4>2
      <3>7. VictimBad' BY Zenon, <3>1 DEF OwnershipInv, VictimBad
      <3> QED BY Zenon, <1>2, <2>2, <3>2, <3>5, <3>6, <3>7 DEF OwnershipInv, SlotOwnership, Owned
    <2>5. CASE WriteFlushFails(p, d) \/ WriteFails(p, d)
      <3>1. /\ stream = "good" /\ stream' = "bad" /\ victim' = p /\ acked' = acked
            /\ NoStore(p) \/ Store(p, d) \/ Store(p, Torn)
            /\ UNCHANGED pages_ \/ Record(p)
        BY Zenon, <2>5 DEF WriteFlushFails, WriteFails, PartialStore, WriteDone
      <3>2. PICK e \in Data : NoStore(p) \/ Store(p, e) BY Zenon, <2>3, <3>1
      <3>3. FileBound' BY Zenon, <2>1, <3>1, <3>2, FileBoundKept
      <3>4. AckedIntact'
        <4> SUFFICES ASSUME NEW q \in DOMAIN acked \ {p} PROVE Intact(q)'
          BY Zenon, <3>1 DEF AckedIntact, Intact
        <4>1. victim = None BY Zenon, <3>1 DEF OwnershipInv, VictimBad
        <4>2. q \in DOMAIN acked \ {victim} BY Zenon, <1>1, <4>1, PagesAssumption DEF TypeOK
        <4> QED BY Zenon, <2>1, <3>1, <3>2, <4>2, AckedKept DEF Intact
      <3>5. VictimBad' BY Zenon, <3>1, PagesAssumption DEF VictimBad
      <3> QED BY Zenon, <1>2, <2>2, <3>1, <3>3, <3>4, <3>5 DEF OwnershipInv, SlotOwnership
    <2>6. CASE WriteWhenBad(p) \/ WriteWhenClosed(p)
      <3>1. /\ stream # "good" /\ stream' = stream /\ victim' = victim /\ acked' = acked
            /\ NoStore(p) /\ (UNCHANGED pages_ \/ Record(p))
        BY Zenon, <2>6 DEF WriteWhenBad, WriteWhenClosed, WriteDone
      <3>2. FileBound' BY Zenon, <2>1, <2>3, <3>1, FileBoundKept
      <3>3. AckedIntact' BY Zenon, <2>1, <2>3, <3>1, AckedKept DEF AckedIntact
      <3>4. VictimBad' BY Zenon, <3>1 DEF OwnershipInv, VictimBad
      <3> QED BY Zenon, <1>2, <2>2, <3>1, <3>2, <3>3, <3>4 DEF OwnershipInv, SlotOwnership
    <2> QED BY Zenon, <1>4, <2>4, <2>5, <2>6 DEF WritePage
  <1> QED BY Zenon, <1>3, <1>4

(* ReadPage preserves the invariant when the file size it reads is true. *)
LEMMA ReadInv ==
    ASSUME FileSizeFits, OwnershipInv, NEW p \in PageIds, ReadPage(p)
    PROVE  OwnershipInv'
  <1>1. TypeOK /\ FileBound /\ CapacityBound BY Zenon DEF OwnershipInv
  <1>2. TypeOK' BY Zenon, <1>1, ReadType
  <1>3. CASE ResizeFails(p) BY Zenon, <1>2, <1>3, ResizeFailsInv
  <1>4. CASE ~ResizeFails(p)
    <2>1. Allocate(p) /\ NoStore(p) /\ acked' = acked BY Zenon, <1>4 DEF ReadPage
    <2>2. CapacityBound' /\ AsInt(SizeAfterAllocate(p)) = SizeAfterAllocate(p) /\ file_size <= SizeAfterAllocate(p)
      BY Zenon, <1>1, <2>1, AllocateBounds
    <2>3. file_size' = SizeAfterAllocate(p) BY Zenon, <2>1 DEF NoStore
    <2>4. Zero \in Data BY Zenon DEF Data
    <2>5. FileBound' BY Zenon, <2>1, <2>4, FileBoundKept
    <2>6. UNCHANGED pages_ \/ Record(p)
      BY Zenon, <1>4 DEF ReadPage, ReadNoSize, ReadOk, ReadFails, ReadWhenBad, ReadWhenClosed
    <2>7. \A q \in DOMAIN acked \ {victim} : Mapped(q)' /\ pages_'[q] < file_size' /\ file'[pages_'[q]] = acked[q]
      BY Zenon, <2>1, <2>4, <2>6, AckedKept
    <2>8. \/ stream' = stream /\ victim' = victim
          \/ stream = "good" /\ stream' = "bad" /\ victim' = p
      BY Zenon, <1>4 DEF ReadPage, ReadNoSize, ReadOk, ReadFails, ReadWhenBad, ReadWhenClosed
    <2>9. VictimBad' BY Zenon, <2>8, PagesAssumption DEF OwnershipInv, VictimBad
    <2>10. AckedIntact'
      <3>1. stream = "good" => victim = None BY Zenon DEF OwnershipInv, VictimBad
      <3>2. victim' = victim \/ victim = None BY Zenon, <2>8, <3>1
      <3>3. None \notin DOMAIN acked BY Zenon, <1>1, PagesAssumption DEF TypeOK
      <3>4. DOMAIN acked' \ {victim'} \subseteq DOMAIN acked \ {victim} BY Zenon, <2>1, <3>2, <3>3
      <3> QED BY Zenon, <2>1, <2>7, <3>4 DEF AckedIntact
    <2>11. CASE stream = "good" /\ ReadNoSize(p)
      <3>1. Owned /\ SlotsInFile BY Zenon, <2>11 DEF OwnershipInv, SlotOwnership, Owned
      <3>2. pages_' = pages_ /\ stream' = stream /\ SlotOf(p) > SizeAfterAllocate(p)
        BY <1>1, <2>1, <2>2, <2>11, AllocateType DEF ReadNoSize, FileSizeFits
      <3>3. PageCount \in Nat /\ Len(free_slots_) \in Nat /\ SlotOf(p) \in Nat
            /\ SizeAfterAllocate(p) \in Nat /\ file_size \in Nat /\ page_capacity_' \in Nat /\ page_capacity_ \in Nat
        BY <1>1, <2>1, PageCountNat, AllocateType DEF TypeOK
      <3>4. ~(Mapped(p) \/ free_slots_ # <<>>)
        BY <1>1, <2>1, <2>2, <3>1, <3>2, <3>3, SlotFresh DEF Total, SlotsInFile
      <3>5. free_slots_' = free_slots_ BY Zenon, <2>1, <3>4 DEF Allocate
      <3>6. PageCount' = PageCount /\ UsedSlots' = UsedSlots /\ FreeSlots' = FreeSlots
        BY Zenon, <3>2, <3>5 DEF PageCount, UsedSlots, FreeSlots
      <3>7. page_capacity_ <= page_capacity_' BY Zenon, <1>1, <2>1, <3>1, <3>3, SlotFresh
      <3>8. SlotsCover' BY <3>1, <3>3, <3>5, <3>6, <3>7 DEF Owned, SlotsCover
      <3>9. SlotsInFile' BY <2>2, <2>3, <3>1, <3>3, <3>5, <3>6 DEF SlotsInFile
      <3>10. PagesDistinct' /\ FreeDistinct' BY Zenon, <3>1, <3>2, <3>5 DEF Owned, PagesDistinct, FreeDistinct
      <3> QED BY Zenon, <1>2, <2>2, <2>5, <2>9, <2>10, <3>8, <3>9, <3>10 DEF OwnershipInv, SlotOwnership
    <2>12. CASE stream = "good" /\ ~ReadNoSize(p)
      <3>1. Record(p) /\ SlotOf(p) <= SizeAfterAllocate(p)
        BY Zenon, <1>4, <2>2, <2>12 DEF ReadPage, ReadOk, ReadFails, ReadWhenBad, ReadWhenClosed, ReadSized
      <3>2. Owned' /\ SlotsInFile' BY Zenon, <2>1, <2>3, <2>4, <2>12, <3>1, RecordInv
      <3> QED BY Zenon, <1>2, <2>2, <2>5, <2>9, <2>10, <3>2 DEF OwnershipInv, SlotOwnership, Owned
    <2>13. CASE stream # "good"
      BY Zenon, <1>2, <2>2, <2>5, <2>8, <2>9, <2>10, <2>13 DEF OwnershipInv, SlotOwnership
    <2> QED BY Zenon, <2>11, <2>12, <2>13
  <1> QED BY Zenon, <1>3, <1>4

(* DeletePage moves a slot from its page to the free stack. *)
LEMMA DeleteInv ==
    ASSUME OwnershipInv, NEW p \in PageIds, DeletePage(p)
    PROVE  OwnershipInv'
  <1>1. TypeOK /\ TypeOK' BY Zenon, OtherType DEF OwnershipInv
  <1>2. /\ p \in DOMAIN pages_ /\ DOMAIN pages_' = DOMAIN pages_ \ {p}
        /\ \A q \in DOMAIN pages_' : pages_'[q] = pages_[q]
        /\ free_slots_' = Append(free_slots_, pages_[p])
        /\ DOMAIN acked' = DOMAIN acked \ {p} /\ \A q \in DOMAIN acked' : acked'[q] = acked[q]
        /\ UNCHANGED <<page_capacity_, file, file_size, stream, victim>>
    BY Zenon DEF DeletePage, Mapped, Remove
  <1>3. PageCount \in Nat /\ IsFiniteSet(DOMAIN pages_) BY Zenon, <1>1, PageCountNat
  <1>4. PageCount' = PageCount - 1
    <2>1. Cardinality(DOMAIN pages_ \ {p}) = Cardinality(DOMAIN pages_) - 1
      BY <1>2, <1>3, FS_RemoveElement, Zenon
    <2> QED BY Zenon, <1>2, <2>1 DEF PageCount
  <1> DEFINE n == Len(free_slots_)
  <1>5. /\ n \in Nat /\ Len(free_slots_') = n + 1
        /\ free_slots_'[n + 1] = pages_[p] /\ \A i \in 1..n : free_slots_'[i] = free_slots_[i]
    BY <1>1, <1>2 DEF TypeOK
  <1>6. PageCount' + Len(free_slots_') = PageCount + n BY <1>3, <1>4, <1>5
  <1>7. stream = "good" => Owned'
    <2> SUFFICES ASSUME stream = "good" PROVE Owned' BY Zenon
    <2>1. Owned BY Zenon DEF OwnershipInv, SlotOwnership, Owned
    <2>2. PagesDistinct' BY Zenon, <1>2, <2>1 DEF PagesDistinct, Owned
    <2>3. \A i \in 1..n : free_slots_[i] # pages_[p]
      BY Zenon, <1>2, <2>1 DEF Owned, SlotsCover, UsedSlots, FreeSlots
    <2>4. FreeDistinct'
      <3> SUFFICES ASSUME NEW i \in 1..(n + 1), NEW j \in 1..(n + 1), free_slots_'[i] = free_slots_'[j]
                   PROVE  i = j
        BY Zenon, <1>5 DEF FreeDistinct
      <3> HIDE DEF n
      <3>1. i \in 1..n \/ i = n + 1 BY <1>5
      <3>2. j \in 1..n \/ j = n + 1 BY <1>5
      <3>3. \A k, l \in 1..n : free_slots_[k] = free_slots_[l] => k = l BY Zenon, <2>1 DEF Owned, FreeDistinct, n
      <3> QED BY Zenon, <1>5, <2>3, <3>1, <3>2, <3>3
    <2>5. UsedSlots' = UsedSlots \ {pages_[p]}
      BY <1>2, <2>1 DEF UsedSlots, Owned, PagesDistinct
    <2>6. FreeSlots' = FreeSlots \cup {pages_[p]}
      <3>1. FreeSlots' = {free_slots_'[i] : i \in 1..(n + 1)} BY Zenon, <1>5 DEF FreeSlots
      <3> HIDE DEF n
      <3>2. 1..(n + 1) = 1..n \cup {n + 1} BY <1>5
      <3>3. FreeSlots = {free_slots_[i] : i \in 1..n} BY Zenon DEF FreeSlots, n
      <3> QED BY <1>5, <3>1, <3>2, <3>3
    <2>7. pages_[p] \in UsedSlots BY Zenon, <1>2 DEF UsedSlots
    <2>8. UsedSlots' \cap FreeSlots' = {} BY Zenon, <2>1, <2>5, <2>6 DEF Owned, SlotsCover
    <2>9. UsedSlots' \cup FreeSlots' = UsedSlots \cup FreeSlots BY Zenon, <2>5, <2>6, <2>7
    <2>10. SlotsCover'
      <3>1. UsedSlots' \cup FreeSlots' = 0..(PageCount' + Len(free_slots_') - 1)
        BY <1>3, <1>4, <1>5, <2>1, <2>9 DEF Owned, SlotsCover
      <3>2. PageCount' + Len(free_slots_') <= page_capacity_'
        BY Zenon, <1>2, <1>6, <2>1 DEF Owned, SlotsCover
      <3> QED BY Zenon, <2>8, <3>1, <3>2 DEF SlotsCover
    <2> QED BY Zenon, <2>2, <2>4, <2>10 DEF Owned
  <1>8. AckedIntact' BY Zenon, <1>2 DEF OwnershipInv, AckedIntact, Mapped
  <1>9. (stream = "good" => SlotsInFile)' BY Zenon, <1>2, <1>6 DEF OwnershipInv, SlotsInFile
  <1>10. FileBound' /\ CapacityBound' /\ VictimBad'
    BY Zenon, <1>2 DEF OwnershipInv, FileBound, CapacityBound, VictimBad
  <1> QED BY Zenon, <1>1, <1>2, <1>7, <1>8, <1>9, <1>10 DEF OwnershipInv, SlotOwnership, Owned

(* The whole invariant is inductive. *)
LEMMA OwnershipStep ==
    ASSUME FileSizeFits, OwnershipInv, [Next]_vars
    PROVE  OwnershipInv'
  <1>1. TypeOK BY Zenon DEF OwnershipInv
  <1>2. CASE UNCHANGED vars
    <2>1. PageCount' = PageCount /\ UsedSlots' = UsedSlots /\ FreeSlots' = FreeSlots
      BY Zenon, <1>2 DEF vars, PageCount, UsedSlots, FreeSlots
    <2>2. SlotOwnership' BY Zenon, <1>2, <2>1 DEF vars, OwnershipInv, SlotOwnership, PagesDistinct, FreeDistinct, SlotsCover
    <2>3. TypeOK' BY Zenon, <1>1, <1>2 DEF vars, TypeOK
    <2>4. AckedIntact' BY Zenon, <1>2 DEF vars, OwnershipInv, AckedIntact, Mapped
    <2>5. (stream = "good" => SlotsInFile)' BY Zenon, <1>2, <2>1 DEF vars, OwnershipInv, SlotsInFile
    <2>6. FileBound' /\ CapacityBound' /\ VictimBad'
      BY Zenon, <1>2 DEF vars, OwnershipInv, FileBound, CapacityBound, VictimBad
    <2> QED BY Zenon, <2>2, <2>3, <2>4, <2>5, <2>6 DEF OwnershipInv
  <1>3. ASSUME NEW p \in PageIds, NEW d \in Values, WritePage(p, d) PROVE OwnershipInv'
    BY Zenon, <1>3, WriteInv
  <1>4. ASSUME NEW p \in PageIds, ReadPage(p) PROVE OwnershipInv' BY Zenon, <1>4, ReadInv
  <1>5. ASSUME NEW p \in PageIds, DeletePage(p) PROVE OwnershipInv' BY Zenon, <1>5, DeleteInv
  <1>6. CASE ShutDown
    <2>1. TypeOK' BY Zenon, <1>1, <1>6, OtherType
    <2> QED BY Zenon, <1>6, <2>1 DEF ShutDown, OwnershipInv, SlotOwnership, AckedIntact, Mapped, FileBound, CapacityBound, VictimBad
  <1>7. CASE Reopen
    <2>1. TypeOK' BY Zenon, <1>1, <1>7, OtherType
    <2>2. DOMAIN pages_' = {} /\ DOMAIN acked' = {} /\ free_slots_' = <<>> /\ page_capacity_' = InitCapacity
          /\ file_size' = InitCapacity + 1 /\ stream' = "good" /\ victim' = None
      BY Zenon, <1>7 DEF Reopen, EmptyMap
    <2>3. PageCount' = 0 BY Zenon, <2>2, FS_EmptySet DEF PageCount
    <2>4. Owned'
      BY <2>2, <2>3, CapacityAssumption DEF Owned, PagesDistinct, FreeDistinct, SlotsCover, UsedSlots, FreeSlots
    <2>5. AckedIntact' BY Zenon, <2>2 DEF AckedIntact
    <2>6. SlotsInFile' /\ FileBound' /\ CapacityBound' /\ VictimBad'
      BY <2>2, <2>3, CapacityAssumption DEF SlotsInFile, FileBound, CapacityBound, VictimBad
    <2> QED BY Zenon, <2>1, <2>4, <2>5, <2>6 DEF OwnershipInv, SlotOwnership, Owned
  <1> QED BY Zenon, <1>2, <1>3, <1>4, <1>5, <1>6, <1>7 DEF Next

(* A new disk manager owns no slot. *)
LEMMA OwnershipInit == Init => OwnershipInv
  <1> SUFFICES ASSUME Init PROVE OwnershipInv BY Zenon
  <1>1. TypeOK BY CapacityAssumption DEF Init, TypeOK, EmptyMap, Data
  <1>2. DOMAIN pages_ = {} /\ DOMAIN acked = {} /\ free_slots_ = <<>> /\ page_capacity_ = InitCapacity
        /\ file_size = InitCapacity + 1 /\ stream = "good" /\ victim = None
    BY Zenon DEF Init, EmptyMap
  <1>3. PageCount = 0 BY Zenon, <1>2, FS_EmptySet DEF PageCount
  <1>4. Owned
    BY <1>2, <1>3, CapacityAssumption DEF Owned, PagesDistinct, FreeDistinct, SlotsCover, UsedSlots, FreeSlots
  <1>5. AckedIntact BY Zenon, <1>2 DEF AckedIntact
  <1>6. SlotsInFile /\ FileBound /\ CapacityBound /\ VictimBad
    BY <1>2, <1>3, CapacityAssumption DEF SlotsInFile, FileBound, CapacityBound, VictimBad
  <1> QED BY Zenon, <1>1, <1>4, <1>5, <1>6 DEF OwnershipInv, SlotOwnership, Owned

(* As long as the stream is usable, no slot of the file belongs to two      *)
(* pages, or to a page and the free stack, and none is lost, provided stat  *)
(* does not fail and the file stays below 2 GiB (AllocatePage, DeletePage). *)
THEOREM OwnershipHolds ==
    ASSUME FileSizeFits
    PROVE  Spec => []SlotOwnership
  <1>1. OwnershipInv /\ [Next]_vars => OwnershipInv' BY Zenon, OwnershipStep
  <1>2. OwnershipInv => SlotOwnership BY Zenon DEF OwnershipInv
  <1> QED BY <1>1, <1>2, OwnershipInit, PTL DEF Spec

(* Stored contents stay at their page's slot through every access to other  *)
(* pages, every deletion, reallocation, growth and I/O error, except for    *)
(* the page whose I/O failed.                                               *)
THEOREM AckedIntactHolds ==
    ASSUME FileSizeFits
    PROVE  Spec => []AckedIntact
  <1>1. OwnershipInv /\ [Next]_vars => OwnershipInv' BY Zenon, OwnershipStep
  <1>2. OwnershipInv => AckedIntact BY Zenon DEF OwnershipInv
  <1> QED BY <1>1, <1>2, OwnershipInit, PTL DEF Spec

(* ReadPage returns what WritePage stored. *)
THEOREM ReadYourWritesHolds ==
    ASSUME FileSizeFits
    PROVE  Spec => ReadYourWrites
  <1>1. OwnershipInv /\ [Next]_vars => OwnershipInv' BY Zenon, OwnershipStep
  <1>2. ASSUME OwnershipInv, NEW p \in DOMAIN acked, ReadPage(p), stream = "good", stream' = "good"
        PROVE  out'.data = acked[p]
    <2>1. TypeOK /\ FileBound /\ CapacityBound /\ p \in PageIds BY Zenon, <1>2 DEF OwnershipInv, TypeOK
    <2>2. victim = None /\ p # None BY Zenon, <1>2, <2>1, PagesAssumption DEF OwnershipInv, VictimBad
    <2>3. p \in DOMAIN pages_ /\ pages_[p] < file_size /\ file[pages_[p]] = acked[p]
      BY Zenon, <1>2, <2>2 DEF OwnershipInv, AckedIntact, Mapped
    <2>4. ~MustGrow(p) /\ SlotOf(p) = pages_[p] /\ SizeAfterAllocate(p) = file_size /\ FileAfterAllocate(p) = file
      BY Zenon, <2>3 DEF MustGrow, Mapped, SlotOf, SizeAfterAllocate, FileAfterAllocate
    <2>5. ~ResizeFails(p) BY Zenon, <2>4 DEF ResizeFails
    <2>6. Allocate(p) BY Zenon, <1>2, <2>5 DEF ReadPage
    <2>7. AsInt(file_size) = file_size BY Zenon, <2>1, <2>4, <2>6, AllocateBounds
    <2>8. pages_[p] \in Nat /\ file_size \in Nat BY Zenon, <2>1, <2>3 DEF TypeOK
    <2>9. ~ReadNoSize(p) BY <2>3, <2>4, <2>7, <2>8 DEF ReadNoSize, FileSizeFits
    <2>10. ReadOk(p)
      BY Zenon, <1>2, <2>5, <2>9 DEF ReadPage, ReadFails, ReadWhenBad, ReadWhenClosed
    <2> QED BY Zenon, <2>3, <2>4, <2>10 DEF ReadOk, Returned
  <1>3. OwnershipInv /\ [Next]_vars =>
          [\A p \in DOMAIN acked : (ReadPage(p) /\ stream = "good" /\ stream' = "good") => out'.data = acked[p]]_vars
    BY Zenon, <1>2
  <1> QED BY <1>1, <1>3, OwnershipInit, PTL DEF Spec, ReadYourWrites

-----------------------------------------------------------------------------
(* The page store that the disk manager implements.                        *)

Abstract == [p \in DOMAIN pages_ |-> Held(p)]

(* What the file grows by is zeroes, except in the slot that is written. *)
LEMMA FileExtended ==
    ASSUME TypeOK, FileBound, CapacityBound, NEW p \in PageIds, NEW d \in Data, Allocate(p),
           NoStore(p) \/ Store(p, d)
    PROVE  \A s \in file_size..(file_size' - 1) : NoStore(p) \/ s # SlotOf(p) => file'[s] = Zero
  <1>1. /\ SlotOf(p) \in Nat /\ SizeAfterAllocate(p) \in Nat \ {0}
        /\ file_size \in Nat \ {0} /\ DOMAIN file = 0..(file_size - 1)
    BY Zenon, AllocateType DEF TypeOK
  <1>2. \A n \in Nat : \A s \in file_size..(n - 1) : FileResize(file, n)[s] = Zero
    BY <1>1 DEF FileResize
  <1>3. ASSUME NoStore(p), NEW s \in file_size..(file_size' - 1) PROVE file'[s] = Zero
    <2>1. CASE MustGrow(p)
      BY Zenon, <1>1, <1>2, <1>3, <2>1 DEF NoStore, FileAfterAllocate
    <2>2. CASE ~MustGrow(p)
      BY <1>1, <1>3, <2>2 DEF NoStore, SizeAfterAllocate
    <2> QED BY Zenon, <2>1, <2>2
  <1>4. ASSUME Store(p, d), NEW s \in file_size..(file_size' - 1), s # SlotOf(p) PROVE file'[s] = Zero
    <2> DEFINE n == IF SlotOf(p) < SizeAfterAllocate(p) THEN SizeAfterAllocate(p) ELSE SlotOf(p) + 1
    <2>1. file_size' = n /\ file' = [FileResize(file, n) EXCEPT ![SlotOf(p)] = d]
      BY Zenon, <1>4 DEF Store
    <2>2. n \in Nat BY <1>1
    <2> HIDE DEF n
    <2>3. DOMAIN FileResize(file, n) = 0..(n - 1) BY Zenon DEF FileResize
    <2>4. s \in 0..(n - 1) BY <1>1, <1>4, <2>1, <2>2
    <2>5. file'[s] = FileResize(file, n)[s] BY Zenon, <1>4, <2>1, <2>3, <2>4
    <2> QED BY Zenon, <1>2, <1>4, <2>1, <2>2, <2>5
  <1> QED BY Zenon, <1>3, <1>4

(* An access to p leaves the contents of every other page alone, and of p *)
(* too when nothing is written.                                           *)
LEMMA HeldKept ==
    ASSUME OwnershipInv, NEW p \in PageIds, NEW d \in Data, Allocate(p),
           NoStore(p) \/ (stream = "good" /\ Store(p, d)),
           UNCHANGED pages_ \/ Record(p),
           NEW q \in DOMAIN pages_, q # p \/ NoStore(p)
    PROVE  q \in DOMAIN pages_' /\ Held(q)' = Held(q)
  <1>1. TypeOK /\ FileBound /\ CapacityBound BY Zenon DEF OwnershipInv
  <1>2. q \in DOMAIN pages_' /\ pages_'[q] = pages_[q]
    <2>1. CASE UNCHANGED pages_ BY Zenon, <2>1
    <2>2. CASE Record(p) BY <1>1, <2>2, RecordCount, Zenon DEF Mapped, SlotOf
    <2> QED BY Zenon, <2>1, <2>2
  <1>3. NoStore(p) \/ pages_[q] # SlotOf(p)
    <2>1. CASE q = p BY Zenon, <2>1
    <2>2. CASE q # p /\ stream = "good"
      <3>1. Owned BY Zenon, <2>2 DEF OwnershipInv, SlotOwnership, Owned
      <3> QED BY Zenon, <1>1, <2>2, <3>1, SlotFresh
    <2> QED BY Zenon, <2>1, <2>2
  <1>4. pages_[q] \in Nat /\ file_size \in Nat /\ file_size' \in Nat /\ file_size <= file_size'
    BY Zenon, <1>1, FileKept, StoreType DEF TypeOK
  <1>5. CASE pages_[q] < file_size
    <2>1. pages_[q] \in 0..(file_size - 1) BY <1>4, <1>5
    <2>2. file'[pages_[q]] = file[pages_[q]] BY Zenon, <1>1, <1>3, <2>1, FileKept
    <2>3. pages_[q] < file_size' BY <1>4, <1>5
    <2> QED BY Zenon, <1>2, <1>5, <2>2, <2>3 DEF Held
  <1>6. CASE ~(pages_[q] < file_size) /\ pages_[q] < file_size'
    <2>1. pages_[q] \in file_size..(file_size' - 1) BY <1>4, <1>6
    <2>2. file'[pages_[q]] = Zero BY Zenon, <1>1, <1>3, <2>1, FileExtended
    <2> QED BY Zenon, <1>2, <1>6, <2>2 DEF Held
  <1>7. CASE ~(pages_[q] < file_size) /\ ~(pages_[q] < file_size')
    BY Zenon, <1>2, <1>7 DEF Held
  <1> QED BY Zenon, <1>5, <1>6, <1>7

(* An access to p as a step of the abstract store: it leaves it as it is or *)
(* puts something under p.                                                  *)
LEMMA AccessAbstract ==
    ASSUME OwnershipInv, TypeOK', NEW p \in PageIds, NEW d \in Data, Allocate(p),
           NoStore(p) \/ (stream = "good" /\ Store(p, d)),
           UNCHANGED pages_ \/ Record(p)
    PROVE  /\ (Mapped(p) /\ NoStore(p)) \/ (~Mapped(p) /\ UNCHANGED pages_) => Abstract' = Abstract
           /\ Mapped(p) \/ Record(p) =>
                /\ Held(p)' \in Data
                /\ Abstract' = [x \in DOMAIN Abstract \cup {p} |-> IF x = p THEN Held(p)' ELSE Abstract[x]]
  <1>1. TypeOK BY Zenon DEF OwnershipInv
  <1>2. Record(p) => DOMAIN pages_' = DOMAIN pages_ \cup {p} BY Zenon, <1>1, RecordCount
  <1>3. Mapped(p) => DOMAIN pages_' = DOMAIN pages_ BY Zenon, <1>2 DEF Mapped
  <1>4. Mapped(p) \/ Record(p) => DOMAIN pages_' = DOMAIN pages_ \cup {p} BY Zenon, <1>2, <1>3 DEF Mapped
  <1>5. \A q \in DOMAIN pages_ : q # p \/ NoStore(p) => Held(q)' = Held(q) BY Zenon, HeldKept
  <1>6. Abstract' = [q \in DOMAIN pages_' |-> Held(q)'] BY Zenon DEF Abstract
  <1>7. ASSUME (Mapped(p) /\ NoStore(p)) \/ (~Mapped(p) /\ UNCHANGED pages_) PROVE Abstract' = Abstract
    <2>1. DOMAIN pages_' = DOMAIN pages_ BY Zenon, <1>3, <1>7
    <2>2. \A q \in DOMAIN pages_ : Held(q)' = Held(q) BY Zenon, <1>5, <1>7 DEF Mapped
    <2> QED BY Zenon, <1>6, <2>1, <2>2 DEF Abstract
  <1>8. ASSUME Mapped(p) \/ Record(p)
        PROVE  /\ Held(p)' \in Data
               /\ Abstract' = [x \in DOMAIN Abstract \cup {p} |-> IF x = p THEN Held(p)' ELSE Abstract[x]]
    <2>1. DOMAIN pages_' = DOMAIN pages_ \cup {p} BY Zenon, <1>4, <1>8
    <2>2. Held(p)' \in Data
      <3>1. pages_'[p] \in Nat /\ file_size' \in Nat /\ file' \in [0..(file_size' - 1) -> Data]
        BY Zenon, <2>1 DEF TypeOK
      <3>2. Zero \in Data BY Zenon DEF Data
      <3>3. Held(p)' = IF pages_'[p] < file_size' THEN file'[pages_'[p]] ELSE Zero BY Zenon DEF Held
      <3>4. CASE pages_'[p] < file_size'
        <4>1. pages_'[p] \in 0..(file_size' - 1) BY <3>1, <3>4
        <4> QED BY Zenon, <3>1, <3>3, <3>4, <4>1
      <3> QED BY Zenon, <3>2, <3>3, <3>4
    <2>3. \A x \in DOMAIN pages_ : x # p => Held(x)' = Abstract[x] BY Zenon, <1>5 DEF Abstract
    <2>4. DOMAIN Abstract = DOMAIN pages_ BY Zenon DEF Abstract
    <2> QED BY Zenon, <1>6, <2>1, <2>2, <2>3, <2>4
  <1> QED BY Zenon, <1>7, <1>8

(* What a write leaves in the page. *)
LEMMA StoredHeld ==
    ASSUME OwnershipInv, NEW p \in PageIds, NEW d \in Data, Allocate(p), Store(p, d), Record(p)
    PROVE  Held(p)' = d
  <1>1. TypeOK /\ FileBound /\ CapacityBound BY Zenon DEF OwnershipInv
  <1>2. SlotOf(p) \in Nat /\ SizeAfterAllocate(p) \in Nat BY Zenon, <1>1, AllocateType
  <1>3. pages_'[p] = SlotOf(p) BY Zenon, <1>1, RecordCount
  <1> DEFINE n == IF SlotOf(p) < SizeAfterAllocate(p) THEN SizeAfterAllocate(p) ELSE SlotOf(p) + 1
  <1>4. file_size' = n /\ file' = [FileResize(file, n) EXCEPT ![SlotOf(p)] = d] BY Zenon DEF Store
  <1>5. n \in Nat /\ SlotOf(p) < n BY <1>2
  <1> HIDE DEF n
  <1>6. SlotOf(p) \in DOMAIN FileResize(file, n) BY <1>2, <1>5 DEF FileResize
  <1>7. file'[SlotOf(p)] = d BY Zenon, <1>4, <1>6
  <1> QED BY Zenon, <1>3, <1>4, <1>5, <1>7 DEF Held

(* ReadPage gives up for want of size only on a page that has no slot yet. *)
LEMMA NoSizeUnmapped ==
    ASSUME FileSizeFits, OwnershipInv, NEW p \in PageIds, Allocate(p), ReadNoSize(p)
    PROVE  ~(Mapped(p) /\ stream = "good")
  <1>1. TypeOK /\ FileBound /\ CapacityBound BY Zenon DEF OwnershipInv
  <1> SUFFICES ASSUME Mapped(p), stream = "good" PROVE FALSE BY Zenon
  <1>2. AsInt(SizeAfterAllocate(p)) = SizeAfterAllocate(p) /\ file_size <= SizeAfterAllocate(p)
    BY Zenon, <1>1, AllocateBounds
  <1>3. Owned /\ SlotsInFile BY Zenon DEF OwnershipInv, SlotOwnership, Owned
  <1>4. PageCount \in Nat /\ Len(free_slots_) \in Nat /\ SlotOf(p) \in Nat
        /\ SizeAfterAllocate(p) \in Nat /\ file_size \in Nat
    BY <1>1, PageCountNat, AllocateType DEF TypeOK
  <1>5. SlotOf(p) > SizeAfterAllocate(p) BY <1>2, <1>4 DEF ReadNoSize, FileSizeFits
  <1> QED BY <1>1, <1>2, <1>3, <1>4, <1>5, SlotFresh DEF Total, SlotsInFile

(* An access as the abstract store sees it. *)
LEMMA PutAbstract ==
    ASSUME NEW p, NEW d
    PROVE  PageStore!Put(p, d)
             <=> Abstract' = [x \in DOMAIN Abstract \cup {p} |-> IF x = p THEN d ELSE Abstract[x]]
  BY Zenon DEF PageStore!Put, Abstract

LEMMA AppearAbstract ==
    ASSUME OwnershipInv, TypeOK', NEW p \in PageIds, Allocate(p), NoStore(p), Record(p)
    PROVE  PageStore!Appear(p)
  <1>1. Zero \in Data BY Zenon DEF Data
  <1>2. PageStore!Held(p) <=> Mapped(p) BY Zenon DEF PageStore!Held, Mapped
  <1>3. CASE Mapped(p)
    <2>1. Abstract' = Abstract BY Zenon, <1>1, <1>3, AccessAbstract
    <2> QED BY Zenon, <1>2, <1>3, <2>1 DEF PageStore!Appear, Abstract
  <1>4. CASE ~Mapped(p)
    <2>1. Held(p)' \in Data /\ PageStore!Put(p, Held(p)') BY Zenon, <1>1, AccessAbstract, PutAbstract
    <2> QED BY Zenon, <1>2, <1>4, <2>1 DEF PageStore!Appear
  <1> QED BY Zenon, <1>3, <1>4

(* WritePage is a write of the abstract store, its failure, or nothing. *)
LEMMA WriteAbstract ==
    ASSUME OwnershipInv, TypeOK', NEW p \in PageIds, NEW d \in Values, WritePage(p, d)
    PROVE  PageStore!Write(p, d) \/ PageStore!Break(p) \/ PageStore!WriteClosed(p) \/ UNCHANGED PageStore!vars
  <1>1. d \in Data /\ Torn \in Data /\ Zero \in Data BY Zenon DEF Data
  <1>2. CASE ResizeFails(p)
    <2>1. UNCHANGED <<pages_, file, file_size, stream, out>> BY Zenon, <1>2 DEF ResizeFails
    <2>2. UNCHANGED <<Abstract, stream, out>> BY Zenon, <2>1 DEF Abstract, Held
    <2> QED BY Zenon, <2>2 DEF PageStore!vars, Abstract
  <1>3. CASE ~ResizeFails(p)
    <2>1. Allocate(p) /\ UNCHANGED out
          /\ (WriteOk(p, d) \/ WriteFlushFails(p, d) \/ WriteFails(p, d) \/ WriteWhenBad(p) \/ WriteWhenClosed(p))
      BY Zenon, <1>3 DEF WritePage
    <2>2. CASE WriteOk(p, d)
      <3>1. stream = "good" /\ UNCHANGED stream /\ Store(p, d) /\ Record(p) BY Zenon, <2>2 DEF WriteOk, WriteDone
      <3>2. PageStore!Put(p, Held(p)') BY Zenon, <1>1, <2>1, <3>1, AccessAbstract, PutAbstract
      <3>3. Held(p)' = d BY Zenon, <1>1, <2>1, <3>1, StoredHeld
      <3> QED BY Zenon, <2>1, <3>1, <3>2, <3>3 DEF PageStore!Write
    <2>3. CASE WriteFlushFails(p, d)
      <3>1. stream = "good" /\ stream' = "bad" /\ PartialStore(p, d) /\ Record(p)
        BY Zenon, <2>3 DEF WriteFlushFails, WriteDone
      <3>2. Held(p)' \in Data /\ PageStore!Put(p, Held(p)')
        BY <1>1, <2>1, <3>1, AccessAbstract, PutAbstract, Zenon DEF PartialStore
      <3> QED BY <2>1, <3>1, <3>2, Zenon DEF PageStore!Break
    <2>4. CASE WriteFails(p, d)
      <3>1. stream = "good" /\ stream' = "bad" /\ PartialStore(p, d) /\ UNCHANGED pages_ BY Zenon, <2>4 DEF WriteFails
      <3>2. CASE Mapped(p)
        <4>1. Held(p)' \in Data /\ PageStore!Put(p, Held(p)')
          BY <1>1, <2>1, <3>1, <3>2, AccessAbstract, PutAbstract, Zenon DEF PartialStore
        <4> QED BY Zenon, <2>1, <3>1, <4>1 DEF PageStore!Break
      <3>3. CASE ~Mapped(p)
        <4>1. Abstract' = Abstract BY <1>1, <2>1, <3>1, <3>3, AccessAbstract, Zenon DEF PartialStore
        <4> QED BY Zenon, <2>1, <3>1, <4>1 DEF PageStore!Break, Abstract
      <3> QED BY Zenon, <3>2, <3>3
    <2>5. CASE WriteWhenBad(p)
      <3>1. NoStore(p) /\ UNCHANGED <<pages_, stream>> BY Zenon, <2>5 DEF WriteWhenBad
      <3>2. Abstract' = Abstract BY Zenon, <1>1, <2>1, <3>1, AccessAbstract
      <3> QED BY Zenon, <2>1, <3>1, <3>2 DEF PageStore!vars, Abstract
    <2>6. CASE WriteWhenClosed(p)
      <3>1. stream = "closed" /\ NoStore(p) /\ Record(p) /\ UNCHANGED stream BY Zenon, <2>6 DEF WriteWhenClosed, WriteDone
      <3>2. PageStore!Appear(p) BY Zenon, <2>1, <3>1, AppearAbstract
      <3> QED BY Zenon, <2>1, <3>1, <3>2 DEF PageStore!WriteClosed
    <2> QED BY Zenon, <2>1, <2>2, <2>3, <2>4, <2>5, <2>6
  <1> QED BY Zenon, <1>2, <1>3

(* ReadPage is a read of the abstract store, its refusal or its failure. *)
LEMMA ReadAbstract ==
    ASSUME FileSizeFits, OwnershipInv, TypeOK', NEW p \in PageIds, ReadPage(p)
    PROVE  \/ PageStore!Read(p) \/ PageStore!Refuse(p) \/ PageStore!Break(p)
           \/ PageStore!ReadBroken(p) \/ PageStore!ReadClosed(p) \/ UNCHANGED PageStore!vars
  <1>1. TypeOK /\ FileBound /\ CapacityBound BY Zenon DEF OwnershipInv
  <1>2. Zero \in Data BY Zenon DEF Data
  <1>3. CASE ResizeFails(p)
    <2>1. UNCHANGED <<pages_, file, file_size, stream, out>> BY Zenon, <1>3 DEF ResizeFails
    <2>2. UNCHANGED <<Abstract, stream, out>> BY Zenon, <2>1 DEF Abstract, Held
    <2> QED BY Zenon, <2>2 DEF PageStore!vars, Abstract
  <1>4. CASE ~ResizeFails(p)
    <2>1. Allocate(p) /\ NoStore(p)
          /\ (ReadNoSize(p) \/ ReadOk(p) \/ ReadFails(p) \/ ReadWhenBad(p) \/ ReadWhenClosed(p))
      BY Zenon, <1>4 DEF ReadPage
    <2>2. Record(p) => PageStore!Appear(p) BY Zenon, <2>1, AppearAbstract
    <2>3. CASE ReadNoSize(p)
      <3>1. UNCHANGED <<pages_, stream>> /\ out' = [page |-> p, data |-> Untouched] BY Zenon, <2>3 DEF ReadNoSize, Returned
      <3>2. Abstract' = Abstract BY Zenon, <1>2, <2>1, <3>1, AccessAbstract
      <3>3. ~(Mapped(p) /\ stream = "good") BY Zenon, <2>1, <2>3, NoSizeUnmapped
      <3>4. PageStore!Held(p) <=> Mapped(p) BY Zenon DEF PageStore!Held, Mapped
      <3> QED BY Zenon, <3>1, <3>2, <3>3, <3>4 DEF PageStore!Refuse, Abstract
    <2>4. CASE ReadOk(p)
      <3>1. stream = "good" /\ UNCHANGED stream /\ Record(p)
            /\ out' = [page |-> p, data |-> IF SlotOf(p) < SizeAfterAllocate(p)
                                            THEN FileAfterAllocate(p)[SlotOf(p)] ELSE Zero]
        BY Zenon, <2>4 DEF ReadOk, Returned
      <3>2. pages_'[p] = SlotOf(p) /\ p \in DOMAIN pages_' BY Zenon, <1>1, <3>1, RecordCount
      <3>3. out' = [page |-> p, data |-> Held(p)'] BY Zenon, <2>1, <3>1, <3>2 DEF NoStore, Held
      <3>4. Abstract'[p] = Held(p)' BY Zenon, <3>2 DEF Abstract
      <3> QED BY <2>2, <3>1, <3>3, <3>4, Zenon DEF PageStore!Read, Abstract
    <2>5. CASE ReadFails(p)
      <3>1. /\ stream = "good" /\ stream' = "bad" /\ Record(p)
            /\ out' = [page |-> p, data |-> Untouched]
        BY Zenon, <2>5 DEF ReadFails, Returned
      <3>2. Held(p)' \in Data /\ PageStore!Put(p, Held(p)') BY Zenon, <1>2, <2>1, <3>1, AccessAbstract, PutAbstract
      <3> QED BY <3>1, <3>2, Zenon DEF PageStore!Break
    <2>6. CASE ReadWhenBad(p)
      BY Zenon, <2>2, <2>6 DEF ReadWhenBad, Returned, PageStore!ReadBroken
    <2>7. CASE ReadWhenClosed(p)
      BY Zenon, <2>2, <2>7 DEF ReadWhenClosed, Returned, PageStore!ReadClosed
    <2> QED BY Zenon, <2>1, <2>3, <2>4, <2>5, <2>6, <2>7
  <1> QED BY Zenon, <1>3, <1>4

LEMMA AbstractStep ==
    ASSUME FileSizeFits, OwnershipInv, TypeOK', [Next]_vars
    PROVE  [PageStore!Next]_(PageStore!vars)
  <1>1. CASE UNCHANGED vars
    <2>1. UNCHANGED <<pages_, file, file_size, stream, out>> BY Zenon, <1>1 DEF vars
    <2>2. UNCHANGED <<Abstract, stream, out>> BY Zenon, <2>1 DEF Abstract, Held
    <2> QED BY Zenon, <2>2 DEF PageStore!vars, Abstract
  <1>2. ASSUME NEW p \in PageIds, NEW d \in Values, WritePage(p, d) PROVE [PageStore!Next]_(PageStore!vars)
    BY Zenon, <1>2, WriteAbstract DEF PageStore!Next
  <1>3. ASSUME NEW p \in PageIds, ReadPage(p) PROVE [PageStore!Next]_(PageStore!vars)
    BY Zenon, <1>3, ReadAbstract DEF PageStore!Next
  <1>4. ASSUME NEW p \in PageIds, DeletePage(p) PROVE PageStore!Next
    <2>1. /\ Mapped(p) /\ pages_' = Remove(pages_, p)
          /\ UNCHANGED <<file, file_size, stream, out>>
      BY Zenon, <1>4 DEF DeletePage
    <2>2. DOMAIN pages_' = DOMAIN pages_ \ {p} /\ \A x \in DOMAIN pages_' : pages_'[x] = pages_[x]
      BY Zenon, <2>1 DEF Remove
    <2>3. \A x \in DOMAIN pages_' : Held(x)' = Held(x) BY Zenon, <2>1, <2>2 DEF Held
    <2>4. Abstract' = [x \in DOMAIN Abstract \ {p} |-> Abstract[x]] BY Zenon, <2>2, <2>3 DEF Abstract
    <2>5. PageStore!Delete(p) BY Zenon, <2>1, <2>4 DEF PageStore!Delete, PageStore!Held, Abstract, Mapped
    <2> QED BY Zenon, <2>5 DEF PageStore!Next
  <1>5. CASE ShutDown
    <2>1. UNCHANGED <<pages_, file, file_size, out>> BY Zenon, <1>5 DEF ShutDown
    <2>2. UNCHANGED Abstract BY Zenon, <2>1 DEF Abstract, Held
    <2> QED BY Zenon, <1>5, <2>1, <2>2 DEF ShutDown, PageStore!Close, PageStore!Next, Abstract
  <1>6. CASE Reopen
    <2>1. DOMAIN pages_' = {} BY <1>6 DEF Reopen, EmptyMap
    <2>2. Abstract' = [p \in {} |-> Zero] BY Zenon, <2>1 DEF Abstract
    <2> QED BY Zenon, <1>6, <2>2 DEF Reopen, PageStore!Reopen, PageStore!Next, Abstract
  <1> QED BY Zenon, <1>1, <1>2, <1>3, <1>4, <1>5, <1>6 DEF Next

(* For any number of pages, any capacity and any of the modelled I/O faults *)
(* but a failing stat, every step of the disk manager is a step of the page *)
(* store or invisible in it: the slots, the free stack and the growth of    *)
(* the file never show through WritePage, ReadPage and DeletePage.          *)
THEOREM ImplementsStore ==
    ASSUME FileSizeFits
    PROVE  Spec => ImplementsPageStore
  <1>1. Init => PageStore!Init
    <2> SUFFICES ASSUME Init PROVE PageStore!Init BY Zenon
    <2>1. DOMAIN pages_ = {} BY Zenon DEF Init, EmptyMap
    <2>2. Abstract = [p \in {} |-> Zero] BY Zenon, <2>1 DEF Abstract
    <2> QED BY Zenon, <2>2 DEF Init, PageStore!Init, Abstract
  <1>2. OwnershipInv /\ [Next]_vars => OwnershipInv' BY Zenon, OwnershipStep
  <1>3. OwnershipInv /\ OwnershipInv' /\ [Next]_vars => [PageStore!Next]_(PageStore!vars)
    BY Zenon, AbstractStep DEF OwnershipInv
  <1> QED BY <1>1, <1>2, <1>3, OwnershipInit, PTL DEF Spec, ImplementsPageStore, PageStore!Spec
=============================================================================
