---------------------------- MODULE DiskManager ----------------------------
(***************************************************************************)
(* The file-backed disk manager of BusTub (storage/disk/disk_manager.cpp): *)
(* pages are allocated lazily, on first access, in slots of one file;      *)
(* pages_ maps a page id to its slot, free_slots_ stacks the slots of      *)
(* deleted pages, and the file is doubled when the next append would not   *)
(* fit.  Offsets are counted in pages.  Every operation holds db_io_latch_ *)
(* from its first to its last statement, so each is one action.            *)
(*                                                                         *)
(* The stream db_io_ is reduced to what the code can tell apart.  badbit   *)
(* is sticky: the only clear() after the constructor (in ReadPage) is      *)
(* reached only when bad() is false.  On a closed stream seekp and seekg   *)
(* fail with failbit, which bad() does not see.                            *)
(***************************************************************************)
EXTENDS Integers, FiniteSets, Sequences

CONSTANTS
    PageIds,        \* page ids the callers use
    Values,         \* contents callers write
    InitCapacity,   \* DEFAULT_DB_IO_SIZE
    IntPages,       \* least number of pages whose size in bytes overflows int
    Faults,         \* which I/O faults the environment may inject
    MaxWrites,      \* bound on num_writes_
    MaxDeletes      \* bound on num_deletes_

Zero == "zero"              \* a page of zero bytes
Torn == "torn"              \* a page only part of which reached the file
Untouched == "untouched"    \* the caller's buffer, not written by ReadPage
None == "none"
Data == Values \cup {Zero, Torn}
FaultKinds == {"write", "flush", "read", "stat", "resize"}

ASSUME PagesAssumption == IsFiniteSet(PageIds) /\ None \notin PageIds
ASSUME ValuesAssumption == {Zero, Torn, Untouched} \cap Values = {}
ASSUME CapacityAssumption == InitCapacity \in Nat \ {0} /\ IntPages \in Nat \ {0}
ASSUME FaultsAssumption == Faults \subseteq FaultKinds
ASSUME BoundsAssumption == MaxWrites \in Nat /\ MaxDeletes \in Nat

VARIABLES
    pages_,         \* page id -> slot
    free_slots_,    \* stack of freed slots
    page_capacity_,
    file,           \* slot -> contents, over 0..file_size-1
    file_size,      \* size of the db file, in pages
    stream,         \* state of db_io_
    num_writes_, num_deletes_,
    out,            \* what the last ReadPage left in its caller's buffer
    acked,          \* history: contents of the pages whose WritePage returned normally
    victim          \* history: the page whose I/O set badbit

vars == <<pages_, free_slots_, page_capacity_, file, file_size, stream,
          num_writes_, num_deletes_, out, acked, victim>>

EmptyMap == [k \in {} |-> 0]
Put(f, k, v) == [x \in DOMAIN f \cup {k} |-> IF x = k THEN v ELSE f[x]]
Remove(f, k) == [x \in DOMAIN f \ {k} |-> f[x]]

(* Mutant: the file is truncated before it is resized. *)
FileResize_Truncates(f, n) == [s \in 0..(n - 1) |-> Zero]

FileResize(f, n) == [s \in 0..(n - 1) |-> IF s \in DOMAIN f THEN f[s] ELSE Zero]

(* resize_file in the constructor; the file is new or left by an earlier run *)
Init ==
    /\ pages_ = EmptyMap /\ free_slots_ = <<>>
    /\ page_capacity_ = InitCapacity
    /\ file_size = InitCapacity + 1
    /\ file = [s \in 0..InitCapacity |-> Zero]
    /\ stream = "good"
    /\ num_writes_ = 0 /\ num_deletes_ = 0
    /\ out = [page |-> None, data |-> Untouched]
    /\ acked = EmptyMap /\ victim = None

-----------------------------------------------------------------------------
(* AllocatePage, and the lookup that WritePage and ReadPage start with.    *)

Mapped(p) == p \in DOMAIN pages_
PageCount == Cardinality(DOMAIN pages_)

MustGrow(p) == ~Mapped(p) /\ free_slots_ = <<>> /\ PageCount + 1 >= page_capacity_

SlotOf(p) ==
    IF Mapped(p) THEN pages_[p]
    ELSE IF free_slots_ # <<>> THEN free_slots_[Len(free_slots_)]
    ELSE PageCount

Allocate(p) ==
    /\ free_slots_' = IF ~Mapped(p) /\ free_slots_ # <<>> THEN SubSeq(free_slots_, 1, Len(free_slots_) - 1)
                      ELSE free_slots_
    /\ page_capacity_' = IF MustGrow(p) THEN 2 * page_capacity_ ELSE page_capacity_

SizeAfterAllocate(p) == IF MustGrow(p) THEN 2 * page_capacity_ + 1 ELSE file_size

FileAfterAllocate(p) == IF MustGrow(p) THEN FileResize(file, SizeAfterAllocate(p)) ELSE file

(* resize_file throws after page_capacity_ was doubled: the exception leaves *)
(* WritePage or ReadPage before any other assignment.                        *)
ResizeFails(p) ==
    /\ "resize" \in Faults /\ MustGrow(p)
    /\ Allocate(p)
    /\ UNCHANGED <<pages_, file, file_size, stream, num_writes_, num_deletes_, out, acked, victim>>

(* The file after the allocation's resize_file, without or with a write to  *)
(* p's slot; a write past the end extends the file.                         *)
NoStore(p) == file_size' = SizeAfterAllocate(p) /\ file' = FileAfterAllocate(p)

Store(p, d) ==
    LET n == IF SlotOf(p) < SizeAfterAllocate(p) THEN SizeAfterAllocate(p) ELSE SlotOf(p) + 1
    IN  /\ file_size' = n
        /\ file' = [FileResize(file, n) EXCEPT ![SlotOf(p)] = d]

(* A write or flush that fails may have reached the file, or not, or in part. *)
PartialStore(p, d) == NoStore(p) \/ Store(p, d) \/ Store(p, Torn)

Record(p) == pages_' = Put(pages_, p, SlotOf(p))

-----------------------------------------------------------------------------
(* WritePage *)

WriteDone(p) ==
    /\ Record(p)
    /\ num_writes_' = num_writes_ + 1

WriteOk(p, d) ==
    /\ stream = "good"
    /\ Store(p, d) /\ WriteDone(p)
    /\ acked' = Put(acked, p, d)
    /\ UNCHANGED <<stream, victim>>

(* db_io_.flush() fails: nobody looks, but badbit stays set. *)
WriteFlushFails(p, d) ==
    /\ "flush" \in Faults /\ stream = "good"
    /\ PartialStore(p, d) /\ WriteDone(p)
    /\ stream' = "bad" /\ victim' = p
    /\ UNCHANGED acked

(* Mutant: the stream is cleared after the error. *)
WriteFails_Clears(p, d) ==
    /\ "write" \in Faults /\ stream = "good"
    /\ PartialStore(p, d)
    /\ victim' = p
    /\ UNCHANGED <<pages_, num_writes_, stream, acked>>

(* db_io_.write() fails: return without recording the slot. *)
WriteFails(p, d) ==
    /\ "write" \in Faults /\ stream = "good"
    /\ PartialStore(p, d)
    /\ stream' = "bad" /\ victim' = p
    /\ UNCHANGED <<pages_, num_writes_, acked>>

(* The stream went bad earlier: seekp and write do nothing. *)
WriteWhenBad(p) ==
    /\ stream = "bad"
    /\ NoStore(p)
    /\ UNCHANGED <<pages_, num_writes_, stream, acked, victim>>

(* After ShutDown seekp sets failbit only: the write is lost and counted. *)
WriteWhenClosed(p) ==
    /\ stream = "closed"
    /\ NoStore(p) /\ WriteDone(p)
    /\ UNCHANGED <<stream, acked, victim>>

WritePage(p, d) ==
    /\ num_writes_ < MaxWrites
    /\ \/ /\ Allocate(p)
          /\ \/ WriteOk(p, d)
             \/ WriteFlushFails(p, d)
             \/ WriteFails(p, d)
             \/ WriteWhenBad(p)
             \/ WriteWhenClosed(p)
          /\ UNCHANGED <<num_deletes_, out>>
       \/ ResizeFails(p)

-----------------------------------------------------------------------------
(* ReadPage *)

(* GetFileSize: st_size cast to int, kept if it fits and wrapped otherwise; *)
(* IntPages pages are 2^31 bytes.                                           *)
AsInt(n) == IF n < IntPages THEN n ELSE ((n + IntPages) % (2 * IntPages)) - IntPages

Returned(p, d) == out' = [page |-> p, data |-> d]

(* stat fails, or the size is negative as an int, or the slot lies past it: *)
(* return with the slot popped and not recorded.                            *)
ReadNoSize(p) ==
    LET size == AsInt(SizeAfterAllocate(p))
    IN  /\ "stat" \in Faults \/ size < 0 \/ SlotOf(p) > size
        /\ Returned(p, Untouched)
        /\ UNCHANGED <<pages_, stream, victim>>

ReadSized(p) ==
    LET size == AsInt(SizeAfterAllocate(p)) IN size >= 0 /\ SlotOf(p) <= size

(* A slot at the end of the file yields no bytes: the buffer is zeroed. *)
ReadOk(p) ==
    /\ ReadSized(p) /\ Record(p)
    /\ stream = "good"
    /\ Returned(p, IF SlotOf(p) < SizeAfterAllocate(p) THEN FileAfterAllocate(p)[SlotOf(p)] ELSE Zero)
    /\ UNCHANGED <<stream, victim>>

ReadFails(p) ==
    /\ "read" \in Faults /\ stream = "good"
    /\ ReadSized(p) /\ Record(p)
    /\ Returned(p, Untouched)
    /\ stream' = "bad" /\ victim' = p

ReadWhenBad(p) ==
    /\ stream = "bad"
    /\ ReadSized(p) /\ Record(p)
    /\ Returned(p, Untouched)
    /\ UNCHANGED <<stream, victim>>

(* After ShutDown gcount() is 0: clear() and a zeroed buffer. *)
ReadWhenClosed(p) ==
    /\ stream = "closed"
    /\ ReadSized(p) /\ Record(p)
    /\ Returned(p, Zero)
    /\ UNCHANGED <<stream, victim>>

ReadPage(p) ==
    \/ /\ Allocate(p) /\ NoStore(p)
       /\ \/ ReadNoSize(p)
          \/ ReadOk(p)
          \/ ReadFails(p)
          \/ ReadWhenBad(p)
          \/ ReadWhenClosed(p)
       /\ UNCHANGED <<num_writes_, num_deletes_, acked>>
    \/ ResizeFails(p)

-----------------------------------------------------------------------------
(* Mutant: pages_.erase() is forgotten. *)
DeletePage_NoErase(p) ==
    /\ Mapped(p) /\ num_deletes_ < MaxDeletes
    /\ free_slots_' = Append(free_slots_, pages_[p])
    /\ num_deletes_' = num_deletes_ + 1
    /\ acked' = Remove(acked, p)
    /\ UNCHANGED <<pages_, page_capacity_, file, file_size, stream, num_writes_, out, victim>>

DeletePage(p) ==
    /\ Mapped(p) /\ num_deletes_ < MaxDeletes
    /\ free_slots_' = Append(free_slots_, pages_[p])
    /\ pages_' = Remove(pages_, p)
    /\ num_deletes_' = num_deletes_ + 1
    /\ acked' = Remove(acked, p)
    /\ UNCHANGED <<page_capacity_, file, file_size, stream, num_writes_, out, victim>>

ShutDown ==
    /\ stream' = IF stream = "bad" THEN "bad" ELSE "closed"
    /\ UNCHANGED <<pages_, free_slots_, page_capacity_, file, file_size,
                   num_writes_, num_deletes_, out, acked, victim>>

(* A new DiskManager over the same file, after ShutDown or after a crash:   *)
(* neither pages_ nor free_slots_ is persistent, and the file is resized.   *)
Reopen ==
    /\ pages_' = EmptyMap /\ free_slots_' = <<>>
    /\ page_capacity_' = InitCapacity
    /\ file_size' = InitCapacity + 1
    /\ file' = FileResize(file, InitCapacity + 1)
    /\ stream' = "good"
    /\ num_writes_' = 0 /\ num_deletes_' = 0
    /\ acked' = EmptyMap /\ victim' = None
    /\ UNCHANGED out

Next ==
    \/ \E p \in PageIds, d \in Values : WritePage(p, d)
    \/ \E p \in PageIds : ReadPage(p)
    \/ \E p \in PageIds : DeletePage(p)
    \/ ShutDown
    \/ Reopen

Spec == Init /\ [][Next]_vars

-----------------------------------------------------------------------------
(* TypeOK: the slots, the capacity and the file have their types; the file  *)
(* has a defined page at every position below its size.                     *)
TypeOK ==
    /\ DOMAIN pages_ \in SUBSET PageIds /\ pages_ \in [DOMAIN pages_ -> Nat]
    /\ free_slots_ \in Seq(Nat)
    /\ page_capacity_ \in Nat \ {0}
    /\ file_size \in Nat \ {0} /\ file \in [0..(file_size - 1) -> Data]
    /\ stream \in {"good", "bad", "closed"}
    /\ num_writes_ \in Nat /\ num_deletes_ \in Nat
    /\ out \in [page : PageIds \cup {None}, data : Data \cup {Untouched}]
    /\ DOMAIN acked \in SUBSET PageIds /\ acked \in [DOMAIN acked -> Values]
    /\ victim \in PageIds \cup {None}

FreeSlots == {free_slots_[i] : i \in 1..Len(free_slots_)}
UsedSlots == {pages_[p] : p \in DOMAIN pages_}

(* No two pages share a slot. *)
PagesDistinct == \A p, q \in DOMAIN pages_ : pages_[p] = pages_[q] => p = q

(* No slot is on the free stack twice. *)
FreeDistinct == \A i, j \in 1..Len(free_slots_) : free_slots_[i] = free_slots_[j] => i = j

(* The slots handed out so far are exactly the first ones of the file, each *)
(* owned by one page or free, so that pages_.size() is the first unused one *)
(* whenever free_slots_ is empty: AllocatePage relies on it.                *)
SlotsCover ==
    /\ UsedSlots \cap FreeSlots = {}
    /\ UsedSlots \cup FreeSlots = 0..(PageCount + Len(free_slots_) - 1)
    /\ PageCount + Len(free_slots_) <= page_capacity_

(* Slots never start past the end of the file, except one at its very end   *)
(* after a failed resize, so ReadPage does not lose a slot it has popped;   *)
(* and resize_file in AllocatePage only ever extends the file.              *)
SlotsInFile == PageCount + Len(free_slots_) <= file_size + 1
FileBound == file_size <= page_capacity_ + 1
CapacityBound ==
    page_capacity_ <= InitCapacity \/ page_capacity_ <= 2 * Cardinality(PageIds)
VictimBad == (stream = "bad") = (victim # None)

(* SlotOwnership: as long as the stream is usable, every slot of the file   *)
(* handed out by AllocatePage belongs to one page or is free, once.         *)
SlotOwnership == stream = "good" => PagesDistinct /\ FreeDistinct /\ SlotsCover

(* AckedIntact: the contents WritePage stored for a page are at the page's  *)
(* slot until the page is overwritten or deleted, whatever other pages are  *)
(* written, read, deleted or reallocated meanwhile; an I/O error costs at   *)
(* most the page whose I/O failed.                                          *)
AckedIntact ==
    \A p \in DOMAIN acked \ {victim} :
        Mapped(p) /\ pages_[p] < file_size /\ file[pages_[p]] = acked[p]

(* stat never fails and the file never reaches 2 GiB: what SlotOwnership    *)
(* rests on besides the code.                                               *)
FileSizeFits ==
    /\ "stat" \notin Faults
    /\ InitCapacity + 1 < IntPages
    /\ 2 * Cardinality(PageIds) + 1 < IntPages

(* The inductive invariant behind SlotOwnership and AckedIntact. *)
OwnershipInv ==
    /\ TypeOK
    /\ SlotOwnership
    /\ AckedIntact
    /\ stream = "good" => SlotsInFile
    /\ FileBound /\ CapacityBound /\ VictimBad

(* ReadYourWrites: ReadPage of a page that WritePage stored fills the       *)
(* caller's buffer with what was stored.                                    *)
ReadYourWrites ==
    [][\A p \in DOMAIN acked :
          (ReadPage(p) /\ stream = "good" /\ stream' = "good") => out'.data = acked[p]]_vars

(* The store of pages this implements as long as stat works and the file    *)
(* size fits an int: a page holds what its slot holds.                      *)
Held(p) == IF pages_[p] < file_size THEN file[pages_[p]] ELSE Zero

PageStore == INSTANCE PageStore WITH
    store <- [p \in DOMAIN pages_ |-> Held(p)], status <- stream

ImplementsPageStore == PageStore!Spec
=============================================================================
