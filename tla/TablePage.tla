----------------------------- MODULE TablePage -----------------------------
(***************************************************************************)
(* The slotted page of a table heap (storage/page/table_page.cpp).  The    *)
(* slot array tuple_info_ grows up from the header, tuple data grows down  *)
(* from the end of the page; slots are numbered from 0, here entries of a  *)
(* sequence.  GetNextTupleOffset computes in size_t and returns uint16_t.  *)
(* A call that throws or returns nullopt leaves the page as it is.  Of the *)
(* page's bytes the model keeps who wrote each: the contents of a tuple,   *)
(* or an entry of the slot array.                                          *)
(***************************************************************************)
EXTENDS Integers, Sequences, FiniteSets

CONSTANTS
    PageSize,       \* BUSTUB_PAGE_SIZE
    HeaderSize,     \* TABLE_PAGE_HEADER_SIZE
    InfoSize,       \* TUPLE_INFO_SIZE
    U16,            \* 2^16: tuple_info_ keeps offsets and sizes in uint16_t
    SizeT,          \* 2^64
    Lengths,        \* lengths of the tuples callers insert
    Contents,       \* contents of tuples
    MaxTuples       \* bound on num_tuples_

ASSUME LayoutAssumption ==
    /\ PageSize \in Nat /\ HeaderSize \in Nat /\ InfoSize \in Nat /\ MaxTuples \in Nat
    /\ HeaderSize + InfoSize <= PageSize
    /\ U16 \in Nat /\ SizeT \in Nat /\ PageSize < U16 /\ U16 < SizeT
    /\ Lengths \subseteq 1..(U16 - 1)

ASSUME ContentsAssumption == "slot entry" \notin Contents /\ "free" \notin Contents

VARIABLES
    tuple_info_,            \* sequence of [offset, size, is_deleted]
    num_deleted_tuples_,
    page_start_,            \* byte of the page -> what was last written there
    stored                  \* history: slot -> contents last stored there

vars == <<tuple_info_, num_deleted_tuples_, page_start_, stored>>

Bytes == 0..(PageSize - 1)

num_tuples_ == Len(tuple_info_)

Init ==
    /\ tuple_info_ = <<>> /\ num_deleted_tuples_ = 0
    /\ page_start_ = [b \in Bytes |-> "free"] /\ stored = <<>>

(* unsigned arithmetic modulo m: exact when it fits *)
Wrap(n, m) == IF n \in 0..(m - 1) THEN n ELSE n % m

(* Mutant: room is left for the existing slots only, not for the new one. *)
OffsetSize_OldSlots == HeaderSize + InfoSize * num_tuples_

OffsetSize == HeaderSize + InfoSize * (num_tuples_ + 1)

SlotEndOffset == IF num_tuples_ > 0 THEN tuple_info_[num_tuples_].offset ELSE PageSize

(* slot_end_offset - tuple.GetLength(), as a size_t *)
TupleOffset(len) == Wrap(SlotEndOffset - len, SizeT)

GetNextTupleOffset(len) ==
    IF TupleOffset(len) < OffsetSize THEN [fits |-> FALSE, offset |-> 0]
    ELSE [fits |-> TRUE, offset |-> Wrap(TupleOffset(len), U16)]

(* memcpy of len bytes to first; bytes past the end are not this page's *)
Written(first, len, what, bytes) ==
    [b \in Bytes |-> IF first <= b /\ b < first + len THEN what ELSE bytes[b]]

(* the assignment of tuple_info_[slot], slots counted from 1 *)
EntryWritten(slot) == Written(HeaderSize + InfoSize * (slot - 1), InfoSize, "slot entry", page_start_)

InsertTuple(len, contents, deleted) ==
    /\ num_tuples_ < MaxTuples
    /\ GetNextTupleOffset(len).fits
    /\ tuple_info_' = Append(tuple_info_, [offset |-> GetNextTupleOffset(len).offset,
                                           size |-> len, is_deleted |-> deleted])
    /\ page_start_' = Written(GetNextTupleOffset(len).offset, len, contents, EntryWritten(num_tuples_ + 1))
    /\ stored' = Append(stored, contents)
    /\ UNCHANGED num_deleted_tuples_

CountDeleted(slot, deleted) ==
    num_deleted_tuples_' =
        IF ~tuple_info_[slot].is_deleted /\ deleted THEN Wrap(num_deleted_tuples_ + 1, U16)
        ELSE num_deleted_tuples_

UpdateTupleMeta(slot, deleted) ==
    /\ slot \in 1..num_tuples_
    /\ CountDeleted(slot, deleted)
    /\ tuple_info_' = [tuple_info_ EXCEPT ![slot].is_deleted = deleted]
    /\ page_start_' = EntryWritten(slot)
    /\ UNCHANGED stored

(* Mutant: the size check of UpdateTupleInPlaceUnsafe is forgotten. *)
UpdateTupleInPlaceUnsafe_AnySize(slot, len, contents, deleted) ==
    /\ slot \in 1..num_tuples_
    /\ CountDeleted(slot, deleted)
    /\ tuple_info_' = [tuple_info_ EXCEPT ![slot].is_deleted = deleted]
    /\ page_start_' = Written(tuple_info_[slot].offset, len, contents, EntryWritten(slot))
    /\ stored' = [stored EXCEPT ![slot] = contents]

UpdateTupleInPlaceUnsafe(slot, len, contents, deleted) ==
    /\ slot \in 1..num_tuples_
    /\ tuple_info_[slot].size = len
    /\ CountDeleted(slot, deleted)
    /\ tuple_info_' = [tuple_info_ EXCEPT ![slot].is_deleted = deleted]
    /\ page_start_' = Written(tuple_info_[slot].offset, len, contents, EntryWritten(slot))
    /\ stored' = [stored EXCEPT ![slot] = contents]

(* what GetTuple copies out of the page *)
GetTuple(slot) ==
    [b \in 0..(tuple_info_[slot].size - 1) |-> page_start_[tuple_info_[slot].offset + b]]

Next ==
    \/ \E len \in Lengths, contents \in Contents, deleted \in BOOLEAN : InsertTuple(len, contents, deleted)
    \/ \E slot \in 1..MaxTuples, deleted \in BOOLEAN : UpdateTupleMeta(slot, deleted)
    \/ \E slot \in 1..MaxTuples, len \in Lengths, contents \in Contents, deleted \in BOOLEAN :
          UpdateTupleInPlaceUnsafe(slot, len, contents, deleted)

Spec == Init /\ [][Next]_vars

-----------------------------------------------------------------------------
(* TypeOK: offsets, sizes and the deleted counter fit their uint16_t fields. *)
TypeOK ==
    /\ tuple_info_ \in Seq([offset : 0..(U16 - 1), size : 1..(U16 - 1), is_deleted : BOOLEAN])
    /\ num_deleted_tuples_ \in 0..(U16 - 1)
    /\ page_start_ \in [Bytes -> Contents \cup {"slot entry", "free"}]
    /\ stored \in Seq(Contents) /\ Len(stored) = num_tuples_

SlotArrayEnd == HeaderSize + InfoSize * num_tuples_

(* TuplesInPage: "return nullopt if this tuple cannot fit in this page"     *)
(* (GetNextTupleOffset): the data of every tuple lies inside the page,      *)
(* above the slot array, and no two tuples overlap, whatever is inserted    *)
(* and updated in place.                                                    *)
TuplesInPage ==
    \A i \in 1..num_tuples_ :
        /\ SlotArrayEnd <= tuple_info_[i].offset
        /\ tuple_info_[i].offset + tuple_info_[i].size <= PageSize
        /\ \A j \in 1..(i - 1) : tuple_info_[i].offset + tuple_info_[i].size <= tuple_info_[j].offset

(* TuplesReadBack: GetTuple of a slot returns, byte for byte, what         *)
(* InsertTuple or UpdateTupleInPlaceUnsafe last stored there, and no memcpy *)
(* runs into the slot array, however inserts and updates of other slots     *)
(* come in between: the size kept in the slot is all that stops an update   *)
(* in place from running into the tuple above.                              *)
TuplesReadBack ==
    /\ \A i \in 1..num_tuples_ : GetTuple(i) = [b \in 0..(tuple_info_[i].size - 1) |-> stored[i]]
    /\ \A b \in HeaderSize..(SlotArrayEnd - 1) : page_start_[b] = "slot entry"

(* Lengths for which GetNextTupleOffset cannot underflow: no tuple is       *)
(* longer than a header and one slot entry.                                 *)
SmallTuples == \A len \in Lengths : len <= HeaderSize + InfoSize
=============================================================================
