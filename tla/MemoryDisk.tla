----------------------------- MODULE MemoryDisk -----------------------------
(***************************************************************************)
(* DiskManagerUnlimitedMemory (storage/disk/disk_manager_memory.cpp): the  *)
(* pages in memory, used by several threads.  An access takes mutex_ to    *)
(* find the page, growing data_ if it must, takes the page's own lock      *)
(* before it gives mutex_ up, and copies.  The copy is not atomic: it is   *)
(* done here in two halves.  num_writes_ is counted under the page's lock  *)
(* only.  PostProcessLatency records the access in a ring, as it does when *)
(* the latency simulator is enabled.                                       *)
(***************************************************************************)
EXTENDS Integers, Sequences, FiniteSets

CONSTANTS
    Callers,        \* the threads
    Contents,       \* page contents written
    MaxPage,        \* bound on page ids: 0..MaxPage
    Capacity,       \* page_capacity_: the constructor makes pages 0..Capacity
    RingSize,       \* recent_access_.size()
    MaxAccesses     \* bound on the calls of WritePage and ReadPage

NoCaller == "no caller"
ZeroPage == "zero"
DiskPages == 0..MaxPage
Halves == 1..2
Whole(v) == [h \in Halves |-> v]
NullPage == Whole("nullptr")

ASSUME MemoryAssumption ==
    /\ MaxPage \in Nat /\ Capacity \in Nat /\ RingSize \in Nat \ {0} /\ MaxAccesses \in Nat
    /\ NoCaller \notin Callers /\ "nullptr" \notin Contents

VARIABLES
    data_,          \* sequence: page content, or nullptr
    mutex_, page_w, page_r, \* mutex_; page -> its shared_mutex: writer, readers
    thread_id_,
    num_writes_,
    recent_access_, access_ptr_,
    phase, kind, page, value,
    half,           \* next half to be copied
    buffer,         \* the caller's buffer
    count_reg,      \* num_writes_ as += 1 has read it
    stored,         \* history: page -> last content wholly written
    accessed        \* history: pages in the order PostProcessLatency saw them

locks == <<mutex_, page_w, page_r>>
ring == <<recent_access_, access_ptr_, accessed>>
access == <<kind, page, value>>
memoryVars ==
    <<data_, locks, thread_id_, num_writes_, ring, phase, access, half, buffer, count_reg, stored>>

MemoryInit ==
    /\ data_ = [i \in 1..(Capacity + 1) |-> Whole(ZeroPage)]
    /\ mutex_ = NoCaller
    /\ page_w = [p \in DiskPages |-> NoCaller] /\ page_r = [p \in DiskPages |-> {}]
    /\ thread_id_ = NoCaller /\ num_writes_ = 0
    /\ recent_access_ = [i \in 0..(RingSize - 1) |-> -1] /\ access_ptr_ = 0
    /\ phase = [t \in Callers |-> "idle"]
    /\ kind = [t \in Callers |-> "read"] /\ page = [t \in Callers |-> 0]
    /\ value = [t \in Callers |-> ZeroPage] /\ half = [t \in Callers |-> 1]
    /\ buffer = [t \in Callers |-> Whole(ZeroPage)] /\ count_reg = [t \in Callers |-> 0]
    /\ stored = [p \in DiskPages |-> ZeroPage] /\ accessed = <<>>

Enter(t, label) == phase' = [phase EXCEPT ![t] = label]
Busy == Cardinality({t \in Callers : phase[t] # "idle"})

(* WritePage or ReadPage is called; ProcessLatency only sleeps. *)
Access(t, k, p, v) ==
    /\ phase[t] = "idle" /\ Len(accessed) + Busy < MaxAccesses
    /\ Enter(t, "mutex") /\ kind' = [kind EXCEPT ![t] = k]
    /\ page' = [page EXCEPT ![t] = p] /\ value' = [value EXCEPT ![t] = v]
    /\ UNCHANGED <<data_, locks, thread_id_, num_writes_, ring, half, buffer, count_reg, stored>>

(* data_.resize *)
Resized(d, n) == [i \in 1..n |-> IF i <= Len(d) THEN d[i] ELSE NullPage]

Grown(p) == IF p >= Len(data_) THEN Resized(data_, p + 1) ELSE data_

FindPage(t) ==
    /\ phase[t] = "mutex" /\ mutex_ = NoCaller /\ mutex_' = t
    /\ thread_id_' = IF thread_id_ = NoCaller THEN t ELSE thread_id_
    /\ data_' = [Grown(page[t]) EXCEPT ![page[t] + 1] = IF @ = NullPage THEN Whole(ZeroPage) ELSE @]
    /\ Enter(t, "page")
    /\ UNCHANGED <<page_w, page_r, num_writes_, ring, access, half, buffer, count_reg, stored>>

(* Mutant: readers take no page lock. *)
MayRead_Unlocked(p) == TRUE

MayRead(p) == page_w[p] = NoCaller

(* The page's lock, exclusive or shared; then mutex_ is released. *)
LockPage(t) ==
    /\ phase[t] = "page" /\ mutex_' = NoCaller
    /\ \/ /\ kind[t] = "write" /\ page_w[page[t]] = NoCaller /\ page_r[page[t]] = {}
          /\ page_w' = [page_w EXCEPT ![page[t]] = t] /\ UNCHANGED page_r
       \/ /\ kind[t] = "read" /\ MayRead(page[t])
          /\ page_r' = [page_r EXCEPT ![page[t]] = @ \cup {t}] /\ UNCHANGED page_w
    /\ Enter(t, "copy")
    /\ UNCHANGED <<data_, thread_id_, num_writes_, ring, access, half, buffer, count_reg, stored>>

(* memcpy, half a page. *)
CopyIn(t) ==
    /\ kind[t] = "write" /\ data_' = [data_ EXCEPT ![page[t] + 1][half[t]] = value[t]]
    /\ stored' = IF half[t] = 2 THEN [stored EXCEPT ![page[t]] = value[t]] ELSE stored
    /\ UNCHANGED buffer

CopyOut(t) ==
    /\ kind[t] = "read" /\ buffer' = [buffer EXCEPT ![t][half[t]] = data_[page[t] + 1][half[t]]]
    /\ UNCHANGED <<data_, stored>>

Copy(t) ==
    /\ phase[t] = "copy" /\ (CopyIn(t) \/ CopyOut(t))
    /\ IF half[t] = 1 THEN half' = [half EXCEPT ![t] = 2] /\ UNCHANGED phase
       ELSE half' = [half EXCEPT ![t] = 1] /\ Enter(t, IF kind[t] = "write" THEN "load" ELSE "post")
    /\ UNCHANGED <<locks, thread_id_, num_writes_, ring, access, count_reg>>

(* num_writes_ += 1 without a lock that all writers share. *)
CountLoad(t) ==
    /\ phase[t] = "load" /\ count_reg' = [count_reg EXCEPT ![t] = num_writes_] /\ Enter(t, "store")
    /\ UNCHANGED <<data_, locks, thread_id_, num_writes_, ring, access, half, buffer, stored>>

CountStore(t) ==
    /\ phase[t] = "store" /\ num_writes_' = count_reg[t] + 1
    /\ count_reg' = [count_reg EXCEPT ![t] = 0] /\ Enter(t, "post")
    /\ UNCHANGED <<data_, locks, thread_id_, ring, access, half, buffer, stored>>

NextPtr(i) == (i + 1) % RingSize

(* PostProcessLatency under its own mutex; the page lock goes at return. *)
PostProcessLatency(t) ==
    /\ phase[t] = "post"
    /\ recent_access_' = [recent_access_ EXCEPT ![access_ptr_] = page[t]]
    /\ access_ptr_' = NextPtr(access_ptr_)
    /\ accessed' = Append(accessed, page[t])
    /\ page_w' = [page_w EXCEPT ![page[t]] = IF @ = t THEN NoCaller ELSE @]
    /\ page_r' = [page_r EXCEPT ![page[t]] = @ \ {t}]
    /\ Enter(t, "idle") /\ kind' = [kind EXCEPT ![t] = "read"]
    /\ page' = [page EXCEPT ![t] = 0] /\ value' = [value EXCEPT ![t] = ZeroPage]
    /\ buffer' = [buffer EXCEPT ![t] = Whole(ZeroPage)]
    /\ UNCHANGED <<data_, mutex_, thread_id_, num_writes_, half, count_reg, stored>>

GetLastReadThreadAndClear ==
    /\ mutex_ = NoCaller /\ thread_id_' = NoCaller
    /\ UNCHANGED <<data_, locks, num_writes_, ring, phase, access, half, buffer, count_reg, stored>>

MemoryNext ==
    \/ \E t \in Callers, p \in DiskPages : Access(t, "read", p, ZeroPage)
    \/ \E t \in Callers, p \in DiskPages, v \in Contents : Access(t, "write", p, v)
    \/ \E t \in Callers : FindPage(t) \/ LockPage(t) \/ Copy(t) \/ CountLoad(t) \/ CountStore(t)
    \/ \E t \in Callers : PostProcessLatency(t)
    \/ GetLastReadThreadAndClear

MemorySpec == MemoryInit /\ [][MemoryNext]_memoryVars

-----------------------------------------------------------------------------
(* TypeOK: every variable has its type, data_ reaches up to every page that *)
(* is being copied, and the ring position is in the ring.                   *)
MemoryTypeOK ==
    /\ data_ \in Seq([Halves -> Contents \cup {ZeroPage}] \cup {NullPage})
    /\ mutex_ \in Callers \cup {NoCaller} /\ thread_id_ \in Callers \cup {NoCaller}
    /\ page_w \in [DiskPages -> Callers \cup {NoCaller}] /\ page_r \in [DiskPages -> SUBSET Callers]
    /\ num_writes_ \in 0..MaxAccesses /\ access_ptr_ \in 0..(RingSize - 1)
    /\ \A t \in Callers : phase[t] \in {"page", "copy"} =>
          page[t] < Len(data_) /\ data_[page[t] + 1] # NullPage

(* ReadsLastWrite: ReadPage gives the content that the last finished        *)
(* WritePage of that page copied in, whole, though accesses of all threads  *)
(* overlap and other accesses make data_ grow meanwhile.                    *)
ReadsLastWrite ==
    \A t \in Callers : phase[t] = "post" /\ kind[t] = "read" => buffer[t] = Whole(stored[page[t]])

(* RingIsRecent: recent_access_ holds the pages of the last accesses, one   *)
(* entry for each, -1 where there were none yet.                            *)
RingIsRecent ==
    \A back \in 1..RingSize :
        recent_access_[(access_ptr_ - back) % RingSize] =
            IF back <= Len(accessed) THEN accessed[Len(accessed) + 1 - back] ELSE -1

(* MemoryReadsBack: in DiskManagerUnlimitedMemory a read that overlaps no    *)
(* write returns the last page written, and recent_access_ names the last    *)
(* accesses.                                                                 *)
MemoryReadsBack == ReadsLastWrite /\ RingIsRecent
=============================================================================
