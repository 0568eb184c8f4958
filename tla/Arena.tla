------------------------------- MODULE Arena --------------------------------
(***************************************************************************)
(* The arena allocator (Allocator/Arena.h): one buffer, a next pointer     *)
(* that is bumped by every allocation, and deallocation that does nothing, *)
(* because the containers that share an arena are destroyed one by one.    *)
(***************************************************************************)
EXTENDS Integers, Sequences

CONSTANTS
    N,           \* bytes in the buffer
    Base,        \* address of the buffer, aligned for every scalar type
    Word,        \* number of size_t values
    Sizes,       \* sizes and alignments of the element types in use:
    Alignments,  \*   records [size, align] are drawn from the two
    MaxCount,    \* bound on the elements asked for at once
    MaxBlocks    \* bound on the allocations

ASSUME ArenaAssumption ==
    /\ N \in Nat /\ Base \in Nat /\ Base % 16 = 0 /\ Word \in Nat \ {0}
    /\ Sizes \subseteq Nat \ {0} /\ Alignments \subseteq {1, 2, 4, 8, 16}
    /\ MaxCount \in Nat /\ MaxBlocks \in Nat
    /\ \A s \in Sizes : MaxCount * s + 16 < Word   \* a container asks for at most max_size()

VARIABLES
    next,        \* address of the first unused byte
    given        \* history: the blocks handed out, in order

ArenaVars == <<next, given>>

ArenaInit == next = Base /\ given = <<>>

Used == next - Base

align_up(p, alignment) ==
    IF p % alignment = 0 THEN p ELSE p + alignment - (p % alignment)

(* Arena::allocate; throws when the buffer has not enough bytes left. *)
allocate(n, alignment) ==
    \E padding \in {align_up(next, alignment) - next} :
        /\ N - Used >= (n + padding) % Word
        /\ next' = next + ((n + padding) % Word)
        /\ given' = Append(given, [p |-> next + padding, n |-> n, align |-> alignment,
                                   live |-> TRUE])

(* CustomAllocator::allocate *)
AllocateFor(count, size, alignment) ==
    Len(given) < MaxBlocks /\ allocate((count * size) % Word, alignment)

(* Mutant: deallocate() resets the next pointer, the line left commented out. *)
deallocate_Resets(i) ==
    /\ given[i].live
    /\ given' = [given EXCEPT ![i].live = FALSE]
    /\ next' = Base

(* CustomAllocator::deallocate by the owner of block i *)
deallocate(i) ==
    /\ given[i].live
    /\ given' = [given EXCEPT ![i].live = FALSE]
    /\ UNCHANGED next

ArenaNext ==
    \/ \E count \in 0..MaxCount, size \in Sizes, alignment \in Alignments :
         AllocateFor(count, size, alignment)
    \/ \E i \in DOMAIN given : deallocate(i)

ArenaSpec == ArenaInit /\ [][ArenaNext]_ArenaVars

-----------------------------------------------------------------------------
(* BlocksApart: every block in use lies in the buffer, starts at a multiple  *)
(* of its alignment, and shares no byte with another block in use, whichever *)
(* blocks were given back in between.                                        *)
BlocksApart ==
    \A i \in DOMAIN given : given[i].live =>
        /\ Base <= given[i].p /\ given[i].p + given[i].n <= Base + N
        /\ given[i].p % given[i].align = 0
        /\ \A j \in DOMAIN given : j < i /\ given[j].live =>
             given[j].p + given[j].n <= given[i].p \/ given[i].p + given[i].n <= given[j].p
=============================================================================
