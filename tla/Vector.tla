------------------------------- MODULE Vector -------------------------------
(***************************************************************************)
(* The Vector container on its allocator (Containers/vector/Vector.h,      *)
(* Allocator/Allocator.h), with an element type that is copied bytewise.   *)
(*                                                                         *)
(* heap is the raw storage: what each block holds, <<>> for a block that   *)
(* is not allocated.  A request may throw bad_alloc.  Copy assignment has  *)
(* given up its old block by then, so the vector is left with a dangling   *)
(* pointer: it is broken, and the program may not touch it again, not even *)
(* to destroy it.  The argument of push_back is not an element of the      *)
(* vector itself.                                                          *)
(***************************************************************************)
EXTENDS Naturals, Sequences

CONSTANTS
    Vectors,     \* variables of the program
    Values,
    Default,     \* the value T{}
    Blocks,      \* number of blocks the heap can hold, numbered from 1
    MaxLength    \* bound on the elements and the capacity asked for

ASSUME VectorAssumption == Blocks \in Nat /\ MaxLength \in Nat /\ Default \in Values

nullptr == 0
Raw == "raw"

VARIABLES
    heap,
    vec,         \* per variable [elem, sz, cap], NoObject outside its lifetime
    list,        \* history: the elements the program put in
    broken       \* variables whose copy assignment threw

vectorVars == <<heap, vec, list, broken>>

NoObject == [elem |-> nullptr, sz |-> 0, cap |-> 0, alive |-> FALSE]
Object(elem, sz, cap) == [elem |-> elem, sz |-> sz, cap |-> cap, alive |-> TRUE]

VectorInit ==
    /\ heap = [b \in 1..Blocks |-> <<>>]
    /\ vec = [v \in Vectors |-> NoObject]
    /\ list = [v \in Vectors |-> <<>>]
    /\ broken = {}

Usable(v) == vec[v].alive /\ v \notin broken
Unborn(v) == ~vec[v].alive

\* the results of allocate(n) on heap h; the empty set when it throws
Allocate(h, n) ==
    IF n = 0 THEN {nullptr}
    ELSE LET free == {b \in 1..Blocks : h[b] = <<>>}
         IN {b \in free : \A c \in free : b <= c}

\* the destructors of the elements, and deallocate unless elem is null
Release(h, o) == IF o.elem = nullptr THEN h ELSE [h EXCEPT ![o.elem] = <<>>]

\* construct: xs at the front of the n cells of block p
Construct(h, p, xs, n) ==
    IF p = nullptr THEN h
    ELSE [h EXCEPT ![p] = [i \in 1..n |-> IF i <= Len(xs) THEN xs[i] ELSE Raw]]

ElementsOf(o) == IF o.elem = nullptr THEN <<>> ELSE SubSeq(heap[o.elem], 1, o.sz)

(* Vector(), Vector(int) and Vector(initializer_list): the elements xs. *)
Make(v, xs) ==
    /\ Unborn(v)
    /\ \E p \in Allocate(heap, Len(xs)) :
         /\ heap' = Construct(heap, p, xs, Len(xs))
         /\ vec' = [vec EXCEPT ![v] = Object(p, Len(xs), Len(xs))]
    /\ list' = [list EXCEPT ![v] = xs]
    /\ UNCHANGED broken

NewDefault(v) == Make(v, <<>>)
NewSized(v, n) == Make(v, [i \in 1..n |-> Default])
NewListed(v, xs) == Make(v, xs)
NewCopy(v, w) == Usable(w) /\ Make(v, ElementsOf(vec[w]))

Destroy(v) ==
    /\ Usable(v)
    /\ heap' = Release(heap, vec[v])
    /\ vec' = [vec EXCEPT ![v] = NoObject]
    /\ list' = [list EXCEPT ![v] = <<>>]
    /\ UNCHANGED broken

(* operator=(const Vector &); nothing happens when v is w. *)
AssignCopy(v, w) ==
    /\ Usable(v) /\ Usable(w) /\ v # w
    /\ \E h \in {Release(heap, vec[v])} :
         \/ \E p \in Allocate(h, vec[w].cap) :
              /\ heap' = Construct(h, p, ElementsOf(vec[w]), vec[w].cap)
              /\ vec' = [vec EXCEPT ![v] = Object(p, vec[w].sz, vec[w].cap)]
              /\ list' = [list EXCEPT ![v] = list[w]]
              /\ UNCHANGED broken
         \/ /\ vec[w].cap > 0                       \* bad_alloc
            /\ heap' = h
            /\ vec' = [vec EXCEPT ![v].sz = vec[w].sz, ![v].cap = vec[w].cap]
            /\ broken' = broken \cup {v}
            /\ UNCHANGED list

(* Mutant: the moved-from vector keeps its pointer. *)
TakeOver_KeepsPointer(v, w, h) ==
    /\ heap' = h
    /\ vec' = [vec EXCEPT ![v] = vec[w], ![w].sz = 0, ![w].cap = 0]
    /\ list' = [list EXCEPT ![v] = list[w], ![w] = <<>>]
    /\ UNCHANGED broken

\* v takes over the block of w, which is left empty; h is the heap by then
TakeOver(v, w, h) ==
    /\ heap' = h
    /\ vec' = [vec EXCEPT ![v] = vec[w], ![w] = Object(nullptr, 0, 0)]
    /\ list' = [list EXCEPT ![v] = list[w], ![w] = <<>>]
    /\ UNCHANGED broken

NewMoved(v, w) == Unborn(v) /\ Usable(w) /\ TakeOver(v, w, heap)
AssignMoved(v, w) == Usable(v) /\ Usable(w) /\ v # w /\ TakeOver(v, w, Release(heap, vec[v]))

\* the states of the heap and the object after reserve(n) on o; none when it throws
Reserved(o, n) ==
    IF n <= o.cap THEN {[h |-> heap, o |-> o]}
    ELSE {[h |-> Release(Construct(heap, p, ElementsOf(o), n), o), o |-> Object(p, o.sz, n)] :
          p \in Allocate(heap, n)}

reserve(v, n) ==
    /\ Usable(v)
    /\ \E r \in Reserved(vec[v], n) : heap' = r.h /\ vec' = [vec EXCEPT ![v] = r.o]
    /\ UNCHANGED <<list, broken>>

push_back(v, x) ==
    /\ Usable(v) /\ vec[v].sz < MaxLength
    /\ \E r \in Reserved(vec[v], IF vec[v].sz < vec[v].cap THEN 0
                                 ELSE IF vec[v].cap = 0 THEN 1 ELSE 2 * vec[v].cap) :
         /\ heap' = [r.h EXCEPT ![r.o.elem][r.o.sz + 1] = x]
         /\ vec' = [vec EXCEPT ![v] = [r.o EXCEPT !.sz = @ + 1]]
    /\ list' = [list EXCEPT ![v] = Append(@, x)]
    /\ UNCHANGED broken

VectorNext ==
    \/ \E v \in Vectors :
         \/ NewDefault(v) \/ Destroy(v)
         \/ \E n \in 1..MaxLength : NewSized(v, n) \/ reserve(v, n)
         \/ \E x, y \in Values : NewListed(v, <<x, y>>)
         \/ \E x \in Values : push_back(v, x)
    \/ \E v, w \in Vectors : NewCopy(v, w) \/ AssignCopy(v, w) \/ NewMoved(v, w) \/ AssignMoved(v, w)

VectorSpec == VectorInit /\ [][VectorNext]_vectorVars

-----------------------------------------------------------------------------
(* VectorsOwnTheirElements: a vector holds exactly the elements put into it, *)
(* in a block of its capacity that no other vector points to, and every      *)
(* allocated block belongs to a vector: no double free and no leak, also     *)
(* when requests for memory fail.                                            *)
VectorsOwnTheirElements ==
    /\ \A v \in Vectors : Usable(v) =>
         /\ ElementsOf(vec[v]) = list[v] /\ vec[v].sz <= vec[v].cap
         /\ vec[v].elem # nullptr =>
              /\ Len(heap[vec[v].elem]) = vec[v].cap
              /\ \A w \in Vectors \ {v} : Usable(w) => vec[w].elem # vec[v].elem
    /\ \A b \in 1..Blocks : heap[b] # <<>> => \E v \in Vectors : Usable(v) /\ vec[v].elem = b
=============================================================================
