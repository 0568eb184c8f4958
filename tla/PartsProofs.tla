---------------------------- MODULE PartsProofs ----------------------------
(***************************************************************************)
(* Proofs about three parts that share no state with the others: Vector,   *)
(* MemoryDisk and Channel, for any constants their modules allow.          *)
(***************************************************************************)
EXTENDS Channel, MemoryDisk, Vector, TLAPS

(* Leaves go to the SMT solver unless they name another prover. *)
USE SMTT(30)

-----------------------------------------------------------------------------
(***************************************************************************)
(* Vectors on their allocator, for any number of vectors and blocks and    *)
(* any lengths.  An operation releases a block, fills a free one, hands    *)
(* one over or writes one element; each of these keeps every block owned   *)
(* by one of the vectors that may be used.                                 *)
(***************************************************************************)

Objects == [elem : 0..Blocks, sz : Nat, cap : Nat, alive : BOOLEAN]
Storage == Seq(Values \cup {Raw})

(* object o holds the elements xs, in a block of heap h of its capacity *)
Holds(h, o, xs) ==
    /\ o.elem = 0 <=> o.cap = 0
    /\ o.sz <= o.cap /\ Len(xs) = o.sz
    /\ o.elem # 0 => Len(h[o.elem]) = o.cap /\ \A i \in 1..o.sz : h[o.elem][i] = xs[i]

(* the objects of the variables in U hold their lists in blocks of their own *)
(* and there are no other blocks                                             *)
Owned(h, o, l, U) ==
    /\ h \in [1..Blocks -> Storage] /\ o \in [Vectors -> Objects] /\ l \in [Vectors -> Seq(Values)]
    /\ U \subseteq Vectors
    /\ \A v \in U : Holds(h, o[v], l[v])
    /\ \A v, w \in U : v # w /\ o[v].elem # 0 => o[w].elem # o[v].elem
    /\ \A b \in 1..Blocks : h[b] # <<>> => \E v \in U : o[v].elem = b

UsableOnes == {v \in Vectors : Usable(v)}

VectorInv ==
    /\ Owned(heap, vec, list, UsableOnes)
    /\ broken \subseteq Vectors /\ \A v \in broken : vec[v].alive

(* p is where n cells may be put: a free block, or null when n is 0 *)
FreeFor(h, p, n) == IF n = 0 THEN p = 0 ELSE p \in 1..Blocks /\ h[p] = <<>>

(* Two sequences with the same elements are the same sequence. *)
LEMMA SameElements ==
  ASSUME NEW S, NEW s \in Seq(S), NEW t \in Seq(S), Len(s) = Len(t), \A i \in 1..Len(s) : s[i] = t[i]
  PROVE  s = t
  OBVIOUS

(* allocate(0) is null; otherwise the block was free. *)
LEMMA AllocateGives ==
  ASSUME NEW h, NEW n \in Nat, NEW p \in Allocate(h, n)
  PROVE  FreeFor(h, p, n)
<1> DEFINE free == {b \in 1..Blocks : h[b] = <<>>}
<1>1. CASE n = 0 BY Zenon, <1>1 DEF Allocate, FreeFor, nullptr
<1>2. CASE n # 0
  <2>1. p \in free BY Zenon, <1>2 DEF Allocate
  <2> QED BY Zenon, <1>2, <2>1 DEF FreeFor
<1> QED BY Zenon, <1>1, <1>2

(* The destructor: the block of v is free, and v no longer owns anything. *)
LEMMA Released ==
  ASSUME NEW h, NEW o, NEW l, NEW U, Owned(h, o, l, U), NEW v \in U
  PROVE  Owned(Release(h, o[v]), o, l, U \ {v})
<1> DEFINE g == Release(h, o[v])
<1>1. /\ h \in [1..Blocks -> Storage] /\ o[v] \in Objects /\ U \subseteq Vectors
      /\ o \in [Vectors -> Objects] /\ l \in [Vectors -> Seq(Values)]
  BY Zenon DEF Owned
<1>2. CASE o[v].elem = 0
  <2>1. g = h BY Zenon, <1>2 DEF Release, nullptr
  <2>2. \A b \in 1..Blocks : b # 0 BY VectorAssumption
  <2>3. \A b \in 1..Blocks : h[b] # <<>> => \E w \in U \ {v} : o[w].elem = b BY Zenon, <1>2, <2>2 DEF Owned
  <2> QED BY <2>1, <2>3 DEF Owned
<1>3. CASE o[v].elem # 0
  <2>1. o[v].elem \in 1..Blocks BY <1>1, <1>3, VectorAssumption DEF Objects
  <2>2. g = [h EXCEPT ![o[v].elem] = <<>>] /\ <<>> \in Storage BY <1>3 DEF Release, nullptr, Storage
  <2>3. /\ g \in [1..Blocks -> Storage] /\ g[o[v].elem] = <<>>
        /\ \A b \in 1..Blocks : b # o[v].elem => g[b] = h[b]
    BY Zenon, <1>1, <2>1, <2>2
  <2>4. ASSUME NEW w \in U \ {v} PROVE Holds(g, o[w], l[w])
    <3>1. Holds(h, o[w], l[w]) /\ o[w].elem # o[v].elem /\ o[w].elem \in 0..Blocks
      BY Zenon, <1>1, <1>3 DEF Owned, Objects
    <3>2. o[w].elem # 0 => o[w].elem \in 1..Blocks BY <3>1, VectorAssumption
    <3>3. o[w].elem # 0 => g[o[w].elem] = h[o[w].elem] BY Zenon, <2>3, <3>1, <3>2
    <3> QED BY Zenon, <3>1, <3>3 DEF Holds
  <2>5. \A b \in 1..Blocks : g[b] # <<>> => \E w \in U \ {v} : o[w].elem = b BY Zenon, <2>3 DEF Owned
  <2> QED BY Zenon, <1>1, <2>3, <2>4, <2>5 DEF Owned
<1> QED BY Zenon, <1>2, <1>3

(* Writing one cell of a block. *)
WithCell(q, j, x) == [q EXCEPT ![j] = x]
OneWritten(S, q, j, x, c) ==
    c \in Seq(S) /\ Len(c) = Len(q) /\ c[j] = x /\ \A i \in 1..(j - 1) : c[i] = q[i]

(* What one write to a sequence leaves. *)
LEMMA CellWritten ==
  ASSUME NEW S, NEW q \in Seq(S), NEW j \in 1..Len(q), NEW x \in S
  PROVE  OneWritten(S, q, j, x, WithCell(q, j, x))
<1> DEFINE c == [q EXCEPT ![j] = x]
<1>1. c \in Seq(S) /\ Len(c) = Len(q) OBVIOUS
<1>2. c[j] = x OBVIOUS
<1>3. \A i \in 1..(j - 1) : c[i] = q[i] OBVIOUS
<1> QED BY Zenon, <1>1, <1>2, <1>3 DEF WithCell, OneWritten

(* Objects outside U do not matter. *)
LEMMA OthersFree ==
  ASSUME NEW h, NEW o, NEW l, NEW U, Owned(h, o, l, U),
         NEW n \in [Vectors -> Objects], NEW m \in [Vectors -> Seq(Values)],
         \A v \in U : n[v] = o[v] /\ m[v] = l[v]
  PROVE  Owned(h, n, m, U)
<1>1. \A v \in U : Holds(h, n[v], m[v]) BY Zenon DEF Owned
<1>2. \A v, w \in U : v # w /\ n[v].elem # 0 => n[w].elem # n[v].elem BY DEF Owned
<1>3. ASSUME NEW b \in 1..Blocks, h[b] # <<>> PROVE \E v \in U : n[v].elem = b
  <2>1. PICK v \in U : o[v].elem = b BY Zenon, <1>3 DEF Owned
  <2> QED BY Zenon, <2>1
<1> QED BY Zenon, <1>1, <1>2, <1>3 DEF Owned

(* A constructor: v, which owns nothing, gets the elements xs in a free      *)
(* block of n cells.                                                         *)
LEMMA Given ==
  ASSUME NEW h, NEW o, NEW l, NEW U, Owned(h, o, l, U), NEW v \in Vectors \ U,
         NEW n \in Nat, NEW xs \in Seq(Values), Len(xs) <= n, NEW p, FreeFor(h, p, n)
  PROVE  Owned(Construct(h, p, xs, n), [o EXCEPT ![v] = Object(p, Len(xs), n)],
               [l EXCEPT ![v] = xs], U \cup {v})
<1> DEFINE g == Construct(h, p, xs, n)
           x == Object(p, Len(xs), n)
           oo == [o EXCEPT ![v] = x]
           ll == [l EXCEPT ![v] = xs]
           cells == [i \in 1..n |-> IF i <= Len(xs) THEN xs[i] ELSE Raw]
<1>1. /\ h \in [1..Blocks -> Storage] /\ U \subseteq Vectors
      /\ o \in [Vectors -> Objects] /\ l \in [Vectors -> Seq(Values)]
  BY Zenon DEF Owned
<1>2. Len(xs) \in Nat /\ p \in 0..Blocks /\ (p = 0 <=> n = 0) BY VectorAssumption DEF FreeFor
<1>3. /\ x.elem = p /\ x.sz = Len(xs) /\ x.cap = n /\ x \in Objects
  BY Zenon, <1>2 DEF Object, Objects
<1>4. /\ oo \in [Vectors -> Objects] /\ ll \in [Vectors -> Seq(Values)] /\ oo[v] = x /\ ll[v] = xs
      /\ \A w \in U : oo[w] = o[w] /\ ll[w] = l[w] /\ w # v
  BY Zenon, <1>1, <1>3
<1>5. CASE n = 0
  <2>1. g = h /\ p = 0 BY Zenon, <1>2, <1>5 DEF Construct, nullptr
  <2>2. Holds(h, x, xs) BY Zenon, <1>2, <1>3, <1>5, <2>1 DEF Holds
  <2>3. \A w \in U : Holds(h, oo[w], ll[w]) BY Zenon, <1>4 DEF Owned
  <2>4. \A u, w \in U \cup {v} : u # w /\ oo[u].elem # 0 => oo[w].elem # oo[u].elem
    BY <1>3, <1>4, <2>1 DEF Owned
  <2>5. \A b \in 1..Blocks : h[b] # <<>> => \E w \in U \cup {v} : oo[w].elem = b BY Zenon, <1>4 DEF Owned
  <2> QED BY <1>1, <1>4, <2>1, <2>2, <2>3, <2>4, <2>5 DEF Owned
<1>6. CASE n # 0
  <2>1. p \in 1..Blocks /\ p # 0 /\ h[p] = <<>> BY Zenon, <1>2, <1>6 DEF FreeFor
  <2>2. /\ cells \in Storage /\ Len(cells) = n
        /\ \A i \in 1..Len(xs) : cells[i] = xs[i]
    <3>1. \A i \in 1..n : (IF i <= Len(xs) THEN xs[i] ELSE Raw) \in Values \cup {Raw} BY <1>2
    <3> QED BY <1>2, <3>1 DEF Storage
  <2>3. g = [h EXCEPT ![p] = cells] BY Zenon, <2>1 DEF Construct, nullptr
  <2>4. g \in [1..Blocks -> Storage] /\ g[p] = cells /\ \A b \in 1..Blocks : b # p => g[b] = h[b]
    BY Zenon, <1>1, <2>1, <2>2, <2>3
  <2>5. ASSUME NEW w \in U PROVE Holds(g, oo[w], ll[w]) /\ oo[w].elem # p
    <3>1. Holds(h, o[w], l[w]) /\ o[w].elem \in 0..Blocks /\ o[w].cap \in Nat BY Zenon, <1>1 DEF Owned, Objects
    <3>2. o[w].elem # p
      <4>1. Len(<<>>) = 0 BY Zenon
      <4> QED BY Zenon, <2>1, <3>1, <4>1 DEF Holds
    <3>3. o[w].elem # 0 => g[o[w].elem] = h[o[w].elem] BY <2>4, <3>1, <3>2, VectorAssumption
    <3> QED BY <1>4, <3>1, <3>2, <3>3 DEF Holds
  <2>6. Holds(g, x, xs) BY Zenon, <1>2, <1>3, <2>1, <2>2, <2>4 DEF Holds
  <2>7. \A u, w \in U \cup {v} : u # w /\ oo[u].elem # 0 => oo[w].elem # oo[u].elem
    BY <1>3, <1>4, <2>5 DEF Owned
  <2>8. ASSUME NEW b \in 1..Blocks, g[b] # <<>> PROVE \E w \in U \cup {v} : oo[w].elem = b
    <3>1. CASE b = p BY Zenon, <1>3, <1>4, <3>1
    <3>2. CASE b # p
      <4>1. PICK w \in U : o[w].elem = b BY Zenon, <2>4, <2>8, <3>2 DEF Owned
      <4> QED BY Zenon, <1>4, <4>1
    <3> QED BY Zenon, <3>1, <3>2
  <2> QED BY <1>1, <1>4, <2>4, <2>5, <2>6, <2>7, <2>8 DEF Owned
<1> QED BY Zenon, <1>5, <1>6

(* A move: v, which owns nothing, takes over the block of w. *)
LEMMA TakenOver ==
  ASSUME NEW h, NEW o, NEW l, NEW U, Owned(h, o, l, U), NEW w \in U, NEW v \in Vectors \ U
  PROVE  Owned(h, [o EXCEPT ![v] = o[w], ![w] = Object(0, 0, 0)],
               [l EXCEPT ![v] = l[w], ![w] = <<>>], U \cup {v})
<1> DEFINE oo == [o EXCEPT ![v] = o[w], ![w] = Object(0, 0, 0)]
           ll == [l EXCEPT ![v] = l[w], ![w] = <<>>]
<1>1. /\ h \in [1..Blocks -> Storage] /\ U \subseteq Vectors
      /\ o \in [Vectors -> Objects] /\ l \in [Vectors -> Seq(Values)]
  BY Zenon DEF Owned
<1>2. /\ Object(0, 0, 0) \in Objects /\ Object(0, 0, 0).elem = 0
      /\ Object(0, 0, 0).cap = 0 /\ Object(0, 0, 0).sz = 0
  BY VectorAssumption DEF Object, Objects
<1>3. <<>> \in Seq(Values) /\ Len(<<>>) = 0 OBVIOUS
<1>4. /\ oo \in [Vectors -> Objects] /\ ll \in [Vectors -> Seq(Values)]
      /\ oo[v] = o[w] /\ ll[v] = l[w] /\ oo[w] = Object(0, 0, 0) /\ ll[w] = <<>> /\ v # w
      /\ \A u \in U \ {w} : oo[u] = o[u] /\ ll[u] = l[u] /\ u # v
  BY Zenon, <1>1, <1>2, <1>3
<1>5. Holds(h, oo[w], ll[w]) BY <1>2, <1>3, <1>4 DEF Holds
<1>6. \A u \in U \cup {v} : Holds(h, oo[u], ll[u]) BY Zenon, <1>4, <1>5 DEF Owned
<1>7. \A u, x \in U \cup {v} : u # x /\ oo[u].elem # 0 => oo[x].elem # oo[u].elem
  BY <1>2, <1>4 DEF Owned
<1>8. \A b \in 1..Blocks : h[b] # <<>> => \E u \in U \cup {v} : oo[u].elem = b
  BY <1>4 DEF Owned
<1> QED BY Zenon, <1>1, <1>4, <1>6, <1>7, <1>8 DEF Owned

(* push_back when there is room: the element is put behind the others. *)
LEMMA Pushed ==
  ASSUME NEW h, NEW o, NEW l, NEW U, Owned(h, o, l, U), NEW v \in U, NEW x \in Values,
         o[v].sz < o[v].cap
  PROVE  Owned([h EXCEPT ![o[v].elem][o[v].sz + 1] = x],
               [o EXCEPT ![v] = [o[v] EXCEPT !.sz = @ + 1]], [l EXCEPT ![v] = Append(@, x)], U)
<1> DEFINE e == o[v].elem
           k == o[v].sz
           g == [h EXCEPT ![e][k + 1] = x]
           y == [o[v] EXCEPT !.sz = @ + 1]
           oo == [o EXCEPT ![v] = y]
           ll == [l EXCEPT ![v] = Append(@, x)]
<1>1. /\ h \in [1..Blocks -> Storage] /\ U \subseteq Vectors /\ o[v] \in Objects
      /\ o \in [Vectors -> Objects] /\ l \in [Vectors -> Seq(Values)] /\ l[v] \in Seq(Values)
      /\ Holds(h, o[v], l[v])
  BY Zenon DEF Owned
<1>2. /\ k \in Nat /\ o[v].cap \in Nat /\ e \in 1..Blocks /\ e # 0
      /\ Len(h[e]) = o[v].cap /\ h[e] \in Storage /\ Len(l[v]) = k
      /\ \A i \in 1..k : h[e][i] = l[v][i]
  BY <1>1, VectorAssumption DEF Objects, Holds
<1>3. /\ y \in Objects /\ y.elem = e /\ y.cap = o[v].cap /\ y.sz = k + 1
  <2>1. k + 1 \in Nat BY <1>2
  <2>2. ASSUME NEW c \in Objects, NEW m \in Nat
        PROVE  /\ [c EXCEPT !.sz = m] \in Objects /\ [c EXCEPT !.sz = m].elem = c.elem
               /\ [c EXCEPT !.sz = m].cap = c.cap /\ [c EXCEPT !.sz = m].sz = m
    BY Zenon DEF Objects
  <2> QED BY Zenon, <1>1, <2>1, <2>2
<1>4. /\ Append(l[v], x) \in Seq(Values) /\ Len(Append(l[v], x)) = k + 1
      /\ Append(l[v], x)[k + 1] = x /\ \A i \in 1..k : Append(l[v], x)[i] = l[v][i]
  BY <1>1, <1>2
<1>5. /\ oo \in [Vectors -> Objects] /\ ll \in [Vectors -> Seq(Values)]
      /\ oo[v] = y /\ ll[v] = Append(l[v], x)
      /\ \A u \in U \ {v} : oo[u] = o[u] /\ ll[u] = l[u]
  BY Zenon, <1>1, <1>3, <1>4
<1> DEFINE cells == WithCell(h[e], k + 1, x)
<1>6. /\ cells \in Storage /\ Len(cells) = o[v].cap /\ cells[k + 1] = x
      /\ \A i \in 1..k : cells[i] = h[e][i]
  <2>1. h[e] \in Storage /\ k + 1 \in 1..Len(h[e]) /\ Len(h[e]) = o[v].cap /\ x \in Values \cup {Raw}
    BY <1>2
  <2>2. (k + 1) - 1 = k BY <1>2
  <2>3. h[e] \in Seq(Values \cup {Raw}) BY Zenon, <2>1 DEF Storage
  <2>4. OneWritten(Values \cup {Raw}, h[e], k + 1, x, cells) BY Zenon, <2>1, <2>3, CellWritten
  <2> HIDE DEF cells
  <2> QED BY Zenon, <2>1, <2>2, <2>4 DEF Storage, OneWritten
<1>7. g = [h EXCEPT ![e] = cells] BY Zenon, <1>1, <1>2 DEF WithCell
<1>8. /\ g \in [1..Blocks -> Storage] /\ g[e] = cells
      /\ \A b \in 1..Blocks : b # e => g[b] = h[b]
  BY Zenon, <1>1, <1>2, <1>6, <1>7
<1>9. Holds(g, y, Append(l[v], x))
  <2>1. \A i \in 1..(k + 1) : i \in 1..k \/ i = k + 1 BY <1>2
  <2>2. \A i \in 1..(k + 1) : cells[i] = Append(l[v], x)[i] BY Zenon, <1>2, <1>4, <1>6, <2>1
  <2> QED BY <1>1, <1>2, <1>3, <1>4, <1>6, <1>8, <2>2 DEF Holds
<1>10. ASSUME NEW u \in U \ {v} PROVE Holds(g, oo[u], ll[u])
  <2>1. Holds(h, o[u], l[u]) /\ o[u].elem # e /\ o[u].elem \in 0..Blocks BY Zenon, <1>1, <1>2 DEF Owned, Objects
  <2>2. o[u].elem # 0 => g[o[u].elem] = h[o[u].elem] BY <1>8, <2>1, VectorAssumption
  <2> QED BY <1>5, <2>1, <2>2 DEF Holds
<1>11. \A u \in U : oo[u].elem = o[u].elem BY Zenon, <1>3, <1>5
<1>12. \A u, w \in U : u # w /\ oo[u].elem # 0 => oo[w].elem # oo[u].elem BY <1>11 DEF Owned
<1>13. \A b \in 1..Blocks : g[b] # <<>> => \E u \in U : oo[u].elem = b BY Zenon, <1>8, <1>11 DEF Owned
<1> QED BY Zenon, <1>1, <1>5, <1>8, <1>9, <1>10, <1>12, <1>13 DEF Owned

-----------------------------------------------------------------------------
(* What a usable vector holds, as the operations see it. *)
LEMMA HoldsList ==
  ASSUME VectorInv, NEW v \in UsableOnes
  PROVE  /\ v \in Vectors /\ vec[v] \in Objects /\ list[v] \in Seq(Values)
         /\ vec[v].sz \in Nat /\ vec[v].cap \in Nat /\ vec[v].elem \in 0..Blocks
         /\ ElementsOf(vec[v]) = list[v] /\ Len(list[v]) = vec[v].sz /\ vec[v].sz <= vec[v].cap
<1>1. /\ v \in Vectors /\ vec[v] \in Objects /\ list[v] \in Seq(Values)
      /\ heap \in [1..Blocks -> Storage] /\ Holds(heap, vec[v], list[v])
  BY Zenon DEF VectorInv, Owned, UsableOnes
<1>2. vec[v].sz \in Nat /\ vec[v].cap \in Nat /\ vec[v].elem \in 0..Blocks BY Zenon, <1>1 DEF Objects
<1>3. Len(list[v]) = vec[v].sz /\ vec[v].sz <= vec[v].cap BY Zenon, <1>1 DEF Holds
<1>4. CASE vec[v].elem = 0
  <2>1. vec[v].sz = 0 BY <1>1, <1>2, <1>4 DEF Holds
  <2>2. list[v] = <<>> BY <1>1, <1>3, <2>1
  <2> QED BY Zenon, <1>1, <1>2, <1>3, <1>4, <2>2 DEF ElementsOf, nullptr
<1>5. CASE vec[v].elem # 0
  <2> DEFINE c == heap[vec[v].elem]
             k == vec[v].sz
  <2>1. c \in Storage /\ Len(c) = vec[v].cap /\ \A i \in 1..k : c[i] = list[v][i]
    <3>1. vec[v].elem \in 1..Blocks BY <1>2, <1>5, VectorAssumption
    <3> QED BY Zenon, <1>1, <1>5, <3>1 DEF Holds
  <2>2. /\ SubSeq(c, 1, k) \in Seq(Values \cup {Raw}) /\ Len(SubSeq(c, 1, k)) = k
        /\ \A i \in 1..k : SubSeq(c, 1, k)[i] = c[i]
    BY <1>2, <1>3, <2>1 DEF Storage
  <2>3. list[v] \in Seq(Values \cup {Raw}) BY <1>1
  <2>4. \A i \in 1..k : SubSeq(c, 1, k)[i] = list[v][i] BY Zenon, <2>1, <2>2
  <2>5. SubSeq(c, 1, k) = list[v] BY Zenon, <1>3, <2>2, <2>3, <2>4, SameElements
  <2> QED BY Zenon, <1>1, <1>2, <1>3, <1>5, <2>5 DEF ElementsOf, nullptr
<1> QED BY Zenon, <1>4, <1>5

(* reserve: the object has room for n elements and holds what it held. *)
LEMMA ReserveKeeps ==
  ASSUME VectorInv, NEW v \in UsableOnes, NEW n \in Nat, NEW r \in Reserved(vec[v], n)
  PROVE  /\ Owned(r.h, [vec EXCEPT ![v] = r.o], list, UsableOnes)
         /\ r.o.sz = vec[v].sz /\ r.o.alive /\ n <= r.o.cap
         /\ n <= vec[v].cap => r.o = vec[v]
<1> DEFINE xs == list[v]
           g == Release(heap, vec[v])
<1>1. /\ v \in Vectors /\ vec[v] \in Objects /\ xs \in Seq(Values)
      /\ vec[v].sz \in Nat /\ vec[v].cap \in Nat /\ vec[v].elem \in 0..Blocks
      /\ ElementsOf(vec[v]) = xs /\ Len(xs) = vec[v].sz /\ vec[v].sz <= vec[v].cap
  BY Zenon, HoldsList
<1>2. /\ Owned(heap, vec, list, UsableOnes) /\ vec[v].alive
      /\ heap \in [1..Blocks -> Storage] /\ Holds(heap, vec[v], xs)
      /\ vec \in [Vectors -> Objects] /\ list \in [Vectors -> Seq(Values)]
  BY Zenon DEF VectorInv, Owned, UsableOnes, Usable
<1>3. CASE n <= vec[v].cap
  <2>1. r.h = heap /\ r.o = vec[v] BY <1>3 DEF Reserved
  <2>2. [vec EXCEPT ![v] = vec[v]] = vec BY Zenon, <1>1, <1>2
  <2> QED BY Zenon, <1>2, <1>3, <2>1, <2>2
<1>4. CASE ~(n <= vec[v].cap)
  <2>1. PICK p \in Allocate(heap, n) : /\ r.h = Release(Construct(heap, p, xs, n), vec[v])
                                       /\ r.o = Object(p, Len(xs), n)
    BY <1>1, <1>4 DEF Reserved
  <2>2. n # 0 /\ Len(xs) <= n BY <1>1, <1>4
  <2>3. FreeFor(heap, p, n) BY Zenon, AllocateGives
  <2>4. p \in 1..Blocks /\ heap[p] = <<>> /\ p # 0 BY <2>2, <2>3, VectorAssumption DEF FreeFor
  <2>5. p # vec[v].elem
    <3>1. Len(<<>>) = 0 BY Zenon
    <3> QED BY Zenon, <1>1, <1>2, <2>4, <3>1 DEF Holds
  <2>6. Release(Construct(heap, p, xs, n), vec[v]) = Construct(g, p, xs, n) /\ g[p] = <<>>
    <3>1. CASE vec[v].elem = 0 BY Zenon, <2>4, <3>1 DEF Release, nullptr
    <3>2. CASE vec[v].elem # 0
      <4> DEFINE cells == [i \in 1..n |-> IF i <= Len(xs) THEN xs[i] ELSE Raw]
      <4>1. vec[v].elem \in 1..Blocks BY <1>1, <3>2, VectorAssumption
      <4>2. ASSUME NEW a \in 1..Blocks, NEW b \in 1..Blocks, a # b, NEW c, NEW d
            PROVE  /\ [[heap EXCEPT ![a] = c] EXCEPT ![b] = d] = [[heap EXCEPT ![b] = d] EXCEPT ![a] = c]
                   /\ [heap EXCEPT ![b] = d][a] = heap[a]
        <5> DEFINE f == [x \in 1..Blocks |-> IF x = a THEN c ELSE IF x = b THEN d ELSE heap[x]]
        <5>1. [[heap EXCEPT ![a] = c] EXCEPT ![b] = d] = f BY <1>2, <4>2, Zenon
        <5>2. [[heap EXCEPT ![b] = d] EXCEPT ![a] = c] = f BY <1>2, <4>2, Zenon
        <5>3. [heap EXCEPT ![b] = d][a] = heap[a] BY <1>2, <4>2, Zenon
        <5> QED BY <5>1, <5>2, <5>3, Zenon
      <4>3. [[heap EXCEPT ![p] = cells] EXCEPT ![vec[v].elem] = <<>>]
              = [[heap EXCEPT ![vec[v].elem] = <<>>] EXCEPT ![p] = cells]
        BY Zenon, <2>4, <2>5, <4>1, <4>2
      <4>4. [heap EXCEPT ![vec[v].elem] = <<>>][p] = heap[p] BY <2>4, <2>5, <4>1, <4>2
      <4> QED BY <2>4, <3>2, <4>3, <4>4, Zenon DEF Release, Construct, nullptr
    <3> QED BY Zenon, <3>1, <3>2
  <2>7. Owned(g, vec, list, UsableOnes \ {v}) BY Zenon, <1>2, Released
  <2>8. FreeFor(g, p, n) BY Zenon, <2>2, <2>4, <2>6 DEF FreeFor
  <2>9. Owned(Construct(g, p, xs, n), [vec EXCEPT ![v] = Object(p, Len(xs), n)],
              [list EXCEPT ![v] = xs], (UsableOnes \ {v}) \cup {v})
    BY Zenon, <1>1, <2>2, <2>7, <2>8, Given
  <2>10. [list EXCEPT ![v] = xs] = list /\ (UsableOnes \ {v}) \cup {v} = UsableOnes BY Zenon, <1>1, <1>2
  <2>11. r.o.sz = Len(xs) /\ r.o.alive /\ r.o.cap = n BY <2>1 DEF Object
  <2>12. Owned(r.h, [vec EXCEPT ![v] = r.o], list, UsableOnes) BY <2>1, <2>6, <2>9, <2>10, Zenon
  <2> QED BY <1>1, <1>4, <2>11, <2>12
<1> QED BY Zenon, <1>3, <1>4

-----------------------------------------------------------------------------
(* The operations, one lemma for each. *)

(* Every constructor that fills a vector. *)
LEMMA MakeKeeps ==
  ASSUME VectorInv, NEW v \in Vectors, NEW xs \in Seq(Values), Make(v, xs)
  PROVE  VectorInv'
<1>1. /\ v \in Vectors \ UsableOnes /\ v \notin broken /\ broken' = broken
      /\ list' = [list EXCEPT ![v] = xs] /\ Len(xs) \in Nat /\ Len(xs) <= Len(xs)
      /\ broken \subseteq Vectors
  BY DEF Make, Unborn, UsableOnes, Usable, VectorInv
<1>2. PICK p \in Allocate(heap, Len(xs)) :
        /\ heap' = Construct(heap, p, xs, Len(xs))
        /\ vec' = [vec EXCEPT ![v] = Object(p, Len(xs), Len(xs))]
  BY Zenon DEF Make
<1>3. FreeFor(heap, p, Len(xs)) BY Zenon, <1>1, AllocateGives
<1>4. Owned(heap, vec, list, UsableOnes) /\ vec \in [Vectors -> Objects] BY Zenon DEF VectorInv, Owned
<1>5. Owned(heap', vec', list', UsableOnes \cup {v}) BY <1>1, <1>2, <1>3, <1>4, Given, Zenon
<1>6. vec'[v].alive /\ \A u \in Vectors \ {v} : vec'[u] = vec[u] BY Zenon, <1>2, <1>4 DEF Object
<1>7. UsableOnes' = UsableOnes \cup {v} BY <1>1, <1>6 DEF UsableOnes, Usable
<1> QED BY Zenon, <1>1, <1>5, <1>6, <1>7 DEF VectorInv

(* Destroying a vector frees its block and disturbs no other. *)
LEMMA DestroyKeeps ==
  ASSUME VectorInv, NEW v \in Vectors, Destroy(v)
  PROVE  VectorInv'
<1>1. /\ v \in UsableOnes /\ broken' = broken /\ heap' = Release(heap, vec[v]) /\ v \notin broken
      /\ vec' = [vec EXCEPT ![v] = NoObject] /\ list' = [list EXCEPT ![v] = <<>>]
  BY Zenon DEF Destroy, UsableOnes, Usable
<1>2. /\ Owned(heap, vec, list, UsableOnes) /\ vec \in [Vectors -> Objects]
      /\ list \in [Vectors -> Seq(Values)] /\ broken \subseteq Vectors
  BY Zenon DEF VectorInv, Owned
<1>3. Owned(heap', vec, list, UsableOnes \ {v}) BY Zenon, <1>1, <1>2, Released
<1>4. NoObject \in Objects /\ ~NoObject.alive BY VectorAssumption DEF NoObject, Objects, nullptr
<1>5. /\ vec' \in [Vectors -> Objects] /\ list' \in [Vectors -> Seq(Values)] /\ ~vec'[v].alive
      /\ \A u \in Vectors \ {v} : vec'[u] = vec[u] /\ list'[u] = list[u]
  BY <1>1, <1>2, <1>4
<1>6. UsableOnes' = UsableOnes \ {v} BY Zenon, <1>1, <1>5 DEF UsableOnes, Usable
<1>7. \A u \in UsableOnes \ {v} : vec'[u] = vec[u] /\ list'[u] = list[u] BY Zenon, <1>5 DEF UsableOnes
<1>8. Owned(heap', vec', list', UsableOnes \ {v})
  <2>1. vec' \in [Vectors -> Objects] /\ list' \in [Vectors -> Seq(Values)] BY Zenon, <1>5
  <2> QED BY Zenon, <1>3, <1>7, <2>1, OthersFree
<1>9. \A u \in broken : vec'[u].alive BY Zenon, <1>1, <1>2, <1>5 DEF VectorInv
<1> QED BY Zenon, <1>1, <1>2, <1>6, <1>8, <1>9 DEF VectorInv

(* Copy assignment: the old block is released first, so when the request for *)
(* the new one throws, v is broken and owns nothing.                         *)
LEMMA AssignCopyKeeps ==
  ASSUME VectorInv, NEW v \in Vectors, NEW w \in Vectors, AssignCopy(v, w)
  PROVE  VectorInv'
<1> DEFINE h == Release(heap, vec[v])
           xs == list[w]
           n == vec[w].cap
<1>1. /\ v \in UsableOnes /\ w \in UsableOnes /\ v # w /\ v \notin broken
  BY Zenon DEF AssignCopy, UsableOnes, Usable
<1>2. /\ Owned(heap, vec, list, UsableOnes) /\ vec \in [Vectors -> Objects]
      /\ list \in [Vectors -> Seq(Values)] /\ broken \subseteq Vectors
      /\ \A u \in broken : vec[u].alive
  BY Zenon DEF VectorInv, Owned
<1>3. /\ n \in Nat /\ xs \in Seq(Values) /\ ElementsOf(vec[w]) = xs /\ Len(xs) = vec[w].sz
      /\ Len(xs) <= n /\ Len(xs) \in Nat
  BY Zenon, <1>1, HoldsList
<1>4. Owned(h, vec, list, UsableOnes \ {v}) BY <1>1, <1>2, Released, Zenon
<1>5. CASE \E p \in Allocate(h, n) :
             /\ heap' = Construct(h, p, ElementsOf(vec[w]), n)
             /\ vec' = [vec EXCEPT ![v] = Object(p, vec[w].sz, n)]
             /\ list' = [list EXCEPT ![v] = xs] /\ UNCHANGED broken
  <2>1. PICK p \in Allocate(h, n) :
             /\ heap' = Construct(h, p, xs, n) /\ vec' = [vec EXCEPT ![v] = Object(p, Len(xs), n)]
             /\ list' = [list EXCEPT ![v] = xs] /\ UNCHANGED broken
    BY <1>3, <1>5, Zenon
  <2>2. FreeFor(h, p, n) BY Zenon, <1>3, AllocateGives
  <2>3. v \in Vectors \ (UsableOnes \ {v}) BY Zenon
  <2>4. Owned(heap', vec', list', (UsableOnes \ {v}) \cup {v})
    BY <1>3, <1>4, <2>1, <2>2, <2>3, Given, Zenon
  <2>5. vec'[v].alive /\ \A u \in Vectors \ {v} : vec'[u] = vec[u] BY Zenon, <1>2, <2>1 DEF Object
  <2>6. (UsableOnes \ {v}) \cup {v} = UsableOnes' BY Zenon, <1>1, <2>1, <2>5 DEF UsableOnes, Usable
  <2> QED BY Zenon, <1>1, <1>2, <2>1, <2>4, <2>5, <2>6 DEF VectorInv
<1>6. CASE /\ heap' = h /\ vec' = [vec EXCEPT ![v].sz = vec[w].sz, ![v].cap = n]
           /\ broken' = broken \cup {v} /\ UNCHANGED list
  <2> DEFINE o == [vec[v] EXCEPT !.sz = vec[w].sz, !.cap = n]
  <2>1. vec[v] \in Objects /\ vec[w].sz \in Nat /\ vec[v].alive
    BY Zenon, <1>1, <1>3, HoldsList DEF UsableOnes, Usable
  <2>2. o \in Objects /\ o.alive BY Zenon, <1>3, <2>1 DEF Objects
  <2>3. vec' = [vec EXCEPT ![v] = o] BY Zenon, <1>2, <1>6
  <2>4. /\ vec' \in [Vectors -> Objects] /\ vec'[v].alive
        /\ \A u \in Vectors \ {v} : vec'[u] = vec[u]
    BY Zenon, <1>2, <2>2, <2>3
  <2>5. \A u \in UsableOnes \ {v} : vec'[u] = vec[u] /\ list[u] = list[u] BY Zenon, <2>4 DEF UsableOnes
  <2>6. Owned(h, vec', list, UsableOnes \ {v}) BY <1>2, <1>4, <2>4, <2>5, OthersFree, Zenon
  <2>7. UsableOnes' = UsableOnes \ {v} BY Zenon, <1>6, <2>4 DEF UsableOnes, Usable
  <2> QED BY Zenon, <1>1, <1>2, <1>6, <2>4, <2>6, <2>7 DEF VectorInv
<1> QED BY Zenon, <1>5, <1>6 DEF AssignCopy

(* Both moves: v owns nothing on heap h, and takes over what w owned. *)
LEMMA TakeOverKeeps ==
  ASSUME VectorInv, NEW v \in Vectors, NEW w \in UsableOnes, v # w, v \notin broken,
         NEW h, Owned(h, vec, list, UsableOnes \ {v}), TakeOver(v, w, h)
  PROVE  VectorInv'
<1>1. w \in UsableOnes \ {v} /\ v \in Vectors \ (UsableOnes \ {v}) /\ w \in Vectors /\ vec[w].alive
  BY Zenon DEF UsableOnes, Usable
<1>2. /\ vec \in [Vectors -> Objects] /\ broken \subseteq Vectors /\ \A u \in broken : vec[u].alive
  BY Zenon DEF VectorInv, Owned
<1>3. /\ heap' = h /\ vec' = [vec EXCEPT ![v] = vec[w], ![w] = Object(0, 0, 0)]
      /\ list' = [list EXCEPT ![v] = list[w], ![w] = <<>>] /\ broken' = broken
  BY Zenon DEF TakeOver, nullptr
<1>4. Owned(heap', vec', list', (UsableOnes \ {v}) \cup {v}) BY <1>1, <1>3, TakenOver, Zenon
<1>5. Object(0, 0, 0).alive BY Zenon DEF Object
<1>6. /\ vec'[v] = vec[w] /\ vec'[w] = Object(0, 0, 0)
      /\ \A u \in Vectors \ {v, w} : vec'[u] = vec[u]
  BY Zenon, <1>1, <1>2, <1>3
<1>7. UsableOnes' = (UsableOnes \ {v}) \cup {v} BY Zenon, <1>1, <1>3, <1>5, <1>6 DEF UsableOnes, Usable
<1>8. \A u \in broken : vec'[u].alive BY Zenon, <1>1, <1>2, <1>5, <1>6
<1> QED BY Zenon, <1>2, <1>3, <1>4, <1>7, <1>8 DEF VectorInv

(* Both moves keep every block with one owner. *)
LEMMA MovesKeep ==
  ASSUME VectorInv, NEW v \in Vectors, NEW w \in Vectors, NewMoved(v, w) \/ AssignMoved(v, w)
  PROVE  VectorInv'
<1>1. Owned(heap, vec, list, UsableOnes) /\ \A u \in broken : vec[u].alive BY Zenon DEF VectorInv
<1>2. CASE NewMoved(v, w)
  <2>1. /\ v \notin UsableOnes /\ w \in UsableOnes /\ v # w /\ v \notin broken /\ TakeOver(v, w, heap)
    BY Zenon, <1>1, <1>2 DEF NewMoved, Unborn, UsableOnes, Usable
  <2>2. UsableOnes \ {v} = UsableOnes BY Zenon, <2>1
  <2> QED BY <1>1, <2>1, <2>2, TakeOverKeeps, Zenon
<1>3. CASE AssignMoved(v, w)
  <2>1. /\ v \in UsableOnes /\ w \in UsableOnes /\ v # w /\ v \notin broken
        /\ TakeOver(v, w, Release(heap, vec[v]))
    BY Zenon, <1>3 DEF AssignMoved, UsableOnes, Usable
  <2>2. Owned(Release(heap, vec[v]), vec, list, UsableOnes \ {v}) BY <1>1, <2>1, Released, Zenon
  <2> QED BY <2>1, <2>2, TakeOverKeeps, Zenon
<1> QED BY Zenon, <1>2, <1>3

(* The call of reserve keeps the invariant. *)
LEMMA reserveKeeps ==
  ASSUME VectorInv, NEW v \in Vectors, NEW n \in Nat, reserve(v, n)
  PROVE  VectorInv'
<1>1. v \in UsableOnes /\ list' = list /\ broken' = broken BY Zenon DEF reserve, UsableOnes, Usable
<1>2. PICK r \in Reserved(vec[v], n) : heap' = r.h /\ vec' = [vec EXCEPT ![v] = r.o] BY Zenon DEF reserve
<1>3. Owned(heap', vec', list', UsableOnes) /\ r.o.alive BY <1>1, <1>2, ReserveKeeps, Zenon
<1>4. vec \in [Vectors -> Objects] /\ broken \subseteq Vectors /\ \A u \in broken : vec[u].alive
  BY Zenon DEF VectorInv, Owned
<1>5. vec'[v].alive /\ \A u \in Vectors \ {v} : vec'[u] = vec[u] BY Zenon, <1>2, <1>3, <1>4
<1>6. UsableOnes' = UsableOnes BY Zenon, <1>1, <1>5 DEF UsableOnes, Usable
<1> QED BY Zenon, <1>1, <1>3, <1>4, <1>5, <1>6 DEF VectorInv

(* push_back: a full vector doubles its capacity first, from 0 to 1. *)
LEMMA push_backKeeps ==
  ASSUME VectorInv, NEW v \in Vectors, NEW x \in Values, push_back(v, x)
  PROVE  VectorInv'
<1> DEFINE n == IF vec[v].sz < vec[v].cap THEN 0
                ELSE IF vec[v].cap = 0 THEN 1 ELSE 2 * vec[v].cap
<1>1. /\ v \in UsableOnes /\ list' = [list EXCEPT ![v] = Append(@, x)] /\ broken' = broken
  BY Zenon DEF push_back, UsableOnes, Usable
<1>2. PICK r \in Reserved(vec[v], n) :
        /\ heap' = [r.h EXCEPT ![r.o.elem][r.o.sz + 1] = x]
        /\ vec' = [vec EXCEPT ![v] = [r.o EXCEPT !.sz = @ + 1]]
  BY Zenon DEF push_back
<1>3. vec[v].sz \in Nat /\ vec[v].cap \in Nat /\ vec[v].sz <= vec[v].cap BY Zenon, <1>1, HoldsList
<1>4. n \in Nat BY <1>3
<1> DEFINE o == [vec EXCEPT ![v] = r.o]
<1>5. /\ Owned(r.h, o, list, UsableOnes) /\ r.o.sz = vec[v].sz /\ r.o.alive
      /\ n <= r.o.cap /\ (n <= vec[v].cap => r.o = vec[v])
  <2> HIDE DEF n
  <2> QED BY <1>1, <1>4, ReserveKeeps, Zenon
<1>6. /\ vec \in [Vectors -> Objects] /\ list \in [Vectors -> Seq(Values)]
      /\ broken \subseteq Vectors /\ \A u \in broken : vec[u].alive
  BY Zenon DEF VectorInv, Owned
<1>7. o[v] = r.o /\ o \in [Vectors -> Objects] BY Zenon, <1>5, <1>6 DEF Owned
<1>8. r.o \in Objects /\ r.o.cap \in Nat BY Zenon, <1>7 DEF Objects
<1>9. r.o.sz < r.o.cap
  <2>1. CASE vec[v].sz < vec[v].cap BY <1>3, <1>5, <2>1
  <2>2. CASE ~(vec[v].sz < vec[v].cap) BY <1>3, <1>5, <1>8, <2>2
  <2> QED BY Zenon, <2>1, <2>2
<1>10. Owned([r.h EXCEPT ![r.o.elem][r.o.sz + 1] = x], [o EXCEPT ![v] = [r.o EXCEPT !.sz = @ + 1]],
             [list EXCEPT ![v] = Append(@, x)], UsableOnes)
  <2>1. o[v].sz < o[v].cap BY <1>7, <1>9, Zenon
  <2>2. Owned([r.h EXCEPT ![o[v].elem][o[v].sz + 1] = x], [o EXCEPT ![v] = [o[v] EXCEPT !.sz = @ + 1]],
              [list EXCEPT ![v] = Append(@, x)], UsableOnes)
    BY Zenon, <1>1, <1>5, <2>1, Pushed
  <2> QED BY <1>7, <2>2, Zenon
<1>11. [o EXCEPT ![v] = [r.o EXCEPT !.sz = @ + 1]] = vec' BY Zenon, <1>2, <1>6
<1>12. Owned(heap', vec', list', UsableOnes) BY <1>1, <1>2, <1>10, <1>11, Zenon
<1>13. [r.o EXCEPT !.sz = @ + 1].alive BY Zenon, <1>5, <1>8 DEF Objects
<1>14. vec'[v].alive /\ \A u \in Vectors \ {v} : vec'[u] = vec[u] BY Zenon, <1>2, <1>6, <1>13
<1>15. UsableOnes' = UsableOnes BY Zenon, <1>1, <1>14 DEF UsableOnes, Usable
<1> QED BY Zenon, <1>1, <1>6, <1>12, <1>14, <1>15 DEF VectorInv

(* No vector is alive at first. *)
LEMMA VectorStarts ==
  ASSUME VectorInit
  PROVE  VectorInv
<1>1. NoObject \in Objects /\ ~NoObject.alive BY VectorAssumption DEF NoObject, Objects, nullptr
<1>2. UsableOnes = {} BY Zenon, <1>1 DEF VectorInit, UsableOnes, Usable
<1>3. <<>> \in Storage /\ <<>> \in Seq(Values) BY DEF Storage
<1>4. /\ heap \in [1..Blocks -> Storage] /\ vec \in [Vectors -> Objects]
      /\ list \in [Vectors -> Seq(Values)] /\ \A b \in 1..Blocks : heap[b] = <<>>
  BY Zenon, <1>1, <1>3 DEF VectorInit
<1>5. Owned(heap, vec, list, {}) BY Zenon, <1>4 DEF Owned
<1> QED BY Zenon, <1>2, <1>5 DEF VectorInv, VectorInit

(* Every operation keeps the invariant. *)
LEMMA VectorStepKeeps ==
  ASSUME VectorInv, VectorNext
  PROVE  VectorInv'
<1>1. ASSUME NEW v \in Vectors, NewDefault(v) PROVE VectorInv'
  <2>1. <<>> \in Seq(Values) OBVIOUS
  <2> QED BY Zenon, <1>1, <2>1, MakeKeeps DEF NewDefault
<1>2. ASSUME NEW v \in Vectors, NEW n \in 1..MaxLength, NewSized(v, n) PROVE VectorInv'
  <2>1. n \in Nat BY VectorAssumption
  <2>2. [i \in 1..n |-> Default] \in Seq(Values) BY <2>1, VectorAssumption
  <2> QED BY <1>2, <2>2, MakeKeeps, Zenon DEF NewSized
<1>3. ASSUME NEW v \in Vectors, NEW n \in 1..MaxLength, reserve(v, n) PROVE VectorInv'
  <2>1. n \in Nat BY VectorAssumption
  <2> QED BY Zenon, <1>3, <2>1, reserveKeeps
<1>4. ASSUME NEW v \in Vectors, NEW x \in Values, NEW y \in Values, NewListed(v, <<x, y>>)
      PROVE  VectorInv'
  <2>1. <<x, y>> \in Seq(Values) OBVIOUS
  <2> QED BY Zenon, <1>4, <2>1, MakeKeeps DEF NewListed
<1>5. ASSUME NEW v \in Vectors, NEW w \in Vectors, NewCopy(v, w) PROVE VectorInv'
  <2>1. w \in UsableOnes BY Zenon, <1>5 DEF NewCopy, UsableOnes
  <2>2. ElementsOf(vec[w]) \in Seq(Values) BY Zenon, <2>1, HoldsList
  <2> QED BY Zenon, <1>5, <2>2, MakeKeeps DEF NewCopy
<1> QED BY Zenon, <1>1, <1>2, <1>3, <1>4, <1>5, DestroyKeeps, push_backKeeps, AssignCopyKeeps, MovesKeep
        DEF VectorNext

(* The invariant gives what the run checks. *)
LEMMA OwnershipFollows ==
  ASSUME VectorInv
  PROVE  VectorsOwnTheirElements
<1>1. ASSUME NEW v \in Vectors, Usable(v)
      PROVE  /\ ElementsOf(vec[v]) = list[v] /\ vec[v].sz <= vec[v].cap
             /\ vec[v].elem # nullptr =>
                  /\ Len(heap[vec[v].elem]) = vec[v].cap
                  /\ \A w \in Vectors \ {v} : Usable(w) => vec[w].elem # vec[v].elem
  <2>1. v \in UsableOnes BY Zenon, <1>1 DEF UsableOnes
  <2>2. ElementsOf(vec[v]) = list[v] /\ vec[v].sz <= vec[v].cap BY Zenon, <2>1, HoldsList
  <2>3. vec[v].elem # 0 => Len(heap[vec[v].elem]) = vec[v].cap BY Zenon, <2>1 DEF VectorInv, Owned, Holds
  <2>4. vec[v].elem # 0 => \A w \in Vectors \ {v} : Usable(w) => vec[w].elem # vec[v].elem
    BY Zenon, <2>1 DEF VectorInv, Owned, UsableOnes
  <2> QED BY Zenon, <2>2, <2>3, <2>4 DEF nullptr
<1>2. ASSUME NEW b \in 1..Blocks, heap[b] # <<>> PROVE \E v \in Vectors : Usable(v) /\ vec[v].elem = b
  BY Zenon, <1>2 DEF VectorInv, Owned, UsableOnes
<1> QED BY Zenon, <1>1, <1>2 DEF VectorsOwnTheirElements

(* VectorsAlwaysOwn: whatever vectors are made, copied, moved, grown and     *)
(* destroyed, in any order, and whichever requests for memory fail, every    *)
(* vector holds the elements put into it in a block of its own, and no block *)
(* is leaked or freed twice.                                                 *)
THEOREM VectorsAlwaysOwn == VectorSpec => []VectorsOwnTheirElements
<1>1. VectorInit => VectorInv BY Zenon, VectorStarts
<1>2. VectorInv /\ [VectorNext]_vectorVars => VectorInv'
  <2>1. ASSUME VectorInv, UNCHANGED vectorVars PROVE VectorInv'
    BY Zenon, <2>1 DEF vectorVars, VectorInv, UsableOnes, Usable
  <2> QED BY Zenon, <2>1, VectorStepKeeps
<1>3. VectorInv => VectorsOwnTheirElements BY Zenon, OwnershipFollows
<1> QED BY <1>1, <1>2, <1>3, PTL DEF VectorSpec

-----------------------------------------------------------------------------
(***************************************************************************)
(* The disk manager that keeps its pages in memory, for any threads, page  *)
(* contents and ring: a read that overlaps no write of its page gives what *)
(* was last written, because a page's lock is held from before mutex_ is   *)
(* given up until the copy is over.                                        *)
(***************************************************************************)

PageData == [Halves -> Contents \cup {ZeroPage, "nullptr"}]
Holding == {"copy", "load", "store", "post"}

(* every variable has its type *)
MemoryTyped ==
    /\ data_ \in Seq(PageData) /\ stored \in [DiskPages -> Contents \cup {ZeroPage}]
    /\ page_w \in [DiskPages -> Callers \cup {NoCaller}] /\ page_r \in [DiskPages -> SUBSET Callers]
    /\ phase \in [Callers -> {"idle", "mutex", "page"} \cup Holding]
    /\ kind \in [Callers -> {"read", "write"}] /\ page \in [Callers -> DiskPages]
    /\ value \in [Callers -> Contents \cup {ZeroPage}] /\ half \in [Callers -> Halves]
    /\ buffer \in [Callers -> PageData]

(* who holds mutex_ and the lock of page p *)
LocksHeld ==
    /\ \A t \in Callers : mutex_ = t <=> phase[t] = "page"
    /\ \A t \in Callers : half[t] = 2 => phase[t] = "copy"
    /\ \A t \in Callers : phase[t] \in {"load", "store"} => kind[t] = "write"
    /\ \A t \in Callers, p \in DiskPages :
         /\ page_w[p] = t <=> phase[t] \in Holding /\ kind[t] = "write" /\ page[t] = p
         /\ t \in page_r[p] <=> phase[t] \in Holding /\ kind[t] = "read" /\ page[t] = p
    /\ \A p \in DiskPages : page_w[p] # NoCaller => page_r[p] = {}

(* page p is in memory *)
Present(p) == p < Len(data_) /\ data_[p + 1] # NullPage

(* a page in memory is the one last written, but for the one that a thread   *)
(* has half written                                                          *)
PagesStored ==
    /\ \A t \in Callers : phase[t] \in Holding \cup {"page"} => Present(page[t])
    /\ \A p \in DiskPages :
         /\ ~Present(p) => stored[p] = ZeroPage
         /\ Present(p) => \/ data_[p + 1] = Whole(stored[p])
                          \/ page_w[p] # NoCaller /\ half[page_w[p]] = 2

(* how far a thread has copied *)
Copied(t) ==
    /\ kind[t] = "write" /\ half[t] = 2 => data_[page[t] + 1][1] = value[t]
    /\ kind[t] = "read" /\ half[t] = 2 => buffer[t][1] = stored[page[t]]
    /\ kind[t] = "read" /\ phase[t] = "post" => buffer[t] = Whole(stored[page[t]])

RingTyped ==
    /\ recent_access_ \in [0..(RingSize - 1) -> Int] /\ access_ptr_ \in 0..(RingSize - 1)
    /\ accessed \in Seq(DiskPages)

MemoryInv ==
    /\ MemoryTyped /\ LocksHeld /\ PagesStored /\ \A t \in Callers : Copied(t)
    /\ RingTyped /\ RingIsRecent

(* A step that takes and gives back no lock keeps LocksHeld. *)
LEMMA LocksStay ==
  ASSUME LocksHeld, UNCHANGED <<mutex_, page_w, page_r, kind, page>>,
         \A u \in Callers : /\ phase'[u] \in Holding <=> phase[u] \in Holding
                            /\ phase'[u] = "page" <=> phase[u] = "page"
                            /\ phase'[u] \in {"load", "store"} => kind[u] = "write"
                            /\ half'[u] = 2 => phase'[u] = "copy"
  PROVE  LocksHeld'
<1>1. ASSUME NEW u \in Callers, NEW q \in DiskPages
      PROVE  /\ page_w'[q] = u <=> phase'[u] \in Holding /\ kind'[u] = "write" /\ page'[u] = q
             /\ u \in page_r'[q] <=> phase'[u] \in Holding /\ kind'[u] = "read" /\ page'[u] = q
  <2>1. /\ page_w[q] = u <=> phase[u] \in Holding /\ kind[u] = "write" /\ page[u] = q
        /\ u \in page_r[q] <=> phase[u] \in Holding /\ kind[u] = "read" /\ page[u] = q
    BY Zenon DEF LocksHeld
  <2> QED BY Zenon, <2>1
<1>2. \A u \in Callers : mutex_' = u <=> phase'[u] = "page" BY Zenon DEF LocksHeld
<1>3. \A q \in DiskPages : page_w'[q] # NoCaller => page_r'[q] = {} BY Zenon DEF LocksHeld
<1>4. \A u \in Callers : half'[u] = 2 => phase'[u] = "copy" BY Zenon
<1>5. \A u \in Callers : phase'[u] \in {"load", "store"} => kind'[u] = "write" BY Zenon
<1> QED BY Zenon, <1>1, <1>2, <1>3, <1>4, <1>5 DEF LocksHeld

(* The ring is not touched but by PostProcessLatency. *)
LEMMA RingStays == ASSUME MemoryInv, UNCHANGED ring PROVE RingTyped' /\ RingIsRecent'
BY Zenon DEF MemoryInv, RingTyped, RingIsRecent, ring

(* A call begins: its thread holds no lock and has copied nothing. *)
LEMMA AccessKeeps ==
  ASSUME MemoryInv, NEW t \in Callers, NEW k \in {"read", "write"}, NEW p \in DiskPages,
         NEW v \in Contents \cup {ZeroPage}, Access(t, k, p, v)
  PROVE  MemoryInv'
<1>1. /\ phase[t] = "idle" /\ phase' = [phase EXCEPT ![t] = "mutex"]
      /\ kind' = [kind EXCEPT ![t] = k] /\ page' = [page EXCEPT ![t] = p]
      /\ value' = [value EXCEPT ![t] = v]
      /\ UNCHANGED <<data_, mutex_, page_w, page_r, half, buffer, stored>>
      /\ UNCHANGED ring
  BY Zenon DEF Access, Enter, locks
<1>2. MemoryTyped /\ LocksHeld /\ PagesStored /\ \A u \in Callers : Copied(u) BY Zenon DEF MemoryInv
<1>3. /\ phase'[t] = "mutex"
      /\ \A u \in Callers : u # t => /\ phase'[u] = phase[u] /\ kind'[u] = kind[u]
                                     /\ page'[u] = page[u] /\ value'[u] = value[u]
  BY Zenon, <1>1, <1>2 DEF MemoryTyped
<1>4. half[t] # 2 BY Zenon, <1>1, <1>2 DEF LocksHeld
<1>5. MemoryTyped' BY Zenon, <1>1, <1>2 DEF MemoryTyped
<1>6. LocksHeld' BY <1>1, <1>2, <1>3, <1>4 DEF LocksHeld, Holding
<1>7. PagesStored' BY Zenon, <1>1, <1>2, <1>3 DEF PagesStored, Present, Holding
<1>8. \A u \in Callers : Copied(u)' BY <1>1, <1>2, <1>3, <1>4 DEF Copied
<1> QED BY Zenon, <1>1, <1>5, <1>6, <1>7, <1>8, RingStays DEF MemoryInv

(* What data_ is after the page has been found: it may have grown, and the   *)
(* page is there, zeroed if it was not before.                               *)
LEMMA FoundPage ==
  ASSUME MemoryTyped, NEW p \in DiskPages,
         data_' = [Grown(p) EXCEPT ![p + 1] = IF @ = NullPage THEN Whole(ZeroPage) ELSE @]
  PROVE  /\ data_' \in Seq(PageData) /\ p < Len(data_') /\ data_'[p + 1] # NullPage
         /\ \A q \in DiskPages : Present(q) => Present(q)' /\ data_'[q + 1] = data_[q + 1]
         /\ \A q \in DiskPages : ~Present(q) /\ Present(q)' => data_'[q + 1] = Whole(ZeroPage)
<1>1. /\ p \in Nat /\ data_ \in Seq(PageData) /\ Len(data_) \in Nat
      /\ NullPage \in PageData /\ Whole(ZeroPage) \in PageData
  BY MemoryAssumption DEF MemoryTyped, DiskPages, PageData, NullPage, Whole
<1>2. NullPage # Whole(ZeroPage)
  <2>1. NullPage[1] = "nullptr" /\ Whole(ZeroPage)[1] = ZeroPage BY DEF NullPage, Whole, Halves
  <2> QED BY Zenon, <2>1 DEF ZeroPage
<1> DEFINE n == IF p >= Len(data_) THEN p + 1 ELSE Len(data_)
<1>3. /\ Grown(p) \in Seq(PageData) /\ Len(Grown(p)) = n
      /\ \A i \in 1..n : Grown(p)[i] = IF i <= Len(data_) THEN data_[i] ELSE NullPage
  <2>1. CASE p >= Len(data_)
    <3>1. Grown(p) = [i \in 1..(p + 1) |-> IF i <= Len(data_) THEN data_[i] ELSE NullPage]
      BY Zenon, <2>1 DEF Grown, Resized
    <3>2. \A i \in 1..(p + 1) : (IF i <= Len(data_) THEN data_[i] ELSE NullPage) \in PageData
      BY <1>1
    <3> QED BY <1>1, <2>1, <3>1, <3>2
  <2>2. CASE ~(p >= Len(data_)) BY <1>1, <2>2 DEF Grown
  <2> QED BY Zenon, <2>1, <2>2
<1>4. n \in Nat /\ p + 1 \in 1..n BY <1>1
<1>5. /\ data_' \in Seq(PageData) /\ Len(data_') = n
      /\ \A i \in 1..n : data_'[i] = IF i = p + 1 /\ Grown(p)[i] = NullPage THEN Whole(ZeroPage)
                                     ELSE Grown(p)[i]
  BY <1>1, <1>3, <1>4
<1>6. p < Len(data_') /\ data_'[p + 1] # NullPage BY <1>1, <1>2, <1>4, <1>5
<1>7. ASSUME NEW q \in DiskPages, Present(q) PROVE Present(q)' /\ data_'[q + 1] = data_[q + 1]
  <2>1. q \in Nat /\ q + 1 \in 1..Len(data_) /\ q + 1 \in 1..n /\ data_[q + 1] # NullPage
    BY <1>1, <1>7, MemoryAssumption DEF Present, DiskPages
  <2> QED BY <1>1, <1>3, <1>5, <2>1 DEF Present
<1>8. ASSUME NEW q \in DiskPages, ~Present(q), Present(q)' PROVE data_'[q + 1] = Whole(ZeroPage)
  <2>1. q \in Nat /\ q + 1 \in 1..n /\ data_'[q + 1] # NullPage
    BY <1>1, <1>5, <1>8, MemoryAssumption DEF Present, DiskPages
  <2>2. Grown(p)[q + 1] = NullPage BY <1>1, <1>3, <1>8, <2>1 DEF Present
  <2> QED BY Zenon, <1>5, <2>1, <2>2
<1> QED BY Zenon, <1>5, <1>6, <1>7, <1>8

(* FindPage takes mutex_; every page in memory stays as it is. *)
LEMMA FindPageKeeps ==
  ASSUME MemoryInv, NEW t \in Callers, FindPage(t)
  PROVE  MemoryInv'
<1>1. /\ phase[t] = "mutex" /\ mutex_ = NoCaller /\ mutex_' = t
      /\ data_' = [Grown(page[t]) EXCEPT ![page[t] + 1] = IF @ = NullPage THEN Whole(ZeroPage) ELSE @]
      /\ phase' = [phase EXCEPT ![t] = "page"]
      /\ UNCHANGED <<page_w, page_r, kind, page, value, half, buffer, stored>>
      /\ UNCHANGED ring
  BY Zenon DEF FindPage, Enter, access
<1>2. MemoryTyped /\ LocksHeld /\ PagesStored /\ \A u \in Callers : Copied(u) BY Zenon DEF MemoryInv
<1>3. phase'[t] = "page" /\ \A u \in Callers : u # t => phase'[u] = phase[u]
  BY Zenon, <1>1, <1>2 DEF MemoryTyped
<1>4. page[t] \in DiskPages BY Zenon, <1>2 DEF MemoryTyped
<1>5. /\ data_' \in Seq(PageData) /\ Present(page[t])'
      /\ \A q \in DiskPages : Present(q) => Present(q)' /\ data_'[q + 1] = data_[q + 1]
      /\ \A q \in DiskPages : ~Present(q) /\ Present(q)' => data_'[q + 1] = Whole(ZeroPage)
  BY Zenon, <1>1, <1>2, <1>4, FoundPage DEF Present
<1>6. MemoryTyped' BY Zenon, <1>1, <1>2, <1>5 DEF MemoryTyped
<1>7. LocksHeld'
  <2>1. \A u \in Callers : phase[u] # "page" BY <1>1, <1>2, MemoryAssumption DEF LocksHeld
  <2> QED BY <1>1, <1>2, <1>3, <2>1 DEF LocksHeld, Holding
<1>8. PagesStored'
  <2>1. \A u \in Callers : phase'[u] \in Holding \cup {"page"} => Present(page[u])'
    BY Zenon, <1>1, <1>2, <1>3, <1>5 DEF PagesStored, MemoryTyped
  <2>2. ASSUME NEW q \in DiskPages
        PROVE  /\ ~Present(q)' => stored'[q] = ZeroPage
               /\ Present(q)' => \/ data_'[q + 1] = Whole(stored'[q])
                                 \/ page_w'[q] # NoCaller /\ half'[page_w'[q]] = 2
    BY Zenon, <1>1, <1>2, <1>5 DEF PagesStored
  <2> QED BY Zenon, <2>1, <2>2 DEF PagesStored
<1>9. \A u \in Callers : Copied(u)'
  <2> SUFFICES ASSUME NEW u \in Callers PROVE Copied(u)' BY Zenon
  <2>1. half[u] = 2 => phase[u] = "copy" /\ Present(page[u]) /\ page[u] \in DiskPages
    BY <1>2 DEF LocksHeld, PagesStored, Holding, MemoryTyped
  <2>2. half[u] = 2 => data_'[page[u] + 1] = data_[page[u] + 1] BY Zenon, <1>5, <2>1
  <2> QED BY <1>1, <1>2, <1>3, <2>2 DEF Copied
<1> QED BY Zenon, <1>1, <1>6, <1>7, <1>8, <1>9, RingStays DEF MemoryInv

(* What a thread has copied stays while it does not move. *)
LEMMA CopiedStays ==
  ASSUME NEW u \in Callers, Copied(u), UNCHANGED <<data_, kind, page, value, stored>>,
         half'[u] = half[u], phase'[u] = phase[u], buffer'[u] = buffer[u]
  PROVE  Copied(u)'
<1>1. (kind[u] = "write" /\ half[u] = 2 => data_[page[u] + 1][1] = value[u])' BY Zenon DEF Copied
<1>2. (kind[u] = "read" /\ half[u] = 2 => buffer[u][1] = stored[page[u]])' BY Zenon DEF Copied
<1>3. (kind[u] = "read" /\ phase[u] = "post" => buffer[u] = Whole(stored[page[u]]))' BY Zenon DEF Copied
<1> QED BY Zenon, <1>1, <1>2, <1>3 DEF Copied

(* LockPage gives mutex_ up for the page's lock. *)
LEMMA LockPageKeeps ==
  ASSUME MemoryInv, NEW t \in Callers, LockPage(t)
  PROVE  MemoryInv'
<1>1. /\ phase[t] = "page" /\ mutex_' = NoCaller /\ phase' = [phase EXCEPT ![t] = "copy"]
      /\ UNCHANGED <<data_, kind, page, value, half, buffer, stored>>
      /\ UNCHANGED ring
  BY Zenon DEF LockPage, Enter, access
<1>2. MemoryTyped /\ LocksHeld /\ PagesStored /\ \A u \in Callers : Copied(u) BY Zenon DEF MemoryInv
<1>3. phase'[t] = "copy" /\ \A u \in Callers : u # t => phase'[u] = phase[u]
  BY Zenon, <1>1, <1>2 DEF MemoryTyped
<1>4. page[t] \in DiskPages /\ half[t] # 2 /\ t # NoCaller
  BY <1>1, <1>2, MemoryAssumption DEF MemoryTyped, LocksHeld
<1>5. ASSUME kind[t] = "write", page_w[page[t]] = NoCaller, page_r[page[t]] = {},
             page_w' = [page_w EXCEPT ![page[t]] = t], UNCHANGED page_r
      PROVE  MemoryTyped' /\ LocksHeld' /\ PagesStored'
  <2>1. page_w'[page[t]] = t /\ \A q \in DiskPages : q # page[t] => page_w'[q] = page_w[q]
    BY Zenon, <1>2, <1>4, <1>5 DEF MemoryTyped
  <2>2. MemoryTyped' BY Zenon, <1>1, <1>2, <1>5 DEF MemoryTyped, Holding
  <2>3. LocksHeld' BY <1>1, <1>2, <1>3, <1>4, <1>5, <2>1, MemoryAssumption DEF LocksHeld, Holding
  <2>4. PagesStored'
    <3>1. \A u \in Callers : phase'[u] \in Holding \cup {"page"} => phase[u] \in Holding \cup {"page"}
      BY Zenon, <1>1, <1>3
    <3>2. \A u \in Callers : phase'[u] \in Holding \cup {"page"} => Present(page[u])'
      BY Zenon, <1>1, <1>2, <3>1 DEF PagesStored, Present
    <3>3. \A q \in DiskPages : page_w[q] # NoCaller => page_w'[q] = page_w[q] BY Zenon, <1>5, <2>1
    <3>4. ASSUME NEW q \in DiskPages
          PROVE  /\ ~Present(q)' => stored'[q] = ZeroPage
                 /\ Present(q)' => \/ data_'[q + 1] = Whole(stored'[q])
                                   \/ page_w'[q] # NoCaller /\ half'[page_w'[q]] = 2
      <4>1. Present(q)' <=> Present(q) BY Zenon, <1>1 DEF Present
      <4>2. /\ ~Present(q) => stored[q] = ZeroPage
            /\ Present(q) => \/ data_[q + 1] = Whole(stored[q])
                             \/ page_w[q] # NoCaller /\ half[page_w[q]] = 2
        BY Zenon, <1>2 DEF PagesStored
      <4>3. stored' = stored /\ data_' = data_ /\ half' = half BY Zenon, <1>1
      <4> QED BY Zenon, <3>3, <4>1, <4>2, <4>3
    <3> QED BY Zenon, <3>2, <3>4 DEF PagesStored
  <2> QED BY Zenon, <2>2, <2>3, <2>4
<1>6. ASSUME kind[t] = "read", page_w[page[t]] = NoCaller,
             page_r' = [page_r EXCEPT ![page[t]] = @ \cup {t}], UNCHANGED page_w
      PROVE  MemoryTyped' /\ LocksHeld' /\ PagesStored'
  <2>1. /\ page_r'[page[t]] = page_r[page[t]] \cup {t}
        /\ \A q \in DiskPages : q # page[t] => page_r'[q] = page_r[q]
    BY Zenon, <1>2, <1>4, <1>6 DEF MemoryTyped
  <2>2. MemoryTyped' BY Zenon, <1>1, <1>2, <1>4, <1>6 DEF MemoryTyped, Holding
  <2>3. LocksHeld' BY <1>1, <1>2, <1>3, <1>4, <1>6, <2>1, MemoryAssumption DEF LocksHeld, Holding
  <2>4. PagesStored' BY Zenon, <1>1, <1>2, <1>3, <1>6 DEF PagesStored, Present, Holding
  <2> QED BY Zenon, <2>2, <2>3, <2>4
<1>7. \A u \in Callers : Copied(u)' BY Zenon, <1>1, <1>2, <1>3 DEF Copied
<1>8. MemoryTyped' /\ LocksHeld' /\ PagesStored' BY Zenon, <1>5, <1>6 DEF LockPage, MayRead
<1> QED BY Zenon, <1>1, <1>7, <1>8, RingStays DEF MemoryInv

(* Half of memcpy into the page: no thread reads it meanwhile, and after the *)
(* second half the page is wholly the new one.                               *)
LEMMA CopyInKeeps ==
  ASSUME MemoryInv, NEW t \in Callers, Copy(t), CopyIn(t)
  PROVE  MemoryInv'
<1> DEFINE p == page[t]
           h == half[t]
<1>1. /\ phase[t] = "copy" /\ kind[t] = "write"
      /\ data_' = [data_ EXCEPT ![p + 1][h] = value[t]]
      /\ stored' = IF h = 2 THEN [stored EXCEPT ![p] = value[t]] ELSE stored
      /\ UNCHANGED <<mutex_, page_w, page_r, kind, page, value, buffer>>
      /\ UNCHANGED ring
  BY Zenon DEF Copy, CopyIn, locks, access
<1>2. MemoryTyped /\ LocksHeld /\ PagesStored /\ \A u \in Callers : Copied(u) BY Zenon DEF MemoryInv
<1>3. /\ p \in DiskPages /\ p \in Nat /\ h \in Halves /\ value[t] \in Contents \cup {ZeroPage}
      /\ data_ \in Seq(PageData) /\ Len(data_) \in Nat
  BY <1>2, MemoryAssumption DEF MemoryTyped, DiskPages
<1>4. /\ half' = [half EXCEPT ![t] = IF h = 1 THEN 2 ELSE 1]
      /\ phase' = [phase EXCEPT ![t] = IF h = 1 THEN "copy" ELSE "load"]
  BY Zenon, <1>1, <1>2 DEF Copy, Enter, MemoryTyped
<1>5. /\ half'[t] = (IF h = 1 THEN 2 ELSE 1) /\ phase'[t] = (IF h = 1 THEN "copy" ELSE "load")
      /\ \A u \in Callers : u # t => half'[u] = half[u] /\ phase'[u] = phase[u]
  BY Zenon, <1>2, <1>4 DEF MemoryTyped
<1>6. page_w[p] = t /\ page_r[p] = {} /\ t # NoCaller /\ Present(p)
  BY <1>1, <1>2, <1>3, MemoryAssumption DEF LocksHeld, PagesStored, Holding
<1>7. p + 1 \in 1..Len(data_) /\ data_[p + 1] \in PageData BY <1>3, <1>6 DEF Present
<1>8. /\ data_' \in Seq(PageData) /\ Len(data_') = Len(data_)
      /\ data_'[p + 1] = [data_[p + 1] EXCEPT ![h] = value[t]]
      /\ \A q \in DiskPages : q # p /\ q < Len(data_) => data_'[q + 1] = data_[q + 1]
  <2>1. [data_[p + 1] EXCEPT ![h] = value[t]] \in PageData BY Zenon, <1>3, <1>7 DEF PageData
  <2>2. data_' = [data_ EXCEPT ![p + 1] = [data_[p + 1] EXCEPT ![h] = value[t]]] BY Zenon, <1>1, <1>7
  <2>3. /\ data_' \in Seq(PageData) /\ Len(data_') = Len(data_)
        /\ \A i \in 1..Len(data_) : data_'[i] = IF i = p + 1 THEN [data_[p + 1] EXCEPT ![h] = value[t]]
                                                ELSE data_[i]
    BY <1>3, <1>7, <2>1, <2>2
  <2>4. \A q \in DiskPages : q \in Nat BY MemoryAssumption DEF DiskPages
  <2>5. \A q \in DiskPages : q # p /\ q < Len(data_) => q + 1 \in 1..Len(data_) /\ q + 1 # p + 1
    BY <1>3, <2>4
  <2> QED BY <1>7, <2>3, <2>5
<1>9. data_'[p + 1][h] = value[t] /\ value[t] # "nullptr"
  BY Zenon, <1>3, <1>7, <1>8, MemoryAssumption DEF PageData, ZeroPage
<1>10. Present(p)' /\ \A q \in DiskPages : q # p => Present(q)' = Present(q)
  <2>1. NullPage[h] = "nullptr" BY Zenon, <1>3 DEF NullPage, Whole
  <2>2. \A q \in DiskPages : q \in Nat BY MemoryAssumption DEF DiskPages
  <2> QED BY Zenon, <1>1, <1>3, <1>6, <1>8, <1>9, <2>1, <2>2 DEF Present
<1>11. h = 2 => data_'[p + 1] = Whole(value[t])
  <2> SUFFICES ASSUME h = 2 PROVE data_'[p + 1] = Whole(value[t]) BY Zenon
  <2>1. data_[p + 1][1] = value[t] BY Zenon, <1>1, <1>2 DEF Copied
  <2>2. \A i \in Halves : i = 1 \/ i = 2 BY DEF Halves
  <2>3. \A i \in Halves : data_'[p + 1][i] = value[t] BY Zenon, <1>3, <1>7, <1>8, <2>1, <2>2 DEF PageData
  <2> QED BY Zenon, <1>7, <1>8, <2>3 DEF PageData, Whole
<1>12. MemoryTyped'
  <2>1. stored' \in [DiskPages -> Contents \cup {ZeroPage}] BY Zenon, <1>1, <1>2, <1>3 DEF MemoryTyped
  <2>2. half' \in [Callers -> Halves] BY <1>2, <1>4 DEF MemoryTyped, Halves
  <2>3. phase' \in [Callers -> {"idle", "mutex", "page"} \cup Holding]
    BY Zenon, <1>2, <1>4 DEF MemoryTyped, Holding
  <2> QED BY Zenon, <1>1, <1>2, <1>8, <2>1, <2>2, <2>3 DEF MemoryTyped
<1>13. LocksHeld'
  <2>1. \A u \in Callers : half'[u] = 2 => phase'[u] = "copy"
    <3>1. \A u \in Callers : half[u] = 2 => phase[u] = "copy" BY Zenon, <1>2 DEF LocksHeld
    <3> QED BY <1>5, <3>1
  <2>2. \A u \in Callers : phase'[u] \in Holding <=> phase[u] \in Holding BY Zenon, <1>1, <1>5 DEF Holding
  <2>3. \A u \in Callers : phase'[u] = "page" <=> phase[u] = "page" BY Zenon, <1>1, <1>5
  <2>4. \A u \in Callers : phase'[u] \in {"load", "store"} => kind[u] = "write"
    BY Zenon, <1>1, <1>2, <1>5 DEF LocksHeld
  <2>5. UNCHANGED <<mutex_, page_w, page_r, kind, page>> BY Zenon, <1>1
  <2> QED BY Zenon, <1>2, <2>1, <2>2, <2>3, <2>4, <2>5, LocksStay
<1>14. PagesStored'
  <2>1. ASSUME NEW u \in Callers, phase'[u] \in Holding \cup {"page"} PROVE Present(page[u])'
    <3>1. phase[u] \in Holding \cup {"page"} BY Zenon, <1>1, <1>5, <2>1 DEF Holding
    <3>2. Present(page[u]) /\ page[u] \in DiskPages BY Zenon, <1>2, <3>1 DEF PagesStored, MemoryTyped
    <3> QED BY Zenon, <1>1, <1>10, <3>2 DEF Present
  <2>2. ASSUME NEW q \in DiskPages
        PROVE  /\ ~Present(q)' => stored'[q] = ZeroPage
               /\ Present(q)' => \/ data_'[q + 1] = Whole(stored'[q])
                                 \/ page_w'[q] # NoCaller /\ half'[page_w'[q]] = 2
    <3>1. CASE q = p
      <4>1. h = 2 => stored'[p] = value[t] BY Zenon, <1>1, <1>2, <1>3 DEF MemoryTyped
      <4>2. h = 1 \/ h = 2 BY <1>3 DEF Halves
      <4> QED BY Zenon, <1>1, <1>5, <1>6, <1>10, <1>11, <3>1, <4>1, <4>2
    <3>2. CASE q # p
      <4>1. stored'[q] = stored[q] BY Zenon, <1>1, <1>2, <1>3, <3>2 DEF MemoryTyped
      <4>2. page_w[q] # t BY <1>2, <3>2 DEF LocksHeld
      <4>3. page_w[q] # NoCaller => half'[page_w[q]] = half[page_w[q]]
        BY Zenon, <1>2, <1>5, <4>2 DEF MemoryTyped
      <4>4. Present(q) => data_'[q + 1] = data_[q + 1] BY Zenon, <1>8, <3>2 DEF Present
      <4> QED BY Zenon, <1>1, <1>2, <1>10, <3>2, <4>1, <4>3, <4>4 DEF PagesStored
    <3> QED BY Zenon, <3>1, <3>2
  <2> QED BY Zenon, <2>1, <2>2 DEF PagesStored
<1>15. ASSUME NEW u \in Callers PROVE Copied(u)'
  <2>1. CASE u = t
    <3>1. half'[t] = 2 => h = 1 BY <1>3, <1>5 DEF Halves
    <3> QED BY Zenon, <1>1, <1>5, <1>9, <2>1, <3>1 DEF Copied
  <2>2. CASE u # t
    <3>1. page[u] \in DiskPages BY Zenon, <1>2 DEF MemoryTyped
    <3>2. half[u] = 2 => phase[u] = "copy" BY Zenon, <1>2 DEF LocksHeld
    <3>3. phase[u] \in {"copy", "post"} => page[u] # p /\ Present(page[u])
      BY <1>2, <1>6, <2>2, <3>1 DEF LocksHeld, Holding, PagesStored, MemoryTyped
    <3>4. page[u] # p => stored'[page[u]] = stored[page[u]] BY Zenon, <1>1, <1>2, <1>3, <3>1 DEF MemoryTyped
    <3>5. half[u] = 2 => data_'[page[u] + 1] = data_[page[u] + 1] BY Zenon, <1>8, <3>1, <3>2, <3>3 DEF Present
    <3> QED BY <1>1, <1>2, <1>5, <2>2, <3>2, <3>3, <3>4, <3>5 DEF Copied
  <2> QED BY Zenon, <2>1, <2>2
<1> QED BY Zenon, <1>1, <1>12, <1>13, <1>14, <1>15, RingStays DEF MemoryInv

(* Half of memcpy out of the page: no thread writes it meanwhile. *)
LEMMA CopyOutKeeps ==
  ASSUME MemoryInv, NEW t \in Callers, Copy(t), CopyOut(t)
  PROVE  MemoryInv'
<1> DEFINE p == page[t]
           h == half[t]
<1>1. /\ phase[t] = "copy" /\ kind[t] = "read"
      /\ buffer' = [buffer EXCEPT ![t][h] = data_[p + 1][h]]
      /\ UNCHANGED <<data_, stored, mutex_, page_w, page_r, kind, page, value>>
      /\ UNCHANGED ring
  BY Zenon DEF Copy, CopyOut, locks, access
<1>2. MemoryTyped /\ LocksHeld /\ PagesStored /\ \A u \in Callers : Copied(u) BY Zenon DEF MemoryInv
<1>3. p \in DiskPages /\ h \in Halves /\ buffer[t] \in PageData BY Zenon, <1>2 DEF MemoryTyped
<1>4. /\ half' = [half EXCEPT ![t] = IF h = 1 THEN 2 ELSE 1]
      /\ phase' = [phase EXCEPT ![t] = IF h = 1 THEN "copy" ELSE "post"]
  BY Zenon, <1>1, <1>2 DEF Copy, Enter, MemoryTyped
<1>5. /\ half'[t] = (IF h = 1 THEN 2 ELSE 1) /\ phase'[t] = (IF h = 1 THEN "copy" ELSE "post")
      /\ \A u \in Callers : u # t => half'[u] = half[u] /\ phase'[u] = phase[u]
  BY Zenon, <1>2, <1>4 DEF MemoryTyped
<1>6. t \in page_r[p] /\ page_w[p] = NoCaller /\ Present(p)
  BY Zenon, <1>1, <1>2, <1>3 DEF LocksHeld, PagesStored, Holding
<1>7. data_[p + 1] = Whole(stored[p]) BY Zenon, <1>2, <1>3, <1>6 DEF PagesStored
<1>8. /\ data_[p + 1][h] = stored[p] /\ stored[p] \in Contents \cup {ZeroPage}
  BY Zenon, <1>2, <1>3, <1>7 DEF Whole, MemoryTyped
<1>9. /\ buffer'[t] = [buffer[t] EXCEPT ![h] = stored[p]] /\ buffer'[t] \in PageData
      /\ \A u \in Callers : u # t => buffer'[u] = buffer[u]
      /\ buffer' \in [Callers -> PageData]
  <2>1. [buffer[t] EXCEPT ![h] = stored[p]] \in PageData BY Zenon, <1>3, <1>8 DEF PageData
  <2>2. buffer' = [buffer EXCEPT ![t] = [buffer[t] EXCEPT ![h] = stored[p]]]
    BY Zenon, <1>1, <1>2, <1>8 DEF MemoryTyped
  <2> QED BY Zenon, <1>2, <2>1, <2>2 DEF MemoryTyped
<1>10. MemoryTyped'
  <2>1. half' \in [Callers -> Halves] BY <1>2, <1>4 DEF MemoryTyped, Halves
  <2>2. phase' \in [Callers -> {"idle", "mutex", "page"} \cup Holding]
    BY Zenon, <1>2, <1>4 DEF MemoryTyped, Holding
  <2> QED BY Zenon, <1>1, <1>2, <1>9, <2>1, <2>2 DEF MemoryTyped
<1>11. LocksHeld'
  <2>1. \A u \in Callers : half'[u] = 2 => phase'[u] = "copy"
    <3>1. \A u \in Callers : half[u] = 2 => phase[u] = "copy" BY Zenon, <1>2 DEF LocksHeld
    <3> QED BY <1>5, <3>1
  <2>2. \A u \in Callers : phase'[u] \in Holding <=> phase[u] \in Holding BY Zenon, <1>1, <1>5 DEF Holding
  <2>3. \A u \in Callers : phase'[u] = "page" <=> phase[u] = "page" BY Zenon, <1>1, <1>5
  <2>4. \A u \in Callers : phase'[u] \in {"load", "store"} => kind[u] = "write"
    BY Zenon, <1>1, <1>2, <1>5 DEF LocksHeld
  <2>5. UNCHANGED <<mutex_, page_w, page_r, kind, page>> BY Zenon, <1>1
  <2> QED BY Zenon, <1>2, <2>1, <2>2, <2>3, <2>4, <2>5, LocksStay
<1>12. PagesStored'
  <2>1. \A u \in Callers : phase'[u] \in Holding \cup {"page"} => phase[u] \in Holding \cup {"page"}
    BY Zenon, <1>1, <1>5 DEF Holding
  <2>2. \A q \in DiskPages : page_w[q] # t BY Zenon, <1>1, <1>2 DEF LocksHeld
  <2>3. \A q \in DiskPages : page_w[q] # NoCaller => half'[page_w[q]] = half[page_w[q]]
    BY <1>2, <1>5, <2>2 DEF MemoryTyped
  <2> QED BY Zenon, <1>1, <1>2, <2>1, <2>3 DEF PagesStored, Present
<1>13. ASSUME NEW u \in Callers PROVE Copied(u)'
  <2>1. CASE u = t
    <3>1. half'[t] = 2 => buffer'[t][1] = stored[p] BY <1>3, <1>5, <1>9 DEF PageData, Halves
    <3>2. phase'[t] = "post" => buffer'[t] = Whole(stored[p])
      <4> SUFFICES ASSUME h = 2 PROVE buffer'[t] = Whole(stored[p]) BY <1>3, <1>5 DEF Halves
      <4>1. buffer[t][1] = stored[p] BY Zenon, <1>1, <1>2 DEF Copied
      <4>2. \A i \in Halves : i = 1 \/ i = 2 BY DEF Halves
      <4>3. \A i \in Halves : buffer'[t][i] = stored[p] BY Zenon, <1>3, <1>9, <4>1, <4>2 DEF PageData
      <4> QED BY Zenon, <1>9, <4>3 DEF PageData, Whole
    <3> QED BY Zenon, <1>1, <2>1, <3>1, <3>2 DEF Copied
  <2>2. CASE u # t
    <3>1. half'[u] = half[u] /\ phase'[u] = phase[u] /\ buffer'[u] = buffer[u] BY Zenon, <1>5, <1>9, <2>2
    <3> QED BY Zenon, <1>1, <1>2, <3>1, CopiedStays
  <2> QED BY Zenon, <2>1, <2>2
<1> QED BY Zenon, <1>1, <1>10, <1>11, <1>12, <1>13, RingStays DEF MemoryInv

(* Counting the write and noting the thread touch no page and no lock. *)
LEMMA CountKeeps ==
  ASSUME MemoryInv, NEW t \in Callers, CountLoad(t) \/ CountStore(t)
  PROVE  MemoryInv'
<1>1. /\ phase[t] \in {"load", "store"}
      /\ \/ phase' = [phase EXCEPT ![t] = "store"]
         \/ phase[t] = "store" /\ phase' = [phase EXCEPT ![t] = "post"]
      /\ UNCHANGED <<data_, stored, mutex_, page_w, page_r, kind, page, value, half, buffer>>
      /\ UNCHANGED ring
  BY Zenon DEF CountLoad, CountStore, Enter, locks, access
<1>2. MemoryTyped /\ LocksHeld /\ PagesStored /\ \A u \in Callers : Copied(u) BY Zenon DEF MemoryInv
<1>3. /\ phase'[t] \in {"store", "post"}
      /\ \A u \in Callers : u # t => phase'[u] = phase[u]
      /\ phase' \in [Callers -> {"idle", "mutex", "page"} \cup Holding]
  BY Zenon, <1>1, <1>2 DEF MemoryTyped, Holding
<1>4. kind[t] = "write" /\ half[t] # 2 BY Zenon, <1>1, <1>2 DEF LocksHeld
<1>5. MemoryTyped' BY Zenon, <1>1, <1>2, <1>3 DEF MemoryTyped
<1>6. LocksHeld'
  <2>1. \A u \in Callers : /\ phase'[u] \in Holding <=> phase[u] \in Holding
                           /\ phase'[u] = "page" <=> phase[u] = "page"
                           /\ phase'[u] \in {"load", "store"} => kind[u] = "write"
                           /\ half[u] = 2 => phase'[u] = "copy"
    <3>1. \A u \in Callers : /\ half[u] = 2 => phase[u] = "copy"
                             /\ phase[u] \in {"load", "store"} => kind[u] = "write"
      BY Zenon, <1>2 DEF LocksHeld
    <3>2. /\ phase[t] \in Holding /\ phase'[t] \in Holding /\ phase[t] # "page" /\ phase'[t] # "page"
      BY Zenon, <1>1, <1>3 DEF Holding
    <3> QED BY Zenon, <1>3, <1>4, <3>1, <3>2
  <2>2. UNCHANGED <<mutex_, page_w, page_r, kind, page>> /\ half' = half BY Zenon, <1>1
  <2> QED BY Zenon, <1>2, <2>1, <2>2, LocksStay
<1>7. PagesStored' BY Zenon, <1>1, <1>2, <1>3 DEF PagesStored, Present, Holding
<1>8. \A u \in Callers : Copied(u)' BY Zenon, <1>1, <1>2, <1>3, <1>4 DEF Copied
<1> QED BY Zenon, <1>1, <1>5, <1>6, <1>7, <1>8, RingStays DEF MemoryInv

(* A position of the ring counted back from the next one to be written. *)
LEMMA BackInRing ==
  ASSUME NEW i \in 0..(RingSize - 1), NEW back \in 1..RingSize
  PROVE  /\ (i - back) % RingSize = IF back <= i THEN i - back ELSE i - back + RingSize
         /\ NextPtr(i) = IF i + 1 = RingSize THEN 0 ELSE i + 1
<1>1. RingSize \in Nat /\ RingSize > 0 BY MemoryAssumption
<1>2. \A n \in Int : n >= 0 /\ n < RingSize => n % RingSize = n BY <1>1
<1>3. \A n \in Int : n < 0 /\ n >= -RingSize => n % RingSize = n + RingSize BY <1>1
<1>4. RingSize % RingSize = 0 BY <1>1
<1> QED BY <1>1, <1>2, <1>3, <1>4 DEF NextPtr

(* PostProcessLatency records the page where the ring pointer stands, which  *)
(* is RingSize back from there, and so forgets the oldest access only.       *)
LEMMA RingKept ==
  ASSUME MemoryInv, NEW t \in Callers, PostProcessLatency(t)
  PROVE  RingTyped' /\ RingIsRecent'
<1> DEFINE i == access_ptr_
           n == Len(accessed)
<1>1. /\ recent_access_' = [recent_access_ EXCEPT ![i] = page[t]]
      /\ access_ptr_' = NextPtr(i) /\ accessed' = Append(accessed, page[t])
  BY Zenon DEF PostProcessLatency
<1>2. /\ RingTyped /\ RingIsRecent /\ page[t] \in DiskPages /\ page[t] \in Int
  BY MemoryAssumption DEF MemoryInv, MemoryTyped, DiskPages
<1>3. /\ RingSize \in Nat /\ RingSize > 0 /\ i \in 0..(RingSize - 1) /\ n \in Nat
      /\ accessed \in Seq(DiskPages)
  BY <1>2, MemoryAssumption DEF RingTyped
<1>4. NextPtr(i) = (IF i + 1 = RingSize THEN 0 ELSE i + 1) /\ NextPtr(i) \in 0..(RingSize - 1)
  BY <1>3, BackInRing
<1>5. /\ Len(accessed') = n + 1 /\ accessed'[n + 1] = page[t] /\ accessed' \in Seq(DiskPages)
      /\ \A k \in 1..n : accessed'[k] = accessed[k]
  BY <1>1, <1>2, <1>3
<1>6. RingTyped' BY Zenon, <1>1, <1>2, <1>4, <1>5 DEF RingTyped
<1>7. ASSUME NEW back \in 1..RingSize
      PROVE  recent_access_'[(access_ptr_' - back) % RingSize] =
               IF back <= Len(accessed') THEN accessed'[Len(accessed') + 1 - back] ELSE -1
  <2>1. (NextPtr(i) - back) % RingSize =
          IF back <= NextPtr(i) THEN NextPtr(i) - back ELSE NextPtr(i) - back + RingSize
    BY Zenon, <1>4, BackInRing
  <2>2. CASE back = 1
    <3>1. (NextPtr(i) - back) % RingSize = i BY <1>3, <1>4, <2>1, <2>2
    <3>2. recent_access_'[i] = page[t] BY Zenon, <1>1, <1>2 DEF RingTyped
    <3> QED BY <1>1, <1>3, <1>5, <2>2, <3>1, <3>2
  <2>3. CASE back # 1
    <3>1. back - 1 \in 1..RingSize /\ back - 1 # RingSize BY <1>3, <2>3
    <3>2. (i - (back - 1)) % RingSize =
            IF back - 1 <= i THEN i - (back - 1) ELSE i - (back - 1) + RingSize
      BY Zenon, <1>3, <3>1, BackInRing
    <3>3. /\ (NextPtr(i) - back) % RingSize = (i - (back - 1)) % RingSize
          /\ (i - (back - 1)) % RingSize # i /\ (i - (back - 1)) % RingSize \in 0..(RingSize - 1)
      BY <1>3, <1>4, <2>1, <3>1, <3>2
    <3>4. recent_access_'[(i - (back - 1)) % RingSize] = recent_access_[(i - (back - 1)) % RingSize]
      BY Zenon, <1>1, <1>2, <3>3 DEF RingTyped
    <3>5. recent_access_[(i - (back - 1)) % RingSize] =
            IF back - 1 <= n THEN accessed[n + 1 - (back - 1)] ELSE -1
      BY Zenon, <1>2, <3>1 DEF RingIsRecent
    <3>6. back - 1 <= n => accessed'[n + 2 - back] = accessed[n + 1 - (back - 1)]
      BY <1>3, <1>5, <3>1
    <3> QED BY <1>1, <1>3, <1>5, <3>1, <3>3, <3>4, <3>5, <3>6
  <2> QED BY Zenon, <2>2, <2>3
<1> QED BY Zenon, <1>6, <1>7 DEF RingIsRecent

(* The call returns and gives the page's lock up. *)
LEMMA PostKeeps ==
  ASSUME MemoryInv, NEW t \in Callers, PostProcessLatency(t)
  PROVE  MemoryInv'
<1> DEFINE p == page[t]
<1>1. /\ phase[t] = "post" /\ phase' = [phase EXCEPT ![t] = "idle"]
      /\ page_w' = [page_w EXCEPT ![p] = IF @ = t THEN NoCaller ELSE @]
      /\ page_r' = [page_r EXCEPT ![p] = @ \ {t}]
      /\ kind' = [kind EXCEPT ![t] = "read"] /\ page' = [page EXCEPT ![t] = 0]
      /\ value' = [value EXCEPT ![t] = ZeroPage] /\ buffer' = [buffer EXCEPT ![t] = Whole(ZeroPage)]
      /\ UNCHANGED <<data_, mutex_, half, stored>>
  BY Zenon DEF PostProcessLatency, Enter
<1>2. MemoryTyped /\ LocksHeld /\ PagesStored /\ \A u \in Callers : Copied(u) BY Zenon DEF MemoryInv
<1>3. /\ phase'[t] = "idle" /\ half[t] # 2
      /\ \A u \in Callers : u # t => /\ phase'[u] = phase[u] /\ kind'[u] = kind[u]
                                     /\ page'[u] = page[u] /\ value'[u] = value[u]
                                     /\ buffer'[u] = buffer[u]
  BY <1>1, <1>2 DEF MemoryTyped, LocksHeld
<1>4. /\ p \in DiskPages /\ t # NoCaller /\ 0 \in DiskPages
      /\ page_w'[p] = (IF page_w[p] = t THEN NoCaller ELSE page_w[p]) /\ page_r'[p] = page_r[p] \ {t}
      /\ \A q \in DiskPages : q # p => page_w'[q] = page_w[q] /\ page_r'[q] = page_r[q]
  <2>1. 0 \in DiskPages BY MemoryAssumption DEF DiskPages
  <2> QED BY Zenon, <1>1, <1>2, <2>1, MemoryAssumption DEF MemoryTyped
<1>5. MemoryTyped'
  <2>1. Whole(ZeroPage) \in PageData BY DEF Whole, PageData
  <2> QED BY Zenon, <1>1, <1>2, <1>4, <2>1 DEF MemoryTyped
<1>6. LocksHeld'
  <2>1. \A u \in Callers, q \in DiskPages :
          /\ page_w'[q] = u <=> phase'[u] \in Holding /\ kind'[u] = "write" /\ page'[u] = q
          /\ u \in page_r'[q] <=> phase'[u] \in Holding /\ kind'[u] = "read" /\ page'[u] = q
    <3> SUFFICES ASSUME NEW u \in Callers, NEW q \in DiskPages
                 PROVE  /\ page_w'[q] = u <=> phase'[u] \in Holding /\ kind'[u] = "write" /\ page'[u] = q
                        /\ u \in page_r'[q] <=> phase'[u] \in Holding /\ kind'[u] = "read" /\ page'[u] = q
      BY Zenon
    <3>1. /\ page_w[q] = u <=> phase[u] \in Holding /\ kind[u] = "write" /\ page[u] = q
          /\ u \in page_r[q] <=> phase[u] \in Holding /\ kind[u] = "read" /\ page[u] = q
      BY Zenon, <1>2 DEF LocksHeld
    <3>2. CASE u = t
      <4>1. page_w'[q] # t /\ t \notin page_r'[q] BY Zenon, <1>4, <3>1, <3>2
      <4> QED BY Zenon, <1>3, <3>2, <4>1 DEF Holding
    <3>3. CASE u # t
      <4>1. u # NoCaller BY Zenon, MemoryAssumption
      <4> QED BY Zenon, <1>3, <1>4, <3>1, <3>3, <4>1
    <3> QED BY Zenon, <3>2, <3>3
  <2>2. \A q \in DiskPages : page_w'[q] # NoCaller => page_r'[q] = {}
    <3> SUFFICES ASSUME NEW q \in DiskPages, page_w'[q] # NoCaller PROVE page_r'[q] = {} BY Zenon
    <3>1. page_w[q] # NoCaller BY Zenon, <1>4
    <3>2. page_r[q] = {} BY Zenon, <1>2, <3>1 DEF LocksHeld
    <3> QED BY Zenon, <1>4, <3>2
  <2>3. /\ \A u \in Callers : mutex_' = u <=> phase'[u] = "page"
        /\ \A u \in Callers : half'[u] = 2 => phase'[u] = "copy"
        /\ \A u \in Callers : phase'[u] \in {"load", "store"} => kind'[u] = "write"
    <3>1. /\ \A u \in Callers : mutex_ = u <=> phase[u] = "page"
          /\ \A u \in Callers : half[u] = 2 => phase[u] = "copy"
          /\ \A u \in Callers : phase[u] \in {"load", "store"} => kind[u] = "write"
      BY Zenon, <1>2 DEF LocksHeld
    <3>2. mutex_' = mutex_ /\ half' = half /\ phase[t] = "post" BY Zenon, <1>1
    <3>3. phase'[t] = "idle" /\ half[t] # 2 BY Zenon, <1>3
    <3>4. \A u \in Callers : u # t => phase'[u] = phase[u] /\ kind'[u] = kind[u] BY Zenon, <1>3
    <3>5. ASSUME NEW u \in Callers
          PROVE  /\ mutex_' = u <=> phase'[u] = "page"
                 /\ half'[u] = 2 => phase'[u] = "copy"
                 /\ phase'[u] \in {"load", "store"} => kind'[u] = "write"
      <4>1. CASE u = t
        <5>1. mutex_ # t BY Zenon, <3>1, <3>2
        <5> QED BY Zenon, <3>2, <3>3, <4>1, <5>1
      <4>2. CASE u # t BY Zenon, <3>1, <3>2, <3>4, <4>2
      <4> QED BY Zenon, <4>1, <4>2
    <3> QED BY Zenon, <3>5
  <2> QED BY Zenon, <2>1, <2>2, <2>3 DEF LocksHeld
<1>7. PagesStored'
  <2>1. \A u \in Callers : phase'[u] \in Holding \cup {"page"} => Present(page[u])'
    BY Zenon, <1>1, <1>2, <1>3 DEF PagesStored, Present, Holding
  <2>2. ASSUME NEW q \in DiskPages
        PROVE  /\ ~Present(q)' => stored'[q] = ZeroPage
               /\ Present(q)' => \/ data_'[q + 1] = Whole(stored'[q])
                                 \/ page_w'[q] # NoCaller /\ half'[page_w'[q]] = 2
    <3>1. page_w[q] = t \/ page_w'[q] = page_w[q] BY Zenon, <1>4
    <3>2. /\ ~Present(q) => stored[q] = ZeroPage
          /\ Present(q) => \/ data_[q + 1] = Whole(stored[q])
                           \/ page_w[q] # NoCaller /\ half[page_w[q]] = 2
      BY Zenon, <1>2 DEF PagesStored
    <3> QED BY Zenon, <1>1, <1>3, <3>1, <3>2 DEF Present
  <2> QED BY Zenon, <2>1, <2>2 DEF PagesStored
<1>8. \A u \in Callers : Copied(u)'
  <2>1. half' = half /\ data_' = data_ /\ stored' = stored BY Zenon, <1>1
  <2>2. ASSUME NEW u \in Callers PROVE Copied(u)'
    <3>1. CASE u = t
      <4>1. half'[u] # 2 /\ phase'[u] # "post" BY Zenon, <1>3, <2>1, <3>1
      <4> QED BY Zenon, <4>1 DEF Copied
    <3>2. CASE u # t
      <4>1. Copied(u) BY Zenon, <1>2
      <4>2. /\ phase'[u] = phase[u] /\ kind'[u] = kind[u] /\ page'[u] = page[u]
            /\ value'[u] = value[u] /\ buffer'[u] = buffer[u]
        BY Zenon, <1>3, <3>2
      <4> QED BY Zenon, <2>1, <4>1, <4>2 DEF Copied
    <3> QED BY Zenon, <3>1, <3>2
  <2> QED BY Zenon, <2>2
<1> QED BY Zenon, <1>5, <1>6, <1>7, <1>8, RingKept DEF MemoryInv

(* Every step of the memory disk keeps the invariant. *)
LEMMA MemoryStepKeeps == MemoryInv /\ [MemoryNext]_memoryVars => MemoryInv'
<1> SUFFICES ASSUME MemoryInv, [MemoryNext]_memoryVars PROVE MemoryInv' BY Zenon
<1>1. ASSUME NEW t \in Callers, FindPage(t) \/ LockPage(t) \/ Copy(t) \/ CountLoad(t) \/ CountStore(t)
                               \/ PostProcessLatency(t)
      PROVE  MemoryInv'
  BY Zenon, <1>1, FindPageKeeps, LockPageKeeps, CopyInKeeps, CopyOutKeeps, CountKeeps, PostKeeps DEF Copy
<1>2. ASSUME NEW t \in Callers, NEW p \in DiskPages, Access(t, "read", p, ZeroPage) PROVE MemoryInv'
  BY Zenon, <1>2, AccessKeeps
<1>3. ASSUME NEW t \in Callers, NEW p \in DiskPages, NEW v \in Contents, Access(t, "write", p, v)
      PROVE  MemoryInv'
  BY Zenon, <1>3, AccessKeeps
<1>4. CASE GetLastReadThreadAndClear \/ UNCHANGED memoryVars
  <2>1. /\ UNCHANGED <<data_, stored, mutex_, page_w, page_r, kind, page, value, half, buffer, phase>>
        /\ UNCHANGED ring
    BY Zenon, <1>4 DEF GetLastReadThreadAndClear, memoryVars, locks, access
  <2>2. MemoryTyped' /\ LocksHeld' BY <2>1 DEF MemoryInv, MemoryTyped, LocksHeld
  <2>3. PagesStored' BY Zenon, <2>1 DEF MemoryInv, PagesStored, Present
  <2>4. \A t \in Callers : Copied(t)' BY Zenon, <2>1 DEF MemoryInv, Copied
  <2> QED BY Zenon, <2>1, <2>2, <2>3, <2>4, RingStays DEF MemoryInv
<1> QED BY Zenon, <1>1, <1>2, <1>3, <1>4 DEF MemoryNext

(* A fresh memory disk satisfies it. *)
LEMMA MemoryStarts == MemoryInit => MemoryInv
<1> SUFFICES ASSUME MemoryInit PROVE MemoryInv BY Zenon
<1>1. /\ Capacity + 1 \in Nat /\ 0 \in DiskPages /\ Whole(ZeroPage) \in PageData /\ RingSize \in Nat /\ RingSize > 0
  BY MemoryAssumption DEF DiskPages, PageData, Whole
<1>2. /\ data_ \in Seq(PageData) /\ Len(data_) = Capacity + 1
      /\ \A i \in 1..(Capacity + 1) : data_[i] = Whole(ZeroPage)
  BY <1>1 DEF MemoryInit
<1>3. MemoryTyped
  <2>1. 1 \in Halves BY DEF Halves
  <2> QED BY <1>1, <1>2, <2>1 DEF MemoryInit, MemoryTyped
<1>4. LocksHeld BY MemoryAssumption DEF MemoryInit, LocksHeld, Holding
<1>5. PagesStored
  <2>1. \A p \in DiskPages : p \in Nat BY MemoryAssumption DEF DiskPages
  <2>2. \A p \in DiskPages : p < Len(data_) => data_[p + 1] = Whole(ZeroPage) BY <1>1, <1>2, <2>1
  <2> QED BY Zenon, <2>2 DEF MemoryInit, PagesStored, Present, Holding
<1>6. \A t \in Callers : Copied(t) BY DEF MemoryInit, Copied
<1>7. RingTyped
  <2>1. <<>> \in Seq(DiskPages) OBVIOUS
  <2> QED BY <1>1, <2>1 DEF MemoryInit, RingTyped
<1>8. RingIsRecent
  <2> SUFFICES ASSUME NEW back \in 1..RingSize
               PROVE  recent_access_[(access_ptr_ - back) % RingSize] =
                        IF back <= Len(accessed) THEN accessed[Len(accessed) + 1 - back] ELSE -1
    BY DEF RingIsRecent
  <2>1. 0 \in 0..(RingSize - 1) BY <1>1
  <2>2. (0 - back) % RingSize = (IF back <= 0 THEN 0 - back ELSE 0 - back + RingSize)
    BY <2>1, BackInRing
  <2>3. (0 - back) % RingSize \in 0..(RingSize - 1) BY <1>1, <2>2
  <2>4. access_ptr_ = 0 /\ Len(accessed) = 0 /\ back > 0 BY DEF MemoryInit
  <2> QED BY <2>3, <2>4 DEF MemoryInit
<1> QED BY <1>3, <1>4, <1>5, <1>6, <1>7, <1>8 DEF MemoryInv

(* MemoryAlwaysReadsBack: in DiskManagerUnlimitedMemory, for any number of   *)
(* threads, pages and accesses, ReadPage gives the whole of the page last    *)
(* written although copies are not atomic and data_ grows meanwhile, and     *)
(* recent_access_ names the last accesses.                                   *)
THEOREM MemoryAlwaysReadsBack == MemorySpec => []MemoryReadsBack
<1>1. MemoryInv => MemoryReadsBack BY Zenon DEF MemoryInv, Copied, MemoryReadsBack, ReadsLastWrite
<1> QED BY <1>1, MemoryStarts, MemoryStepKeeps, PTL DEF MemorySpec

-----------------------------------------------------------------------------
(***************************************************************************)
(* The channel, for any producers, consumers and elements: nothing is lost *)
(* or overtaken, and no wakeup is lost.                                    *)
(***************************************************************************)

(* The inductive invariant: NoLostWakeup holds because a consumer joins the *)
(* waiters only while it holds m_ and the queue is empty.                   *)
ChannelInv == TypeOK /\ PopsSomething /\ InOrder /\ NoLostWakeup

(* A new channel is empty, unlocked and has no waiters. *)
LEMMA InitEstablishes == Init => ChannelInv
  BY ChannelAssumption DEF Init, ChannelInv, TypeOK, PopsSomething, InOrder, NoLostWakeup,
                           Threads, NoThread, Labels

(* Pushing at the back of the queue appends to history and queue together. *)
LEMMA PushKeepsOrder ==
  ASSUME NEW a \in Seq(Elements), NEW b \in Seq(Elements), NEW e \in Elements
  PROVE  Append(a \o b, e) = a \o Append(b, e)
  OBVIOUS

(* Taking the head of the queue and appending it to the history is no change. *)
LEMMA PopKeepsOrder ==
  ASSUME NEW S, NEW a \in Seq(S), NEW b \in Seq(S), b # <<>>
  PROVE  /\ Head(b) \in S /\ Tail(b) \in Seq(S)
         /\ a \o b = Append(a, Head(b)) \o Tail(b)
  <1>1. Head(b) \in S /\ Tail(b) \in Seq(S)
    OBVIOUS
  <1>2. Len(a \o b) = Len(Append(a, Head(b)) \o Tail(b))
    BY <1>1
  <1>3. \A i \in 1..Len(a \o b) : (a \o b)[i] = (Append(a, Head(b)) \o Tail(b))[i]
    BY <1>1
  <1> QED
    BY <1>1, <1>2, <1>3

(* The queue and the histories under one step. *)
LEMMA StepKeepsOrder ==
  ASSUME ChannelInv, [Next]_vars
  PROVE  /\ q_' \in Seq(Elements) /\ put' \in Seq(Elements) /\ got' \in Seq(Elements)
         /\ InOrder'
  <1>0. q_ \in Seq(Elements) /\ put \in Seq(Elements) /\ got \in Seq(Elements) /\ put = got \o q_
    BY Zenon DEF ChannelInv, TypeOK, InOrder
  <1>1. ASSUME NEW t \in Producers, NEW e \in Elements, PutPush(t, e)
        PROVE  /\ q_' \in Seq(Elements) /\ put' \in Seq(Elements) /\ got' \in Seq(Elements)
               /\ InOrder'
    <2>1. q_' = Append(q_, e) /\ put' = Append(put, e) /\ got' = got
      BY Zenon, <1>1 DEF PutPush
    <2>2. Append(q_, e) \in Seq(Elements) /\ Append(put, e) \in Seq(Elements)
      BY <1>0
    <2>3. Append(got \o q_, e) = got \o Append(q_, e)
      BY Zenon, <1>0, PushKeepsOrder
    <2> QED
      BY Zenon, <1>0, <2>1, <2>2, <2>3 DEF InOrder
  <1>2. ASSUME NEW t \in Consumers, GetPop(t)
        PROVE  /\ q_' \in Seq(Elements) /\ put' \in Seq(Elements) /\ got' \in Seq(Elements)
               /\ InOrder'
    <2>1. q_ # <<>> /\ q_' = Tail(q_) /\ got' = Append(got, Head(q_)) /\ put' = put
      BY Zenon, <1>2 DEF GetPop, ChannelInv, PopsSomething
    <2>2. /\ Head(q_) \in Elements /\ Tail(q_) \in Seq(Elements)
          /\ got \o q_ = Append(got, Head(q_)) \o Tail(q_)
      BY <1>0, <2>1, PopKeepsOrder, Zenon
    <2>3. Append(got, Head(q_)) \in Seq(Elements)
      BY <1>0, <2>2
    <2> QED
      BY Zenon, <1>0, <2>1, <2>2, <2>3 DEF InOrder
  <1>3. CASE UNCHANGED <<q_, put, got>>
    BY Zenon, <1>0, <1>3 DEF InOrder
  <1> QED
    BY Zenon, <1>1, <1>2, <1>3 DEF Next, PutStep, GetStep, PutLock, PutUnlock, PutNotify, GetLock,
                            GetWait, Spurious, GetRelock, GetTest, vars

(* The lock, the labels and the waiters under one step. *)
LEMMA StepKeepsLock ==
  ASSUME ChannelInv, [Next]_vars
  PROVE  /\ m_' \in Threads \cup {NoThread} /\ waiters' \subseteq Consumers
         /\ pc' \in [Threads -> Labels]
         /\ \A t \in Threads : m_' = t <=> pc'[t] \in {"push", "unlock", "test", "pop"}
         /\ PopsSomething' /\ NoLostWakeup'
  <1> DEFINE Goal ==
         /\ m_' \in Threads \cup {NoThread} /\ waiters' \subseteq Consumers
         /\ pc' \in [Threads -> Labels]
         /\ \A t \in Threads : m_' = t <=> pc'[t] \in {"push", "unlock", "test", "pop"}
         /\ PopsSomething' /\ NoLostWakeup'
  <1> USE ChannelAssumption DEF ChannelInv, TypeOK, PopsSomething, NoLostWakeup, Threads,
                                NoThread, Labels, Goto
  <1>1. ASSUME NEW t \in Producers, PutLock(t) PROVE Goal
    BY Zenon, <1>1 DEF PutLock
  <1>2. ASSUME NEW t \in Producers, NEW e \in Elements, PutPush(t, e) PROVE Goal
    <2>1. q_' # <<>>
      BY <1>2 DEF PutPush
    <2> QED
      BY Zenon, <1>2, <2>1 DEF PutPush
  <1>3. ASSUME NEW t \in Producers, PutUnlock(t) PROVE Goal
    BY Zenon, <1>3 DEF PutUnlock
  <1>4. ASSUME NEW t \in Producers, PutNotify(t) PROVE Goal
    BY Zenon, <1>4 DEF PutNotify
  <1>5. ASSUME NEW t \in Consumers, GetLock(t) PROVE Goal
    BY Zenon, <1>5 DEF GetLock
  <1>6. ASSUME NEW t \in Consumers, GetWait(t) PROVE Goal
    BY Zenon, <1>6 DEF GetWait
  <1>7. ASSUME NEW t \in Consumers, Spurious(t) PROVE Goal
    BY Zenon, <1>7 DEF Spurious
  <1>8. ASSUME NEW t \in Consumers, GetRelock(t) PROVE Goal
    BY Zenon, <1>8 DEF GetRelock
  <1>9. ASSUME NEW t \in Consumers, GetTest(t) PROVE Goal
    BY Zenon, <1>9 DEF GetTest
  <1>10. ASSUME NEW t \in Consumers, GetPop(t) PROVE Goal
    BY <1>10 DEF GetPop
  <1>11. CASE UNCHANGED vars
    BY Zenon, <1>11 DEF vars
  <1> QED
    BY Zenon, <1>1, <1>2, <1>3, <1>4, <1>5, <1>6, <1>7, <1>8, <1>9, <1>10, <1>11
       DEF Next, PutStep, GetStep

(* Every step of Put and Get preserves the inductive invariant. *)
LEMMA StepPreserves == ChannelInv /\ [Next]_vars => ChannelInv'
  <1> SUFFICES ASSUME ChannelInv, [Next]_vars PROVE ChannelInv'
    BY Zenon
  <1> QED
    BY Zenon, StepKeepsOrder, StepKeepsLock DEF ChannelInv, TypeOK

(* The inductive invariant holds at all times. *)
LEMMA Invariance == Spec => []ChannelInv
  BY InitEstablishes, StepPreserves, PTL DEF Spec

(* Elements leave a channel in the order they entered it, each once, and no *)
(* Get pops from an empty queue, for any number of threads using Put and    *)
(* Get at once.                                                             *)
THEOREM ChannelInOrder == Spec => []PopsInOrder
  <1>1. ChannelInv => PopsInOrder
    BY Zenon DEF ChannelInv, PopsInOrder
  <1> QED
    BY <1>1, Invariance, PTL

(* No interleaving of Put's notify_all, done after m_ was released, with    *)
(* Get's test and wait leaves a Get asleep beside a queued element unless   *)
(* a Put is still to notify.                                                *)
THEOREM ChannelWakes == Spec => []NoLostWakeup
  BY Invariance, PTL DEF ChannelInv
=============================================================================
