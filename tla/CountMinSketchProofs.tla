------------------------ MODULE CountMinSketchProofs ------------------------
(***************************************************************************)
(* Proofs about the count-min sketch, for any clients, sketches, keys,     *)
(* size, hash and bound.  What the counters of a row have counted, and the *)
(* inserts that are under way and have not reached that row, add up to the *)
(* inserts begun of the keys that meet there.                              *)
(***************************************************************************)
EXTENDS CountMinSketch, FiniteSetTheorems, WellFoundedInduction, TLAPS

(* Leaves go to the SMT solver unless they name another prover. *)
USE SMTT(30)

(* A nonempty set of naturals has a least element. *)
LEMMA LeastExists ==
  ASSUME NEW S \in SUBSET Nat, S # {}
  PROVE  \E m \in S : \A n \in S : m <= n
<1>1. PICK m \in S : \A n \in S : ~(<<n, m>> \in OpToRel(<, Nat))
  BY NatLessThanWellFounded, WFMin, Zenon
<1>2. \A n \in S : ~(n < m) BY <1>1, Zenon DEF OpToRel
<1> QED BY <1>2

(* A number below the modulus is its own remainder. *)
LEMMA SmallRemainder ==
  ASSUME NEW m \in Nat, NEW w \in Nat, m < w
  PROVE  m % w = m
OBVIOUS

-----------------------------------------------------------------------------
(* Sums of counts over sets of keys *)

(* The units of a sum, one by one. *)
LEMMA UnitsAre ==
  ASSUME NEW f, NEW S, NEW k, NEW i
  PROVE  <<k, i>> \in Units(f, S) <=> k \in S /\ i \in 1..f[k]
BY DEF Units

(* A unit is a pair of an element and a rank. *)
LEMMA UnitsPairs ==
  ASSUME NEW f, NEW S, NEW p \in Units(f, S)
  PROVE  p = <<p[1], p[2]>> /\ p[1] \in S /\ p[2] \in 1..f[p[1]]
<1>1. PICK k \in S : p \in {k} \X (1..f[k]) BY Zenon DEF Units
<1> QED BY <1>1

(* A finite sum of naturals is a natural. *)
LEMMA SumNat ==
  ASSUME NEW f \in [Keys -> Nat], NEW S \in SUBSET Keys
  PROVE  IsFiniteSet(Units(f, S)) /\ SumOf(f, S) \in Nat
<1> DEFINE part(k) == {k} \X (1..f[k])
           T == {part(k) : k \in S}
           g == [k \in S |-> part(k)]
<1>1. IsFiniteSet(S) BY Zenon, SketchAssumption, FS_Subset
<1>2. g \in Surjection(S, T) BY Zenon DEF Surjection
<1>3. IsFiniteSet(T) BY <1>1, <1>2, FS_Surjection, Zenon
<1>4. ASSUME NEW k \in S PROVE IsFiniteSet(part(k))
  <2>1. IsFiniteSet({k}) BY FS_Singleton, Zenon
  <2>2. f[k] \in Int /\ 1 \in Int OBVIOUS
  <2>3. IsFiniteSet(1..f[k]) BY <2>2, FS_Interval, Zenon
  <2> QED BY <2>1, <2>3, FS_Product, Zenon
<1>5. \A x \in T : IsFiniteSet(x) BY <1>4, Zenon
<1>6. IsFiniteSet(Units(f, S)) BY <1>3, <1>5, FS_UNION, Zenon DEF Units
<1> QED BY <1>6, FS_CardinalityType, Zenon DEF SumOf

(* One more of key k counts in the sums over sets that hold k. *)
LEMMA SumAdds ==
  ASSUME NEW f \in [Keys -> Nat], NEW S \in SUBSET Keys, NEW k \in Keys
  PROVE  SumOf([f EXCEPT ![k] = @ + 1], S) = IF k \in S THEN SumOf(f, S) + 1 ELSE SumOf(f, S)
<1> DEFINE g == [f EXCEPT ![k] = @ + 1]
           u == <<k, f[k] + 1>>
<1>1. /\ g[k] = f[k] + 1 /\ f[k] \in Nat /\ \A l \in Keys \ {k} : g[l] = f[l]
  BY Zenon
<1>2. CASE k \in S
  <2>1. \A i : i \in 1..g[k] <=> i \in 1..f[k] \/ i = f[k] + 1 BY <1>1
  <2>2. \A l \in S : \A i : i \in 1..g[l] <=> i \in 1..f[l] \/ (l = k /\ i = f[k] + 1) BY <1>1, <2>1, Zenon
  <2>3. ASSUME NEW p PROVE p \in Units(g, S) <=> p \in Units(f, S) \cup {u}
    <3>1. CASE p \in Units(g, S)
      <4>1. p = <<p[1], p[2]>> /\ p[1] \in S /\ p[2] \in 1..g[p[1]] BY <3>1, UnitsPairs, Zenon
      <4>2. p[2] \in 1..f[p[1]] \/ (p[1] = k /\ p[2] = f[k] + 1) BY <2>2, <4>1, Zenon
      <4>3. <<p[1], p[2]>> \in Units(f, S) <=> p[1] \in S /\ p[2] \in 1..f[p[1]] BY Zenon, UnitsAre
      <4> QED BY <3>1, <4>1, <4>2, <4>3, Zenon
    <3>2. CASE p \in Units(f, S)
      <4>1. p = <<p[1], p[2]>> /\ p[1] \in S /\ p[2] \in 1..f[p[1]] BY <3>2, UnitsPairs, Zenon
      <4>2. p[2] \in 1..g[p[1]] BY <2>2, <4>1, Zenon
      <4>3. <<p[1], p[2]>> \in Units(g, S) <=> p[1] \in S /\ p[2] \in 1..g[p[1]]
        <5> HIDE DEF g
        <5> QED BY Zenon, UnitsAre
      <4> QED BY <3>2, <4>1, <4>2, <4>3, Zenon
    <3>3. CASE p = u
      <4>1. f[k] + 1 \in 1..g[k] BY Zenon, <2>1
      <4>2. u \in Units(g, S) BY Zenon, <1>2, <4>1, UnitsAre
      <4> QED BY <3>3, <4>2, Zenon
    <3> QED BY <3>1, <3>2, <3>3, Zenon
  <2>4. Units(g, S) = Units(f, S) \cup {u} BY <2>3, Zenon
  <2>5. f[k] + 1 \notin 1..f[k] BY <1>1
  <2>6. u \notin Units(f, S) BY <2>5, UnitsAre, Zenon
  <2>7. IsFiniteSet(Units(f, S)) BY SumNat, Zenon
  <2>8. Cardinality(Units(f, S) \cup {u}) = Cardinality(Units(f, S)) + 1
    BY <2>6, <2>7, FS_AddElement, Zenon
  <2> QED BY <1>2, <2>4, <2>8, Zenon DEF SumOf
<1>3. CASE k \notin S
  <2>1. \A l \in S : g[l] = f[l] BY Zenon, <1>1, <1>3
  <2>2. Units(g, S) = Units(f, S) BY <2>1, Zenon DEF Units
  <2> QED BY <1>3, <2>2, Zenon DEF SumOf
<1> QED BY <1>2, <1>3, Zenon

(* Sums grow with the set and with the counts. *)
LEMMA SumGrows ==
  ASSUME NEW f \in [Keys -> Nat], NEW g \in [Keys -> Nat], NEW S \in SUBSET Keys,
         NEW T \in SUBSET Keys, S \subseteq T, \A k \in S : f[k] <= g[k]
  PROVE  SumOf(f, S) <= SumOf(g, T)
<1>1. \A k \in S : \A i \in 1..f[k] : i \in 1..g[k] OBVIOUS
<1>2. Units(f, S) \subseteq Units(g, T)
  <2>1. ASSUME NEW p \in Units(f, S) PROVE p \in Units(g, T)
    BY <1>1, UnitsPairs, UnitsAre
  <2> QED BY <2>1, Zenon
<1>3. IsFiniteSet(Units(g, T)) BY SumNat, Zenon
<1> QED BY <1>2, <1>3, FS_Subset, Zenon DEF SumOf

(* A sum is at least each of its terms. *)
LEMMA SumBounds ==
  ASSUME NEW f \in [Keys -> Nat], NEW S \in SUBSET Keys, NEW k \in S
  PROVE  f[k] <= SumOf(f, S)
<1> DEFINE g == [i \in 1..f[k] |-> <<k, i>>]
<1>1. k \in Keys /\ f[k] \in Nat BY Zenon
<1>2. \A i \in 1..f[k] : <<k, i>> \in Units(f, S) BY UnitsAre, Zenon
<1>3. \A i, j \in 1..f[k] : g[i] = g[j] => i = j BY Zenon
<1>4. g \in Injection(1..f[k], Units(f, S)) BY <1>2, <1>3, Zenon DEF Injection, IsInjective
<1>5. IsFiniteSet(Units(f, S)) BY SumNat, Zenon
<1>6. Cardinality(1..f[k]) <= Cardinality(Units(f, S)) BY <1>4, <1>5, FS_Injection, Zenon
<1>7. Cardinality(1..f[k]) = f[k] BY <1>1, FS_Interval
<1> QED BY Zenon, <1>6, <1>7 DEF SumOf

(* A sum of zeros is zero. *)
LEMMA SumZero ==
  ASSUME NEW S \in SUBSET Keys
  PROVE  SumOf(NoKeys, S) = 0
<1>1. \A k \in S : NoKeys[k] = 0 BY Zenon DEF NoKeys
<1>2. \A i : i \notin 1..0 OBVIOUS
<1>3. Units(NoKeys, S) = {} BY <1>1, <1>2, Zenon DEF Units
<1> QED BY <1>3, FS_EmptySet, Zenon DEF SumOf

(* Sums of two counts added key by key, as Merge does. *)
LEMMA SumOfSums ==
  ASSUME NEW f \in [Keys -> Nat], NEW g \in [Keys -> Nat], NEW S \in SUBSET Keys
  PROVE  SumOf([k \in Keys |-> f[k] + g[k]], S) = SumOf(f, S) + SumOf(g, S)
<1> DEFINE h == [k \in Keys |-> f[k] + g[k]]
           rest == Units(h, S) \ Units(f, S)
           b == [p \in Units(g, S) |-> <<p[1], f[p[1]] + p[2]>>]
<1>1. \A k \in S : k \in Keys /\ f[k] \in Nat /\ g[k] \in Nat /\ h[k] = f[k] + g[k] BY Zenon
<1>2. h \in [Keys -> Nat] OBVIOUS
<1>3. \A k \in S : \A i \in 1..f[k] : i \in 1..h[k] BY <1>1
<1>4. \A k \in S : \A i \in 1..g[k] : f[k] + i \in 1..h[k] /\ f[k] + i \notin 1..f[k] BY <1>1
<1>5. \A k \in S : \A i \in 1..h[k] : i \notin 1..f[k] => i - f[k] \in 1..g[k] /\ i = f[k] + (i - f[k])
  BY <1>1
<1>6. \A k \in S : \A i, j \in 1..g[k] : f[k] + i = f[k] + j => i = j BY <1>1
<1>7. Units(f, S) \subseteq Units(h, S) BY <1>3, UnitsPairs, UnitsAre
<1>8. \A p \in Units(g, S) : b[p] \in rest
  <2>1. TAKE p \in Units(g, S)
  <2>2. p[1] \in S /\ p[2] \in 1..g[p[1]] BY UnitsPairs, Zenon
  <2> QED BY <1>4, <2>2, UnitsAre
<1>9. \A p, q \in Units(g, S) : b[p] = b[q] => p = q
  <2>1. TAKE p, q \in Units(g, S)
  <2>2. /\ p = <<p[1], p[2]>> /\ p[1] \in S /\ p[2] \in 1..g[p[1]]
        /\ q = <<q[1], q[2]>> /\ q[1] \in S /\ q[2] \in 1..g[q[1]]
    BY UnitsPairs, Zenon
  <2>3. HAVE b[p] = b[q]
  <2>4. p[1] = q[1] /\ f[p[1]] + p[2] = f[q[1]] + q[2] BY Zenon, <2>3
  <2>5. p[2] = q[2] BY <1>6, <2>2, <2>4, Zenon
  <2> QED BY <2>2, <2>4, <2>5, Zenon
<1>10. \A q \in rest : \E p \in Units(g, S) : b[p] = q
  <2>1. TAKE q \in rest
  <2>2. q = <<q[1], q[2]>> /\ q[1] \in S /\ q[2] \in 1..h[q[1]] BY UnitsPairs, Zenon
  <2>3. q[2] \notin 1..f[q[1]] BY <2>2, UnitsAre
  <2> DEFINE p == <<q[1], q[2] - f[q[1]]>>
  <2>4. p \in Units(g, S) /\ q[2] = f[q[1]] + (q[2] - f[q[1]]) BY <1>5, <2>2, <2>3, UnitsAre
  <2>5. b[p] = <<q[1], f[q[1]] + (q[2] - f[q[1]])>> BY Zenon, <2>4
  <2>6. b[p] = q BY <2>2, <2>4, <2>5, Zenon
  <2> QED BY <2>4, <2>6, Zenon
<1>11. b \in Bijection(Units(g, S), rest)
  BY <1>8, <1>9, <1>10, Zenon DEF Bijection, Injection, IsInjective, Surjection
<1>12. IsFiniteSet(Units(f, S)) /\ IsFiniteSet(Units(g, S)) /\ IsFiniteSet(Units(h, S)) BY <1>2, SumNat, Zenon
<1>13. Cardinality(rest) = Cardinality(Units(g, S))
  BY <1>11, <1>12, FS_Bijection, Zenon DEF ExistsBijection
<1>14. Units(h, S) \cap Units(f, S) = Units(f, S) BY <1>7, Zenon
<1>15. Cardinality(rest) = Cardinality(Units(h, S)) - Cardinality(Units(f, S))
  BY <1>12, <1>14, FS_Difference, Zenon
<1>16. SumOf(f, S) \in Nat /\ SumOf(g, S) \in Nat /\ SumOf(h, S) \in Nat BY <1>2, SumNat, Zenon
<1> QED BY <1>13, <1>15, <1>16 DEF SumOf

-----------------------------------------------------------------------------
(* inserts of keys in C on sketch s that have yet to increment row j *)
Pending(s, C, j) ==
    {t \in Clients : /\ step[t] \in {"lock", "increment"} /\ sketch[t] = s
                     /\ key[t] \in C /\ row[t] <= j}

SketchTyped ==
    /\ matrix_ \in [Sketches -> [Cells -> Nat]] /\ alive \subseteq Sketches
    /\ Mutex \in Clients \cup {NoClient}
    /\ step \in [Clients -> {"idle", "lock", "increment", "count", "counted"}]
    /\ sketch \in [Clients -> Sketches] /\ key \in [Clients -> Keys]
    /\ row \in [Clients -> SketchRows] /\ reg \in [Clients -> Nat] /\ before \in [Clients -> Nat]
    /\ begun \in [Sketches -> [Keys -> Nat]] /\ done \in [Sketches -> [Keys -> Nat]]

(* what has begun is done or still under way, in every counter and in all *)
CountsAdd ==
    /\ \A s \in Sketches : SumOf(begun[s], Keys) <= MaxInserts
    /\ \A s \in Sketches, C \in SUBSET Keys :
         SumOf(done[s], C) + Cardinality(Pending(s, C, Depth)) = SumOf(begun[s], C)
    /\ \A s \in Sketches, k \in Keys, j \in SketchRows :
         matrix_[s][Cell(k, j)] + Cardinality(Pending(s, Colliding(k, j), j))
           = SumOf(begun[s], Colliding(k, j))

(* the counter is as the holder of the lock read it *)
LockHeld ==
    \A t \in Clients :
        /\ Mutex = t <=> step[t] = "increment"
        /\ step[t] = "increment" => reg[t] = matrix_[sketch[t]][MyCell(t)]

(* the bounds of Count hold of the rows it has seen *)
Estimates ==
    \A t \in Clients : step[t] \in {"count", "counted"} =>
        /\ before[t] <= reg[t] /\ before[t] <= done[sketch[t]][key[t]]
        /\ \A j \in SketchRows : j < row[t] \/ step[t] = "counted" =>
             reg[t] <= SumOf(begun[sketch[t]], Colliding(key[t], j))

SketchInv == SketchTyped /\ CountsAdd /\ LockHeld /\ Estimates

(* The inserts under way are finitely many. *)
LEMMA PendingFinite ==
  ASSUME NEW s, NEW C, NEW j
  PROVE  IsFiniteSet(Pending(s, C, j)) /\ Cardinality(Pending(s, C, j)) \in Nat
<1>1. Pending(s, C, j) \in SUBSET Clients BY Zenon DEF Pending
<1>2. IsFiniteSet(Clients) BY SketchAssumption, Zenon
<1>3. IsFiniteSet(Pending(s, C, j)) BY <1>1, <1>2, FS_Subset, Zenon
<1> QED BY <1>3, FS_CardinalityType, Zenon

(* Two keys meet in a row exactly when they share its counter. *)
LEMMA CellsMeet ==
  ASSUME NEW k \in Keys, NEW j \in SketchRows
  PROVE  /\ Cell(k, j) \in Cells /\ Colliding(k, j) \in SUBSET Keys /\ k \in Colliding(k, j)
         /\ \A l \in Keys, i \in SketchRows :
              Cell(l, i) = Cell(k, j) <=> i = j /\ l \in Colliding(k, j)
<1>1. Hash[k][j] \in 0..(Width - 1) BY SketchAssumption, Zenon
<1>2. Cell(k, j) \in Cells BY <1>1, Zenon DEF Cell, Cells
<1>3. Colliding(k, j) \in SUBSET Keys /\ k \in Colliding(k, j) BY Zenon DEF Colliding
<1>4. \A l \in Keys, i \in SketchRows :
        Cell(l, i) = Cell(k, j) <=> i = j /\ l \in Colliding(k, j)
  BY Zenon DEF Cell, Colliding
<1> QED BY <1>2, <1>3, <1>4, Zenon

(* A counter holds at least the inserts done and at most those begun. *)
LEMMA CounterBounds ==
  ASSUME SketchTyped, CountsAdd, NEW s \in Sketches, NEW k \in Keys, NEW j \in SketchRows
  PROVE  /\ matrix_[s][Cell(k, j)] \in Nat /\ done[s][k] \in Nat
         /\ SumOf(begun[s], Colliding(k, j)) \in Nat
         /\ done[s][k] <= matrix_[s][Cell(k, j)]
         /\ matrix_[s][Cell(k, j)] <= SumOf(begun[s], Colliding(k, j))
         /\ SumOf(begun[s], Colliding(k, j)) <= MaxInserts
<1> DEFINE C == Colliding(k, j)
           m == matrix_[s][Cell(k, j)]
           P == Cardinality(Pending(s, C, j))
           Q == Cardinality(Pending(s, C, Depth))
<1>1. Cell(k, j) \in Cells /\ C \in SUBSET Keys /\ k \in C BY CellsMeet, Zenon
<1>2. /\ begun[s] \in [Keys -> Nat] /\ done[s] \in [Keys -> Nat] /\ m \in Nat /\ done[s][k] \in Nat
  BY <1>1, Zenon DEF SketchTyped
<1>3. /\ SumOf(begun[s], C) \in Nat /\ SumOf(done[s], C) \in Nat /\ SumOf(begun[s], Keys) \in Nat
  BY Zenon, <1>1, <1>2, SumNat
<1>4. P \in Nat /\ Q \in Nat /\ IsFiniteSet(Pending(s, C, Depth)) BY PendingFinite, Zenon
<1>5. m + P = SumOf(begun[s], C) /\ SumOf(done[s], C) + Q = SumOf(begun[s], C)
  BY <1>1, Zenon DEF CountsAdd
<1>6. P <= Q
  <2>1. \A i \in SketchRows : i <= j => i <= Depth BY SketchAssumption DEF SketchRows
  <2>2. Pending(s, C, j) \in SUBSET Pending(s, C, Depth) BY <2>1, Zenon DEF Pending, SketchTyped
  <2> QED BY <1>4, <2>2, FS_Subset, Zenon
<1>7. done[s][k] <= SumOf(done[s], C) BY <1>1, <1>2, SumBounds, Zenon
<1>8. SumOf(begun[s], C) <= SumOf(begun[s], Keys)
  <2>1. \A l \in C : begun[s][l] <= begun[s][l] BY <1>1, <1>2
  <2> QED BY <1>1, <1>2, <2>1, SumGrows, Zenon
<1>9. SumOf(begun[s], Keys) <= MaxInserts BY Zenon DEF CountsAdd
<1>10. done[s][k] <= m BY <1>2, <1>3, <1>4, <1>5, <1>6, <1>7
<1>11. m <= SumOf(begun[s], C) BY <1>2, <1>3, <1>4, <1>5
<1>12. SumOf(begun[s], C) <= MaxInserts BY <1>3, <1>8, <1>9, SketchAssumption
<1> QED BY <1>2, <1>3, <1>10, <1>11, <1>12, Zenon

-----------------------------------------------------------------------------
(* The actions, one lemma for each *)

(* The lock's part stays when one client, not at its write, moves. *)
LEMMA LockStays ==
  ASSUME LockHeld, NEW t \in Clients, step[t] # "increment", step'[t] # "increment",
         Mutex' = Mutex, matrix_' = matrix_,
         \A u \in Clients \ {t} : /\ step'[u] = step[u] /\ sketch'[u] = sketch[u]
                                  /\ key'[u] = key[u] /\ row'[u] = row[u] /\ reg'[u] = reg[u]
  PROVE  LockHeld'
<1>1. ASSUME NEW u \in Clients PROVE Mutex' = u <=> step'[u] = "increment" BY Zenon DEF LockHeld
<1>2. ASSUME NEW u \in Clients, step'[u] = "increment"
      PROVE  reg'[u] = matrix_'[sketch'[u]][Cell(key'[u], row'[u])]
  <2>1. u \in Clients \ {t} /\ step[u] = "increment" BY <1>2, Zenon
  <2>2. reg[u] = matrix_[sketch[u]][Cell(key[u], row[u])] BY <2>1, Zenon DEF LockHeld, MyCell
  <2> QED BY <2>1, <2>2, Zenon
<1> QED BY <1>1, <1>2, Zenon DEF LockHeld, MyCell

(* Beginning an insert adds one pending in every row. *)
LEMMA InsertStartKeeps ==
  ASSUME SketchInv, NEW t \in Clients, NEW z \in Sketches, NEW k \in Keys, InsertStart(t, z, k)
  PROVE  SketchInv'
<1>1. /\ step[t] = "idle" /\ SumOf(begun[z], Keys) < MaxInserts
      /\ step' = [step EXCEPT ![t] = "lock"] /\ sketch' = [sketch EXCEPT ![t] = z]
      /\ key' = [key EXCEPT ![t] = k] /\ row' = [row EXCEPT ![t] = 1]
      /\ begun' = [begun EXCEPT ![z][k] = @ + 1] /\ matrix_' = matrix_ /\ alive' = alive
      /\ Mutex' = Mutex /\ reg' = reg /\ before' = before /\ done' = done
  BY Zenon DEF InsertStart, Total
<1>2. SketchTyped /\ CountsAdd /\ LockHeld /\ Estimates BY Zenon DEF SketchInv
<1>3. /\ begun \in [Sketches -> [Keys -> Nat]] /\ begun[z] \in [Keys -> Nat] /\ begun[z][k] \in Nat
      /\ step \in [Clients -> {"idle", "lock", "increment", "count", "counted"}]
      /\ sketch \in [Clients -> Sketches] /\ key \in [Clients -> Keys] /\ row \in [Clients -> SketchRows]
  BY <1>2, Zenon DEF SketchTyped
<1> DEFINE g == [begun[z] EXCEPT ![k] = @ + 1]
<1>4. begun' = [begun EXCEPT ![z] = g] BY Zenon, <1>1, <1>3
<1>5. /\ g \in [Keys -> Nat] /\ begun' \in [Sketches -> [Keys -> Nat]] /\ begun'[z] = g
      /\ \A s \in Sketches \ {z} : begun'[s] = begun[s]
      /\ \A l \in Keys : begun[z][l] <= g[l]
  BY <1>3, <1>4
<1>6. 1 \in SketchRows BY SketchAssumption DEF SketchRows
<1>7. /\ step'[t] = "lock" /\ sketch'[t] = z /\ key'[t] = k /\ row'[t] = 1
      /\ \A u \in Clients \ {t} : /\ step'[u] = step[u] /\ sketch'[u] = sketch[u]
                                  /\ key'[u] = key[u] /\ row'[u] = row[u]
  BY <1>1, <1>3, Zenon
<1>8. SketchTyped'
  <2>1. step' \in [Clients -> {"idle", "lock", "increment", "count", "counted"}] BY Zenon, <1>1, <1>3
  <2>2. sketch' \in [Clients -> Sketches] /\ key' \in [Clients -> Keys] BY Zenon, <1>1, <1>3
  <2>3. row' \in [Clients -> SketchRows] BY Zenon, <1>1, <1>3, <1>6
  <2> QED BY <1>1, <1>2, <1>5, <2>1, <2>2, <2>3, Zenon DEF SketchTyped
<1>9. ASSUME NEW s \in Sketches, NEW C \in SUBSET Keys, NEW j \in SketchRows
      PROVE  /\ s = z /\ k \in C =>
                  /\ SumOf(begun'[s], C) = SumOf(begun[s], C) + 1
                  /\ Cardinality(Pending(s, C, j)') = Cardinality(Pending(s, C, j)) + 1
             /\ ~(s = z /\ k \in C) =>
                  /\ SumOf(begun'[s], C) = SumOf(begun[s], C)
                  /\ Pending(s, C, j)' = Pending(s, C, j)
  <2>1. 1 <= j BY SketchAssumption DEF SketchRows
  <2>2. t \notin Pending(s, C, j) BY Zenon, <1>1 DEF Pending
  <2>3. CASE s = z /\ k \in C
    <3>1. Pending(s, C, j)' = Pending(s, C, j) \cup {t} BY Zenon, <1>7, <2>1, <2>3 DEF Pending
    <3>2. Cardinality(Pending(s, C, j) \cup {t}) = Cardinality(Pending(s, C, j)) + 1
      BY <2>2, PendingFinite, FS_AddElement, Zenon
    <3>3. SumOf(g, C) = SumOf(begun[z], C) + 1 BY <1>3, <2>3, SumAdds, Zenon
    <3> QED BY <1>5, <2>3, <3>1, <3>2, <3>3, Zenon
  <2>4. CASE ~(s = z /\ k \in C)
    <3>1. Pending(s, C, j)' = Pending(s, C, j) BY Zenon, <1>7, <2>2, <2>4 DEF Pending
    <3>2. CASE s # z BY <1>5, <2>4, <3>1, <3>2, Zenon
    <3>3. CASE s = z
      <4>1. SumOf(g, C) = SumOf(begun[z], C) BY <1>3, <2>4, <3>3, SumAdds, Zenon
      <4> QED BY <1>5, <2>4, <3>1, <3>3, <4>1, Zenon
    <3> QED BY <3>2, <3>3, Zenon
  <2> QED BY <2>3, <2>4, Zenon
<1>10. Depth \in SketchRows BY SketchAssumption DEF SketchRows
<1>11. CountsAdd'
  <2>1. ASSUME NEW s \in Sketches PROVE SumOf(begun'[s], Keys) <= MaxInserts
    <3>1. SumOf(begun[s], Keys) \in Nat /\ SumOf(begun[s], Keys) <= MaxInserts
      BY <1>2, SumNat, Zenon DEF SketchTyped, CountsAdd
    <3>2. s = z => SumOf(begun'[s], Keys) = SumOf(begun[s], Keys) + 1 BY <1>6, <1>9, Zenon
    <3>3. s # z => SumOf(begun'[s], Keys) = SumOf(begun[s], Keys) BY <1>6, <1>9, Zenon
    <3> QED BY <1>1, <3>1, <3>2, <3>3, SketchAssumption
  <2>2. ASSUME NEW s \in Sketches, NEW C \in SUBSET Keys
        PROVE  SumOf(done'[s], C) + Cardinality(Pending(s, C, Depth)') = SumOf(begun'[s], C)
    <3>1. SumOf(done[s], C) \in Nat /\ SumOf(begun[s], C) \in Nat
      BY <1>2, SumNat, Zenon DEF SketchTyped
    <3>2. Cardinality(Pending(s, C, Depth)) \in Nat BY PendingFinite, Zenon
    <3>3. SumOf(done[s], C) + Cardinality(Pending(s, C, Depth)) = SumOf(begun[s], C)
      BY <1>2, Zenon DEF CountsAdd
    <3>4. CASE s = z /\ k \in C BY <1>1, <1>9, <1>10, <3>1, <3>2, <3>3, <3>4
    <3>5. CASE ~(s = z /\ k \in C) BY <1>1, <1>9, <1>10, <3>3, <3>5, Zenon
    <3> QED BY <3>4, <3>5, Zenon
  <2>3. ASSUME NEW s \in Sketches, NEW l \in Keys, NEW j \in SketchRows
        PROVE  matrix_'[s][Cell(l, j)] + Cardinality(Pending(s, Colliding(l, j), j)')
                 = SumOf(begun'[s], Colliding(l, j))
    <3> DEFINE C == Colliding(l, j)
    <3>1. C \in SUBSET Keys BY CellsMeet, Zenon
    <3>2. matrix_[s][Cell(l, j)] \in Nat /\ SumOf(begun[s], C) \in Nat BY Zenon, <1>2, CounterBounds
    <3>3. Cardinality(Pending(s, C, j)) \in Nat BY PendingFinite, Zenon
    <3>4. matrix_[s][Cell(l, j)] + Cardinality(Pending(s, C, j)) = SumOf(begun[s], C)
      BY <1>2, Zenon DEF CountsAdd
    <3>5. CASE s = z /\ k \in C BY <1>1, <1>9, <3>1, <3>2, <3>3, <3>4, <3>5
    <3>6. CASE ~(s = z /\ k \in C) BY <1>1, <1>9, <3>1, <3>4, <3>6, Zenon
    <3> QED BY <3>5, <3>6, Zenon
  <2> QED BY <2>1, <2>2, <2>3, Zenon DEF CountsAdd
<1>12. LockHeld'
  <2>1. step'[t] # "increment" /\ step[t] # "increment" BY Zenon, <1>1, <1>7
  <2> QED BY <1>1, <1>2, <1>7, <2>1, LockStays, Zenon
<1>13. Estimates'
  <2>1. ASSUME NEW s \in Sketches, NEW C \in SUBSET Keys PROVE SumOf(begun[s], C) <= SumOf(begun'[s], C)
    <3>1. begun[s] \in [Keys -> Nat] /\ begun'[s] \in [Keys -> Nat] BY <1>3, <1>5, Zenon
    <3>2. \A l \in C : begun[s][l] <= begun'[s][l] BY <1>5, <3>1
    <3> QED BY <3>1, <3>2, SumGrows, Zenon
  <2>2. ASSUME NEW u \in Clients, step'[u] \in {"count", "counted"}
        PROVE  /\ before'[u] <= reg'[u] /\ before'[u] <= done'[sketch'[u]][key'[u]]
               /\ \A j \in SketchRows : j < row'[u] \/ step'[u] = "counted" =>
                    reg'[u] <= SumOf(begun'[sketch'[u]], Colliding(key'[u], j))
    <3>1. u # t BY Zenon, <1>7, <2>2
    <3>2. /\ step[u] \in {"count", "counted"} /\ sketch'[u] = sketch[u] /\ key'[u] = key[u]
          /\ row'[u] = row[u] /\ step'[u] = step[u]
      BY <1>7, <2>2, <3>1, Zenon
    <3>3. ASSUME NEW j \in SketchRows, j < row[u] \/ step[u] = "counted"
          PROVE  reg[u] <= SumOf(begun'[sketch[u]], Colliding(key[u], j))
      <4> DEFINE C == Colliding(key[u], j)
      <4>1. sketch[u] \in Sketches /\ key[u] \in Keys /\ reg[u] \in Nat BY <1>2, Zenon DEF SketchTyped
      <4>2. C \in SUBSET Keys BY <4>1, CellsMeet, Zenon
      <4>3. reg[u] <= SumOf(begun[sketch[u]], C) BY <1>2, <3>2, <3>3, Zenon DEF Estimates
      <4>4. SumOf(begun[sketch[u]], C) \in Nat /\ SumOf(begun'[sketch[u]], C) \in Nat
        BY <1>3, <1>5, <4>1, <4>2, SumNat, Zenon
      <4>5. SumOf(begun[sketch[u]], C) <= SumOf(begun'[sketch[u]], C) BY <2>1, <4>1, <4>2, Zenon
      <4> QED BY <4>1, <4>3, <4>4, <4>5
    <3>4. before[u] <= reg[u] /\ before[u] <= done[sketch[u]][key[u]] BY <1>2, <3>2, Zenon DEF Estimates
    <3> QED BY <1>1, <3>2, <3>3, <3>4, Zenon
  <2> QED BY <2>2, Zenon DEF Estimates
<1> QED BY <1>8, <1>11, <1>12, <1>13, Zenon DEF SketchInv

(* A step that writes no counter and moves no insert from row to row. *)
LEMMA CountsStay ==
  ASSUME CountsAdd, matrix_' = matrix_, begun' = begun, done' = done,
         \A u \in Clients : /\ step'[u] \in {"lock", "increment"} <=> step[u] \in {"lock", "increment"}
                            /\ step[u] \in {"lock", "increment"} =>
                                 sketch'[u] = sketch[u] /\ key'[u] = key[u] /\ row'[u] = row[u]
  PROVE  CountsAdd'
<1>1. ASSUME NEW s, NEW C, NEW j PROVE Pending(s, C, j)' = Pending(s, C, j)
  BY Zenon DEF Pending
<1>2. \A s \in Sketches, C \in SUBSET Keys :
        SumOf(done'[s], C) + Cardinality(Pending(s, C, Depth)') = SumOf(begun'[s], C)
  BY <1>1, Zenon DEF CountsAdd
<1>3. \A s \in Sketches, k \in Keys, j \in SketchRows :
         matrix_'[s][Cell(k, j)] + Cardinality(Pending(s, Colliding(k, j), j)')
           = SumOf(begun'[s], Colliding(k, j))
  BY <1>1, Zenon DEF CountsAdd
<1> QED BY <1>2, <1>3, Zenon DEF CountsAdd

(* Reading a cell under its lock changes no count. *)
LEMMA InsertReadKeeps ==
  ASSUME SketchInv, NEW t \in Clients, InsertRead(t)
  PROVE  SketchInv'
<1>1. /\ step[t] = "lock" /\ Mutex = NoClient /\ Mutex' = t
      /\ reg' = [reg EXCEPT ![t] = matrix_[sketch[t]][MyCell(t)]]
      /\ step' = [step EXCEPT ![t] = "increment"] /\ matrix_' = matrix_ /\ alive' = alive
      /\ sketch' = sketch /\ key' = key /\ row' = row /\ before' = before
      /\ begun' = begun /\ done' = done
  BY Zenon DEF InsertRead, call
<1>2. SketchTyped /\ CountsAdd /\ LockHeld /\ Estimates BY Zenon DEF SketchInv
<1>3. /\ step \in [Clients -> {"idle", "lock", "increment", "count", "counted"}]
      /\ reg \in [Clients -> Nat] /\ sketch[t] \in Sketches /\ key[t] \in Keys /\ row[t] \in SketchRows
  BY <1>2, Zenon DEF SketchTyped
<1>4. matrix_[sketch[t]][MyCell(t)] \in Nat BY <1>2, <1>3, CounterBounds, Zenon DEF MyCell
<1>5. /\ step'[t] = "increment" /\ reg'[t] = matrix_[sketch[t]][MyCell(t)]
      /\ \A u \in Clients \ {t} : step'[u] = step[u] /\ reg'[u] = reg[u]
  BY <1>1, <1>3, Zenon
<1>6. SketchTyped'
  <2>1. step' \in [Clients -> {"idle", "lock", "increment", "count", "counted"}] BY Zenon, <1>1, <1>3
  <2>2. reg' \in [Clients -> Nat] BY Zenon, <1>1, <1>3, <1>4
  <2> QED BY <1>1, <1>2, <2>1, <2>2, Zenon DEF SketchTyped
<1>7. CountsAdd'
  <2>1. \A u \in Clients : step'[u] \in {"lock", "increment"} <=> step[u] \in {"lock", "increment"}
    BY <1>1, <1>5, Zenon
  <2> QED BY <1>1, <1>2, <2>1, CountsStay, Zenon
<1>8. LockHeld'
  <2>1. ASSUME NEW u \in Clients \ {t} PROVE step[u] # "increment" /\ Mutex' # u
    BY <1>1, <1>2, SketchAssumption, Zenon DEF LockHeld
  <2> QED BY <1>1, <1>2, <1>5, <2>1, Zenon DEF LockHeld, MyCell
<1>9. Estimates'
  <2>1. step'[t] \notin {"count", "counted"} BY Zenon, <1>5
  <2> QED BY <1>1, <1>2, <1>5, <2>1, Zenon DEF Estimates
<1> QED BY <1>6, <1>7, <1>8, <1>9, Zenon DEF SketchInv

(* Count starts from the largest 32-bit number. *)
LEMMA CountStartKeeps ==
  ASSUME SketchInv, NEW t \in Clients, NEW z \in Sketches, NEW k \in Keys, CountStart(t, z, k)
  PROVE  SketchInv'
<1>1. /\ step[t] = "idle" /\ step' = [step EXCEPT ![t] = "count"]
      /\ sketch' = [sketch EXCEPT ![t] = z] /\ key' = [key EXCEPT ![t] = k]
      /\ row' = [row EXCEPT ![t] = 1] /\ reg' = [reg EXCEPT ![t] = U32 - 1]
      /\ before' = [before EXCEPT ![t] = done[z][k]]
      /\ matrix_' = matrix_ /\ alive' = alive /\ Mutex' = Mutex /\ begun' = begun /\ done' = done
  BY Zenon DEF CountStart
<1>2. SketchTyped /\ CountsAdd /\ LockHeld /\ Estimates BY Zenon DEF SketchInv
<1>3. /\ step \in [Clients -> {"idle", "lock", "increment", "count", "counted"}]
      /\ sketch \in [Clients -> Sketches] /\ key \in [Clients -> Keys] /\ row \in [Clients -> SketchRows]
      /\ reg \in [Clients -> Nat] /\ before \in [Clients -> Nat] /\ done[z][k] \in Nat
  BY <1>2, Zenon DEF SketchTyped
<1>4. 1 \in SketchRows /\ U32 - 1 \in Nat BY SketchAssumption DEF SketchRows
<1>5. /\ step'[t] = "count" /\ sketch'[t] = z /\ key'[t] = k /\ row'[t] = 1
      /\ reg'[t] = U32 - 1 /\ before'[t] = done[z][k]
      /\ \A u \in Clients \ {t} : /\ step'[u] = step[u] /\ sketch'[u] = sketch[u] /\ key'[u] = key[u]
                                  /\ row'[u] = row[u] /\ reg'[u] = reg[u] /\ before'[u] = before[u]
  BY <1>1, <1>3, Zenon
<1>6. SketchTyped'
  <2>1. step' \in [Clients -> {"idle", "lock", "increment", "count", "counted"}] BY Zenon, <1>1, <1>3
  <2>2. sketch' \in [Clients -> Sketches] /\ key' \in [Clients -> Keys] BY Zenon, <1>1, <1>3
  <2>3. row' \in [Clients -> SketchRows] /\ reg' \in [Clients -> Nat] /\ before' \in [Clients -> Nat]
    BY Zenon, <1>1, <1>3, <1>4
  <2> QED BY <1>1, <1>2, <2>1, <2>2, <2>3, Zenon DEF SketchTyped
<1>7. CountsAdd'
  <2>1. step'[t] \notin {"lock", "increment"} /\ step[t] \notin {"lock", "increment"} BY Zenon, <1>1, <1>5
  <2> QED BY <1>1, <1>2, <1>5, <2>1, CountsStay, Zenon
<1>8. LockHeld'
  <2>1. step'[t] # "increment" /\ step[t] # "increment" BY Zenon, <1>1, <1>5
  <2> QED BY <1>1, <1>2, <1>5, <2>1, LockStays, Zenon
<1>9. Estimates'
  <2>1. /\ before'[t] <= reg'[t] /\ before'[t] <= done'[sketch'[t]][key'[t]]
        /\ \A j \in SketchRows : ~(j < row'[t]) /\ step'[t] # "counted"
    <3>1. 1 \in SketchRows /\ \A j \in SketchRows : ~(j < 1) BY SketchAssumption DEF SketchRows
    <3>2. done[z][k] <= MaxInserts
      <4>1. /\ done[z][k] <= matrix_[z][Cell(k, 1)] /\ matrix_[z][Cell(k, 1)] \in Nat
            /\ matrix_[z][Cell(k, 1)] <= SumOf(begun[z], Colliding(k, 1))
            /\ SumOf(begun[z], Colliding(k, 1)) <= MaxInserts /\ SumOf(begun[z], Colliding(k, 1)) \in Nat
        BY <1>2, <3>1, CounterBounds, Zenon
      <4> QED BY <1>3, <4>1, SketchAssumption
    <3>3. done[z][k] <= U32 - 1 BY <1>3, <3>2, SketchAssumption
    <3> QED BY <1>1, <1>3, <1>5, <3>1, <3>3
  <2> QED BY <1>1, <1>2, <1>5, <2>1, Zenon DEF Estimates
<1> QED BY <1>6, <1>7, <1>8, <1>9, Zenon DEF SketchInv

(* Each row Count reads bounds its estimate from both sides. *)
LEMMA CountRowKeeps ==
  ASSUME SketchInv, NEW t \in Clients, CountRow(t)
  PROVE  SketchInv'
<1> DEFINE m == matrix_[sketch[t]][Cell(key[t], row[t])]
<1>1. /\ step[t] = "count" /\ reg' = [reg EXCEPT ![t] = Lower(m, @)]
      /\ \/ row[t] = Depth /\ step' = [step EXCEPT ![t] = "counted"] /\ row' = row
         \/ row[t] # Depth /\ row' = [row EXCEPT ![t] = @ + 1] /\ step' = step
      /\ matrix_' = matrix_ /\ alive' = alive /\ Mutex' = Mutex /\ sketch' = sketch /\ key' = key
      /\ before' = before /\ begun' = begun /\ done' = done
  BY Zenon DEF CountRow, MyCell
<1>2. SketchTyped /\ CountsAdd /\ LockHeld /\ Estimates BY Zenon DEF SketchInv
<1>3. /\ step \in [Clients -> {"idle", "lock", "increment", "count", "counted"}]
      /\ row \in [Clients -> SketchRows] /\ reg \in [Clients -> Nat] /\ reg[t] \in Nat
      /\ sketch[t] \in Sketches /\ key[t] \in Keys /\ row[t] \in SketchRows /\ before[t] \in Nat
  BY <1>2, Zenon DEF SketchTyped
<1>4. /\ m \in Nat /\ done[sketch[t]][key[t]] \in Nat /\ done[sketch[t]][key[t]] <= m
      /\ SumOf(begun[sketch[t]], Colliding(key[t], row[t])) \in Nat
      /\ m <= SumOf(begun[sketch[t]], Colliding(key[t], row[t]))
  BY <1>2, <1>3, CounterBounds, Zenon
<1>5. Lower(m, reg[t]) \in Nat /\ Lower(m, reg[t]) <= m /\ Lower(m, reg[t]) <= reg[t]
  BY <1>3, <1>4 DEF Lower
<1>6. /\ reg'[t] = Lower(m, reg[t]) /\ \A u \in Clients \ {t} : reg'[u] = reg[u]
      /\ reg' \in [Clients -> Nat]
  BY Zenon, <1>1, <1>3, <1>5
<1>7. /\ row' \in [Clients -> SketchRows] /\ \A u \in Clients \ {t} : row'[u] = row[u] /\ step'[u] = step[u]
      /\ step' \in [Clients -> {"idle", "lock", "increment", "count", "counted"}]
      /\ step'[t] \in {"count", "counted"}
      /\ \A j \in SketchRows : j < row'[t] \/ step'[t] = "counted" => j < row[t] \/ j = row[t]
  <2>1. CASE row[t] = Depth /\ step' = [step EXCEPT ![t] = "counted"] /\ row' = row
    <3>1. \A j \in SketchRows : j < Depth \/ j = Depth BY SketchAssumption DEF SketchRows
    <3> QED BY Zenon, <1>3, <2>1, <3>1
  <2>2. CASE row[t] # Depth /\ row' = [row EXCEPT ![t] = @ + 1] /\ step' = step
    <3>1. row[t] + 1 \in SketchRows /\ row[t] \in Nat BY <1>3, <2>2, SketchAssumption DEF SketchRows
    <3>2. row'[t] = row[t] + 1 /\ row' \in [Clients -> SketchRows]
          /\ \A u \in Clients \ {t} : row'[u] = row[u]
      BY Zenon, <1>3, <2>2, <3>1
    <3>3. \A j \in SketchRows : j < row[t] + 1 => j < row[t] \/ j = row[t]
      BY <3>1, SketchAssumption DEF SketchRows
    <3> QED BY Zenon, <1>1, <1>3, <2>2, <3>2, <3>3
  <2> QED BY <1>1, <2>1, <2>2, Zenon
<1>8. SketchTyped' BY <1>1, <1>2, <1>6, <1>7, Zenon DEF SketchTyped
<1>9. step'[t] \notin {"lock", "increment"} /\ step[t] \notin {"lock", "increment"} BY Zenon, <1>1, <1>7
<1>10. CountsAdd' BY <1>1, <1>2, <1>7, <1>9, CountsStay, Zenon
<1>11. LockHeld'
  <2>1. step'[t] # "increment" /\ step[t] # "increment" BY Zenon, <1>9
  <2>2. \A u \in Clients \ {t} : /\ step'[u] = step[u] /\ sketch'[u] = sketch[u]
                                  /\ key'[u] = key[u] /\ row'[u] = row[u] /\ reg'[u] = reg[u]
    BY <1>1, <1>6, <1>7, Zenon
  <2> QED BY <1>1, <1>2, <2>1, <2>2, LockStays, Zenon
<1>12. Estimates'
  <2>1. before[t] <= reg[t] /\ before[t] <= done[sketch[t]][key[t]]
    BY <1>1, <1>2, Zenon DEF Estimates
  <2>2. before[t] <= Lower(m, reg[t]) BY <1>3, <1>4, <2>1 DEF Lower
  <2>3. ASSUME NEW j \in SketchRows, j < row'[t] \/ step'[t] = "counted"
        PROVE  reg'[t] <= SumOf(begun[sketch[t]], Colliding(key[t], j))
    <3>1. CASE j = row[t] BY <1>4, <1>5, <1>6, <3>1
    <3>2. CASE j < row[t]
      <4>1. reg[t] <= SumOf(begun[sketch[t]], Colliding(key[t], j)) BY <1>1, <1>2, <3>2, Zenon DEF Estimates
      <4>2. SumOf(begun[sketch[t]], Colliding(key[t], j)) \in Nat BY <1>2, <1>3, CounterBounds, Zenon
      <4> QED BY <1>3, <1>5, <1>6, <4>1, <4>2
    <3> QED BY <1>7, <2>3, <3>1, <3>2, Zenon
  <2> QED BY <1>1, <1>2, <1>6, <1>7, <2>1, <2>2, <2>3, Zenon DEF Estimates
<1> QED BY <1>8, <1>10, <1>11, <1>12, Zenon DEF SketchInv

(* A call that returns leaves the caller idle and the other calls alone. *)
LEMMA LeaveGives ==
  ASSUME SketchTyped, NEW t \in Clients, Leave(t)
  PROVE  /\ step' \in [Clients -> {"idle", "lock", "increment", "count", "counted"}]
         /\ sketch' \in [Clients -> Sketches] /\ key' \in [Clients -> Keys]
         /\ row' \in [Clients -> SketchRows] /\ reg' \in [Clients -> Nat] /\ before' \in [Clients -> Nat]
         /\ step'[t] = "idle"
         /\ \A u \in Clients \ {t} : /\ step'[u] = step[u] /\ sketch'[u] = sketch[u] /\ key'[u] = key[u]
                                     /\ row'[u] = row[u] /\ reg'[u] = reg[u] /\ before'[u] = before[u]
<1>1. SomeSketch \in Sketches /\ SomeKey \in Keys BY SketchAssumption, Zenon DEF SomeSketch, SomeKey
<1>2. 1 \in SketchRows /\ 0 \in Nat BY SketchAssumption DEF SketchRows
<1>3. /\ step \in [Clients -> {"idle", "lock", "increment", "count", "counted"}]
      /\ sketch \in [Clients -> Sketches] /\ key \in [Clients -> Keys] /\ row \in [Clients -> SketchRows]
      /\ reg \in [Clients -> Nat] /\ before \in [Clients -> Nat]
  BY Zenon DEF SketchTyped
<1>4. /\ step' = [step EXCEPT ![t] = "idle"]
      /\ sketch' = [sketch EXCEPT ![t] = SomeSketch] /\ key' = [key EXCEPT ![t] = SomeKey]
      /\ row' = [row EXCEPT ![t] = 1] /\ reg' = [reg EXCEPT ![t] = 0]
      /\ before' = [before EXCEPT ![t] = 0]
  BY Zenon DEF Leave
<1>5. step' \in [Clients -> {"idle", "lock", "increment", "count", "counted"}] BY Zenon, <1>3, <1>4
<1>6. sketch' \in [Clients -> Sketches] /\ key' \in [Clients -> Keys] BY Zenon, <1>1, <1>3, <1>4
<1>7. /\ row' \in [Clients -> SketchRows] /\ reg' \in [Clients -> Nat] /\ before' \in [Clients -> Nat]
  BY Zenon, <1>2, <1>3, <1>4
<1>8. step'[t] = "idle" BY <1>3, <1>4, Zenon
<1>9. \A u \in Clients \ {t} : /\ step'[u] = step[u] /\ sketch'[u] = sketch[u] /\ key'[u] = key[u]
                               /\ row'[u] = row[u] /\ reg'[u] = reg[u] /\ before'[u] = before[u]
  BY <1>3, <1>4, Zenon
<1> QED BY <1>5, <1>6, <1>7, <1>8, <1>9, Zenon

(* Returning an estimate changes no count. *)
LEMMA CountReturnKeeps ==
  ASSUME SketchInv, NEW t \in Clients, CountReturn(t)
  PROVE  SketchInv'
<1>1. /\ step[t] = "counted" /\ Leave(t) /\ matrix_' = matrix_ /\ alive' = alive /\ Mutex' = Mutex
      /\ begun' = begun /\ done' = done
  BY Zenon DEF CountReturn
<1>2. SketchTyped /\ CountsAdd /\ LockHeld /\ Estimates BY Zenon DEF SketchInv
<1>3. /\ step' \in [Clients -> {"idle", "lock", "increment", "count", "counted"}]
      /\ sketch' \in [Clients -> Sketches] /\ key' \in [Clients -> Keys]
      /\ row' \in [Clients -> SketchRows] /\ reg' \in [Clients -> Nat] /\ before' \in [Clients -> Nat]
      /\ step'[t] = "idle"
      /\ \A u \in Clients \ {t} : /\ step'[u] = step[u] /\ sketch'[u] = sketch[u] /\ key'[u] = key[u]
                                  /\ row'[u] = row[u] /\ reg'[u] = reg[u] /\ before'[u] = before[u]
  BY <1>1, <1>2, LeaveGives, Zenon
<1>4. SketchTyped' BY <1>1, <1>2, <1>3, Zenon DEF SketchTyped
<1>5. /\ step'[t] \notin {"lock", "increment", "count", "counted"}
      /\ step[t] \notin {"lock", "increment"} /\ step[t] # "increment" /\ step'[t] # "increment"
      /\ step'[t] \notin {"lock", "increment"} /\ step'[t] \notin {"count", "counted"}
  BY Zenon, <1>1, <1>3
<1>6. CountsAdd' BY <1>1, <1>2, <1>3, <1>5, CountsStay, Zenon
<1>7. LockHeld' BY <1>1, <1>2, <1>3, <1>5, LockStays, Zenon
<1>8. Estimates' BY <1>1, <1>2, <1>3, <1>5, Zenon DEF Estimates
<1> QED BY <1>4, <1>6, <1>7, <1>8, Zenon DEF SketchInv

(* What the write of row r of an insert on sketch z of key k changes. *)
LEMMA InsertWriteChanges ==
  ASSUME SketchInv, NEW t \in Clients, InsertWrite(t)
  PROVE  /\ SketchTyped' /\ step[t] = "increment" /\ step'[t] \in {"lock", "idle"}
         /\ Mutex' = NoClient /\ begun' = begun
         /\ \A u \in Clients \ {t} : /\ step'[u] = step[u] /\ sketch'[u] = sketch[u] /\ key'[u] = key[u]
                                     /\ row'[u] = row[u] /\ reg'[u] = reg[u] /\ before'[u] = before[u]
         /\ matrix_' = [matrix_ EXCEPT ![sketch[t]][MyCell(t)] = @ + 1]
         /\ IF row[t] = Depth
            THEN done' = [done EXCEPT ![sketch[t]][key[t]] = @ + 1] /\ step'[t] = "idle"
            ELSE /\ done' = done /\ step'[t] = "lock" /\ row'[t] = row[t] + 1
                 /\ sketch'[t] = sketch[t] /\ key'[t] = key[t]
<1> DEFINE m == matrix_[sketch[t]][MyCell(t)]
           C == Colliding(key[t], row[t])
<1>1. /\ step[t] = "increment" /\ Mutex' = NoClient /\ alive' = alive /\ begun' = begun
      /\ matrix_' = [matrix_ EXCEPT ![sketch[t]][MyCell(t)] = (reg[t] + 1) % U32]
      /\ \/ /\ row[t] = Depth /\ Leave(t)
            /\ done' = [done EXCEPT ![sketch[t]][key[t]] = @ + 1]
         \/ /\ row[t] # Depth /\ done' = done /\ step' = [step EXCEPT ![t] = "lock"]
            /\ row' = [row EXCEPT ![t] = @ + 1]
            /\ sketch' = sketch /\ key' = key /\ reg' = reg /\ before' = before
  BY Zenon DEF InsertWrite
<1>2. SketchTyped /\ CountsAdd /\ LockHeld BY Zenon DEF SketchInv
<1>3. /\ step \in [Clients -> {"idle", "lock", "increment", "count", "counted"}]
      /\ row \in [Clients -> SketchRows] /\ sketch[t] \in Sketches /\ key[t] \in Keys /\ row[t] \in SketchRows
      /\ matrix_ \in [Sketches -> [Cells -> Nat]] /\ done \in [Sketches -> [Keys -> Nat]]
  BY <1>2, Zenon DEF SketchTyped
<1>4. /\ m \in Nat /\ SumOf(begun[sketch[t]], C) \in Nat /\ SumOf(begun[sketch[t]], C) <= MaxInserts
  BY <1>2, <1>3, CounterBounds, Zenon DEF MyCell
<1>5. MyCell(t) \in Cells /\ key[t] \in C BY <1>3, CellsMeet, Zenon DEF MyCell
<1>6. m + 1 <= MaxInserts
  <2> DEFINE P == Pending(sketch[t], C, row[t])
  <2>1. row[t] <= row[t] BY <1>3 DEF SketchRows
  <2>2. t \in P BY <1>1, <1>5, <2>1, Zenon DEF Pending
  <2>3. IsFiniteSet(P) /\ Cardinality(P) \in Nat BY PendingFinite, Zenon
  <2>4. Cardinality(P) # 0 BY <2>2, <2>3, FS_EmptySet, Zenon
  <2>5. m + Cardinality(P) = SumOf(begun[sketch[t]], C) BY <1>2, <1>3, Zenon DEF CountsAdd, MyCell
  <2> QED BY <1>4, <2>3, <2>4, <2>5, SketchAssumption
<1>7. (m + 1) % U32 = m + 1
  <2>1. m + 1 \in Nat /\ m + 1 < U32 /\ U32 \in Nat BY <1>4, <1>6, SketchAssumption
  <2> QED BY Zenon, <2>1, SmallRemainder
<1>8. reg[t] = m BY <1>1, <1>2, Zenon DEF LockHeld
<1>9. matrix_' = [matrix_ EXCEPT ![sketch[t]][MyCell(t)] = @ + 1] BY <1>1, <1>7, <1>8, Zenon
<1>10. matrix_' \in [Sketches -> [Cells -> Nat]]
  <2>1. m + 1 \in Nat BY <1>4
  <2>2. matrix_' = [matrix_ EXCEPT ![sketch[t]][MyCell(t)] = m + 1] BY <1>9, Zenon
  <2> QED BY Zenon, <1>3, <1>5, <2>1, <2>2
<1>11. CASE row[t] = Depth /\ Leave(t) /\ done' = [done EXCEPT ![sketch[t]][key[t]] = @ + 1]
  <2>1. /\ step' \in [Clients -> {"idle", "lock", "increment", "count", "counted"}]
        /\ sketch' \in [Clients -> Sketches] /\ key' \in [Clients -> Keys]
        /\ row' \in [Clients -> SketchRows] /\ reg' \in [Clients -> Nat] /\ before' \in [Clients -> Nat]
        /\ step'[t] = "idle"
        /\ \A u \in Clients \ {t} : /\ step'[u] = step[u] /\ sketch'[u] = sketch[u] /\ key'[u] = key[u]
                                    /\ row'[u] = row[u] /\ reg'[u] = reg[u] /\ before'[u] = before[u]
    BY <1>2, <1>11, LeaveGives, Zenon
  <2>2. done' \in [Sketches -> [Keys -> Nat]] BY <1>3, <1>11
  <2>3. SketchTyped' BY <1>1, <1>2, <1>10, <2>1, <2>2, Zenon DEF SketchTyped
  <2> QED BY <1>1, <1>9, <1>11, <2>1, <2>3, Zenon
<1>12. CASE /\ row[t] # Depth /\ done' = done /\ step' = [step EXCEPT ![t] = "lock"]
            /\ row' = [row EXCEPT ![t] = @ + 1]
            /\ sketch' = sketch /\ key' = key /\ reg' = reg /\ before' = before
  <2>1. row[t] + 1 \in SketchRows BY <1>3, <1>12, SketchAssumption DEF SketchRows
  <2>2. row' \in [Clients -> SketchRows] /\ row'[t] = row[t] + 1 /\ \A u \in Clients \ {t} : row'[u] = row[u]
    BY Zenon, <1>3, <1>12, <2>1
  <2>3. /\ step' \in [Clients -> {"idle", "lock", "increment", "count", "counted"}] /\ step'[t] = "lock"
        /\ \A u \in Clients \ {t} : step'[u] = step[u]
    BY Zenon, <1>3, <1>12
  <2>4. SketchTyped' BY <1>1, <1>2, <1>10, <1>12, <2>2, <2>3, Zenon DEF SketchTyped
  <2> QED BY <1>1, <1>9, <1>12, <2>2, <2>3, <2>4, Zenon
<1> QED BY <1>1, <1>11, <1>12, Zenon

(* Writing a cell moves one insert from pending to counted. *)
LEMMA InsertWriteKeeps ==
  ASSUME SketchInv, NEW t \in Clients, InsertWrite(t)
  PROVE  SketchInv'
<1>1. SketchTyped /\ CountsAdd /\ LockHeld /\ Estimates BY Zenon DEF SketchInv
<1>0. PICK z \in Sketches, k \in Keys, r \in SketchRows : z = sketch[t] /\ k = key[t] /\ r = row[t]
  BY <1>1, Zenon DEF SketchTyped
<1> DEFINE counted == [matrix_[z] EXCEPT ![Cell(k, r)] = @ + 1]
           finished == [done[z] EXCEPT ![k] = @ + 1]
<1>2. /\ SketchTyped' /\ step[t] = "increment" /\ step'[t] \in {"lock", "idle"}
      /\ Mutex' = NoClient /\ begun' = begun
      /\ \A u \in Clients \ {t} : /\ step'[u] = step[u] /\ sketch'[u] = sketch[u] /\ key'[u] = key[u]
                                  /\ row'[u] = row[u] /\ reg'[u] = reg[u] /\ before'[u] = before[u]
      /\ matrix_' = [matrix_ EXCEPT ![z][Cell(k, r)] = @ + 1]
      /\ r = Depth => done' = [done EXCEPT ![z][k] = @ + 1] /\ step'[t] = "idle"
      /\ r # Depth => /\ done' = done /\ step'[t] = "lock" /\ row'[t] = r + 1
                      /\ sketch'[t] = z /\ key'[t] = k
  <2>1. /\ SketchTyped' /\ step[t] = "increment" /\ step'[t] \in {"lock", "idle"}
        /\ Mutex' = NoClient /\ begun' = begun
        /\ \A u \in Clients \ {t} : /\ step'[u] = step[u] /\ sketch'[u] = sketch[u] /\ key'[u] = key[u]
                                    /\ row'[u] = row[u] /\ reg'[u] = reg[u] /\ before'[u] = before[u]
        /\ matrix_' = [matrix_ EXCEPT ![sketch[t]][Cell(key[t], row[t])] = @ + 1]
        /\ IF row[t] = Depth
           THEN done' = [done EXCEPT ![sketch[t]][key[t]] = @ + 1] /\ step'[t] = "idle"
           ELSE /\ done' = done /\ step'[t] = "lock" /\ row'[t] = row[t] + 1
                /\ sketch'[t] = sketch[t] /\ key'[t] = key[t]
    BY InsertWriteChanges, Zenon DEF MyCell
  <2> QED BY <1>0, <2>1, Zenon
<1>3. /\ z \in Sketches /\ k \in Keys /\ r \in SketchRows /\ r \in Nat /\ Depth \in SketchRows
      /\ matrix_ \in [Sketches -> [Cells -> Nat]] /\ done \in [Sketches -> [Keys -> Nat]]
      /\ done[z] \in [Keys -> Nat] /\ Cell(k, r) \in Cells
  <2>1. r \in Nat /\ Depth \in SketchRows BY SketchAssumption DEF SketchRows
  <2>2. Cell(k, r) \in Cells BY CellsMeet, Zenon
  <2> QED BY <1>1, <2>1, <2>2, Zenon DEF SketchTyped
<1>4. /\ matrix_'[z] = counted /\ \A s \in Sketches \ {z} : matrix_'[s] = matrix_[s]
      /\ counted[Cell(k, r)] = matrix_[z][Cell(k, r)] + 1
      /\ \A c \in Cells \ {Cell(k, r)} : counted[c] = matrix_[z][c]
  BY Zenon, <1>2, <1>3
<1>5. ASSUME NEW s \in Sketches, NEW C \in SUBSET Keys, NEW j \in SketchRows
      PROVE  /\ t \in Pending(s, C, j) <=> s = z /\ k \in C /\ r <= j
             /\ j = r => Pending(s, C, j)' = Pending(s, C, j) \ {t}
             /\ j # r => Pending(s, C, j)' = Pending(s, C, j)
  <2>1. t \in Pending(s, C, j) <=> s = z /\ k \in C /\ r <= j BY <1>0, <1>2, Zenon DEF Pending
  <2>2. \A u \in Clients \ {t} : u \in Pending(s, C, j)' <=> u \in Pending(s, C, j)
    BY <1>2, Zenon DEF Pending
  <2>3. j = r => t \notin Pending(s, C, j)'
    <3>1. ~(r + 1 <= r) /\ "idle" \notin {"lock", "increment"} BY <1>3
    <3> QED BY <1>2, <3>1, Zenon DEF Pending
  <2>4. j # r => (t \in Pending(s, C, j)' <=> t \in Pending(s, C, j))
    <3>1. CASE r = Depth
      <4>1. j # r => ~(r <= j) BY <1>3, <3>1, SketchAssumption DEF SketchRows
      <4>2. "idle" \notin {"lock", "increment"} BY Zenon
      <4> QED BY <1>2, <2>1, <3>1, <4>1, <4>2, Zenon DEF Pending
    <3>2. CASE r # Depth
      <4>1. j \in Nat BY SketchAssumption DEF SketchRows
      <4>2. j # r => (r <= j <=> r + 1 <= j) BY <1>3, <4>1
      <4> QED BY <1>2, <2>1, <3>2, <4>2, Zenon DEF Pending
    <3> QED BY <3>1, <3>2, Zenon
  <2>5. Pending(s, C, j) \subseteq Clients /\ Pending(s, C, j)' \subseteq Clients BY Zenon DEF Pending
  <2>6. j = r => Pending(s, C, j)' = Pending(s, C, j) \ {t} BY <2>2, <2>3, <2>5, Zenon
  <2>7. ASSUME j # r, NEW u PROVE u \in Pending(s, C, j)' <=> u \in Pending(s, C, j)
    BY <2>2, <2>4, <2>5, <2>7, Zenon
  <2>8. j # r => Pending(s, C, j)' = Pending(s, C, j) BY <2>7, Zenon
  <2> QED BY <2>1, <2>6, <2>8, Zenon
(* its own row: one less to come, where this insert counts *)
<1>6. ASSUME NEW s \in Sketches, NEW C \in SUBSET Keys
      PROVE  /\ s = z /\ k \in C =>
                  Cardinality(Pending(s, C, r)) = Cardinality(Pending(s, C, r)') + 1
             /\ ~(s = z /\ k \in C) => Pending(s, C, r)' = Pending(s, C, r)
  <2>1. r <= r BY <1>3
  <2>2. /\ t \in Pending(s, C, r) <=> s = z /\ k \in C
        /\ Pending(s, C, r)' = Pending(s, C, r) \ {t}
    BY <1>3, <1>5, <2>1, Zenon
  <2>3. IsFiniteSet(Pending(s, C, r)) /\ Cardinality(Pending(s, C, r)) \in Nat BY PendingFinite, Zenon
  <2>4. t \in Pending(s, C, r) => Cardinality(Pending(s, C, r) \ {t}) = Cardinality(Pending(s, C, r)) - 1
    BY <2>3, FS_RemoveElement, Zenon
  <2>5. t \in Pending(s, C, r) => Cardinality(Pending(s, C, r)) = Cardinality(Pending(s, C, r) \ {t}) + 1
    BY <2>3, <2>4
  <2>6. t \notin Pending(s, C, r) => Pending(s, C, r) \ {t} = Pending(s, C, r) BY Zenon
  <2> QED BY <2>2, <2>5, <2>6, Zenon
<1>7. ASSUME NEW s \in Sketches, NEW C \in SUBSET Keys
      PROVE  Cardinality(Pending(s, C, r)) \in Nat /\ Cardinality(Pending(s, C, r)') \in Nat
  <2>1. Pending(s, C, r)' = Pending(s, C, r) \ {t} BY <1>3, <1>5, Zenon
  <2>2. IsFiniteSet(Pending(s, C, r)) /\ Cardinality(Pending(s, C, r)) \in Nat BY PendingFinite, Zenon
  <2>3. IsFiniteSet(Pending(s, C, r) \ {t}) BY <2>2, FS_RemoveElement, Zenon
  <2> QED BY <2>1, <2>2, <2>3, FS_CardinalityType, Zenon
<1>8. ASSUME NEW s \in Sketches, NEW C \in SUBSET Keys
      PROVE  SumOf(done'[s], C) + Cardinality(Pending(s, C, Depth)') = SumOf(begun'[s], C)
  <2>1. SumOf(done[s], C) + Cardinality(Pending(s, C, Depth)) = SumOf(begun[s], C)
    BY <1>1, Zenon DEF CountsAdd
  <2>2. CASE r # Depth
    <3>1. Pending(s, C, Depth)' = Pending(s, C, Depth) BY <1>3, <1>5, <2>2, Zenon
    <3> QED BY <1>2, <2>1, <2>2, <3>1, Zenon
  <2>3. CASE r = Depth
    <3>1. done' = [done EXCEPT ![z] = finished] BY Zenon, <1>2, <1>3, <2>3
    <3>2. done'[z] = finished /\ (s # z => done'[s] = done[s]) BY Zenon, <1>3, <3>1
    <3>3. CASE s = z /\ k \in C
      <4>1. SumOf(finished, C) = SumOf(done[z], C) + 1 BY <1>3, <3>3, SumAdds, Zenon
      <4>2. SumOf(done[z], C) \in Nat BY <1>3, SumNat, Zenon
      <4>3. Cardinality(Pending(s, C, r)) = Cardinality(Pending(s, C, r)') + 1 BY <1>6, <3>3, Zenon
      <4>4. SumOf(done[z], C) + Cardinality(Pending(s, C, r)) = SumOf(begun[s], C) BY <2>1, <2>3, <3>3, Zenon
      <4>5. SumOf(finished, C) + Cardinality(Pending(s, C, r)') = SumOf(begun[s], C)
        BY <1>7, <4>1, <4>2, <4>3, <4>4
      <4> QED BY <1>2, <2>3, <3>2, <3>3, <4>5, Zenon
    <3>4. CASE ~(s = z /\ k \in C)
      <4>1. Pending(s, C, Depth)' = Pending(s, C, Depth) BY <1>6, <2>3, <3>4, Zenon
      <4>2. SumOf(done'[s], C) = SumOf(done[s], C)
        <5>1. CASE s # z BY <3>2, <5>1, Zenon
        <5>2. CASE s = z
          <6>1. SumOf(finished, C) = SumOf(done[z], C) BY <1>3, <3>4, <5>2, SumAdds, Zenon
          <6> QED BY <3>2, <5>2, <6>1, Zenon
        <5> QED BY <5>1, <5>2, Zenon
      <4> QED BY <1>2, <2>1, <4>1, <4>2, Zenon
    <3> QED BY <3>3, <3>4, Zenon
  <2> QED BY <2>2, <2>3, Zenon
<1>9. ASSUME NEW s \in Sketches, NEW l \in Keys, NEW j \in SketchRows
      PROVE  matrix_'[s][Cell(l, j)] + Cardinality(Pending(s, Colliding(l, j), j)')
               = SumOf(begun'[s], Colliding(l, j))
  <2> DEFINE C == Colliding(l, j)
  <2>1. /\ Cell(l, j) \in Cells /\ C \in SUBSET Keys
        /\ Cell(k, r) = Cell(l, j) <=> r = j /\ k \in C
    BY <1>3, CellsMeet, Zenon
  <2>2. matrix_[s][Cell(l, j)] \in Nat /\ SumOf(begun[s], C) \in Nat BY <1>1, CounterBounds, Zenon
  <2>3. matrix_[s][Cell(l, j)] + Cardinality(Pending(s, C, j)) = SumOf(begun[s], C)
    BY <1>1, Zenon DEF CountsAdd
  <2>4. CASE s = z /\ r = j /\ k \in C
    <3>1. matrix_'[s][Cell(l, j)] = matrix_[s][Cell(l, j)] + 1 BY <1>4, <2>1, <2>4, Zenon
    <3>2. Cardinality(Pending(s, C, j)) = Cardinality(Pending(s, C, j)') + 1 BY <1>6, <2>1, <2>4, Zenon
    <3>3. Cardinality(Pending(s, C, j)') \in Nat BY <1>7, <2>1, <2>4, Zenon
    <3>4. matrix_'[s][Cell(l, j)] + Cardinality(Pending(s, C, j)') = SumOf(begun[s], C)
      BY <2>2, <2>3, <3>1, <3>2, <3>3
    <3> QED BY <1>2, <3>4, Zenon
  <2>5. CASE ~(s = z /\ r = j /\ k \in C)
    <3>1. matrix_'[s][Cell(l, j)] = matrix_[s][Cell(l, j)] BY <1>4, <2>1, <2>5, Zenon
    <3>2. Pending(s, C, j)' = Pending(s, C, j)
      <4>1. CASE j # r BY <1>5, <2>1, <4>1, Zenon
      <4>2. CASE j = r BY <1>6, <2>1, <2>5, <4>2, Zenon
      <4> QED BY <4>1, <4>2, Zenon
    <3> QED BY <1>2, <2>3, <3>1, <3>2, Zenon
  <2> QED BY <2>4, <2>5, Zenon
<1>10. CountsAdd' BY <1>1, <1>2, <1>8, <1>9, Zenon DEF CountsAdd
<1>11. LockHeld'
  <2>1. step'[t] # "increment" BY Zenon, <1>2
  <2>2. \A u \in Clients \ {t} : step[u] # "increment" BY <1>1, <1>2, Zenon DEF LockHeld
  <2>3. \A u \in Clients : step'[u] # "increment" /\ Mutex' # u BY <1>2, <2>1, <2>2, SketchAssumption, Zenon
  <2> QED BY <2>3, Zenon DEF LockHeld
<1>12. Estimates'
  <2>1. ASSUME NEW s \in Sketches, NEW l \in Keys PROVE done[s][l] \in Nat /\ done[s][l] <= done'[s][l]
    <3>1. done[s][l] \in Nat BY <1>3, Zenon
    <3>2. CASE r # Depth BY <1>2, <3>1, <3>2
    <3>3. CASE r = Depth
      <4>1. done' = [done EXCEPT ![z] = finished] BY Zenon, <1>2, <1>3, <3>3
      <4>2. finished[l] = done[z][l] + 1 \/ finished[l] = done[z][l] BY Zenon, <1>3
      <4>3. done'[s] = done[s] \/ (s = z /\ done'[s] = finished) BY Zenon, <1>3, <4>1
      <4>4. done'[s][l] = done[s][l] \/ done'[s][l] = done[s][l] + 1 BY <4>2, <4>3, Zenon
      <4> QED BY <3>1, <4>4
    <3> QED BY <3>2, <3>3, Zenon
  <2>2. ASSUME NEW u \in Clients, step'[u] \in {"count", "counted"}
        PROVE  /\ before'[u] <= reg'[u] /\ before'[u] <= done'[sketch'[u]][key'[u]]
               /\ \A j \in SketchRows : j < row'[u] \/ step'[u] = "counted" =>
                    reg'[u] <= SumOf(begun'[sketch'[u]], Colliding(key'[u], j))
    <3>1. u # t BY Zenon, <1>2, <2>2
    <3>2. /\ sketch[u] \in Sketches /\ key[u] \in Keys /\ before[u] \in Nat
          /\ done'[sketch[u]][key[u]] \in Nat
      <4>1. sketch[u] \in Sketches /\ key[u] \in Keys /\ before[u] \in Nat BY <1>1, Zenon DEF SketchTyped
      <4>2. done' \in [Sketches -> [Keys -> Nat]] BY <1>2, Zenon DEF SketchTyped
      <4> QED BY <4>1, <4>2, Zenon
    <3>3. before[u] <= done[sketch[u]][key[u]] BY <1>1, <1>2, <2>2, <3>1, Zenon DEF Estimates
    <3>4. /\ done[sketch[u]][key[u]] \in Nat /\ done[sketch[u]][key[u]] <= done'[sketch[u]][key[u]]
      BY <2>1, <3>2, Zenon
    <3>5. before[u] <= done'[sketch[u]][key[u]] BY <3>2, <3>3, <3>4
    <3> QED BY <1>1, <1>2, <2>2, <3>1, <3>5, Zenon DEF Estimates
  <2> QED BY <2>2, Zenon DEF Estimates
<1> QED BY <1>2, <1>10, <1>11, <1>12, Zenon DEF SketchInv

-----------------------------------------------------------------------------
(* The calls that are alone: with no insert under way, every counter of a    *)
(* sketch is exact.                                                          *)

Exact(m, b, d) ==
    /\ m \in [Cells -> Nat] /\ b \in [Keys -> Nat] /\ d \in [Keys -> Nat]
    /\ SumOf(b, Keys) <= MaxInserts
    /\ \A C \in SUBSET Keys : SumOf(d, C) = SumOf(b, C)
    /\ \A k \in Keys, j \in SketchRows : m[Cell(k, j)] = SumOf(b, Colliding(k, j))

(* With every client idle, nothing is pending. *)
LEMMA NonePending ==
  ASSUME Alone, NEW s, NEW C, NEW j
  PROVE  Cardinality(Pending(s, C, j)) = 0
<1>1. \A t \in Clients : step[t] \notin {"lock", "increment"} BY Zenon DEF Alone
<1>2. Pending(s, C, j) = {} BY <1>1, Zenon DEF Pending
<1> QED BY <1>2, FS_EmptySet, Zenon

(* With every client idle, the rows are exact. *)
LEMMA AloneExact ==
  ASSUME SketchInv, Alone, NEW s \in Sketches
  PROVE  Exact(matrix_[s], begun[s], done[s])
<1>1. SketchTyped /\ CountsAdd BY Zenon DEF SketchInv
<1>2. matrix_[s] \in [Cells -> Nat] /\ begun[s] \in [Keys -> Nat] /\ done[s] \in [Keys -> Nat]
  BY <1>1, Zenon DEF SketchTyped
<1>3. ASSUME NEW C \in SUBSET Keys PROVE SumOf(done[s], C) = SumOf(begun[s], C)
  <2>1. SumOf(done[s], C) + Cardinality(Pending(s, C, Depth)) = SumOf(begun[s], C)
    BY <1>1, Zenon DEF CountsAdd
  <2>2. SumOf(done[s], C) \in Nat BY <1>2, SumNat, Zenon
  <2>3. Cardinality(Pending(s, C, Depth)) = 0 BY NonePending, Zenon
  <2> QED BY <2>1, <2>2, <2>3
<1>4. ASSUME NEW k \in Keys, NEW j \in SketchRows
      PROVE  matrix_[s][Cell(k, j)] = SumOf(begun[s], Colliding(k, j))
  <2> DEFINE C == Colliding(k, j)
  <2>1. matrix_[s][Cell(k, j)] + Cardinality(Pending(s, C, j)) = SumOf(begun[s], C)
    BY <1>1, Zenon DEF CountsAdd
  <2>2. matrix_[s][Cell(k, j)] \in Nat BY <1>1, CounterBounds, Zenon
  <2>3. Cardinality(Pending(s, C, j)) = 0 BY NonePending, Zenon
  <2> QED BY <2>1, <2>2, <2>3
<1> QED BY <1>1, <1>2, <1>3, <1>4, Zenon DEF Exact, CountsAdd

(* A step of a call that is alone need only leave exact sketches behind. *)
LEMMA AloneKeeps ==
  ASSUME SketchInv, Alone, Quiet, alive' \subseteq Sketches,
         matrix_' = [s \in Sketches |-> matrix_'[s]], begun' = [s \in Sketches |-> begun'[s]],
         done' = [s \in Sketches |-> done'[s]],
         \A s \in Sketches : Exact(matrix_'[s], begun'[s], done'[s])
  PROVE  SketchInv'
<1>1. SketchTyped /\ LockHeld BY Zenon DEF SketchInv
<1>2. /\ Mutex' = Mutex /\ step' = step /\ sketch' = sketch /\ key' = key /\ row' = row
      /\ reg' = reg /\ before' = before
  BY Zenon DEF Quiet, call
<1>3. matrix_' \in [Sketches -> [Cells -> Nat]] BY Zenon DEF Exact
<1>4. begun' \in [Sketches -> [Keys -> Nat]] BY Zenon DEF Exact
<1>5. done' \in [Sketches -> [Keys -> Nat]] BY Zenon DEF Exact
<1>6. SketchTyped' BY <1>1, <1>2, <1>3, <1>4, <1>5, Zenon DEF SketchTyped
<1>7. ASSUME NEW s, NEW C, NEW j PROVE Cardinality(Pending(s, C, j)') = 0
  <2>1. Pending(s, C, j)' = Pending(s, C, j) BY <1>2, Zenon DEF Pending
  <2> QED BY <2>1, NonePending, Zenon
<1>8. ASSUME NEW s \in Sketches, NEW C \in SUBSET Keys
      PROVE  SumOf(done'[s], C) + Cardinality(Pending(s, C, Depth)') = SumOf(begun'[s], C)
  <2>1. SumOf(done'[s], C) = SumOf(begun'[s], C) /\ done'[s] \in [Keys -> Nat] BY Zenon DEF Exact
  <2>2. SumOf(done'[s], C) \in Nat BY <2>1, SumNat, Zenon
  <2>3. Cardinality(Pending(s, C, Depth)') = 0 BY <1>7, Zenon
  <2> QED BY <2>1, <2>2, <2>3
<1>9. ASSUME NEW s \in Sketches, NEW k \in Keys, NEW j \in SketchRows
      PROVE  matrix_'[s][Cell(k, j)] + Cardinality(Pending(s, Colliding(k, j), j)')
               = SumOf(begun'[s], Colliding(k, j))
  <2>1. matrix_'[s][Cell(k, j)] = SumOf(begun'[s], Colliding(k, j)) /\ begun'[s] \in [Keys -> Nat]
    BY Zenon DEF Exact
  <2>2. Colliding(k, j) \in SUBSET Keys BY CellsMeet, Zenon
  <2>3. SumOf(begun'[s], Colliding(k, j)) \in Nat BY <2>1, <2>2, SumNat, Zenon
  <2>4. Cardinality(Pending(s, Colliding(k, j), j)') = 0 BY <1>7, Zenon
  <2> QED BY <2>1, <2>3, <2>4
<1>10. \A s \in Sketches : SumOf(begun'[s], Keys) <= MaxInserts BY Zenon DEF Exact
<1>11. CountsAdd' BY <1>8, <1>9, <1>10, Zenon DEF CountsAdd
<1>12. \A t \in Clients : step'[t] # "increment" /\ step'[t] \notin {"count", "counted"}
  BY Zenon, <1>2 DEF Alone
<1>13. LockHeld' BY <1>1, <1>2, <1>12, Zenon DEF LockHeld
<1>14. Estimates' BY <1>12, Zenon DEF Estimates
<1> QED BY <1>6, <1>11, <1>13, <1>14, Zenon DEF SketchInv

(* Merge adds exact rows to exact rows. *)
LEMMA MergeKeeps ==
  ASSUME SketchInv, NEW d \in Sketches, NEW z \in Sketches, Merge(d, z)
  PROVE  SketchInv'
<1> DEFINE m == Added(matrix_[d], matrix_[z])
           b == [k \in Keys |-> begun[d][k] + begun[z][k]]
           f == [k \in Keys |-> done[d][k] + done[z][k]]
<1>1. /\ Alone /\ SumOf(begun[d], Keys) + SumOf(begun[z], Keys) <= MaxInserts
      /\ matrix_' = [matrix_ EXCEPT ![d] = m] /\ begun' = [begun EXCEPT ![d] = b]
      /\ done' = [done EXCEPT ![d] = f] /\ alive' = alive /\ Quiet
  BY Zenon DEF Merge, Total
<1>2. SketchTyped BY Zenon DEF SketchInv
<1>3. \A s \in Sketches : Exact(matrix_[s], begun[s], done[s]) BY <1>1, AloneExact, Zenon
<1>4. /\ matrix_[d] \in [Cells -> Nat] /\ matrix_[z] \in [Cells -> Nat]
      /\ begun[d] \in [Keys -> Nat] /\ begun[z] \in [Keys -> Nat]
      /\ done[d] \in [Keys -> Nat] /\ done[z] \in [Keys -> Nat]
  BY <1>3, Zenon DEF Exact
<1>5. \A C \in SUBSET Keys : SumOf(b, C) = SumOf(begun[d], C) + SumOf(begun[z], C)
  BY <1>4, SumOfSums, Zenon
<1>6. \A C \in SUBSET Keys : SumOf(f, C) = SumOf(done[d], C) + SumOf(done[z], C)
  BY <1>4, SumOfSums, Zenon
<1>7. b \in [Keys -> Nat] /\ f \in [Keys -> Nat] BY <1>4
<1>8. m \in [Cells -> Nat]
  <2>1. U32 \in Nat /\ U32 > 0 BY SketchAssumption
  <2>2. \A x, y \in Nat : (x + y) % U32 \in Nat BY <2>1
  <2> QED BY <1>4, <2>2, Zenon DEF Added
<1>9. ASSUME NEW k \in Keys, NEW j \in SketchRows PROVE m[Cell(k, j)] = SumOf(b, Colliding(k, j))
  <2> DEFINE C == Colliding(k, j)
             x == SumOf(begun[d], C)
             y == SumOf(begun[z], C)
  <2>1. Cell(k, j) \in Cells /\ C \in SUBSET Keys BY CellsMeet, Zenon
  <2>2. matrix_[d][Cell(k, j)] = x /\ matrix_[z][Cell(k, j)] = y BY <1>3, Zenon DEF Exact
  <2>3. x \in Nat /\ y \in Nat /\ SumOf(b, C) \in Nat /\ SumOf(b, Keys) \in Nat
    BY Zenon, <1>4, <1>7, <2>1, SumNat
  <2>4. SumOf(b, C) <= SumOf(b, Keys)
    <3>1. \A l \in C : b[l] <= b[l] BY <1>7, <2>1
    <3> QED BY <1>7, <2>1, <3>1, SumGrows, Zenon
  <2>5. SumOf(b, Keys) <= MaxInserts BY <1>1, <1>5, Zenon
  <2>6. SumOf(b, C) = x + y BY <1>5, <2>1, Zenon
  <2>7. x + y \in Nat /\ x + y < U32 /\ U32 \in Nat BY <2>3, <2>4, <2>5, <2>6, SketchAssumption
  <2>8. (x + y) % U32 = x + y BY <2>7, SmallRemainder, Zenon
  <2>9. m[Cell(k, j)] = (matrix_[d][Cell(k, j)] + matrix_[z][Cell(k, j)]) % U32 BY <2>1, Zenon DEF Added
  <2> QED BY <2>2, <2>6, <2>8, <2>9, Zenon
<1>10. \A C \in SUBSET Keys : SumOf(f, C) = SumOf(b, C) BY <1>3, <1>5, <1>6, Zenon DEF Exact
<1>11. SumOf(b, Keys) <= MaxInserts BY <1>1, <1>5, Zenon
<1>12. Exact(m, b, f) BY <1>7, <1>8, <1>9, <1>10, <1>11, Zenon DEF Exact
<1> HIDE DEF m, b, f
<1>13. /\ matrix_ \in [Sketches -> [Cells -> Nat]] /\ begun \in [Sketches -> [Keys -> Nat]]
       /\ done \in [Sketches -> [Keys -> Nat]] /\ alive \subseteq Sketches
  BY <1>2, Zenon DEF SketchTyped
<1>14. ASSUME NEW s \in Sketches PROVE Exact(matrix_'[s], begun'[s], done'[s])
  <2>1. CASE s = d
    <3>1. matrix_'[s] = m /\ begun'[s] = b /\ done'[s] = f BY <1>1, <1>13, <2>1, Zenon
    <3> QED BY <1>12, <3>1, Zenon
  <2>2. CASE s # d
    <3>1. matrix_'[s] = matrix_[s] /\ begun'[s] = begun[s] /\ done'[s] = done[s]
      BY <1>1, <1>13, <2>2, Zenon
    <3> QED BY <1>3, <3>1, Zenon
  <2> QED BY <2>1, <2>2, Zenon
<1>15. /\ matrix_' = [s \in Sketches |-> matrix_'[s]] /\ begun' = [s \in Sketches |-> begun'[s]]
       /\ done' = [s \in Sketches |-> done'[s]]
  BY Zenon, <1>1, <1>13
<1> QED BY <1>1, <1>13, <1>14, <1>15, AloneKeeps, Zenon

(* An empty sketch is exact. *)
LEMMA EmptyExact == Exact(Zero, NoKeys, NoKeys)
<1>1. Zero \in [Cells -> Nat] /\ NoKeys \in [Keys -> Nat] BY Zenon DEF Zero, NoKeys
<1>2. \A C \in SUBSET Keys : SumOf(NoKeys, C) = 0 BY SumZero, Zenon
<1>3. ASSUME NEW k \in Keys, NEW j \in SketchRows PROVE Zero[Cell(k, j)] = SumOf(NoKeys, Colliding(k, j))
  <2>1. Cell(k, j) \in Cells /\ Colliding(k, j) \in SUBSET Keys BY CellsMeet, Zenon
  <2>2. Zero[Cell(k, j)] = 0 BY <2>1, Zenon DEF Zero
  <2> QED BY <1>2, <2>1, <2>2, Zenon
<1>4. SumOf(NoKeys, Keys) <= MaxInserts BY <1>2, SketchAssumption
<1> QED BY <1>1, <1>2, <1>3, <1>4, Zenon DEF Exact

(* Clear empties a sketch and its history. *)
LEMMA ClearKeeps ==
  ASSUME SketchInv, NEW z \in Sketches, Clear(z)
  PROVE  SketchInv'
<1>1. /\ Alone /\ matrix_' = [matrix_ EXCEPT ![z] = Zero] /\ begun' = [begun EXCEPT ![z] = NoKeys]
      /\ done' = [done EXCEPT ![z] = NoKeys] /\ alive' = alive /\ Quiet
  BY Zenon DEF Clear, Cleared
<1>2. SketchTyped BY Zenon DEF SketchInv
<1>3. /\ matrix_ \in [Sketches -> [Cells -> Nat]] /\ begun \in [Sketches -> [Keys -> Nat]]
      /\ done \in [Sketches -> [Keys -> Nat]] /\ alive \subseteq Sketches
  BY <1>2, Zenon DEF SketchTyped
<1>4. ASSUME NEW s \in Sketches PROVE Exact(matrix_'[s], begun'[s], done'[s])
  <2>1. CASE s = z
    <3>1. matrix_'[s] = Zero /\ begun'[s] = NoKeys /\ done'[s] = NoKeys BY <1>1, <1>3, <2>1, Zenon
    <3> QED BY <3>1, EmptyExact, Zenon
  <2>2. CASE s # z
    <3>1. matrix_'[s] = matrix_[s] /\ begun'[s] = begun[s] /\ done'[s] = done[s]
      BY <1>1, <1>3, <2>2, Zenon
    <3> QED BY <1>1, <3>1, AloneExact, Zenon
  <2> QED BY <2>1, <2>2, Zenon
<1>5. /\ matrix_' = [s \in Sketches |-> matrix_'[s]] /\ begun' = [s \in Sketches |-> begun'[s]]
      /\ done' = [s \in Sketches |-> done'[s]]
  BY <1>1, <1>3, Zenon
<1> QED BY <1>1, <1>3, <1>4, <1>5, AloneKeeps, Zenon

(* Moving a sketch moves its counts. *)
LEMMA MoveKeeps ==
  ASSUME SketchInv, NEW d \in Sketches, NEW z \in Sketches, Move(d, z)
  PROVE  SketchInv'
<1>1. /\ Alone /\ d # z /\ matrix_' = [matrix_ EXCEPT ![d] = matrix_[z], ![z] = Zero]
      /\ begun' = [begun EXCEPT ![d] = begun[z], ![z] = NoKeys]
      /\ done' = [done EXCEPT ![d] = done[z], ![z] = NoKeys]
      /\ alive' = (alive \cup {d}) \ {z} /\ Quiet
  BY Zenon DEF Move
<1>2. SketchTyped BY Zenon DEF SketchInv
<1>3. /\ matrix_ \in [Sketches -> [Cells -> Nat]] /\ begun \in [Sketches -> [Keys -> Nat]]
      /\ done \in [Sketches -> [Keys -> Nat]] /\ alive' \subseteq Sketches
  BY <1>1, <1>2, Zenon DEF SketchTyped
<1>4. ASSUME NEW s \in Sketches PROVE Exact(matrix_'[s], begun'[s], done'[s])
  <2>1. CASE s = z
    <3>1. matrix_'[s] = Zero /\ begun'[s] = NoKeys /\ done'[s] = NoKeys BY <1>1, <1>3, <2>1, Zenon
    <3> QED BY <3>1, EmptyExact, Zenon
  <2>2. CASE s = d
    <3>1. matrix_'[s] = matrix_[z] /\ begun'[s] = begun[z] /\ done'[s] = done[z]
      BY <1>1, <1>3, <2>2, Zenon
    <3> QED BY <1>1, <3>1, AloneExact, Zenon
  <2>3. CASE s # z /\ s # d
    <3>1. matrix_'[s] = matrix_[s] /\ begun'[s] = begun[s] /\ done'[s] = done[s]
      BY <1>1, <1>3, <2>3, Zenon
    <3> QED BY <1>1, <3>1, AloneExact, Zenon
  <2> QED BY <2>1, <2>2, <2>3, Zenon
<1>5. /\ matrix_' = [s \in Sketches |-> matrix_'[s]] /\ begun' = [s \in Sketches |-> begun'[s]]
      /\ done' = [s \in Sketches |-> done'[s]]
  BY <1>1, <1>3, Zenon
<1> QED BY <1>1, <1>3, <1>4, <1>5, AloneKeeps, Zenon

-----------------------------------------------------------------------------
(* TopK: no estimate is below the inserts done, so a key that is not in the  *)
(* answer was not inserted more often than the last one in it is estimated.  *)

(* The least of the rows is at least the inserts of the key. *)
LEMMA EstimateCovers ==
  ASSUME SketchInv, NEW s \in Sketches, NEW k \in Keys
  PROVE  CountOf(s, k) \in Nat /\ done[s][k] \in Nat /\ done[s][k] <= CountOf(s, k)
<1> DEFINE S == {matrix_[s][Cell(k, j)] : j \in SketchRows} \cup {U32 - 1}
<1>1. SketchTyped /\ CountsAdd BY Zenon DEF SketchInv
<1>2. \A j \in SketchRows : /\ matrix_[s][Cell(k, j)] \in Nat /\ done[s][k] \in Nat
                            /\ done[s][k] <= matrix_[s][Cell(k, j)]
                            /\ matrix_[s][Cell(k, j)] <= SumOf(begun[s], Colliding(k, j))
                            /\ SumOf(begun[s], Colliding(k, j)) \in Nat
                            /\ SumOf(begun[s], Colliding(k, j)) <= MaxInserts
  BY Zenon, <1>1, CounterBounds
<1>3. 1 \in SketchRows /\ U32 - 1 \in Nat BY SketchAssumption DEF SketchRows
<1>4. done[s][k] \in Nat /\ done[s][k] <= U32 - 1 BY <1>2, <1>3, SketchAssumption
<1>5. S \in SUBSET Nat /\ S # {} BY <1>2, <1>3, Zenon
<1>6. \A n \in S : done[s][k] <= n BY <1>2, <1>4, Zenon
<1>7. \E m \in S : \A n \in S : m <= n BY <1>5, LeastExists, Zenon
<1>8. Minimum(S) \in S BY <1>7, Zenon DEF Minimum
<1> QED BY <1>4, <1>5, <1>6, <1>8, Zenon DEF CountOf

(* TopK returns the keys with the largest estimates. *)
LEMMA TopKFinds ==
  ASSUME SketchInv, NEW s \in Sketches, NEW n \in 1..2, TopK(s, n)
  PROVE  SketchInv' /\ HeavyKeysFound'
<1> DEFINE N == Cardinality(Keys)
<1>1. PICK order \in [1..N -> Keys] :
        /\ {order[i] : i \in DOMAIN order} = Keys
        /\ \A i, j \in DOMAIN order : i < j => CountOf(s, order[i]) >= CountOf(s, order[j])
        /\ top' = [sketch |-> s, k |-> n,
                   result |-> [i \in 1..Lower(n, Len(order)) |-> <<order[i], CountOf(s, order[i])>>]]
  BY Zenon DEF TopK, Ordered, Descending
<1>2. /\ matrix_' = matrix_ /\ alive' = alive /\ Mutex' = Mutex /\ step' = step /\ sketch' = sketch
      /\ key' = key /\ row' = row /\ reg' = reg /\ before' = before /\ begun' = begun /\ done' = done
  BY Zenon DEF TopK, call
<1>3. SketchInv'
  <2>1. SketchTyped /\ CountsAdd /\ LockHeld /\ Estimates BY Zenon DEF SketchInv
  <2>2. SketchTyped' BY <1>2, <2>1, Zenon DEF SketchTyped
  <2>3. CountsAdd' BY <1>2, <2>1, CountsStay, Zenon
  <2>4. LockHeld' BY <1>2, <2>1, Zenon DEF LockHeld, MyCell
  <2>5. Estimates' BY <1>2, <2>1, Zenon DEF Estimates
  <2> QED BY <2>2, <2>3, <2>4, <2>5, Zenon DEF SketchInv
<1>4. N \in Nat /\ N # 0 BY SketchAssumption, FS_CardinalityType, FS_EmptySet, Zenon
<1> DEFINE L == Lower(n, N)
           a == [i \in 1..L |-> <<order[i], CountOf(s, order[i])>>]
<1>5. Len(order) = N /\ DOMAIN order = 1..N BY <1>4
<1>6. L \in 1..N /\ L \in 1..L /\ L \in Nat /\ (L < N => L = n) BY <1>4 DEF Lower
<1>7. top'.result = a /\ top'.sketch = s BY Zenon, <1>1, <1>5
<1>8. Len(a) = L /\ a[L][2] = CountOf(s, order[L]) /\ DOMAIN a = 1..L BY <1>6
<1>9. ASSUME NEW k \in Keys, done[s][k] > CountOf(s, order[L]) PROVE \E i \in 1..L : a[i][1] = k
  <2>1. PICK i \in 1..N : order[i] = k BY <1>1, <1>5, Zenon
  <2>2. CASE i \in 1..L
    <3>1. a[i][1] = k BY Zenon, <2>1, <2>2
    <3> QED BY <2>2, <3>1, Zenon
  <2>3. CASE i \notin 1..L
    <3>1. L < i BY <1>4, <1>6, <2>3
    <3>2. CountOf(s, order[L]) >= CountOf(s, order[i]) BY <1>1, <1>5, <1>6, <3>1, Zenon
    <3>3. order[L] \in Keys /\ order[i] = k BY <1>6, <2>1, Zenon
    <3>4. /\ CountOf(s, k) \in Nat /\ done[s][k] \in Nat /\ done[s][k] <= CountOf(s, k)
          /\ CountOf(s, order[L]) \in Nat
      BY <3>3, EstimateCovers, Zenon
    <3> QED BY <1>9, <3>2, <3>3, <3>4
  <2> QED BY <2>2, <2>3, Zenon
<1>10. HeavyKeysFound'
  <2>1. ASSUME NEW k \in Keys, done'[top'.sketch][k] > top'.result[Len(top'.result)][2]
        PROVE  \E i \in DOMAIN top'.result : top'.result[i][1] = k
    <3>1. done[s][k] > CountOf(s, order[L]) BY <1>2, <1>7, <1>8, <2>1, Zenon
    <3>2. \E i \in 1..L : a[i][1] = k BY <1>9, <3>1, Zenon
    <3> QED BY <1>7, <1>8, <3>2, Zenon
  <2> QED BY <2>1, Zenon DEF HeavyKeysFound
<1> QED BY <1>3, <1>10, Zenon

-----------------------------------------------------------------------------
(* New sketches satisfy the invariant. *)
LEMMA SketchStarts ==
  ASSUME SketchInit
  PROVE  SketchInv /\ HeavyKeysFound
<1>1. SomeSketch \in Sketches /\ SomeKey \in Keys BY SketchAssumption, Zenon DEF SomeSketch, SomeKey
<1>2. 1 \in SketchRows /\ 0 \in Nat BY SketchAssumption DEF SketchRows
<1>3. Exact(Zero, NoKeys, NoKeys) BY Zenon, EmptyExact
<1>4. /\ \A s \in Sketches : matrix_[s] = Zero /\ begun[s] = NoKeys /\ done[s] = NoKeys
      /\ Mutex = NoClient /\ top = NoTop /\ alive = Sketches
      /\ \A t \in Clients : step[t] = "idle"
  BY Zenon DEF SketchInit
<1>5. SketchTyped
  <2>1. Zero \in [Cells -> Nat] /\ NoKeys \in [Keys -> Nat] BY <1>3, Zenon DEF Exact
  <2>2. step \in [Clients -> {"idle", "lock", "increment", "count", "counted"}] BY Zenon DEF SketchInit
  <2>3. /\ sketch \in [Clients -> Sketches] /\ key \in [Clients -> Keys]
        /\ row \in [Clients -> SketchRows] /\ reg \in [Clients -> Nat] /\ before \in [Clients -> Nat]
    BY <1>1, <1>2, Zenon DEF SketchInit
  <2>4. /\ matrix_ \in [Sketches -> [Cells -> Nat]] /\ begun \in [Sketches -> [Keys -> Nat]]
        /\ done \in [Sketches -> [Keys -> Nat]]
    BY <2>1, Zenon DEF SketchInit
  <2> QED BY <1>4, <2>2, <2>3, <2>4, Zenon DEF SketchTyped
<1>6. Alone BY <1>4, Zenon DEF Alone
<1>7. CountsAdd
  <2>1. ASSUME NEW s \in Sketches, NEW C \in SUBSET Keys
        PROVE  SumOf(done[s], C) + Cardinality(Pending(s, C, Depth)) = SumOf(begun[s], C)
    <3>1. SumOf(NoKeys, C) = 0 BY SumZero, Zenon
    <3>2. Cardinality(Pending(s, C, Depth)) = 0 BY <1>6, NonePending, Zenon
    <3> QED BY <1>4, <3>1, <3>2
  <2>2. ASSUME NEW s \in Sketches, NEW k \in Keys, NEW j \in SketchRows
        PROVE  matrix_[s][Cell(k, j)] + Cardinality(Pending(s, Colliding(k, j), j))
                 = SumOf(begun[s], Colliding(k, j))
    <3>1. Colliding(k, j) \in SUBSET Keys BY CellsMeet, Zenon
    <3>2. SumOf(NoKeys, Colliding(k, j)) = 0 BY <3>1, SumZero, Zenon
    <3>3. Zero[Cell(k, j)] = 0 BY <1>3, <3>2, Zenon DEF Exact
    <3>4. Cardinality(Pending(s, Colliding(k, j), j)) = 0 BY <1>6, NonePending, Zenon
    <3> QED BY <1>4, <3>2, <3>3, <3>4
  <2>3. \A s \in Sketches : SumOf(begun[s], Keys) <= MaxInserts BY <1>3, <1>4, Zenon DEF Exact
  <2> QED BY <2>1, <2>2, <2>3, Zenon DEF CountsAdd
<1>8. \A t \in Clients : step[t] # "increment" /\ step[t] \notin {"count", "counted"} BY Zenon, <1>4
<1>9. LockHeld BY <1>4, <1>8, SketchAssumption, Zenon DEF LockHeld
<1>10. Estimates BY <1>8, Zenon DEF Estimates
<1>11. HeavyKeysFound BY <1>4, Zenon DEF HeavyKeysFound
<1> QED BY <1>5, <1>7, <1>9, <1>10, <1>11, Zenon DEF SketchInv

(* Every step keeps the invariant. *)
LEMMA SketchStepKeeps ==
  ASSUME SketchInv, SketchNext
  PROVE  SketchInv' /\ HeavyKeysFound'
<1>1. ASSUME NEW s \in Sketches, NEW n \in 1..2, TopK(s, n) PROVE SketchInv' /\ HeavyKeysFound'
  BY <1>1, TopKFinds, Zenon
<1>2. ASSUME NEW t \in Clients, InsertRead(t) \/ InsertWrite(t) \/ CountRow(t) \/ CountReturn(t)
      PROVE  SketchInv' /\ top' = NoTop
  <2>1. SketchInv' BY <1>2, InsertReadKeeps, InsertWriteKeeps, CountRowKeeps, CountReturnKeeps, Zenon
  <2>2. top' = NoTop BY <1>2, Zenon DEF InsertRead, InsertWrite, CountRow, CountReturn
  <2> QED BY Zenon, <2>1, <2>2
<1>3. ASSUME NEW t \in Clients, NEW s \in Sketches, NEW k \in Keys, InsertStart(t, s, k) \/ CountStart(t, s, k)
      PROVE  SketchInv' /\ top' = NoTop
  <2>1. SketchInv' BY <1>3, InsertStartKeeps, CountStartKeeps, Zenon
  <2>2. top' = NoTop BY <1>3, Zenon DEF InsertStart, CountStart
  <2> QED BY Zenon, <2>1, <2>2
<1>4. ASSUME NEW d \in Sketches, NEW s \in Sketches, Merge(d, s) \/ Move(d, s) \/ Clear(s)
      PROVE  SketchInv' /\ top' = NoTop
  <2>1. SketchInv' BY <1>4, MergeKeeps, MoveKeeps, ClearKeeps, Zenon
  <2>2. top' = NoTop BY <1>4, Zenon DEF Merge, Move, Clear, Quiet
  <2> QED BY Zenon, <2>1, <2>2
<1>5. top' = NoTop => HeavyKeysFound' BY Zenon DEF HeavyKeysFound
<1> QED BY <1>1, <1>2, <1>3, <1>4, <1>5, Zenon DEF SketchNext

(* The invariant gives what the run checks. *)
LEMMA SketchFollows ==
  ASSUME SketchInv, HeavyKeysFound
  PROVE  SketchesSound
<1>1. SketchTyped /\ CountsAdd /\ Estimates BY Zenon DEF SketchInv
<1>2. CountBounds
  <2>1. ASSUME NEW t \in Clients, step[t] = "counted"
        PROVE  /\ reg[t] >= before[t]
               /\ \A j \in SketchRows : reg[t] <= SumOf(begun[sketch[t]], Colliding(key[t], j))
    <3>1. step[t] \in {"count", "counted"} BY Zenon, <2>1
    <3>2. before[t] <= reg[t] /\ before[t] \in Nat /\ reg[t] \in Nat
      BY <1>1, <3>1, Zenon DEF Estimates, SketchTyped
    <3>3. \A j \in SketchRows : reg[t] <= SumOf(begun[sketch[t]], Colliding(key[t], j))
      BY <1>1, <2>1, <3>1, Zenon DEF Estimates
    <3>4. reg[t] >= before[t] BY Zenon, <3>2
    <3> QED BY <3>3, <3>4, Zenon
  <2> QED BY <2>1, Zenon DEF CountBounds
<1>3. NothingLost
  <2>1. ASSUME Alone, NEW s \in alive, NEW k \in Keys, NEW j \in SketchRows
        PROVE  matrix_[s][Cell(k, j)] = SumOf(done[s], Colliding(k, j))
    <3>1. s \in Sketches BY <1>1, Zenon DEF SketchTyped
    <3>2. Colliding(k, j) \in SUBSET Keys BY CellsMeet, Zenon
    <3>3. Exact(matrix_[s], begun[s], done[s]) BY <2>1, <3>1, AloneExact, Zenon
    <3> QED BY <3>2, <3>3, Zenon DEF Exact
  <2> QED BY <2>1, Zenon DEF NothingLost
<1> QED BY <1>2, <1>3, Zenon DEF SketchesSound

(* SketchesAlwaysSound: for any number of threads, sketches, keys and rows   *)
(* and any hash functions, Count never returns less than the inserts that    *)
(* had finished when it was called nor more than those begun of the keys     *)
(* that share a counter, no increment is lost, also over Merge, Clear and    *)
(* moves, and TopK misses no key inserted more often than its last estimate. *)
THEOREM SketchesAlwaysSound == SketchSpec => []SketchesSound
<1> DEFINE I == SketchInv /\ HeavyKeysFound
<1>1. SketchInit => I BY SketchStarts, Zenon
<1>2. I /\ [SketchNext]_sketchVars => I'
  <2>1. ASSUME I, UNCHANGED sketchVars PROVE I'
    <3>1. /\ matrix_' = matrix_ /\ alive' = alive /\ Mutex' = Mutex /\ step' = step
          /\ sketch' = sketch /\ key' = key /\ row' = row /\ reg' = reg /\ before' = before
          /\ begun' = begun /\ done' = done /\ top' = top
      BY <2>1, Zenon DEF sketchVars
    <3>2. SketchTyped /\ CountsAdd /\ LockHeld /\ Estimates /\ HeavyKeysFound BY <2>1, Zenon DEF SketchInv
    <3>3. SketchTyped' BY <3>1, <3>2, Zenon DEF SketchTyped
    <3>4. CountsAdd' BY <3>1, <3>2, CountsStay, Zenon
    <3>5. LockHeld' BY <3>1, <3>2, Zenon DEF LockHeld, MyCell
    <3>6. Estimates' /\ HeavyKeysFound' BY <3>1, <3>2, Zenon DEF Estimates, HeavyKeysFound
    <3> QED BY <3>3, <3>4, <3>5, <3>6, Zenon DEF SketchInv
  <2>2. ASSUME I, SketchNext PROVE I' BY <2>2, SketchStepKeeps, Zenon
  <2> QED BY <2>1, <2>2, Zenon
<1>3. I => SketchesSound BY SketchFollows, Zenon
<1> QED BY <1>1, <1>2, <1>3, PTL DEF SketchSpec
=============================================================================
