------------------------- MODULE TypeSystemProofs --------------------------
(***************************************************************************)
(* The type system for integers of every width: arithmetic and casts are   *)
(* exact or refused, the types agree on their order, and the two families  *)
(* of casts agree with each other.                                         *)
(***************************************************************************)
EXTENDS TypeSystem, FiniteSetTheorems, TLAPS

(* Leaves go to the SMT solver unless they name another prover. *)
USE SMTT(30)

-----------------------------------------------------------------------------
(* Division with remainder *)

LEMMA DivMod ==
    ASSUME NEW a \in Int, NEW b \in Nat \ {0}
    PROVE  /\ a \div b \in Int /\ a % b \in 0..(b - 1)
           /\ a = b * (a \div b) + (a % b)
  OBVIOUS

LEMMA DivModUnique ==
    ASSUME NEW a \in Int, NEW b \in Nat \ {0}, NEW q \in Int, NEW r \in 0..(b - 1), a = b * q + r
    PROVE  a % b = r /\ a \div b = q
  <1> DEFINE d == (a \div b) - q
  <1>1. a \div b \in Int /\ a % b \in 0..(b - 1) /\ a = b * (a \div b) + (a % b) BY Zenon, DivMod
  <1>2. d \in Int /\ a \div b = q + d BY <1>1
  <1> HIDE DEF d
  <1>3. b * (q + d) = b * q + b * d BY <1>2
  <1>4. b * d \in Int /\ b * d = r - (a % b) BY <1>1, <1>2, <1>3
  <1>5. -b < b * d /\ b * d < b BY <1>1, <1>4
  <1>6. ~(d >= 1)
    <2> SUFFICES ASSUME d >= 1 PROVE FALSE BY Zenon
    <2>1. b * d >= b BY <1>2
    <2> QED BY <1>4, <1>5, <2>1
  <1>7. ~(d <= -1)
    <2> SUFFICES ASSUME d <= -1 PROVE FALSE BY Zenon
    <2>1. b * (-d) >= b BY <1>2
    <2>2. b * (-d) = -(b * d) BY <1>2
    <2> QED BY <1>4, <1>5, <2>1, <2>2
  <1>8. d = 0 BY <1>2, <1>6, <1>7
  <1> QED BY <1>1, <1>2, <1>4, <1>8

(* Whether n is a number of the C++ type with half range h. *)
Fits(n, h) == -h <= n /\ n < h

(* static_cast: a number of the type that differs by a multiple of 2h. *)
LEMMA WrapType ==
    ASSUME NEW n \in Int, NEW h \in Nat \ {0}
    PROVE  /\ Wrap(n, h) \in Int /\ Fits(Wrap(n, h), h)
           /\ \E k \in Int : n = Wrap(n, h) + 2 * (h * k)
  <1>1. 2 * h \in Nat \ {0} /\ n + h \in Int OBVIOUS
  <1> DEFINE q == (n + h) \div (2 * h)
  <1>2. /\ q \in Int /\ (n + h) % (2 * h) \in 0..(2 * h - 1)
        /\ n + h = (2 * h) * q + ((n + h) % (2 * h))
    BY Zenon, <1>1, DivMod
  <1> HIDE DEF q
  <1>3. (2 * h) * q = 2 * (h * q) /\ h * q \in Int BY <1>2
  <1>4. n = Wrap(n, h) + 2 * (h * q) BY <1>2, <1>3 DEF Wrap
  <1>5. Wrap(n, h) \in Int /\ Fits(Wrap(n, h), h) BY <1>2 DEF Wrap, Fits
  <1> QED BY Zenon, <1>2, <1>4, <1>5

LEMMA WrapTo ==
    ASSUME NEW n \in Int, NEW h \in Nat \ {0}, NEW m \in Int, Fits(m, h), NEW k \in Int, n = m + 2 * (h * k)
    PROVE  Wrap(n, h) = m
  <1>1. 2 * h \in Nat \ {0} /\ n + h \in Int /\ h * k \in Int OBVIOUS
  <1>2. m + h \in 0..(2 * h - 1) BY DEF Fits
  <1>3. (2 * h) * k = 2 * (h * k) OBVIOUS
  <1>4. n + h = (2 * h) * k + (m + h) BY <1>1, <1>3
  <1>5. (n + h) % (2 * h) = m + h BY Zenon, <1>1, <1>2, <1>4, DivModUnique
  <1> QED BY <1>5 DEF Wrap

LEMMA WrapFits ==
    ASSUME NEW n \in Int, NEW h \in Nat \ {0}
    PROVE  Wrap(n, h) = n <=> Fits(n, h)
  <1>1. Wrap(n, h) = n => Fits(n, h) BY Zenon, WrapType
  <1>2. ASSUME Fits(n, h) PROVE Wrap(n, h) = n
    <2>1. n = n + 2 * (h * 0) OBVIOUS
    <2> QED BY <1>2, <2>1, WrapTo
  <1> QED BY Zenon, <1>1, <1>2

(* C++ division and remainder *)
LEMMA QuotRem ==
    ASSUME NEW x \in Int, NEW y \in Int \ {0}
    PROVE  /\ Quot(x, y) \in Int /\ Rem(x, y) \in Int /\ x = Quot(x, y) * y + Rem(x, y)
           /\ Abs(Quot(x, y)) <= Abs(x) /\ Abs(Rem(x, y)) <= Abs(x)
           /\ Abs(Rem(x, y)) < Abs(y)
           /\ (x >= 0 => Rem(x, y) >= 0) /\ (x <= 0 => Rem(x, y) <= 0)
  <1> DEFINE a == Abs(x)
             b == Abs(y)
             q == a \div b
             r == a % b
  <1>1. a \in Nat /\ b \in Nat \ {0} BY DEF Abs
  <1>2. q \in Int /\ r \in 0..(b - 1) /\ a = b * q + r
    <2> HIDE DEF a, b
    <2> QED BY <1>1, DivMod
  <1>3. Quot(x, y) = IF (x < 0) = (y < 0) THEN q ELSE -q BY Zenon DEF Quot
  <1>4. (x = a \/ x = -a) /\ (x < 0 => x = -a) /\ (~(x < 0) => x = a)
        /\ (y < 0 => y = -b) /\ (~(y < 0) => y = b)
    BY DEF Abs
  <1> HIDE DEF a, b, q, r
  <1>5. q >= 0
    <2> SUFFICES ASSUME q <= -1 PROVE FALSE BY <1>2
    <2>1. b * (-q) >= b BY <1>1, <1>2
    <2>2. b * (-q) = -(b * q) /\ b * q \in Int BY <1>1, <1>2
    <2> QED BY <1>1, <1>2, <2>1, <2>2
  <1>6. b * q >= q /\ b * q \in Nat BY <1>1, <1>2, <1>5
  <1>7. q <= a /\ r <= a /\ r \in Nat /\ r < b BY <1>1, <1>2, <1>6
  <1>8. q * b = b * q /\ (-q) * b = -(b * q) /\ q * (-b) = -(b * q) /\ (-q) * (-b) = b * q
    BY <1>1, <1>2
  <1>9. Quot(x, y) * y = IF x < 0 THEN -(b * q) ELSE b * q
    <2>1. CASE x < 0 /\ y < 0 BY Zenon, <1>3, <1>4, <1>8, <2>1
    <2>2. CASE x < 0 /\ ~(y < 0) BY Zenon, <1>3, <1>4, <1>8, <2>2
    <2>3. CASE ~(x < 0) /\ y < 0 BY Zenon, <1>3, <1>4, <1>8, <2>3
    <2>4. CASE ~(x < 0) /\ ~(y < 0) BY <1>3, <1>4, <1>8, <2>4
    <2> QED BY Zenon, <2>1, <2>2, <2>3, <2>4
  <1>10. Rem(x, y) = IF x < 0 THEN -r ELSE r BY <1>2, <1>4, <1>6, <1>9 DEF Rem
  <1>11. Quot(x, y) \in Int /\ Abs(Quot(x, y)) = q BY <1>2, <1>3, <1>5 DEF Abs
  <1>12. Rem(x, y) \in Int /\ Abs(Rem(x, y)) = r BY <1>7, <1>10 DEF Abs
  <1>13. x = Quot(x, y) * y + Rem(x, y) BY <1>2, <1>4, <1>6, <1>7, <1>9, <1>10
  <1>14. a = Abs(x) /\ b = Abs(y) BY Zenon DEF a, b
  <1>15. (x >= 0 => Rem(x, y) >= 0) /\ (x <= 0 => Rem(x, y) <= 0)
    <2>1. x = 0 => r = 0 BY <1>1, <1>4, <1>7
    <2> QED BY <1>7, <1>10, <2>1
  <1> QED BY Zenon, <1>7, <1>11, <1>12, <1>13, <1>14, <1>15

(* The quotient is the whole part: nothing smaller in magnitude will do. *)
LEMMA QuotUnique ==
    ASSUME NEW x \in Int, NEW y \in Int \ {0}, NEW k \in Int, x = k * y
    PROVE  Quot(x, y) = k
  <1> DEFINE d == Quot(x, y) - k
  <1>1. Quot(x, y) \in Int /\ Rem(x, y) \in Int /\ x = Quot(x, y) * y + Rem(x, y) /\ Abs(Rem(x, y)) < Abs(y)
    BY Zenon, QuotRem
  <1>2. d \in Int /\ Quot(x, y) = k + d BY <1>1
  <1> HIDE DEF d
  <1>3. (k + d) * y = k * y + d * y /\ d * y \in Int BY <1>2
  <1>4. d * y = -Rem(x, y) BY <1>1, <1>2, <1>3
  <1>5. Abs(d * y) < Abs(y) BY <1>1, <1>4 DEF Abs
  <1>6. d # 0 => Abs(d * y) >= Abs(y)
    <2>1. CASE d >= 1 /\ y > 0 BY <1>2, <2>1 DEF Abs
    <2>2. CASE d >= 1 /\ y < 0
      <3>1. d * (-y) >= -y /\ d * (-y) = -(d * y) BY <1>2, <2>2
      <3> QED BY <1>3, <2>2, <3>1 DEF Abs
    <2>3. CASE d <= -1 /\ y > 0
      <3>1. (-d) * y >= y /\ (-d) * y = -(d * y) BY <1>2, <2>3
      <3> QED BY <1>3, <2>3, <3>1 DEF Abs
    <2>4. CASE d <= -1 /\ y < 0
      <3>1. (-d) * (-y) >= -y /\ (-d) * (-y) = d * y BY <1>2, <2>4
      <3> QED BY <1>3, <2>4, <3>1 DEF Abs
    <2> QED BY <1>2, <2>1, <2>2, <2>3, <2>4
  <1>7. d = 0
    <2>1. Abs(d * y) \in Int /\ Abs(y) \in Int BY <1>3 DEF Abs
    <2> QED BY <1>5, <1>6, <2>1
  <1> QED BY <1>2, <1>7

-----------------------------------------------------------------------------
(* The checked arithmetic of IntegerParentType *)

\* what HalfAssumption says of two integer types: either the result is computed in the wider
\* of the two, or both are so narrow that their products fit in an int
Widths(h1, h2) ==
  /\ h1 \in Nat \ {0} /\ h2 \in Nat \ {0}
  /\ \/ Promoted(h1, h2) = Wider(h1, h2)
     \/ Promoted(h1, h2) \in Nat /\ Wider(h1, h2) * Wider(h1, h2) <= Promoted(h1, h2)
\* a number of the type that is not its sentinel
NonNull(x, h) == x \in Int /\ -h < x /\ x < h

LEMMA IntegerWidths ==
    ASSUME NEW t \in IntegerTypes, NEW u \in IntegerTypes
    PROVE  Widths(Half[t], Half[u])
  <1>1. Half[t] \in Nat \ {0} /\ Half[u] \in Nat \ {0} BY Zenon, HalfAssumption
  <1>2. HalfInt \in Nat \ {0} BY Zenon, HalfIntAssumption
  <1>3. CASE t \in {"INTEGER", "BIGINT"} \/ u \in {"INTEGER", "BIGINT"}
    <2>1. Promoted(Half[t], Half[u]) = Wider(Half[t], Half[u])
      BY <1>1, <1>3, HalfAssumption DEF Promoted, Wider, IntegerTypes
    <2> QED BY Zenon, <1>1, <2>1 DEF Widths
  <1>4. CASE t \in {"TINYINT", "SMALLINT"} /\ u \in {"TINYINT", "SMALLINT"}
    <2> DEFINE w == Wider(Half[t], Half[u])
               s == Half["SMALLINT"]
    <2>1. w \in Nat /\ s \in Nat /\ w <= s BY <1>1, <1>4, HalfAssumption DEF Wider, IntegerTypes
    <2>2. Promoted(Half[t], Half[u]) = HalfInt BY <1>1, <1>4, HalfAssumption DEF Promoted, IntegerTypes
    <2>3. s * s <= HalfInt BY Zenon, HalfAssumption
    <2> HIDE DEF w, s
    <2>4. w * w <= w * s /\ w * s <= s * s BY <2>1
    <2>5. w * w \in Int /\ w * s \in Int /\ s * s \in Int BY <2>1
    <2>6. w * w <= HalfInt BY <1>2, <2>3, <2>4, <2>5
    <2> QED BY Zenon, <1>1, <1>2, <2>2, <2>6 DEF Widths, w
  <1> QED BY Zenon, <1>3, <1>4 DEF IntegerTypes

LEMMA WiderBounds ==
    ASSUME NEW h1, NEW h2, Widths(h1, h2), NEW x, NEW y, NonNull(x, h1), NonNull(y, h2)
    PROVE  /\ Wider(h1, h2) \in Nat \ {0} /\ x \in Int /\ y \in Int
           /\ Wider(h1, h2) \in {h1, h2} /\ h1 <= Wider(h1, h2) /\ h2 <= Wider(h1, h2)
           /\ NonNull(x, Wider(h1, h2)) /\ NonNull(y, Wider(h1, h2))
  BY DEF Widths, Wider, NonNull

LEMMA ProductBound ==
    ASSUME NEW w \in Nat \ {0}, NEW x, NEW y, NonNull(x, w), NonNull(y, w)
    PROVE  -(w * w) < x * y /\ x * y < w * w /\ w * w \in Nat /\ x * y \in Int
  <1> DEFINE a == Abs(x)
             b == Abs(y)
  <1>1. a \in Nat /\ b \in Nat /\ a < w /\ b < w /\ x \in Int /\ y \in Int BY DEF Abs, NonNull
  <1>2. (x = a \/ x = -a) /\ (y = b \/ y = -b) BY <1>1 DEF Abs
  <1> HIDE DEF a, b
  <1>3. a * b <= w * b /\ w * b < w * w BY <1>1
  <1>4. a * b \in Nat /\ w * b \in Nat /\ w * w \in Nat BY <1>1
  <1>5. (-a) * b = -(a * b) /\ a * (-b) = -(a * b) /\ (-a) * (-b) = a * b BY <1>1
  <1>6. x * y = a * b \/ x * y = -(a * b) BY Zenon, <1>1, <1>2, <1>5
  <1> QED BY <1>3, <1>4, <1>6

LEMMA SumBound ==
    ASSUME NEW w \in Nat \ {0}, NEW s \in Int, -(2 * w) + 2 <= s, s <= 2 * w - 2
    PROVE  -(w * w) < s /\ s < w * w /\ w * w \in Nat
  <1>1. (w - 1) * (w - 1) >= 0 /\ (w - 1) * (w - 1) = w * w - 2 * w + 1 OBVIOUS
  <1>2. w * w \in Nat OBVIOUS
  <1> QED BY <1>1, <1>2

\* An operation computed in int and then narrowed: what fits neither operand's type is refused.
LEMMA Narrowed ==
    ASSUME NEW h1, NEW h2, Widths(h1, h2), NEW s \in Int,
           -(Wider(h1, h2) * Wider(h1, h2)) < s, s < Wider(h1, h2) * Wider(h1, h2),
           Promoted(h1, h2) # Wider(h1, h2)
    PROVE  LET z == Wrap(s, Promoted(h1, h2))
           IN  /\ FitsNeither(h1, h2, z) <=> ~Fits(s, Wider(h1, h2))
               /\ Fits(s, Wider(h1, h2)) => Wrap(z, Wider(h1, h2)) = s
  <1> DEFINE w == Wider(h1, h2)
             p == Promoted(h1, h2)
  <1>1. /\ h1 \in Nat \ {0} /\ h2 \in Nat \ {0} /\ w \in Nat \ {0} /\ w \in {h1, h2} /\ h1 <= w /\ h2 <= w
        /\ p \in Nat /\ w * w <= p
    BY DEF Widths, Wider
  <1>2. w * w \in Nat \ {0}
    <2> HIDE DEF w
    <2> QED BY <1>1
  <1>3. Fits(s, p) /\ p \in Nat \ {0} BY <1>1, <1>2 DEF Fits
  <1>4. Wrap(s, p) = s BY Zenon, <1>3, WrapFits
  <1>5. (Wrap(s, h1) = s <=> Fits(s, h1)) /\ (Wrap(s, h2) = s <=> Fits(s, h2)) /\ (Wrap(s, w) = s <=> Fits(s, w))
    BY Zenon, <1>1, WrapFits
  <1>6. Fits(s, w) <=> Fits(s, h1) \/ Fits(s, h2) BY <1>1 DEF Fits
  <1> QED BY Zenon, <1>4, <1>5, <1>6 DEF FitsNeither

\* An operation computed in the wider type: the first test of the code never refuses.
LEMMA NotNarrowed ==
    ASSUME NEW h1, NEW h2, Widths(h1, h2), NEW s \in Int, Promoted(h1, h2) = Wider(h1, h2)
    PROVE  LET z == Wrap(s, Promoted(h1, h2))
           IN  /\ ~FitsNeither(h1, h2, z)
               /\ Wrap(z, Wider(h1, h2)) = Wrap(s, Wider(h1, h2))
               /\ Wider(h1, h2) \in Nat \ {0}
  <1> DEFINE w == Wider(h1, h2)
  <1>1. w \in Nat \ {0} /\ w \in {h1, h2} BY Zenon DEF Widths, Wider
  <1>2. Wrap(s, w) \in Int /\ Fits(Wrap(s, w), w) BY Zenon, <1>1, WrapType
  <1>3. Wrap(Wrap(s, w), w) = Wrap(s, w) BY Zenon, <1>1, <1>2, WrapFits
  <1> QED BY Zenon, <1>1, <1>3 DEF FitsNeither

\* AddValue and SubtractValue: the sign test finds every overflow of the wider type.
LEMMA AddExact ==
    ASSUME NEW h1, NEW h2, Widths(h1, h2), NEW x, NEW y, NonNull(x, h1), NonNull(y, h2)
    PROVE  AddValue(h1, h2, x, y) = IF Fits(x + y, Wider(h1, h2)) THEN {x + y} ELSE {}
  <1> DEFINE w == Wider(h1, h2)
             s == x + y
  <1>1. w \in Nat \ {0} /\ x \in Int /\ y \in Int /\ NonNull(x, w) /\ NonNull(y, w) BY Zenon, WiderBounds
  <1>2. s \in Int /\ -(2 * w) + 2 <= s /\ s <= 2 * w - 2 BY <1>1 DEF NonNull
  <1>3. CASE Promoted(h1, h2) = w
    <2>1. /\ ~FitsNeither(h1, h2, Wrap(s, Promoted(h1, h2)))
          /\ Wrap(Wrap(s, Promoted(h1, h2)), w) = Wrap(s, w)
      BY Zenon, <1>2, <1>3, NotNarrowed
    <2>2. CASE Fits(s, w)
      <3>1. Wrap(s, w) = s BY Zenon, <1>1, <1>2, <2>2, WrapFits
      <3> QED BY <1>1, <1>2, <2>1, <2>2, <3>1 DEF AddValue
    <2>3. CASE s >= w
      <3> HIDE DEF w
      <3>1. s = (s - 2 * w) + 2 * (w * 1) /\ s - 2 * w \in Int /\ Fits(s - 2 * w, w) BY <1>1, <1>2, <2>3 DEF Fits
      <3>2. Wrap(s, w) = s - 2 * w BY <1>1, <1>2, <3>1, WrapTo
      <3>3. x > 0 /\ y > 0 /\ s - 2 * w < 0 /\ ~Fits(s, w) BY <1>1, <1>2, <2>3 DEF NonNull, Fits
      <3> QED BY Zenon, <2>1, <3>2, <3>3 DEF AddValue, w
    <2>4. CASE s < -w
      <3> HIDE DEF w
      <3>1. s = (s + 2 * w) + 2 * (w * (-1)) /\ s + 2 * w \in Int /\ Fits(s + 2 * w, w) BY <1>1, <1>2, <2>4 DEF Fits
      <3>2. Wrap(s, w) = s + 2 * w BY <1>1, <1>2, <3>1, WrapTo
      <3>3. x < 0 /\ y < 0 /\ s + 2 * w > 0 /\ ~Fits(s, w) BY <1>1, <1>2, <2>4 DEF NonNull, Fits
      <3> QED BY Zenon, <2>1, <3>2, <3>3 DEF AddValue, w
    <2> QED BY <1>1, <1>2, <2>2, <2>3, <2>4 DEF Fits
  <1>4. CASE Promoted(h1, h2) # w
    <2>1. -(w * w) < s /\ s < w * w BY Zenon, <1>1, <1>2, SumBound
    <2>2. /\ FitsNeither(h1, h2, Wrap(s, Promoted(h1, h2))) <=> ~Fits(s, w)
          /\ Fits(s, w) => Wrap(Wrap(s, Promoted(h1, h2)), w) = s
      BY Zenon, <1>2, <1>4, <2>1, Narrowed
    <2> QED BY <1>1, <2>2 DEF AddValue
  <1> QED BY Zenon, <1>3, <1>4

LEMMA SubtractExact ==
    ASSUME NEW h1, NEW h2, Widths(h1, h2), NEW x, NEW y, NonNull(x, h1), NonNull(y, h2)
    PROVE  SubtractValue(h1, h2, x, y) = IF Fits(x - y, Wider(h1, h2)) THEN {x - y} ELSE {}
  <1> DEFINE w == Wider(h1, h2)
             s == x - y
  <1>1. w \in Nat \ {0} /\ x \in Int /\ y \in Int /\ NonNull(x, w) /\ NonNull(y, w) BY Zenon, WiderBounds
  <1>2. s \in Int /\ -(2 * w) + 2 <= s /\ s <= 2 * w - 2 BY <1>1 DEF NonNull
  <1>3. CASE Promoted(h1, h2) = w
    <2>1. /\ ~FitsNeither(h1, h2, Wrap(s, Promoted(h1, h2)))
          /\ Wrap(Wrap(s, Promoted(h1, h2)), w) = Wrap(s, w)
      BY Zenon, <1>2, <1>3, NotNarrowed
    <2>2. CASE Fits(s, w)
      <3>1. Wrap(s, w) = s BY Zenon, <1>1, <1>2, <2>2, WrapFits
      <3> QED BY <1>1, <1>2, <2>1, <2>2, <3>1 DEF SubtractValue
    <2>3. CASE s >= w
      <3> HIDE DEF w
      <3>1. s = (s - 2 * w) + 2 * (w * 1) /\ s - 2 * w \in Int /\ Fits(s - 2 * w, w) BY <1>1, <1>2, <2>3 DEF Fits
      <3>2. Wrap(s, w) = s - 2 * w BY <1>1, <1>2, <3>1, WrapTo
      <3>3. x > 0 /\ y < 0 /\ s - 2 * w < 0 /\ ~Fits(s, w) BY <1>1, <1>2, <2>3 DEF NonNull, Fits
      <3> QED BY Zenon, <2>1, <3>2, <3>3 DEF SubtractValue, w
    <2>4. CASE s < -w
      <3> HIDE DEF w
      <3>1. s = (s + 2 * w) + 2 * (w * (-1)) /\ s + 2 * w \in Int /\ Fits(s + 2 * w, w) BY <1>1, <1>2, <2>4 DEF Fits
      <3>2. Wrap(s, w) = s + 2 * w BY <1>1, <1>2, <3>1, WrapTo
      <3>3. x < 0 /\ y > 0 /\ s + 2 * w > 0 /\ ~Fits(s, w) BY <1>1, <1>2, <2>4 DEF NonNull, Fits
      <3> QED BY Zenon, <2>1, <3>2, <3>3 DEF SubtractValue, w
    <2> QED BY <1>1, <1>2, <2>2, <2>3, <2>4 DEF Fits
  <1>4. CASE Promoted(h1, h2) # w
    <2>1. -(w * w) < s /\ s < w * w BY Zenon, <1>1, <1>2, SumBound
    <2>2. /\ FitsNeither(h1, h2, Wrap(s, Promoted(h1, h2))) <=> ~Fits(s, w)
          /\ Fits(s, w) => Wrap(Wrap(s, Promoted(h1, h2)), w) = s
      BY Zenon, <1>2, <1>4, <2>1, Narrowed
    <2> QED BY <1>1, <2>2 DEF SubtractValue
  <1> QED BY Zenon, <1>3, <1>4

\* MultiplyValue: a product that wrapped around is not undone by the division of the code.
LEMMA WrappedProduct ==
    ASSUME NEW w \in Nat \ {0}, NEW x \in Int, NEW y \in Int \ {0}, NonNull(y, w),
           NEW s \in Int, s = x * y, Quot(Wrap(s, w), y) = x
    PROVE  Wrap(s, w) = s
  <1> DEFINE m == Wrap(s, w)
  <1>1. m \in Int BY Zenon, WrapType
  <1>2. PICK k \in Int : s = m + 2 * (w * k) BY Zenon, WrapType
  <1>3. Rem(m, y) \in Int /\ m = x * y + Rem(m, y) /\ Abs(Rem(m, y)) < Abs(y) BY Zenon, <1>1, QuotRem
  <1> HIDE DEF m
  <1> DEFINE j == w * k
  <1>4. j \in Int BY <1>2
  <1>5. -w < 2 * j /\ 2 * j < w
    <2>1. s = m + 2 * j BY Zenon, <1>2
    <2> HIDE DEF j
    <2>2. m = s + Rem(m, y) BY Zenon, <1>3
    <2>3. -w < Rem(m, y) /\ Rem(m, y) < w BY <1>3 DEF Abs, NonNull
    <2> QED BY <1>1, <1>3, <1>4, <2>1, <2>2, <2>3
  <1>6. k = 0
    <2>1. k >= 1 => j >= w BY <1>2
    <2>2. k <= -1 => j <= -w
      <3> SUFFICES ASSUME k <= -1 PROVE j <= -w BY Zenon
      <3>1. w * (-k) >= w /\ w * (-k) = -(w * k) BY <1>2
      <3> QED BY <1>4, <3>1
    <2> HIDE DEF j
    <2> QED BY <1>2, <1>4, <1>5, <2>1, <2>2
  <1> QED BY <1>1, <1>2, <1>6 DEF m

LEMMA MultiplyExact ==
    ASSUME NEW h1, NEW h2, Widths(h1, h2), NEW x, NEW y, NonNull(x, h1), NonNull(y, h2)
    PROVE  MultiplyValue(h1, h2, x, y) = IF Fits(x * y, Wider(h1, h2)) THEN {x * y} ELSE {}
  <1> DEFINE w == Wider(h1, h2)
             s == x * y
  <1>1. w \in Nat \ {0} /\ x \in Int /\ y \in Int /\ NonNull(x, w) /\ NonNull(y, w) BY Zenon, WiderBounds
  <1>2. s \in Int BY <1>1
  <1>3. y # 0 => Quot(s, y) = x BY Zenon, <1>1, <1>2, QuotUnique
  <1>4. y = 0 => s = 0 /\ Fits(s, w) BY <1>1 DEF Fits
  <1>5. CASE Promoted(h1, h2) = w
    <2>1. /\ ~FitsNeither(h1, h2, Wrap(s, Promoted(h1, h2)))
          /\ Wrap(Wrap(s, Promoted(h1, h2)), w) = Wrap(s, w)
      BY Zenon, <1>2, <1>5, NotNarrowed
    <2>2. Wrap(s, w) = s <=> Fits(s, w) BY Zenon, <1>1, <1>2, WrapFits
    <2>3. MultiplyValue(h1, h2, x, y) = IF y # 0 /\ Quot(Wrap(s, w), y) # x THEN {} ELSE {Wrap(s, w)}
      BY Zenon, <2>1 DEF MultiplyValue
    <2>4. y # 0 /\ Quot(Wrap(s, w), y) = x => Wrap(s, w) = s BY Zenon, <1>1, <1>2, WrappedProduct
    <2> HIDE DEF w, s
    <2> QED BY Zenon, <1>3, <1>4, <2>2, <2>3, <2>4 DEF w, s
  <1>6. CASE Promoted(h1, h2) # w
    <2>1. -(w * w) < s /\ s < w * w BY Zenon, <1>1, ProductBound
    <2>2. /\ FitsNeither(h1, h2, Wrap(s, Promoted(h1, h2))) <=> ~Fits(s, w)
          /\ Fits(s, w) => Wrap(Wrap(s, Promoted(h1, h2)), w) = s
      BY Zenon, <1>2, <1>6, <2>1, Narrowed
    <2> QED BY Zenon, <1>3, <2>2 DEF MultiplyValue
  <1> QED BY Zenon, <1>5, <1>6

\* DivideValue and ModuloValue never overflow, the sentinel being no operand.
LEMMA DivideExact ==
    ASSUME NEW h1, NEW h2, Widths(h1, h2), NEW x, NEW y, NonNull(x, h1), NonNull(y, h2), y # 0
    PROVE  /\ Quot(x, y) \in Int /\ Rem(x, y) \in Int
           /\ Fits(Quot(x, y), Wider(h1, h2)) /\ DivideValue(h1, h2, x, y) = {Quot(x, y)}
           /\ Fits(Rem(x, y), Wider(h1, h2)) /\ ModuloValue(h1, h2, x, y) = {Rem(x, y)}
  <1> DEFINE w == Wider(h1, h2)
  <1>1. w \in Nat \ {0} /\ x \in Int /\ y \in Int \ {0} /\ NonNull(x, w) BY Zenon, WiderBounds
  <1>2. Quot(x, y) \in Int /\ Rem(x, y) \in Int /\ Abs(Quot(x, y)) <= Abs(x) /\ Abs(Rem(x, y)) <= Abs(x)
    BY Zenon, <1>1, QuotRem
  <1> HIDE DEF w
  <1>3. Fits(Quot(x, y), w) /\ Fits(Rem(x, y), w) BY <1>1, <1>2 DEF Abs, NonNull, Fits
  <1>4. Wrap(Quot(x, y), w) = Quot(x, y) /\ Wrap(Rem(x, y), w) = Rem(x, y) BY Zenon, <1>1, <1>2, <1>3, WrapFits
  <1> QED BY Zenon, <1>2, <1>3, <1>4 DEF DivideValue, ModuloValue, w

-----------------------------------------------------------------------------
(* The values a caller holds *)

LEMMA IntegerOperand ==
    ASSUME NEW x \in Operands, x.type \in IntegerTypes
    PROVE  /\ x = [type |-> x.type, null |-> x.null, v |-> <<x.v[1], 1>>]
           /\ x.v[1] \in Int /\ x.v[2] = 1 /\ Half[x.type] \in Nat \ {0}
           /\ Fits(x.v[1], Half[x.type]) /\ (x.null <=> x.v[1] = -Half[x.type])
           /\ ~x.null => NonNull(x.v[1], Half[x.type])
  <1> DEFINE n == x.v[1]
             h == Half[x.type]
  <1>1. n \in Int /\ x = IntValue(x.type, n) BY Zenon, OperandsAssumption DEF IsValue, IntegerTypes
  <1>2. h \in Nat \ {0} BY Zenon, HalfAssumption
  <1>3. x = [type |-> x.type, null |-> Wrap(n, h) = -h, v |-> <<Wrap(n, h), 1>>] BY Zenon, <1>1 DEF IntValue, IntNull
  <1>4. Wrap(n, h) = n /\ x.v[2] = 1 /\ x.v = <<n, 1>> BY <1>3
  <1>5. Fits(n, h) BY Zenon, <1>1, <1>2, <1>4, WrapFits
  <1> HIDE DEF n, h
  <1>6. x.null <=> n = -h
    <2>1. x.null = (Wrap(n, h) = -h) BY <1>3
    <2> QED BY Zenon, <1>4, <2>1
  <1>7. x = [type |-> x.type, null |-> x.null, v |-> <<n, 1>>] BY Zenon, <1>3, <1>4
  <1>8. ~x.null => NonNull(n, h) BY <1>1, <1>2, <1>5, <1>6 DEF NonNull, Fits
  <1> QED BY Zenon, <1>1, <1>2, <1>4, <1>5, <1>6, <1>7, <1>8 DEF n, h

LEMMA DecimalOperand ==
    ASSUME NEW x \in Operands, x.type = "DECIMAL"
    PROVE  /\ x.null => x = DecimalNull
           /\ x.null \in BOOLEAN
           /\ ~x.null => x.v[1] \in Int /\ x.v[2] \in Nat \ {0} /\ x = DecimalValue(x.v[1], x.v[2])
           /\ x.v[1] \in Int /\ x.v[2] \in Int
  <1>1. \/ x = DecimalNull
        \/ x.v[1] \in Int /\ x.v[2] \in Nat \ {0} /\ x = DecimalValue(x.v[1], x.v[2])
    BY Zenon, OperandsAssumption DEF IsValue, IntegerTypes
  <1>2. CASE x = DecimalNull BY <1>2 DEF DecimalNull
  <1>3. CASE x.v[1] \in Int /\ x.v[2] \in Nat \ {0} /\ x = DecimalValue(x.v[1], x.v[2])
    <2>1. DecimalValue(x.v[1], x.v[2]).null = FALSE BY Zenon DEF DecimalValue
    <2>2. x.null = FALSE BY <1>3, <2>1, Zenon
    <2>3. x.v[1] \in Int /\ x.v[2] \in Int BY <1>3
    <2> QED BY <1>3, <2>2, <2>3, Zenon
  <1> QED BY Zenon, <1>1, <1>2, <1>3

LEMMA BooleanOperand ==
    ASSUME NEW x \in Operands, x.type = "BOOLEAN"
    PROVE  x.v[1] \in Int /\ x = BoolValue(x.v[1]) /\ (x.null => x = NullValue("BOOLEAN"))
  <1> DEFINE n == x.v[1]
             h == Half["TINYINT"]
  <1>1. n \in Int /\ x = BoolValue(n) BY Zenon, OperandsAssumption DEF IsValue, IntegerTypes
  <1>2. x = [type |-> "BOOLEAN", null |-> Wrap(n, h) = -h, v |-> <<Wrap(n, h), 1>>] BY Zenon, <1>1 DEF BoolValue, IntNull
  <1>3. Wrap(n, h) = n BY <1>2
  <1>4. x.null => n = -h
    <2> HIDE DEF n, h
    <2> QED BY Zenon, <1>2, <1>3
  <1> QED BY Zenon, <1>1, <1>4 DEF NullValue, IntNull, IntegerTypes

LEMMA OtherOperand ==
    ASSUME NEW x \in Operands, x.type \notin NumericTypes, x.type # "BOOLEAN"
    PROVE  /\ x \in [type : TypeIds, null : BOOLEAN, v : Seq(Int)]
           /\ x.null => x = VarlenNull(x.type)
  BY Zenon, OperandsAssumption DEF IsValue, NumericTypes

LEMMA OperandTypes ==
    ASSUME NEW x \in Operands
    PROVE  x.type \in TypeIds /\ ~Thrown(x)
  BY Zenon, OtherOperand DEF TypeIds, NumericTypes, IntegerTypes, Thrown

-----------------------------------------------------------------------------
(* Integers as doubles *)

LEMMA Smallest ==
    ASSUME NEW T, T \subseteq Nat, T # {}
    PROVE  \E i \in T : \A j \in T : i <= j
  <1>1. PICK i \in T : \A j \in T : ~(<<j, i>> \in OpToRel(<, Nat)) BY WFMin, NatLessThanWellFounded, Zenon
  <1>2. \A j \in T : ~(j < i) BY <1>1, Zenon DEF OpToRel
  <1> QED BY <1>2

LEMMA AbsNat ==
    ASSUME NEW n \in Int
    PROVE  Abs(n) \in Nat
  BY DEF Abs

\* static_cast<double> of an integer finds a double within half a distance of it
LEMMA UlpLeast ==
    ASSUME NEW n \in Int, Abs(n) <= Half["BIGINT"]
    PROVE  /\ Ulp(n) \in Double.ulps /\ Abs(n) <= Double.exact * Ulp(n)
           /\ \A w \in Double.ulps : Abs(n) <= Double.exact * w => Ulp(n) <= w
  <1> DEFINE m == Abs(n)
             T == {u \in Double.ulps : m <= Double.exact * u}
  <1>1. m \in Nat /\ Half["BIGINT"] \in Nat BY HalfAssumption DEF Abs, IntegerTypes
  <1>2. Double.exact \in Nat /\ Double.ulps \subseteq Nat BY Zenon, DoubleAssumption
  <1>3. PICK u \in Double.ulps : Half["BIGINT"] <= Double.exact * u BY Zenon, DoubleAssumption
  <1>4. u \in Nat /\ Double.exact * u \in Nat BY <1>2, <1>3
  <1> HIDE DEF m
  <1>5. m <= Double.exact * u
    <2>1. m <= Half["BIGINT"] BY Zenon DEF m
    <2> QED BY <1>1, <1>3, <1>4, <2>1
  <1>6. T \subseteq Nat /\ T # {} BY Zenon, <1>2, <1>3, <1>5
  <1>7. \E v \in T : \A w \in T : v <= w BY Zenon, <1>6, Smallest
  <1>8. \E v \in Double.ulps : m <= Double.exact * v /\ \A w \in Double.ulps : m <= Double.exact * w => v <= w
    BY Zenon, <1>7
  <1> QED BY Zenon, <1>8 DEF Ulp, m

LEMMA NearestWithin ==
    ASSUME NEW n \in Int, NEW u \in Nat \ {0}
    PROVE  Nearest(n, u) \in Int /\ 2 * Abs(Nearest(n, u) - n) <= u
  <1> DEFINE q == n \div u
             k == n % u
             d == Nearest(n, u)
  <1>1. q \in Int /\ k \in 0..(u - 1) /\ n = u * q + k BY Zenon, DivMod
  <1>2. d = IF 2 * k < u \/ (2 * k = u /\ q % 2 = 0) THEN u * q ELSE u * (q + 1) BY Zenon DEF Nearest
  <1> HIDE DEF q, k, d
  <1>3. u * q \in Int /\ u * (q + 1) = u * q + u BY <1>1
  <1>4. CASE 2 * k < u \/ (2 * k = u /\ q % 2 = 0)
    <2>1. d = u * q BY Zenon, <1>2, <1>4
    <2> QED BY <1>1, <1>3, <1>4, <2>1 DEF Abs, d
  <1>5. CASE ~(2 * k < u \/ (2 * k = u /\ q % 2 = 0))
    <2>1. d = u * q + u BY Zenon, <1>2, <1>3, <1>5
    <2>2. 2 * k >= u BY <1>1, <1>5
    <2> QED BY <1>1, <1>3, <2>1, <2>2 DEF Abs, d
  <1> QED BY Zenon, <1>4, <1>5

LEMMA NearestDouble ==
    ASSUME NEW n \in Int, Abs(n) <= Half["BIGINT"]
    PROVE  /\ ToDouble(n) \in Int
           /\ \/ ToDouble(n) = n
              \/ Abs(n) > Double.exact /\ Abs(ToDouble(n) - n) * Double.exact < Abs(n)
  <1> DEFINE u == Ulp(n)
             e == Double.exact
             t == ToDouble(n)
             d == Abs(t - n)
             m == Abs(n)
  <1>1. u \in Double.ulps /\ \A w \in Double.ulps : m <= e * w => u <= w BY Zenon, UlpLeast
  <1>2. e \in Nat /\ u \in Nat \ {0} /\ m \in Nat
    <2>1. e \in Nat /\ u \in Nat \ {0} BY Zenon, <1>1, DoubleAssumption
    <2> QED BY Zenon, <2>1, AbsNat
  <1>3. t \in Int /\ 2 * d <= u BY Zenon, <1>2, NearestWithin DEF ToDouble
  <1>4. d \in Nat /\ (d = 0 => t = n) BY <1>3 DEF Abs
  <1>5. CASE u = 1
    <2> HIDE DEF d, u, t
    <2>1. d = 0 BY <1>3, <1>4, <1>5
    <2> QED BY Zenon, <1>3, <1>4, <2>1 DEF t
  <1>6. CASE u # 1
    <2>1. PICK w \in Double.ulps : u = 2 * w BY Zenon, <1>1, <1>6, DoubleAssumption
    <2>2. w \in Nat \ {0} BY Zenon, <2>1, DoubleAssumption
    <2>3. ~(u <= w)
      <3> HIDE DEF u
      <3> QED BY <2>1, <2>2
    <2>4. ~(m <= e * w) BY Zenon, <1>1, <2>1, <2>3
    <2> HIDE DEF u, e, t, d, m
    <2>5. d <= w BY <1>3, <1>4, <2>1, <2>2
    <2>6. e * w \in Nat /\ e * w >= e /\ d * e <= e * w BY <1>2, <1>4, <2>2, <2>5
    <2>7. m > e /\ d * e < m BY <1>2, <1>4, <2>4, <2>6
    <2> QED BY Zenon, <1>3, <2>7 DEF e, t, d, m
  <1> QED BY Zenon, <1>5, <1>6

\* an integer a caller holds, as a double: itself, unless it is a BIGINT beyond 2^53
LEMMA IntegerAsDouble ==
    ASSUME NEW x \in Operands, x.type \in IntegerTypes
    PROVE  /\ ToDouble(x.v[1]) \in Int
           /\ \/ ToDouble(x.v[1]) = x.v[1]
              \/ x.type = "BIGINT" /\ NearlyExact(x.v[1], <<ToDouble(x.v[1]), 1>>)
  <1> DEFINE n == x.v[1]
  <1>1. n \in Int /\ Half[x.type] \in Nat \ {0} /\ Fits(n, Half[x.type]) BY Zenon, IntegerOperand
  <1>2. Abs(n) <= Half[x.type] BY <1>1 DEF Fits, Abs
  <1>3. /\ Half["TINYINT"] \in Nat /\ Half["SMALLINT"] \in Nat /\ Half["INTEGER"] \in Nat /\ Half["BIGINT"] \in Nat
        /\ Half["TINYINT"] < Half["SMALLINT"] /\ Half["SMALLINT"] < Half["INTEGER"]
        /\ Half["INTEGER"] < Half["BIGINT"] /\ Half["INTEGER"] <= Double.exact /\ Double.exact \in Nat
    <2>1. \A t \in IntegerTypes : Half[t] \in Nat BY Zenon, HalfAssumption
    <2> QED BY Zenon, <2>1, HalfAssumption, DoubleAssumption DEF IntegerTypes
  <1>4. Half[x.type] <= Half["BIGINT"] /\ (x.type # "BIGINT" => Half[x.type] <= Double.exact)
    BY <1>3 DEF IntegerTypes
  <1>5. Abs(n) \in Nat BY <1>1, AbsNat
  <1> HIDE DEF n
  <1>6. Abs(n) <= Half["BIGINT"] /\ (Abs(n) > Double.exact => x.type = "BIGINT") BY <1>1, <1>2, <1>3, <1>4, <1>5
  <1>7. /\ ToDouble(n) \in Int
        /\ \/ ToDouble(n) = n
           \/ Abs(n) > Double.exact /\ Abs(ToDouble(n) - n) * Double.exact < Abs(n)
    BY Zenon, <1>1, <1>6, NearestDouble
  <1> QED BY <1>6, <1>7 DEF NearlyExact, n

-----------------------------------------------------------------------------
(* Arithmetic *)

\* the result of an operation of two non-NULL integers
LEMMA IntegerModifyExact ==
    ASSUME NEW l \in Operands, NEW r \in Operands, l.type \in IntegerTypes, r.type \in IntegerTypes,
           ~l.null, ~r.null, NEW op \in ArithOps, op \in {"/", "%"} => r.v[1] # 0
    PROVE  LET w == Wider(Half[l.type], Half[r.type])
               z == ExactResult(op, l.v[1], r.v[1])
           IN  /\ z \in Int
               /\ IntegerModify(op, l, r) = IF Fits(z, w) THEN IntValue(WiderType(l, r), z) ELSE Throw("OUT_OF_RANGE")
  <1> DEFINE h1 == Half[l.type]
             h2 == Half[r.type]
             x == l.v[1]
             y == r.v[1]
             w == Wider(h1, h2)
             z == ExactResult(op, x, y)
  <1>1. Widths(h1, h2) /\ NonNull(x, h1) /\ NonNull(y, h2) BY Zenon, IntegerWidths, IntegerOperand
  <1>2. x \in Int /\ y \in Int BY Zenon, <1>1 DEF NonNull
  <1> DEFINE S == CASE op = "+" -> AddValue(h1, h2, x, y)
                    [] op = "-" -> SubtractValue(h1, h2, x, y)
                    [] op = "*" -> MultiplyValue(h1, h2, x, y)
                    [] op = "/" -> DivideValue(h1, h2, x, y)
                    [] op = "%" -> ModuloValue(h1, h2, x, y)
  <1>3. IntegerModify(op, l, r) =
          IF S = {} THEN Throw(IF op \in {"/", "%"} THEN "DIVIDE_BY_ZERO" ELSE "OUT_OF_RANGE")
          ELSE IntValue(WiderType(l, r), CHOOSE n \in S : TRUE)
    BY Zenon DEF IntegerModify, WiderType
  <1> HIDE DEF h1, h2, x, y
  <1>4. /\ z \in Int /\ S = (IF Fits(z, w) THEN {z} ELSE {})
        /\ op \in {"/", "%"} => Fits(z, w)
    <2>1. CASE op = "+" BY <1>1, <1>2, <2>1, AddExact DEF ExactResult
    <2>2. CASE op = "-" BY <1>1, <1>2, <2>2, SubtractExact DEF ExactResult
    <2>3. CASE op = "*" BY <1>1, <1>2, <2>3, MultiplyExact DEF ExactResult
    <2>4. CASE op = "/"
      <3>1. y # 0 BY Zenon, <2>4 DEF y
      <3> QED BY <1>1, <2>4, <3>1, DivideExact DEF ExactResult
    <2>5. CASE op = "%"
      <3>1. y # 0 BY Zenon, <2>5 DEF y
      <3> QED BY <1>1, <2>5, <3>1, DivideExact DEF ExactResult
    <2> QED BY Zenon, <2>1, <2>2, <2>3, <2>4, <2>5 DEF ArithOps
  <1> HIDE DEF S, z, w
  <1>5. CASE Fits(z, w)
    <2>1. S # {} /\ (CHOOSE n \in S : TRUE) = z BY Zenon, <1>4, <1>5
    <2> QED BY Zenon, <1>3, <1>4, <1>5, <2>1 DEF h1, h2, x, y, z, w
  <1>6. CASE ~Fits(z, w)
    <2>1. S = {} /\ op \notin {"/", "%"} BY Zenon, <1>4, <1>6
    <2> QED BY Zenon, <1>3, <1>4, <1>6, <2>1 DEF h1, h2, x, y, z, w
  <1> QED BY Zenon, <1>5, <1>6

LEMMA ArithmeticResult ==
    ASSUME NEW l \in Operands, NEW r \in Operands, l.type \in IntegerTypes, r.type \in IntegerTypes,
           ~l.null, ~r.null, NEW op \in ArithOps
    PROVE  LET t == WiderType(l, r)
               z == ExactResult(op, l.v[1], r.v[1])
           IN  Arithmetic(op, l, r) = IF op \in {"/", "%"} /\ r.v[1] = 0 THEN Throw("DIVIDE_BY_ZERO")
                                      ELSE IF z < -Half[t] \/ z >= Half[t] THEN Throw("OUT_OF_RANGE")
                                      ELSE IntValue(t, z)
  <1> DEFINE t == WiderType(l, r)
             z == ExactResult(op, l.v[1], r.v[1])
  <1>1. Operand(l, r) = r BY Zenon DEF Operand, IntegerTypes
  <1>2. Arithmetic(op, l, r) = IntegerArithmetic(op, l, r, r)
    BY Zenon, <1>1 DEF Arithmetic, ArithmeticWith, TinyintArithmetic, SmallintArithmetic, IntegerTypeArithmetic,
                BigintArithmetic, IntegerTypes
  <1>3. CheckComparable(l, r) /\ r.type # "VARCHAR" /\ r.type # "DECIMAL"
    BY Zenon DEF CheckComparable, NumericTypes, IntegerTypes
  <1>4. ~Thrown(r) BY Zenon, OperandTypes
  <1>5. CASE op \in {"/", "%"} /\ r.v[1] = 0
    BY Zenon, <1>2, <1>3, <1>5 DEF IntegerArithmetic, IsZero
  <1>6. CASE ~(op \in {"/", "%"} /\ r.v[1] = 0)
    <2>1. Arithmetic(op, l, r) = IntegerModify(op, l, r)
      BY Zenon, <1>2, <1>3, <1>4, <1>6 DEF IntegerArithmetic, IsZero
    <2> DEFINE w == Wider(Half[l.type], Half[r.type])
    <2>2. z \in Int /\ IntegerModify(op, l, r) = IF Fits(z, w) THEN IntValue(t, z) ELSE Throw("OUT_OF_RANGE")
      BY Zenon, <1>6, IntegerModifyExact
    <2>3. Half[t] = w /\ w \in Nat BY Zenon, HalfAssumption DEF WiderType, Wider
    <2> HIDE DEF z, t, w
    <2>4. Fits(z, w) <=> ~(z < -Half[t] \/ z >= Half[t]) BY <2>2, <2>3 DEF Fits
    <2> QED BY Zenon, <1>6, <2>1, <2>2, <2>4 DEF z, t
  <1> QED BY Zenon, <1>5, <1>6

-----------------------------------------------------------------------------
(* Casts *)

LEMMA NullValueType ==
    ASSUME NEW t \in TypeIds
    PROVE  NullValue(t).type = t
  BY Zenon DEF NullValue, IntValue, BoolValue, DecimalNull, VarlenNull, TypeIds, NumericTypes

LEMMA QuotNegated ==
    ASSUME NEW a \in Int, NEW b \in Nat \ {0}
    PROVE  Quot(-a, b) = -Quot(a, b)
  <1>1. Abs(-a) = Abs(a) /\ Abs(a) \in Nat /\ Abs(b) = b BY DEF Abs
  <1> DEFINE q == Abs(a) \div b
  <1>2. q \in Int BY <1>1, DivMod
  <1>3. a = 0 => q = 0
    <2> SUFFICES ASSUME a = 0 PROVE q = 0 BY Zenon
    <2>1. Abs(a) = b * 0 + 0 /\ 0 \in 0..(b - 1) BY DEF Abs
    <2> QED BY <1>1, <2>1, DivModUnique
  <1>4. Quot(a, b) = (IF a < 0 THEN -q ELSE q) /\ Quot(-a, b) = (IF -a < 0 THEN -q ELSE q) BY <1>1 DEF Quot
  <1> HIDE DEF q
  <1> QED BY <1>2, <1>3, <1>4

\* truncation towards zero keeps a number between whole limits
LEMMA QuotWithin ==
    ASSUME NEW a \in Int, NEW b \in Nat \ {0}, NEW c \in Nat
    PROVE  /\ a >= c * b => Quot(a, b) >= c
           /\ a <= c * b => Quot(a, b) <= c
           /\ c > 0 /\ a < c * b => Quot(a, b) < c
  <1> DEFINE q == Quot(a, b)
             r == Rem(a, b)
             d == q - c
  <1>1. /\ q \in Int /\ r \in Int /\ a = q * b + r
        /\ -b < r /\ r < b /\ (a >= 0 => r >= 0) /\ (a <= 0 => r <= 0)
    <2>1. /\ q \in Int /\ r \in Int /\ a = q * b + r
          /\ Abs(r) < Abs(b) /\ (a >= 0 => r >= 0) /\ (a <= 0 => r <= 0)
      BY QuotRem
    <2> HIDE DEF q, r
    <2>2. -b < r /\ r < b BY <2>1 DEF Abs
    <2> QED BY Zenon, <2>1, <2>2
  <1> HIDE DEF q, r
  <1>2. d \in Int /\ q = c + d BY <1>1
  <1> HIDE DEF d
  <1>3. (c + d) * b = c * b + d * b /\ c * b \in Nat /\ d * b \in Int BY <1>2
  <1>4. a = c * b + d * b + r BY Zenon, <1>1, <1>2, <1>3
  <1>5. (d >= 1 => d * b >= b) /\ (d >= 0 => d * b >= 0) BY <1>2
  <1>6. d <= -1 => d * b <= -b
    <2> SUFFICES ASSUME d <= -1 PROVE d * b <= -b BY Zenon
    <2>1. (-d) * b >= b /\ (-d) * b = -(d * b) BY <1>2
    <2> QED BY <1>3, <2>1
  <1>7. a >= c * b => q >= c BY <1>1, <1>2, <1>3, <1>4, <1>6
  <1>8. q >= 1 => a >= 0
    <2> SUFFICES ASSUME q >= 1, a < 0 PROVE FALSE BY <1>1
    <2>1. q * b >= b BY <1>1
    <2>2. q * b \in Int BY <1>1
    <2> QED BY <1>1, <2>1, <2>2
  <1>9. a <= c * b => q <= c
    <2> SUFFICES ASSUME a <= c * b, d >= 1 PROVE FALSE BY <1>2
    <2>1. a >= 0 BY <1>2, <1>8
    <2> QED BY <1>1, <1>3, <1>4, <1>5, <2>1
  <1>10. c > 0 /\ a < c * b => q < c
    <2> SUFFICES ASSUME c > 0, a < c * b, d >= 0 PROVE FALSE BY <1>2
    <2>1. a >= 0 BY <1>2, <1>8
    <2> QED BY <1>1, <1>3, <1>4, <1>5, <2>1
  <1> QED BY Zenon, <1>7, <1>9, <1>10 DEF q

LEMMA QuotOne ==
    ASSUME NEW n \in Int
    PROVE  Quot(n, 1) = n
  <1>1. n = n * 1 /\ 1 \in Int \ {0} OBVIOUS
  <1> QED BY Zenon, <1>1, QuotUnique

LEMMA WholeDecimal ==
    ASSUME NEW n \in Int
    PROVE  DecimalValue(n, 1) = [type |-> "DECIMAL", null |-> FALSE, v |-> <<n, 1>>]
  <1> DEFINE Divides(k) == /\ n % k = 0 /\ 1 % k = 0
                           /\ \A m \in (k+1)..Abs(1) : n % m # 0 \/ 1 % m # 0
             g == CHOOSE k \in 1..Abs(1) : Divides(k)
  <1>1. Abs(1) = 1 BY DEF Abs
  <1>2. n % 1 = 0 /\ n \div 1 = n
    <2>1. n = 1 * n + 0 /\ 1 \in Nat \ {0} /\ 0 \in 0..(1 - 1) OBVIOUS
    <2> QED BY Zenon, <2>1, DivModUnique
  <1>3. 1 % 1 = 0 /\ 1 \div 1 = 1
    <2>1. 1 = 1 * 1 + 0 /\ 1 \in Nat \ {0} /\ 1 \in Int /\ 0 \in 0..(1 - 1) OBVIOUS
    <2> QED BY Zenon, <2>1, DivModUnique
  <1>4. 1 \in 1..Abs(1) /\ Divides(1) BY <1>1, <1>2, <1>3
  <1>5. g \in 1..Abs(1)
    <2> HIDE DEF Divides
    <2> QED BY Zenon, <1>4
  <1>6. g = 1 BY <1>1, <1>5
  <1>7. DecimalValue(n, 1) = [type |-> "DECIMAL", null |-> FALSE,
                              v |-> <<((IF 1 < 0 THEN -1 ELSE 1) * n) \div g, ((IF 1 < 0 THEN -1 ELSE 1) * 1) \div g>>]
    BY Zenon DEF DecimalValue
  <1> HIDE DEF g
  <1>8. (IF 1 < 0 THEN -1 ELSE 1) = 1 /\ 1 * n = n /\ 1 * 1 = 1 OBVIOUS
  <1> QED BY Zenon, <1>2, <1>3, <1>6, <1>7, <1>8

\* Between integer types: the tests of the limits refuse exactly what the target cannot hold.
LEMMA IntegerToIntegerExact ==
    ASSUME NEW x \in Operands, x.type \in IntegerTypes, ~x.null, NEW t \in IntegerTypes
    PROVE  \/ /\ IntegerToInteger(x, t) = [type |-> t, null |-> FALSE, v |-> <<x.v[1], 1>>]
              /\ InRange(x.v[1], t)
           \/ IntegerToInteger(x, t) = Throw("OUT_OF_RANGE") /\ ~InRange(x.v[1], t)
  <1> DEFINE n == x.v[1]
             h == Half[t]
             g == Half[x.type]
  <1>1. n \in Int /\ NonNull(n, g) /\ g \in Nat \ {0} BY Zenon, IntegerOperand
  <1>2. h \in Nat \ {0} BY Zenon, HalfAssumption
  <1>3. InRange(n, t) <=> NonNull(n, h) BY <1>1, <1>2 DEF InRange, IntMin, IntMax, NonNull
  <1>4. CASE InRange(n, t)
    <2>1. IntegerToInteger(x, t) = IntValue(t, n) BY Zenon, <1>4 DEF IntegerToInteger
    <2>2. Wrap(n, h) = n /\ n # -h BY <1>1, <1>2, <1>3, <1>4, WrapFits DEF NonNull, Fits
    <2>3. IntValue(t, n) = [type |-> t, null |-> FALSE, v |-> <<n, 1>>] BY <2>2, Zenon DEF IntValue, IntNull
    <2> QED BY Zenon, <1>4, <2>1, <2>3
  <1>5. CASE ~InRange(n, t)
    <2>1. h < g BY <1>1, <1>2, <1>3, <1>5 DEF NonNull
    <2> QED BY Zenon, <1>5, <2>1 DEF IntegerToInteger
  <1> QED BY Zenon, <1>4, <1>5

\* From DECIMAL: the limits are tested on the number, before it loses its fraction.
LEMMA DecimalRange ==
    ASSUME NEW a \in Int, NEW b \in Nat \ {0}, NEW t \in IntegerTypes, NEW x, x.v[1] = a, x.v[2] = b
    PROVE  LET q == Quot(a, b)
           IN  /\ q \in Int
               /\ DecimalOutOfRange(x, t) => ~InRange(q, t) \/ q \in {IntMin(t), IntMax(t)}
               /\ ~DecimalOutOfRange(x, t) => InRange(q, t) \/ (t = "BIGINT" /\ q = IntNull(t))
  <1> DEFINE q == Quot(a, b)
             h == Half[t]
  <1>1. h \in Nat \ {0} /\ h - 1 \in Nat BY HalfAssumption
  <1>2. q \in Int BY QuotRem
  <1>3. -a \in Int /\ Quot(-a, b) = -q BY QuotNegated
  <1> HIDE DEF h
  <1>4. /\ a >= h * b => q >= h
        /\ a <= h * b => q <= h
        /\ a < h * b => q < h
    BY <1>1, QuotWithin
  <1>5. /\ a >= (h - 1) * b => q >= h - 1
        /\ a <= (h - 1) * b => q <= h - 1
    BY Zenon, <1>1, QuotWithin
  <1>6. /\ -a >= h * b => -q >= h
        /\ -a <= h * b => -q <= h
    BY Zenon, <1>1, <1>3, QuotWithin
  <1>7. /\ -a >= (h - 1) * b => -q >= h - 1
        /\ -a <= (h - 1) * b => -q <= h - 1
    BY Zenon, <1>1, <1>3, QuotWithin
  <1> HIDE DEF q
  <1> DEFINE m == h * b
             k == (h - 1) * b
  <1>8. m \in Int /\ k \in Int /\ (1 - h) * b = -k /\ (-h) * b = -m BY <1>1
  <1>9. CASE t = "BIGINT"
    <2>1. DecimalOutOfRange(x, t) <=> a >= m \/ a < -m
      BY Zenon, <1>8, <1>9 DEF DecimalOutOfRange, h
    <2> HIDE DEF m, k
    <2>2. a >= m \/ a < -m => q >= h \/ q <= -h BY <1>1, <1>2, <1>4, <1>6, <1>8 DEF m
    <2>3. ~(a >= m \/ a < -m) => q < h /\ q >= -h BY <1>1, <1>2, <1>4, <1>6, <1>8 DEF m
    <2> QED BY <1>1, <1>2, <1>9, <2>1, <2>2, <2>3 DEF InRange, IntMin, IntMax, IntNull, h, q
  <1>10. CASE t # "BIGINT"
    <2>1. DecimalOutOfRange(x, t) <=> a > k \/ a < -k
      BY Zenon, <1>8, <1>10 DEF DecimalOutOfRange, IntMin, IntMax, h
    <2> HIDE DEF m, k
    <2>2. a > k \/ a < -k => q >= h - 1 \/ q <= 1 - h BY <1>1, <1>2, <1>5, <1>7, <1>8 DEF k
    <2>3. ~(a > k \/ a < -k) => q <= h - 1 /\ q >= 1 - h BY <1>1, <1>2, <1>5, <1>7, <1>8 DEF k
    <2> QED BY <1>1, <1>2, <2>1, <2>2, <2>3 DEF InRange, IntMin, IntMax, IntNull, h, q
  <1> QED BY Zenon, <1>9, <1>10

LEMMA DecimalToIntegerExact ==
    ASSUME NEW x \in Operands, x.type = "DECIMAL", ~x.null, NEW t \in IntegerTypes
    PROVE  LET q == Quot(x.v[1], x.v[2])
               y == DecimalCastAs(x, t)
           IN  \/ /\ y = [type |-> t, null |-> q = IntNull(t), v |-> <<q, 1>>]
                  /\ q = IntNull(t) => t = "BIGINT"
               \/ y = Throw("OUT_OF_RANGE") /\ (~InRange(q, t) \/ q \in {IntMin(t), IntMax(t)})
  <1> DEFINE q == Quot(x.v[1], x.v[2])
             h == Half[t]
  <1>1. x.v[1] \in Int /\ x.v[2] \in Nat \ {0} BY Zenon, DecimalOperand
  <1>2. /\ q \in Int
        /\ DecimalOutOfRange(x, t) => ~InRange(q, t) \/ q \in {IntMin(t), IntMax(t)}
        /\ ~DecimalOutOfRange(x, t) => InRange(q, t) \/ (t = "BIGINT" /\ q = IntNull(t))
    BY <1>1, DecimalRange
  <1>3. h \in Nat \ {0} BY Zenon, HalfAssumption
  <1>4. DecimalCastAs(x, t) = IF DecimalOutOfRange(x, t) THEN Throw("OUT_OF_RANGE") ELSE IntValue(t, q)
    BY Zenon DEF DecimalCastAs, IntegerTypes
  <1>5. CASE DecimalOutOfRange(x, t) BY Zenon, <1>2, <1>4, <1>5
  <1>6. CASE ~DecimalOutOfRange(x, t)
    <2> HIDE DEF q
    <2>1. Fits(q, h) /\ (q = IntNull(t) => t = "BIGINT")
      BY <1>2, <1>3, <1>6 DEF InRange, IntMin, IntMax, IntNull, Fits
    <2>2. Wrap(q, h) = q BY Zenon, <1>2, <1>3, <2>1, WrapFits
    <2>3. IntValue(t, q) = [type |-> t, null |-> q = IntNull(t), v |-> <<q, 1>>] BY Zenon, <2>2 DEF IntValue
    <2> QED BY Zenon, <1>4, <1>6, <2>1, <2>3 DEF q
  <1> QED BY Zenon, <1>5, <1>6

\* what CastExact asks of the result y of a cast of x to t
CastOk(x, t, y) ==
  LET z == IF t = "DECIMAL" THEN x.v ELSE <<Quot(x.v[1], x.v[2]), 1>>
  IN  \/ x.null /\ y = NullValue(t)
      \/ ~x.null /\ ~Thrown(y)
           /\ (y.v = z \/ (x.type = "BIGINT" /\ t = "DECIMAL" /\ NearlyExact(x.v[1], y.v)))
           /\ (y.null => x.type = "DECIMAL" /\ t = "BIGINT" /\ z[1] = IntNull(t))
      \/ ~x.null /\ y = Throw("OUT_OF_RANGE") /\ t # "DECIMAL" /\ ~InRange(z[1], t)
      \/ ~x.null /\ y = Throw("OUT_OF_RANGE") /\ x.type = "DECIMAL" /\ z[1] \in {IntMin(t), IntMax(t)}

LEMMA CastResult ==
    ASSUME NEW x \in Operands, x.type \in NumericTypes, NEW t \in NumericTypes
    PROVE  CastOk(x, t, CastAs(x, t))
  <1>1. CASE x.type \in IntegerTypes /\ t \in IntegerTypes
    <2>1. CastAs(x, t) = IntegerToInteger(x, t)
      BY Zenon, <1>1 DEF CastAs, TinyintCastAs, SmallintCastAs, IntegerTypeCastAs, BigintCastAs, IntegerCastAs, IntegerTypes
    <2>2. CASE x.null BY Zenon, <2>1, <2>2 DEF IntegerToInteger, CastOk
    <2>3. CASE ~x.null
      <3>1. x.v[1] \in Int /\ x.v[2] = 1 BY Zenon, <1>1, IntegerOperand
      <3>2. Quot(x.v[1], x.v[2]) = x.v[1] BY Zenon, <3>1, QuotOne
      <3>3. t # "DECIMAL" BY Zenon, <1>1 DEF IntegerTypes
      <3>4. ASSUME CastAs(x, t) = [type |-> t, null |-> FALSE, v |-> <<x.v[1], 1>>]
            PROVE  CastOk(x, t, CastAs(x, t))
        <4>1. ~Thrown(CastAs(x, t)) BY <3>4 DEF Thrown, TypeIds
        <4> QED BY <2>3, <3>2, <3>3, <3>4, <4>1 DEF CastOk
      <3>5. ASSUME CastAs(x, t) = Throw("OUT_OF_RANGE"), ~InRange(x.v[1], t)
            PROVE  CastOk(x, t, CastAs(x, t))
        BY Zenon, <2>3, <3>2, <3>3, <3>5 DEF CastOk
      <3> QED BY Zenon, <1>1, <2>1, <2>3, <3>4, <3>5, IntegerToIntegerExact
    <2> QED BY Zenon, <2>2, <2>3
  <1>2. CASE x.type \in IntegerTypes /\ t = "DECIMAL"
    <2>1. CastAs(x, t) = IF x.null THEN DecimalNull ELSE DecimalValue(ToDouble(x.v[1]), 1)
      BY Zenon, <1>2 DEF CastAs, TinyintCastAs, SmallintCastAs, IntegerTypeCastAs, BigintCastAs, IntegerCastAs, IntegerTypes
    <2>2. CASE x.null BY Zenon, <1>2, <2>1, <2>2 DEF CastOk, NullValue, IntegerTypes
    <2>3. CASE ~x.null
      <3>1. x.v[1] \in Int /\ x.v = <<x.v[1], 1>> BY <1>2, IntegerOperand
      <3>2. ToDouble(x.v[1]) \in Int BY Zenon, <1>2, IntegerAsDouble
      <3>3. CastAs(x, t) = [type |-> "DECIMAL", null |-> FALSE, v |-> <<ToDouble(x.v[1]), 1>>]
        BY Zenon, <2>1, <2>3, <3>2, WholeDecimal
      <3>4. ~Thrown(CastAs(x, t)) BY <3>3 DEF Thrown, TypeIds, NumericTypes
      <3>5. ~CastAs(x, t).null /\ CastAs(x, t).v = <<ToDouble(x.v[1]), 1>> BY <3>3
      <3>6. CASE ToDouble(x.v[1]) = x.v[1]
        <4>1. CastAs(x, t).v = x.v BY Zenon, <3>1, <3>5, <3>6
        <4> QED BY Zenon, <1>2, <2>3, <3>4, <3>5, <4>1 DEF CastOk
      <3>7. CASE x.type = "BIGINT" /\ NearlyExact(x.v[1], <<ToDouble(x.v[1]), 1>>)
        <4>1. NearlyExact(x.v[1], CastAs(x, t).v) BY Zenon, <3>5, <3>7
        <4> QED BY Zenon, <1>2, <2>3, <3>4, <3>5, <3>7, <4>1 DEF CastOk
      <3> QED BY Zenon, <1>2, <3>6, <3>7, IntegerAsDouble
    <2> QED BY Zenon, <2>2, <2>3
  <1>3. CASE x.type = "DECIMAL" /\ t = "DECIMAL"
    <2>1. CastAs(x, t) = x BY Zenon, <1>3 DEF CastAs, DecimalCastAs, IntegerTypes
    <2>2. ~Thrown(x) BY Zenon, OperandTypes
    <2>3. x.null => x = NullValue(t) BY Zenon, <1>3, DecimalOperand DEF NullValue, IntegerTypes
    <2> QED BY Zenon, <1>3, <2>1, <2>2, <2>3 DEF CastOk
  <1>4. CASE x.type = "DECIMAL" /\ t \in IntegerTypes
    <2>1. CastAs(x, t) = DecimalCastAs(x, t) BY Zenon, <1>4 DEF CastAs
    <2>2. t # "DECIMAL" BY Zenon, <1>4 DEF IntegerTypes
    <2>3. CASE x.null BY Zenon, <1>4, <2>1, <2>2, <2>3 DEF DecimalCastAs, CastOk, IntegerTypes
    <2>4. CASE ~x.null
      <3> DEFINE q == Quot(x.v[1], x.v[2])
      <3>1. ASSUME CastAs(x, t) = [type |-> t, null |-> q = IntNull(t), v |-> <<q, 1>>],
                   q = IntNull(t) => t = "BIGINT"
            PROVE  CastOk(x, t, CastAs(x, t))
        <4>1. ~Thrown(CastAs(x, t)) BY <3>1 DEF Thrown, TypeIds
        <4> DEFINE y == CastAs(x, t)
                   sentinel == q = IntNull(t)
        <4>2. y = [type |-> t, null |-> sentinel, v |-> <<q, 1>>] BY Zenon, <3>1
        <4>3. y.v = <<q, 1>> /\ (y.null => q = IntNull(t))
          <5>1. sentinel => q = IntNull(t) BY Zenon
          <5> HIDE DEF y, sentinel
          <5>2. y.v = <<q, 1>> /\ y.null = sentinel BY Zenon, <4>2
          <5> QED BY Zenon, <5>1, <5>2
        <4> QED BY Zenon, <1>4, <2>2, <2>4, <3>1, <4>1, <4>3 DEF CastOk
      <3>2. ASSUME CastAs(x, t) = Throw("OUT_OF_RANGE"), ~InRange(q, t) \/ q \in {IntMin(t), IntMax(t)}
            PROVE  CastOk(x, t, CastAs(x, t))
        BY Zenon, <1>4, <2>2, <2>4, <3>2 DEF CastOk
      <3> QED BY Zenon, <1>4, <2>1, <2>4, <3>1, <3>2, DecimalToIntegerExact
    <2> QED BY Zenon, <2>3, <2>4
  <1> QED BY Zenon, <1>1, <1>2, <1>3, <1>4 DEF NumericTypes

-----------------------------------------------------------------------------
(* The casts of ValueFactory *)

\* what VarlenType::CastAs does with the text of a NULL: it is no number and no boolean
LEMMA NullTextThrows ==
    ASSUME NEW x, x.type = "VARCHAR", x.null, NEW t \in NumericTypes \union {"BOOLEAN"}
    PROVE  Thrown(VarlenCastAs(x, t))
  <1> DEFINE s == <<118>>
  <1>1. Sign(s) = 1 /\ Unsigned(s) = s BY DEF Sign, Unsigned, Minus
  <1>2. Digits(s) = <<>>
    <2> DEFINE Lead(k) == /\ \A i \in 1..k : s[i] \in Zero..(Zero + 9)
                          /\ k < Len(s) => s[k+1] \notin Zero..(Zero + 9)
               n == CHOOSE k \in 0..Len(s) : Lead(k)
    <2>1. Len(s) = 1 /\ s[1] = 118 /\ 118 \notin Zero..(Zero + 9) BY DEF Zero
    <2>2. 0 \in 0..Len(s) /\ Lead(0) BY <2>1
    <2>3. n \in 0..Len(s) /\ Lead(n)
      <3> HIDE DEF Lead
      <3> QED BY Zenon, <2>2
    <2>4. n = 0
      <3> HIDE DEF n
      <3> QED BY <2>1, <2>3
    <2>5. Digits(s) = SubSeq(s, 1, n) BY Zenon DEF Digits
    <2>6. SubSeq(s, 1, 0) = <<>> OBVIOUS
    <2> QED BY Zenon, <2>4, <2>5, <2>6
  <1> DEFINE y == VarlenCastAs(x, t)
  <1>3. CASE t = "BOOLEAN"
    <2>1. s \notin {WordTrue, <<Zero + 1>>, <<116>>} /\ s \notin {WordFalse, <<Zero>>, <<102>>}
      BY DEF WordTrue, WordFalse, Zero
    <2>2. y = Throw("FORMAT_ERROR") BY <1>3, <2>1 DEF VarlenCastAs, BooleanOf
    <2> QED BY <2>2 DEF Throw, Thrown, TypeIds, NumericTypes, IntegerTypes
  <1>4. CASE t \in IntegerTypes
    <2>1. \A u : StoInteger(s, u) = Throw("INVALID_ARGUMENT") BY Zenon, <1>1, <1>2 DEF StoInteger
    <2>2. Thrown(Throw("INVALID_ARGUMENT")) BY Zenon DEF Throw, Thrown, TypeIds, NumericTypes, IntegerTypes
    <2>3. y = Throw("INVALID_ARGUMENT")
      BY <1>4, <2>1, <2>2 DEF VarlenCastAs, NarrowFromText, FullFromText, IntegerTypes
    <2> QED BY Zenon, <2>2, <2>3
  <1>5. CASE t = "DECIMAL"
    <2> DEFINE rest == SubSeq(s, Len(<<>>) + 1, Len(s))
    <2>1. s \in Seq(Int) /\ Len(<<>>) + 1 = 1 /\ Len(s) = 1 /\ s[1] = 118 OBVIOUS
    <2>2. SubSeq(s, 1, 1) \in Seq(Int) /\ SubSeq(s, 1, 1)[1] = 118 BY <2>1
    <2>3. rest = SubSeq(s, 1, 1) BY <2>1, Zenon
    <2> HIDE DEF rest
    <2>4. Fraction(rest) = <<>> BY <2>2, <2>3 DEF Fraction, Dot
    <2>5. StoDecimal(s) = DecimalFrom(Sign(s), Digits(Unsigned(s)),
                            Fraction(SubSeq(Unsigned(s), Len(Digits(Unsigned(s))) + 1, Len(Unsigned(s)))))
      BY Zenon DEF StoDecimal
    <2> HIDE DEF s
    <2>6. StoDecimal(s) = DecimalFrom(1, <<>>, <<>>) BY <1>1, <1>2, <2>4, <2>5, Zenon DEF rest
    <2>7. y = DecimalFromText(StoDecimal(s)) BY Zenon, <1>5 DEF VarlenCastAs, s
    <2>9. Thrown(Throw("INVALID_ARGUMENT")) BY Zenon DEF Throw, Thrown, TypeIds, NumericTypes, IntegerTypes
    <2>8. y = Throw("INVALID_ARGUMENT") BY Zenon, <2>6, <2>7, <2>9 DEF DecimalFrom, DecimalFromText
    <2> QED BY <2>8 DEF Throw, Thrown, TypeIds, NumericTypes, IntegerTypes
  <1> QED BY Zenon, <1>3, <1>4, <1>5 DEF NumericTypes

\* where both casts return
Agree(y, z) == Thrown(y) \/ Thrown(z) \/ y = z

LEMMA ThrowThrown ==
    /\ Thrown(Throw("NOT_COERCABLE")) /\ Thrown(Throw("OUT_OF_RANGE")) /\ Thrown(NotImplemented)
  BY Zenon DEF Throw, Thrown, NotImplemented, TypeIds, NumericTypes, IntegerTypes

LEMMA IntegerCastsAgree ==
    ASSUME NEW x \in Operands, NEW t \in IntegerTypes
    PROVE  Agree(CastAs(x, t), CastAsIntegerType(x, t))
  <1>1. CASE ~IsCoercableFrom(t, x.type) BY Zenon, <1>1, ThrowThrown DEF Agree, CastAsIntegerType
  <1>2. CASE IsCoercableFrom(t, x.type)
    <2>1. x.type \in NumericTypes \union {"VARCHAR"} BY Zenon, <1>2 DEF IsCoercableFrom, NumericTypes, IntegerTypes
    <2>2. CastAsIntegerType(x, t) = IF x.null THEN NullValue(t) ELSE IntegerFrom(x, t)
      BY Zenon, <1>2 DEF CastAsIntegerType
    <2>3. CASE x.type \in IntegerTypes
      <3>1. CastAs(x, t) = IntegerToInteger(x, t)
        BY Zenon, <2>3 DEF CastAs, TinyintCastAs, SmallintCastAs, IntegerTypeCastAs, BigintCastAs, IntegerCastAs, IntegerTypes
      <3>2. IntegerFrom(x, t) = IntegerToInteger(x, t) BY Zenon, <2>3 DEF IntegerFrom, IntegerTypes
      <3> QED BY Zenon, <2>2, <3>1, <3>2 DEF Agree, IntegerToInteger
    <2>4. CASE x.type = "DECIMAL"
      <3>1. CastAs(x, t) = IF x.null THEN NullValue(t)
                           ELSE IF DecimalOutOfRange(x, t) THEN Throw("OUT_OF_RANGE")
                           ELSE IntValue(t, Quot(x.v[1], x.v[2]))
        BY Zenon, <2>4 DEF CastAs, DecimalCastAs, IntegerTypes
      <3>2. IntegerFrom(x, t) = IF t = "BIGINT" /\ x.v[1] = Half[t] * x.v[2] THEN NullValue(t)
                                ELSE IF DecimalOutOfRange(x, t) THEN Throw("OUT_OF_RANGE")
                                ELSE IntValue(t, Quot(x.v[1], x.v[2]))
        BY Zenon, <2>4 DEF IntegerFrom
      <3>3. x.v[1] \in Int BY Zenon, <2>4, DecimalOperand
      <3>4. t = "BIGINT" /\ x.v[1] = Half[t] * x.v[2] => DecimalOutOfRange(x, t) BY <3>3 DEF DecimalOutOfRange
      <3> QED BY <2>2, <3>1, <3>2, <3>4, ThrowThrown DEF Agree
    <2>5. CASE x.type = "VARCHAR"
      <3>1. CastAs(x, t) = VarlenCastAs(x, t) BY Zenon, <2>5 DEF CastAs
      <3>2. IntegerFrom(x, t) = VarlenCastAs(x, t) BY Zenon, <2>5 DEF IntegerFrom, FromText
      <3>3. x.null => Thrown(VarlenCastAs(x, t)) BY Zenon, <2>5, NullTextThrows DEF NumericTypes
      <3> QED BY Zenon, <2>2, <3>1, <3>2, <3>3 DEF Agree
    <2> QED BY Zenon, <2>1, <2>3, <2>4, <2>5 DEF NumericTypes
  <1> QED BY Zenon, <1>1, <1>2

LEMMA DecimalCastsAgree ==
    ASSUME NEW x \in Operands
    PROVE  Agree(CastAs(x, "DECIMAL"), CastAsDecimal(x))
  <1>1. CASE ~IsCoercableFrom("DECIMAL", x.type) BY Zenon, <1>1, ThrowThrown DEF Agree, CastAsDecimal
  <1>2. CASE IsCoercableFrom("DECIMAL", x.type)
    <2>1. x.type \in NumericTypes \union {"VARCHAR"} BY Zenon, <1>2 DEF IsCoercableFrom, NumericTypes
    <2>2. CastAsDecimal(x) = IF x.null THEN DecimalNull
                             ELSE IF x.type = "VARCHAR" THEN VarlenCastAs(x, "DECIMAL")
                             ELSE IF x.type = "DECIMAL" THEN DecimalValue(x.v[1], x.v[2])
                             ELSE DecimalValue(ToDouble(x.v[1]), 1)
      BY Zenon, <1>2 DEF CastAsDecimal, FromText
    <2>3. CASE x.type \in IntegerTypes
      <3>1. CastAs(x, "DECIMAL") = IF x.null THEN DecimalNull ELSE DecimalValue(ToDouble(x.v[1]), 1)
        BY Zenon, <2>3 DEF CastAs, TinyintCastAs, SmallintCastAs, IntegerTypeCastAs, BigintCastAs, IntegerCastAs, IntegerTypes
      <3>2. x.type # "DECIMAL" /\ x.type # "VARCHAR" BY Zenon, <2>3 DEF IntegerTypes
      <3> QED BY Zenon, <2>2, <3>1, <3>2 DEF Agree
    <2>4. CASE x.type = "DECIMAL"
      <3>1. CastAs(x, "DECIMAL") = x BY Zenon, <2>4 DEF CastAs, DecimalCastAs, IntegerTypes
      <3> QED BY Zenon, <2>2, <2>4, <3>1, DecimalOperand DEF Agree
    <2>5. CASE x.type = "VARCHAR"
      <3>1. CastAs(x, "DECIMAL") = VarlenCastAs(x, "DECIMAL") BY Zenon, <2>5 DEF CastAs
      <3>2. x.null => Thrown(VarlenCastAs(x, "DECIMAL")) BY Zenon, <2>5, NullTextThrows DEF NumericTypes
      <3> QED BY Zenon, <2>2, <2>5, <3>1, <3>2 DEF Agree
    <2> QED BY Zenon, <2>1, <2>3, <2>4, <2>5 DEF NumericTypes
  <1> QED BY Zenon, <1>1, <1>2

LEMMA VarcharCastsAgree ==
    ASSUME NEW x \in Operands
    PROVE  Agree(CastAs(x, "VARCHAR"), CastAsVarchar(x))
  <1>1. CASE ~x.null \/ ~IsCoercableFrom("VARCHAR", x.type) BY Zenon, <1>1, ThrowThrown DEF Agree, CastAsVarchar
  <1>2. CASE x.null /\ IsCoercableFrom("VARCHAR", x.type)
    <2>1. CastAsVarchar(x) = VarlenNull("VARCHAR") BY Zenon, <1>2 DEF CastAsVarchar
    <2>2. x.type \in TypeIds \ {"INVALID", "VECTOR"}
      BY Zenon, <1>2 DEF IsCoercableFrom, TypeIds, NumericTypes, IntegerTypes
    <2>3. CASE x.type \in NumericTypes \union {"BOOLEAN", "TIMESTAMP"}
      <3>1. CastAs(x, "VARCHAR") = VarlenNull("VARCHAR")
        BY Zenon, <1>2, <2>3 DEF CastAs, TinyintCastAs, SmallintCastAs, IntegerTypeCastAs, BigintCastAs, IntegerCastAs,
                   DecimalCastAs, BooleanCastAs, TimestampCastAs, NumericTypes, IntegerTypes
      <3> QED BY Zenon, <2>1, <3>1 DEF Agree
    <2>4. CASE x.type = "VARCHAR"
      <3>1. CastAs(x, "VARCHAR") = x BY Zenon, <2>4 DEF CastAs, VarlenCastAs
      <3>2. x = VarlenNull("VARCHAR") BY Zenon, <1>2, <2>4, OtherOperand DEF NumericTypes, IntegerTypes
      <3> QED BY Zenon, <2>1, <3>1, <3>2 DEF Agree
    <2> QED BY Zenon, <2>2, <2>3, <2>4 DEF TypeIds
  <1> QED BY Zenon, <1>1, <1>2

LEMMA TimestampCastsAgree ==
    ASSUME NEW x \in Operands
    PROVE  Agree(CastAs(x, "TIMESTAMP"), CastAsTimestamp(x))
  <1>1. CASE x.type = "TIMESTAMP"
    <2>1. CastAs(x, "TIMESTAMP") = x BY Zenon, <1>1 DEF CastAs, TimestampCastAs
    <2>2. IsCoercableFrom("TIMESTAMP", x.type) BY Zenon, <1>1 DEF IsCoercableFrom, NumericTypes, IntegerTypes
    <2>3. x.null => x = VarlenNull("TIMESTAMP") BY Zenon, <1>1, OtherOperand DEF NumericTypes, IntegerTypes
    <2>4. CastAsTimestamp(x) = x BY Zenon, <1>1, <2>2, <2>3 DEF CastAsTimestamp
    <2> QED BY Zenon, <2>1, <2>4 DEF Agree
  <1>2. CASE x.type = "VARCHAR"
    <2>1. CastAs(x, "TIMESTAMP") = Throw("NOT_COERCABLE") BY Zenon, <1>2 DEF CastAs, VarlenCastAs
    <2> QED BY Zenon, <2>1, ThrowThrown DEF Agree
  <1>3. CASE x.type \notin {"TIMESTAMP", "VARCHAR"}
    <2>1. ~IsCoercableFrom("TIMESTAMP", x.type) BY Zenon, <1>3 DEF IsCoercableFrom, NumericTypes, IntegerTypes
    <2> QED BY Zenon, <2>1, ThrowThrown DEF Agree, CastAsTimestamp
  <1> QED BY Zenon, <1>1, <1>2, <1>3

LEMMA BooleanCastsAgree ==
    ASSUME NEW x \in Operands
    PROVE  Agree(CastAs(x, "BOOLEAN"), CastAsBoolean(x))
  <1>1. IsCoercableFrom("BOOLEAN", x.type) BY Zenon DEF IsCoercableFrom, NumericTypes, IntegerTypes
  <1>2. CASE x.type = "BOOLEAN"
    <2>1. CastAs(x, "BOOLEAN") = BoolValue(x.v[1]) BY Zenon, <1>2 DEF CastAs, BooleanCastAs
    <2>2. CastAsBoolean(x) = IF x.null THEN NullValue("BOOLEAN") ELSE BoolValue(x.v[1])
      BY Zenon, <1>1, <1>2 DEF CastAsBoolean
    <2> QED BY Zenon, <1>2, <2>1, <2>2, BooleanOperand DEF Agree
  <1>3. CASE x.type = "VARCHAR"
    <2>1. CastAs(x, "BOOLEAN") = VarlenCastAs(x, "BOOLEAN") BY Zenon, <1>3 DEF CastAs
    <2>2. CASE x.null BY Zenon, <1>3, <2>1, <2>2, NullTextThrows DEF Agree
    <2>3. CASE ~x.null
      <3>1. CastAs(x, "BOOLEAN") = BooleanOf(x.v) BY Zenon, <2>1, <2>3 DEF VarlenCastAs
      <3>2. CastAsBoolean(x) = BooleanOf(x.v) BY Zenon, <1>1, <1>3, <2>3 DEF CastAsBoolean
      <3> QED BY Zenon, <3>1, <3>2 DEF Agree
    <2> QED BY Zenon, <2>2, <2>3
  <1>4. CASE x.type \notin {"BOOLEAN", "VARCHAR"}
    <2>1. CastAs(x, "BOOLEAN") \in {Throw("NOT_COERCABLE"), NotImplemented}
      BY Zenon, <1>4 DEF CastAs, TinyintCastAs, SmallintCastAs, IntegerTypeCastAs, BigintCastAs, IntegerCastAs,
                  DecimalCastAs, TimestampCastAs, VectorCastAs, IntegerTypes
    <2> QED BY Zenon, <2>1, ThrowThrown DEF Agree
  <1> QED BY Zenon, <1>2, <1>3, <1>4

LEMMA CastsAgree ==
    ASSUME NEW x \in Operands, NEW t \in TypeIds \ {"INVALID", "VECTOR"}
    PROVE  Agree(CastAs(x, t), FactoryCastAs(x, t))
  <1>1. CASE t \in IntegerTypes
    <2>1. FactoryCastAs(x, t) = CastAsIntegerType(x, t)
      BY Zenon, <1>1 DEF FactoryCastAs, CastAsBigInt, CastAsInteger, CastAsSmallInt, CastAsTinyInt, IntegerTypes
    <2> QED BY Zenon, <1>1, <2>1, IntegerCastsAgree
  <1>2. CASE t = "DECIMAL" BY Zenon, <1>2, DecimalCastsAgree DEF FactoryCastAs
  <1>3. CASE t = "VARCHAR" BY <1>3, VarcharCastsAgree DEF FactoryCastAs
  <1>4. CASE t = "TIMESTAMP" BY Zenon, <1>4, TimestampCastsAgree DEF FactoryCastAs
  <1>5. CASE t = "BOOLEAN" BY Zenon, <1>5, BooleanCastsAgree DEF FactoryCastAs
  <1> QED BY Zenon, <1>1, <1>2, <1>3, <1>4, <1>5 DEF TypeIds, NumericTypes

-----------------------------------------------------------------------------
(* Comparison *)

\* memcmp of two texts has the opposite sign when they are exchanged
LEMMA CompareStringsOpposite ==
    ASSUME NEW s1 \in Seq(Int), NEW s2 \in Seq(Int)
    PROVE  CompareStrings(s1, s2) \in Int /\ CompareStrings(s2, s1) = -CompareStrings(s1, s2)
  <1> DEFINE common == 1..(IF Len(s1) < Len(s2) THEN Len(s1) ELSE Len(s2))
             other == 1..(IF Len(s2) < Len(s1) THEN Len(s2) ELSE Len(s1))
             diff == {i \in common : s1[i] # s2[i]}
             opposite == {i \in other : s2[i] # s1[i]}
             first == CHOOSE i \in diff : \A j \in diff : i <= j
  <1>1. Len(s1) \in Nat /\ Len(s2) \in Nat OBVIOUS
  <1>2. common = other BY <1>1
  <1>3. diff = opposite BY Zenon, <1>2
  <1>4. CompareStrings(s1, s2) = IF diff = {} THEN Len(s1) - Len(s2) ELSE s1[first] - s2[first]
    BY Zenon DEF CompareStrings
  <1>5. CompareStrings(s2, s1) = IF opposite = {} THEN Len(s2) - Len(s1)
                                 ELSE s2[CHOOSE i \in opposite : \A j \in opposite : i <= j]
                                      - s1[CHOOSE i \in opposite : \A j \in opposite : i <= j]
    BY Zenon DEF CompareStrings
  <1>6. CompareStrings(s2, s1) = IF diff = {} THEN Len(s2) - Len(s1) ELSE s2[first] - s1[first]
    <2> HIDE DEF diff, opposite
    <2> QED BY <1>3, <1>5, Zenon
  <1>7. CASE diff = {} BY <1>1, <1>4, <1>6, <1>7
  <1>8. CASE diff # {}
    <2>1. diff \subseteq Nat /\ diff \subseteq 1..Len(s1) /\ diff \subseteq 1..Len(s2) BY <1>1
    <2> HIDE DEF diff
    <2>2. \E i \in diff : \A j \in diff : i <= j BY Zenon, <1>8, <2>1, Smallest
    <2>3. first \in diff BY Zenon, <2>2
    <2> HIDE DEF first
    <2>4. s1[first] \in Int /\ s2[first] \in Int BY <2>1, <2>3
    <2> QED BY <1>4, <1>6, <1>8, <2>4
  <1> QED BY Zenon, <1>7, <1>8

LEMMA OpHoldsConverse ==
    ASSUME NEW op \in CompareOps, NEW d \in Int
    PROVE  OpHolds(op, d) = OpHolds(Converse(op), -d)
  <1>1. CASE op = "=" BY <1>1 DEF OpHolds, Converse
  <1>2. CASE op = "#" BY <1>2 DEF OpHolds, Converse
  <1>3. CASE op = "<" BY <1>3 DEF OpHolds, Converse
  <1>4. CASE op = "<=" BY <1>4 DEF OpHolds, Converse
  <1>5. CASE op = ">" BY <1>5 DEF OpHolds, Converse
  <1>6. CASE op = ">=" BY <1>6 DEF OpHolds, Converse
  <1> QED BY Zenon, <1>1, <1>2, <1>3, <1>4, <1>5, <1>6 DEF CompareOps

\* the outcome of a comparison of l with r, given the sign d of their difference
Outcome(op, l, r, d) ==
  IF l.null \/ r.null THEN "CmpNull" ELSE GetCmpBool(OpHolds(op, d))

\* the pairs CompareConsistent is about, whose comparison is implemented
Ordered(l, r) ==
  \/ l.type \in NumericTypes /\ r.type \in NumericTypes
  \/ l.type = r.type /\ l.type \in {"BOOLEAN", "VARCHAR"}
Difference(l, r) ==
  IF l.type \in NumericTypes THEN NumDiff(l, r)
  ELSE IF l.type = "BOOLEAN" THEN l.v[1] - r.v[1]
  ELSE CompareStrings(l.v, r.v)

LEMMA CompareOutcome ==
    ASSUME NEW l \in Operands, NEW r \in Operands, Ordered(l, r), NEW op
    PROVE  Compare(op, l, r) = Outcome(op, l, r, Difference(l, r))
  <1>1. ~Thrown(r) BY Zenon, OperandTypes
  <1>2. Operand(l, r) = r
    <2>1. CASE l.type \in NumericTypes /\ r.type \in NumericTypes BY Zenon, <2>1 DEF Operand, NumericTypes, IntegerTypes
    <2>2. CASE l.type = r.type /\ l.type = "BOOLEAN"
      <3>1. CastAs(r, "BOOLEAN") = BoolValue(r.v[1]) BY Zenon, <2>2 DEF CastAs, BooleanCastAs
      <3> QED BY <2>2, <3>1, BooleanOperand, Zenon DEF Operand
    <2>3. CASE l.type = r.type /\ l.type = "VARCHAR" BY Zenon, <2>3 DEF Operand, CastAs, VarlenCastAs
    <2> QED BY Zenon, <2>1, <2>2, <2>3 DEF Ordered
  <1>3. Compare(op, l, r) = CompareWith(op, l, r, r) BY Zenon, <1>2 DEF Compare
  <1>4. CASE l.type \in NumericTypes /\ r.type \in NumericTypes
    <2>1. CheckComparable(l, r) BY Zenon, <1>4 DEF CheckComparable
    <2>2. CompareWith(op, l, r, r) = NumericCompare(op, l, r, r)
      BY Zenon, <1>4 DEF CompareWith, TinyintCompare, SmallintCompare, IntegerTypeCompare, BigintCompare,
                  DecimalCompare, NumericTypes, IntegerTypes
    <2> QED BY Zenon, <1>1, <1>3, <1>4, <2>1, <2>2 DEF NumericCompare, Outcome, Difference
  <1>5. CASE l.type = r.type /\ l.type = "BOOLEAN"
    <2>1. CheckComparable(l, r) BY Zenon, <1>5 DEF CheckComparable
    <2>2. CompareWith(op, l, r, r) = BooleanCompare(op, l, r, r) BY Zenon, <1>5 DEF CompareWith
    <2> QED BY Zenon, <1>1, <1>3, <1>5, <2>1, <2>2 DEF BooleanCompare, Outcome, Difference, NumericTypes, IntegerTypes
  <1>6. CASE l.type = r.type /\ l.type = "VARCHAR"
    <2>1. CompareWith(op, l, r, r) = VarlenCompare(op, l, r, r) BY Zenon, <1>6 DEF CompareWith
    <2> QED BY Zenon, <1>1, <1>3, <1>6, <2>1 DEF VarlenCompare, Outcome, Difference, NumericTypes, IntegerTypes
  <1> QED BY Zenon, <1>4, <1>5, <1>6 DEF Ordered

LEMMA NumericFields ==
    ASSUME NEW x \in Operands, x.type \in NumericTypes
    PROVE  /\ x.v[1] \in Int /\ x.v[2] \in Int
           /\ DoubleOf(x)[1] \in Int /\ DoubleOf(x)[2] \in Int
  <1>1. x.v[1] \in Int /\ x.v[2] \in Int BY IntegerOperand, DecimalOperand DEF NumericTypes
  <1>2. CASE x.type = "DECIMAL" BY Zenon, <1>1, <1>2 DEF DoubleOf
  <1>3. CASE x.type # "DECIMAL"
    <2>1. ToDouble(x.v[1]) \in Int BY Zenon, <1>3, IntegerAsDouble DEF NumericTypes
    <2>2. DoubleOf(x) = <<ToDouble(x.v[1]), 1>> BY Zenon, <1>3 DEF DoubleOf
    <2> QED BY <1>1, <2>1, <2>2
  <1> QED BY Zenon, <1>2, <1>3

LEMMA DifferenceOpposite ==
    ASSUME NEW l \in Operands, NEW r \in Operands, Ordered(l, r)
    PROVE  Difference(l, r) \in Int /\ Difference(r, l) = -Difference(l, r)
  <1>1. CASE l.type \in NumericTypes /\ r.type \in NumericTypes
    <2> DEFINE a == DoubleOf(l)[1] * DoubleOf(r)[2]
               b == DoubleOf(r)[1] * DoubleOf(l)[2]
    <2>1. l.v[1] \in Int /\ r.v[1] \in Int BY Zenon, <1>1, NumericFields
    <2>2. /\ DoubleOf(l)[1] \in Int /\ DoubleOf(l)[2] \in Int /\ DoubleOf(r)[1] \in Int /\ DoubleOf(r)[2] \in Int
      BY Zenon, <1>1, NumericFields
    <2>3. a \in Int /\ b \in Int BY <2>2
    <2>4. CASE CheckInteger(l) /\ CheckInteger(r)
      <3>1. Difference(l, r) = l.v[1] - r.v[1] /\ Difference(r, l) = r.v[1] - l.v[1]
        BY Zenon, <1>1, <2>4 DEF Difference, NumDiff
      <3> QED BY <2>1, <3>1
    <2>5. CASE ~(CheckInteger(l) /\ CheckInteger(r))
      <3>1. Difference(l, r) = a - b /\ Difference(r, l) = b - a BY Zenon, <1>1, <2>5 DEF Difference, NumDiff, FractionDiff
      <3> HIDE DEF a, b
      <3> QED BY <2>3, <3>1
    <2> QED BY Zenon, <2>4, <2>5
  <1>2. CASE l.type = r.type /\ l.type = "BOOLEAN"
    <2>1. l.v[1] \in Int /\ r.v[1] \in Int BY Zenon, <1>2, BooleanOperand
    <2> QED BY <1>2, <2>1 DEF Difference, NumericTypes, IntegerTypes
  <1>3. CASE l.type = r.type /\ l.type = "VARCHAR"
    <2>1. l.v \in Seq(Int) /\ r.v \in Seq(Int) BY <1>3, OtherOperand, Zenon DEF NumericTypes, IntegerTypes
    <2> QED BY Zenon, <1>3, <2>1, CompareStringsOpposite DEF Difference, NumericTypes, IntegerTypes
  <1> QED BY Zenon, <1>1, <1>2, <1>3 DEF Ordered

\* what CompareConsistent asks of a comparison
CompareOk(op, l, r) ==
  /\ Compare(op, l, r) = Compare(Converse(op), r, l)
  /\ Compare(op, l, r) \in {"CmpTrue", "CmpFalse"} =>
       Cardinality({o \in {"<", "=", ">"} : Compare(o, l, r) = "CmpTrue"}) = 1

LEMMA CompareResult ==
    ASSUME NEW l \in Operands, NEW r \in Operands, NEW op \in CompareOps,
           {l.type, r.type} \subseteq NumericTypes \/ l.type = r.type
    PROVE  CompareOk(op, l, r)
  <1>1. CASE Ordered(l, r)
    <2> DEFINE d == Difference(l, r)
               Truths == {o \in {"<", "=", ">"} : Compare(o, l, r) = "CmpTrue"}
    <2>1. Ordered(r, l) BY Zenon, <1>1 DEF Ordered
    <2>2. d \in Int /\ Difference(r, l) = -d BY Zenon, <1>1, DifferenceOpposite
    <2>3. \A o : Compare(o, l, r) = Outcome(o, l, r, d) BY Zenon, <1>1, CompareOutcome
    <2>4. Compare(Converse(op), r, l) = Outcome(Converse(op), r, l, -d) BY Zenon, <2>1, <2>2, CompareOutcome
    <2> HIDE DEF d
    <2>5. OpHolds(op, d) = OpHolds(Converse(op), -d) BY Zenon, <2>2, OpHoldsConverse
    <2>6. Compare(op, l, r) = Compare(Converse(op), r, l) BY Zenon, <2>3, <2>4, <2>5 DEF Outcome
    <2>7. ASSUME Compare(op, l, r) \in {"CmpTrue", "CmpFalse"} PROVE Cardinality(Truths) = 1
      <3>1. ~(l.null \/ r.null) BY Zenon, <2>3, <2>7 DEF Outcome
      <3>2. \A o \in {"<", "=", ">"} : Compare(o, l, r) = "CmpTrue" <=> OpHolds(o, d)
        BY Zenon, <2>3, <3>1 DEF Outcome, GetCmpBool
      <3>3. (OpHolds("<", d) <=> d < 0) /\ (OpHolds("=", d) <=> d = 0) /\ (OpHolds(">", d) <=> d > 0)
        BY Zenon DEF OpHolds
      <3>4. Truths \in {{"<"}, {"="}, {">"}}
        <4>1. CASE d < 0 BY <2>2, <3>2, <3>3, <4>1
        <4>2. CASE d = 0 BY <2>2, <3>2, <3>3, <4>2
        <4>3. CASE d > 0 BY <2>2, <3>2, <3>3, <4>3
        <4> QED BY <2>2, <4>1, <4>2, <4>3
      <3> HIDE DEF Truths
      <3> QED BY Zenon, <3>4, FS_Singleton
    <2> QED BY Zenon, <2>6, <2>7 DEF CompareOk
  <1>2. CASE ~Ordered(l, r)
    <2>1. l.type = r.type /\ l.type \in {"INVALID", "TIMESTAMP", "VECTOR"}
      BY Zenon, <1>2, OperandTypes DEF Ordered, TypeIds
    <2>2. \A o : Compare(o, l, r) = (IF l.type = "TIMESTAMP" THEN "ASSERT" ELSE "NOT_IMPLEMENTED")
      BY Zenon, <2>1 DEF Compare, CompareWith, TimestampCompare, VectorCompare
    <2>3. \A o : Compare(o, r, l) = (IF l.type = "TIMESTAMP" THEN "ASSERT" ELSE "NOT_IMPLEMENTED")
      BY Zenon, <2>1 DEF Compare, CompareWith, TimestampCompare, VectorCompare
    <2> QED BY Zenon, <2>2, <2>3 DEF CompareOk
  <1> QED BY Zenon, <1>1, <1>2

-----------------------------------------------------------------------------
(* What the state shows of a call *)

CallInv ==
  /\ call.op \in ArithOps =>
       /\ call.l \in Operands /\ call.r \in Operands
       /\ out = Arithmetic(call.op, call.l, call.r)
  /\ call.op \in CompareOps =>
       /\ call.l \in Operands /\ call.r \in Operands
       /\ cmp = Compare(call.op, call.l, call.r)
  /\ call.op = "cast" =>
       /\ call.l \in Operands /\ call.r.type \in TypeIds \ {"INVALID"}
       /\ out = CastAs(call.l, call.r.type)

LEMMA CallShown ==
    Spec => []CallInv
  <1>1. Init => CallInv BY DEF Init, Idle, CallInv, ArithOps, CompareOps
  <1>2. CallInv /\ [Next]_vars => CallInv'
    <2> SUFFICES ASSUME CallInv, [Next]_vars PROVE CallInv' BY Zenon
    <2>1. ASSUME NEW l \in Operands, NEW r \in Operands, NEW op \in ArithOps, DoArithmetic(op, l, r) PROVE CallInv'
      BY Zenon, <2>1 DEF DoArithmetic, Called, CallInv, ArithOps, CompareOps
    <2>2. ASSUME NEW l \in Operands, NEW r \in Operands, NEW op \in CompareOps, DoCompare(op, l, r) PROVE CallInv'
      BY Zenon, <2>2 DEF DoCompare, Called, CallInv, ArithOps, CompareOps
    <2>3. ASSUME NEW l, NEW t \in TypeIds \ {"INVALID"}, l \in Operands, DoCast(l, t) PROVE CallInv'
      <3>1. NullValue(t).type = t BY Zenon, NullValueType
      <3> QED BY Zenon, <2>3, <3>1 DEF DoCast, Called, CallInv, ArithOps, CompareOps
    <2>4. ASSUME call'.op \in {"Min", "Max", "sqrt", "stamp", "row", "idle"} PROVE CallInv'
      BY Zenon, <2>4 DEF CallInv, ArithOps, CompareOps
    <2>5. ASSUME NEW l, NEW r, NEW which \in {"Min", "Max"}, DoMinMax(which, l, r) PROVE CallInv'
      BY Zenon, <2>4, <2>5 DEF DoMinMax, Called
    <2>6. ASSUME NEW l, DoSqrt(l) PROVE CallInv' BY Zenon, <2>4, <2>6 DEF DoSqrt, Called
    <2>7. ASSUME NEW s, DoTimestamp(s) PROVE CallInv' BY Zenon, <2>4, <2>7 DEF DoTimestamp, Called
    <2>8. ASSUME NEW types, NEW vs, BuildRow(types, vs) PROVE CallInv' BY Zenon, <2>4, <2>8 DEF BuildRow, Called
    <2>9. CASE Return BY Zenon, <2>4, <2>9 DEF Return, Idle
    <2>10. CASE UNCHANGED vars BY Zenon, <2>10 DEF vars, CallInv
    <2> QED BY Zenon, <2>1, <2>2, <2>3, <2>5, <2>6, <2>7, <2>8, <2>9, <2>10 DEF Next, Call
  <1> QED BY <1>1, <1>2, PTL DEF Spec

(***************************************************************************)
(* Integer arithmetic is exact or refused, whatever the widths of the four *)
(* integer types: the overflow tests of AddValue, SubtractValue and        *)
(* MultiplyValue refuse exactly the results the wider operand's type       *)
(* cannot hold, and division fails only by zero.                           *)
(***************************************************************************)
THEOREM ArithmeticAlwaysExact ==
    Spec => []ArithmeticExact
  <1>1. CallInv => ArithmeticExact BY Zenon, ArithmeticResult DEF CallInv, ArithmeticExact, CheckInteger
  <1> QED BY <1>1, CallShown, PTL

(***************************************************************************)
(* The comparison dispatched on the left operand's type and its converse   *)
(* dispatched on the right one's say the same, and exactly one of less,    *)
(* equal and greater is true of two non-NULL values: the *_COMPARE_FUNC    *)
(* macros, BooleanType and VarlenType agree on one order.                  *)
(***************************************************************************)
THEOREM ComparisonsAgree ==
    Spec => []CompareConsistent
  <1>1. CallInv => CompareConsistent BY Zenon, CompareResult DEF CallInv, CompareConsistent, CompareOk
  <1> QED BY <1>1, CallShown, PTL

(***************************************************************************)
(* CastAs between numeric types keeps the whole part of the number or      *)
(* throws, and no number becomes NULL but the DECIMAL -2^63, whatever the  *)
(* widths: the tests against the limits in the CastAs of each type.        *)
(***************************************************************************)
THEOREM CastsAreExact ==
    Spec => []CastExact
  <1>1. ASSUME CallInv PROVE CastExact
    <2> SUFFICES ASSUME call.op = "cast", call.l.type \in NumericTypes, call.r.type \in NumericTypes
                 PROVE  CastOk(call.l, call.r.type, out)
      BY Zenon DEF CastExact, CastOk
    <2>1. call.l \in Operands /\ out = CastAs(call.l, call.r.type) BY <1>1, Zenon DEF CallInv
    <2> QED BY <2>1, CastResult, Zenon
  <1> QED BY <1>1, CallShown, PTL

(***************************************************************************)
(* Value::CastAs and ValueFactory::CastAs* return the same value wherever  *)
(* both return one, for every source and target type.                      *)
(***************************************************************************)
THEOREM FactoryAlwaysAgrees ==
    Spec => []FactoryAgrees
  <1>1. CallInv => FactoryAgrees BY Zenon, CastsAgree DEF CallInv, FactoryAgrees, Agree
  <1> QED BY <1>1, CallShown, PTL
=============================================================================
