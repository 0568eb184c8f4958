---------------------------- MODULE IntegerArith ----------------------------
(***************************************************************************)
(* The checked integer arithmetic of IntegerParentType                     *)
(* (include/type/integer_parent_type.h).  A C++ integer type is given by   *)
(* its half range h = 2^(w-1): it holds -h .. h-1, and -h is the NULL      *)
(* sentinel of the SQL type stored in it.  The templates AddValue<T1, T2>  *)
(* and its siblings take the two half ranges h1, h2 and the two operands.  *)
(* Each returns the set of results of the call: empty when it throws.      *)
(***************************************************************************)
EXTENDS Integers

CONSTANT HalfInt    \* the half range of the C++ type int

ASSUME HalfIntAssumption == HalfInt \in Nat \ {0}

\* static_cast<T>(n), two's complement
Wrap(n, h) == ((n + h) % (2 * h)) - h

\* the usual arithmetic conversions: int, or the wider operand when it is wider
Promoted(h1, h2) ==
  IF h1 > HalfInt \/ h2 > HalfInt THEN (IF h1 > h2 THEN h1 ELSE h2) ELSE HalfInt

\* the type of the result: the left one unless the right one is wider
Wider(h1, h2) == IF h1 >= h2 THEN h1 ELSE h2

Abs(n) == IF n < 0 THEN -n ELSE n

\* C++ division truncates towards zero, and % has the sign of the dividend
Quot(x, y) == IF (x < 0) = (y < 0) THEN Abs(x) \div Abs(y) ELSE -(Abs(x) \div Abs(y))
Rem(x, y) == x - Quot(x, y) * y

\* (x op y) != r1 && (x op y) != r2, for a result z of the promoted type
FitsNeither(h1, h2, z) == z # Wrap(z, h1) /\ z # Wrap(z, h2)

\* AddValue without the sign test on the truncated sum
AddValueNoSignTest(h1, h2, x, y) ==
  LET z == Wrap(x + y, Promoted(h1, h2))
      sum == Wrap(z, Wider(h1, h2))
  IN  IF FitsNeither(h1, h2, z) THEN {} ELSE {sum}

AddValue(h1, h2, x, y) ==
  LET z == Wrap(x + y, Promoted(h1, h2))
      sum == Wrap(z, Wider(h1, h2))
  IN  IF \/ FitsNeither(h1, h2, z)
         \/ x > 0 /\ y > 0 /\ sum < 0
         \/ x < 0 /\ y < 0 /\ sum > 0
      THEN {} ELSE {sum}

SubtractValue(h1, h2, x, y) ==
  LET z == Wrap(x - y, Promoted(h1, h2))
      diff == Wrap(z, Wider(h1, h2))
  IN  IF \/ FitsNeither(h1, h2, z)
         \/ x > 0 /\ y < 0 /\ diff < 0
         \/ x < 0 /\ y > 0 /\ diff > 0
      THEN {} ELSE {diff}

MultiplyValue(h1, h2, x, y) ==
  LET z == Wrap(x * y, Promoted(h1, h2))
      prod == Wrap(z, Wider(h1, h2))
  IN  IF \/ FitsNeither(h1, h2, z)
         \/ y # 0 /\ Quot(prod, y) # x
      THEN {} ELSE {prod}

DivideValue(h1, h2, x, y) ==
  IF y = 0 THEN {} ELSE {Wrap(Quot(x, y), Wider(h1, h2))}

ModuloValue(h1, h2, x, y) ==
  IF y = 0 THEN {} ELSE {Wrap(Rem(x, y), Wider(h1, h2))}

=============================================================================
