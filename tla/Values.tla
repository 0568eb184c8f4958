------------------------------- MODULE Values -------------------------------
(***************************************************************************)
(* The SQL type system: Value (type/value.cpp) and the type objects behind *)
(* it (type/*_type.cpp), reached through the table Type::k_types.          *)
(*                                                                         *)
(* A value is [type, null, v].  v is <<n, 1>> for an integer or boolean n, *)
(* the fraction <<num, den>> for a DECIMAL (an integer that becomes a      *)
(* double is rounded; the rounding of what is computed from doubles, and   *)
(* infinities, are abstracted), the character codes of a VARCHAR, the elements of a    *)
(* VECTOR and the digits of a TIMESTAMP's mixed-radix encoding.  NULL is a *)
(* sentinel in the integer types, as in type/limits.h, so that a computed  *)
(* result can become NULL.  A call that throws returns a record whose type *)
(* is the exception.                                                       *)
(***************************************************************************)
EXTENDS IntegerArith, Sequences, FiniteSets

CONSTANTS
  Half,             \* the half range of each integer type, by type name
  Double            \* [exact, ulps, min, max]: the integers up to exact (2^53) are doubles; ulps
                    \* are the distances of larger ones (1, 2 .. 2^10 for an int64); a text may
                    \* spell the numbers from min to max (FLT_LOWEST and DBL_MAX)

IntegerTypes == {"TINYINT", "SMALLINT", "INTEGER", "BIGINT"}
NumericTypes == IntegerTypes \union {"DECIMAL"}
TypeIds == NumericTypes \union {"INVALID", "BOOLEAN", "VARCHAR", "TIMESTAMP", "VECTOR"}

\* int8 <= int16 <= int32 <= int64, int is INTEGER's type, and the product of
\* two 16-bit numbers fits in an int
ASSUME HalfAssumption ==
  /\ Half \in [IntegerTypes -> Nat \ {0}]
  /\ Half["TINYINT"] < Half["SMALLINT"] /\ Half["SMALLINT"] < Half["INTEGER"]
  /\ Half["INTEGER"] < Half["BIGINT"]
  /\ HalfInt = Half["INTEGER"]
  /\ Half["SMALLINT"] * Half["SMALLINT"] <= HalfInt

\* an int is a double, and the distances double until they reach the widest integers
ASSUME DoubleAssumption ==
  /\ Double.exact \in Nat /\ HalfInt <= Double.exact
  /\ Double.ulps \subseteq Nat \ {0} /\ 1 \in Double.ulps
  /\ \A u \in Double.ulps \ {1} : \E w \in Double.ulps : u = 2 * w
  /\ \E u \in Double.ulps : Half["BIGINT"] <= Double.exact * u
  /\ Double.min \in Int /\ Double.max \in Int

Throw(e) == [type |-> e, null |-> FALSE, v |-> <<>>]
Thrown(x) == x.type \notin TypeIds

(***************************************************************************)
(* limits.h and the constructors of Value                                  *)
(***************************************************************************)
IntNull(t) == -Half[t]                    \* BUSTUB_INTn_NULL
IntMin(t) == 1 - Half[t]                  \* BUSTUB_INTn_MIN
IntMax(t) == Half[t] - 1                  \* BUSTUB_INTn_MAX
InRange(n, t) == n >= IntMin(t) /\ n <= IntMax(t)

\* Value(type, intN_t i): truncate into the field of the type, NULL if it is the sentinel
IntValue(t, i) ==
  LET n == Wrap(i, Half[t]) IN [type |-> t, null |-> n = IntNull(t), v |-> <<n, 1>>]
BoolValue(i) ==
  LET n == Wrap(i, Half["TINYINT"])
  IN  [type |-> "BOOLEAN", null |-> n = IntNull("TINYINT"), v |-> <<n, 1>>]

\* Value(TIMESTAMP, i): i is a number in mixed radix, (month, day, zone), year, second, microsecond
TimestampValue(date, year, second, micro) ==
  [type |-> "TIMESTAMP", null |-> FALSE, v |-> <<date, year, second, micro>>]

\* Value(DECIMAL, d), the fraction in lowest terms
DecimalValue(num, den) ==
  LET g == CHOOSE k \in 1..Abs(den) :
             /\ num % k = 0 /\ den % k = 0
             /\ \A m \in (k+1)..Abs(den) : num % m # 0 \/ den % m # 0
      Reduced(sign, d) == [type |-> "DECIMAL", null |-> FALSE, v |-> <<(sign * num) \div d, (sign * den) \div d>>]
  IN  Reduced(IF den < 0 THEN -1 ELSE 1, g)
\* static_cast<double> of an integer: the nearest double, of two the one with an even significand
Ulp(n) ==
  CHOOSE u \in Double.ulps :
    /\ Abs(n) <= Double.exact * u
    /\ \A w \in Double.ulps : Abs(n) <= Double.exact * w => u <= w
Nearest(n, u) ==
  LET below == n \div u
      rest == n % u
  IN  IF 2 * rest < u \/ (2 * rest = u /\ below % 2 = 0) THEN u * below ELSE u * (below + 1)
ToDouble(n) == Nearest(n, Ulp(n))

\* the fraction an operation on doubles sees of a number
DoubleOf(x) == IF x.type = "DECIMAL" THEN x.v ELSE <<ToDouble(x.v[1]), 1>>

DecimalNull == [type |-> "DECIMAL", null |-> TRUE, v |-> <<0, 0>>]

VarcharValue(s) == [type |-> "VARCHAR", null |-> FALSE, v |-> s]
VarlenNull(t) == [type |-> t, null |-> TRUE, v |-> <<>>]
VectorValue(s) == [type |-> "VECTOR", null |-> FALSE, v |-> s]

NullValue(t) ==
  CASE t \in IntegerTypes -> IntValue(t, IntNull(t))
    [] t = "BOOLEAN"   -> BoolValue(IntNull("TINYINT"))
    [] t = "DECIMAL"   -> DecimalNull
    [] OTHER           -> VarlenNull(t)

\* Value::CheckComparable
CheckComparable(l, r) ==
  \/ l.type = "BOOLEAN" /\ r.type \in {"BOOLEAN", "VARCHAR"}
  \/ l.type \in NumericTypes /\ r.type \in NumericTypes \union {"VARCHAR"}
  \/ l.type = "VARCHAR"

\* Value::CheckInteger
CheckInteger(x) == x.type \in IntegerTypes

(***************************************************************************)
(* Texts: ToString, and the std::sto* functions that read them back        *)
(***************************************************************************)
Minus == 45
Dot == 46
Zero == 48
WordTrue == <<116, 114, 117, 101>>
WordFalse == <<102, 97, 108, 115, 101>>

SpellNat[n \in Nat] ==
  IF n < 10 THEN <<Zero + n>> ELSE Append(SpellNat[n \div 10], Zero + (n % 10))
SpellUnsigned(n) == SpellNat[Abs(n)]    \* the sign forgotten

Spell(n) == IF n < 0 THEN <<Minus>> \o SpellNat[-n] ELSE SpellNat[n]

\* std::to_string(double), with one digit after the point instead of six
SpellDecimal(num, den) ==
  LET tenths == (20 * Abs(num) + den) \div (2 * den)
  IN  (IF num < 0 THEN <<Minus>> ELSE <<>>)
        \o SpellNat[tenths \div 10] \o <<Dot, Zero + (tenths % 10)>>

\* TimestampType::ToString: the fields of the text, after a mark that is no digit
StampMark == 1000
TimestampText(v) ==
  LET date == v[1]
      second == v[3]
  IN  <<StampMark, v[2], date \div (27 * 32), (date \div 27) % 32,
        (second \div 3600) % 24, (second \div 60) % 60, second % 60, v[4], (date % 27) - 12>>

\* the leading digits of a text, and the number they spell
Digits(s) ==
  LET n == CHOOSE k \in 0..Len(s) :
             /\ \A i \in 1..k : s[i] \in Zero..(Zero + 9)
             /\ k < Len(s) => s[k+1] \notin Zero..(Zero + 9)
  IN  SubSeq(s, 1, n)
Reading(ds) ==
  LET read[i \in 0..Len(ds)] == IF i = 0 THEN 0 ELSE 10 * read[i - 1] + ds[i] - Zero
  IN  read[Len(ds)]

\* the sign in front of a number, and the text after it
Sign(s) == IF s # <<>> /\ Head(s) = Minus THEN -1 ELSE 1
Unsigned(s) == IF Sign(s) = -1 THEN Tail(s) ELSE s

\* std::stoi and std::stoll: a number of the target width, or an exception
Stored(n, t) ==
  IF n < -Half[t] \/ n >= Half[t] THEN Throw("OUT_OF_RANGE")
  ELSE [type |-> t, null |-> FALSE, v |-> <<n, 1>>]
StoInteger(s, t) ==
  IF Digits(Unsigned(s)) = <<>> THEN Throw("INVALID_ARGUMENT")
  ELSE Stored(Sign(s) * Reading(Digits(Unsigned(s))), t)

\* std::stod
Fraction(rest) == IF rest # <<>> /\ Head(rest) = Dot THEN Digits(Tail(rest)) ELSE <<>>
DecimalFrom(sign, whole, frac) ==
  IF whole = <<>> /\ frac = <<>> THEN Throw("INVALID_ARGUMENT")
  ELSE DecimalValue(sign * Reading(whole \o frac), 10^Len(frac))
StoDecimal(s) ==
  LET body == Unsigned(s)
      whole == Digits(body)
  IN  DecimalFrom(Sign(s), whole, Fraction(SubSeq(body, Len(whole) + 1, Len(body))))

\* TypeUtil::CompareStrings: memcmp on the common length, then the lengths
CompareStrings(s1, s2) ==
  LET common == 1..(IF Len(s1) < Len(s2) THEN Len(s1) ELSE Len(s2))
      diff == {i \in common : s1[i] # s2[i]}
      first == CHOOSE i \in diff : \A j \in diff : i <= j
  IN  IF diff = {} THEN Len(s1) - Len(s2) ELSE s1[first] - s2[first]

=============================================================================
