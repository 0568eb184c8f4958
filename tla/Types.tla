-------------------------------- MODULE Types --------------------------------
(***************************************************************************)
(* The type objects of type/*_type.cpp: arithmetic, comparison, casts and  *)
(* storage of each SQL type, and the virtual calls of Value that reach     *)
(* them by the type of the left operand.                                   *)
(***************************************************************************)
EXTENDS Values

ArithOps == {"+", "-", "*", "/", "%"}
CompareOps == {"=", "#", "<", "<=", ">", ">="}

\* whether "a op b" holds, for a negative, zero or positive a - b
OpHolds(op, d) ==
  CASE op = "=" -> d = 0
    [] op = "#" -> d # 0
    [] op = "<" -> d < 0
    [] op = "<=" -> d <= 0
    [] op = ">" -> d > 0
    [] op = ">=" -> d >= 0
GetCmpBool(b) == IF b THEN "CmpTrue" ELSE "CmpFalse"

\* the sign of the difference of two numbers: of doubles when one of them is a DECIMAL
FractionDiff(x, y) == x[1] * y[2] - y[1] * x[2]
NumDiff(l, r) ==
  IF CheckInteger(l) /\ CheckInteger(r) THEN l.v[1] - r.v[1]
  ELSE FractionDiff(DoubleOf(l), DoubleOf(r))

\* the methods of the base class Type
NotImplemented == Throw("NOT_IMPLEMENTED")

(***************************************************************************)
(* CastAs                                                                  *)
(***************************************************************************)
\* the BOOLEAN spelled by a text, in lower case
BooleanOf(s) ==
  CASE s \in {WordTrue, <<Zero + 1>>, <<116>>} -> BoolValue(1)
    [] s \in {WordFalse, <<Zero>>, <<102>>}    -> BoolValue(0)
    [] OTHER                                   -> Throw("FORMAT_ERROR")

\* TINYINT and SMALLINT: the int that stoi read is truncated and only its lower bound tested;
\* INTEGER and BIGINT: read at full width, then tested against the limits
NarrowFromText(n, t) ==
  IF Thrown(n) THEN n
  ELSE IF Wrap(n.v[1], Half[t]) < IntMin(t) THEN Throw("OUT_OF_RANGE")
  ELSE IntValue(t, n.v[1])
FullFromText(n, t) ==
  IF Thrown(n) THEN n
  ELSE IF ~InRange(n.v[1], t) THEN Throw("OUT_OF_RANGE")
  ELSE IntValue(t, n.v[1])

\* DECIMAL: stod, then the limits
DecimalFromText(d) ==
  IF Thrown(d) THEN d
  ELSE IF d.v[1] > Double.max * d.v[2] \/ d.v[1] < Double.min * d.v[2] THEN Throw("OUT_OF_RANGE")
  ELSE d

\* VarlenType::CastAs; ToString of a NULL VARCHAR is a word that is no number
VarlenCastAs(x, t) ==
  LET s == IF x.null THEN <<118>> ELSE x.v IN
  CASE t = "BOOLEAN" -> BooleanOf(s)
    [] t \in {"TINYINT", "SMALLINT"} -> NarrowFromText(StoInteger(s, "INTEGER"), t)
    [] t \in {"INTEGER", "BIGINT"}   -> FullFromText(StoInteger(s, t), t)
    [] t = "DECIMAL" -> DecimalFromText(StoDecimal(s))
    [] t = "VARCHAR" -> x
    [] OTHER -> Throw("NOT_COERCABLE")

\* a narrowing cast without the test of the limits
IntegerToIntegerUnchecked(x, t) == IF x.null THEN NullValue(t) ELSE IntValue(t, x.v[1])

\* an integer into another integer type: tested when that type may be narrower
IntegerToInteger(x, t) ==
  IF x.null THEN NullValue(t)
  ELSE IF Half[t] < Half[x.type] /\ ~InRange(x.v[1], t) THEN Throw("OUT_OF_RANGE")
  ELSE IntValue(t, x.v[1])

\* the CastAs of the four integer types
IntegerCastAs(x, t) ==
  CASE t \in IntegerTypes -> IntegerToInteger(x, t)
    [] t = "DECIMAL" -> IF x.null THEN DecimalNull ELSE DecimalValue(ToDouble(x.v[1]), 1)
    [] t = "VARCHAR" -> IF x.null THEN VarlenNull(t) ELSE VarcharValue(Spell(x.v[1]))
    [] OTHER -> Throw("NOT_COERCABLE")

TinyintCastAs(x, t)  == IntegerCastAs(x, t)
SmallintCastAs(x, t) == IntegerCastAs(x, t)
IntegerTypeCastAs(x, t) == IntegerCastAs(x, t)
BigintCastAs(x, t)   == IntegerCastAs(x, t)

\* the double nearest to INT64_MAX is 2^63, one more than it
DecimalOutOfRange(x, t) ==
  IF t = "BIGINT" THEN x.v[1] >= Half[t] * x.v[2] \/ x.v[1] < -Half[t] * x.v[2]
  ELSE x.v[1] > IntMax(t) * x.v[2] \/ x.v[1] < IntMin(t) * x.v[2]

DecimalCastAs(x, t) ==
  CASE t \in IntegerTypes /\ x.null -> NullValue(t)
    [] t \in IntegerTypes /\ ~x.null ->
         IF DecimalOutOfRange(x, t) THEN Throw("OUT_OF_RANGE") ELSE IntValue(t, Quot(x.v[1], x.v[2]))
    [] t = "DECIMAL" -> x
    [] t = "VARCHAR" -> IF x.null THEN VarlenNull(t) ELSE VarcharValue(SpellDecimal(x.v[1], x.v[2]))
    [] OTHER -> Throw("NOT_COERCABLE")

BooleanCastAs(x, t) ==
  CASE t = "BOOLEAN" -> BoolValue(x.v[1])
    [] t = "VARCHAR" -> IF x.null THEN VarlenNull(t)
                        ELSE VarcharValue(IF x.v[1] = 1 THEN WordTrue ELSE WordFalse)
    [] OTHER -> Throw("NOT_COERCABLE")

TimestampCastAs(x, t) ==
  CASE t = "TIMESTAMP" -> x
    [] t = "VARCHAR" -> IF x.null THEN VarlenNull(t) ELSE VarcharValue(TimestampText(x.v))
    [] OTHER -> Throw("NOT_COERCABLE")

VectorCastAs(x, t) == NotImplemented

\* Value::CastAs, through k_types
CastAs(x, t) ==
  CASE x.type = "TINYINT"   -> TinyintCastAs(x, t)
    [] x.type = "SMALLINT"  -> SmallintCastAs(x, t)
    [] x.type = "INTEGER"   -> IntegerTypeCastAs(x, t)
    [] x.type = "BIGINT"    -> BigintCastAs(x, t)
    [] x.type = "DECIMAL"   -> DecimalCastAs(x, t)
    [] x.type = "BOOLEAN"   -> BooleanCastAs(x, t)
    [] x.type = "VARCHAR"   -> VarlenCastAs(x, t)
    [] x.type = "TIMESTAMP" -> TimestampCastAs(x, t)
    [] x.type = "VECTOR"    -> VectorCastAs(x, t)
    [] OTHER                -> NotImplemented

(***************************************************************************)
(* Arithmetic                                                              *)
(***************************************************************************)
IsZero(x) == x.v[1] = 0

\* exact fractions for the double arithmetic of the *_MODIFY_FUNC macros and ValMod
DoubleModify(op, x, y) ==
  LET a == x[1] * y[2]
      b == y[1] * x[2]
      d == x[2] * y[2]
  IN  CASE op = "+" -> DecimalValue(a + b, d)
        [] op = "-" -> DecimalValue(a - b, d)
        [] op = "*" -> DecimalValue(x[1] * y[1], d)
        [] op = "/" -> DecimalValue(a, b)
        [] op = "%" -> DecimalValue(a - Quot(a, b) * b, d)
DecimalModify(op, l, r) == DoubleModify(op, DoubleOf(l), DoubleOf(r))

\* the template of IntegerParentType the macro picks for the two types
IntegerModify(op, l, r) ==
  LET h1 == Half[l.type]
      h2 == Half[r.type]
      x == l.v[1]
      y == r.v[1]
      out == CASE op = "+" -> AddValue(h1, h2, x, y)
               [] op = "-" -> SubtractValue(h1, h2, x, y)
               [] op = "*" -> MultiplyValue(h1, h2, x, y)
               [] op = "/" -> DivideValue(h1, h2, x, y)
               [] op = "%" -> ModuloValue(h1, h2, x, y)
  IN  IF out = {} THEN Throw(IF op \in {"/", "%"} THEN "DIVIDE_BY_ZERO" ELSE "OUT_OF_RANGE")
      ELSE IntValue(IF h1 >= h2 THEN l.type ELSE r.type, CHOOSE n \in out : TRUE)

\* the OperateNull of the integer types: NULL of the wider type
IntegerOperateNull(l, r) ==
  CASE r.type = "DECIMAL" -> DecimalNull
    [] r.type \in IntegerTypes -> NullValue(IF Half[r.type] > Half[l.type] THEN r.type ELSE l.type)
    [] OTHER -> Throw("TYPE_ERROR")

TinyintOperateNull(l, r)  == IntegerOperateNull(l, r)
SmallintOperateNull(l, r) == IntegerOperateNull(l, r)
IntegerTypeOperateNull(l, r) == IntegerOperateNull(l, r)
BigintOperateNull(l, r)   == IntegerOperateNull(l, r)

\* Value::OperateNull, through k_types
OperateNull(l, r) ==
  CASE l.type = "TINYINT"  -> TinyintOperateNull(l, r)
    [] l.type = "SMALLINT" -> SmallintOperateNull(l, r)
    [] l.type = "INTEGER"  -> IntegerTypeOperateNull(l, r)
    [] l.type = "BIGINT"   -> BigintOperateNull(l, r)
    [] l.type = "DECIMAL"  -> DecimalNull
    [] OTHER               -> NotImplemented

\* the right operand as the operations of the left one's type use it: a text is cast to the type
\* of a number; BOOLEAN and VARCHAR cast whatever they are compared with
Operand(l, r) == IF r.type = "VARCHAR" \/ l.type \in {"BOOLEAN", "VARCHAR"} THEN CastAs(r, l.type) ELSE r

\* Add .. Modulo of the integer types; IsZero of a VARCHAR is not implemented.  c is Operand(l, r)
IntegerArithmetic(op, l, r, c) ==
  IF ~CheckComparable(l, r) THEN Throw("ASSERT")
  ELSE IF l.null \/ r.null THEN OperateNull(l, r)
  ELSE IF op \in {"/", "%"} /\ r.type = "VARCHAR" THEN NotImplemented
  ELSE IF op \in {"/", "%"} /\ IsZero(r) THEN Throw("DIVIDE_BY_ZERO")
  ELSE IF Thrown(c) THEN c
  ELSE IF c.type = "DECIMAL" THEN DecimalModify(op, l, c)
  ELSE IntegerModify(op, l, c)

TinyintArithmetic(op, l, r, c)  == IntegerArithmetic(op, l, r, c)
SmallintArithmetic(op, l, r, c) == IntegerArithmetic(op, l, r, c)
IntegerTypeArithmetic(op, l, r, c) == IntegerArithmetic(op, l, r, c)
BigintArithmetic(op, l, r, c)   == IntegerArithmetic(op, l, r, c)

DecimalArithmetic(op, l, r, c) ==
  IF ~CheckComparable(l, r) THEN Throw("ASSERT")
  ELSE IF l.null \/ r.null THEN DecimalNull
  ELSE IF op \in {"/", "%"} /\ r.type = "VARCHAR" THEN NotImplemented
  ELSE IF op \in {"/", "%"} /\ IsZero(r) THEN Throw("DIVIDE_BY_ZERO")
  ELSE IF Thrown(c) THEN c
  ELSE DecimalModify(op, l, c)

\* Value::Add .. Value::Modulo, through k_types
ArithmeticWith(op, l, r, c) ==
  CASE l.type = "TINYINT"  -> TinyintArithmetic(op, l, r, c)
    [] l.type = "SMALLINT" -> SmallintArithmetic(op, l, r, c)
    [] l.type = "INTEGER"  -> IntegerTypeArithmetic(op, l, r, c)
    [] l.type = "BIGINT"   -> BigintArithmetic(op, l, r, c)
    [] l.type = "DECIMAL"  -> DecimalArithmetic(op, l, r, c)
    [] OTHER               -> NotImplemented
Arithmetic(op, l, r) == ArithmeticWith(op, l, r, Operand(l, r))

\* std::sqrt on a grid of halves: the largest half whose square is not above the number
SqrtOfDouble(d) ==
  DecimalValue(CHOOSE k \in 0..(2 * d[1] + 2) :
                 k * k * d[2] <= 4 * d[1] /\ (k + 1) * (k + 1) * d[2] > 4 * d[1], 2)
SqrtOf(x) == SqrtOfDouble(DoubleOf(x))

\* Sqrt; INTEGER's NULL goes through OperateNull and stays an INTEGER
TinyintSqrt(x) ==
  IF x.null THEN DecimalNull ELSE IF x.v[1] < 0 THEN Throw("NEGATIVE_ROOT") ELSE SqrtOf(x)
SmallintSqrt(x) == TinyintSqrt(x)
BigintSqrt(x) == TinyintSqrt(x)
DecimalSqrt(x) == TinyintSqrt(x)
IntegerTypeSqrt(x) == IF x.null THEN OperateNull(x, x) ELSE TinyintSqrt(x)
Sqrt(x) ==
  CASE x.type = "TINYINT"  -> TinyintSqrt(x)
    [] x.type = "SMALLINT" -> SmallintSqrt(x)
    [] x.type = "INTEGER"  -> IntegerTypeSqrt(x)
    [] x.type = "BIGINT"   -> BigintSqrt(x)
    [] x.type = "DECIMAL"  -> DecimalSqrt(x)
    [] OTHER               -> NotImplemented

(***************************************************************************)
(* Comparison                                                              *)
(***************************************************************************)
\* a comparison of the whole parts
NumericCompareWhole(op, l, r, c) ==
  IF ~CheckComparable(l, r) THEN "ASSERT"
  ELSE IF l.null \/ r.null THEN "CmpNull"
  ELSE IF Thrown(c) THEN c.type
  ELSE GetCmpBool(OpHolds(op, l.v[1] - Quot(l.v[2] * c.v[1], c.v[2])))

\* the *_COMPARE_FUNC macros of the numeric types; c is Operand(l, r)
NumericCompare(op, l, r, c) ==
  IF ~CheckComparable(l, r) THEN "ASSERT"
  ELSE IF l.null \/ r.null THEN "CmpNull"
  ELSE IF Thrown(c) THEN c.type
  ELSE GetCmpBool(OpHolds(op, NumDiff(l, c)))

TinyintCompare(op, l, r, c)  == NumericCompare(op, l, r, c)
SmallintCompare(op, l, r, c) == NumericCompare(op, l, r, c)
IntegerTypeCompare(op, l, r, c) == NumericCompare(op, l, r, c)
BigintCompare(op, l, r, c)   == NumericCompare(op, l, r, c)
DecimalCompare(op, l, r, c)  == NumericCompare(op, l, r, c)

BooleanCompare(op, l, r, c) ==
  IF ~CheckComparable(l, r) THEN "ASSERT"
  ELSE IF l.null \/ r.null THEN "CmpNull"
  ELSE IF Thrown(c) THEN c.type
  ELSE GetCmpBool(OpHolds(op, l.v[1] - c.v[1]))

\* VARLEN_COMPARE_FUNC: anything is comparable, by its text
VarlenCompare(op, l, r, c) ==
  IF l.null \/ r.null THEN "CmpNull"
  ELSE IF Thrown(c) THEN c.type
  ELSE GetCmpBool(OpHolds(op, CompareStrings(l.v, c.v)))

\* CheckComparable is false for every TIMESTAMP on the left
TimestampCompare(op, l, r) == "ASSERT"
VectorCompare(op, l, r) == "NOT_IMPLEMENTED"

\* Value::CompareEquals .. Value::CompareGreaterThanEquals, through k_types
CompareWith(op, l, r, c) ==
  CASE l.type = "TINYINT"   -> TinyintCompare(op, l, r, c)
    [] l.type = "SMALLINT"  -> SmallintCompare(op, l, r, c)
    [] l.type = "INTEGER"   -> IntegerTypeCompare(op, l, r, c)
    [] l.type = "BIGINT"    -> BigintCompare(op, l, r, c)
    [] l.type = "DECIMAL"   -> DecimalCompare(op, l, r, c)
    [] l.type = "BOOLEAN"   -> BooleanCompare(op, l, r, c)
    [] l.type = "VARCHAR"   -> VarlenCompare(op, l, r, c)
    [] l.type = "TIMESTAMP" -> TimestampCompare(op, l, r)
    [] l.type = "VECTOR"    -> VectorCompare(op, l, r)
    [] OTHER                -> "NOT_IMPLEMENTED"
Compare(op, l, r) == CompareWith(op, l, r, Operand(l, r))

\* the test each type's Min and Max keep the left operand by
IntegerMinMax(which) == IF which = "Min" THEN "<" ELSE ">="
DecimalMinMax(which) == IF which = "Min" THEN "<=" ELSE ">="
VarlenMinMax(which) == IF which = "Min" THEN "<" ELSE ">"
Kept(c, l, r) == IF c = "CmpTrue" THEN l ELSE IF c = "CmpFalse" THEN r ELSE Throw(c)

MinMax(which, l, r) ==
  IF l.type \in {"BOOLEAN", "VECTOR", "INVALID"} THEN NotImplemented
  ELSE IF ~CheckComparable(l, r) THEN Throw("ASSERT")
  ELSE IF l.null \/ r.null THEN OperateNull(l, r)
  ELSE LET test == CASE l.type = "DECIMAL" -> DecimalMinMax(which)
                     [] l.type = "VARCHAR" -> VarlenMinMax(which)
                     [] OTHER -> IntegerMinMax(which)
       IN  Kept(Compare(test, l, r), l, r)

(***************************************************************************)
(* Storage.  A byte of a stored number is a piece <<number, k>> of it, so  *)
(* that a read at the wrong place, or of overwritten bytes, shows.         *)
(***************************************************************************)
\* Type::GetTypeSize
GetTypeSize(t) ==
  CASE t \in {"BOOLEAN", "TINYINT"} -> 1
    [] t = "SMALLINT" -> 2
    [] t = "INTEGER" -> 4
    [] t \in {"BIGINT", "DECIMAL", "TIMESTAMP"} -> 8

Bytes(p, n) == [k \in 1..n |-> <<p, k>>]
LengthSize == 4                 \* sizeof(uint32_t), the length before the data
LengthNull == <<-1>>            \* BUSTUB_VALUE_NULL

\* Value::GetStorageSize, for the two types that have one
StorageSize(x) == IF x.type = "VARCHAR" THEN Len(x.v) + 1 ELSE 8 * Len(x.v)

\* the fixed-size types store the number, sentinel included
FixedSerializeTo(x) == Bytes(x.v, GetTypeSize(x.type))

\* VarlenType: the length with the final NUL, then the characters
VarlenSerializeTo(x) ==
  IF x.null THEN Bytes(LengthNull, LengthSize)
  ELSE Bytes(<<StorageSize(x)>>, LengthSize) \o [i \in 1..Len(x.v) |-> <<<<x.v[i]>>, 1>>] \o Bytes(<<0>>, 1)

\* VectorType: the length in bytes, then the doubles
VectorSerializeTo(x) ==
  IF x.null THEN Bytes(LengthNull, LengthSize)
  ELSE Bytes(<<StorageSize(x)>>, LengthSize) \o [k \in 1..(8 * Len(x.v)) |-> Bytes(<<x.v[1 + (k - 1) \div 8]>>, 8)[1 + ((k - 1) % 8)]]

SerializeTo(x) ==
  CASE x.type = "VARCHAR" -> VarlenSerializeTo(x)
    [] x.type = "VECTOR" -> VectorSerializeTo(x)
    [] OTHER -> FixedSerializeTo(x)

\* the constructor of Value on a number read back
Rebuild(t, p) ==
  CASE t \in IntegerTypes -> IntValue(t, p[1])
    [] t = "BOOLEAN" -> BoolValue(p[1])
    [] t = "DECIMAL" -> IF p = DecimalNull.v THEN DecimalNull ELSE DecimalValue(p[1], p[2])
    [] t = "TIMESTAMP" -> [type |-> t, null |-> p = <<>>, v |-> p]

FixedDeserializeFrom(t, bytes) ==
  LET n == GetTypeSize(t)
      p == bytes[1][1]
  IN  IF Len(bytes) >= n /\ SubSeq(bytes, 1, n) = Bytes(p, n) THEN Rebuild(t, p) ELSE Throw("GARBAGE")

\* the length stored in front of a VARCHAR or VECTOR
StoredLength(bytes) ==
  IF Len(bytes) >= LengthSize /\ SubSeq(bytes, 1, LengthSize) = Bytes(bytes[1][1], LengthSize)
  THEN bytes[1][1] ELSE <<>>

VarlenDeserializeFrom(bytes) ==
  LET len == StoredLength(bytes) IN
  IF len = LengthNull THEN VarlenNull("VARCHAR")
  ELSE IF len = <<>> \/ LengthSize + len[1] > Len(bytes) THEN Throw("GARBAGE")
  ELSE VarcharValue([i \in 1..(len[1] - 1) |-> bytes[LengthSize + i][1][1]])

VectorDeserializeFrom(bytes) ==
  LET len == StoredLength(bytes) IN
  IF len = LengthNull THEN VarlenNull("VECTOR")
  ELSE IF len = <<>> \/ LengthSize + len[1] > Len(bytes) THEN Throw("GARBAGE")
  ELSE VectorValue([i \in 1..(len[1] \div 8) |-> bytes[LengthSize + 8 * i][1][1]])

DeserializeFrom(t, bytes) ==
  CASE t = "VARCHAR" -> VarlenDeserializeFrom(bytes)
    [] t = "VECTOR" -> VectorDeserializeFrom(bytes)
    [] OTHER -> FixedDeserializeFrom(t, bytes)

=============================================================================
