---------------------------- MODULE ValueFactory ----------------------------
(***************************************************************************)
(* ValueFactory (include/type/value_factory.h): a second implementation of *)
(* the casts, used by code that holds a Value and wants a type.            *)
(***************************************************************************)
EXTENDS Types

\* Type::IsCoercableFrom
IsCoercableFrom(t, from) ==
  CASE t = "INVALID" -> FALSE
    [] t = "BOOLEAN" -> TRUE
    [] t \in NumericTypes -> from \in NumericTypes \union {"VARCHAR"}
    [] t = "TIMESTAMP" -> from \in {"VARCHAR", "TIMESTAMP"}
    [] t = "VARCHAR" -> from \in TypeIds \ {"INVALID", "VECTOR"}
    [] OTHER -> from = t

\* a number read from a text: the same conversions as VarlenType::CastAs, an exception of its own
FromText(x, t) == VarlenCastAs(x, t)

\* a cast of a DECIMAL that rounds down instead of towards zero
IntegerFromRoundsDown(x, t) ==
  CASE x.type = "VARCHAR" -> FromText(x, t)
    [] x.type = "DECIMAL" ->
         IF DecimalOutOfRange(x, t) THEN Throw("OUT_OF_RANGE") ELSE IntValue(t, x.v[1] \div x.v[2])
    [] OTHER -> IntegerToInteger(x, t)

\* the source types are tested against the target's limits when they may exceed them;
\* the static_cast of a double equal to 2^63 gives INT64_MIN, the sentinel
IntegerFrom(x, t) ==
  CASE x.type = "VARCHAR" -> FromText(x, t)
    [] x.type = "DECIMAL" ->
         IF t = "BIGINT" /\ x.v[1] = Half[t] * x.v[2] THEN NullValue(t)
         ELSE IF DecimalOutOfRange(x, t) THEN Throw("OUT_OF_RANGE")
         ELSE IntValue(t, Quot(x.v[1], x.v[2]))
    [] OTHER -> IntegerToInteger(x, t)

CastAsIntegerType(x, t) ==
  IF ~IsCoercableFrom(t, x.type) THEN Throw("NOT_COERCABLE")
  ELSE IF x.null THEN NullValue(t) ELSE IntegerFrom(x, t)

CastAsBigInt(x) == CastAsIntegerType(x, "BIGINT")
CastAsInteger(x) == CastAsIntegerType(x, "INTEGER")
CastAsSmallInt(x) == CastAsIntegerType(x, "SMALLINT")
CastAsTinyInt(x) == CastAsIntegerType(x, "TINYINT")

CastAsDecimal(x) ==
  IF ~IsCoercableFrom("DECIMAL", x.type) THEN Throw("NOT_COERCABLE")
  ELSE IF x.null THEN DecimalNull
  ELSE IF x.type = "VARCHAR" THEN FromText(x, "DECIMAL")
  ELSE IF x.type = "DECIMAL" THEN DecimalValue(x.v[1], x.v[2])
  ELSE DecimalValue(ToDouble(x.v[1]), 1)

CastAsVarchar(x) ==
  IF ~IsCoercableFrom("VARCHAR", x.type) THEN Throw("NOT_COERCABLE")
  ELSE IF x.null THEN VarlenNull("VARCHAR")
  ELSE IF x.type = "TIMESTAMP" THEN Throw("NOT_COERCABLE")
  ELSE CastAs(x, "VARCHAR")

CastAsBoolean(x) ==
  IF ~IsCoercableFrom("BOOLEAN", x.type) THEN Throw("NOT_COERCABLE")
  ELSE IF x.null THEN NullValue("BOOLEAN")
  ELSE CASE x.type = "BOOLEAN" -> BoolValue(x.v[1])
         [] x.type = "VARCHAR" -> BooleanOf(x.v)
         [] OTHER -> Throw("NOT_COERCABLE")

\* the days of each month, and of February in a leap year
Leap(y) == (y % 4 = 0 /\ y % 100 # 0) \/ y % 400 = 0
MaxDay(y, m) ==
  CASE m = 2 -> IF Leap(y) THEN 29 ELSE 28
    [] m \in {4, 6, 9, 11} -> 30
    [] OTHER -> 31

\* the number of a well-formed text <<mark, year, month, day, hour, min, sec, micro, zone>>, for a
\* zone of at least -12: below it timezone, a uint32_t, wraps, and so does the number made with it
TimestampOf(s) ==
  LET year == s[2]
      month == s[3]
      day == s[4]
      zone == s[9] + 12
  IN  IF \/ year > 9999 \/ month > 12 \/ day > 31 \/ s[5] > 23 \/ s[6] > 59 \/ s[7] > 59
         \/ day = 0 \/ month = 0 \/ day > MaxDay(year, month)
      THEN Throw("OUT_OF_RANGE")
      ELSE IF s[9] > 26 THEN Throw("FORMAT_ERROR")
      ELSE TimestampValue((month * 32 + day) * 27 + zone, year, s[5] * 3600 + s[6] * 60 + s[7], s[8])

CastAsTimestamp(x) ==
  IF ~IsCoercableFrom("TIMESTAMP", x.type) THEN Throw("NOT_COERCABLE")
  ELSE IF x.null THEN VarlenNull("TIMESTAMP")
  ELSE IF x.type = "TIMESTAMP" THEN x
  ELSE IF Len(x.v) # 9 \/ x.v[1] # StampMark THEN Throw("FORMAT_ERROR")
  ELSE TimestampOf(x.v)

\* the cast to a type, by the type's function
FactoryCastAs(x, t) ==
  CASE t = "BIGINT"    -> CastAsBigInt(x)
    [] t = "INTEGER"   -> CastAsInteger(x)
    [] t = "SMALLINT"  -> CastAsSmallInt(x)
    [] t = "TINYINT"   -> CastAsTinyInt(x)
    [] t = "DECIMAL"   -> CastAsDecimal(x)
    [] t = "VARCHAR"   -> CastAsVarchar(x)
    [] t = "TIMESTAMP" -> CastAsTimestamp(x)
    [] t = "BOOLEAN"   -> CastAsBoolean(x)

=============================================================================
