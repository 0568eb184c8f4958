---------------------------- MODULE MCTypeSystem ----------------------------
(***************************************************************************)
(* TypeSystem with integers of 2, 3, 6 and 9 bits, and doubles of 7        *)
(* significant bits: each type is narrower than the next, the product of   *)
(* two SMALLINTs fits in an int, an int and its halves are doubles and a   *)
(* BIGINT may be none, as with 8, 16, 32, 64 and 53 bits.                  *)
(***************************************************************************)
EXTENDS TypeSystem

MCHalf == [t \in IntegerTypes |-> CASE t = "TINYINT" -> 2 [] t = "SMALLINT" -> 4
                                    [] t = "INTEGER" -> 32 [] t = "BIGINT" -> 256]
MCDouble == [exact |-> 128, ulps |-> {1, 2}, min |-> -300, max |-> 600]

\* every TINYINT and SMALLINT; for the wide types the numbers near the limits of every type
Near(h, d) == {n \in -h..(h-1) : \E k \in {0, 2, 4, 32, 128, 256} : Abs(Abs(n) - k) <= d}
Integers32 == {IntValue("INTEGER", n) : n \in Near(32, 2) \union {-9, 9, 11}}
Integers64 == {IntValue("BIGINT", n) : n \in Near(256, 1) \union {-16, 9, 16, 33, 131, 251, -253}}
Decimals == {DecimalValue(n, 2) : n \in {-512, -508, -65, -63, -4, -3, 0, 1, 3, 63, 65, 260, 508, 512}}
              \union {DecimalNull}
Texts == {VarcharValue(Spell(n)) : n \in {-301, -256, -33, -5, -1, 0, 1, 3, 10, 31, 255}}
           \union {VarcharValue(s) : s \in {<<>>, WordTrue, WordFalse, <<Zero + 1, Dot, Zero + 5>>, <<Minus>>}}
           \union {VarlenNull("VARCHAR")}
MCOperands == {IntValue("TINYINT", n) : n \in -2..1} \union {IntValue("SMALLINT", n) : n \in -4..3}
  \union Integers32 \union Integers64 \union Decimals \union Texts \union {BoolValue(n) : n \in {-2, 0, 1}}
  \union {TimestampValue(9000, 2020, 3661, 5), VectorValue(<<1, 2>>), VarlenNull("VECTOR")}

MCStamps == [1..9 -> {StampMark}] \union
  {<<StampMark, y, m, d, 23, 59, 7, 5, z>> :
     y \in {1900, 2000, 2023, 2024}, m \in {0, 1, 2, 4, 12, 13}, d \in {0, 1, 28, 29, 30, 31, 32}, z \in {-12, -1, 0, 14, 26, 27}}

MCRowTypes == {"TINYINT", "INTEGER", "DECIMAL", "VARCHAR", "VECTOR"}
MCRowValues == [t \in MCRowTypes |->
  CASE t = "TINYINT" -> {IntValue(t, 1), NullValue(t)}
    [] t = "INTEGER" -> {IntValue(t, 7), NullValue(t)}
    [] t = "DECIMAL" -> {DecimalValue(1, 2), DecimalNull}
    [] t = "VARCHAR" -> {VarcharValue(<<>>), VarcharValue(<<49, 50>>), VarlenNull(t)}
    [] t = "VECTOR"  -> {VectorValue(<<3>>), VarlenNull(t)}]

=============================================================================
