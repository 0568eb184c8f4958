----------------------------- MODULE TypeSystem -----------------------------
(***************************************************************************)
(* Calls into the type system.  An idle caller picks operands and one of   *)
(* the operations of Value, ValueFactory or Tuple; the state then shows    *)
(* the call and what it returned, and the caller becomes idle again.       *)
(***************************************************************************)
EXTENDS Tuples

CONSTANTS Operands,     \* the values a caller holds
          Stamps,       \* timestamp texts
          RowTypes,     \* the column types of rows
          RowValues,    \* the values stored in a column, by its type
          MaxColumns    \* columns in a row

\* what the constructors of Value build
IsValue(x) ==
  CASE x.type \in IntegerTypes -> x.v[1] \in Int /\ x = IntValue(x.type, x.v[1])
    [] x.type = "BOOLEAN" -> x.v[1] \in Int /\ x = BoolValue(x.v[1])
    [] x.type = "DECIMAL" -> \/ x = DecimalNull
                             \/ x.v[1] \in Int /\ x.v[2] \in Nat \ {0} /\ x = DecimalValue(x.v[1], x.v[2])
    [] OTHER -> /\ x \in [type : TypeIds, null : BOOLEAN, v : Seq(Int)]
                /\ x.null => x = VarlenNull(x.type)

ASSUME OperandsAssumption == \A x \in Operands : IsValue(x)

\* the zones for which TimestampOf is modelled
ASSUME StampsAssumption == \A s \in Stamps : Len(s) = 9 => s[9] >= -12

VARIABLES call,         \* [op, l, r]: the operation and its operands
          out,          \* the value returned
          cmp,          \* the result of a comparison
          row           \* [types, values, data]: the last tuple built

vars == <<call, out, cmp, row>>

None == VarlenNull("INVALID")
Idle == [op |-> "idle", l |-> None, r |-> None]
NoRow == [types |-> <<>>, values |-> <<>>, data |-> <<>>]

Init == call = Idle /\ out = None /\ cmp = "none" /\ row = NoRow

Called(op, l, r) == call' = [op |-> op, l |-> l, r |-> r]

DoArithmetic(op, l, r) ==
  Called(op, l, r) /\ out' = Arithmetic(op, l, r) /\ UNCHANGED <<cmp, row>>
DoCompare(op, l, r) ==
  Called(op, l, r) /\ cmp' = Compare(op, l, r) /\ UNCHANGED <<out, row>>
DoMinMax(which, l, r) ==
  Called(which, l, r) /\ out' = MinMax(which, l, r) /\ UNCHANGED <<cmp, row>>
DoSqrt(l) == Called("sqrt", l, None) /\ out' = Sqrt(l) /\ UNCHANGED <<cmp, row>>

\* Value::CastAs; the target type is the type of the second operand
DoCast(l, t) == Called("cast", l, NullValue(t)) /\ out' = CastAs(l, t) /\ UNCHANGED <<cmp, row>>

\* ValueFactory::CastAsTimestamp of a text
DoTimestamp(s) ==
  Called("stamp", VarcharValue(s), None) /\ out' = CastAsTimestamp(VarcharValue(s)) /\ UNCHANGED <<cmp, row>>

\* Tuple(values, schema), columns named by their position
SchemaOf(types) == Schema([i \in DOMAIN types |-> Column(i, types[i], 8)])
BuildRow(types, values) ==
  /\ Called("row", None, None)
  /\ row' = [types |-> types, values |-> values, data |-> NewTuple(values, SchemaOf(types))]
  /\ UNCHANGED <<out, cmp>>

Return == call.op # "idle" /\ call' = Idle /\ out' = None /\ cmp' = "none" /\ row' = NoRow

\* one value for each column
RowsOf(types) == {vs \in [DOMAIN types -> UNION {RowValues[t] : t \in RowTypes}] :
                    \A i \in DOMAIN types : vs[i] \in RowValues[types[i]]}

Call ==
  \/ \E l, r \in Operands :
       \/ \E op \in ArithOps : DoArithmetic(op, l, r)
       \/ \E op \in CompareOps : DoCompare(op, l, r)
       \/ \E which \in {"Min", "Max"} : DoMinMax(which, l, r)
  \/ \E l \in Operands : DoSqrt(l)
  \/ \E l \in Operands, t \in TypeIds \ {"INVALID"} : DoCast(l, t)
  \/ \E s \in Stamps : DoTimestamp(s)
  \/ \E n \in 1..MaxColumns : \E types \in [1..n -> RowTypes] : \E vs \in RowsOf(types) : BuildRow(types, vs)

Next == (call.op = "idle" /\ Call) \/ Return

Spec == Init /\ [][Next]_vars

(***************************************************************************)
(* Properties                                                              *)
(***************************************************************************)
ExactResult(op, x, y) ==
  CASE op = "+" -> x + y
    [] op = "-" -> x - y
    [] op = "*" -> x * y
    [] op = "/" -> IF y = 0 THEN 0 ELSE Quot(x, y)
    [] op = "%" -> IF y = 0 THEN 0 ELSE Rem(x, y)
WiderType(l, r) == IF Half[l.type] >= Half[r.type] THEN l.type ELSE r.type

\* Integer arithmetic is exact or refused: the result of two non-NULL integers is the
\* mathematical one in the wider of the two types, NULL only when that is the type's
\* sentinel; it is refused exactly when it does not fit, or on division by zero
ArithmeticExact ==
  (call.op \in ArithOps /\ CheckInteger(call.l) /\ CheckInteger(call.r) /\ ~call.l.null /\ ~call.r.null)
  => LET t == WiderType(call.l, call.r)
         z == ExactResult(call.op, call.l.v[1], call.r.v[1])
     IN  IF call.op \in {"/", "%"} /\ call.r.v[1] = 0 THEN out = Throw("DIVIDE_BY_ZERO")
         ELSE IF z < -Half[t] \/ z >= Half[t] THEN out = Throw("OUT_OF_RANGE")
         ELSE out = IntValue(t, z)

Converse(op) ==
  CASE op = "<" -> ">" [] op = "<=" -> ">=" [] op = ">" -> "<" [] op = ">=" -> "<=" [] OTHER -> op

\* The type objects agree on the order: a comparison dispatched on the left operand says the
\* same as its converse dispatched on the right one, for numbers of any two types and for
\* two values of the same other type; and exactly one of <, = and > is true of non-NULLs
CompareConsistent ==
  (call.op \in CompareOps
   /\ ({call.l.type, call.r.type} \subseteq NumericTypes \/ call.l.type = call.r.type))
  => /\ cmp = Compare(Converse(call.op), call.r, call.l)
     /\ (cmp \in {"CmpTrue", "CmpFalse"} =>
           Cardinality({op \in {"<", "=", ">"} : Compare(op, call.l, call.r) = "CmpTrue"}) = 1)

\* a double that an integer beyond 2^53 became: off by less than the 2^53th part of it
NearlyExact(n, v) ==
  v[2] = 1 /\ Abs(n) > Double.exact /\ Abs(v[1] - n) * Double.exact < Abs(n)

\* A cast between numeric types keeps the whole part of the number or is refused, and only
\* NULL becomes NULL.  Two exceptions: a BIGINT beyond 2^53 becomes a DECIMAL next to it, and
\* the DECIMAL -2^63 becomes BIGINT's sentinel
CastExact ==
  (call.op = "cast" /\ call.l.type \in NumericTypes /\ call.r.type \in NumericTypes)
  => LET x == call.l
         t == call.r.type
         z == IF t = "DECIMAL" THEN x.v ELSE <<Quot(x.v[1], x.v[2]), 1>>
     IN  \/ x.null /\ out = NullValue(t)
         \/ ~x.null /\ ~Thrown(out)
              /\ (out.v = z \/ (x.type = "BIGINT" /\ t = "DECIMAL" /\ NearlyExact(x.v[1], out.v)))
              /\ (out.null => x.type = "DECIMAL" /\ t = "BIGINT" /\ z[1] = IntNull(t))
         \/ ~x.null /\ out = Throw("OUT_OF_RANGE") /\ t # "DECIMAL" /\ ~InRange(z[1], t)
         \/ ~x.null /\ out = Throw("OUT_OF_RANGE") /\ x.type = "DECIMAL" /\ z[1] \in {IntMin(t), IntMax(t)}

\* The two implementations of casts agree: where Value::CastAs and ValueFactory::CastAs*
\* both return, they return the same value
FactoryAgrees ==
  (call.op = "cast" /\ call.r.type # "VECTOR") =>
    LET other == FactoryCastAs(call.l, call.r.type)
    IN  Thrown(out) \/ Thrown(other) \/ out = other

\* Texts read back: an integer or boolean cast to VARCHAR and back is itself, and a
\* timestamp text with a zone from -12 to +14 is printed as it was read
TextsReadBack ==
  /\ (call.op = "cast" /\ call.r.type = "VARCHAR" /\ ~call.l.null
       /\ call.l.type \in IntegerTypes \union {"BOOLEAN"}) => CastAs(out, call.l.type) = call.l
  /\ (call.op = "stamp" /\ ~Thrown(out) /\ call.l.v[9] \in -12..14) =>
       CastAs(out, "VARCHAR") = call.l

\* A tuple keeps its values: every column of a tuple reads back as the value it was built
\* from, whatever the columns around it hold, NULLs and variable lengths included; so does
\* every column of a key made from it in any order, and of the tuple copied through storage
RowKeepsValues ==
  call.op = "row" =>
    LET schema == SchemaOf(row.types)
        cols == DOMAIN row.types
        copy == TupleDeserializeFrom(TupleSerializeTo(row.data))
    IN  /\ \A i \in cols : GetValue(row.data, schema, i) = row.values[i]
        /\ \A i \in cols : GetValue(copy, schema, i) = row.values[i]
        /\ \A i, j \in cols :
             LET attrs == <<i, j>>
                 keySchema == CopySchema(schema, attrs)
                 key == KeyFromTuple(row.data, schema, keySchema, attrs)
             IN  GetValue(key, keySchema, 1) = row.values[i] /\ GetValue(key, keySchema, 2) = row.values[j]

=============================================================================
