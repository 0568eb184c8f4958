------------------------------- MODULE Tuples -------------------------------
(***************************************************************************)
(* Rows as bytes: Column and Schema (catalog) and Tuple.  The bytes of a  *)
(* tuple are a sequence of pieces (see Types), addressed from 0.           *)
(***************************************************************************)
EXTENDS ValueFactory, Functions

Varlen == {"VARCHAR", "VECTOR"}

\* Column: TypeSize returns a uint8_t, so a declared length is kept modulo 256
TypeSize(t, length) ==
  CASE t = "VARCHAR" -> length % 256
    [] t = "VECTOR" -> (length * 8) % 256
    [] OTHER -> GetTypeSize(t)
Column(name, t, length) == [name |-> name, type |-> t, len |-> TypeSize(t, length), off |-> 0]
IsInlined(col) == col.type \notin Varlen

\* the bytes a column takes in the fixed part: its value, or the offset of it
FixedPart(col) == IF IsInlined(col) THEN col.len ELSE LengthSize

\* Schema(columns): each column starts where the one before it ends
Schema(cols) ==
  LET offset[i \in 0..Len(cols)] == IF i = 0 THEN 0 ELSE offset[i-1] + FixedPart(cols[i])
  IN  [columns |-> [i \in DOMAIN cols |-> [cols[i] EXCEPT !.off = offset[i-1]]],
       length |-> offset[Len(cols)],
       uninlined |-> {i \in DOMAIN cols : ~IsInlined(cols[i])}]

\* Schema::CopySchema
CopySchema(from, attrs) == Schema([i \in DOMAIN attrs |-> from.columns[attrs[i]]])

\* the bytes from offset on, and the bytes with some of them overwritten
From(data, offset) == SubSeq(data, offset + 1, Len(data))
Overwrite(data, offset, bytes) ==
  [i \in DOMAIN data |->
     IF i > offset /\ i <= offset + Len(bytes) THEN bytes[i - offset] ELSE data[i]]

\* a payload without room for the length in front of it
PayloadSizeNoLength(x) == IF x.null THEN 0 ELSE StorageSize(x)

\* the payload of an uninlined value: its length and its data
PayloadSize(x) == LengthSize + (IF x.null THEN 0 ELSE StorageSize(x))

\* where the payload of column i starts: after the fixed part and the payloads before it
PayloadOffset(values, schema, i) ==
  schema.length + FoldFunctionOnSet(+, 0, [j \in DOMAIN values |-> PayloadSize(values[j])],
                                    {j \in schema.uninlined : j < i})

\* write value i: in place, or its payload and the offset of it in place
Store(data, values, schema, i) ==
  LET col == schema.columns[i]
      offset == PayloadOffset(values, schema, i)
  IN  IF IsInlined(col) THEN Overwrite(data, col.off, SerializeTo(values[i]))
      ELSE Overwrite(Overwrite(data, col.off, Bytes(<<offset>>, LengthSize)), offset, SerializeTo(values[i]))

\* Tuple(values, schema)
NewTuple(values, schema) ==
  LET size == PayloadOffset(values, schema, Len(values) + 1)
      blank == [i \in 1..size |-> <<<<0>>, 1>>]
      data[i \in 0..Len(values)] == IF i = 0 THEN blank ELSE Store(data[i-1], values, schema, i)
  IN  data[Len(values)]

\* Tuple::GetDataPtr and Tuple::GetValue
GetDataPtr(data, schema, i) ==
  LET col == schema.columns[i] IN
  IF IsInlined(col) THEN col.off ELSE data[col.off + 1][1][1]
GetValue(data, schema, i) ==
  DeserializeFrom(schema.columns[i].type, From(data, GetDataPtr(data, schema, i)))

\* Tuple::KeyFromTuple
KeyFromTuple(data, schema, keySchema, attrs) ==
  NewTuple([k \in DOMAIN attrs |-> GetValue(data, schema, attrs[k])], keySchema)

\* Tuple::SerializeTo, Tuple::DeserializeFrom: the size, then the bytes
TupleSerializeTo(data) == Bytes(<<Len(data)>>, LengthSize) \o data
TupleDeserializeFrom(bytes) == SubSeq(bytes, LengthSize + 1, LengthSize + bytes[1][1][1])

=============================================================================
