------------------------------- MODULE Plans --------------------------------
(***************************************************************************)
(* The expressions of a plan (include/execution/expressions) and what they *)
(* evaluate to, and plan nodes (include/execution/plans, plan_node.cpp).   *)
(*                                                                         *)
(* A row is a sequence of values; rows holds the one tuple of Evaluate, or *)
(* the left and the right tuple of EvaluateJoin.  Indexes count from 0, as *)
(* in the code.  A constructor that throws returns an Error node, an       *)
(* evaluation that throws a thrown value.  A plan node is a record with    *)
(* the plan type in k, its output schema, a sequence of columns            *)
(* [name, type], and its children.                                         *)
(***************************************************************************)
EXTENDS Bound, ValueFactory

ColumnValueExpression(tuple, col, type) ==
  [k |-> "ColumnValue", tuple |-> tuple, col |-> col, type |-> type, args |-> <<>>]
ConstantValueExpression(v) == [k |-> "Constant", v |-> v, type |-> v.type, args |-> <<>>]
ComparisonExpression(op, l, r) == [k |-> "Comparison", op |-> op, type |-> "BOOLEAN", args |-> <<l, r>>]
ArithmeticExpression(op, l, r) ==
  Require(l.type = "INTEGER" /\ r.type = "INTEGER", "only support integer for now",
    [k |-> "Arithmetic", op |-> op, type |-> "INTEGER", args |-> <<l, r>>])
LogicExpression(op, l, r) ==
  Require(l.type = "BOOLEAN" /\ r.type = "BOOLEAN", "expect boolean from either side",
    [k |-> "Logic", op |-> op, type |-> "BOOLEAN", args |-> <<l, r>>])
ArrayExpression(args) == [k |-> "Array", type |-> "VECTOR", args |-> args]

\* CloneWithChildren
WithArgs(x, args) == [x EXCEPT !.args = args]

GetBooleanValue(cmp) ==
  CASE cmp = "CmpTrue"  -> BoolValue(1)
    [] cmp = "CmpFalse" -> BoolValue(0)
    [] cmp = "CmpNull"  -> NullValue("BOOLEAN")
    [] OTHER            -> Throw(cmp)

\* the int32 sum or difference wraps in this build
ArithmeticCompute(op, l, r) ==
  IF l.null \/ r.null THEN NullValue("INTEGER")
  ELSE IntValue("INTEGER", IF op = "+" THEN l.v[1] + r.v[1] ELSE l.v[1] - r.v[1])

ComparisonCompute(op, l, r) == GetBooleanValue(Compare(op, l, r))

GetBoolAsCmpBool(x) == IF x.null THEN "CmpNull" ELSE GetCmpBool(x.v[1] # 0)

\* AND and OR of SQL's three truth values
LogicCompute(op, x, y) ==
  LET l == GetBoolAsCmpBool(x)
      r == GetBoolAsCmpBool(y)
      strong == IF op = "and" THEN "CmpFalse" ELSE "CmpTrue"
      weak == IF op = "and" THEN "CmpTrue" ELSE "CmpFalse"
  IN  GetBooleanValue(CASE l = strong \/ r = strong -> strong
                        [] l = weak /\ r = weak     -> weak
                        [] OTHER                    -> "CmpNull")

\* EvaluateJoin sizes the vector first and then appends to it; elements are whole numbers here
ArrayCompute(args, join) ==
  IF \E i \in DOMAIN args : args[i].type # "DECIMAL" THEN Throw("NOT_DECIMAL")
  ELSE VectorValue((IF join THEN [i \in DOMAIN args |-> 0] ELSE <<>>) \o [i \in DOMAIN args |-> args[i].v[1]])

RECURSIVE Evaluate(_, _)
Evaluate(x, rows) ==
  LET join == Len(rows) = 2
      args == [i \in DOMAIN x.args |-> Evaluate(x.args[i], rows)]
      thrown == {i \in DOMAIN args : Thrown(args[i])}
  IN  CASE thrown # {}         -> args[CHOOSE i \in thrown : TRUE]
        [] x.k = "ColumnValue" -> rows[IF join THEN x.tuple + 1 ELSE 1][x.col + 1]
        [] x.k = "Constant"    -> x.v
        [] x.k = "Comparison"  -> ComparisonCompute(x.op, args[1], args[2])
        [] x.k = "Arithmetic"  -> ArithmeticCompute(x.op, args[1], args[2])
        [] x.k = "Logic"       -> LogicCompute(x.op, args[1], args[2])
        [] x.k = "Array"       -> ArrayCompute(args, join)

\* the row passes: not NULL, and true
Passes(v) == ~v.null /\ v.v[1] # 0

(***************************************************************************)
(* Plan nodes                                                              *)
(***************************************************************************)
\* AbstractPlanNode: the two fields every node has; fields holds the rest
Node(k, schema, children, fields) == fields @@ [k |-> k, schema |-> schema, children |-> children]
CloneWithChildren(plan, children) == [plan EXCEPT !.children = children]
None == [k |-> "none"]

SeqScanPlanNode(schema, table, filter) == Node("SeqScan", schema, <<>>, [table |-> table, filter |-> filter])
IndexScanPlanNode(schema, table, index) == Node("IndexScan", schema, <<>>, [table |-> table, index |-> index])
MockScanPlanNode(schema, table) == Node("MockScan", schema, <<>>, [table |-> table])
ValuesPlanNode(schema, values) == Node("Values", schema, <<>>, [values |-> values])
FilterPlanNode(schema, predicate, child) == Node("Filter", schema, <<child>>, [predicate |-> predicate])
ProjectionPlanNode(schema, exprs, child) == Node("Projection", schema, <<child>>, [exprs |-> exprs])
NestedLoopJoinPlanNode(schema, l, r, predicate, type) ==
  Node("NestedLoopJoin", schema, <<l, r>>, [predicate |-> predicate, type |-> type])
NestedIndexJoinPlanNode(schema, child, key, table, index, inner, type) ==
  Node("NestedIndexJoin", schema, <<child>>,
       [key |-> key, table |-> table, index |-> index, inner |-> inner, type |-> type])
\* of is the statement whose aggregates these are
AggregationPlanNode(schema, child, groups, aggregates, types, of) ==
  Node("Aggregation", schema, <<child>>,
       [groups |-> groups, aggregates |-> aggregates, types |-> types, of |-> of])
WindowFunctionPlanNode(schema, child, columns, functions) ==
  Node("Window", schema, <<child>>, [columns |-> columns, functions |-> functions])
SortPlanNode(schema, child, orders) == Node("Sort", schema, <<child>>, [orders |-> orders])
LimitPlanNode(schema, child, limit) == Node("Limit", schema, <<child>>, [limit |-> limit])
InsertPlanNode(schema, child, table) == Node("Insert", schema, <<child>>, [table |-> table])
DeletePlanNode(schema, child, table) == Node("Delete", schema, <<child>>, [table |-> table])
UpdatePlanNode(schema, child, table, targets) ==
  Node("Update", schema, <<child>>, [table |-> table, targets |-> targets])

OneColumn(name) == <<[name |-> <<"__bustub_internal", name>>, type |-> "INTEGER"]>>
Unnamed == <<"<unnamed>">>

\* the columns keep their names in the table
InferScanSchemaUnqualified(columns, alias) ==
  [i \in DOMAIN columns |-> [name |-> <<columns[i].name>>, type |-> columns[i].type]]

InferScanSchema(columns, alias) ==
  [i \in DOMAIN columns |-> [name |-> <<alias, columns[i].name>>, type |-> columns[i].type]]

InferJoinSchema(l, r) == l.schema \o r.schema
InferProjectionSchema(exprs) == [i \in DOMAIN exprs |-> [name |-> Unnamed, type |-> exprs[i].type]]
RenameSchema(schema, names) == [i \in DOMAIN schema |-> [schema[i] EXCEPT !.name = names[i]]]
\* every aggregate is an INTEGER
InferAggSchema(groups, aggregates) ==
  InferProjectionSchema(groups) \o [i \in DOMAIN aggregates |-> [name |-> Unnamed, type |-> "INTEGER"]]
InferWindowSchema(columns) == InferProjectionSchema(columns)

\* the positions, from 0, of the columns of that name
Positions(schema, name) == {i - 1 : i \in {j \in DOMAIN schema : schema[j].name = name}}
=============================================================================
