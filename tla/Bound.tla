------------------------------- MODULE Bound --------------------------------
(***************************************************************************)
(* The trees the binder produces (include/binder): bound expressions,      *)
(* bound table references and bound statements.                            *)
(*                                                                         *)
(* A node is a record whose field k is the type tag of its class; args are *)
(* the child expressions.  A name is the sequence of its parts, which the  *)
(* code joins with dots.  A call that throws returns a node of kind Error. *)
(***************************************************************************)
EXTENDS Naturals, Sequences, SequencesExt

Raise(why) == [k |-> "Error", why |-> why]
Bad(x) == x.k = "Error"
Nullptr == [k |-> "nullptr"]

\* y, unless evaluating one of xs threw
Checked(xs, y) ==
  IF \E i \in DOMAIN xs : Bad(xs[i]) THEN xs[CHOOSE i \in DOMAIN xs : Bad(xs[i])] ELSE y
Require(cond, why, y) == IF cond THEN y ELSE Raise(why)

(***************************************************************************)
(* Expressions                                                             *)
(***************************************************************************)
InvalidExpression == [k |-> "INVALID"]
BoundColumnRef(name) == [k |-> "COLUMN_REF", name |-> name]
BoundConstant(v) == [k |-> "CONSTANT", v |-> v]
BoundStar == [k |-> "STAR"]
BoundAlias(alias, child) == [k |-> "ALIAS", alias |-> alias, args |-> <<child>>]
BoundUnaryOp(op, arg) == [k |-> "UNARY_OP", op |-> op, args |-> <<arg>>]
BoundBinaryOp(op, l, r) == [k |-> "BINARY_OP", op |-> op, args |-> <<l, r>>]
BoundFuncCall(func, args) == [k |-> "FUNC_CALL", func |-> func, args |-> args]
BoundAggCall(func, distinct, args) ==
  [k |-> "AGG_CALL", func |-> func, distinct |-> distinct, args |-> args]
BoundWindow(func, args, partition, order, start, end) ==
  [k |-> "WINDOW", func |-> func, args |-> args, partition |-> partition, order |-> order,
   start |-> start, end |-> end]
BoundOrderBy(type, nulls, x) == [k |-> "ORDER_BY", type |-> type, nulls |-> nulls, x |-> x]

\* BoundColumnRef::Prepend
Prepend(ref, prefix) ==
  IF ref.k = "COLUMN_REF" THEN BoundColumnRef(<<prefix>> \o ref.name) ELSE ref

RECURSIVE HasAggregation(_)
HasAggregation(x) ==
  \/ x.k = "AGG_CALL"
  \/ x.k \in {"ALIAS", "UNARY_OP", "BINARY_OP"} /\ \E i \in DOMAIN x.args : HasAggregation(x.args[i])

\* looked for under an alias, and under nothing else
RECURSIVE HasWindowFunction(_)
HasWindowFunction(x) ==
  \/ x.k = "WINDOW"
  \/ x.k = "ALIAS" /\ HasWindowFunction(x.args[1])

(***************************************************************************)
(* Table references                                                        *)
(***************************************************************************)
EmptyTableRef == [k |-> "EMPTY"]
BoundBaseTableRef(table, alias) == [k |-> "BASE_TABLE", table |-> table, alias |-> alias]
BoundCrossProductRef(l, r) == [k |-> "CROSS_PRODUCT", left |-> l, right |-> r]
BoundJoinRef(type, l, r, condition) ==
  [k |-> "JOIN", type |-> type, left |-> l, right |-> r, condition |-> condition]
BoundSubqueryRef(query, names, alias) ==
  [k |-> "SUBQUERY", query |-> query, names |-> names, alias |-> alias]
BoundCTERef(cte, alias) == [k |-> "CTE", cte |-> cte, alias |-> alias]
BoundExpressionListRef(values, id) == [k |-> "EXPRESSION_LIST", values |-> values, id |-> id]

\* "" is the missing alias
GetBoundTableName(ref) == IF ref.alias # "" THEN ref.alias ELSE ref.table

(***************************************************************************)
(* Statements                                                              *)
(***************************************************************************)
\* id stands for the identity of the object
SelectStatement(id, table, list, where, group, having, limit, offset, sort, ctes, distinct) ==
  [k |-> "SELECT", id |-> id, table |-> table, list |-> list, where |-> where, group |-> group,
   having |-> having, limit |-> limit, offset |-> offset, sort |-> sort, ctes |-> ctes,
   distinct |-> distinct]
InsertStatement(table, select) == [k |-> "INSERT", table |-> table, select |-> select]
DeleteStatement(table, x) == [k |-> "DELETE", table |-> table, x |-> x]
UpdateStatement(table, filter, targets) ==
  [k |-> "UPDATE", table |-> table, filter |-> filter, targets |-> targets]
CreateStatement(table, columns, pk) ==
  [k |-> "CREATE", table |-> table, columns |-> columns, pk |-> pk]
IndexStatement(index, table, cols, type, options) ==
  [k |-> "INDEX", index |-> index, table |-> table, cols |-> cols, type |-> type,
   options |-> options]
ExplainStatement(stmt, options) == [k |-> "EXPLAIN", stmt |-> stmt, options |-> options]
VariableSetStatement(variable, v) == [k |-> "VARIABLE_SET", variable |-> variable, v |-> v]
VariableShowStatement(variable) == [k |-> "VARIABLE_SHOW", variable |-> variable]
TransactionStatement(type) == [k |-> "TRANSACTION", type |-> type]

=============================================================================
