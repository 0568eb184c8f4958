------------------------------- MODULE Binder -------------------------------
(***************************************************************************)
(* The binder (binder/*.cpp): from the parser's tree to a bound statement, *)
(* with every name resolved against the catalog: columns, expressions and  *)
(* the select list, then SELECT with its FROM clause, subqueries and CTEs  *)
(* (bind_select.cpp), INSERT, DELETE and UPDATE (bind_insert.cpp), CREATE  *)
(* TABLE and CREATE INDEX (bind_create.cpp), SET, SHOW and the transaction *)
(* statements (bind_variable.cpp).                                         *)
(*                                                                         *)
(* The parser is external (libpg_query).  Its nodes are records with the   *)
(* node tag in t, and NoNode for a null pointer.  The binder's context, a  *)
(* scope and the CTEs in scope (ContextGuard in binder.h), is the argument *)
(* env: a call that opens a new context passes another env to the calls it *)
(* makes, and the old one is back when it returns.                         *)
(*                                                                         *)
(* Names made with universal_id_ are made from the node that needs them:   *)
(* what matters is that they are distinct and no user writes them.  Which  *)
(* of several errors in a statement is reported is abstracted.             *)
(***************************************************************************)
EXTENDS Bound, ValueFactory, TLC

CONSTANTS Tables,    \* the catalog: by name, [oid, columns, indexes]; a column is [name, type]
          Lowered    \* StringUtil::Lower of every name that is not in lower case

NoNode == [t |-> "null"]
Lower(s) == IF s \in DOMAIN Lowered THEN Lowered[s] ELSE s

\* binder.h, NewContext: no scope; "do not reset CTE scope"
NewContext(env) == [scope |-> Nullptr, ctes |-> env.ctes]
InScope(env, scope) == [scope |-> scope, ctes |-> env.ctes]
NoContext == [scope |-> Nullptr, ctes |-> <<>>]

(***************************************************************************)
(* Column names.  Each Resolve operator returns a column reference,        *)
(* Nullptr when there is none, or an error                                 *)
(***************************************************************************)
\* the only one of refs, unless there is none or there are several
UniqueAmong(refs, why) ==
  CASE Len(refs) = 0 -> Nullptr
    [] Len(refs) = 1 -> refs[1]
    [] OTHER         -> Raise(why)

ResolveColumnRefFromSchema(columns, name) ==
  LET hits == SelectSeq(columns, LAMBDA c : <<Lower(c.name)>> = name)
  IN  UniqueAmong([i \in DOMAIN hits |-> BoundColumnRef(<<hits[i].name>>)], "ambiguous in schema")

\* the name as it is, or with its first part taken off if that is the alias
DirectOrStripped(direct, stripped) ==
  Checked(<<direct, stripped>>,
    IF stripped # Nullptr THEN Require(direct = Nullptr, "ambiguous in table", stripped)
    ELSE direct)

ResolveColumnRefFromBaseTableRef(ref, name) ==
  LET bound == GetBoundTableName(ref)
      Resolve(n) == Prepend(ResolveColumnRefFromSchema(Tables[ref.table].columns, n), bound)
  IN  DirectOrStripped(Resolve(name),
        IF Len(name) > 1 /\ name[1] = bound THEN Resolve(Tail(name)) ELSE Nullptr)

MatchSuffix(suffix, full) ==
  /\ Len(suffix) <= Len(full)
  /\ IsSuffix(suffix, [i \in DOMAIN full |-> Lower(full[i])])

ResolveColumnRefFromSelectList(names, name) ==
  LET hits == SelectSeq(names, LAMBDA n : MatchSuffix(name, n))
  IN  UniqueAmong([i \in DOMAIN hits |-> BoundColumnRef(hits[i])], "ambiguous in select list")

ResolveColumnRefFromSubqueryRef(ref, alias, name) ==
  LET Resolve(n) == Prepend(ResolveColumnRefFromSelectList(ref.names, n), ref.alias)
  IN  DirectOrStripped(Resolve(name),
        IF Len(name) > 1 /\ name[1] = alias THEN Resolve(Tail(name)) ELSE Nullptr)

\* the first CTE in scope of that name
FindCTE(ctes, name) == SelectSeq(ctes, LAMBDA c : c.alias = name)

\* one side of a join, if it has the column and the other side has not
ResolveSides(l, r) ==
  Checked(<<l, r>>, IF l = Nullptr THEN r ELSE Require(r = Nullptr, "ambiguous", l))

RECURSIVE ResolveColumnInternal(_, _, _)
ResolveColumnInternal(ref, name, ctes) ==
  CASE ref.k = "BASE_TABLE" -> ResolveColumnRefFromBaseTableRef(ref, name)
    [] ref.k \in {"CROSS_PRODUCT", "JOIN"} ->
         ResolveSides(ResolveColumnInternal(ref.left, name, ctes), ResolveColumnInternal(ref.right, name, ctes))
    [] ref.k = "SUBQUERY"   -> ResolveColumnRefFromSubqueryRef(ref, ref.alias, name)
    [] ref.k = "CTE"        -> ResolveColumnRefFromSubqueryRef(FindCTE(ctes, ref.cte)[1], ref.alias, name)
    [] OTHER                -> Raise("unsupported TableReferenceType")

Found(ref) == Require(ref # Nullptr, "column not found", ref)
ResolveColumn(env, name) ==
  IF env.scope = Nullptr THEN Raise("null scope") ELSE Found(ResolveColumnInternal(env.scope, name, env.ctes))

\* the columns of SELECT *
RECURSIVE GetAllColumns(_, _)
GetAllColumns(ref, ctes) ==
  CASE ref.k = "BASE_TABLE" ->
         LET cols == Tables[ref.table].columns
         IN  [i \in DOMAIN cols |-> BoundColumnRef(<<GetBoundTableName(ref), cols[i].name>>)]
    [] ref.k \in {"CROSS_PRODUCT", "JOIN"} ->
         GetAllColumns(ref.left, ctes) \o GetAllColumns(ref.right, ctes)
    [] ref.k = "SUBQUERY" ->
         [i \in DOMAIN ref.names |-> Prepend(BoundColumnRef(ref.names[i]), ref.alias)]
    [] ref.k = "CTE" ->
         LET cols == GetAllColumns(FindCTE(ctes, ref.cte)[1], ctes)
         IN  [i \in DOMAIN cols |-> [cols[i] EXCEPT !.name[1] = ref.alias]]
    [] OTHER -> <<Raise("select * cannot be used here")>>

(***************************************************************************)
(* Expressions                                                             *)
(***************************************************************************)
BindConstant(node) ==
  CASE node.type = "Integer" -> BoundConstant(IntValue("INTEGER", node.val))
    [] node.type = "Float"   -> BoundConstant(DecimalValue(node.val, node.den))
    [] node.type = "String"  -> BoundConstant(VarcharValue(node.text))
    [] node.type = "Null"    -> BoundConstant(NullValue("INTEGER"))
    [] OTHER                 -> Raise("unsupported pg value")

BindColumnRef(node, env) ==
  IF node.fields = <<"*">> THEN BoundStar ELSE ResolveColumn(env, node.fields)

AggregateNames == {"min", "max", "first", "last", "sum", "count", "rank", "row_number"}

\* transformer.cpp, BindWindowFrame: one end of the frame; frame is [range, start, end]
FrameEnd(range, end, unbounded) ==
  LET mode == IF range THEN "RANGE" ELSE "ROWS"
  IN  CASE end = unbounded         -> unbounded
        [] end = "VALUE_PRECEDING" -> "EXPR_PRECEDING_" \o mode
        [] end = "VALUE_FOLLOWING" -> "EXPR_FOLLOWING_" \o mode
        [] end = "CURRENT_ROW"     -> "CURRENT_ROW_" \o mode
        [] OTHER                   -> "INVALID"

BindWindowFrame(frame, window) ==
  Require(frame.end # "UNBOUNDED_PRECEDING" /\ frame.start # "UNBOUNDED_FOLLOWING", "frame makes no sense",
    [window EXCEPT !.start = FrameEnd(frame.range, frame.start, "UNBOUNDED_PRECEDING"),
                   !.end = FrameEnd(frame.range, frame.end, "UNBOUNDED_FOLLOWING")])

RECURSIVE BindExpression(_, _)
BindAll(nodes, env) == [i \in DOMAIN nodes |-> BindExpression(nodes[i], env)]

\* a list in which * has no place
NotStar(x) == Require(x.k # "STAR", "unsupported *", x)
BindExpressionList(nodes, env) == [i \in DOMAIN nodes |-> NotStar(BindExpression(nodes[i], env))]

SortItem(node, x) ==
  Checked(<<x>>, Require(node.dir \in {"DEFAULT", "ASC", "DESC"}, "unimplemented order by type",
    BoundOrderBy(node.dir, node.nulls, x)))
BindSort(nodes, env) == [i \in DOMAIN nodes |-> SortItem(nodes[i], BindExpression(nodes[i].node, env))]

Optional(node, env) == IF node = NoNode THEN InvalidExpression ELSE BindExpression(node, env)

Windowed(frame, window, offsets) ==
  Checked(window.partition \o window.order \o offsets, BindWindowFrame(frame, window))
BindWindowExpression(func, args, def, env) ==
  Windowed(def.frame,
    BoundWindow(func, args, BindExpressionList(def.partition, env), BindSort(def.order, env), "INVALID", "INVALID"),
    <<Optional(def.start, env), Optional(def.end, env)>>)

FuncCall(node, name, args, env) ==
  LET func == IF (name = "count" /\ args = <<>>) \/ name = "row_number" THEN "count_star" ELSE name
  IN  Checked(args,
        CASE name \notin AggregateNames                       -> BoundFuncCall(name, args)
          [] name \in AggregateNames /\ node.over = NoNode    -> BoundAggCall(func, node.distinct, args)
          [] name \in AggregateNames /\ node.over # NoNode    ->
               Require(~node.distinct, "DISTINCT in window function",
                 BindWindowExpression(func, args, node.over, env)))
BindFuncCall(node, env) == FuncCall(node, Lower(node.name), BindAll(node.args, env), env)

\* a missing operand is a null pointer
AExpr(node, l, r) ==
  CASE node.kind # "OP" -> Raise("unsupported op in AExpr")
    [] node.kind = "OP" /\ node.r = NoNode -> Raise("unsupported AExpr")
    [] node.kind = "OP" /\ node.r # NoNode /\ node.l = NoNode -> Checked(<<r>>, BoundUnaryOp(node.name, r))
    [] OTHER -> Checked(<<l, r>>, BoundBinaryOp(node.name, l, r))
BindAExpr(node, env) == AExpr(node, BindExpression(node.l, env), BindExpression(node.r, env))

\* AND and OR of several operands lean to the left
BoolExpr(op, xs) ==
  Checked(xs,
    IF op = "not" THEN Require(Len(xs) = 1, "NOT should have 1 arg", BoundUnaryOp("not", xs[1]))
    ELSE Require(Len(xs) > 1, "should have at least 1 arg",
           FoldLeft(LAMBDA l, r : BoundBinaryOp(op, l, r), xs[1], Tail(xs))))
BindBoolExpr(node, env) == BoolExpr(node.op, BindExpressionList(node.args, env))

ResTarget(name, x) == IF Bad(x) \/ name = "" THEN x ELSE BoundAlias(name, x)
BindResTarget(node, env) == ResTarget(node.name, BindExpression(node.val, env))

BindExpression(node, env) ==
  CASE node.t = "ColumnRef" -> BindColumnRef(node, env)
    [] node.t = "AConst"    -> BindConstant(node)
    [] node.t = "ResTarget" -> BindResTarget(node, env)
    [] node.t = "AStar"     -> BoundStar
    [] node.t = "FuncCall"  -> BindFuncCall(node, env)
    [] node.t = "AExpr"     -> BindAExpr(node, env)
    [] node.t = "BoolExpr"  -> BindBoolExpr(node, env)
    [] node.t = "null"      -> Raise("null node")
    [] OTHER                -> Raise("Expr not implemented")

\* SELECT * stands alone; aggregates and window functions do not mix
SelectList(xs, env) ==
  LET star == \E i \in DOMAIN xs : xs[i].k = "STAR"
  IN  CASE \E i \in DOMAIN xs : Bad(xs[i]) -> xs
        [] star /\ Len(xs) = 1             ->
             IF env.scope = Nullptr THEN <<Raise("null scope")>> ELSE GetAllColumns(env.scope, env.ctes)
        [] star /\ Len(xs) > 1             -> <<Raise("select * with other expressions")>>
        [] /\ \E i \in DOMAIN xs : HasAggregation(xs[i])
           /\ \E i \in DOMAIN xs : HasWindowFunction(xs[i]) -> <<Raise("both normal agg and window agg")>>
        [] OTHER                           -> xs
BindSelectList(nodes, env) == SelectList(BindAll(nodes, env), env)

(***************************************************************************)
(* SELECT                                                                  *)
(***************************************************************************)
BindBaseTableRef(table, alias) ==
  Require(table \in DOMAIN Tables, "invalid table", BoundBaseTableRef(table, alias))

\* a CTE in scope hides the table of that name
BindRangeVar(node, env) ==
  LET found == FindCTE(env.ctes, node.rel)
  IN  IF found # <<>>
      THEN BoundCTERef(node.rel, IF node.alias # "" THEN node.alias ELSE node.rel)
      ELSE BindBaseTableRef(node.rel, node.alias)

RECURSIVE BindTableRef(_, _)
RECURSIVE BindSelect(_, _)

\* the select list names the subquery's columns
ItemName(x, i) ==
  CASE x.k = "COLUMN_REF" -> x.name [] x.k = "ALIAS" -> <<x.alias>> [] OTHER -> <<"__item#" \o ToString(i)>>
Subquery(query, alias) ==
  Checked(<<query>>,
    BoundSubqueryRef(query, [i \in DOMAIN query.list |-> ItemName(query.list[i], i)], alias))
BindSubquery(node, alias, env) == Subquery(BindSelect(node, env), alias)

BindRangeSubselect(node, env) ==
  Require(~node.lateral, "LATERAL in subquery",
    BindSubquery(node.query, IF node.alias # "" THEN node.alias ELSE "__subquery#" \o ToString(node.id), env))

\* the CTEs of one WITH are bound with those of the enclosing statements, not with each other
BindCTE(with, env) ==
  [i \in DOMAIN with.ctes |->
    LET cte == with.ctes[i]
    IN  CASE cte.query = NoNode -> Raise("SELECT not found")
          [] cte.query # NoNode /\ (cte.recursive \/ with.recursive) -> Raise("recursive CTE")
          [] OTHER -> BindSubquery(cte.query, cte.name, env)]

JoinTypes == [INNER |-> "INNER", LEFT |-> "LEFT", FULL |-> "OUTER", RIGHT |-> "RIGHT"]

JoinSides(type, l, r) ==
  Require(type \in DOMAIN JoinTypes, "Join type not supported",
    Checked(<<l, r>>, BoundJoinRef(JoinTypes[type], l, r, Nullptr)))

\* the condition sees the two sides, and nothing else
JoinCondition(sides, condition) ==
  Checked(<<sides>>, Checked(<<condition>>, [sides EXCEPT !.condition = condition]))
BindCondition(quals, sides, env) == JoinCondition(sides, BindExpression(quals, InScope(env, sides)))
BindJoin(node, env) ==
  BindCondition(node.quals, JoinSides(node.type, BindTableRef(node.l, NewContext(env)),
                                                 BindTableRef(node.r, NewContext(env))), NewContext(env))

BindTableRef(node, env) ==
  CASE node.t = "RangeVar"       -> BindRangeVar(node, env)
    [] node.t = "JoinExpr"       -> BindJoin(node, env)
    [] node.t = "RangeSubselect" -> BindRangeSubselect(node, env)
    [] OTHER                     -> Raise("unsupported node type")

\* several tables are a cross product that leans to the left
CrossProduct(refs) ==
  IF refs = <<>> THEN EmptyTableRef
  ELSE Checked(refs, FoldLeft(LAMBDA l, r : BoundCrossProductRef(l, r), refs[1], Tail(refs)))
BindFrom(nodes, env) == CrossProduct([i \in DOMAIN nodes |-> BindTableRef(nodes[i], NewContext(env))])

\* every row of VALUES has the length of the first one
ValuesList(rows) ==
  Checked(FlattenSeq(rows),
    Require(rows # <<>> /\ \A i \in DOMAIN rows : Len(rows[i]) = Len(rows[1]),
      "values must have the same length", BoundExpressionListRef(rows, "<unnamed>")))
BindValuesList(rows, env) == ValuesList([i \in DOMAIN rows |-> BindExpressionList(rows[i], env)])

SelectValues(node, list, id) ==
  Checked(<<list>>,
    SelectStatement(node.id, [list EXCEPT !.id = id],
      [i \in DOMAIN list.values[1] |-> BoundColumnRef(<<id, ToString(i - 1)>>)],
      InvalidExpression, <<>>, InvalidExpression, InvalidExpression, InvalidExpression, <<>>, <<>>, FALSE))
BindSelectValues(node, env) ==
  SelectValues(node, BindValuesList(node.values, NewContext(env)), "__values#" \o ToString(node.id))

\* a select whose clauses were all bound
Whole(select) ==
  Checked(select.list \o select.group \o select.sort
            \o <<select.where, select.having, select.limit, select.offset>>, select)
BindClauses(node, ctes, env) ==
  Checked(<<env.scope>>,
    Require(node.distinct # "on" /\ node.targets # <<>>, "DISTINCT ON or no select list",
      Whole(SelectStatement(node.id, env.scope, BindSelectList(node.targets, env), Optional(node.where, env),
              BindExpressionList(node.group, env), Optional(node.having, env), Optional(node.limit, env),
              Optional(node.offset, env), BindSort(node.sort, env), ctes, node.distinct = "yes"))))

\* the CTEs of a WITH hide those of the enclosing statements
BindOver(node, ctes, env) ==
  Checked(ctes, BindClauses(node, ctes, InScope(env, BindFrom(node.from, env))))
BindWith(node, ctes, env) == BindOver(node, ctes, IF ctes # <<>> THEN [env EXCEPT !.ctes = ctes] ELSE env)
BindSelectFrom(node, env) == BindWith(node, BindCTE(node.with, NewContext(env)), NewContext(env))

BindSelect(node, env) ==
  IF node.values # <<>> THEN BindSelectValues(node, env) ELSE BindSelectFrom(node, env)

(***************************************************************************)
(* INSERT, DELETE, UPDATE                                                  *)
(***************************************************************************)
InternalTable(table) == Tables[table].internal      \* the name starts with "__"

InsertInto(table, select) ==
  Checked(<<table>>, Require(~InternalTable(table.table), "invalid table for insert",
    Checked(<<select>>, InsertStatement(table, select))))
BindInsert(node, env) ==
  Require(~node.cols, "insert only supports all columns",
    InsertInto(BindBaseTableRef(node.table, ""), BindSelect(node.select, env)))

\* no WHERE is WHERE true
WhereOrTrue(node, env) ==
  IF node = NoNode THEN BoundConstant(BoolValue(1)) ELSE BindExpression(node, env)

DeleteFrom(table, x) == Checked(<<table>>, Checked(<<x>>, DeleteStatement(table, x)))
BindDelete(node, env) ==
  LET table == BindBaseTableRef(node.table, "")
  IN  DeleteFrom(table, WhereOrTrue(node.where, InScope(NewContext(env), table)))

\* an unknown target column is bound to a null pointer
UpdateOf(table, filter, columns, values) ==
  Checked(<<table>>, Checked(<<filter>> \o columns \o values,
    UpdateStatement(table, filter, [i \in DOMAIN columns |-> <<columns[i], values[i]>>])))
UpdateIn(node, env) ==
  UpdateOf(env.scope, WhereOrTrue(node.where, env),
    [i \in DOMAIN node.targets |-> ResolveColumnRefFromBaseTableRef(env.scope, <<node.targets[i].name>>)],
    [i \in DOMAIN node.targets |-> BindExpression(node.targets[i].val, env)])
BindUpdate(node, env) ==
  Require(~node.with /\ ~node.from, "update with/from clause",
    UpdateIn(node, InScope(NewContext(env), BindBaseTableRef(node.table, ""))))

(***************************************************************************)
(* CREATE TABLE, CREATE INDEX                                              *)
(***************************************************************************)
ColumnTypes == [int4 |-> "INTEGER", double |-> "DECIMAL", bool |-> "BOOLEAN",
                varchar |-> "VARCHAR", vector |-> "VECTOR"]

\* the length of a VARCHAR or VECTOR is required; it sets the size of the column (see Tuples)
BindColumnDefinition(def) ==
  CASE def.coll -> Raise("coll clause")
    [] ~def.coll /\ def.type \notin DOMAIN ColumnTypes -> Raise("unsupported type")
    [] ~def.coll /\ def.type \in {"varchar", "vector"} /\ Len(def.mods) # 1 -> Raise("should specify length")
    [] OTHER -> [k |-> "COLUMN", name |-> def.name, type |-> ColumnTypes[def.type]]

\* the second primary key of a table is refused
AddPrimaryKey(acc, keys) == Require(acc.pk = <<>>, "cannot have two primary keys", [acc EXCEPT !.pk = keys])

WithColumn(acc, col) == Checked(<<col>>, Checked(<<acc>>, [acc EXCEPT !.columns = Append(@, col)]))
AddColumn(acc, def) ==
  WithColumn(FoldLeft(LAMBDA a, c : IF Bad(a) THEN a
                        ELSE IF c # "PRIMARY" THEN Raise("unsupported constraint")
                        ELSE AddPrimaryKey(a, <<def.name>>), acc, def.constraints),
             BindColumnDefinition(def))

\* a table constraint is read together with every element after it, whatever that is
AddConstraints(acc, rest) ==
  FoldLeft(LAMBDA a, e : IF Bad(a) THEN a
             ELSE IF e.t # "Constraint" \/ e.type # "PRIMARY" THEN Raise("unsupported constraint")
             ELSE AddPrimaryKey(a, e.keys), acc, rest)

RECURSIVE BindElements(_, _)
BindElements(acc, elts) ==
  IF Bad(acc) \/ elts = <<>> THEN acc
  ELSE BindElements(CASE elts[1].t = "ColumnDef"  -> AddColumn(acc, elts[1])
                      [] elts[1].t = "Constraint" -> AddConstraints(acc, elts)
                      [] OTHER -> Raise("ColumnDef type not handled yet"), Tail(elts))

Created(table, acc) ==
  Checked(<<acc>>, Require(acc.columns # <<>>, "should have at least 1 column",
    CreateStatement(table, acc.columns, acc.pk)))
BindCreate(node) ==
  Created(node.table, BindElements([k |-> "ELEMENTS", columns |-> <<>>, pk |-> <<>>], node.elts))

\* an option without argument gets whatever the uninitialized val holds
IndexOn(node, table, cols) ==
  Checked(<<table>>, Checked(cols,
    IndexStatement(node.index, table, cols, IF node.method = "art" THEN "" ELSE node.method, node.options)))
BindIndex(node) ==
  LET table == BindBaseTableRef(node.table, "")
  IN  IndexOn(node, table, [i \in DOMAIN node.params |->
        IF node.params[i] = "" THEN Raise("create index by expr")
        ELSE ResolveColumn(InScope(NoContext, table), <<node.params[i]>>)])

(***************************************************************************)
(* SET, SHOW, BEGIN, COMMIT, ROLLBACK, EXPLAIN; BindStatement              *)
(***************************************************************************)
VariableSet(name, xs) ==
  Checked(xs, Require(Len(xs) = 1 /\ xs[1].k = "CONSTANT", "only one constant is supported",
    VariableSetStatement(name, xs[1].v)))
BindVariableSet(node) == VariableSet(node.name, BindExpressionList(node.args, NoContext))

BindTransaction(node) ==
  CASE node.kind = "COMMIT"   -> TransactionStatement("commit")
    [] node.kind = "ROLLBACK" -> TransactionStatement("abort")
    [] node.kind = "BEGIN"    -> TransactionStatement("begin")
    [] OTHER                  -> Raise("unsupported txn statement kind")

ExplainOptions == {"planner", "optimizer", "binder", "schema"}

RECURSIVE BindStatement(_)
Explained(stmt, options) ==
  Checked(<<stmt>>,
    ExplainStatement(stmt, IF options = {} THEN ExplainOptions ELSE options \intersect ExplainOptions))
BindExplain(node) == Explained(BindStatement(node.query), node.options)

BindStatement(node) ==
  CASE node.t = "Select"       -> BindSelect(node, NoContext)
    [] node.t = "Insert"       -> BindInsert(node, NoContext)
    [] node.t = "Delete"       -> BindDelete(node, NoContext)
    [] node.t = "Update"       -> BindUpdate(node, NoContext)
    [] node.t = "Create"       -> BindCreate(node)
    [] node.t = "Index"        -> BindIndex(node)
    [] node.t = "Explain"      -> BindExplain(node)
    [] node.t = "VariableSet"  -> BindVariableSet(node)
    [] node.t = "VariableShow" -> VariableShowStatement(node.name)
    [] node.t = "Transaction"  -> BindTransaction(node)
    [] OTHER                   -> Raise("statement not implemented")
=============================================================================
