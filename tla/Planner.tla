------------------------------ MODULE Planner -------------------------------
(***************************************************************************)
(* The planner (planner/*.cpp): from a bound statement to a plan.          *)
(*                                                                         *)
(* PlannerContext is passed as arguments: ctes is cte_list_; aggs and next *)
(* are expr_in_agg_ and next_aggregation_, the columns the aggregate calls *)
(* of an expression stand for and the first one not yet taken.  depth      *)
(* bounds the nesting of subqueries, in place of the size of the stack.    *)
(***************************************************************************)
EXTENDS Plans, Binder

CONSTANT MaxDepth    \* the deepest nesting of subqueries that fits on the stack

HugeLimit == 1000000    \* a negative LIMIT, as a size_t

Planned(name, x, next) ==
  Checked(<<x>>, [k |-> "Planned", name |-> name, x |-> x, next |-> next])

\* expression_factory.cpp; the aggregates and window functions with one argument
UnaryAggregates == {"min", "max", "sum", "count"}
GetAggCallFromFactory(func, args) ==
  Require(\/ args = <<>> /\ func = "count_star"
          \/ Len(args) = 1 /\ func \in UnaryAggregates, "unsupported agg_call", [k |-> func, args |-> args])
GetWindowAggCallFromFactory(func, args) ==
  Require(\/ args = <<>> /\ func \in {"count_star", "rank"}
          \/ Len(args) = 1 /\ func \in UnaryAggregates, "unsupported window_call", [k |-> func, args |-> args])

GetBinaryExpressionFromFactory(op, l, r) ==
  CASE op \in {"=", "=="}            -> ComparisonExpression("=", l, r)
    [] op \in {"!=", "<>"}           -> ComparisonExpression("#", l, r)
    [] op \in {"<", "<=", ">", ">="} -> ComparisonExpression(op, l, r)
    [] op \in {"+", "-"}             -> ArithmeticExpression(op, l, r)
    [] op \in {"and", "or"}          -> LogicExpression(op, l, r)
    [] OTHER                         -> Raise("binary op not supported")

\* plan_func_call.cpp refuses every name
GetFuncCallFromFactory(func, args) == Raise("func call not supported")

\* by its full name, in one child or in the two sides of a join
PlanColumnRef(ref, children) ==
  LET at == [i \in DOMAIN children |-> Positions(children[i].schema, ref.name)]
      First(S) == CHOOSE p \in S : \A q \in S : p <= q
      Column(i) == ColumnValueExpression(i - 1, First(at[i]), children[i].schema[First(at[i]) + 1].type)
  IN  CASE Len(children) = 0 -> Raise("column ref should have at least one child")
        [] Len(children) = 1 /\ at[1] = {} -> Raise("column not found")
        [] Len(children) = 1 /\ at[1] # {} ->
             Require(\A p, q \in at[1] : p = q, "duplicated column", Column(1))
        [] Len(children) = 2 /\ at[1] = {} /\ at[2] = {} -> Raise("column not found")
        [] Len(children) = 2 /\ at[1] # {} /\ at[2] # {} -> Raise("ambiguous column name")
        [] OTHER -> IF at[1] # {} THEN Column(1) ELSE Column(2)

RECURSIVE PlanExpression(_, _, _, _)

\* the expressions of a list in order, each taking the aggregates it needs
Appended(list, p) ==
  Checked(<<p>>, [list EXCEPT !.xs = Append(@, p.x), !.names = Append(@, p.name), !.next = p.next])
PlanList(xs, children, aggs, next) ==
  FoldLeft(LAMBDA list, x : IF Bad(list) THEN list ELSE Appended(list, PlanExpression(x, children, aggs, list.next)),
           [k |-> "List", xs |-> <<>>, names |-> <<>>, next |-> next], xs)

\* args are the planned operands: left, then right
PlanBinaryOp(x, args) ==
  Checked(<<args>>, Planned(Unnamed, GetBinaryExpressionFromFactory(x.op, args.xs[1], args.xs[2]), args.next))
PlanFuncCall(x, args) ==
  Checked(<<args>>, Planned(Unnamed,
    IF x.func = "construct_array" THEN ArrayExpression(args.xs) ELSE GetFuncCallFromFactory(x.func, args.xs), args.next))
Aliased(alias, p) == Checked(<<p>>, Planned(<<alias>>, p.x, p.next))

PlanExpression(x, children, aggs, next) ==
  CASE x.k = "AGG_CALL" ->
         Require(next < Len(aggs), "unexpected agg call", Planned(Unnamed, aggs[next + 1], next + 1))
    [] x.k = "COLUMN_REF" -> Planned(x.name, PlanColumnRef(x, children), next)
    [] x.k = "BINARY_OP"  -> PlanBinaryOp(x, PlanList(x.args, children, aggs, next))
    [] x.k = "FUNC_CALL"  -> PlanFuncCall(x, PlanList(x.args, children, aggs, next))
    [] x.k = "CONSTANT"   -> Planned(Unnamed, ConstantValueExpression(x.v), next)
    [] x.k = "ALIAS"      -> Aliased(x.alias, PlanExpression(x.args[1], children, aggs, next))
    [] OTHER -> Raise("expression type not supported")

\* outside an aggregation there is no call to take
Plain(x, children) == PlanExpression(x, children, <<>>, 0)
PlainList(xs, children) == PlanList(xs, children, <<>>, 0)

\* PlanSelect and PlanSelectWindow give nameless columns a name of their own
NameUnnamed(names) == [i \in DOMAIN names |-> IF names[i] = Unnamed THEN <<"__unnamed#" \o ToString(i)>> ELSE names[i]]

OrdersOf(sort, list) ==
  Checked(<<list>>, [k |-> "Orders", orders |->
    [i \in DOMAIN sort |-> [type |-> sort[i].type, nulls |-> sort[i].nulls, x |-> list.xs[i]]]])
PlanOrders(sort, child) == OrdersOf(sort, PlainList([i \in DOMAIN sort |-> sort[i].x], <<child>>))

(***************************************************************************)
(* Aggregation and window functions                                        *)
(***************************************************************************)
\* AddAggCallToContext: the calls of an expression from left to right
RECURSIVE AggCalls(_)
AggCalls(x) ==
  CASE x.k = "AGG_CALL" -> <<x>>
    [] x.k \in {"BINARY_OP", "FUNC_CALL", "ALIAS"} -> FlattenSeq([i \in DOMAIN x.args |-> AggCalls(x.args[i])])
    [] x.k \in {"COLUMN_REF", "CONSTANT", "INVALID"} -> <<>>
    [] OTHER -> <<Raise("expression type not supported")>>

\* count(*) counts ones
ArgOrOne(args) == IF args = <<>> THEN ConstantValueExpression(IntValue("INTEGER", 1)) ELSE args[1]

AggCall(call, args) ==
  Require(~call.distinct, "distinct agg", Checked(<<args>>, GetAggCallFromFactory(call.func, args.xs)))
PlanAggCall(call, child) == AggCall(call, PlainList(call.args, <<child>>))

ListCalls(stmt) == FlattenSeq([i \in DOMAIN stmt.list |-> AggCalls(stmt.list[i])])
CallsListFirst(stmt) == ListCalls(stmt) \o AggCalls(stmt.having)

\* those of HAVING come first
Calls(stmt) == AggCalls(stmt.having) \o ListCalls(stmt)

\* the columns of the calls come after those of the groups
CallColumns(n, groups) == [i \in 1..n |-> ColumnValueExpression(0, groups + i - 1, "INTEGER")]
AggregationOf(stmt, child, groups, calls) ==
  LET inputs == [i \in DOMAIN calls |-> ArgOrOne(calls[i].args)]
  IN  Checked(<<groups>> \o calls,
        AggregationPlanNode(
          RenameSchema(InferAggSchema(groups.xs, inputs),
                       groups.names \o [i \in DOMAIN calls |-> <<"agg#" \o ToString(i - 1)>>]),
          child, groups.xs, inputs, [i \in DOMAIN calls |-> calls[i].k], stmt.id))

ProjectionOf(list, names, child) ==
  ProjectionPlanNode(RenameSchema(InferProjectionSchema(list.xs), names), list.xs, child)
ListOver(list, plan) == Checked(<<list>>, ProjectionOf(list, list.names, plan))

\* HAVING filters the groups and takes its aggregates before the select list does
HavingOver(stmt, agg, having, columns) ==
  LET filtered == IF stmt.having.k = "INVALID" THEN agg ELSE FilterPlanNode(agg.schema, having.x, agg)
  IN  Checked(<<having>>, ListOver(PlanList(stmt.list, <<filtered>>, columns, having.next), filtered))
PlanOverAgg(stmt, agg, columns) ==
  Checked(<<agg>>, HavingOver(stmt, agg,
    IF stmt.having.k = "INVALID" THEN Planned(Unnamed, agg, 0) ELSE PlanExpression(stmt.having, <<agg>>, columns, 0),
    columns))
PlanSelectAgg(stmt, child) ==
  LET calls == Calls(stmt)
  IN  Checked(calls,
        PlanOverAgg(stmt,
          AggregationOf(stmt, child, PlainList(stmt.group, <<child>>), [i \in DOMAIN calls |-> PlanAggCall(calls[i], child)]),
          CallColumns(Len(calls), Len(stmt.group))))

CheckOrderByCompatible(orders) == \A i \in DOMAIN orders : orders[i] = orders[1]

\* one function of the select list: its arguments, partition and order, over the rows of child
WindowFunctionOf(func, partition, order) ==
  Checked(<<partition, order, func>>,
    [k |-> "Function", type |-> func.k, arg |-> ArgOrOne(func.args), partition |-> partition.xs, order |-> order.orders])
WindowCall(func, args) == Checked(<<args>>, GetWindowAggCallFromFactory(func, args.xs))
PlanWindowFunction(window, child) ==
  Require(window.start = "UNBOUNDED_PRECEDING" /\ window.end \in {"CURRENT_ROW_ROWS", "CURRENT_ROW_RANGE"},
          "window frame",
    Require(window.func = "rank" => window.order # <<>>, "rank without order",
      WindowFunctionOf(WindowCall(window.func, PlainList(window.args, <<child>>)),
                       PlainList(window.partition, <<child>>), PlanOrders(window.order, child))))

\* a window function is an INTEGER column that stands for none of the child's
WindowColumn(x, f) ==
  Checked(<<f>>, [k |-> "Window", x |-> ColumnValueExpression(0, -1, "INTEGER"), f |-> f,
                  name |-> IF x.k = "ALIAS" THEN <<x.alias>> ELSE Unnamed])
PlanWindowItem(x, child) ==
  IF ~HasWindowFunction(x) THEN Plain(x, <<child>>)
  ELSE WindowColumn(x, PlanWindowFunction(IF x.k = "ALIAS" THEN x.args[1] ELSE x, child))
WindowOver(items, child) ==
  LET columns == [i \in DOMAIN items |-> items[i].x]
      windows == SelectSeq(items, LAMBDA p : p.k = "Window")
  IN  Checked(items,
        Require(CheckOrderByCompatible([i \in DOMAIN windows |-> windows[i].f.order]), "incompatible order by",
          WindowFunctionPlanNode(
            RenameSchema(InferWindowSchema(columns), NameUnnamed([i \in DOMAIN items |-> items[i].name])),
            child, columns, [i \in {j \in DOMAIN items : items[j].k = "Window"} |-> items[i].f])))
PlanSelectWindow(stmt, child) == WindowOver([i \in DOMAIN stmt.list |-> PlanWindowItem(stmt.list[i], child)], child)

(***************************************************************************)
(* SELECT                                                                  *)
(***************************************************************************)
RECURSIVE PlanTableRef(_, _, _)

FilterOver(plan, where) == Checked(<<where>>, FilterPlanNode(plan.schema, where.x, plan))
PlanWhere(stmt, plan) ==
  IF Bad(plan) \/ stmt.where.k = "INVALID" THEN plan ELSE FilterOver(plan, Plain(stmt.where, <<plan>>))

NamedOver(list, plan) == Checked(<<list>>, ProjectionOf(list, NameUnnamed(list.names), plan))

\* the first item with an aggregate or a window function decides
PlanListDecided(stmt, plan, decides) ==
  LET hasWindow == decides # 0 /\ ~HasAggregation(stmt.list[decides])
      grouped == stmt.having.k # "INVALID" \/ stmt.group # <<>> \/ decides # 0
  IN  CASE hasWindow ->
             Require(stmt.having.k = "INVALID", "having on window function",
               Require(stmt.group = <<>>, "group by with window function", PlanSelectWindow(stmt, plan)))
        [] ~hasWindow /\ grouped -> PlanSelectAgg(stmt, plan)
        [] ~hasWindow /\ ~grouped -> NamedOver(PlainList(stmt.list, <<plan>>), plan)
PlanSelectList(stmt, plan) ==
  IF Bad(plan) THEN plan
  ELSE PlanListDecided(stmt, plan, SelectInSeq(stmt.list, LAMBDA x : HasAggregation(x) \/ HasWindowFunction(x)))

ColumnsOf(schema) == [i \in DOMAIN schema |-> ColumnValueExpression(0, i - 1, schema[i].type)]

\* DISTINCT groups by every column
PlanDistinct(stmt, plan) ==
  IF Bad(plan) \/ ~stmt.distinct THEN plan
  ELSE AggregationPlanNode(plan.schema, plan, ColumnsOf(plan.schema), <<>>, <<>>, stmt.id)

SortOver(plan, orders) == Checked(<<orders>>, SortPlanNode(plan.schema, plan, orders.orders))
PlanOrderBy(stmt, plan) ==
  IF Bad(plan) \/ stmt.sort = <<>> THEN plan ELSE SortOver(plan, PlanOrders(stmt.sort, plan))

IntegerConstant(x) == x.k = "CONSTANT" /\ x.v.type = "INTEGER"

PlanLimit(stmt, plan) ==
  LET limit == stmt.limit
      offset == stmt.offset
  IN  IF Bad(plan) \/ (limit.k = "INVALID" /\ offset.k = "INVALID") THEN plan
      ELSE Require(limit.k = "INVALID" \/ IntegerConstant(limit), "LIMIT not an integer constant",
             Require(offset.k = "INVALID", "OFFSET not supported",
               LimitPlanNode(plan.schema, plan,
                 IF limit.v.null \/ limit.v.v[1] < 0 THEN HugeLimit ELSE limit.v.v[1])))

\* ContextGuard: a select without WITH sees the list of the one around it
PlanSelect(stmt, outer, depth) ==
  LET ctes == IF stmt.ctes # <<>> THEN stmt.ctes ELSE outer
      from == IF stmt.table.k = "EMPTY" THEN ValuesPlanNode(<<>>, <<<<>>>>)
              ELSE PlanTableRef(stmt.table, ctes, depth)
  IN  PlanLimit(stmt, PlanOrderBy(stmt, PlanDistinct(stmt, PlanSelectList(stmt, PlanWhere(stmt, from)))))

(***************************************************************************)
(* Table references                                                        *)
(***************************************************************************)
RenamedSubquery(ref, alias, select) ==
  LET exprs == ColumnsOf(select.schema)
  IN  Checked(<<select>>,
        ProjectionPlanNode(
          RenameSchema(InferProjectionSchema(exprs), [i \in DOMAIN exprs |-> <<alias>> \o ref.names[i]]),
          exprs, select))
PlanSubquery(ref, alias, ctes, depth) ==
  Require(depth > 0, "stack overflow", RenamedSubquery(ref, alias, PlanSelect(ref.query, ctes, depth - 1)))

PlanBaseTableRef(ref) ==
  LET table == Tables[ref.table]
      schema == InferScanSchema(table.columns, GetBoundTableName(ref))
  IN  CASE ref.table \in DOMAIN Tables /\ table.mock -> MockScanPlanNode(schema, ref.table)
        [] ref.table \in DOMAIN Tables /\ table.internal /\ ~table.mock -> Raise("unsupported internal table")
        [] ref.table \in DOMAIN Tables /\ ~table.internal -> SeqScanPlanNode(schema, ref.table, None)
        [] OTHER -> Raise("table not found")

JoinOn(type, l, r, condition) ==
  Checked(<<l, r>>, Checked(<<condition>>,
    NestedLoopJoinPlanNode(InferJoinSchema(l, r), l, r, condition.x, type)))
PlanCrossProductRef(l, r) ==
  JoinOn("INNER", l, r, Planned(Unnamed, ConstantValueExpression(BoolValue(1)), 0))
PlanJoinRef(ref, l, r) == JoinOn(ref.type, l, r, Plain(ref.condition, <<l, r>>))

\* the first of the list with that name
PlanCTERef(ref, ctes, depth) ==
  LET i == SelectInSeq(ctes, LAMBDA cte : cte.alias = ref.cte)
  IN  Require(i # 0, "CTE not found", PlanSubquery(ctes[i], ref.alias, ctes, depth))

\* the first row gives the types
ValuesOf(ref, rows) ==
  Checked(rows, ValuesPlanNode(
    [i \in DOMAIN rows[1].xs |-> [name |-> <<ref.id, ToString(i - 1)>>, type |-> rows[1].xs[i].type]],
    [i \in DOMAIN rows |-> rows[i].xs]))
PlanExpressionListRef(ref) == ValuesOf(ref, [i \in DOMAIN ref.values |-> PlainList(ref.values[i], <<>>)])

PlanTableRef(ref, ctes, depth) ==
  LET left == PlanTableRef(ref.left, ctes, depth)
      right == PlanTableRef(ref.right, ctes, depth)
  IN  CASE ref.k = "BASE_TABLE"      -> PlanBaseTableRef(ref)
        [] ref.k = "CROSS_PRODUCT"   -> PlanCrossProductRef(left, right)
        [] ref.k = "JOIN"            -> PlanJoinRef(ref, left, right)
        [] ref.k = "EXPRESSION_LIST" -> PlanExpressionListRef(ref)
        [] ref.k = "SUBQUERY"        -> PlanSubquery(ref, ref.alias, ctes, depth)
        [] ref.k = "CTE"             -> PlanCTERef(ref, ctes, depth)
        [] OTHER                     -> Raise("table ref not supported")

(***************************************************************************)
(* The other statements                                                    *)
(***************************************************************************)
InsertOf(table, select) ==
  Checked(<<select>>,
    Require([i \in DOMAIN Tables[table].columns |-> Tables[table].columns[i].type]
              = [i \in DOMAIN select.schema |-> select.schema[i].type], "table schema mismatch",
      InsertPlanNode(OneColumn("insert_rows"), select, table)))
PlanInsert(stmt) == InsertOf(stmt.table.table, PlanSelect(stmt.select, <<>>, MaxDepth))

\* the rows of the table that the condition picks
FilteredTable(table, x) == Checked(<<table>>, FilterOver(table, Plain(x, <<table>>)))

DeleteOf(table, filter) == Checked(<<filter>>, DeletePlanNode(OneColumn("delete_rows"), filter, table))
PlanDelete(stmt) == DeleteOf(stmt.table.table, FilteredTable(PlanBaseTableRef(stmt.table), stmt.x))

\* a column without a target keeps its value; of two targets of a column the last one counts
UpdateTo(table, filter, exprs, cols) ==
  Checked(<<exprs>> \o cols,
    UpdatePlanNode(OneColumn("update_rows"), filter, table,
      FoldLeft(LAMBDA targets, i : [targets EXCEPT ![cols[i].col + 1] = exprs.xs[i]],
               ColumnsOf(filter.schema), [i \in DOMAIN cols |-> i])))
PlanTargets(stmt, filter) ==
  Checked(<<filter>>, UpdateTo(stmt.table.table, filter,
    PlainList([i \in DOMAIN stmt.targets |-> stmt.targets[i][2]], <<filter>>),
    [i \in DOMAIN stmt.targets |->
       IF stmt.targets[i][1] = Nullptr THEN Raise("null column") ELSE PlanColumnRef(stmt.targets[i][1], <<filter>>)]))
PlanUpdate(stmt) == PlanTargets(stmt, FilteredTable(PlanBaseTableRef(stmt.table), stmt.filter))

\* The selects whose aggregate calls the plan computes.  Planning one replaces its calls in the
\* statement by pseudo calls without arguments, which no second planning of it accepts.
RECURSIVE Rewritten(_)
Rewritten(plan) ==
  (IF plan.k = "Aggregation" /\ plan.aggregates # <<>> THEN <<plan.of>> ELSE <<>>)
    \o FlattenSeq([i \in DOMAIN plan.children |-> Rewritten(plan.children[i])])

Once(plan) == Checked(<<plan>>, Require(IsInjective(Rewritten(plan)), "unsupported agg_call", plan))
PlanQuery(stmt) ==
  Once(CASE stmt.k = "SELECT" -> PlanSelect(stmt, <<>>, MaxDepth)
         [] stmt.k = "INSERT" -> PlanInsert(stmt)
         [] stmt.k = "DELETE" -> PlanDelete(stmt)
         [] stmt.k = "UPDATE" -> PlanUpdate(stmt)
         [] OTHER             -> Raise("statement not supported"))

=============================================================================
