------------------------------ MODULE Meaning -------------------------------
(***************************************************************************)
(* What a bound statement asks for and what a plan computes, both as a     *)
(* sequence of rows.  No code corresponds to this module: it is what the   *)
(* planner, the optimizer and the executors are compared with.  Meaning    *)
(* follows the names in the statement, Denote the column numbers in the    *)
(* plan.  Where the rows come without an order, both keep the order of the *)
(* tables and of the left side of a join.                                  *)
(***************************************************************************)
EXTENDS Optimizer, MockTables

CONSTANT TableRows    \* the rows of the tables that are not mock tables

TableContents(t) ==
  IF t \in MockTableList THEN [c \in 1..GetSizeOf(t) |-> GetFunctionOf(t, c - 1)] ELSE TableRows[t]

\* rows, unless computing a value of them threw
Relation(rows) ==
  IF \E i \in DOMAIN rows : \E j \in DOMAIN rows[i] : Thrown(rows[i][j]) THEN Raise("evaluation")
  ELSE [k |-> "Rows", rows |-> rows]

\* the rows whose value is true
Keep(rows, values) ==
  IF \E i \in DOMAIN rows : Thrown(values[i]) THEN Raise("evaluation")
  ELSE Relation(FlattenSeq([i \in DOMAIN rows |-> IF Passes(values[i]) THEN <<rows[i]>> ELSE <<>>]))

\* the row of a side without a match; what type its NULLs have is not told apart
Padding(n) == [i \in 1..n |-> NullValue("INTEGER")]

\* matches are the pairs of a left and a right row the condition holds of
Join(ls, rs, widthL, widthR, type, matches) ==
  LET Pairs(i) == FlattenSeq([j \in DOMAIN rs |-> IF <<i, j>> \in matches THEN <<ls[i] \o rs[j]>> ELSE <<>>])
      LonelyL(i) == type \in {"LEFT", "OUTER"} /\ \A j \in DOMAIN rs : <<i, j>> \notin matches
      LonelyR(j) == type \in {"RIGHT", "OUTER"} /\ \A i \in DOMAIN ls : <<i, j>> \notin matches
  IN  Relation(FlattenSeq([i \in DOMAIN ls |-> IF LonelyL(i) THEN <<ls[i] \o Padding(widthR)>> ELSE Pairs(i)])
               \o FlattenSeq([j \in DOMAIN rs |-> IF LonelyR(j) THEN <<Padding(widthL) \o rs[j]>> ELSE <<>>]))

\* ascending or descending; NULL is the smallest value unless the statement places it
Precedes(order, a, b) ==
  LET nulls == CASE order.nulls = "FIRST" -> TRUE
                 [] order.nulls = "LAST"  -> FALSE
                 [] OTHER                 -> order.type # "DESC"
      op == IF order.type = "DESC" THEN ">" ELSE "<"
  IN  CASE a.null /\ b.null   -> FALSE
        [] a.null /\ ~b.null  -> nulls
        [] ~a.null /\ b.null  -> ~nulls
        [] ~a.null /\ ~b.null -> Compare(op, a, b) = "CmpTrue"

Before(orders, a, b) ==
  \E i \in DOMAIN orders : /\ Precedes(orders[i], a[i], b[i])
                           /\ \A j \in 1..(i - 1) : ~Precedes(orders[j], b[j], a[j])

\* stable; keys are the sort keys of the rows
SortBy(rows, orders, keys) ==
  LET Place(i) == Cardinality({j \in DOMAIN rows :
                    IF j <= i THEN ~Before(orders, keys[i], keys[j]) ELSE Before(orders, keys[j], keys[i])})
  IN  [n \in DOMAIN rows |-> rows[CHOOSE i \in DOMAIN rows : Place(i) = n]]

\* the groups of row numbers with equal keys; without keys all rows are one group
Groups(keys, grouped) ==
  IF ~grouped THEN <<DOMAIN keys>>
  ELSE LET first == SelectSeq([i \in DOMAIN keys |-> i], LAMBDA i : \A j \in 1..(i - 1) : keys[j] # keys[i])
       IN  [g \in DOMAIN first |-> {i \in DOMAIN keys : keys[i] = keys[first[g]]}]

\* of the values of the rows in the group
Aggregate(func, values, group) ==
  LET known == {i \in group : ~values[i].null}
      numbers == {values[i].v[1] : i \in known}
  IN  CASE func = "count_star" -> Number(Cardinality(group))
        [] func = "count"      -> Number(Cardinality(known))
        [] func \notin {"count_star", "count"} /\ known = {} -> NullValue("INTEGER")
        [] func = "sum" /\ known # {} -> Number(MapThenSumSet(LAMBDA i : values[i].v[1], known))
        [] func = "min" /\ known # {} -> Number(Min(numbers))
        [] func = "max" /\ known # {} -> Number(Max(numbers))

\* of row i: over its partition up to its peers in the order
WindowValue(func, values, partition, orders, keys, i) ==
  LET same == {j \in DOMAIN partition : partition[j] = partition[i]}
  IN  IF func = "rank" THEN Number(1 + Cardinality({j \in same : Before(orders, keys[j], keys[i])}))
      ELSE Aggregate(func, values, {j \in same : ~Before(orders, keys[i], keys[j])})

(***************************************************************************)
(* Statements.  A relation has the names of its columns; ctes are the      *)
(* relations of the WITH clause in scope                                   *)
(***************************************************************************)
Named(names, relation) == Checked(<<relation>>, [relation EXCEPT !.k = "Named"] @@ [names |-> names])

\* AND is the smaller and OR the larger of the truth values false < NULL < true
Truth(v) == IF v.null THEN 1 ELSE IF v.v[1] # 0 THEN 2 ELSE 0
OfTruth(n) == IF n = 1 THEN NullValue("BOOLEAN") ELSE BoolValue(n \div 2)

Operate(op, a, b) ==
  CASE op \in {"+", "-"} -> ArithmeticCompute(op, a, b)
    [] op = "and"         -> OfTruth(Min({Truth(a), Truth(b)}))
    [] op = "or"          -> OfTruth(Max({Truth(a), Truth(b)}))
    [] OTHER              -> ComparisonCompute(CASE op = "==" -> "=" [] op \in {"!=", "<>"} -> "#" [] OTHER -> op, a, b)

\* the value of x for row i of the group
RECURSIVE ValueOf(_, _, _, _, _)
ValueOf(x, names, rows, group, i) ==
  LET Each(y) == [j \in DOMAIN rows |-> ValueOf(y, names, rows, {j}, j)]
      Lists(xs) == [j \in DOMAIN rows |-> [m \in DOMAIN xs |-> ValueOf(xs[m], names, rows, {j}, j)]]
      Arg == IF x.args = <<>> THEN [j \in DOMAIN rows |-> Number(1)] ELSE Each(x.args[1])
  IN  CASE x.k = "COLUMN_REF" -> rows[i][CHOOSE c \in DOMAIN names : names[c] = x.name]
        [] x.k = "CONSTANT"   -> x.v
        [] x.k = "ALIAS"      -> ValueOf(x.args[1], names, rows, group, i)
        [] x.k = "BINARY_OP"  -> Operate(x.op, ValueOf(x.args[1], names, rows, group, i),
                                               ValueOf(x.args[2], names, rows, group, i))
        [] x.k = "AGG_CALL"   -> Aggregate(x.func, Arg, group)
        [] x.k = "WINDOW"     -> WindowValue(x.func, Arg, Lists(x.partition), x.order,
                                             Lists([m \in DOMAIN x.order |-> x.order[m].x]), i)

NameOf(x) == CASE x.k = "COLUMN_REF" -> x.name [] x.k = "ALIAS" -> <<x.alias>> [] OTHER -> Unnamed

\* a group is a set of row numbers; an expression has the value it has in the first row
ValueIn(x, names, rows, group) == ValueOf(x, names, rows, group, CHOOSE i \in group : \A j \in group : i <= j)
ValuesIn(xs, names, rows, group) == [m \in DOMAIN xs |-> ValueIn(xs[m], names, rows, group)]

GroupsOf(stmt, names, rows) ==
  IF \/ stmt.group # <<>> \/ stmt.having.k # "INVALID" \/ \E i \in DOMAIN stmt.list : HasAggregation(stmt.list[i])
  THEN Groups([i \in DOMAIN rows |-> ValuesIn(stmt.group, names, rows, {i})], stmt.group # <<>>)
  ELSE [i \in DOMAIN rows |-> {i}]
Having(stmt, names, rows, groups) ==
  IF stmt.having.k = "INVALID" THEN groups
  ELSE SelectSeq(groups, LAMBDA g : Passes(ValueIn(stmt.having, names, rows, g)))
Sorted(stmt, names, rows, groups) ==
  SortBy(groups, stmt.sort,
    [i \in DOMAIN groups |-> ValuesIn([m \in DOMAIN stmt.sort |-> stmt.sort[m].x], names, rows, groups[i])])
Listed(stmt, names, rows, groups) == [i \in DOMAIN groups |-> ValuesIn(stmt.list, names, rows, groups[i])]
Distinct(stmt, rows) ==
  IF ~stmt.distinct THEN rows
  ELSE FlattenSeq([i \in DOMAIN rows |-> IF \E j \in 1..(i - 1) : rows[j] = rows[i] THEN <<>> ELSE <<rows[i]>>])
Limited(stmt, rows) ==
  IF stmt.limit.k = "INVALID" \/ stmt.limit.v.v[1] < 0 THEN rows
  ELSE SubSeq(rows, 1, Min({Len(rows), stmt.limit.v.v[1]}))

\* HAVING keeps groups, ORDER BY orders groups or rows, DISTINCT drops repeated rows, LIMIT comes last
Selected(stmt, names, where) ==
  Checked(<<where>>, Named([c \in DOMAIN stmt.list |-> NameOf(stmt.list[c])], Relation(Limited(stmt, Distinct(stmt,
    Listed(stmt, names, where.rows, Sorted(stmt, names, where.rows,
      Having(stmt, names, where.rows, GroupsOf(stmt, names, where.rows)))))))))
Where(x, from) == Keep(from.rows, [i \in DOMAIN from.rows |-> ValueOf(x, from.names, from.rows, {i}, i)])
MeaningFrom(stmt, from) ==
  Checked(<<from>>, Selected(stmt, from.names, IF stmt.where.k = "INVALID" THEN from ELSE Where(stmt.where, from)))

RECURSIVE MeaningOfTable(_, _)
Meaning(stmt, outer) ==
  LET ctes == IF stmt.ctes = <<>> THEN outer
              ELSE [i \in DOMAIN stmt.ctes |->
                     [alias |-> stmt.ctes[i].alias, relation |-> MeaningOfTable(stmt.ctes[i], outer)]]
  IN  MeaningFrom(stmt, IF stmt.table.k = "EMPTY" THEN Named(<<>>, Relation(<<<<>>>>)) ELSE MeaningOfTable(stmt.table, ctes))

JoinedTables(type, condition, l, r) ==
  LET names == l.names \o r.names
  IN  Checked(<<l, r>>, Named(names, Join(l.rows, r.rows, Len(l.names), Len(r.names), type,
        {p \in (DOMAIN l.rows) \X (DOMAIN r.rows) :
           Passes(ValueOf(condition, names, <<l.rows[p[1]] \o r.rows[p[2]]>>, {1}, 1))})))
Prefixed(alias, names, query) ==
  Checked(<<query>>, [query EXCEPT !.names = [c \in DOMAIN names |-> <<alias>> \o names[c]]])
Retitled(alias, cte) ==
  Checked(<<cte>>, [cte EXCEPT !.names = [c \in DOMAIN cte.names |-> [cte.names[c] EXCEPT ![1] = alias]]])

MeaningOfTable(ref, ctes) ==
  CASE ref.k = "BASE_TABLE" ->
         Named([c \in DOMAIN Tables[ref.table].columns |->
                  <<GetBoundTableName(ref), Tables[ref.table].columns[c].name>>],
               Relation(TableContents(ref.table)))
    [] ref.k \in {"CROSS_PRODUCT", "JOIN"} ->
         JoinedTables(IF ref.k = "JOIN" THEN ref.type ELSE "INNER",
                IF ref.k = "JOIN" THEN ref.condition ELSE BoundConstant(BoolValue(1)),
                MeaningOfTable(ref.left, ctes), MeaningOfTable(ref.right, ctes))
    [] ref.k = "SUBQUERY" -> Prefixed(ref.alias, ref.names, Meaning(ref.query, ctes))
    [] ref.k = "CTE" -> Retitled(ref.alias, ctes[SelectInSeq(ctes, LAMBDA c : c.alias = ref.cte)].relation)
    [] ref.k = "EXPRESSION_LIST" ->
         Named([c \in DOMAIN ref.values[1] |-> <<ref.id, ToString(c - 1)>>],
               Relation([i \in DOMAIN ref.values |->
                 [c \in DOMAIN ref.values[i] |-> ValueOf(ref.values[i][c], <<>>, <<>>, {}, 0)]]))

\* the last target of the column, if there is one
Targets(stmt, name) ==
  {m \in DOMAIN stmt.targets : /\ stmt.targets[m][1].name = name
                               /\ \A n \in DOMAIN stmt.targets : n > m => stmt.targets[n][1].name # name}
Updated(stmt, names, hit) ==
  Checked(<<hit>>, Relation([i \in DOMAIN hit.rows |-> [c \in DOMAIN names |->
    IF Targets(stmt, names[c]) = {} THEN hit.rows[i][c]
    ELSE ValueOf(stmt.targets[CHOOSE m \in Targets(stmt, names[c]) : TRUE][2], names, hit.rows, {i}, i)]]))
MeaningIn(stmt, table) ==
  IF stmt.k = "DELETE" THEN Where(stmt.x, table) ELSE Updated(stmt, table.names, Where(stmt.filter, table))

\* INSERT: the rows that go in; DELETE: those that go; UPDATE: the new rows
MeaningOf(stmt) ==
  CASE stmt.k \in {"SELECT", "INSERT"} -> Meaning(IF stmt.k = "INSERT" THEN stmt.select ELSE stmt, <<>>)
    [] stmt.k \in {"DELETE", "UPDATE"} -> MeaningIn(stmt, MeaningOfTable(stmt.table, <<>>))

(***************************************************************************)
(* Plans                                                                   *)
(***************************************************************************)
Evaluated(exprs, row) == [i \in DOMAIN exprs |-> Evaluate(exprs[i], <<row>>)]

DenoteAggregation(plan, rows) ==
  LET keys == [i \in DOMAIN rows |-> Evaluated(plan.groups, rows[i])]
      groups == Groups(keys, plan.groups # <<>>)
      Key(g) == IF plan.groups = <<>> THEN <<>> ELSE keys[CHOOSE i \in g : \A j \in g : i <= j]
  IN  Relation([g \in DOMAIN groups |-> Key(groups[g]) \o
        [a \in DOMAIN plan.types |->
          Aggregate(plan.types[a], [i \in DOMAIN rows |-> Evaluate(plan.aggregates[a], <<rows[i]>>)], groups[g])]])

DenoteWindow(plan, rows) ==
  LET Value(c, i) ==
        LET f == plan.functions[c]
        IN  WindowValue(f.type, [j \in DOMAIN rows |-> Evaluate(f.arg, <<rows[j]>>)],
                        [j \in DOMAIN rows |-> Evaluated(f.partition, rows[j])], f.order,
                        [j \in DOMAIN rows |-> Evaluated([m \in DOMAIN f.order |-> f.order[m].x], rows[j])], i)
  IN  Relation([i \in DOMAIN rows |-> [c \in DOMAIN plan.columns |->
        IF c \in DOMAIN plan.functions THEN Value(c, i) ELSE Evaluate(plan.columns[c], <<rows[i]>>)]])

KeepPassing(rows, x) == Keep(rows, [i \in DOMAIN rows |-> Evaluate(x, <<rows[i]>>)])
DenoteScan(plan, contents) ==
  IF plan.k = "MockScan" \/ plan.filter = None THEN Relation(contents) ELSE KeepPassing(contents, plan.filter)

\* an index gives the rows in the order of its columns
DenoteIndexScan(contents, attrs) ==
  Relation(SortBy(contents, [a \in DOMAIN attrs |-> [type |-> "ASC", nulls |-> "DEFAULT"]],
                  [i \in DOMAIN contents |-> [a \in DOMAIN attrs |-> contents[i][attrs[a] + 1]]]))
DenoteJoin(plan, ls, rs, widthR) ==
  Join(ls, rs, Len(plan.children[1].schema), widthR, plan.type,
    {p \in (DOMAIN ls) \X (DOMAIN rs) : Passes(Evaluate(plan.predicate, <<ls[p[1]], rs[p[2]]>>))})

\* a probe of the index is an equality with its column
Probe(plan) ==
  [predicate |-> ComparisonExpression("=", plan.key,
     ColumnValueExpression(1, Tables[plan.table].indexes[plan.index].attrs[1], "INTEGER"))] @@ plan

DenoteNode(plan, kids) ==
  LET rows == kids[1].rows
  IN  CASE plan.k \in {"MockScan", "SeqScan"} -> DenoteScan(plan, TableContents(plan.table))
        [] plan.k = "IndexScan" ->
             DenoteIndexScan(TableContents(plan.table), Tables[plan.table].indexes[plan.index].attrs)
        [] plan.k = "Values"    -> Relation([i \in DOMAIN plan.values |-> Evaluated(plan.values[i], <<>>)])
        [] plan.k = "Filter"    -> KeepPassing(rows, plan.predicate)
        [] plan.k = "Projection" -> Relation([i \in DOMAIN rows |-> Evaluated(plan.exprs, rows[i])])
        [] plan.k = "NestedLoopJoin" -> DenoteJoin(plan, rows, kids[2].rows, Len(plan.children[2].schema))
        [] plan.k = "NestedIndexJoin" ->
             DenoteJoin(Probe(plan), rows, TableContents(plan.table), Len(plan.inner))
        [] plan.k = "Aggregation" -> DenoteAggregation(plan, rows)
        [] plan.k = "Window"      -> DenoteWindow(plan, rows)
        [] plan.k = "Sort"        ->
             Relation(SortBy(rows, plan.orders,
               [i \in DOMAIN rows |-> Evaluated([m \in DOMAIN plan.orders |-> plan.orders[m].x], rows[i])]))
        [] plan.k = "Limit"       -> Relation(SubSeq(rows, 1, Min({Len(rows), plan.limit})))
        [] plan.k \in {"Insert", "Delete"} -> kids[1]
        [] plan.k = "Update"      -> Relation([i \in DOMAIN rows |-> Evaluated(plan.targets, rows[i])])

RECURSIVE Denote(_)
DenoteChecked(plan, kids) == Checked(kids, DenoteNode(plan, kids))
Denote(plan) == DenoteChecked(plan, [i \in DOMAIN plan.children |-> Denote(plan.children[i])])

=============================================================================
