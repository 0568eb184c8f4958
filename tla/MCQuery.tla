------------------------------ MODULE MCQuery -------------------------------
(***************************************************************************)
(* Query on two tables with an index each, the mock tables cut to a few    *)
(* rows, and the statements made of the FROM clauses, conditions and       *)
(* shapes below, with some more by hand.                                   *)
(***************************************************************************)
EXTENDS Query

(***************************************************************************)
(* The catalog                                                             *)
(***************************************************************************)
MCHalf == [TINYINT |-> 128, SMALLINT |-> 1024, INTEGER |-> 100000000, BIGINT |-> 1000000000]
MCDouble == [exact |-> 100000000, ulps |-> {1, 2, 4, 8, 16}, min |-> -100000000, max |-> 100000000]

Indexed(columns) == [columns |-> columns, internal |-> FALSE, mock |-> FALSE, indexes |-> <<[name |-> "by_x", attrs |-> <<0>>]>>]
MCTables ==
  [a |-> Indexed(IntColumns(<<"x", "y">>)), b |-> Indexed(IntColumns(<<"x", "z">>)),
   __internal |-> [columns |-> IntColumns(<<"x">>), internal |-> TRUE, mock |-> FALSE, indexes |-> <<>>]]
    @@ GenerateMockTable
MCLowered == [colA |-> "cola", colB |-> "colb", colE |-> "cole", COUNT |-> "count"]

MCTableRows ==
  [a |-> <<<<Number(2), Number(1)>>, <<Number(1), NullValue("INTEGER")>>, <<Number(3), Number(2)>>>>,
   b |-> <<<<Number(2), Number(2)>>, <<Number(4), Number(3)>>, <<Number(2), NullValue("INTEGER")>>>>,
   __internal |-> <<>>]

(***************************************************************************)
(* Parse trees                                                             *)
(***************************************************************************)
Col(fields) == [t |-> "ColumnRef", fields |-> fields]
Star == Col(<<"*">>)
Const(i) == [t |-> "AConst", type |-> "Integer", val |-> i]
TrueText == [t |-> "AConst", type |-> "String", text |-> <<116, 114, 117, 101>>]
Op(name, l, r) == [t |-> "AExpr", kind |-> "OP", name |-> name, l |-> l, r |-> r]
Logic(op, l, r) == [t |-> "BoolExpr", op |-> op, args |-> <<l, r>>]
As(x, name) == [t |-> "ResTarget", name |-> name, val |-> x]
Call(name, args) == [t |-> "FuncCall", name |-> name, args |-> args, distinct |-> FALSE, over |-> NoNode]
Over(call, partition, order) ==
  [call EXCEPT !.over = [partition |-> partition, order |-> order, start |-> NoNode, end |-> NoNode,
                         frame |-> [range |-> TRUE, start |-> "UNBOUNDED_PRECEDING", end |-> "CURRENT_ROW"]]]
By(x, dir) == [node |-> x, dir |-> dir, nulls |-> "DEFAULT"]

NoWith == [ctes |-> <<>>, recursive |-> FALSE]
With(name, q) == [ctes |-> <<[name |-> name, query |-> q, recursive |-> FALSE]>>, recursive |-> FALSE]
Plus(fields, select) == fields @@ select
Select(id, from) ==
  [t |-> "Select", id |-> id, values |-> <<>>, with |-> NoWith, from |-> from, distinct |-> "no", targets |-> <<Star>>,
   where |-> NoNode, group |-> <<>>, having |-> NoNode, limit |-> NoNode, offset |-> NoNode, sort |-> <<>>]
Values_(id, rows) == Plus([values |-> rows], Select(id, <<>>))

Table(name, alias) == [t |-> "RangeVar", rel |-> name, alias |-> alias]
Joined(type, l, r, quals) == [t |-> "JoinExpr", type |-> type, l |-> l, r |-> r, quals |-> quals]
Sub(q, alias) == [t |-> "RangeSubselect", query |-> q, alias |-> alias, id |-> q.id, lateral |-> FALSE]

(***************************************************************************)
(* FROM clauses, each with two columns p and q to use in the rest          *)
(***************************************************************************)
A == Table("a", "")
B == Table("b", "")
Eq(l, r) == Op("=", Col(l), Col(r))
OnX == Eq(<<"a", "x">>, <<"b", "x">>)
From(from, p, q) == [from |-> from, with |-> NoWith, p |-> Col(p), q |-> Col(q)]

Froms == <<
  From(<<A>>, <<"x">>, <<"a", "y">>),
  From(<<Table("a", "t")>>, <<"t", "x">>, <<"y">>),
  From(<<Table("__mock_table_3", "m")>>, <<"cole">>, <<"m", "cole">>),
  From(<<Table("__mock_graph", "")>>, <<"src">>, <<"distance">>),
  From(<<Table("__mock_t1", "")>>, <<"z">>, <<"x">>),
  From(<<A, B>>, <<"a", "x">>, <<"z">>),
  From(<<Joined("INNER", A, B, OnX)>>, <<"a", "x">>, <<"z">>),
  From(<<Joined("LEFT", B, A, OnX)>>, <<"b", "x">>, <<"y">>),
  From(<<Joined("FULL", A, B, OnX)>>, <<"b", "x">>, <<"y">>),
  From(<<Joined("RIGHT", A, B, Op(">", Col(<<"a", "x">>), Col(<<"b", "x">>)))>>, <<"a", "x">>, <<"z">>),
  From(<<Joined("INNER", A, Sub(Plus([where |-> Op(">", Col(<<"z">>), Const(2))], Select(1, <<B>>)), "s"),
                Eq(<<"s", "x">>, <<"a", "x">>))>>, <<"a", "x">>, <<"z">>),
  From(<<Sub(Plus([where |-> Op(">", Col(<<"x">>), Const(1))], Select(1, <<A>>)), "s")>>, <<"s", "x">>, <<"y">>),
  From(<<Sub(Plus([targets |-> <<Col(<<"y">>), As(Col(<<"x">>), "k")>>], Select(1, <<A>>)), "s")>>, <<"k">>, <<"y">>),
  From(<<Sub(Plus([targets |-> <<Col(<<"x">>), As(Call("sum", <<Col(<<"z">>)>>), "n")>>, group |-> <<Col(<<"x">>)>>],
                  Select(1, <<B>>)), "s")>>, <<"x">>, <<"n">>),
  From(<<Sub(Values_(1, <<<<Const(3), Const(1)>>, <<Const(1), Const(2)>>, <<Const(2), Const(2)>>>>), "v")>>,
       <<"0">>, <<"v", "1">>),
  [From(<<Table("c", ""), B>>, <<"c", "x">>, <<"z">>) EXCEPT !.with = With("c", Select(1, <<A>>))] >>

Gt(x, n) == Op(">", x, Const(n))
Wheres(p, q) == <<NoNode, Gt(p, 1), Logic("and", Gt(p, 0), Gt(q, 1)), Logic("or", Gt(p, 2), Op("!=", q, Const(1))), Op("<=", q, p)>>

\* select list, grouping, ORDER BY, DISTINCT, LIMIT
Shapes(p, q) == <<
  [targets |-> <<Star>>],
  [targets |-> <<q, p>>, sort |-> <<By(p, "DEFAULT")>>],
  [targets |-> <<As(Op("+", p, q), "s"), Logic("and", Gt(p, 1), Gt(q, 1))>>],
  [targets |-> <<Star>>, sort |-> <<By(p, "ASC")>>],
  [targets |-> <<p, q>>, sort |-> <<By(q, "DESC"), By(p, "ASC")>>, limit |-> Const(2)],
  [targets |-> <<Op("-", q, Const(1))>>, distinct |-> "yes"],
  [targets |-> <<Call("COUNT", <<>>), Call("min", <<q>>), Op("+", Call("max", <<p>>), Const(1))>>],
  [targets |-> <<q, As(Call("sum", <<p>>), "n"), Call("count", <<p>>)>>, group |-> <<q>>,
   having |-> Op(">=", Call("max", <<p>>), Call("count", <<>>))],
  [targets |-> <<p, Over(Call("rank", <<>>), <<>>, <<By(q, "DESC")>>),
                 As(Over(Call("sum", <<p>>), <<q>>, <<By(q, "DESC")>>), "w")>>],
  [targets |-> <<p>>, sort |-> <<By(q, "ASC")>>],
  [targets |-> <<q>>, limit |-> Const(-1)],
  [targets |-> <<p>>, offset |-> Const(1)] >>

Combined ==
  FlattenSeq([f \in DOMAIN Froms |->
    LET from == Froms[f]
        wheres == Wheres(from.p, from.q)
        shapes == Shapes(from.p, from.q)
    IN  FlattenSeq([w \in DOMAIN wheres |-> [s \in DOMAIN shapes |->
          Plus(shapes[s], Plus([where |-> wheres[w], with |-> from.with], Select(0, from.from)))]])])

(***************************************************************************)
(* Statements by hand                                                      *)
(***************************************************************************)
X == Col(<<"x">>)
Y == Col(<<"y">>)
Counts(id) == Plus([targets |-> <<X, As(Call("count", <<>>), "n")>>, group |-> <<X>>], Select(id, <<A>>))
Update(table, where, targets) ==
  [t |-> "Update", table |-> table, with |-> FALSE, from |-> FALSE, where |-> where, targets |-> targets]
Delete(table, where) == [t |-> "Delete", table |-> table, where |-> where]
Insert(table, select) == [t |-> "Insert", table |-> table, cols |-> FALSE, select |-> select]
Set(name, val) == [name |-> name, val |-> val]
ColumnDef(name, type, mods, constraints) ==
  [t |-> "ColumnDef", coll |-> FALSE, type |-> type, mods |-> mods, name |-> name, constraints |-> constraints]
Create_(elts) == [t |-> "Create", table |-> "n", elts |-> elts]
Primary(keys) == [t |-> "Constraint", type |-> "PRIMARY", keys |-> keys]
Explain(q, options) == [t |-> "Explain", query |-> q, options |-> options]
Transaction(kind) == [t |-> "Transaction", kind |-> kind]

Others == <<
  Plus([targets |-> <<Op("+", Const(1), Const(2)), As(Op("<", Const(1), Const(2)), "b")>>], Select(0, <<>>)),
  \* a CTE read twice; with an aggregate in it; the column of a CTE under another name
  Plus([with |-> With("c", Select(1, <<A>>))], Select(0, <<Table("c", "l"), Table("c", "r")>>)),
  Plus([with |-> With("c", Counts(1))], Select(0, <<Table("c", "")>>)),
  Plus([with |-> With("c", Counts(1))], Select(0, <<Table("c", "l"), Table("c", "r")>>)),
  Plus([with |-> With("c", Select(1, <<A>>)), targets |-> <<Col(<<"l", "x">>)>>], Select(0, <<Table("c", "l")>>)),
  \* a subquery in a subquery, and one that hides its table's name
  Plus([targets |-> <<Col(<<"s", "r", "a", "x">>), Col(<<"y">>)>>],
       Select(0, <<Sub(Select(1, <<Sub(Select(2, <<A>>), "r")>>), "s")>>)),
  Plus([where |-> Gt(Col(<<"k">>), 1)],
       Select(0, <<Sub(Plus([targets |-> <<As(X, "k"), As(X, "l")>>], Select(1, <<A>>)), "s")>>)),
  \* filters and projections over the mock tables, in several layers
  Plus([where |-> Gt(Col(<<"number">>), 1)],
       Select(0, <<Sub(Plus([targets |-> <<As(Op("+", Col(<<"number">>), Const(1)), "number")>>],
                            Select(1, <<Table("__mock_table_123", "")>>)), "s")>>)),
  Plus([where |-> Op("<", Col(<<"cola">>), Const(5)), targets |-> <<Col(<<"colb">>)>>],
       Select(0, <<Sub(Plus([where |-> Op("!=", Col(<<"cola">>), Const(1))],
                            Select(1, <<Table("__mock_table_1", "")>>)), "s")>>)),
  Select(0, <<Table("__mock_table_tas_2025_fall", ""), Table("__mock_table_schedule", "")>>),
  Plus([targets |-> <<Col(<<"v2">>), Col(<<"v4">>)>>, where |-> Op("=", Col(<<"v1">>), Const(4))],
       Select(0, <<Table("__mock_agg_input_big", "")>>)),
  Plus([targets |-> <<Col(<<"x">>)>>, where |-> Op("<", Col(<<"x">>), Const(-1))], Select(0, <<Table("__mock_t11", "")>>)),
  Select(0, <<Table("__mock_t9", "")>>), Select(0, <<Table("__mock_external_merge_sort_input", "")>>),
  Values_(0, <<<<Const(1), Op("+", Const(1), Const(1))>>, <<Const(3), Const(4)>>>>),
  Values_(0, <<<<Const(1)>>, <<Const(3), Const(4)>>>>),
  \* names the binder or the planner refuses
  Plus([targets |-> <<Col(<<"nope">>)>>], Select(0, <<A>>)),
  Plus([targets |-> <<X>>], Select(0, <<A, B>>)),
  Select(0, <<A, A>>), Select(0, <<Table("__internal", "")>>), Select(0, <<Table("none", "")>>),
  Plus([targets |-> <<X, Star>>], Select(0, <<A>>)),
  Plus([targets |-> <<Call("count", <<X>>), Over(Call("rank", <<>>), <<>>, <<By(X, "ASC")>>)>>], Select(0, <<A>>)),
  Plus([targets |-> <<Over(Call("rank", <<>>), <<>>, <<>>)>>], Select(0, <<A>>)),
  Plus([targets |-> <<Call("upper", <<X>>)>>], Select(0, <<A>>)),
  Plus([targets |-> <<Op("*", X, X)>>], Select(0, <<A>>)),
  Plus([targets |-> <<Op("+", X, TrueText)>>], Select(0, <<A>>)),
  Plus([targets |-> <<Col(<<"number">>)>>, where |-> Op("<", Const(1), TrueText)], Select(0, <<Table("__mock_table_123", "")>>)),
  Plus([limit |-> TrueText], Select(0, <<A>>)),
  Select(0, <<Joined("FULL", Table("__mock_t8", ""), Table("__mock_graph", ""), Eq(<<"v4">>, <<"src">>))>>),
  Select(0, <<Joined("NATURAL", A, B, OnX)>>), Select(0, <<Joined("INNER", A, B, NoNode)>>),
  Plus([where |-> Gt(X, 1)], Select(0, <<Joined("INNER", A, Table("__mock_t8", ""), Const(1))>>)),
  \* changes
  Insert("a", Values_(0, <<<<Const(7), Const(8)>>>>)), Insert("a", Plus([where |-> Gt(X, 1)], Select(0, <<B>>))),
  Insert("a", Values_(0, <<<<Const(7)>>>>)), Insert("__mock_t8", Values_(0, <<<<Const(7)>>>>)),
  Delete("a", NoNode), Delete("b", Gt(X, 1)), Delete("__mock_table_123", NoNode),
  Update("a", NoNode, <<Set("y", Op("+", X, Const(1)))>>),
  Update("a", Gt(Y, 0), <<Set("x", Y), Set("y", X), Set("x", Const(9))>>),
  Update("a", NoNode, <<Set("nope", X)>>),
  Explain(Select(0, <<A>>), {}), Explain(Transaction("BEGIN"), {"planner"}),
  \* the statements that are not planned
  [t |-> "VariableSet", name |-> "v", args |-> <<Const(1)>>], [t |-> "VariableSet", name |-> "v", args |-> <<Op("+", Const(1), Const(1))>>],
  [t |-> "VariableShow", name |-> "v"], Transaction("BEGIN"), Transaction("COMMIT"), Transaction("ROLLBACK"), Transaction("SAVEPOINT"),
  Create_(<<ColumnDef("k", "int4", <<>>, <<"PRIMARY">>), ColumnDef("v", "varchar", <<8>>, <<>>)>>),
  Create_(<<ColumnDef("k", "int4", <<>>, <<>>), Primary(<<"k">>)>>),
  Create_(<<ColumnDef("k", "int4", <<>>, <<"PRIMARY">>), Primary(<<"k">>)>>),
  Create_(<<Primary(<<"k">>), ColumnDef("k", "int4", <<>>, <<>>)>>),
  Create_(<<ColumnDef("v", "varchar", <<>>, <<>>)>>), Create_(<<ColumnDef("v", "float4", <<>>, <<>>)>>), Create_(<<>>),
  [t |-> "Index", table |-> "a", index |-> "i", params |-> <<"y", "x">>, method |-> "art", options |-> <<>>],
  [t |-> "Index", table |-> "a", index |-> "i", params |-> <<"nope">>, method |-> "hash", options |-> <<>>],
  [t |-> "Vacuum"] >>

MCQueries == Combined \o Others

\* an outer join whose condition is the text 'true', under a WHERE
OuterJoinQueries == <<
  Plus([where |-> Gt(Col(<<"y">>), 1)], Select(0, <<Joined("LEFT", A, B, TrueText)>>)) >>

\* the y in x is the outer one: the WITH around x does not define its tables for each other
NestedWithQueries == <<
  Plus([with |-> With("y", Select(1, <<A>>))],
       Select(0, <<Sub(
         Plus([with |-> [ctes |-> <<[name |-> "x", query |-> Select(3, <<Table("y", "")>>), recursive |-> FALSE],
                                    [name |-> "y", query |-> Plus([where |-> Gt(Col(<<"x">>), 1)], Select(4, <<A>>)),
                                     recursive |-> FALSE]>>, recursive |-> FALSE]],
              Select(2, <<Table("x", "")>>)), "s")>>)) >>

=============================================================================
