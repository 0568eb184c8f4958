------------------------------- MODULE Query --------------------------------
(***************************************************************************)
(* A statement on its way through the instance (BusTubInstance::           *)
(* ExecuteSqlTxn): bound, planned, optimized, and executed batch by batch  *)
(* (ExecutionEngine::Execute).                                             *)
(***************************************************************************)
EXTENDS Meaning, Executors

CONSTANTS Queries,       \* the statements that may come in, as the parser's trees
          BatchSizes     \* the values of BUSTUB_BATCH_SIZE that are tried

ASSUME BatchSizesAssumption == BatchSizes \subseteq Nat \ {0}

VARIABLES query,      \* which of Queries is running, or 0
          starter,    \* IsForceStarterRule(), once it is read
          size,       \* BUSTUB_BATCH_SIZE, once it is used
          phase,      \* how far it is
          bound,      \* the bound statement
          plan,       \* planner.plan_
          optimized,  \* optimized_plan
          exec,       \* the tree of executors
          result      \* result_set
vars == <<query, starter, size, phase, bound, plan, optimized, exec, result>>

Init ==
  /\ query = 0 /\ starter = FALSE /\ size = 0 /\ phase = "idle"
  /\ bound = None /\ plan = None /\ optimized = None /\ exec = None /\ result = <<>>

Submit ==
  /\ phase = "idle"
  /\ query' \in DOMAIN Queries
  /\ phase' = "parsed"
  /\ UNCHANGED <<starter, size, bound, plan, optimized, exec, result>>

\* an exception ends the statement
Failed(x) == Bad(x) /\ phase' = "failed"

\* DDL, SET, SHOW and the transaction statements have handlers of their own
Bind ==
  /\ phase = "parsed"
  /\ bound' = BindStatement(Queries[query])
  /\ \/ Failed(bound')
     \/ /\ bound'.k \in {"SELECT", "INSERT", "DELETE", "UPDATE", "EXPLAIN"}
        /\ phase' = "bound"
     \/ /\ ~Bad(bound') /\ bound'.k \notin {"SELECT", "INSERT", "DELETE", "UPDATE", "EXPLAIN"}
        /\ phase' = "handled"
  /\ UNCHANGED <<query, starter, size, plan, optimized, exec, result>>

\* HandleExplainStatement plans the statement it explains
Planning == IF bound.k = "EXPLAIN" THEN bound.stmt ELSE bound

PlanStep ==
  /\ phase = "bound"
  /\ plan' = PlanQuery(Planning)
  /\ Failed(plan') \/ (~Bad(plan') /\ phase' = "planned")
  /\ UNCHANGED <<query, starter, size, bound, optimized, exec, result>>

\* with the session variable that is set at this moment
OptimizeStep ==
  /\ phase = "planned"
  /\ starter' \in BOOLEAN
  /\ optimized' = Optimize(plan, starter')
  /\ \/ Failed(optimized')
     \/ ~Bad(optimized') /\ bound.k = "EXPLAIN" /\ phase' = "handled"
     \/ ~Bad(optimized') /\ bound.k # "EXPLAIN" /\ phase' = "optimized"
  /\ UNCHANGED <<query, size, bound, plan, exec, result>>

\* the order in which a shuffled table is read, if there is one in the plan
RECURSIVE ScansShuffled(_)
ScansShuffled(p) ==
  \/ p.k = "MockScan" /\ GetShuffled(p.table)
  \/ \E i \in DOMAIN p.children : ScansShuffled(p.children[i])
Shuffles == {f \in [1..MaxRows -> 0..(MaxRows - 1)] : IsInjective(f)}

\* CreateExecutor and Init
CreateAndInit(e) == Checked(<<e>>, InitExecutor(e))
Create ==
  /\ phase = "optimized"
  /\ \E order \in IF ScansShuffled(optimized) THEN Shuffles ELSE {<<>>} :
       exec' = CreateAndInit(CreateExecutor(optimized, order))
  /\ \/ Failed(exec') /\ UNCHANGED size
     \/ ~Bad(exec') /\ phase' = "executing" /\ size' \in BatchSizes
  /\ UNCHANGED <<query, starter, bound, plan, optimized, result>>

\* one turn of the loop of PollExecutor
Poll ==
  /\ phase = "executing"
  /\ \E next \in {NextBatch(optimized, exec, size)} :
       \/ Failed(next) /\ UNCHANGED <<exec, result>>
       \/ /\ ~Bad(next) /\ next.more
          /\ exec' = next.exec /\ result' = result \o next.batch
          /\ UNCHANGED phase
       \/ /\ ~Bad(next) /\ ~next.more
          /\ exec' = next.exec
          /\ phase' = "done"
          /\ UNCHANGED result
  /\ UNCHANGED <<query, starter, size, bound, plan, optimized>>

\* the caller has its answer
Return ==
  /\ phase \in {"failed", "handled", "done"}
  /\ query' = 0 /\ starter' = FALSE /\ size' = 0 /\ phase' = "idle"
  /\ bound' = None /\ plan' = None /\ optimized' = None /\ exec' = None /\ result' = <<>>

Next == Submit \/ Bind \/ PlanStep \/ OptimizeStep \/ Create \/ Poll \/ Return

Spec == Init /\ [][Next]_vars

-----------------------------------------------------------------------------
SameRows(want, have) == Bad(want) = Bad(have) /\ (~Bad(want) => have.rows = want.rows)

\* The plan computes what the statement asks for, whatever the subqueries, CTEs, joins, aggregates
\* and window functions in it: every column number the planner writes stands for the column that
\* the binder's name means (PlanSelect and what it calls).
PlanMeansStatement == phase = "planned" => SameRows(MeaningOf(Planning), Denote(plan))

\* No rule, in either of the orders of Optimize (the starter rules and the custom ones), changes
\* what the plan computes or the columns it has; the instance prints the rows of the optimized plan
\* with the schema of the plan before it.
OptimizerKeepsMeaning ==
  phase = "optimized" => /\ optimized.schema = plan.schema
                         /\ Denote(optimized) = Denote(plan)

Occurrences(rows) == [r \in ToSet(rows) |-> Cardinality({i \in DOMAIN rows : rows[i] = r})]

RowsExact(want, shuffled) ==
  IF shuffled THEN phase = "done" => Occurrences(result) = Occurrences(want.rows)
  ELSE /\ ~Bad(want) => IsPrefix(result, want.rows)
       /\ phase = "done" => ~Bad(want) /\ result = want.rows

\* However the batches of the executors overlap, the rows collected so far are the first rows of
\* the plan's meaning, and all of them when Next returns false.  The rows of a shuffled table come
\* in another order, but none is lost or repeated.
ExecutionExact == phase \in {"executing", "done"} => RowsExact(Denote(plan), ScansShuffled(plan))

\* Every call of Next but the last returns at least one row and at most batch_size of them.
BatchesFilled ==
  [][phase = "executing" /\ phase' = "executing" => Len(result') - Len(result) \in 1..size]_vars

NameErrors == {"column not found", "ambiguous column name", "duplicated column", "CTE not found", "stack overflow"}

\* the selects of a statement, and the tables they read from
RECURSIVE Selects(_)
RECURSIVE Sources(_)
Sources(ref) == IF ref.k \in {"JOIN", "CROSS_PRODUCT"} THEN Sources(ref.left) \o Sources(ref.right) ELSE <<ref>>
Selects(select) ==
  LET inner == SelectSeq(Sources(select.table) \o select.ctes, LAMBDA ref : ref.k = "SUBQUERY")
  IN  <<select>> \o FlattenSeq([i \in DOMAIN inner |-> Selects(inner[i].query)])
CalledAs(ref) == CASE ref.k = "BASE_TABLE" -> GetBoundTableName(ref)
                   [] ref.k \in {"SUBQUERY", "CTE"} -> ref.alias
                   [] OTHER -> ""

\* the planner looks ORDER BY up in the output and the select list of an aggregation in the groups
LooksElsewhere(select) ==
  \/ select.sort # <<>> \/ select.group # <<>> \/ select.having.k # "INVALID"
  \/ \E i \in DOMAIN select.list : HasAggregation(select.list[i])
AmbiguousSources(select) ==
  LET refs == Sources(select.table)
  IN  \/ \E i, j \in DOMAIN refs : i # j /\ CalledAs(refs[i]) = CalledAs(refs[j])
      \/ \E i \in DOMAIN refs : refs[i].k = "CTE" /\ refs[i].alias # refs[i].cte
      \/ \E i \in DOMAIN refs : refs[i].k = "SUBQUERY" /\ ~IsInjective(refs[i].names)

\* A name that the binder resolved is found again by the planner, and only once.  The exceptions:
\* ORDER BY and grouping, two tables under one name, two columns of a subquery under one name, and
\* a column of a CTE that the FROM clause gives another name (ResolveColumnRefFromSubqueryRef
\* prepends the name of the CTE, PlanSubquery the other one).  Statements in which a WITH inside
\* another one uses a name of it again are not meant: there PlanCTERef takes the CTE of the inner
\* list for the outer one, finds another table or, when that CTE names itself, never ends.
NamesFound ==
  (phase = "failed" /\ bound.k = "SELECT" /\ Bad(plan) /\ plan.why \in NameErrors) =>
     LET selects == Selects(bound)
     IN  \E i \in DOMAIN selects : LooksElsewhere(selects[i]) \/ AmbiguousSources(selects[i])

=============================================================================
