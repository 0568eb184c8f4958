----------------------------- MODULE Executors ------------------------------
(***************************************************************************)
(* The executors (execution/*_executor.cpp) and the factory that builds    *)
(* their tree.  MockScan, Values, Filter and Projection are implemented;   *)
(* the others throw, most of them from their constructor.                  *)
(*                                                                         *)
(* An executor is a record of its fields, with its child in it; its plan   *)
(* is passed beside it.  One call of Next is the value [exec, batch, more] *)
(* of NextBatch: the executor after the call, its rows and its result.     *)
(* The record ids that travel with the rows are left out.                  *)
(***************************************************************************)
EXTENDS Plans, MockTables

(***************************************************************************)
(* Constructors                                                            *)
(***************************************************************************)
NewScan(order) == [k |-> "Scan", cursor |-> 0, order |-> order]
NewOver(child) == [k |-> "Over", child |-> child, offset |-> 0, tuples |-> <<>>]

\* the implemented ones; order is the shuffle of a shuffled table, or empty
MockScanExecutor(plan, order) == NewScan(IF GetShuffled(plan.table) THEN order ELSE <<>>)
ValuesExecutor == NewScan(<<>>)
FilterExecutor(child) == NewOver(child)
ProjectionExecutor(child) == NewOver(child)

\* BUSTUB_UNIMPLEMENTED: a std::logic_error
Unimplemented == Raise("logic_error")
SeqScanExecutor == Unimplemented
IndexScanExecutor == Unimplemented
InsertExecutor == Unimplemented
UpdateExecutor == Unimplemented
DeleteExecutor == Unimplemented
LimitExecutor == Unimplemented
AggregationExecutor == Unimplemented
ExternalMergeSortExecutor == Unimplemented
JoinOrUnimplemented(type) ==
  IF type \in {"LEFT", "INNER"} THEN Unimplemented ELSE Raise("NOT_IMPLEMENTED")
NestedLoopJoinExecutor(plan) == JoinOrUnimplemented(plan.type)
NestedIndexJoinExecutor(plan) == JoinOrUnimplemented(plan.type)
WindowFunctionExecutor(child) == [k |-> "Window", child |-> child]

\* the children are built before their parent
RECURSIVE CreateExecutor(_, _)
CreateExecutor(plan, order) ==
  LET kids == [i \in DOMAIN plan.children |-> CreateExecutor(plan.children[i], order)]
  IN  Checked(kids,
        CASE plan.k = "SeqScan"         -> SeqScanExecutor
          [] plan.k = "IndexScan"       -> IndexScanExecutor
          [] plan.k = "Insert"          -> InsertExecutor
          [] plan.k = "Update"          -> UpdateExecutor
          [] plan.k = "Delete"          -> DeleteExecutor
          [] plan.k = "Limit"           -> LimitExecutor
          [] plan.k = "Aggregation"     -> AggregationExecutor
          [] plan.k = "Window"          -> WindowFunctionExecutor(kids[1])
          [] plan.k = "NestedLoopJoin"  -> NestedLoopJoinExecutor(plan)
          [] plan.k = "NestedIndexJoin" -> NestedIndexJoinExecutor(plan)
          [] plan.k = "MockScan"        -> MockScanExecutor(plan, order)
          [] plan.k = "Projection"      -> ProjectionExecutor(kids[1])
          [] plan.k = "Filter"          -> FilterExecutor(kids[1])
          [] plan.k = "Values"          -> ValuesExecutor
          [] plan.k = "Sort"            -> ExternalMergeSortExecutor)

\* offset and tuples are left as they are
Initialized(exec, child) == Checked(<<child>>, [exec EXCEPT !.child = child])
RECURSIVE InitExecutor(_)
InitExecutor(exec) ==
  CASE exec.k = "Scan"   -> [exec EXCEPT !.cursor = 0]
    [] exec.k = "Over"   -> Initialized(exec, InitExecutor(exec.child))
    [] exec.k = "Window" -> Raise("NOT_IMPLEMENTED")

(***************************************************************************)
(* Next                                                                    *)
(***************************************************************************)
\* an evaluation that throws ends the call
Throws(batch) == \E i \in DOMAIN batch : \E j \in DOMAIN batch[i] : Thrown(batch[i][j])
Result(exec, batch, more) ==
  Require(~Throws(batch), "evaluation", [k |-> "Result", exec |-> exec, batch |-> batch, more |-> more])
NonEmpty(exec, batch) == Result(exec, batch, batch # <<>>)

\* the rows from the cursor on, as many as fit; row is the function from positions to rows
ScanNext(exec, row, n) ==
  LET to == Min({Cardinality(DOMAIN row), exec.cursor + n})
  IN  NonEmpty([exec EXCEPT !.cursor = to], [i \in 1..(to - exec.cursor) |-> row[exec.cursor + i - 1]])

MockScanNext(plan, exec, n) ==
  ScanNext(exec, [c \in 0..GetSizeOf(plan.table) - 1 |->
                    GetFunctionOf(plan.table, IF exec.order = <<>> THEN c ELSE exec.order[c + 1])], n)

EvaluateAll(exprs, row) == [i \in DOMAIN exprs |-> Evaluate(exprs[i], <<row>>)]

ValuesNext(plan, exec, n) ==
  ScanNext(exec, [c \in 0..Len(plan.values) - 1 |-> EvaluateAll(plan.values[c + 1], <<>>)], n)

\* the rows a filter or a projection makes of one row of its child, one or none
Filtered(row, v) == IF Thrown(v) THEN <<<<v>>>> ELSE IF Passes(v) THEN <<row>> ELSE <<>>
Emitted(plan, row) ==
  IF plan.k = "Projection" THEN <<EvaluateAll(plan.exprs, row)>>
  ELSE Filtered(row, Evaluate(plan.predicate, <<row>>))

EmittedFrom(plan, tuples, first) ==
  FlattenSeq([i \in 1..(Len(tuples) - first) |-> Emitted(plan, tuples[first + i])])

\* what the last batch of the child still holds
Leftover(plan, exec) == IF exec.offset = 0 THEN <<>> ELSE EmittedFrom(plan, exec.tuples, exec.offset)

\* stops one row late
FillingLate(plan, batch, tuples, n) ==
  LET full == {i \in DOMAIN tuples : Len(batch) + Len(EmittedFrom(plan, SubSeq(tuples, 1, i), 0)) > n}
  IN  IF full = {} THEN 0 ELSE Min(full)

\* how many rows of the child's batch it takes to fill the output batch, or 0 if all do not
Filling(plan, batch, tuples, n) ==
  LET full == {i \in DOMAIN tuples : Len(batch) + Len(EmittedFrom(plan, SubSeq(tuples, 1, i), 0)) >= n}
  IN  IF full = {} THEN 0 ELSE Min(full)

\* the offset stays at the row that filled the batch
StoppedAtTwice(i, tuples) == IF i < Len(tuples) THEN i - 1 ELSE 0

\* the row after the one that filled the batch, unless that was the last one
StoppedAt(i, tuples) == IF i < Len(tuples) THEN i ELSE 0

RECURSIVE NextBatch(_, _, _)
RECURSIVE OverNext(_, _, _, _)

\* Filter tries again with the child's next batch until its own is full or the child has no more;
\* Projection returns what it has.  i is Filling for the child's batch
WithChild(plan, exec, batch, n, child, i) ==
  LET after == [exec EXCEPT !.child = child.exec, !.tuples = child.batch, !.offset = 0]
      all == batch \o EmittedFrom(plan, child.batch, 0)
  IN  CASE ~child.more -> NonEmpty(after, batch)
        [] child.more /\ i # 0 ->
             Result([after EXCEPT !.offset = StoppedAt(i, child.batch)],
                    batch \o EmittedFrom(plan, SubSeq(child.batch, 1, i), 0), TRUE)
        [] child.more /\ i = 0 ->
             IF plan.k = "Filter" THEN OverNext(plan, after, all, n) ELSE NonEmpty(after, all)
AfterChild(plan, exec, batch, n, child) ==
  Checked(<<child>>, WithChild(plan, exec, batch, n, child, Filling(plan, batch, child.batch, n)))
OverNext(plan, exec, batch, n) == AfterChild(plan, exec, batch, n, NextBatch(plan.children[1], exec.child, n))

NextBatch(plan, exec, n) ==
  CASE plan.k = "MockScan" -> MockScanNext(plan, exec, n)
    [] plan.k = "Values"   -> ValuesNext(plan, exec, n)
    [] plan.k \in {"Filter", "Projection"} -> OverNext(plan, exec, Leftover(plan, exec), n)

=============================================================================
