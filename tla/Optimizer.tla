----------------------------- MODULE Optimizer ------------------------------
(***************************************************************************)
(* The rewriting rules of the optimizer (optimizer/*.cpp).  Every rule     *)
(* rebuilds the plan from its leaves upwards and looks at each node with   *)
(* the children already rewritten.  The rules with an empty body, which    *)
(* return their plan, are left out of the two lists of rules.              *)
(***************************************************************************)
EXTENDS Planner

SchemaTypes(plan) == [i \in DOMAIN plan.schema |-> plan.schema[i].type]

\* a projection onto the same columns in the same places only renames them
MergeProjection(plan) ==
  LET child == plan.children[1]
  IN  IF /\ plan.k = "Projection"
         /\ SchemaTypes(child) = SchemaTypes(plan)
         /\ \A i \in DOMAIN plan.exprs :
              plan.exprs[i].k = "ColumnValue" /\ plan.exprs[i].tuple = 0 /\ plan.exprs[i].col = i - 1
      THEN [child EXCEPT !.schema = plan.schema] ELSE plan

\* a column of the joined row becomes a column of the left or of the right one
RECURSIVE RewriteExpressionForJoin(_, _, _)
RewriteExpressionForJoin(x, left, right) ==
  LET args == [i \in DOMAIN x.args |-> RewriteExpressionForJoin(x.args[i], left, right)]
  IN  IF x.k = "ColumnValue"
      THEN Require(x.tuple = 0 /\ x.col < left + right, "col_idx not in range",
             IF x.col < left THEN x ELSE ColumnValueExpression(1, x.col - left, x.type))
      ELSE Checked(args, WithArgs(x, args))

\* "yes", "no", or the exception of the cast
TruthOf(v) == IF Thrown(v) THEN "throws" ELSE IF v.v[1] # 0 THEN "yes" ELSE "no"
IsPredicateTrue(x) == IF x.k = "Constant" THEN TruthOf(CastAs(x.v, "BOOLEAN")) ELSE "no"

JoinMerged(plan, join, isTrue, predicate) ==
  CASE isTrue = "throws" -> Raise("cast of a join predicate")
    [] isTrue = "no"     -> plan
    [] isTrue = "yes"    -> Checked(<<predicate>>,
         NestedLoopJoinPlanNode(plan.schema, join.children[1], join.children[2], predicate, join.type))
MergeFilterNLJ(plan) ==
  LET join == plan.children[1]
  IN  IF plan.k # "Filter" \/ join.k # "NestedLoopJoin" THEN plan
      ELSE JoinMerged(plan, join, IsPredicateTrue(join.predicate),
             RewriteExpressionForJoin(plan.predicate, Len(join.children[1].schema), Len(join.children[2].schema)))

\* the first index of the table on exactly these columns, or 0
MatchIndex(table, attrs) == SelectInSeq(Tables[table].indexes, LAMBDA index : index.attrs = attrs)

\* column of one side = column of the other, the right side a table with an index on its column
NLJAsIndexJoin(plan) ==
  LET scan == plan.children[2]
      cols == plan.predicate.args
      inner == IF cols[1].tuple = 1 THEN cols[1] ELSE cols[2]
      outer == IF cols[1].tuple = 1 THEN cols[2] ELSE cols[1]
      index == MatchIndex(scan.table, <<inner.col>>)
  IN  IF /\ plan.k = "NestedLoopJoin"
         /\ plan.predicate.k = "Comparison" /\ plan.predicate.op = "="
         /\ cols[1].k = "ColumnValue" /\ cols[2].k = "ColumnValue"
         /\ scan.k = "SeqScan"
         /\ inner.tuple = 1 /\ outer.tuple = 0
         /\ index # 0
      THEN NestedIndexJoinPlanNode(plan.schema, plan.children[1], ColumnValueExpression(0, outer.col, outer.type),
                                   scan.table, index, scan.schema, plan.type)
      ELSE plan

\* ascending by the columns of an index; where NULLs go is not looked at
OrderByAsIndexScan(plan) ==
  LET scan == plan.children[1]
      index == MatchIndex(scan.table, [i \in DOMAIN plan.orders |-> plan.orders[i].x.col])
  IN  IF /\ plan.k = "Sort"
         /\ \A i \in DOMAIN plan.orders :
              plan.orders[i].type \in {"ASC", "DEFAULT"} /\ plan.orders[i].x.k = "ColumnValue"
         /\ scan.k = "SeqScan"
         /\ index # 0
      THEN IndexScanPlanNode(plan.schema, scan.table, index) ELSE plan

MergeFilterScan(plan) ==
  LET scan == plan.children[1]
  IN  IF plan.k = "Filter" /\ scan.k = "SeqScan" /\ scan.filter = None
      THEN SeqScanPlanNode(plan.schema, scan.table, plan.predicate) ELSE plan

Rewrite(rule, plan) ==
  CASE rule = "MergeProjection"    -> MergeProjection(plan)
    [] rule = "MergeFilterNLJ"     -> MergeFilterNLJ(plan)
    [] rule = "NLJAsIndexJoin"     -> NLJAsIndexJoin(plan)
    [] rule = "OrderByAsIndexScan" -> OrderByAsIndexScan(plan)
    [] rule = "MergeFilterScan"    -> MergeFilterScan(plan)

RECURSIVE Everywhere(_, _)
Everywhere(rule, plan) ==
  LET children == [i \in DOMAIN plan.children |-> Everywhere(rule, plan.children[i])]
  IN  Checked(children, Rewrite(rule, CloneWithChildren(plan, children)))

\* filters reach the scans before joins and sorts are replaced
StarterRulesFilterFirst ==
  <<"MergeProjection", "MergeFilterNLJ", "MergeFilterScan", "NLJAsIndexJoin", "OrderByAsIndexScan">>

StarterRules == <<"MergeProjection", "MergeFilterNLJ", "NLJAsIndexJoin", "OrderByAsIndexScan", "MergeFilterScan">>

CustomRules == <<"MergeProjection", "MergeFilterNLJ", "OrderByAsIndexScan", "MergeFilterScan">>

\* starter is force_starter_rule_
Optimize(plan, starter) ==
  FoldLeft(LAMBDA p, rule : IF Bad(p) THEN p ELSE Everywhere(rule, p),
           plan, IF starter THEN StarterRules ELSE CustomRules)

=============================================================================
