---------------------------- MODULE SqlLogicTest ----------------------------
(***************************************************************************)
(* The sqllogictest runner (tools/sqllogictest): the parser of its script  *)
(* format, the extra options, the comparison of results and the main loop  *)
(* with its exit code.                                                     *)
(*                                                                         *)
(* A script is a sequence of lines.  A line is a record whose field k says *)
(* what its first token makes of it; anything else is "text".  What the    *)
(* database answers to a statement is chosen freely.                       *)
(***************************************************************************)
EXTENDS Naturals, Sequences, FiniteSets, SequencesExt

CONSTANTS
    Scripts,     \* scripts to run
    Outcomes,    \* what ExecuteSql may do: [does, rows]
    Plans,       \* what EXPLAIN may print: sequences of [node, cols]
    DiskCounts,  \* numbers of disk writes and deletes
    DiskLimits   \* what the command line asks of them: [min, max, deletes]

VARIABLES
    script, records,
    at,          \* the record being run
    opt,         \* the option of it to be looked at next
    checks,      \* check_options_set_
    code,        \* "none" while running, then "0", "1" or "abort"
    ran          \* history: per statement and query passed, whether main's ExecuteSql was
                 \* reached, with what, and what came back or was thrown

vars == <<script, records, at, opt, checks, code, ran>>

Init ==
    /\ script = <<>> /\ records = <<>> /\ at = 0 /\ opt = 1
    /\ checks = {} /\ code = "none" /\ ran = <<>>

(***************************************************************************)
(* parser.cpp                                                              *)
(***************************************************************************)
Is(l, k) == l.k = k

\* the first line from i on of one of the kinds, past the end if there is none
FirstOf(lines, i, kinds) ==
    CHOOSE j \in i..Len(lines) + 1 :
        /\ j = Len(lines) + 1 \/ lines[j].k \in kinds
        /\ \A m \in i..j - 1 : lines[m].k \notin kinds

Record(type, line, sql, expected, error) ==
    [type |-> type, line |-> line, sql |-> sql, expected |-> expected, error |-> error]

Thrown == [ok |-> FALSE, records |-> <<>>]
Parsed(rs) == [ok |-> TRUE, records |-> rs]
Before(r, rest) == IF rest.ok THEN Parsed(<<r>> \o rest.records) ELSE Thrown

\* is_error_ of a statement line that says neither: an uninitialized bool
IsError(l, garbage) == IF l.mode \in {"ok", "error"} THEN l.mode = "error" ELSE garbage

RECURSIVE ParseInner(_, _, _)
ParseInner(lines, i, garbage) ==
    IF i > Len(lines) \/ (i <= Len(lines) /\ Is(lines[i], "no test")) THEN Parsed(<<>>)
    ELSE CASE lines[i].k \in {"include", "halt", "sleep"} ->
                IF lines[i].args = 2
                THEN Before(Record(lines[i].k, lines[i], <<>>, <<>>, FALSE),
                            ParseInner(lines, i + 1, garbage))
                ELSE Thrown
           [] Is(lines[i], "statement") ->
                LET end == FirstOf(lines, i + 1, {"blank"})
                IN Before(Record("statement", lines[i], SubSeq(lines, i + 1, end - 1), <<>>,
                                 IsError(lines[i], garbage)),
                          ParseInner(lines, end + 1, garbage))
           [] Is(lines[i], "query") ->
                LET mid == FirstOf(lines, i + 1, {"blank", "----"})
                    end == FirstOf(lines, mid, {"blank"})
                IN IF mid > Len(lines) \/ (mid <= Len(lines) /\ ~Is(lines[mid], "----")) THEN Thrown
                   ELSE Before(Record("query", lines[i], SubSeq(lines, i + 1, mid - 1),
                                      SubSeq(lines, mid + 1, end - 1), FALSE),
                               ParseInner(lines, end + 1, garbage))
           [] OTHER -> ParseInner(lines, i + 1, garbage)

(***************************************************************************)
(* sqllogictest.cpp                                                        *)
(***************************************************************************)
\* main up to its loop: an exception of the parser is not caught
Open(lines, garbage) ==
    /\ code = "none" /\ at = 0
    /\ \E parsed \in {ParseInner(lines, 1, garbage)} :
         /\ script' = lines /\ records' = parsed.records /\ at' = 1
         /\ code' = IF ~parsed.ok THEN "abort" ELSE IF parsed.records = <<>> THEN "0" ELSE "none"
    /\ UNCHANGED <<opt, checks, ran>>

Running == code = "none" /\ at \in DOMAIN records
Current == records[at]
Options == Current.line.opts

Has(plan, node) == \E i \in DOMAIN plan : plan[i].node = node
Count(plan, node) == Cardinality({i \in DOMAIN plan : plan[i].node = node})

\* every projection above the first aggregation, and that aggregation, is narrow enough
ColumnsPruned(o, plan) ==
    \A i \in DOMAIN plan : (\A j \in 1..i - 1 : plan[j].node # "Agg") =>
        /\ plan[i].node = "Projection" => plan[i].cols <= o.proj
        /\ plan[i].node = "Agg" => plan[i].cols <= o.agg

Ensured(o, plan) ==
    CASE o.what = "index_scan" -> Has(plan, "IndexScan")
      [] o.what = "seq_scan" -> ~Has(plan, "IndexScan") /\ ~Has(plan, "Filter")
      [] o.what = "hash_join" -> Count(plan, "HashJoin") = o.times \/ Has(plan, "Filter")
      [] o.what = "hash_join_no_filter" -> Count(plan, "HashJoin") = 1 /\ ~Has(plan, "Filter")
      [] o.what = "topn" -> IF o.times = 1 THEN Has(plan, "TopN") ELSE Count(plan, "TopN") = o.times
      [] o.what = "index_join" -> Has(plan, "NestedIndexJoin")
      [] o.what = "nlj_init_check" -> Has(plan, "NestedLoopJoin")
      [] o.what = "column-pruned" -> ColumnsPruned(o, plan)

\* the executor checks an option that is met turns on
ChecksOf(o) ==
    IF o.what = "topn" THEN {"ENABLE_TOPN_CHECK"}
    ELSE IF o.what = "nlj_init_check" THEN {"ENABLE_NLJ_CHECK"} ELSE {}

Exit(c) == code' = c /\ UNCHANGED <<at, opt, checks, ran>>

\* main's own ExecuteSql is reached once every option is done
Reached == opt > Len(Options)

\* on to the next record, with fresh check options
Continue(result) ==
    /\ ran' = Append(ran, [reached |-> Reached, sql |-> Current.sql, checks |-> checks,
                           result |-> result])
    /\ at' = at + 1 /\ opt' = 1 /\ checks' = {} /\ UNCHANGED code

\* the catch clauses: a bustub::Exception is what a statement error asks for, and the one
\* try block holds the options and the statement alike
Caught(result) ==
    IF Is(Current.line, "statement") /\ Current.error THEN Continue(result) ELSE Exit("1")

NextOption == opt' = opt + 1 /\ UNCHANGED <<at, code, ran>>

\* EXPLAIN, or the statement itself when it is timed, throws
OptionThrows ==
    \E outcome \in Outcomes :
        \/ outcome.does = "throw" /\ Caught(outcome)
        \/ outcome.does = "die" /\ Exit("abort")

\* the NotImplementedException of an option that is not known
Unsupported == [does |-> "throw", rows |-> <<>>]

(* One option of ProcessExtraOptions; ensure asks for the plan before it looks further *)
ProcessExtraOption(o) ==
    CASE o.kind = "ensure" ->
           \/ \E plan \in Plans :
                IF o.what = "unsupported" THEN Caught(Unsupported)
                ELSE IF Ensured(o, plan) THEN NextOption /\ checks' = checks \cup ChecksOf(o)
                ELSE Exit("1")
           \/ OptionThrows
      [] o.kind \in {"timing", "explain"} -> (NextOption /\ UNCHANGED checks) \/ OptionThrows
      [] o.kind = "unsupported" -> Caught(Unsupported)

RunOption ==
    /\ Running /\ Current.type \in {"statement", "query"} /\ ~Reached
    /\ ProcessExtraOption(Options[opt])
    /\ UNCHANGED <<script, records>>

SplitLines(rows) == SelectSeq(rows, LAMBDA l : ~Is(l, "blank"))
BagOfLines(rows) == [l \in Range(rows) |-> Cardinality({i \in DOMAIN rows : rows[i] = l})]

(* Mutant: rows are compared as sets. *)
ResultCompare_AsSets(produced, expected, mode) ==
    \/ SplitLines(produced) = SplitLines(expected)
    \/ mode = "rowsort" /\ Range(SplitLines(produced)) = Range(SplitLines(expected))

\* std::sort of both sides makes them equal exactly when they are equal as bags
ResultCompare(produced, expected, mode) ==
    \/ SplitLines(produced) = SplitLines(expected)
    \/ mode = "rowsort" /\ BagOfLines(SplitLines(produced)) = BagOfLines(SplitLines(expected))

(* ExecuteSql returns, and what main makes of it *)
Returned(outcome) ==
    IF Current.type = "statement"
    THEN IF Current.error THEN Exit("1") ELSE Continue(outcome)
    ELSE IF ResultCompare(outcome.rows, Current.expected, Current.line.mode) THEN Continue(outcome)
         ELSE Exit("1")

RunSql ==
    /\ Running /\ Current.type \in {"statement", "query"} /\ Reached
    /\ \E outcome \in Outcomes :
         CASE outcome.does = "return" -> Returned(outcome)
           [] outcome.does = "throw" -> Caught(outcome)
           [] outcome.does = "die" -> Exit("abort")
    /\ UNCHANGED <<script, records>>

(* halt ends the run, sleep waits, include is a record main does not support *)
RunOther ==
    /\ Running /\ Current.type \notin {"statement", "query"}
    /\ IF Current.type = "sleep" THEN at' = at + 1 /\ UNCHANGED <<opt, checks, code, ran>>
       ELSE Exit(IF Current.type = "halt" THEN "0" ELSE "abort")
    /\ UNCHANGED <<script, records>>

(* The records are done: the disk counters against the command line *)
Finish ==
    /\ code = "none" /\ at > 0 /\ at > Len(records)
    /\ \E limit \in DiskLimits, writes, deletes \in DiskCounts :
         Exit(IF writes \in limit.min..limit.max /\ deletes >= limit.deletes THEN "0" ELSE "1")
    /\ UNCHANGED <<script, records>>

Next ==
    \/ \E lines \in Scripts, garbage \in BOOLEAN : Open(lines, garbage)
    \/ RunOption \/ RunSql \/ RunOther \/ Finish

Spec == Init /\ [][Next]_vars

-----------------------------------------------------------------------------
(* The meaning of a script, line by line rather than by parsing it: a line   *)
(* is on its own unless a statement or query above it reaches it without a   *)
(* blank line in between.                                                    *)
OnItsOwn(i) ==
    ~\E j \in 1..i - 1 : /\ script[j].k \in {"statement", "query"}
                         /\ \A m \in j + 1..i : ~Is(script[m], "blank")

Ends(i) == OnItsOwn(i) /\ script[i].k \in {"no test", "halt"}

\* the lines that start a test, in order, up to the end of the script
Tests ==
    SetToSortSeq({i \in DOMAIN script : /\ OnItsOwn(i) /\ script[i].k \in {"statement", "query"}
                                        /\ ~\E j \in 1..i : Ends(j)}, <)

\* the lines of block b of the test at i, blocks being cut by blank lines and by ----
Block(i, kinds) ==
    {j \in i + 1..Len(script) : \A m \in i + 1..j : script[m].k \notin kinds}

AsExpected(i, run) ==
    LET sql == Block(i, IF Is(script[i], "query") THEN {"blank", "----"} ELSE {"blank"})
        rows == {j \in Block(i, {"blank"}) \ sql : \E m \in i + 1..j - 1 : Is(script[m], "----")}
        Expected(l) == Cardinality({j \in rows : script[j] = l})
        Produced(l) == Cardinality({j \in DOMAIN run.result.rows : run.result.rows[j] = l})
        kept == SelectSeq(run.result.rows, LAMBDA l : ~Is(l, "blank"))
        Lines == {script[j] : j \in rows} \cup Range(kept)
    IN /\ Len(run.sql) = Cardinality(sql) /\ \A j \in sql : run.sql[j - i] = script[j]
       /\ CASE Is(script[i], "query") ->
                 /\ run.result.does = "return" /\ \A l \in Lines : Expected(l) = Produced(l)
                 /\ script[i].mode # "rowsort" =>
                      \A j \in rows : kept[j - (i + Cardinality(sql) + 1)] = script[j]
            [] script[i].k = "statement" /\ script[i].mode = "ok" -> run.result.does = "return"
            [] script[i].k = "statement" /\ script[i].mode = "error" -> run.result.does = "throw"
            [] OTHER -> TRUE

\* a statement expected to fail (or with neither word, is_error_ being left to chance) may
\* pass on an exception of one of its options
MayPassOnOption(i) ==
    Is(script[i], "statement") /\ script[i].mode # "ok" /\ script[i].opts # <<>>

ChecksAsked(i) == UNION {ChecksOf(o) : o \in {x \in Range(script[i].opts) : x.kind = "ensure"}}

(* ZeroMeansAsExpected: an exit code of 0 is a passed test: every statement  *)
(* and query of the script up to its end or its halt was given to the        *)
(* database by main's ExecuteSql with exactly its own lines, in order, and   *)
(* with exactly the executor checks its own options ask for, and each did    *)
(* what the script says, rows compared with their multiplicities and, unless *)
(* the query says rowsort, in their order.  The one exception the code makes *)
(* is stated: a statement that is to fail passes when one of its options     *)
(* throws, be it an option that is not supported, and then the statement     *)
(* itself was never given to ExecuteSql; no other test passes untested.      *)
ZeroMeansAsExpected ==
    code = "0" =>
        /\ Len(ran) = Len(Tests)
        /\ \A n \in DOMAIN ran :
             /\ AsExpected(Tests[n], ran[n])
             /\ IF ran[n].reached THEN ran[n].checks = ChecksAsked(Tests[n])
                ELSE MayPassOnOption(Tests[n]) /\ ran[n].result.does = "throw"
=============================================================================
