------------------------------ MODULE MCParts -------------------------------
(***************************************************************************)
(* Parts of the repository that share no state, checked side by side: part *)
(* says which of them takes steps in a behaviour, the others stay as they  *)
(* are.  A variable has the name it has in its module, or that name with a *)
(* prefix where two modules use the same one.                              *)
(***************************************************************************)
EXTENDS Arena, LogFile, MemoryDisk, CountMinSketch, ORSetDriver, Vector, StlIndex, TLC

CONSTANTS t1, t2, t3, u1, u2, a, b, c

VARIABLES part,
    ver_tuple, ver_has_info, ver_prev_link_, ver_undo_logs_, ver_next, ver_page_w, ver_page_r,
    ver_info_w, ver_info_r, ver_mutex_, ver_pc, ver_rid, ver_seen, ver_new, ver_own, ver_stack,
    sh_kind, sh_up, sh_pc, sh_stream, sh_eof, sh_query, sh_txn, sh_typed, sh_done,
    script, records, at, opt, checks, code, ran

versionVars ==
    <<ver_tuple, ver_has_info, ver_prev_link_, ver_undo_logs_, ver_next, ver_page_w, ver_page_r,
      ver_info_w, ver_info_r, ver_mutex_, ver_pc, ver_rid, ver_seen, ver_new, ver_own, ver_stack>>
shellVars == <<sh_kind, sh_up, sh_pc, sh_stream, sh_eof, sh_query, sh_txn, sh_typed, sh_done>>
testerVars == <<script, records, at, opt, checks, code, ran>>

\* three keys in two columns and two rows: each pair of keys shares a counter in at most
\* one row, so an estimate can be exact or too high
TwoHashes == a :> <<0, 0>> @@ b :> <<0, 1>> @@ c :> <<1, 1>>

\* three rows of three columns, of which the third and the first are indexed
IndexedRows == {<<1, 0, 0>>, <<0, 1, 1>>, <<1, 1, 1>>}
ThirdAndFirst == <<3, 1>>

Versions == INSTANCE VersionLinks WITH
    Threads <- {t1, t2, t3}, Slots <- {u1, u2}, MaxVersions <- 2,
    tuple <- ver_tuple, has_info <- ver_has_info, prev_link_ <- ver_prev_link_,
    undo_logs_ <- ver_undo_logs_, next <- ver_next, page_w <- ver_page_w, page_r <- ver_page_r,
    info_w <- ver_info_w, info_r <- ver_info_r, mutex_ <- ver_mutex_, pc <- ver_pc,
    rid <- ver_rid, seen <- ver_seen, new <- ver_new, own <- ver_own, stack <- ver_stack

Shell == INSTANCE Shells WITH
    Lines <- {<<"a", ";">>, <<"b">>, <<"\\", "a">>, <<"a", ";", "b", ";">>},
    MaxLines <- 3, MaxQuery <- 4, kind <- sh_kind, up <- sh_up, pc <- sh_pc,
    stream <- sh_stream, eof <- sh_eof, query <- sh_query, txn <- sh_txn,
    typed <- sh_typed, done <- sh_done

(***************************************************************************)
(* Scripts for the sqllogictest runner: a block with each option before a  *)
(* statement without any, and two blocks of every kind after each other,   *)
(* with and without a blank line in between.                               *)
(***************************************************************************)
Line(k) == [k |-> k]
Text(x) == [k |-> "text", x |-> x]
Blank == Line("blank")
Single(k, args) == [k |-> k, args |-> args]
Header(k, mode, opts) == [k |-> k, mode |-> mode, opts |-> opts]
Ensure(what, times) ==
    [kind |-> "ensure", what |-> what, times |-> times, proj |-> 1, agg |-> 1]

TestBlocks ==
    {<<Header("statement", mode, <<>>), Text("a")>> : mode \in {"ok", "error", "maybe"}}
    \cup {<<Header("query", mode, <<>>), Text("a"), Line("----"), Text("a"), Text("a"), Text("b")>> :
          mode \in {"nosort", "rowsort"}}
    \cup {<<Single(k, 2)>> : k \in {"halt", "include", "sleep"}}
    \cup {<<Line("no test")>>, <<Line("comment")>>, <<Text("a")>>, <<Single("halt", 1)>>,
          <<Header("query", "nosort", <<>>), Text("a")>>,
          <<Header("statement", "ok", <<>>), Text("a"), Line("----"), Single("halt", 2)>>}

OptionBlocks ==
    {<<Header("statement", "ok", <<Ensure(what, times), [kind |-> "timing"]>>), Text("a")>> :
       what \in {"index_scan", "seq_scan", "hash_join", "hash_join_no_filter", "topn",
                 "index_join", "nlj_init_check", "column-pruned"}, times \in 1..2}
    \cup {<<Header("statement", mode, <<[kind |-> kind_]>>), Text("a")>> :
            mode \in {"ok", "error"}, kind_ \in {"explain", "unsupported"}}
    \cup {<<Header("statement", mode, <<Ensure(what, 1)>>), Text("a")>> :
            mode \in {"error", "maybe"}, what \in {"topn", "unsupported"}}

TestPlans ==
    {[i \in DOMAIN nodes |-> [node |-> nodes[i], cols |-> i]] :
       nodes \in {<<"SeqScan">>, <<"Filter", "HashJoin">>, <<"HashJoin", "HashJoin">>,
                  <<"TopN", "IndexScan">>, <<"TopN", "TopN", "NestedIndexJoin">>,
                  <<"NestedLoopJoin">>, <<"Projection", "Agg">>, <<"Agg", "Projection">>}}

Does(what, rows) == [does |-> what, rows |-> rows]

TestScripts ==
    {x \o <<Blank, Header("statement", "ok", <<>>), Text("b")>> : x \in OptionBlocks}
    \cup {x \o y : x, y \in TestBlocks} \cup {x \o <<Blank>> \o y : x, y \in TestBlocks}

TestOutcomes ==
    {Does("return", <<>>), Does("return", <<Text("a"), Text("a"), Text("b")>>),
     Does("return", <<Blank, Text("a"), Text("b"), Text("a")>>),
     Does("return", <<Text("a"), Text("b"), Text("b")>>),
     Does("throw", <<>>), Does("die", <<>>)}

Tester == INSTANCE SqlLogicTest WITH
    Scripts <- TestScripts,
    Outcomes <- TestOutcomes,
    Plans <- TestPlans, DiskCounts <- {0, 1, 2},
    DiskLimits <- {[min |-> 0, max |-> 1, deletes |-> 1]}

ASSUME PartsAssumption == Versions!VersionAssumption

-----------------------------------------------------------------------------
PartNames == {"arena", "log", "memory", "versions", "sketch", "driver", "containers", "index",
              "shell", "tester"}

PartsInit ==
    /\ part \in PartNames
    /\ ArenaInit /\ LogInit /\ MemoryInit /\ Versions!Init /\ SketchInit /\ DriverInit
    /\ VectorInit /\ IndexInit /\ Shell!Init /\ Tester!Init

\* the variables of every part but this one stay as they are
Others(p) ==
    /\ IF p = "arena" THEN TRUE ELSE UNCHANGED ArenaVars
    /\ IF p = "log" THEN TRUE ELSE UNCHANGED logVars
    /\ IF p = "memory" THEN TRUE ELSE UNCHANGED memoryVars
    /\ IF p = "versions" THEN TRUE ELSE UNCHANGED versionVars
    /\ IF p = "sketch" THEN TRUE ELSE UNCHANGED sketchVars
    /\ IF p = "driver" THEN TRUE ELSE UNCHANGED driverVars
    /\ IF p = "containers" THEN TRUE ELSE UNCHANGED vectorVars
    /\ IF p = "index" THEN TRUE ELSE UNCHANGED indexVars
    /\ IF p = "shell" THEN TRUE ELSE UNCHANGED shellVars
    /\ IF p = "tester" THEN TRUE ELSE UNCHANGED testerVars

PartsNext ==
    /\ UNCHANGED part
    /\ \/ part = "arena" /\ ArenaNext
       \/ part = "log" /\ LogNext
       \/ part = "memory" /\ MemoryNext
       \/ part = "versions" /\ Versions!Next
       \/ part = "sketch" /\ SketchNext
       \/ part = "driver" /\ DriverNext
       \/ part = "containers" /\ VectorNext
       \/ part = "index" /\ IndexNext
       \/ part = "shell" /\ Shell!Next
       \/ part = "tester" /\ Tester!Next
    /\ Others(part)

AllVars ==
    <<part, ArenaVars, logVars, memoryVars, versionVars, sketchVars, driverVars,
      vectorVars, indexVars, shellVars, testerVars>>

PartsSpec == PartsInit /\ [][PartsNext]_AllVars

-----------------------------------------------------------------------------
(* VersionsAtomic: GetTupleAndUndoLink never pairs a tuple with the undo     *)
(* link of another of its versions, the chain of undo logs from a link holds *)
(* every older version, and the page latch, version_info_mutex_ and the      *)
(* page's mutex_ never leave every thread waiting for another.               *)
VersionsAtomic ==
    part = "versions" => /\ Versions!ReadsAtomic /\ Versions!ChainComplete
                         /\ ENABLED Versions!Next

(* SessionsSound: the front ends turn what is typed into queries with        *)
(* nothing lost, doubled or reordered, and a client that is gone has no      *)
(* transaction left running.                                                 *)
SessionsSound == part = "shell" => Shell!InputBecomesQueries /\ Shell!ClientsLeaveNoTxn

(* ZeroMeansAsExpected: when the sqllogictest runner exits with 0, every     *)
(* test of its script was run, in order, and did what the script says; only  *)
(* a statement that is to fail may pass on an exception of its own options.  *)
ZeroMeansAsExpected == part = "tester" => Tester!ZeroMeansAsExpected
=============================================================================
