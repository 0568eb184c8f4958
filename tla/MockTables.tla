----------------------------- MODULE MockTables -----------------------------
(***************************************************************************)
(* The tables that MockScanExecutor makes up row by row                    *)
(* (execution/mock_scan_executor.cpp), without BUSTUB_ENABLE_RANDOM.       *)
(*                                                                         *)
(* A text that only has to differ from the others is its number; a text of *)
(* n equal signs is a sequence of n zeros.  MaxRows cuts off the tables    *)
(* that are longer.                                                        *)
(***************************************************************************)
EXTENDS ValueFactory, FiniteSetsExt

CONSTANT MaxRows

\* course_on_date is 1..7 in this order; the other words of the office-hour lists follow
Monday == 1
Tuesday == 2
Wednesday == 3
Thursday == 4
Friday == 5
Randomly == 8
Yesterday == 9
Never == 10
NDays == 7
GraphNodeCnt == 10

\* ta_oh_*: the office hour of each assistant, by table
OfficeHours == [
  __mock_table_tas_2022 |-> <<Tuesday, Wednesday, Monday, Wednesday, Thursday, Friday, Wednesday, Randomly, Tuesday,
                              Monday, Tuesday>>,
  __mock_table_tas_2023 |-> <<Friday, Thursday, Tuesday, Monday, Tuesday, Tuesday, Randomly, Wednesday, Thursday>>,
  __mock_table_tas_2023_fall |-> <<Randomly, Tuesday, Wednesday, Tuesday, Thursday, Tuesday, Friday, Yesterday,
                                   Friday, Friday, Never>>,
  __mock_table_tas_2024 |-> <<Friday, Thursday, Friday, Wednesday, Thursday, Yesterday, Monday, Tuesday, Tuesday,
                              Monday>>,
  __mock_table_tas_2024_fall |-> <<Wednesday, Thursday, Tuesday, Monday, Friday, Thursday, Tuesday, Friday>>,
  __mock_table_tas_2025_spring |-> <<Friday, Monday, Wednesday, Tuesday, Friday, Thursday, Monday, Tuesday>>,
  __mock_table_tas_2025_fall |-> <<Tuesday, Monday, Thursday, Friday, Tuesday, Tuesday, Friday, Wednesday>>]

\* ta_list_*: how many assistants there are
Assistants == [
  __mock_table_tas_2022 |-> 11, __mock_table_tas_2023 |-> 9, __mock_table_tas_2023_fall |-> 11,
  __mock_table_tas_2024 |-> 10, __mock_table_tas_2024_fall |-> 8, __mock_table_tas_2025_spring |-> 8,
  __mock_table_tas_2025_fall |-> 8]

Assistance == DOMAIN OfficeHours
Schedules == {"__mock_table_schedule_2022", "__mock_table_schedule"}
AggInputs == {"__mock_agg_input_small", "__mock_agg_input_big"}
Millions == {"__mock_t4_1m", "__mock_t5_1m", "__mock_t6_1m"}

MockTableList ==
  {"__mock_table_1", "__mock_table_2", "__mock_table_3", "__mock_table_4"} \union Assistance
    \union AggInputs \union {"__mock_external_merge_sort_input"} \union Schedules
    \union {"__mock_table_123", "__mock_graph", "__mock_t1"} \union Millions
    \union {"__mock_t7", "__mock_t8", "__mock_t9", "__mock_t10", "__mock_t11"}

IntColumns(names) == [i \in DOMAIN names |-> [name |-> names[i], type |-> "INTEGER"]]
TextColumns(names) == [i \in DOMAIN names |-> [name |-> names[i], type |-> "VARCHAR"]]

GetMockTableSchemaOf(t) ==
  CASE t = "__mock_table_1" -> IntColumns(<<"colA", "colB">>)
    [] t = "__mock_table_2" -> TextColumns(<<"colC", "colD">>)
    [] t = "__mock_table_3" -> IntColumns(<<"colE">>) \o TextColumns(<<"colF">>)
    [] t = "__mock_table_4" -> IntColumns(<<"colG">>) \o TextColumns(<<"colH">>)
    [] t \in Assistance     -> TextColumns(<<"github_id", "office_hour">>)
    [] t \in Schedules      -> TextColumns(<<"day_of_week">>) \o IntColumns(<<"has_lecture">>)
    [] t \in AggInputs      -> IntColumns(<<"v1", "v2", "v3", "v4", "v5">>) \o TextColumns(<<"v6">>)
    [] t = "__mock_external_merge_sort_input" -> IntColumns(<<"v1", "v2", "v3">>)
    [] t = "__mock_graph"     -> IntColumns(<<"src", "dst", "src_label", "dst_label", "distance">>)
    [] t = "__mock_table_123" -> IntColumns(<<"number">>)
    [] t = "__mock_t1"        -> IntColumns(<<"x", "y", "z">>)
    [] t = "__mock_t7"        -> IntColumns(<<"v", "v1", "v2">>)
    [] t = "__mock_t8"        -> IntColumns(<<"v4">>)
    [] t \in Millions \union {"__mock_t9", "__mock_t10", "__mock_t11"} -> IntColumns(<<"x", "y">>)

GetSizeOf(t) ==
  Min({MaxRows,
    CASE t \in Assistance       -> Assistants[t]
      [] t \in Schedules        -> NDays
      [] t = "__mock_table_123" -> 3
      [] t = "__mock_t8"        -> 10
      [] t \in {"__mock_table_1", "__mock_table_2", "__mock_table_3", "__mock_table_4"} -> 100
      [] t = "__mock_graph"     -> GraphNodeCnt * GraphNodeCnt
      [] t = "__mock_agg_input_small" -> 1000
      [] t \in {"__mock_agg_input_big", "__mock_t10"} -> 10000
      [] t = "__mock_external_merge_sort_input" -> 100000
      [] t \in Millions \union {"__mock_t1", "__mock_t7", "__mock_t11"} -> 1000000
      [] t = "__mock_t9" -> 10000000})

GetShuffled(t) == t = "__mock_t1"

\* what the instance enters in the catalog for them
GenerateMockTable ==
  [t \in MockTableList |-> [columns |-> GetMockTableSchemaOf(t), internal |-> TRUE, mock |-> TRUE, indexes |-> <<>>]]

Number(i) == IntValue("INTEGER", i)
Text(n) == VarcharValue(<<n>>)
Repeat(n) == VarcharValue([i \in 1..n |-> 0])
IntOrNull(cond, i) == IF cond THEN Number(i) ELSE NullValue("INTEGER")

(***************************************************************************)
(* GetFunctionOf: the row at the cursor                                    *)
(***************************************************************************)
AssistantsRow(t, c) == <<Text(c), Text(OfficeHours[t][c + 1])>>

ScheduleRow(t, c) ==
  LET lectures == IF t = "__mock_table_schedule_2022" THEN {1, 3} ELSE {0, 2}
  IN  <<Text(c + 1), Number(IF c \in lectures THEN 1 ELSE 0)>>

NumberedRow(t, c) ==
  CASE t = "__mock_table_1" -> <<Number(c), Number(c * 100)>>
    [] t = "__mock_table_2" -> <<Text(c), Repeat(c % 8)>>
    [] t = "__mock_table_3" -> <<IntOrNull(c % 2 = 0, c), Text(c)>>
    [] t = "__mock_table_4" ->
         <<IntOrNull(c % 5 # 0, c % 5), IF c % 10 # 0 THEN Repeat((c % 3) + 1) ELSE NullValue("VARCHAR")>>

AggInputRow(t, c) ==
  LET big == t = "__mock_agg_input_big"
  IN  <<Number((c + 2) % 10), Number(c), Number((c + 50) % 100), Number(c \div (IF big THEN 1000 ELSE 100)), Number(233),
        Repeat((c % (IF big THEN 16 ELSE 8)) + 1)>>

SortInputRow(c) == <<Number(c), Number((c + 1777) % 15000), Number((c + 3) % 111)>>

GraphRow(c) ==
  LET src == c % GraphNodeCnt
      dst == c \div GraphNodeCnt
  IN  <<Number(src), Number(dst), Number(src * 100), Number(dst * 100), IntOrNull(src # dst, 1)>>

LeaderboardRow(t, c) ==
  LET At(start) == LET d == (c + start) % 500000 IN <<Number(d), Number(d * 10)>>
  IN  CASE t = "__mock_t1"    -> <<Number(c \div 10000), Number(c % 10000), Number(c)>>
        [] t = "__mock_t4_1m" -> At(0)
        [] t = "__mock_t5_1m" -> At(30000)
        [] t = "__mock_t6_1m" -> At(60000)
        [] t = "__mock_t7"    -> <<Number(c % 20), Number(c), Number(c)>>
        [] t = "__mock_t8"    -> <<Number(c)>>
        [] t = "__mock_t9"    ->
             <<Number(c \div 10000), Number(10000000 - ((c \div 2) + ((c \div 10000) % 2) * ((c \div 2) % 2)))>>
        [] t = "__mock_t10"   -> <<Number(c), Number(c * 10)>>
        [] t = "__mock_t11"   -> <<Number(-(c % 1000) - 1), Number(c * 10)>>

GetFunctionOf(t, c) ==
  CASE t \in Assistance -> AssistantsRow(t, c)
    [] t \in Schedules  -> ScheduleRow(t, c)
    [] t \in {"__mock_table_1", "__mock_table_2", "__mock_table_3", "__mock_table_4"} -> NumberedRow(t, c)
    [] t \in AggInputs  -> AggInputRow(t, c)
    [] t = "__mock_external_merge_sort_input" -> SortInputRow(c)
    [] t = "__mock_table_123" -> <<Number(c + 1)>>
    [] t = "__mock_graph"     -> GraphRow(c)
    [] OTHER                  -> LeaderboardRow(t, c)

=============================================================================
