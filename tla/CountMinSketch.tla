--------------------------- MODULE CountMinSketch ---------------------------
(***************************************************************************)
(* The count-min sketch of primer/count_min_sketch.cpp, used by several    *)
(* threads.  Insert takes the file's one Mutex for every row it            *)
(* increments; Count takes none, so it runs in between.  Merge, Clear,     *)
(* TopK and the moves take no lock either: callers run them when no other  *)
(* call is on (the tests join their threads first).  Rows are numbered     *)
(* from 1; a moved-from sketch has width and depth zero.                   *)
(***************************************************************************)
EXTENDS Integers, Sequences, FiniteSets

CONSTANTS
    Clients,
    Sketches,       \* sketch objects of equal dimensions
    Keys,
    Width, Depth,
    Hash,           \* [Keys -> [1..Depth -> 0..Width-1]]: hash_functions_
    U32,            \* 2^32
    MaxInserts      \* bound on the inserts a sketch counts

NoClient == "no thread"
SketchRows == 1..Depth
Cells == (0..(Width - 1)) \X SketchRows

ASSUME SketchAssumption ==
    /\ Width \in Nat \ {0} /\ Depth \in Nat \ {0}
    /\ Hash \in [Keys -> [SketchRows -> 0..(Width - 1)]]
    /\ U32 \in Nat /\ MaxInserts \in Nat /\ MaxInserts < U32
    /\ IsFiniteSet(Keys) /\ Keys # {} /\ Sketches # {}
    /\ IsFiniteSet(Clients) /\ NoClient \notin Clients

VARIABLES
    matrix_,        \* sketch -> cell -> counter
    alive,          \* sketches that were not moved from
    Mutex,
    step, sketch, key, row,       \* the call a thread is in
    reg,            \* counter read by ++, or the minimum of Count
    before,         \* history: inserts of the key finished when Count began
    begun, done,    \* history: sketch -> key -> inserts begun, finished
    top             \* history: what TopK returned if it was the last step

sketchVars == <<matrix_, alive, Mutex, step, sketch, key, row, reg, before, begun, done, top>>
call == <<sketch, key, row>>

SomeSketch == CHOOSE s \in Sketches : TRUE
SomeKey == CHOOSE k \in Keys : TRUE
Zero == [c \in Cells |-> 0]
NoKeys == [k \in Keys |-> 0]
NoTop == [sketch |-> NoClient, k |-> 0, result |-> <<>>]

SketchInit ==
    /\ matrix_ = [s \in Sketches |-> Zero] /\ alive = Sketches
    /\ Mutex = NoClient
    /\ step = [t \in Clients |-> "idle"]
    /\ sketch = [t \in Clients |-> SomeSketch] /\ key = [t \in Clients |-> SomeKey]
    /\ row = [t \in Clients |-> 1] /\ reg = [t \in Clients |-> 0]
    /\ before = [t \in Clients |-> 0]
    /\ begun = [s \in Sketches |-> NoKeys] /\ done = [s \in Sketches |-> NoKeys]
    /\ top = NoTop

Cell(k, j) == <<Hash[k][j], j>>

(* A call returns: its locals are gone. *)
Leave(t) ==
    /\ step' = [step EXCEPT ![t] = "idle"]
    /\ sketch' = [sketch EXCEPT ![t] = SomeSketch] /\ key' = [key EXCEPT ![t] = SomeKey]
    /\ row' = [row EXCEPT ![t] = 1] /\ reg' = [reg EXCEPT ![t] = 0]
    /\ before' = [before EXCEPT ![t] = 0]

(* The sum of f over the keys in S: one unit for each insert counted. *)
Units(f, S) == UNION {{k} \X (1..f[k]) : k \in S}
SumOf(f, S) == Cardinality(Units(f, S))

(* Inserts begun on a sketch. *)
Total(s) == SumOf(begun[s], Keys)

-----------------------------------------------------------------------------
(* Insert *)

InsertStart(t, s, k) ==
    /\ step[t] = "idle" /\ s \in alive /\ Total(s) < MaxInserts
    /\ step' = [step EXCEPT ![t] = "lock"]
    /\ sketch' = [sketch EXCEPT ![t] = s] /\ key' = [key EXCEPT ![t] = k]
    /\ row' = [row EXCEPT ![t] = 1]
    /\ begun' = [begun EXCEPT ![s][k] = @ + 1]
    /\ top' = NoTop /\ UNCHANGED <<matrix_, alive, Mutex, reg, before, done>>

MyCell(t) == Cell(key[t], row[t])

(* matrix_[hash_value][i]++ under the lock: the read ... *)
InsertRead(t) ==
    /\ step[t] = "lock" /\ Mutex = NoClient /\ Mutex' = t
    /\ reg' = [reg EXCEPT ![t] = matrix_[sketch[t]][MyCell(t)]]
    /\ step' = [step EXCEPT ![t] = "increment"]
    /\ top' = NoTop /\ UNCHANGED <<matrix_, alive, call, before, begun, done>>

(* ... and the write; then the next row, or the end. *)
InsertWrite(t) ==
    /\ step[t] = "increment" /\ Mutex' = NoClient
    /\ matrix_' = [matrix_ EXCEPT ![sketch[t]][MyCell(t)] = (reg[t] + 1) % U32]
    /\ IF row[t] = Depth
       THEN done' = [done EXCEPT ![sketch[t]][key[t]] = @ + 1] /\ Leave(t)
       ELSE /\ step' = [step EXCEPT ![t] = "lock"] /\ row' = [row EXCEPT ![t] = @ + 1]
            /\ UNCHANGED <<sketch, key, reg, before, done>>
    /\ top' = NoTop /\ UNCHANGED <<alive, begun>>

-----------------------------------------------------------------------------
(* Count: UINT32_MAX, lowered row by row *)

CountStart(t, s, k) ==
    /\ step[t] = "idle" /\ s \in alive
    /\ step' = [step EXCEPT ![t] = "count"]
    /\ sketch' = [sketch EXCEPT ![t] = s] /\ key' = [key EXCEPT ![t] = k]
    /\ row' = [row EXCEPT ![t] = 1] /\ reg' = [reg EXCEPT ![t] = U32 - 1]
    /\ before' = [before EXCEPT ![t] = done[s][k]]
    /\ top' = NoTop /\ UNCHANGED <<matrix_, alive, Mutex, begun, done>>

Lower(a, b) == IF a < b THEN a ELSE b

CountRow(t) ==
    /\ step[t] = "count"
    /\ reg' = [reg EXCEPT ![t] = Lower(matrix_[sketch[t]][MyCell(t)], @)]
    /\ IF row[t] = Depth THEN step' = [step EXCEPT ![t] = "counted"] /\ UNCHANGED row
       ELSE row' = [row EXCEPT ![t] = @ + 1] /\ UNCHANGED step
    /\ top' = NoTop /\ UNCHANGED <<matrix_, alive, Mutex, sketch, key, before, begun, done>>

CountReturn(t) ==
    /\ step[t] = "counted" /\ Leave(t)
    /\ top' = NoTop /\ UNCHANGED <<matrix_, alive, Mutex, begun, done>>

-----------------------------------------------------------------------------
(* The calls that are alone *)

Alone == \A t \in Clients : step[t] = "idle"
Quiet == top' = NoTop /\ UNCHANGED <<Mutex, step, call, reg, before>>

(* Mutant: the first column is not merged. *)
Added_NotFirst(a, b) == [c \in Cells |-> IF c[1] = 0 THEN a[c] ELSE (a[c] + b[c]) % U32]

Added(a, b) == [c \in Cells |-> (a[c] + b[c]) % U32]

(* Merge; with a moved-from sketch it throws and changes nothing. *)
Merge(d, s) ==
    /\ Alone /\ d \in alive /\ s \in alive
    /\ Total(d) + Total(s) <= MaxInserts
    /\ matrix_' = [matrix_ EXCEPT ![d] = Added(matrix_[d], matrix_[s])]
    /\ begun' = [begun EXCEPT ![d] = [k \in Keys |-> begun[d][k] + begun[s][k]]]
    /\ done' = [done EXCEPT ![d] = [k \in Keys |-> done[d][k] + done[s][k]]]
    /\ UNCHANGED alive /\ Quiet

Cleared(m) == Zero

Clear(s) ==
    /\ Alone /\ s \in alive
    /\ matrix_' = [matrix_ EXCEPT ![s] = Cleared(@)]
    /\ begun' = [begun EXCEPT ![s] = NoKeys] /\ done' = [done EXCEPT ![s] = NoKeys]
    /\ UNCHANGED alive /\ Quiet

(* d = std::move(s), d # s; d may be a moved-from sketch or a new one. *)
Move(d, s) ==
    /\ Alone /\ d # s /\ s \in alive
    /\ matrix_' = [matrix_ EXCEPT ![d] = matrix_[s], ![s] = Zero]
    /\ alive' = (alive \cup {d}) \ {s}
    /\ begun' = [begun EXCEPT ![d] = begun[s], ![s] = NoKeys]
    /\ done' = [done EXCEPT ![d] = done[s], ![s] = NoKeys]
    /\ Quiet

Minimum(S) == CHOOSE m \in S : \A n \in S : m <= n
CountOf(s, k) == Minimum({matrix_[s][Cell(k, j)] : j \in SketchRows} \cup {U32 - 1})

Ascending(a, b) == a <= b
Descending(a, b) == a >= b

Ordered(a, b) == Descending(a, b)

(* TopK over all keys: the candidates with their counts in an order std::sort *)
(* may leave, cut after k.                                                  *)
TopK(s, k) ==
    /\ Alone /\ s \in alive
    /\ \E order \in [1..Cardinality(Keys) -> Keys] :
          /\ {order[i] : i \in DOMAIN order} = Keys
          /\ \A i, j \in DOMAIN order : i < j => Ordered(CountOf(s, order[i]), CountOf(s, order[j]))
          /\ top' = [sketch |-> s, k |-> k,
                     result |-> [i \in 1..Lower(k, Len(order)) |-> <<order[i], CountOf(s, order[i])>>]]
    /\ UNCHANGED <<matrix_, alive, Mutex, step, call, reg, before, begun, done>>

SketchNext ==
    \/ \E t \in Clients : InsertRead(t) \/ InsertWrite(t) \/ CountRow(t) \/ CountReturn(t)
    \/ \E t \in Clients, s \in Sketches, k \in Keys : InsertStart(t, s, k) \/ CountStart(t, s, k)
    \/ \E d, s \in Sketches : Merge(d, s) \/ Move(d, s)
    \/ \E s \in Sketches : Clear(s)
    \/ \E s \in Sketches, k \in 1..2 : TopK(s, k)

SketchSpec == SketchInit /\ [][SketchNext]_sketchVars

-----------------------------------------------------------------------------
(* Properties *)

(* Every variable keeps its type; the counters stay below 2^32 (no         *)
(* counter wraps while a sketch holds at most MaxInserts inserts), and     *)
(* Mutex is held exactly by the thread that is between Insert's read and   *)
(* write of a counter.                                                     *)
SketchTypeOK ==
    /\ matrix_ \in [Sketches -> [Cells -> 0..MaxInserts]] /\ alive \subseteq Sketches
    /\ Mutex \in Clients \cup {NoClient}
    /\ step \in [Clients -> {"idle", "lock", "increment", "count", "counted"}]
    /\ sketch \in [Clients -> Sketches] /\ key \in [Clients -> Keys]
    /\ row \in [Clients -> SketchRows] /\ reg \in [Clients -> 0..(U32 - 1)]
    /\ before \in [Clients -> Nat]
    /\ begun \in [Sketches -> [Keys -> Nat]] /\ done \in [Sketches -> [Keys -> Nat]]
    /\ \A t \in Clients : Mutex = t <=> step[t] = "increment"

Colliding(k, j) == {l \in Keys : Hash[l][j] = Hash[k][j]}

(* The promise of a count-min sketch, kept while other threads insert:     *)
(* Count returns at least the inserts of the key that had finished when    *)
(* it was called, and at most, in each row, the inserts that had begun of  *)
(* the keys that share its counter there.                                  *)
CountBounds ==
    \A t \in Clients : step[t] = "counted" =>
        /\ reg[t] >= before[t]
        /\ \A j \in SketchRows : reg[t] <= SumOf(begun[sketch[t]], Colliding(key[t], j))

(* No increment is lost, whatever threads insert at once and after any     *)
(* Merge, Clear and move: when no call is on, the counter of a key is      *)
(* exactly the number of inserts of the keys that share it.                *)
NothingLost ==
    Alone => \A s \in alive, k \in Keys, j \in SketchRows :
        matrix_[s][Cell(k, j)] = SumOf(done[s], Colliding(k, j))

(* TopK misses no heavy key: a key that was truly inserted more often than *)
(* the last estimate in the answer is itself in the answer.                *)
HeavyKeysFound ==
    top # NoTop =>
        LET r == top.result IN
        \A k \in Keys : done[top.sketch][k] > r[Len(r)][2] => \E i \in DOMAIN r : r[i][1] = k

(* SketchesSound: a count-min sketch never estimates below the inserts that  *)
(* returned or above those that began, merging or moving sketches loses no   *)
(* count, and TopK finds the keys with the highest estimates.                *)
SketchesSound == CountBounds /\ NothingLost /\ HeavyKeysFound
=============================================================================
