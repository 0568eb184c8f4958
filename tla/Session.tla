------------------------------ MODULE Session ------------------------------
(***************************************************************************)
(* One bustub-shell session: ExecuteSql and ExecuteSqlTxn                  *)
(* (common/bustub_instance.cpp), BEGIN / COMMIT / ABORT                    *)
(* (common/bustub_ddl.cpp), the \txn command, and the transaction states   *)
(* of concurrency/transaction_manager.cpp underneath.  The session is in   *)
(* managed mode (EnableManagedTxn) and single-threaded.  A statement is    *)
(* reduced to its effect on transactions; executors, which raise           *)
(* ExecutionException and taint, are external.                             *)
(***************************************************************************)
EXTENDS Integers, Sequences, FiniteSets

CONSTANTS
    Sqls,           \* the strings typed: sequences of statements
    Commands,       \* the \txn commands typed
    MaxTxns         \* bound on the transactions begun

Statements == {"begin", "commit", "abort", "set", "query", "conflict", "error"}
TxnCommands == {"\\txn", "\\txn gc", "\\txn -1", "\\txn <id>"}

ASSUME SessionAssumption ==
    /\ MaxTxns \in Nat \ {0}
    /\ Sqls \subseteq Seq(Statements) /\ Commands \subseteq TxnCommands

TxnIds == 1..MaxTxns
nullptr == 0

VARIABLES
    state_,         \* transaction id -> state, "none" before Begin
    next_txn_id_,
    current_txn_,
    iso_lvl,        \* session variable global_isolation_level: "ok" or "unsupported"
    pc,             \* "idle", "running" or "ended" (the process has ended)
    txn, is_local_txn, todo,    \* of the ExecuteSql call
    reason,         \* why the process has ended
    managed,        \* history: transactions begun by BEGIN
    paused,         \* history: transactions the user left running on purpose
    switched,       \* history: transactions the user switched to with \txn
    dropped         \* history: transactions the exception handler left behind

txns == <<state_, next_txn_id_>>
history == <<managed, paused, switched>>
call == <<txn, is_local_txn, todo>>
vars == <<txns, current_txn_, iso_lvl, pc, call, reason, history, dropped>>

Init ==
    /\ state_ = [t \in TxnIds |-> "none"] /\ next_txn_id_ = 1
    /\ current_txn_ = nullptr /\ iso_lvl = "ok" /\ pc = "idle"
    /\ txn = nullptr /\ is_local_txn = FALSE /\ todo = <<>>
    /\ reason = "" /\ managed = {} /\ paused = {} /\ switched = {} /\ dropped = {}

Live(t) == state_[t] \in {"RUNNING", "TAINTED"}
Finished(t) == state_[t] \in {"COMMITTED", "ABORTED"}

(* TransactionManager::Begin *)
Begin ==
    /\ state_' = [state_ EXCEPT ![next_txn_id_] = "RUNNING"]
    /\ next_txn_id_' = next_txn_id_ + 1

(* Commit and Abort change the state of a transaction that may be committed *)
(* or aborted, and throw otherwise.  VerifyTxn accepts every transaction.   *)
MayCommit(t) == state_[t] = "RUNNING"

(* Mutant: Abort does not look at the state. *)
MayAbort_Any(t) == TRUE

MayAbort(t) == Live(t)

Become(t, s) == state_' = [state_ EXCEPT ![t] = s] /\ UNCHANGED next_txn_id_

-----------------------------------------------------------------------------
(* ExecuteSql *)

Begins(sql) == Cardinality({i \in DOMAIN sql : sql[i] = "begin"})

(* Without a current transaction the call runs in one of its own. *)
ExecuteSql(sql) ==
    /\ pc = "idle" /\ next_txn_id_ + Begins(sql) <= MaxTxns
    /\ pc' = "running" /\ todo' = sql
    /\ is_local_txn' = (current_txn_ # nullptr)
    /\ IF current_txn_ # nullptr
       THEN txn' = current_txn_ /\ UNCHANGED txns
       ELSE txn' = next_txn_id_ /\ Begin
    /\ UNCHANGED <<current_txn_, iso_lvl, reason, history, dropped>>

Ends(why) ==
    /\ pc' = "ended" /\ reason' = why
    /\ UNCHANGED <<txns, current_txn_, iso_lvl, call, history, dropped>>

(* The handler of bustub::Exception: Abort(txn) and forget the current      *)
(* transaction, which after a BEGIN in the string is not txn; when Abort    *)
(* itself throws, nothing more is done.                                     *)
Throw ==
    /\ pc' = "idle"
    /\ IF MayAbort(txn)
       THEN /\ Become(txn, "ABORTED") /\ current_txn_' = nullptr
            /\ dropped' = dropped \cup ({current_txn_} \ {nullptr, txn})
       ELSE UNCHANGED <<txns, current_txn_, dropped>>

(* Mutant: the transaction of the call is never committed. *)
Return_NoCommit ==
    /\ pc = "running" /\ todo = <<>>
    /\ pc' = "idle" /\ UNCHANGED <<txns, current_txn_, dropped>>
    /\ UNCHANGED <<iso_lvl, call, reason, history>>

(* All statements are done: a transaction of the call's own is committed. *)
Return ==
    /\ pc = "running" /\ todo = <<>>
    /\ IF is_local_txn THEN pc' = "idle" /\ UNCHANGED <<txns, current_txn_, dropped>>
       ELSE IF MayCommit(txn)
       THEN pc' = "idle" /\ Become(txn, "COMMITTED") /\ UNCHANGED <<current_txn_, dropped>>
       ELSE Throw
    /\ UNCHANGED <<iso_lvl, call, reason, history>>

-----------------------------------------------------------------------------
(* The statements of ExecuteSqlTxn *)

At(stmt) == pc = "running" /\ todo # <<>> /\ Head(todo) = stmt
Done == todo' = Tail(todo) /\ UNCHANGED <<pc, txn, is_local_txn, reason, dropped>>
Thrown == Throw /\ UNCHANGED <<call, reason, iso_lvl>>

(* BUSTUB_ASSERT(current_txn_ == txn) of HandleTxnStatement *)
Mismatched == current_txn_ # nullptr /\ current_txn_ # txn

TxnStatementMismatched ==
    /\ \E stmt \in {"begin", "commit", "abort"} : At(stmt)
    /\ Mismatched /\ Ends("txn mismatched??")

BeginStatement ==
    /\ At("begin") /\ ~Mismatched
    /\ IF iso_lvl = "unsupported" THEN Thrown /\ UNCHANGED history
       ELSE /\ Begin /\ current_txn_' = next_txn_id_
            /\ managed' = managed \cup {next_txn_id_}
            /\ paused' = paused \cup ({current_txn_} \ {nullptr})
            /\ Done /\ UNCHANGED <<iso_lvl, switched>>

CommitStatement ==
    /\ At("commit") /\ ~Mismatched
    /\ IF MayCommit(txn) THEN Become(txn, "COMMITTED") /\ current_txn_' = nullptr /\ Done /\ UNCHANGED iso_lvl
       ELSE Thrown
    /\ UNCHANGED history

(* Mutant: ABORT leaves the transaction but does not abort it. *)
AbortStatement_OnlyLeaves ==
    /\ At("abort") /\ ~Mismatched
    /\ current_txn_' = nullptr /\ Done /\ UNCHANGED <<txns, iso_lvl, history>>

AbortStatement ==
    /\ At("abort") /\ ~Mismatched
    /\ IF MayAbort(txn) THEN Become(txn, "ABORTED") /\ current_txn_' = nullptr /\ Done /\ UNCHANGED iso_lvl
       ELSE Thrown
    /\ UNCHANGED history

(* SET global_isolation_level = ... *)
VariableSet ==
    /\ At("set") /\ iso_lvl' \in {"ok", "unsupported"}
    /\ Done /\ UNCHANGED <<txns, current_txn_, history>>

(* A query that runs to its end, or fails with ExecutionException, which    *)
(* Execute turns into a result of false.                                    *)
Query == At("query") /\ Done /\ UNCHANGED <<txns, current_txn_, iso_lvl, history>>

(* A query whose executor taints the transaction before it fails. *)
TaintingQuery ==
    /\ At("conflict")
    /\ IF state_[txn] = "RUNNING"
       THEN Become(txn, "TAINTED") /\ Done /\ UNCHANGED <<current_txn_, iso_lvl, history>>
       ELSE Ends("transaction not in running state")

(* A statement that the binder, the planner or a handler rejects. *)
Rejected == At("error") /\ Thrown /\ UNCHANGED history

(* CmdTxn: \txn, \txn gc, \txn -1 and \txn <id> *)
TxnShow == At("\\txn") /\ Done /\ UNCHANGED <<txns, current_txn_, iso_lvl, history>>

TxnGc == At("\\txn gc") /\ Ends("not implemented")

TxnExit ==
    /\ At("\\txn -1")
    /\ IF current_txn_ = nullptr THEN Ends("current_txn_ is nullptr")
       ELSE /\ current_txn_' = nullptr /\ paused' = paused \cup {current_txn_}
            /\ Done /\ UNCHANGED <<txns, iso_lvl, managed, switched>>

TxnSwitch ==
    /\ At("\\txn <id>")
    /\ \E t \in TxnIds \cup {MaxTxns + 1} :
          IF t \in TxnIds /\ state_[t] # "none"
          THEN /\ current_txn_' = t /\ switched' = switched \cup {t}
               /\ paused' = paused \cup ({current_txn_} \ {nullptr})
               /\ UNCHANGED managed
          ELSE UNCHANGED <<current_txn_, history>>
    /\ Done /\ UNCHANGED <<txns, iso_lvl>>

Next ==
    \/ \E sql \in Sqls : ExecuteSql(sql)
    \/ \E cmd \in Commands : ExecuteSql(<<cmd>>)
    \/ Return \/ TxnStatementMismatched \/ BeginStatement \/ CommitStatement \/ AbortStatement
    \/ VariableSet \/ Query \/ TaintingQuery \/ Rejected
    \/ TxnShow \/ TxnGc \/ TxnExit \/ TxnSwitch

Spec == Init /\ [][Next]_vars

-----------------------------------------------------------------------------
States == {"none", "RUNNING", "TAINTED", "COMMITTED", "ABORTED"}

(* TypeOK: transaction ids are handed out in order, each once, and every    *)
(* pointer of the session is to a transaction that Begin made.              *)
TypeOK ==
    /\ state_ \in [TxnIds -> States] /\ next_txn_id_ \in 1..(MaxTxns + 1)
    /\ \A t \in TxnIds : state_[t] = "none" <=> t >= next_txn_id_
    /\ current_txn_ \in {nullptr} \cup TxnIds /\ txn \in {nullptr} \cup TxnIds
    /\ current_txn_ # nullptr => current_txn_ < next_txn_id_
    /\ pc = "running" => txn \in 1..(next_txn_id_ - 1)
    /\ iso_lvl \in {"ok", "unsupported"} /\ pc \in {"idle", "running", "ended"}
    /\ is_local_txn \in BOOLEAN
    /\ managed \subseteq TxnIds /\ paused \subseteq TxnIds /\ switched \subseteq TxnIds /\ dropped \subseteq TxnIds

(* OwnTxnFinished: however ExecuteSql is left (a result, an exception of a  *)
(* statement, one of Commit, one of the Abort in its handler), the          *)
(* transaction it began for itself is committed or aborted.                 *)
OwnTxnFinished ==
    pc = "idle" => \A t \in TxnIds : state_[t] = "none" \/ t \in managed \/ Finished(t)

(* NoTxnLost: a transaction that BEGIN started and nobody finished is the   *)
(* current one, or one the user paused (BEGIN, \txn): it can still be       *)
(* committed, and its tuples and its read timestamp are not held for ever.  *)
(* The one exception: when a string goes on after its BEGIN and the call    *)
(* then fails, the handler aborts the call's transaction and forgets the    *)
(* one BEGIN made.  The current transaction, unless the user switched to    *)
(* it, is one that can still be committed: nobody is left working in a      *)
(* transaction that has ended.                                              *)
NoTxnLost ==
    pc = "idle" =>
        /\ \A t \in TxnIds : Live(t) => t = current_txn_ \/ t \in paused \/ t \in dropped
        /\ current_txn_ \notin {nullptr} \cup switched => Live(current_txn_)

(* FinishedForever: a committed or aborted transaction never changes its    *)
(* state again, whatever is run, committed or aborted in it afterwards.     *)
FinishedForever ==
    [][\A t \in TxnIds : Finished(t) => state_'[t] = state_[t]]_vars
=============================================================================
