--------------------------- MODULE SessionProofs ---------------------------
(***************************************************************************)
(* Proofs about Session, for strings of any length and any number of       *)
(* transactions; then about three parts that share no state with it or     *)
(* with each other: Arena, ORSetDriver and LogFile.                        *)
(***************************************************************************)
EXTENDS Session, Arena, ORSetDriver, LogFile, FiniteSetTheorems, SequenceTheorems, TLAPS

(* Leaves go to the SMT solver unless they name another prover. *)
USE SMTT(30) DEF nullptr

Typed ==
    /\ TypeOK /\ todo \in Seq(Statements \cup TxnCommands)
    /\ pc = "running" => next_txn_id_ + Begins(todo) <= MaxTxns + 1
    /\ pc # "running" => next_txn_id_ <= MaxTxns + 1

(* A transaction that BEGIN did not start and that is not finished is the *)
(* call's own.                                                            *)
OwnInv ==
    \A t \in TxnIds :
        state_[t] = "none" \/ t \in managed \/ Finished(t)
        \/ (pc = "running" /\ t = txn /\ ~is_local_txn) \/ pc = "ended"

-----------------------------------------------------------------------------
(* A statement less in the string: at most as many BEGINs, and one less *)
(* when it was a BEGIN.                                                 *)
LEMMA BeginsTail ==
  ASSUME NEW S, NEW s \in Seq(S), s # <<>>
  PROVE  /\ Begins(s) \in Nat /\ Begins(Tail(s)) \in Nat
         /\ Begins(Tail(s)) <= Begins(s)
         /\ Head(s) = "begin" => Begins(Tail(s)) + 1 <= Begins(s)
<1> DEFINE A == {i \in DOMAIN s : s[i] = "begin"}
           B == {i \in DOMAIN Tail(s) : Tail(s)[i] = "begin"}
           f == [i \in B |-> i + 1]
<1>1. /\ Tail(s) \in Seq(S) /\ Len(Tail(s)) = Len(s) - 1 /\ Len(s) \in Nat
      /\ \A i \in 1..Len(Tail(s)) : Tail(s)[i] = s[i + 1]
  BY Zenon, HeadTailProperties, LenProperties
<1>2. A \subseteq 1..Len(s) /\ B \subseteq 1..(Len(s) - 1) BY <1>1
<1>3. IsFiniteSet(1..Len(s)) /\ IsFiniteSet(1..(Len(s) - 1)) BY <1>1, FS_Interval
<1>4. IsFiniteSet(A) /\ IsFiniteSet(B) BY Zenon, <1>2, <1>3, FS_Subset
<1>5. f \in Injection(B, A \ {1})
  <2>1. \A i \in B : i + 1 \in A \ {1} BY <1>1
  <2>2. f \in [B -> A \ {1}] BY Zenon, <2>1
  <2>3. \A i, j \in B : f[i] = f[j] => i = j BY <1>1
  <2> QED BY Zenon, <2>2, <2>3 DEF Injection, IsInjective
<1>6. IsFiniteSet(A \ {1}) /\ Cardinality(A \ {1}) = IF 1 \in A THEN Cardinality(A) - 1 ELSE Cardinality(A)
  BY Zenon, <1>4, FS_RemoveElement
<1>7. Cardinality(B) <= Cardinality(A \ {1})
  <2> HIDE DEF A, B, f
  <2> QED BY Zenon, <1>5, <1>6, FS_Injection
<1>8. Cardinality(A) \in Nat /\ Cardinality(B) \in Nat BY Zenon, <1>4, FS_CardinalityType
<1>9. Head(s) = "begin" => 1 \in A BY <1>1
<1> HIDE DEF A, B
<1>10. /\ Cardinality(A) \in Nat /\ Cardinality(B) \in Nat /\ Cardinality(B) <= Cardinality(A)
       /\ Head(s) = "begin" => Cardinality(B) + 1 <= Cardinality(A)
  BY <1>6, <1>7, <1>8, <1>9
<1> QED BY <1>10, Zenon DEF A, B, Begins

LEMMA MaxTxnsType == MaxTxns \in Nat \ {0}
BY Zenon, SessionAssumption

(* What is typed has statements and commands only. *)
LEMMA StringsTyped ==
  /\ \A sql \in Sqls : sql \in Seq(Statements \cup TxnCommands)
  /\ \A cmd \in Commands : <<cmd>> \in Seq(Statements \cup TxnCommands)
<1>1. \A sql \in Sqls : sql \in Seq(Statements) BY Zenon, SessionAssumption
<1>2. \A sql \in Sqls : sql \in Seq(Statements \cup TxnCommands) BY Zenon, <1>1, SeqMonotonic
<1>3. \A cmd \in Commands : cmd \in Statements \cup TxnCommands BY Zenon, SessionAssumption
<1>4. \A cmd \in Commands : <<cmd>> \in Seq(Statements \cup TxnCommands) BY <1>3
<1> QED BY Zenon, <1>2, <1>4

-----------------------------------------------------------------------------
FinishedStep == \A t \in TxnIds : Finished(t) => state_'[t] = state_[t]

IInv == Typed /\ OwnInv

(* The part of TypeOK about transactions. *)
TxnsTyped ==
    /\ state_ \in [TxnIds -> States] /\ next_txn_id_ \in 1..(MaxTxns + 1)
    /\ \A t \in TxnIds : state_[t] = "none" <=> t >= next_txn_id_

LEMMA TypedFacts ==
  ASSUME Typed
  PROVE  /\ MaxTxns \in Nat \ {0} /\ next_txn_id_ \in Nat \ {0}
         /\ pc = "running" => txn \in TxnIds /\ state_[txn] # "none"
         /\ current_txn_ # nullptr => current_txn_ \in TxnIds /\ state_[current_txn_] # "none"
<1>1. MaxTxns \in Nat \ {0} BY Zenon, MaxTxnsType
<1>2. next_txn_id_ \in 1..(MaxTxns + 1) BY Zenon DEF Typed, TypeOK
<1>3. \A t \in TxnIds : state_[t] = "none" <=> t >= next_txn_id_ BY Zenon DEF Typed, TypeOK
<1>4. pc = "running" => txn \in 1..(next_txn_id_ - 1) BY Zenon DEF Typed, TypeOK
<1>5. current_txn_ # nullptr => current_txn_ \in TxnIds /\ current_txn_ < next_txn_id_
  BY Zenon DEF Typed, TypeOK
<1>6. pc = "running" => txn \in TxnIds /\ txn < next_txn_id_ BY <1>1, <1>2, <1>4 DEF TxnIds
<1>7. \A t \in TxnIds : t < next_txn_id_ => state_[t] # "none" BY <1>1, <1>2, <1>3 DEF TxnIds
<1> QED BY <1>1, <1>2, <1>5, <1>6, <1>7

(* Begin makes one transaction more, with the next id. *)
LEMMA BeginMakes ==
  ASSUME Typed, next_txn_id_ <= MaxTxns, Begin
  PROVE  /\ next_txn_id_ \in TxnIds /\ next_txn_id_' = next_txn_id_ + 1
         /\ state_[next_txn_id_] = "none" /\ state_'[next_txn_id_] = "RUNNING"
         /\ \A t \in TxnIds \ {next_txn_id_} : state_'[t] = state_[t]
         /\ TxnsTyped'
<1>1. MaxTxns \in Nat \ {0} /\ next_txn_id_ \in Nat \ {0} BY Zenon, TypedFacts
<1>2. next_txn_id_ \in TxnIds /\ next_txn_id_' = next_txn_id_ + 1 BY <1>1 DEF Begin, TxnIds
<1>3. next_txn_id_' \in 1..(MaxTxns + 1) BY <1>1, <1>2
<1>4. state_ \in [TxnIds -> States] /\ \A t \in TxnIds : state_[t] = "none" <=> t >= next_txn_id_
  BY Zenon DEF Typed, TypeOK
<1>5. state_[next_txn_id_] = "none" BY <1>1, <1>2, <1>4
<1>6. /\ state_'[next_txn_id_] = "RUNNING" /\ state_' \in [TxnIds -> States]
      /\ \A t \in TxnIds \ {next_txn_id_} : state_'[t] = state_[t]
  BY Zenon, <1>2, <1>4 DEF Begin, States
<1>7. \A t \in TxnIds : t >= next_txn_id_' <=> t >= next_txn_id_ /\ t # next_txn_id_
  BY <1>1, <1>2 DEF TxnIds
<1>8. ASSUME NEW t \in TxnIds PROVE state_'[t] = "none" <=> t >= next_txn_id_'
  <2>1. CASE t = next_txn_id_ BY Zenon, <1>6, <1>7, <2>1
  <2>2. CASE t # next_txn_id_ BY Zenon, <1>4, <1>6, <1>7, <2>2
  <2> QED BY Zenon, <2>1, <2>2
<1> QED BY Zenon, <1>2, <1>3, <1>5, <1>6, <1>8 DEF TxnsTyped

(* A transaction that Begin made changes its state. *)
LEMMA BecomeKeeps ==
  ASSUME Typed, NEW t \in TxnIds, state_[t] # "none", NEW s \in States \ {"none"}, Become(t, s)
  PROVE  /\ state_'[t] = s /\ \A u \in TxnIds \ {t} : state_'[u] = state_[u]
         /\ next_txn_id_' = next_txn_id_ /\ TxnsTyped'
<1>1. state_ \in [TxnIds -> States] /\ \A u \in TxnIds : state_[u] = "none" <=> u >= next_txn_id_
  BY Zenon DEF Typed, TypeOK
<1>2. /\ state_'[t] = s /\ \A u \in TxnIds \ {t} : state_'[u] = state_[u]
      /\ state_' \in [TxnIds -> States] /\ next_txn_id_' = next_txn_id_
  BY Zenon, <1>1 DEF Become
<1>3. next_txn_id_ \in 1..(MaxTxns + 1) BY Zenon DEF Typed, TypeOK
<1> QED BY Zenon, <1>1, <1>2, <1>3 DEF TxnsTyped

(* A step that changes no transaction, and leaves the call or goes on in it. *)
LEMMA SameTxns ==
  ASSUME Typed, UNCHANGED txns
  PROVE  /\ state_' = state_ /\ next_txn_id_' = next_txn_id_
         /\ TxnsTyped'
BY Zenon DEF Typed, TypeOK, TxnsTyped, txns

(* What is left of the string after a statement. *)
LEMMA DoneTyped ==
  ASSUME Typed, pc = "running", todo # <<>>, Done
  PROVE  /\ pc' = "running" /\ todo' \in Seq(Statements \cup TxnCommands)
         /\ Begins(todo') \in Nat
         /\ next_txn_id_ + Begins(todo') <= MaxTxns + 1
         /\ Head(todo) = "begin" =>
               next_txn_id_ <= MaxTxns /\ next_txn_id_ + 1 + Begins(todo') <= MaxTxns + 1
<1>1. todo \in Seq(Statements \cup TxnCommands) /\ next_txn_id_ + Begins(todo) <= MaxTxns + 1
  BY Zenon DEF Typed
<1>2. todo' = Tail(todo) /\ pc' = pc BY Zenon DEF Done
<1>3. Tail(todo) \in Seq(Statements \cup TxnCommands) BY Zenon, <1>1, HeadTailProperties
<1>4. MaxTxns \in Nat \ {0} /\ next_txn_id_ \in Nat \ {0} BY Zenon, TypedFacts
<1>5. /\ Begins(todo) \in Nat /\ Begins(Tail(todo)) \in Nat
      /\ Begins(Tail(todo)) <= Begins(todo)
      /\ Head(todo) = "begin" => Begins(Tail(todo)) + 1 <= Begins(todo)
  BY Zenon, <1>1, BeginsTail
<1>6. Begins(todo') = Begins(Tail(todo)) BY Zenon, <1>2
<1> QED BY <1>1, <1>2, <1>3, <1>4, <1>5, <1>6

(* The rest of TypeOK, when the call goes on or is left. *)
LEMMA StepTyped ==
  ASSUME Typed, pc = "running", UNCHANGED <<txn, is_local_txn>>, TxnsTyped',
         next_txn_id_' = next_txn_id_ \/ next_txn_id_' = next_txn_id_ + 1,
         todo' \in Seq(Statements \cup TxnCommands), pc' \in {"idle", "running", "ended"},
         pc' = "running" => next_txn_id_' + Begins(todo') <= MaxTxns + 1,
         current_txn_' \in {nullptr} \cup TxnIds,
         current_txn_' # nullptr => current_txn_' < next_txn_id_',
         iso_lvl' \in {"ok", "unsupported"},
         managed' \subseteq TxnIds, paused' \subseteq TxnIds, switched' \subseteq TxnIds,
         dropped' \subseteq TxnIds
  PROVE  Typed'
<1>1. MaxTxns \in Nat \ {0} /\ next_txn_id_ \in Nat \ {0} BY Zenon, TypedFacts
<1>2. txn \in 1..(next_txn_id_ - 1) /\ txn \in {nullptr} \cup TxnIds /\ is_local_txn \in BOOLEAN
  BY Zenon DEF Typed, TypeOK
<1>3. txn' \in 1..(next_txn_id_' - 1) BY <1>1, <1>2
<1>4. next_txn_id_' \in 1..(MaxTxns + 1) BY Zenon DEF TxnsTyped
<1>5. next_txn_id_' <= MaxTxns + 1 BY <1>1, <1>4
<1>6. TypeOK' BY <1>2, <1>3, Zenon DEF TypeOK, TxnsTyped
<1> QED BY Zenon, <1>5, <1>6 DEF Typed

LEMMA EndsKeeps ==
  ASSUME IInv, pc = "running", NEW why, Ends(why)
  PROVE  IInv' /\ FinishedStep
<1>1. TxnsTyped' /\ state_' = state_ /\ next_txn_id_' = next_txn_id_
  BY Zenon, SameTxns DEF IInv, Ends
<1>2. Typed' BY Zenon, <1>1, StepTyped DEF IInv, Ends, call, history, Typed, TypeOK
<1>3. OwnInv' BY Zenon DEF OwnInv, Ends
<1> QED BY Zenon, <1>1, <1>2, <1>3 DEF IInv, FinishedStep

(* The handler of exceptions finishes the transaction, or finds it finished. *)
LEMMA ThrowKeeps ==
  ASSUME IInv, pc = "running", Throw, UNCHANGED <<call, iso_lvl, history>>
  PROVE  IInv' /\ FinishedStep
<1>1. txn \in TxnIds /\ state_[txn] # "none" BY Zenon, TypedFacts DEF IInv
<1>2. pc' = "idle" BY Zenon DEF Throw
<1>3. /\ todo' \in Seq(Statements \cup TxnCommands) /\ iso_lvl' \in {"ok", "unsupported"}
      /\ managed' \subseteq TxnIds /\ paused' \subseteq TxnIds /\ switched' \subseteq TxnIds
      /\ UNCHANGED <<txn, is_local_txn, managed>>
      /\ current_txn_ \in {nullptr} \cup TxnIds /\ dropped \subseteq TxnIds
  BY Zenon DEF IInv, Typed, TypeOK, call, history
<1>4. CASE MayAbort(txn)
  <2>1. /\ Become(txn, "ABORTED") /\ current_txn_' = nullptr
        /\ dropped' = dropped \cup ({current_txn_} \ {nullptr, txn})
    BY Zenon, <1>4 DEF Throw
  <2>0. dropped' \subseteq TxnIds BY Zenon, <1>3, <2>1
  <2>2. "ABORTED" \in States \ {"none"} BY Zenon DEF States
  <2>3. /\ state_'[txn] = "ABORTED" /\ \A u \in TxnIds \ {txn} : state_'[u] = state_[u]
        /\ next_txn_id_' = next_txn_id_ /\ TxnsTyped'
    BY Zenon, <1>1, <2>1, <2>2, BecomeKeeps DEF IInv
  <2>4. Typed' BY Zenon, <1>2, <1>3, <2>0, <2>1, <2>3, StepTyped DEF IInv
  <2>5. OwnInv' BY Zenon, <1>3, <2>3 DEF IInv, OwnInv, Finished
  <2>6. FinishedStep BY Zenon, <1>1, <1>4, <2>3 DEF FinishedStep, Finished, MayAbort, Live
  <2> QED BY Zenon, <2>4, <2>5, <2>6 DEF IInv
<1>5. CASE ~MayAbort(txn)
  <2>1. UNCHANGED <<txns, current_txn_, dropped>> BY Zenon, <1>5 DEF Throw
  <2>2. TxnsTyped' /\ state_' = state_ /\ next_txn_id_' = next_txn_id_ BY Zenon, <2>1, SameTxns DEF IInv
  <2>3. Typed' BY Zenon, <1>2, <1>3, <2>1, <2>2, StepTyped DEF IInv, Typed, TypeOK
  <2>4. Finished(txn)
    <3>1. state_[txn] \in States BY Zenon, <1>1 DEF IInv, Typed, TypeOK
    <3> QED BY Zenon, <1>1, <1>5, <3>1 DEF MayAbort, Live, Finished, States
  <2>5. OwnInv' BY Zenon, <1>3, <2>2, <2>4 DEF IInv, OwnInv, Finished
  <2> QED BY Zenon, <2>2, <2>3, <2>5 DEF IInv, FinishedStep
<1> QED BY Zenon, <1>4, <1>5

-----------------------------------------------------------------------------
(* A call begins in the current transaction or in one of its own. *)
LEMMA ExecuteSqlKeeps ==
  ASSUME IInv, NEW sql \in Seq(Statements \cup TxnCommands), ExecuteSql(sql)
  PROVE  IInv' /\ FinishedStep
<1>1. /\ pc = "idle" /\ pc' = "running" /\ todo' = sql /\ is_local_txn' = (current_txn_ # nullptr)
      /\ next_txn_id_ + Begins(sql) <= MaxTxns
      /\ UNCHANGED <<current_txn_, iso_lvl, managed, paused, switched, dropped>>
  BY Zenon DEF ExecuteSql, history
<1>2. MaxTxns \in Nat \ {0} /\ next_txn_id_ \in Nat \ {0} BY Zenon, TypedFacts DEF IInv
<1>3. Begins(sql) \in Nat
  <2>1. DOMAIN sql = 1..Len(sql) /\ Len(sql) \in Nat BY Zenon, LenProperties
  <2>2. IsFiniteSet(1..Len(sql)) BY <2>1, FS_Interval
  <2>3. IsFiniteSet({i \in DOMAIN sql : sql[i] = "begin"}) BY Zenon, <2>1, <2>2, FS_Subset
  <2> QED BY Zenon, <2>3, FS_CardinalityType DEF Begins
<1>4. next_txn_id_ <= MaxTxns /\ next_txn_id_ + 1 + Begins(sql) <= MaxTxns + 1
  BY <1>1, <1>2, <1>3
<1>5. /\ current_txn_ \in {nullptr} \cup TxnIds /\ (current_txn_ # nullptr => current_txn_ < next_txn_id_)
      /\ iso_lvl \in {"ok", "unsupported"} /\ is_local_txn' \in BOOLEAN
      /\ managed \subseteq TxnIds /\ paused \subseteq TxnIds /\ switched \subseteq TxnIds
      /\ dropped \subseteq TxnIds
  BY Zenon, <1>1 DEF IInv, Typed, TypeOK
<1>6. CASE current_txn_ # nullptr
  <2>1. txn' = current_txn_ /\ UNCHANGED txns BY Zenon, <1>6 DEF ExecuteSql
  <2>2. TxnsTyped' /\ state_' = state_ /\ next_txn_id_' = next_txn_id_ BY Zenon, <2>1, SameTxns DEF IInv
  <2>3. txn' \in 1..(next_txn_id_' - 1) BY <1>2, <1>5, <1>6, <2>1, <2>2 DEF TxnIds
  <2>4. TypeOK' BY Zenon, <1>1, <1>5, <2>1, <2>2, <2>3 DEF TypeOK, TxnsTyped
  <2>5. next_txn_id_' + Begins(sql) <= MaxTxns + 1 BY <1>2, <1>3, <1>4, <2>2
  <2>6. Typed' BY Zenon, <1>1, <2>4, <2>5 DEF Typed
  <2>7. OwnInv' BY Zenon, <1>1, <2>2 DEF IInv, OwnInv, Finished
  <2> QED BY Zenon, <2>2, <2>6, <2>7 DEF IInv, FinishedStep
<1>7. CASE current_txn_ = nullptr
  <2>1. txn' = next_txn_id_ /\ Begin /\ is_local_txn' = FALSE BY <1>1, <1>7, Zenon DEF ExecuteSql
  <2>2. /\ next_txn_id_ \in TxnIds /\ next_txn_id_' = next_txn_id_ + 1 /\ TxnsTyped'
        /\ state_[next_txn_id_] = "none" /\ state_'[next_txn_id_] = "RUNNING"
        /\ \A t \in TxnIds \ {next_txn_id_} : state_'[t] = state_[t]
    BY Zenon, <1>4, <2>1, BeginMakes DEF IInv
  <2>3. txn' \in 1..(next_txn_id_' - 1) /\ txn' \in TxnIds BY <1>2, <2>1, <2>2
  <2>4. TypeOK' BY Zenon, <1>1, <1>5, <1>7, <2>2, <2>3 DEF TypeOK, TxnsTyped
  <2>5. next_txn_id_' + Begins(sql) <= MaxTxns + 1 BY Zenon, <1>2, <1>3, <1>4, <2>2
  <2>6. Typed' BY Zenon, <1>1, <2>4, <2>5 DEF Typed
  <2>7. OwnInv' BY Zenon, <1>1, <2>1, <2>2 DEF IInv, OwnInv, Finished
  <2> QED BY Zenon, <2>2, <2>6, <2>7 DEF IInv, FinishedStep, Finished
<1> QED BY Zenon, <1>6, <1>7

(* The call's own transaction is committed, or aborted by the handler. *)
LEMMA ReturnKeeps ==
  ASSUME IInv, Return
  PROVE  IInv' /\ FinishedStep
<1>1. pc = "running" /\ todo = <<>> /\ UNCHANGED <<iso_lvl, call, reason, history>> BY Zenon DEF Return
<1>2. txn \in TxnIds /\ state_[txn] # "none" BY Zenon, <1>1, TypedFacts DEF IInv
<1>3. /\ todo' \in Seq(Statements \cup TxnCommands) /\ iso_lvl' \in {"ok", "unsupported"}
      /\ managed' \subseteq TxnIds /\ paused' \subseteq TxnIds /\ switched' \subseteq TxnIds
      /\ UNCHANGED <<txn, is_local_txn, managed>> /\ dropped \subseteq TxnIds
  BY Zenon, <1>1 DEF IInv, Typed, TypeOK, call, history
<1>4. CASE is_local_txn
  <2>1. pc' = "idle" /\ UNCHANGED <<txns, current_txn_, dropped>> BY Zenon, <1>4 DEF Return
  <2>2. TxnsTyped' /\ state_' = state_ /\ next_txn_id_' = next_txn_id_ BY Zenon, <2>1, SameTxns DEF IInv
  <2>3. Typed' BY Zenon, <1>1, <1>3, <2>1, <2>2, StepTyped DEF IInv, Typed, TypeOK
  <2>4. OwnInv' BY Zenon, <1>1, <1>3, <1>4, <2>2 DEF IInv, OwnInv, Finished
  <2> QED BY Zenon, <2>2, <2>3, <2>4 DEF IInv, FinishedStep
<1>5. CASE ~is_local_txn /\ MayCommit(txn)
  <2>1. pc' = "idle" /\ Become(txn, "COMMITTED") /\ UNCHANGED <<current_txn_, dropped>>
    BY Zenon, <1>5 DEF Return
  <2>2. "COMMITTED" \in States \ {"none"} BY Zenon DEF States
  <2>3. /\ state_'[txn] = "COMMITTED" /\ \A u \in TxnIds \ {txn} : state_'[u] = state_[u]
        /\ next_txn_id_' = next_txn_id_ /\ TxnsTyped'
    BY Zenon, <1>2, <2>1, <2>2, BecomeKeeps DEF IInv
  <2>4. current_txn_' \in {nullptr} \cup TxnIds /\ (current_txn_' # nullptr => current_txn_' < next_txn_id_')
    BY Zenon, <2>1, <2>3 DEF IInv, Typed, TypeOK
  <2>5. Typed' BY Zenon, <1>1, <1>3, <2>1, <2>3, <2>4, StepTyped DEF IInv
  <2>6. OwnInv' BY Zenon, <1>1, <1>3, <2>3 DEF IInv, OwnInv, Finished
  <2>7. FinishedStep BY Zenon, <1>2, <1>5, <2>3 DEF FinishedStep, Finished, MayCommit
  <2> QED BY Zenon, <2>5, <2>6, <2>7 DEF IInv
<1>6. CASE ~is_local_txn /\ ~MayCommit(txn) BY Zenon, <1>1, <1>6, ThrowKeeps DEF Return
<1> QED BY Zenon, <1>4, <1>5, <1>6

(* A statement that changes no transaction. *)
LEMMA QuietKeeps ==
  ASSUME IInv, pc = "running", todo # <<>>, Done, UNCHANGED <<txns, managed>>,
         current_txn_' \in {nullptr} \cup TxnIds,
         current_txn_' # nullptr => current_txn_' < next_txn_id_,
         iso_lvl' \in {"ok", "unsupported"}, paused' \subseteq TxnIds, switched' \subseteq TxnIds
  PROVE  IInv' /\ FinishedStep
<1>1. TxnsTyped' /\ state_' = state_ /\ next_txn_id_' = next_txn_id_ BY Zenon, SameTxns DEF IInv
<1>2. /\ pc' = "running" /\ todo' \in Seq(Statements \cup TxnCommands)
      /\ next_txn_id_ + Begins(todo') <= MaxTxns + 1
  BY Zenon, DoneTyped DEF IInv
<1>3. UNCHANGED <<txn, is_local_txn>> BY Zenon DEF Done
<1>4. managed' \subseteq TxnIds /\ dropped' \subseteq TxnIds BY Zenon DEF IInv, Typed, TypeOK, Done
<1>5. Typed' BY Zenon, <1>1, <1>2, <1>3, <1>4, StepTyped DEF IInv
<1>6. OwnInv' BY Zenon, <1>1, <1>2, <1>3 DEF IInv, OwnInv, Finished
<1> QED BY Zenon, <1>1, <1>5, <1>6 DEF IInv, FinishedStep

(* COMMIT, ABORT and a conflict change the state of the call's transaction. *)
LEMMA ChangeKeeps ==
  ASSUME IInv, pc = "running", todo # <<>>, Done, NEW s \in States \ {"none"}, Become(txn, s),
         Live(txn),
         current_txn_' = nullptr \/ current_txn_' = current_txn_, UNCHANGED <<iso_lvl, history>>
  PROVE  IInv' /\ FinishedStep
<1>1. txn \in TxnIds /\ state_[txn] # "none" BY Zenon, TypedFacts DEF IInv
<1>2. /\ state_'[txn] = s /\ \A u \in TxnIds \ {txn} : state_'[u] = state_[u]
      /\ next_txn_id_' = next_txn_id_ /\ TxnsTyped'
  BY Zenon, <1>1, BecomeKeeps DEF IInv
<1>3. /\ pc' = "running" /\ todo' \in Seq(Statements \cup TxnCommands)
      /\ next_txn_id_ + Begins(todo') <= MaxTxns + 1
  BY Zenon, DoneTyped DEF IInv
<1>4. UNCHANGED <<txn, is_local_txn>> BY Zenon DEF Done
<1>0. dropped' \subseteq TxnIds BY Zenon DEF IInv, Typed, TypeOK, Done
<1>5. /\ managed' \subseteq TxnIds /\ paused' \subseteq TxnIds /\ switched' \subseteq TxnIds
      /\ iso_lvl' \in {"ok", "unsupported"} /\ UNCHANGED managed
      /\ current_txn_' \in {nullptr} \cup TxnIds /\ (current_txn_' # nullptr => current_txn_' < next_txn_id_')
  BY Zenon, <1>2 DEF IInv, Typed, TypeOK, history
<1>6. Typed' BY Zenon, <1>0, <1>2, <1>3, <1>4, <1>5, StepTyped DEF IInv
<1>7. OwnInv'
  <2> SUFFICES ASSUME NEW t \in TxnIds
               PROVE  state_'[t] = "none" \/ t \in managed' \/ Finished(t)'
                      \/ (pc' = "running" /\ t = txn' /\ ~is_local_txn') \/ pc' = "ended"
    BY Zenon DEF OwnInv
  <2>1. CASE t # txn BY Zenon, <1>2, <1>4, <1>5, <2>1 DEF IInv, OwnInv, Finished
  <2>2. CASE t = txn
    <3>1. t \in managed \/ ~is_local_txn BY Zenon, <1>1, <2>2 DEF IInv, OwnInv, Finished, Live
    <3> QED BY Zenon, <1>3, <1>4, <1>5, <2>2, <3>1
  <2> QED BY Zenon, <2>1, <2>2
<1>8. FinishedStep BY Zenon, <1>2 DEF FinishedStep, Finished, Live
<1> QED BY Zenon, <1>6, <1>7, <1>8 DEF IInv

LEMMA BeginStatementKeeps ==
  ASSUME IInv, BeginStatement
  PROVE  IInv' /\ FinishedStep
<1>1. pc = "running" /\ todo # <<>> /\ Head(todo) = "begin" BY Zenon DEF BeginStatement, At
<1>2. CASE iso_lvl = "unsupported" BY Zenon, <1>1, <1>2, ThrowKeeps DEF BeginStatement, Thrown
<1>3. CASE iso_lvl # "unsupported"
  <2>1. /\ Begin /\ current_txn_' = next_txn_id_ /\ managed' = managed \cup {next_txn_id_}
        /\ paused' = paused \cup ({current_txn_} \ {nullptr}) /\ Done /\ UNCHANGED <<iso_lvl, switched>>
    BY Zenon, <1>3 DEF BeginStatement
  <2>2. /\ pc' = "running" /\ todo' \in Seq(Statements \cup TxnCommands) /\ Begins(todo') \in Nat
        /\ next_txn_id_ <= MaxTxns /\ next_txn_id_ + 1 + Begins(todo') <= MaxTxns + 1
    BY Zenon, <1>1, <2>1, DoneTyped DEF IInv
  <2>3. /\ next_txn_id_ \in TxnIds /\ next_txn_id_' = next_txn_id_ + 1 /\ TxnsTyped'
        /\ state_[next_txn_id_] = "none" /\ state_'[next_txn_id_] = "RUNNING"
        /\ \A t \in TxnIds \ {next_txn_id_} : state_'[t] = state_[t]
    BY Zenon, <2>1, <2>2, BeginMakes DEF IInv
  <2>4. UNCHANGED <<txn, is_local_txn>> BY Zenon, <2>1 DEF Done
  <2>5. /\ managed' \subseteq TxnIds /\ paused' \subseteq TxnIds /\ switched' \subseteq TxnIds
        /\ iso_lvl' \in {"ok", "unsupported"} /\ dropped' \subseteq TxnIds
    BY Zenon, <2>1, <2>3 DEF IInv, Typed, TypeOK, Done
  <2>6. current_txn_' < next_txn_id_' /\ current_txn_' \in TxnIds BY <2>1, <2>3 DEF TxnIds
  <2>7. Typed' BY Zenon, <1>1, <2>2, <2>3, <2>4, <2>5, <2>6, StepTyped DEF IInv
  <2>8. OwnInv' BY Zenon, <1>1, <2>1, <2>2, <2>3, <2>4 DEF IInv, OwnInv, Finished
  <2> QED BY Zenon, <2>3, <2>7, <2>8 DEF IInv, FinishedStep, Finished
<1> QED BY Zenon, <1>2, <1>3

LEMMA NextKeeps ==
  ASSUME IInv, [Next]_vars
  PROVE  IInv' /\ FinishedStep
<1>1. ASSUME NEW sql \in Sqls, ExecuteSql(sql) PROVE IInv' /\ FinishedStep
  BY Zenon, <1>1, StringsTyped, ExecuteSqlKeeps
<1>2. ASSUME NEW cmd \in Commands, ExecuteSql(<<cmd>>) PROVE IInv' /\ FinishedStep
  BY Zenon, <1>2, StringsTyped, ExecuteSqlKeeps
<1>3. CASE Return BY Zenon, <1>3, ReturnKeeps
<1>4. CASE TxnStatementMismatched BY <1>4, EndsKeeps, Zenon DEF TxnStatementMismatched, At
<1>5. CASE BeginStatement BY Zenon, <1>5, BeginStatementKeeps
<1>6. CASE CommitStatement
  <2>1. pc = "running" /\ todo # <<>> /\ UNCHANGED history BY Zenon, <1>6 DEF CommitStatement, At
  <2>2. CASE MayCommit(txn)
    <3>1. /\ Become(txn, "COMMITTED") /\ current_txn_' = nullptr /\ Done /\ UNCHANGED iso_lvl
      BY Zenon, <1>6, <2>2 DEF CommitStatement
    <3>2. "COMMITTED" \in States \ {"none"} /\ Live(txn) BY Zenon, <2>2 DEF States, MayCommit, Live
    <3> QED BY Zenon, <2>1, <3>1, <3>2, ChangeKeeps
  <2>3. CASE ~MayCommit(txn) BY Zenon, <1>6, <2>1, <2>3, ThrowKeeps DEF CommitStatement, Thrown
  <2> QED BY Zenon, <2>2, <2>3
<1>7. CASE AbortStatement
  <2>1. pc = "running" /\ todo # <<>> /\ UNCHANGED history BY Zenon, <1>7 DEF AbortStatement, At
  <2>2. CASE MayAbort(txn)
    <3>1. /\ Become(txn, "ABORTED") /\ current_txn_' = nullptr /\ Done /\ UNCHANGED iso_lvl
      BY Zenon, <1>7, <2>2 DEF AbortStatement
    <3>2. "ABORTED" \in States \ {"none"} /\ Live(txn) BY Zenon, <2>2 DEF States, MayAbort
    <3> QED BY Zenon, <2>1, <3>1, <3>2, ChangeKeeps
  <2>3. CASE ~MayAbort(txn) BY Zenon, <1>7, <2>1, <2>3, ThrowKeeps DEF AbortStatement, Thrown
  <2> QED BY Zenon, <2>2, <2>3
<1>8. CASE VariableSet BY Zenon, <1>8, QuietKeeps DEF VariableSet, At, history, IInv, Typed, TypeOK
<1>9. CASE Query BY Zenon, <1>9, QuietKeeps DEF Query, At, history, IInv, Typed, TypeOK
<1>10. CASE TaintingQuery
  <2>1. pc = "running" /\ todo # <<>> BY <1>10, Zenon DEF TaintingQuery, At
  <2>2. CASE state_[txn] = "RUNNING"
    <3>1. /\ Become(txn, "TAINTED") /\ Done /\ UNCHANGED <<current_txn_, iso_lvl, history>>
      BY Zenon, <1>10, <2>2 DEF TaintingQuery
    <3>2. "TAINTED" \in States \ {"none"} /\ Live(txn) BY Zenon, <2>2 DEF States, Live
    <3> QED BY Zenon, <2>1, <3>1, <3>2, ChangeKeeps
  <2>3. CASE state_[txn] # "RUNNING" BY <1>10, <2>1, <2>3, EndsKeeps, Zenon DEF TaintingQuery
  <2> QED BY Zenon, <2>2, <2>3
<1>11. CASE Rejected BY Zenon, <1>11, ThrowKeeps DEF Rejected, Thrown, At
<1>12. CASE TxnShow BY Zenon, <1>12, QuietKeeps DEF TxnShow, At, history, IInv, Typed, TypeOK
<1>13. CASE TxnGc BY <1>13, EndsKeeps, Zenon DEF TxnGc, At
<1>14. CASE TxnExit
  <2>1. pc = "running" /\ todo # <<>> BY <1>14, Zenon DEF TxnExit, At
  <2>2. CASE current_txn_ = nullptr BY <1>14, <2>1, <2>2, EndsKeeps, Zenon DEF TxnExit
  <2>3. CASE current_txn_ # nullptr
    BY <1>14, <2>1, <2>3, QuietKeeps, Zenon DEF TxnExit, IInv, Typed, TypeOK
  <2> QED BY Zenon, <2>2, <2>3
<1>15. CASE TxnSwitch
  <2>1. pc = "running" /\ todo # <<>> /\ Done /\ UNCHANGED <<txns, iso_lvl>> BY <1>15, Zenon DEF TxnSwitch, At
  <2>2. PICK t \in TxnIds \cup {MaxTxns + 1} :
          IF t \in TxnIds /\ state_[t] # "none"
          THEN /\ current_txn_' = t /\ switched' = switched \cup {t}
               /\ paused' = paused \cup ({current_txn_} \ {nullptr})
               /\ UNCHANGED managed
          ELSE UNCHANGED <<current_txn_, history>>
    BY <1>15, Zenon DEF TxnSwitch
  <2>3. CASE t \in TxnIds /\ state_[t] # "none"
    <3>1. t < next_txn_id_
      <4>1. MaxTxns \in Nat \ {0} /\ next_txn_id_ \in Nat \ {0} BY Zenon, TypedFacts DEF IInv
      <4>2. ~(t >= next_txn_id_) BY Zenon, <2>3 DEF IInv, Typed, TypeOK
      <4> QED BY <2>3, <4>1, <4>2 DEF TxnIds
    <3> QED BY Zenon, <2>1, <2>2, <2>3, <3>1, QuietKeeps DEF IInv, Typed, TypeOK
  <2>4. CASE ~(t \in TxnIds /\ state_[t] # "none")
    BY Zenon, <2>1, <2>2, <2>4, QuietKeeps DEF IInv, Typed, TypeOK, history
  <2> QED BY Zenon, <2>3, <2>4
<1>16. CASE UNCHANGED vars
  <2>1. Typed' BY Zenon, <1>16 DEF vars, txns, call, history, IInv, Typed, TypeOK, Begins
  <2>2. OwnInv' BY Zenon, <1>16 DEF vars, txns, call, history, IInv, OwnInv, Finished
  <2>3. FinishedStep BY Zenon, <1>16 DEF vars, txns, FinishedStep
  <2> QED BY Zenon, <2>1, <2>2, <2>3 DEF IInv
<1> QED BY Zenon, <1>1, <1>2, <1>3, <1>4, <1>5, <1>6, <1>7, <1>8, <1>9, <1>10, <1>11, <1>12, <1>13, <1>14,
           <1>15, <1>16 DEF Next

LEMMA InitIInv ==
  ASSUME Init
  PROVE  IInv
<1>1. MaxTxns \in Nat \ {0} BY Zenon, MaxTxnsType
<1>2. next_txn_id_ = 1 /\ pc = "idle" /\ todo = <<>> BY Zenon DEF Init
<1>3. next_txn_id_ \in 1..(MaxTxns + 1) /\ next_txn_id_ <= MaxTxns + 1 BY <1>1, <1>2
<1>4. \A t \in TxnIds : state_[t] = "none" /\ t >= next_txn_id_
  <2>1. \A t \in TxnIds : state_[t] = "none" BY Zenon DEF Init
  <2>2. \A t \in TxnIds : t >= 1 BY <1>1 DEF TxnIds
  <2> QED BY Zenon, <1>2, <2>1, <2>2
<1>5. TypeOK BY <1>2, <1>3, <1>4, Zenon DEF Init, TypeOK, States
<1>6. Typed BY <1>2, <1>3, <1>5 DEF Typed
<1>7. OwnInv BY Zenon, <1>4 DEF OwnInv
<1> QED BY Zenon, <1>6, <1>7 DEF IInv

LEMMA IInvHolds == Spec => []IInv
BY InitIInv, NextKeeps, PTL DEF Spec

(* For any strings typed: however ExecuteSql is left, the transaction it    *)
(* began for itself is committed or aborted.                                *)
THEOREM OwnTxnAlwaysFinished == Spec => []OwnTxnFinished
<1>1. IInv => OwnTxnFinished BY Zenon DEF IInv, OwnInv, OwnTxnFinished
<1> QED BY IInvHolds, <1>1, PTL

(* For any strings typed: no statement, handler or command changes the      *)
(* state of a transaction that Commit or Abort has finished.                *)
THEOREM FinishedStays == Spec => FinishedForever
<1>1. IInv /\ [Next]_vars => [\A t \in TxnIds : Finished(t) => state_'[t] = state_[t]]_vars
  BY Zenon, NextKeeps DEF FinishedStep
<1> QED BY IInvHolds, <1>1, PTL DEF Spec, FinishedForever

-----------------------------------------------------------------------------
(* A transaction that can still be committed is accounted for; while a call *)
(* runs, its own may be too.  The call's own is the current one only when   *)
(* the user switched to it.                                                 *)
LostInv ==
    pc # "ended" =>
        /\ \A t \in TxnIds : Live(t) =>
              \/ t = current_txn_ \/ t \in paused \/ t \in dropped
              \/ (pc = "running" /\ t = txn /\ ~is_local_txn)
        /\ current_txn_ \notin {nullptr} \cup switched => Live(current_txn_)
        /\ pc = "running" /\ ~is_local_txn /\ current_txn_ = txn => current_txn_ \in switched

LEMMA TxnIsNoNull == \A t \in TxnIds : t # nullptr
BY MaxTxnsType DEF TxnIds

(* The exception handler ends the call's transaction; another one that was  *)
(* current is dropped.                                                      *)
LEMMA ThrowLost ==
  ASSUME IInv, LostInv, pc = "running", Throw, UNCHANGED <<call, history>>
  PROVE  LostInv'
<1>1. txn \in TxnIds /\ state_[txn] # "none" /\ pc' = "idle" BY Zenon, TypedFacts DEF IInv, Throw
<1>2. UNCHANGED <<paused, switched>> BY Zenon DEF history
<1>3. CASE MayAbort(txn)
  <2>1. /\ Become(txn, "ABORTED") /\ current_txn_' = nullptr
        /\ dropped' = dropped \cup ({current_txn_} \ {nullptr, txn})
    BY Zenon, <1>3 DEF Throw
  <2>2. "ABORTED" \in States \ {"none"} BY Zenon DEF States
  <2>3. state_'[txn] = "ABORTED" /\ \A u \in TxnIds \ {txn} : state_'[u] = state_[u]
    BY Zenon, <1>1, <2>1, <2>2, BecomeKeeps DEF IInv
  <2>4. \A t \in TxnIds \ {txn} : Live(t) => t \in paused \/ t \in dropped'
    BY Zenon, <2>1, TxnIsNoNull DEF LostInv
  <2> QED BY Zenon, <1>1, <1>2, <2>1, <2>3, <2>4 DEF LostInv, Live
<1>4. CASE ~MayAbort(txn)
  <2>1. UNCHANGED <<state_, current_txn_, dropped>> BY Zenon, <1>4 DEF Throw, txns
  <2> QED BY Zenon, <1>1, <1>2, <1>4, <2>1 DEF LostInv, Live, MayAbort
<1> QED BY Zenon, <1>3, <1>4

LEMMA EndsLost ==
  ASSUME NEW why, Ends(why)
  PROVE  LostInv'
BY Zenon DEF Ends, LostInv

LEMMA ExecuteSqlLost ==
  ASSUME IInv, LostInv, NEW sql \in Seq(Statements \cup TxnCommands), ExecuteSql(sql)
  PROVE  LostInv'
<1>1. /\ pc = "idle" /\ pc' = "running" /\ is_local_txn' = (current_txn_ # nullptr)
      /\ UNCHANGED <<current_txn_, paused, switched, dropped>>
  BY Zenon DEF ExecuteSql, history
<1>2. current_txn_ # nullptr => current_txn_ \in TxnIds /\ state_[current_txn_] # "none"
  BY Zenon, TypedFacts DEF IInv
<1>3. /\ \A t \in TxnIds : Live(t) => t = current_txn_ \/ t \in paused \/ t \in dropped
      /\ current_txn_ \notin {nullptr} \cup switched => Live(current_txn_)
  BY Zenon, <1>1 DEF LostInv
<1>4. CASE current_txn_ # nullptr
  <2>1. state_' = state_ /\ is_local_txn' = TRUE BY <1>1, <1>4, Zenon DEF ExecuteSql, txns
  <2> QED BY Zenon, <1>1, <1>3, <2>1 DEF LostInv, Live
<1>5. CASE current_txn_ = nullptr
  <2>1. txn' = next_txn_id_ /\ Begin /\ is_local_txn' = FALSE BY <1>1, <1>5, Zenon DEF ExecuteSql
  <2>2. next_txn_id_ <= MaxTxns
    <3>1. IInv' BY Zenon, ExecuteSqlKeeps
    <3>2. next_txn_id_' = next_txn_id_ + 1 /\ next_txn_id_' \in 1..(MaxTxns + 1)
      BY Zenon, <2>1, <3>1 DEF Begin, IInv, Typed, TypeOK
    <3>3. MaxTxns \in Nat \ {0} /\ next_txn_id_ \in Nat \ {0} BY Zenon, TypedFacts DEF IInv
    <3> QED BY <3>2, <3>3
  <2>3. next_txn_id_ \in TxnIds /\ \A t \in TxnIds \ {next_txn_id_} : state_'[t] = state_[t]
    BY Zenon, <2>1, <2>2, BeginMakes DEF IInv
  <2> QED BY Zenon, <1>1, <1>3, <1>5, <2>1, <2>3, TxnIsNoNull DEF LostInv, Live
<1> QED BY Zenon, <1>4, <1>5

(* The call ends, and with it a transaction of its own. *)
LEMMA ReturnLost ==
  ASSUME IInv, LostInv, Return
  PROVE  LostInv'
<1>1. pc = "running" /\ UNCHANGED <<call, history, paused, switched>> BY Zenon DEF Return, history
<1>2. txn \in TxnIds /\ state_[txn] # "none" BY Zenon, <1>1, TypedFacts DEF IInv
<1>3. CASE is_local_txn
  <2>1. pc' = "idle" /\ UNCHANGED <<state_, current_txn_, dropped>> BY Zenon, <1>3 DEF Return, txns
  <2> QED BY Zenon, <1>1, <1>3, <2>1 DEF LostInv, Live
<1>4. CASE ~is_local_txn /\ MayCommit(txn)
  <2>1. pc' = "idle" /\ Become(txn, "COMMITTED") /\ UNCHANGED <<current_txn_, dropped>>
    BY Zenon, <1>4 DEF Return
  <2>2. "COMMITTED" \in States \ {"none"} BY Zenon DEF States
  <2>3. state_'[txn] = "COMMITTED" /\ \A u \in TxnIds \ {txn} : state_'[u] = state_[u]
    BY Zenon, <1>2, <2>1, <2>2, BecomeKeeps DEF IInv
  <2>4. \A t \in TxnIds : state_'[t] \in {"RUNNING", "TAINTED"} =>
            t = current_txn_ \/ t \in paused \/ t \in dropped
    BY Zenon, <1>1, <2>3 DEF Live, LostInv
  <2>5. current_txn_ \notin {nullptr} \cup switched => state_'[current_txn_] \in {"RUNNING", "TAINTED"}
    <3>1. current_txn_ = txn => current_txn_ \in switched BY Zenon, <1>1, <1>4 DEF LostInv
    <3>2. current_txn_ # nullptr => current_txn_ \in TxnIds BY Zenon, TypedFacts DEF IInv
    <3> QED BY Zenon, <1>1, <2>3, <3>1, <3>2 DEF Live, LostInv
  <2> QED BY Zenon, <1>1, <2>1, <2>4, <2>5 DEF LostInv, Live
<1>5. CASE ~is_local_txn /\ ~MayCommit(txn) BY Zenon, <1>1, <1>5, ThrowLost DEF Return
<1> QED BY Zenon, <1>3, <1>4, <1>5

LEMMA BeginStatementLost ==
  ASSUME IInv, LostInv, BeginStatement
  PROVE  LostInv'
<1>1. pc = "running" /\ todo # <<>> /\ Head(todo) = "begin" BY Zenon DEF BeginStatement, At
<1>2. CASE iso_lvl = "unsupported" BY Zenon, <1>1, <1>2, ThrowLost DEF BeginStatement, Thrown
<1>3. CASE iso_lvl # "unsupported"
  <2>1. /\ Begin /\ current_txn_' = next_txn_id_ /\ paused' = paused \cup ({current_txn_} \ {nullptr})
        /\ Done /\ UNCHANGED <<iso_lvl, switched>>
    BY Zenon, <1>3 DEF BeginStatement
  <2>2. next_txn_id_ <= MaxTxns BY Zenon, <1>1, <2>1, DoneTyped DEF IInv
  <2>3. /\ next_txn_id_ \in TxnIds /\ state_[next_txn_id_] = "none" /\ state_'[next_txn_id_] = "RUNNING"
        /\ \A t \in TxnIds \ {next_txn_id_} : state_'[t] = state_[t]
    BY Zenon, <2>1, <2>2, BeginMakes DEF IInv
  <2>4. txn \in TxnIds /\ state_[txn] # "none" BY Zenon, <1>1, TypedFacts DEF IInv
  <2>5. pc' = "running" /\ UNCHANGED <<txn, is_local_txn, dropped>> BY Zenon, <1>1, <2>1 DEF Done
  <2>6. current_txn_' # txn' BY Zenon, <2>1, <2>3, <2>4, <2>5
  <2>7. \A t \in TxnIds : state_'[t] \in {"RUNNING", "TAINTED"} =>
           t = current_txn_' \/ t \in paused' \/ t \in dropped' \/ (t = txn' /\ ~is_local_txn')
    BY Zenon, <1>1, <2>1, <2>3, <2>5, TxnIsNoNull DEF Live, LostInv
  <2> QED BY Zenon, <2>1, <2>3, <2>5, <2>6, <2>7 DEF LostInv, Live
<1> QED BY Zenon, <1>2, <1>3

(* COMMIT and ABORT. *)
LEMMA FinishLost ==
  ASSUME IInv, LostInv, pc = "running", todo # <<>>, Done, NEW s \in {"COMMITTED", "ABORTED"},
         Become(txn, s), current_txn_ \in {nullptr, txn}, current_txn_' = nullptr, UNCHANGED history
  PROVE  LostInv'
<1>1. txn \in TxnIds /\ state_[txn] # "none" BY Zenon, TypedFacts DEF IInv
<1>2. s \in States \ {"none"} BY Zenon DEF States
<1>3. state_'[txn] = s /\ \A u \in TxnIds \ {txn} : state_'[u] = state_[u]
  BY Zenon, <1>1, <1>2, BecomeKeeps DEF IInv
<1>4. pc' = "running" /\ UNCHANGED <<txn, is_local_txn, paused, dropped>> BY Zenon DEF Done, history
<1>5. \A t \in TxnIds \ {txn} : Live(t) => t \in paused \/ t \in dropped BY Zenon, TxnIsNoNull DEF LostInv
<1> QED BY Zenon, <1>1, <1>3, <1>4, <1>5, TxnIsNoNull DEF LostInv, Live

(* SET, queries and \txn change nothing here. *)
LEMMA QuietLost ==
  ASSUME LostInv, pc = "running", Done, UNCHANGED <<txns, current_txn_, history>>
  PROVE  LostInv'
<1>1. state_' = state_ /\ pc' = "running" /\ UNCHANGED <<txn, is_local_txn, paused, switched, dropped>>
  BY Zenon DEF Done, history, txns
<1> QED BY Zenon, <1>1 DEF LostInv, Live

(* A conflict: the transaction of the call is tainted, and goes on. *)
LEMMA TaintLost ==
  ASSUME IInv, LostInv, pc = "running", Done,
         state_[txn] = "RUNNING", Become(txn, "TAINTED"), UNCHANGED <<current_txn_, history>>
  PROVE  LostInv'
<1>1. txn \in TxnIds BY Zenon, TypedFacts DEF IInv
<1>2. "TAINTED" \in States \ {"none"} BY Zenon DEF States
<1>3. state_'[txn] = "TAINTED" /\ \A u \in TxnIds \ {txn} : state_'[u] = state_[u]
  BY Zenon, <1>1, <1>2, BecomeKeeps DEF IInv
<1>4. pc' = "running" /\ UNCHANGED <<txn, is_local_txn, paused, switched, dropped>> BY Zenon DEF Done, history
<1>5. \A t \in TxnIds : state_'[t] \in {"RUNNING", "TAINTED"} <=> Live(t) BY Zenon, <1>3 DEF Live
<1>6. current_txn_ # nullptr => current_txn_ \in TxnIds BY Zenon, TypedFacts DEF IInv
<1>7. Live(current_txn_) /\ current_txn_ # nullptr => state_'[current_txn_] \in {"RUNNING", "TAINTED"}
  BY Zenon, <1>5, <1>6
<1> QED BY Zenon, <1>4, <1>5, <1>7 DEF LostInv, Live

LEMMA TxnExitLost ==
  ASSUME IInv, LostInv, TxnExit
  PROVE  LostInv'
<1>1. pc = "running" BY Zenon DEF TxnExit, At
<1>2. CASE current_txn_ = nullptr BY <1>2, EndsLost, Zenon DEF TxnExit
<1>3. CASE current_txn_ # nullptr
  <2>1. current_txn_' = nullptr /\ paused' = paused \cup {current_txn_} /\ Done /\ state_' = state_
    BY <1>3, Zenon DEF TxnExit, txns
  <2>2. pc' = "running" /\ UNCHANGED <<txn, is_local_txn, dropped>> BY <1>1, <2>1, Zenon DEF Done
  <2>3. txn # nullptr BY Zenon, <1>1, TypedFacts, TxnIsNoNull DEF IInv
  <2> QED BY <1>1, <2>1, <2>2, <2>3, Zenon DEF LostInv, Live
<1> QED BY Zenon, <1>2, <1>3

LEMMA TxnSwitchLost ==
  ASSUME IInv, LostInv, TxnSwitch
  PROVE  LostInv'
<1>1. pc = "running" /\ Done /\ UNCHANGED <<txns, iso_lvl>> BY Zenon DEF TxnSwitch, At
<1>2. PICK t \in TxnIds \cup {MaxTxns + 1} :
        IF t \in TxnIds /\ state_[t] # "none"
        THEN /\ current_txn_' = t /\ switched' = switched \cup {t}
             /\ paused' = paused \cup ({current_txn_} \ {nullptr})
             /\ UNCHANGED managed
        ELSE UNCHANGED <<current_txn_, history>>
  BY Zenon DEF TxnSwitch
<1>3. CASE t \in TxnIds /\ state_[t] # "none"
  <2>1. current_txn_' = t /\ switched' = switched \cup {t} /\ paused' = paused \cup ({current_txn_} \ {nullptr})
    BY Zenon, <1>2, <1>3
  <2>2. state_' = state_ /\ pc' = "running" /\ UNCHANGED <<txn, is_local_txn, dropped>>
    BY <1>1, Zenon DEF Done, txns
  <2>3. \A u \in TxnIds : Live(u) => u \in paused' \/ u \in dropped \/ (u = txn /\ ~is_local_txn)
    BY <1>1, <2>1, TxnIsNoNull, Zenon DEF LostInv
  <2> QED BY Zenon, <2>1, <2>2, <2>3 DEF LostInv, Live
<1>4. CASE ~(t \in TxnIds /\ state_[t] # "none") BY Zenon, <1>1, <1>2, <1>4, QuietLost
<1> QED BY Zenon, <1>3, <1>4

LEMMA NextLost ==
  ASSUME IInv, LostInv, [Next]_vars
  PROVE  LostInv'
<1>1. ASSUME NEW sql \in Sqls, ExecuteSql(sql) PROVE LostInv' BY Zenon, <1>1, StringsTyped, ExecuteSqlLost
<1>2. ASSUME NEW cmd \in Commands, ExecuteSql(<<cmd>>) PROVE LostInv'
  BY Zenon, <1>2, StringsTyped, ExecuteSqlLost
<1>3. CASE Return BY Zenon, <1>3, ReturnLost
<1>4. CASE TxnStatementMismatched BY <1>4, EndsLost, Zenon DEF TxnStatementMismatched
<1>5. CASE BeginStatement BY Zenon, <1>5, BeginStatementLost
<1>6. CASE CommitStatement
  <2>1. pc = "running" /\ todo # <<>> /\ UNCHANGED history /\ current_txn_ \in {nullptr, txn}
    BY Zenon, <1>6 DEF CommitStatement, At, Mismatched
  <2>2. CASE MayCommit(txn) BY Zenon, <1>6, <2>1, <2>2, FinishLost DEF CommitStatement
  <2>3. CASE ~MayCommit(txn) BY Zenon, <1>6, <2>1, <2>3, ThrowLost DEF CommitStatement, Thrown
  <2> QED BY Zenon, <2>2, <2>3
<1>7. CASE AbortStatement
  <2>1. pc = "running" /\ todo # <<>> /\ UNCHANGED history /\ current_txn_ \in {nullptr, txn}
    BY Zenon, <1>7 DEF AbortStatement, At, Mismatched
  <2>2. CASE MayAbort(txn) BY Zenon, <1>7, <2>1, <2>2, FinishLost DEF AbortStatement
  <2>3. CASE ~MayAbort(txn) BY Zenon, <1>7, <2>1, <2>3, ThrowLost DEF AbortStatement, Thrown
  <2> QED BY Zenon, <2>2, <2>3
<1>8. CASE VariableSet BY Zenon, <1>8, QuietLost DEF VariableSet, At
<1>9. CASE Query BY Zenon, <1>9, QuietLost DEF Query, At
<1>10. CASE TaintingQuery
  <2>1. pc = "running" BY <1>10, Zenon DEF TaintingQuery, At
  <2>2. CASE state_[txn] = "RUNNING" BY Zenon, <1>10, <2>1, <2>2, TaintLost DEF TaintingQuery
  <2>3. CASE state_[txn] # "RUNNING" BY <1>10, <2>3, EndsLost, Zenon DEF TaintingQuery
  <2> QED BY Zenon, <2>2, <2>3
<1>11. CASE Rejected
  <2>1. pc = "running" /\ Throw /\ UNCHANGED <<call, history>> BY Zenon, <1>11 DEF Rejected, At, Thrown
  <2> QED BY Zenon, <2>1, ThrowLost
<1>12. CASE TxnShow BY Zenon, <1>12, QuietLost DEF TxnShow, At
<1>13. CASE TxnGc BY <1>13, EndsLost, Zenon DEF TxnGc
<1>14. CASE TxnExit BY Zenon, <1>14, TxnExitLost
<1>15. CASE TxnSwitch BY Zenon, <1>15, TxnSwitchLost
<1>16. CASE UNCHANGED vars
  <2>1. UNCHANGED <<state_, current_txn_, pc, txn, is_local_txn, paused, switched, dropped>>
    BY Zenon, <1>16 DEF vars, txns, call, history
  <2> QED BY Zenon, <2>1 DEF LostInv, Live
<1> QED BY Zenon, <1>1, <1>2, <1>3, <1>4, <1>5, <1>6, <1>7, <1>8, <1>9, <1>10, <1>11, <1>12, <1>13, <1>14,
           <1>15, <1>16 DEF Next

(* For any strings typed: after any sequence of calls, exceptions and       *)
(* commands a transaction that can still be committed is the current one,   *)
(* one the user left on purpose, or one whose BEGIN stood in a string that  *)
(* went on and failed; and the current one can still be committed unless    *)
(* the user chose it.                                                       *)
THEOREM NoTxnEverLost == Spec => []NoTxnLost
<1>1. ASSUME Init PROVE LostInv
  <2>1. \A t \in TxnIds : state_[t] = "none" BY <1>1, Zenon DEF Init
  <2>2. pc = "idle" /\ current_txn_ = nullptr BY <1>1, Zenon DEF Init
  <2> QED BY Zenon, <2>1, <2>2 DEF LostInv, Live
<1>2. IInv /\ LostInv /\ [Next]_vars => LostInv' BY Zenon, NextLost
<1>3. LostInv => NoTxnLost BY Zenon DEF LostInv, NoTxnLost
<1> QED BY IInvHolds, <1>1, <1>2, <1>3, PTL DEF Spec

-----------------------------------------------------------------------------
(***************************************************************************)
(* The arena, for every buffer size and any sequence of requests and       *)
(* releases: the blocks in use lie in the buffer, are aligned and never    *)
(* overlap.  The invariant says more of the released blocks too: the       *)
(* blocks ever handed out lie one after the other below next.              *)
(***************************************************************************)
Block == [p : Nat, n : Nat, align : Alignments, live : BOOLEAN]

ArenaInv ==
    /\ given \in Seq(Block)
    /\ next \in Nat /\ Base <= next /\ next <= Base + N
    /\ \A i \in 1..Len(given) :
         /\ Base <= given[i].p /\ given[i].p + given[i].n <= next
         /\ given[i].p % given[i].align = 0
         /\ \A j \in 1..Len(given) : j < i => given[j].p + given[j].n <= given[i].p

(* align_up returns the next multiple of the alignment. *)
NextMultiple(p, a, q) == q \in Nat /\ q % a = 0 /\ p <= q /\ q < p + a

LEMMA AlignUp ==
  ASSUME NEW p \in Nat, NEW a \in {1, 2, 4, 8, 16}
  PROVE  NextMultiple(p, a, align_up(p, a))
<1>1. CASE a = 1 BY <1>1 DEF align_up, NextMultiple
<1>2. CASE a = 2 BY <1>2 DEF align_up, NextMultiple
<1>3. CASE a = 4 BY <1>3 DEF align_up, NextMultiple
<1>4. CASE a = 8 BY <1>4 DEF align_up, NextMultiple
<1>5. CASE a = 16 BY <1>5 DEF align_up, NextMultiple
<1> QED BY Zenon, <1>1, <1>2, <1>3, <1>4, <1>5

(* A number below the modulus is its own remainder. *)
LEMMA SmallRemainder ==
  ASSUME NEW m \in Nat, NEW w \in Nat \ {0}, m < w
  PROVE  m % w = m
OBVIOUS

(* A request never wraps: count elements and their padding are below Word. *)
LEMMA RequestFits ==
  ASSUME NEW count \in 0..MaxCount, NEW size \in Sizes
  PROVE  /\ count * size \in Nat /\ (count * size) % Word = count * size
         /\ count * size + 16 < Word
<1>1. size \in Nat /\ MaxCount \in Nat /\ Word \in Nat \ {0} /\ count \in Nat
  BY ArenaAssumption
<1>2. MaxCount * size + 16 < Word BY Zenon, ArenaAssumption
<1>3. count * size \in Nat /\ MaxCount * size \in Nat BY <1>1
<1>4. count * size <= MaxCount * size
  <2>1. PICK d \in Nat : MaxCount = count + d
    <3>1. MaxCount - count \in Nat /\ MaxCount = count + (MaxCount - count) BY <1>1
    <3> QED BY Zenon, <3>1
  <2>2. MaxCount * size = count * size + d * size BY <1>1, <2>1
  <2>3. d * size \in Nat BY <1>1, <2>1
  <2> QED BY <1>3, <2>2, <2>3
<1>5. count * size + 16 < Word BY <1>1, <1>2, <1>3, <1>4
<1> QED BY <1>1, <1>3, <1>5, SmallRemainder

(* A new block starts at or after next, and next moves past it. *)
LEMMA AllocateKeeps ==
  ASSUME ArenaInv, NEW n \in Nat, n + 16 < Word, NEW a \in Alignments, allocate(n, a)
  PROVE  ArenaInv'
<1>1. a \in {1, 2, 4, 8, 16} /\ Word \in Nat \ {0} /\ N \in Nat /\ Base \in Nat
  BY Zenon, ArenaAssumption
<1>2. next \in Nat /\ Base <= next BY Zenon DEF ArenaInv
<1> DEFINE p == align_up(next, a)
<1>3. p \in Nat /\ p % a = 0 /\ next <= p /\ p < next + a
  <2>1. NextMultiple(next, a, p) BY <1>1, <1>2, AlignUp
  <2> QED BY Zenon, <2>1 DEF NextMultiple
<1>4. /\ N - Used >= (n + (p - next)) % Word
      /\ next' = next + ((n + (p - next)) % Word)
      /\ given' = Append(given, [p |-> next + (p - next), n |-> n, align |-> a, live |-> TRUE])
  BY Zenon DEF allocate
<1> HIDE DEF p
<1>5. n + (p - next) \in Nat /\ n + (p - next) < Word BY <1>1, <1>2, <1>3
<1>6. (n + (p - next)) % Word = n + (p - next) BY Zenon, <1>1, <1>5, SmallRemainder
<1>7. next + (p - next) = p BY <1>2, <1>3
<1>8. next' = p + n BY <1>2, <1>3, <1>4, <1>6
<1>9. next' \in Nat /\ Base <= next' /\ next' <= Base + N /\ next <= p
  BY <1>1, <1>2, <1>3, <1>4, <1>6, <1>8 DEF Used
<1> DEFINE b == [p |-> p, n |-> n, align |-> a, live |-> TRUE]
<1>10. given' = Append(given, b) BY Zenon, <1>4, <1>7
<1>11. b \in Block /\ b.p = p /\ b.n = n /\ b.align = a BY Zenon, <1>3 DEF Block
<1> HIDE DEF b
<1>12. /\ given' \in Seq(Block) /\ Len(given') = Len(given) + 1 /\ Len(given) \in Nat
       /\ given'[Len(given) + 1] = b /\ \A i \in 1..Len(given) : given'[i] = given[i]
  BY <1>10, <1>11 DEF ArenaInv
<1>13. \A i \in 1..Len(given) :
         /\ given[i].p \in Nat /\ given[i].n \in Nat
         /\ Base <= given[i].p /\ given[i].p + given[i].n <= next
         /\ given[i].p % given[i].align = 0
         /\ \A j \in 1..Len(given) : j < i => given[j].p + given[j].n <= given[i].p
  <2>1. \A i \in 1..Len(given) : given[i] \in Block BY DEF ArenaInv
  <2>2. \A i \in 1..Len(given) : given[i].p \in Nat /\ given[i].n \in Nat BY Zenon, <2>1 DEF Block
  <2> QED BY Zenon, <2>2 DEF ArenaInv
<1>14. ASSUME NEW i \in 1..Len(given')
       PROVE  /\ Base <= given'[i].p /\ given'[i].p + given'[i].n <= next'
              /\ given'[i].p % given'[i].align = 0
              /\ \A j \in 1..Len(given') : j < i => given'[j].p + given'[j].n <= given'[i].p
  <2>1. CASE i = Len(given) + 1
    <3>1. given'[i] = b BY Zenon, <1>12, <2>1
    <3>2. ASSUME NEW j \in 1..Len(given'), j < i PROVE given'[j].p + given'[j].n <= p
      <4>1. j \in 1..Len(given) /\ given'[j] = given[j] BY <1>12, <2>1, <3>2
      <4> QED BY <1>2, <1>3, <1>13, <4>1
    <3> QED BY <1>1, <1>2, <1>3, <1>8, <1>11, <3>1, <3>2
  <2>2. CASE i \in 1..Len(given)
    <3>1. given'[i] = given[i] BY Zenon, <1>12, <2>2
    <3>2. next <= next' BY <1>2, <1>3, <1>8
    <3>3. Base <= given[i].p /\ given[i].p + given[i].n <= next'
      BY <1>2, <1>9, <1>13, <2>2, <3>2
    <3>4. ASSUME NEW j \in 1..Len(given'), j < i PROVE given'[j].p + given'[j].n <= given[i].p
      <4>1. j \in 1..Len(given) /\ given'[j] = given[j] BY <1>12, <2>2, <3>4
      <4> QED BY Zenon, <1>13, <2>2, <3>4, <4>1
    <3> QED BY Zenon, <1>13, <2>2, <3>1, <3>3, <3>4
  <2> QED BY <1>12, <2>1, <2>2
<1> QED BY Zenon, <1>9, <1>12, <1>14 DEF ArenaInv

(* Giving a block back moves nothing. *)
LEMMA DeallocateKeeps ==
  ASSUME ArenaInv, NEW i \in DOMAIN given, deallocate(i)
  PROVE  ArenaInv'
<1>1. given \in Seq(Block) /\ DOMAIN given = 1..Len(given) BY DEF ArenaInv
<1>2. given' = [given EXCEPT ![i].live = FALSE] /\ next' = next BY Zenon DEF deallocate
<1>3. \A j \in 1..Len(given) : given[j] \in Block BY <1>1
<1>4. given' \in Seq(Block) /\ Len(given') = Len(given)
  <2>1. [given[i] EXCEPT !.live = FALSE] \in Block BY <1>1, <1>3, Zenon DEF Block
  <2>2. given' = [given EXCEPT ![i] = [given[i] EXCEPT !.live = FALSE]] BY Zenon, <1>2
  <2> QED BY <1>1, <2>1, <2>2
<1>5. \A j \in 1..Len(given) :
        given'[j].p = given[j].p /\ given'[j].n = given[j].n /\ given'[j].align = given[j].align
  BY Zenon, <1>1, <1>2, <1>3 DEF Block
<1> QED BY <1>2, <1>4, <1>5 DEF ArenaInv

(* Every request and every release keeps the invariant. *)
LEMMA ArenaStepKeeps == ArenaInv /\ [ArenaNext]_ArenaVars => ArenaInv'
<1> SUFFICES ASSUME ArenaInv, [ArenaNext]_ArenaVars PROVE ArenaInv' BY Zenon
<1>1. ASSUME NEW count \in 0..MaxCount, NEW size \in Sizes, NEW alignment \in Alignments,
             AllocateFor(count, size, alignment)
      PROVE  ArenaInv'
  <2>1. allocate((count * size) % Word, alignment) BY Zenon, <1>1 DEF AllocateFor
  <2>2. (count * size) % Word \in Nat /\ ((count * size) % Word) + 16 < Word
    BY Zenon, RequestFits
  <2> QED BY Zenon, <2>1, <2>2, AllocateKeeps
<1>2. ASSUME NEW i \in DOMAIN given, deallocate(i) PROVE ArenaInv'
  BY Zenon, <1>2, DeallocateKeeps
<1>3. CASE UNCHANGED ArenaVars BY Zenon, <1>3 DEF ArenaVars, ArenaInv
<1> QED BY Zenon, <1>1, <1>2, <1>3 DEF ArenaNext

(* BlocksStayApart: for every buffer size, element type and sequence of      *)
(* requests and releases, the blocks in use lie in the buffer, are aligned   *)
(* and share no byte (Arena::allocate with a deallocate that does nothing).  *)
THEOREM BlocksStayApart == ArenaSpec => []BlocksApart
<1>1. ArenaInit => ArenaInv BY ArenaAssumption DEF ArenaInit, ArenaInv
<1>2. ArenaInv => BlocksApart
  <2> SUFFICES ASSUME ArenaInv, NEW i \in DOMAIN given PROVE
        /\ Base <= given[i].p /\ given[i].p + given[i].n <= Base + N
        /\ given[i].p % given[i].align = 0
        /\ \A j \in DOMAIN given : j < i => given[j].p + given[j].n <= given[i].p
    BY Zenon DEF BlocksApart
  <2>1. DOMAIN given = 1..Len(given) /\ given[i] \in Block BY DEF ArenaInv
  <2>2. given[i].p \in Nat /\ given[i].n \in Nat BY Zenon, <2>1 DEF Block
  <2>3. given[i].p + given[i].n <= Base + N BY <2>1, <2>2, ArenaAssumption DEF ArenaInv
  <2> QED BY Zenon, <2>1, <2>3 DEF ArenaInv
<1> QED BY <1>1, <1>2, ArenaStepKeeps, PTL DEF ArenaSpec

-----------------------------------------------------------------------------
(***************************************************************************)
(* The OR-set driver, for any number of nodes: Load never skips a copy its *)
(* node has not taken in.  ReadMeansMerged is inductive once the types are *)
(* known.                                                                  *)
(***************************************************************************)
DriverInv == DriverTypeOK /\ ReadMeansMerged

(* The saved copies and versions a load works from: any for which every node *)
(* that is up to date with a peer has taken the peer's copy in.              *)
Consistent(saved, version) ==
    /\ saved \in [Nodes -> SUBSET Nat]
    /\ version \in [Nodes -> Nat]
    /\ \A n, p \in Nodes :
         /\ last_read_version_[n][p] <= version[p]
         /\ n # p /\ last_read_version_[n][p] = version[p] => saved[p] \subseteq orset_[n]

(* What Save publishes is consistent: its version is one no node has read. *)
LEMMA SavePublishes ==
  ASSUME DriverInv, NEW nodes \in SUBSET Nodes, Save(nodes)
  PROVE  Consistent(saved_copies_', version_counter_')
<1>1. saved_copies_' \in [Nodes -> SUBSET Nat] BY Zenon DEF DriverInv, DriverTypeOK, Save
<1>2. version_counter_' \in [Nodes -> Nat] BY DEF DriverInv, DriverTypeOK, Save
<1>3. ASSUME NEW n \in Nodes, NEW p \in Nodes
      PROVE  /\ last_read_version_[n][p] <= version_counter_'[p]
             /\ n # p /\ last_read_version_[n][p] = version_counter_'[p]
                  => saved_copies_'[p] \subseteq orset_[n]
  <2>1. /\ last_read_version_[n][p] \in Nat /\ version_counter_[p] \in Nat
        /\ last_read_version_[n][p] <= version_counter_[p]
        /\ n # p /\ last_read_version_[n][p] = version_counter_[p]
             => saved_copies_[p] \subseteq orset_[n]
    BY Zenon DEF DriverInv, DriverTypeOK, ReadMeansMerged
  <2>2. CASE p \in nodes
    <3>1. version_counter_'[p] = version_counter_[p] + 1 BY Zenon, <2>2 DEF Save
    <3> QED BY <2>1, <3>1
  <2>3. CASE p \notin nodes
    <3>1. version_counter_'[p] = version_counter_[p] /\ saved_copies_'[p] = saved_copies_[p]
      BY Zenon, <2>3 DEF Save
    <3> QED BY Zenon, <2>1, <3>1
  <2> QED BY Zenon, <2>2, <2>3
<1> QED BY Zenon, <1>1, <1>2, <1>3 DEF Consistent

(* Loading from consistent copies keeps every node consistent with them. *)
LEMMA LoadKeeps ==
  ASSUME DriverInv, NEW saved, NEW version, Consistent(saved, version),
         NEW taken \in [Nodes -> SUBSET Nodes], Load(taken, saved, version)
  PROVE  /\ orset_' \in [Nodes -> SUBSET Nat]
         /\ last_read_version_' \in [Nodes -> [Nodes -> Nat]]
         /\ \A n, p \in Nodes :
              /\ last_read_version_'[n][p] <= version[p]
              /\ n # p /\ last_read_version_'[n][p] = version[p] => saved[p] \subseteq orset_'[n]
<1>1. \A n \in Nodes : orset_'[n] = orset_[n] \cup UNION {saved[p] : p \in taken[n]}
  BY Zenon DEF Load
<1>2. \A n, p \in Nodes :
        last_read_version_'[n][p] = IF p \in taken[n] THEN version[p] ELSE last_read_version_[n][p]
  BY Zenon DEF Load
<1>3. \A n \in Nodes : UNION {saved[p] : p \in taken[n]} \subseteq Nat
  BY Zenon DEF Consistent
<1>4. orset_' \in [Nodes -> SUBSET Nat]
  <2>1. orset_' = [n \in Nodes |-> orset_'[n]] BY Zenon DEF Load
  <2>2. \A n \in Nodes : orset_'[n] \in SUBSET Nat BY Zenon, <1>1, <1>3 DEF DriverInv, DriverTypeOK
  <2> QED BY Zenon, <2>1, <2>2
<1>5. last_read_version_' \in [Nodes -> [Nodes -> Nat]]
  BY Zenon DEF Load, Consistent, DriverInv, DriverTypeOK
<1>6. ASSUME NEW n \in Nodes, NEW p \in Nodes
      PROVE  /\ last_read_version_'[n][p] <= version[p]
             /\ n # p /\ last_read_version_'[n][p] = version[p] => saved[p] \subseteq orset_'[n]
  <2>1. version[p] \in Nat /\ last_read_version_[n][p] \in Nat
    BY Zenon DEF Consistent, DriverInv, DriverTypeOK
  <2>2. orset_[n] \subseteq orset_'[n] BY Zenon, <1>1
  <2>3. CASE p \in taken[n]
    <3>1. saved[p] \subseteq orset_'[n] BY Zenon, <1>1, <2>3
    <3>2. last_read_version_'[n][p] = version[p] BY Zenon, <1>2, <2>3
    <3> QED BY <2>1, <3>1, <3>2
  <2>4. CASE p \notin taken[n]
    <3>1. last_read_version_'[n][p] = last_read_version_[n][p] BY Zenon, <1>2, <2>4
    <3> QED BY Zenon, <2>2, <3>1 DEF Consistent
  <2> QED BY Zenon, <2>3, <2>4
<1> QED BY Zenon, <1>4, <1>5, <1>6

(* The newer copies of a node are copies of nodes. *)
LEMMA BeforeType ==
  ASSUME NEW n, NEW stop, NEW version
  PROVE  Before(n, stop, version) \in SUBSET Nodes
BY Zenon DEF Before

(* Every step of a driver with any number of nodes keeps the invariant. *)
LEMMA DriverStepKeeps == DriverInv /\ [DriverNext]_driverVars => DriverInv'
<1> SUFFICES ASSUME DriverInv, [DriverNext]_driverVars PROVE DriverInv' BY Zenon
<1>1. ASSUME NEW n \in Nodes, Add(n) PROVE DriverInv'
  <2>1. \A m \in Nodes : orset_[m] \subseteq orset_'[m] /\ orset_'[m] \subseteq Nat
    BY <1>1 DEF Add, DriverInv, DriverTypeOK
  <2>2. DriverTypeOK' BY <1>1 DEF Add, DriverInv, DriverTypeOK
  <2>3. ReadMeansMerged' BY Zenon, <1>1, <2>1 DEF Add, DriverInv, ReadMeansMerged
  <2> QED BY Zenon, <2>2, <2>3 DEF DriverInv
<1>2. ASSUME NEW n \in Nodes, SaveOne(n) PROVE DriverInv'
  <2>1. Save({n}) /\ {n} \in SUBSET Nodes BY Zenon, <1>2 DEF SaveOne
  <2>2. Consistent(saved_copies_', version_counter_') BY Zenon, <2>1, SavePublishes
  <2>3. UNCHANGED <<orset_, last_read_version_, next_uid_>> BY Zenon, <1>2 DEF SaveOne
  <2> QED BY Zenon, <2>2, <2>3 DEF Consistent, DriverInv, DriverTypeOK, ReadMeansMerged
<1>3. ASSUME NEW n \in Nodes, LoadOne(n) PROVE DriverInv'
  <2>1. PICK stop \in 0..Peers :
          Load([m \in Nodes |-> IF m = n THEN Before(n, stop, version_counter_) ELSE {}],
               saved_copies_, version_counter_)
    BY Zenon, <1>3 DEF LoadOne
  <2>2. [m \in Nodes |-> IF m = n THEN Before(n, stop, version_counter_) ELSE {}]
          \in [Nodes -> SUBSET Nodes]
    BY Zenon, BeforeType
  <2>3. Consistent(saved_copies_, version_counter_)
    BY Zenon DEF Consistent, DriverInv, DriverTypeOK, ReadMeansMerged
  <2>4. UNCHANGED <<saved_copies_, version_counter_, next_uid_>> BY Zenon, <1>3 DEF LoadOne
  <2>5. /\ orset_' \in [Nodes -> SUBSET Nat]
        /\ last_read_version_' \in [Nodes -> [Nodes -> Nat]]
        /\ \A k, p \in Nodes :
             /\ last_read_version_'[k][p] <= version_counter_[p]
             /\ k # p /\ last_read_version_'[k][p] = version_counter_[p]
                  => saved_copies_[p] \subseteq orset_'[k]
    BY Zenon, <2>1, <2>2, <2>3, LoadKeeps
  <2> QED BY Zenon, <2>4, <2>5 DEF DriverInv, DriverTypeOK, ReadMeansMerged
<1>4. CASE Sync
  <2>1. PICK m \in Nodes, stop \in 0..Peers : SyncUpTo(m, stop) BY Zenon, <1>4 DEF Sync
  <2> DEFINE taken == [n \in Nodes |-> IF n < m THEN Before(n, Peers, version_counter_')
                                       ELSE IF n = m THEN Before(n, stop, version_counter_')
                                       ELSE {}]
  <2>2. taken \in [Nodes -> SUBSET Nodes] BY Zenon, BeforeType
  <2>3. Save(Nodes) /\ Load(taken, saved_copies_', version_counter_') /\ UNCHANGED next_uid_
    BY Zenon, <2>1 DEF SyncUpTo
  <2>4. Consistent(saved_copies_', version_counter_') BY Zenon, <2>3, SavePublishes
  <2> HIDE DEF taken
  <2>5. /\ orset_' \in [Nodes -> SUBSET Nat]
        /\ last_read_version_' \in [Nodes -> [Nodes -> Nat]]
        /\ \A k, p \in Nodes :
             /\ last_read_version_'[k][p] <= version_counter_'[p]
             /\ k # p /\ last_read_version_'[k][p] = version_counter_'[p]
                  => saved_copies_'[p] \subseteq orset_'[k]
    BY Zenon, <2>2, <2>3, <2>4, LoadKeeps
  <2>6. saved_copies_' \in [Nodes -> SUBSET Nat] /\ version_counter_' \in [Nodes -> Nat]
    BY Zenon, <2>4 DEF Consistent
  <2> QED BY Zenon, <2>3, <2>5, <2>6 DEF DriverInv, DriverTypeOK, ReadMeansMerged
<1>5. CASE UNCHANGED driverVars
  BY Zenon, <1>5 DEF driverVars, DriverInv, DriverTypeOK, ReadMeansMerged
<1> QED BY Zenon, <1>1, <1>2, <1>3, <1>4, <1>5 DEF DriverNext

(* ReadIsMerged: with any number of nodes, and whichever calls of Merge      *)
(* throw, a node that has read a peer's current version holds everything in  *)
(* the peer's saved copy (ORSetNode::Load records the version after Merge).  *)
THEOREM ReadIsMerged == DriverSpec => []ReadMeansMerged
<1>1. DriverInit => DriverInv BY DEF DriverInit, DriverInv, DriverTypeOK, ReadMeansMerged
<1>2. DriverInv => ReadMeansMerged BY Zenon DEF DriverInv
<1> QED BY <1>1, <1>2, DriverStepKeeps, PTL DEF DriverSpec

-----------------------------------------------------------------------------
(***************************************************************************)
(* The log file, for any records and any failures of write() and flush().  *)
(***************************************************************************)
(* The file is a prefix of what was written, and all of it until an error. *)
LogInv ==
    /\ log \in Seq(Records) /\ written \in Seq(Records)
    /\ Len(log) <= Len(written) /\ \A i \in 1..Len(log) : log[i] = written[i]
    /\ stream = "good" => log = written

(* A write adds its record to both, or to what was written only and leaves   *)
(* the stream bad, after which nothing reaches the file.                     *)
LEMMA WriteLogKeeps ==
  ASSUME LogInv, NEW b \in Buffers, NEW r \in Records, WriteLog(b, r)
  PROVE  LogInv'
<1>1. /\ written' = Append(written, r) /\ written' \in Seq(Records)
      /\ Len(written') = Len(written) + 1 /\ Len(written) \in Nat /\ Len(log) \in Nat
      /\ \A i \in 1..Len(written) : written'[i] = written[i]
  BY DEF WriteLog, LogInv
<1>2. CASE log' = log /\ stream' = "bad"
  <2>1. Len(log') <= Len(written') BY <1>1, <1>2 DEF LogInv
  <2>2. \A i \in 1..Len(log') : i \in 1..Len(written) /\ log'[i] = written'[i]
    BY <1>1, <1>2 DEF LogInv
  <2> QED BY Zenon, <1>1, <1>2, <2>1, <2>2 DEF LogInv
<1>3. CASE stream = "good" /\ log' = Append(log, r)
  <2>1. log' = written' BY Zenon, <1>1, <1>3 DEF LogInv
  <2> QED BY <1>1, <2>1 DEF LogInv
<1>4. \/ log' = log /\ stream' = "bad"
      \/ stream = "good" /\ log' = Append(log, r)
  BY Zenon DEF WriteLog, WriteOk, WriteFails, FlushFails, MaybeAppend
<1> QED BY Zenon, <1>2, <1>3, <1>4

(* Every step of the log keeps the invariant. *)
LEMMA LogStepKeeps == LogInv /\ [LogNext]_logVars => LogInv'
<1> SUFFICES ASSUME LogInv, [LogNext]_logVars PROVE LogInv' BY Zenon
<1>1. ASSUME NEW b \in Buffers, NEW r \in Records, WriteLog(b, r) PROVE LogInv'
  BY Zenon, <1>1, WriteLogKeeps
<1>2. CASE UNCHANGED <<log, written>> /\ (stream' = "good" => stream = "good")
  BY Zenon, <1>2 DEF LogInv
<1>3. \/ \E b \in Buffers, r \in Records : WriteLog(b, r)
      \/ UNCHANGED <<log, written>> /\ (stream' = "good" => stream = "good")
  BY Zenon DEF LogNext, logVars, WriteEmpty, ReadLog, ShutDown
<1> QED BY Zenon, <1>1, <1>2, <1>3

(* A fresh log satisfies it. *)
LEMMA LogStarts == LogInit => LogInv
<1>1. <<>> \in Seq(Records) /\ Len(<<>>) = 0 OBVIOUS
<1> QED BY <1>1 DEF LogInit, LogInv

(* LogStaysPrefix: whichever writes and flushes fail, and whether or not the *)
(* log is shut down meanwhile, the file holds the records passed to WriteLog *)
(* in order without a gap: badbit is sticky, so nothing follows a lost one.  *)
THEOREM LogStaysPrefix == LogSpec => []LogIsPrefix
<1>1. LogInv => LogIsPrefix
  <2> SUFFICES ASSUME LogInv PROVE log = SubSeq(written, 1, Len(log)) BY Zenon DEF LogInv, LogIsPrefix
  <2>1. log \in Seq(Records) /\ written \in Seq(Records) /\ Len(log) <= Len(written) BY Zenon DEF LogInv
  <2>2. /\ SubSeq(written, 1, Len(log)) \in Seq(Records) /\ Len(SubSeq(written, 1, Len(log))) = Len(log)
        /\ \A i \in 1..Len(log) : SubSeq(written, 1, Len(log))[i] = written[i]
    BY <2>1
  <2> QED BY <2>1, <2>2 DEF LogInv
<1> QED BY <1>1, LogStarts, LogStepKeeps, PTL DEF LogSpec

(* LogReadsBack: a ReadLog that succeeds on an open stream returns what      *)
(* WriteLog was given for that offset, and zeroes past the end of the file.  *)
THEOREM LogReadsBack == LogSpec => ReadsBack
<1>1. LogInv => ReadGivesWritten
  <2> SUFFICES ASSUME LogInv, NEW size \in 1..2, NEW offset \in 0..MaxLog,
                      ReadLog(size, offset), result'.ok, stream = "good"
               PROVE  /\ result'.data[1] = written[offset + 1]
                      /\ \A i \in 2..size : result'.data[i] =
                           IF offset + i <= Len(written) THEN written[offset + i] ELSE ZeroRecord
    BY Zenon DEF ReadGivesWritten
  <2>1. log = written /\ Len(log) \in Nat /\ offset \in Nat BY LogBound DEF LogInv
  <2>2. ~(offset >= Len(log)) BY Zenon DEF ReadLog, NoResult
  <2>3. result'.data = Slice(log, offset, size) BY Zenon, <2>2 DEF ReadLog
  <2>4. \A i \in 1..size : result'.data[i] = IF offset + i <= Len(log) THEN log[offset + i] ELSE ZeroRecord
    BY Zenon, <2>3 DEF Slice
  <2>5. 1 \in 1..size /\ offset + 1 <= Len(log) BY <2>1, <2>2
  <2> QED BY <2>1, <2>4, <2>5
<1>2. LogInv /\ [LogNext]_logVars => [ReadGivesWritten]_logVars BY Zenon, <1>1
<1> QED BY <1>2, LogStarts, LogStepKeeps, PTL DEF LogSpec, ReadsBack
=============================================================================
