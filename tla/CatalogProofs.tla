--------------------------- MODULE CatalogProofs ---------------------------
(***************************************************************************)
(* Proofs about Catalog, for any connections, names and bounds.            *)
(*                                                                         *)
(* The maps are updated one after the other, and binders, \dt and \di look *)
(* at them in between, so the invariant says what they hold at each step   *)
(* of a CREATE: which table or index the holder of catalog_lock_ has made  *)
(* and not yet named.                                                      *)
(***************************************************************************)
EXTENDS Catalog, FiniteSetTheorems, TLAPS

(* Leaves go to the SMT solver unless they name another prover. *)
USE SMTT(30) DEF Absent, NoThread

(* The statement a thread executes at each of its labels. *)
PcKind ==
    \A t \in Threads :
        /\ pc[t] = "bind" => stmt[t] \in IndexStmts \cup QueryStmts
        /\ pc[t] \in {"plan", "execute"} => stmt[t] \in QueryStmts
        /\ pc[t] = "dbg" => stmt[t] \in DbgStmts
        /\ pc[t] \in {"names", "show"} => stmt[t] \in [kind : {"dt", "di"}]
        /\ pc[t] \in {"lock", "indexes", "table_indexes", "unlock"} =>
             stmt[t] \in CreateStmts \cup IndexStmts
        /\ pc[t] \in {"tables", "table_names", "index_names"} => stmt[t] \in CreateStmts

(* Whoever is inside catalog_lock_ holds it, also when the process failed. *)
LockInv == \A t \in Threads : pc[t] \in Locked => catalog_lock_ = t

(* Statements under way that have still to take a table or an index oid. *)
TableMakers == {t \in Threads : pc[t] \in {"lock", "tables"} /\ stmt[t].kind = "create"}
IndexMakers ==
    {t \in Threads : pc[t] \in {"bind", "lock", "tables", "table_names", "index_names", "indexes"}
                     /\ stmt[t].kind \in {"create", "index"}}

(* There is an oid left for each of them. *)
Counted ==
    /\ next_table_oid_ + Cardinality(TableMakers) <= MaxOid + 1
    /\ next_index_oid_ + Cardinality(IndexMakers) <= MaxOid + 1

(* An oid that was not handed out names nothing. *)
Fresh ==
    /\ \A o \in Oids : o >= next_table_oid_ => tables_[o] = Absent
    /\ \A o \in Oids : o >= next_index_oid_ => indexes_[o] = Absent

(* tables_, table_names_ and the keys of index_names_ agree, up to the table *)
(* that is being created.                                                    *)
TableMaps ==
    /\ \A n \in Names : table_names_[n] # Absent => tables_[table_names_[n]] = n
    /\ \A o \in Oids : tables_[o] # Absent =>
          table_names_[tables_[o]] = o \/ \E t \in Threads : pc[t] = "table_names" /\ bound[t] = o
    /\ \A n \in index_tables_ : table_names_[n] # Absent
    /\ \A n \in Names : table_names_[n] # Absent =>
          n \in index_tables_ \/ \E t \in Threads : pc[t] = "index_names" /\ stmt[t].table = n

(* The table being created is not there before its name is, and then is. *)
Creating ==
    \A t \in Threads :
        /\ pc[t] \in {"tables", "table_names"} => table_names_[stmt[t].table] = Absent
        /\ pc[t] = "table_names" => bound[t] \in Oids /\ tables_[bound[t]] = stmt[t].table
        /\ pc[t] = "index_names" =>
             table_names_[stmt[t].table] # Absent /\ stmt[t].table \notin index_tables_

(* indexes_ and index_names_ agree, up to the index that is being created. *)
IndexMaps ==
    /\ \A n \in Names, x \in AllIndexNames : index_names_[n, x] # Absent =>
          n \in index_tables_ /\ indexes_[index_names_[n, x]] = n
    /\ \A o \in Oids : indexes_[o] # Absent =>
          \/ \E x \in AllIndexNames : index_names_[indexes_[o], x] = o
          \/ \E t \in Threads : pc[t] = "table_indexes" /\ o = next_index_oid_ - 1

Indexing ==
    \A t \in Threads :
        /\ pc[t] \in {"indexes", "table_indexes"} =>
             stmt[t].table \in index_tables_ /\ index_names_[stmt[t].table, IndexOf(t)] = Absent
        /\ pc[t] = "table_indexes" =>
             next_index_oid_ - 1 \in Oids /\ indexes_[next_index_oid_ - 1] = stmt[t].table

(* What a statement has bound is the table of that name. *)
BoundInv ==
    \A t \in Threads :
        pc[t] \in {"plan", "execute"} \/ (pc[t] = "lock" /\ stmt[t].kind = "index") =>
            bound[t] # Absent /\ table_names_[stmt[t].table] = bound[t]

IInv ==
    /\ TypeOK /\ PcKind /\ LockInv /\ Counted /\ Fresh
    /\ TableMaps /\ Creating /\ IndexMaps /\ Indexing /\ BoundInv
    /\ OnlyIndexDisplayFails

-----------------------------------------------------------------------------
(* The fields of a statement are those of its kind. *)
LEMMA StmtFields ==
  /\ \A s \in CreateStmts : s.kind = "create" /\ s.table \in Names /\ s.pk \in {"none", "ok", "rejected"}
  /\ \A s \in IndexStmts : s.kind = "index" /\ s.table \in Names /\ s.index \in IndexNames
  /\ \A s \in QueryStmts : s.kind = "query" /\ s.table \in Names
  /\ \A s \in DbgStmts : s.kind = "dbgmvcc" /\ s.table \in Names
  /\ \A s \in [kind : {"dt", "di"}] : s.kind \in {"dt", "di"}
BY Zenon DEF CreateStmts, IndexStmts, QueryStmts, DbgStmts

(* The index a statement makes has a name. *)
LEMMA IndexOfType ==
  ASSUME NEW t \in Threads, stmt[t] \in CreateStmts \cup IndexStmts
  PROVE  IndexOf(t) \in AllIndexNames
BY Zenon, StmtFields DEF IndexOf, AllIndexNames

LEMMA OidTypes ==
  ASSUME IInv
  PROVE  /\ MaxOid \in Nat \ {0}
         /\ next_table_oid_ \in Nat \ {0} /\ next_index_oid_ \in Nat \ {0}
<1>1. next_table_oid_ \in 1..(MaxOid + 1) /\ next_index_oid_ \in 1..(MaxOid + 1) BY Zenon DEF IInv, TypeOK
<1>2. MaxOid \in Nat \ {0} BY Zenon, CatalogAssumption
<1> QED BY <1>1, <1>2

(* Fewer statements under way need fewer oids. *)
LEMMA FewerMakers ==
  ASSUME NEW S \in SUBSET Threads, NEW T \in SUBSET S
  PROVE  /\ Cardinality(S) \in Nat /\ Cardinality(T) \in Nat
         /\ Cardinality(T) <= Cardinality(S)
         /\ \A t \in S \ T : Cardinality(T) + 1 <= Cardinality(S)
<1>1. IsFiniteSet(S) /\ IsFiniteSet(T) BY Zenon, FS_Subset, CatalogAssumption
<1>2. Cardinality(S) \in Nat /\ Cardinality(T) \in Nat /\ Cardinality(T) <= Cardinality(S)
  BY Zenon, <1>1, FS_Subset, FS_CardinalityType
<1>3. ASSUME NEW t \in S \ T PROVE Cardinality(T) + 1 <= Cardinality(S)
  <2>1. Cardinality(T \cup {t}) = Cardinality(T) + 1 BY Zenon, <1>1, <1>3, FS_AddElement
  <2>2. T \cup {t} \in SUBSET S BY Zenon, <1>3
  <2> QED BY <1>1, <2>1, <2>2, FS_Subset
<1> QED BY Zenon, <1>2, <1>3

(* Only the holder of catalog_lock_ is at a label inside it. *)
LEMMA OneInside ==
  ASSUME IInv, NEW t \in Threads, pc[t] \in Locked
  PROVE  catalog_lock_ = t /\ \A u \in Threads \ {t} : pc[u] \notin Locked
BY Zenon DEF IInv, LockInv

LEMMA NoneInside ==
  ASSUME IInv, catalog_lock_ = NoThread
  PROVE  \A u \in Threads : pc[u] \notin Locked
BY CatalogAssumption, Zenon DEF IInv, LockInv

(* With nobody inside the lock the maps agree. *)
LEMMA AgreeUnlocked ==
  ASSUME IInv, \A u \in Threads : pc[u] \notin Locked
  PROVE  /\ \A n \in Names : table_names_[n] # Absent <=> n \in index_tables_
         /\ \A o \in Oids : tables_[o] # Absent => table_names_[tables_[o]] = o
         /\ \A o \in Oids : indexes_[o] # Absent =>
               \E x \in AllIndexNames : index_names_[indexes_[o], x] = o
BY Zenon DEF IInv, TableMaps, IndexMaps, Locked, TypeOK

(* A table name always leads to a table, and an index name to an index. *)
LEMMA NothingMissing ==
  ASSUME IInv, NEW n \in Names
  PROVE  /\ ~NamedTableMissing(n)
         /\ IndexListBroken(n) => table_names_[n] # Absent /\ n \notin index_tables_
<1>1. n # Absent BY Zenon, CatalogAssumption
<1>2. ~NamedTableMissing(n) BY Zenon, <1>1 DEF IInv, TableMaps, NamedTableMissing
<1>3. \A x \in AllIndexNames : index_names_[n, x] # Absent => indexes_[index_names_[n, x]] = n
  BY Zenon DEF IInv, IndexMaps
<1> QED BY <1>1, <1>2, <1>3, Zenon DEF IndexListBroken

-----------------------------------------------------------------------------
(* A step outside the lock that only reads the catalog. *)
QuietStep(t) ==
    /\ UNCHANGED <<maps, next_table_oid_, next_index_oid_, catalog_lock_>>
    /\ failed = "no" /\ failed' = "no"
    /\ pc[t] \notin Locked /\ pc'[t] \notin Locked
    /\ \A u \in Threads \ {t} : pc'[u] = pc[u] /\ stmt'[u] = stmt[u] /\ bound'[u] = bound[u]
    /\ TypeOK' /\ PcKind' /\ Counted'
    /\ pc'[t] \in {"plan", "execute"} \/ (pc'[t] = "lock" /\ stmt'[t].kind = "index") =>
          bound'[t] # Absent /\ table_names_[stmt'[t].table] = bound'[t]

LEMMA QuietKeeps ==
  ASSUME IInv, NEW t \in Threads, QuietStep(t)
  PROVE  IInv'
<1>1. LockInv' BY Zenon DEF IInv, LockInv, QuietStep
<1>2. Fresh' BY Zenon DEF IInv, Fresh, QuietStep, maps
<1>3. \A u \in Threads : pc'[u] \in Locked <=> pc[u] \in Locked BY Zenon DEF QuietStep
<1>4. \A u \in Threads : pc'[u] \in Locked => pc'[u] = pc[u] /\ stmt'[u] = stmt[u] /\ bound'[u] = bound[u]
  BY Zenon DEF QuietStep
<1>5. \A u \in Threads : pc[u] \in Locked => pc'[u] = pc[u] /\ stmt'[u] = stmt[u] /\ bound'[u] = bound[u]
  BY Zenon, <1>3, <1>4
<1>6. TableMaps' BY <1>5 DEF IInv, TableMaps, QuietStep, maps, Locked
<1>7. Creating' BY Zenon, <1>4 DEF IInv, Creating, QuietStep, maps, Locked
<1>8. IndexMaps'
  <2>1. UNCHANGED <<index_names_, index_tables_, indexes_, next_index_oid_>> BY Zenon DEF QuietStep, maps
  <2>2. \A u \in Threads : pc[u] = "table_indexes" => pc'[u] = "table_indexes" BY Zenon, <1>5 DEF Locked
  <2> QED BY <2>1, <2>2, Zenon DEF IInv, IndexMaps
<1>9. Indexing' BY <1>4, Zenon DEF IInv, Indexing, IndexOf, QuietStep, maps, Locked
<1>10. BoundInv' BY Zenon DEF IInv, BoundInv, QuietStep, maps
<1>11. OnlyIndexDisplayFails' BY Zenon DEF OnlyIndexDisplayFails, QuietStep
<1>12. TypeOK' /\ PcKind' /\ Counted' BY Zenon DEF QuietStep
<1> QED BY Zenon, <1>1, <1>2, <1>6, <1>7, <1>8, <1>9, <1>10, <1>11, <1>12 DEF IInv

(* The process ends: nothing else changes, but CREATE TABLE holds the lock. *)
FailStep ==
    /\ UNCHANGED <<maps, next_table_oid_, next_index_oid_, pc, stmt, bound, todo>>
    /\ failed' # "no" /\ OnlyIndexDisplayFails'
    /\ UNCHANGED catalog_lock_ \/ (catalog_lock_ = NoThread /\ catalog_lock_' \in Threads)

LEMMA FailKeeps ==
  ASSUME IInv, FailStep
  PROVE  IInv'
<1>1. LockInv'
  <2>1. CASE UNCHANGED catalog_lock_ BY Zenon, <2>1 DEF IInv, LockInv, FailStep
  <2>2. CASE catalog_lock_ = NoThread BY <2>2, NoneInside, Zenon DEF LockInv, FailStep
  <2> QED BY <2>1, <2>2, Zenon DEF FailStep
<1>2. TypeOK' BY Zenon DEF IInv, TypeOK, FailStep, maps
<1>3. PcKind' BY Zenon DEF IInv, PcKind, FailStep
<1>4. Counted' BY Zenon DEF IInv, Counted, TableMakers, IndexMakers, FailStep
<1>5. Fresh' BY Zenon DEF IInv, Fresh, FailStep, maps
<1>6. TableMaps' BY Zenon DEF IInv, TableMaps, FailStep, maps
<1>10. Creating' BY Zenon DEF IInv, Creating, FailStep, maps
<1>7. IndexMaps' BY Zenon DEF IInv, IndexMaps, FailStep, maps
<1>8. Indexing' BY Zenon DEF IInv, Indexing, IndexOf, FailStep, maps
<1>9. BoundInv' BY Zenon DEF IInv, BoundInv, FailStep, maps
<1> QED BY <1>1, <1>2, <1>3, <1>4, <1>5, <1>6, <1>7, <1>8, <1>9, <1>10, Zenon DEF IInv, FailStep

(* Makers stay makers when a statement goes on without taking an oid. *)
LEMMA NoNewMakers ==
  ASSUME IInv, NoOids, TableMakers' \subseteq TableMakers, IndexMakers' \subseteq IndexMakers
  PROVE  Counted'
<1>1. /\ Cardinality(TableMakers') <= Cardinality(TableMakers)
      /\ Cardinality(TableMakers) \in Nat /\ Cardinality(TableMakers') \in Nat
  BY Zenon, FewerMakers DEF TableMakers
<1>2. /\ Cardinality(IndexMakers') <= Cardinality(IndexMakers)
      /\ Cardinality(IndexMakers) \in Nat /\ Cardinality(IndexMakers') \in Nat
  BY Zenon, FewerMakers DEF IndexMakers
<1>3. next_table_oid_ \in Nat /\ next_index_oid_ \in Nat /\ MaxOid \in Nat BY Zenon, OidTypes
<1>4. next_table_oid_' = next_table_oid_ /\ next_index_oid_' = next_index_oid_ BY Zenon DEF NoOids
<1> QED BY <1>1, <1>2, <1>3, <1>4 DEF IInv, Counted

-----------------------------------------------------------------------------
(* One statement more needs at most one oid more. *)
LEMMA OneMoreMaker ==
  ASSUME NEW R \in SUBSET Threads, NEW S \in SUBSET R, NEW t \in Threads,
         NEW T \in SUBSET (S \cup {t})
  PROVE  Cardinality(T) <= Cardinality(R) + 1
<1>1. IsFiniteSet(S \cup {t}) /\ IsFiniteSet(S) /\ IsFiniteSet(R)
  BY Zenon, FS_Subset, CatalogAssumption
<1>2. Cardinality(T) <= Cardinality(S \cup {t}) /\ Cardinality(S) <= Cardinality(R)
  BY Zenon, <1>1, FS_Subset
<1>3. Cardinality(S \cup {t}) <= Cardinality(S) + 1
  BY <1>1, FS_AddElement, FS_CardinalityType
<1>4. /\ Cardinality(T) \in Nat /\ Cardinality(S \cup {t}) \in Nat
      /\ Cardinality(S) \in Nat /\ Cardinality(R) \in Nat
  BY Zenon, <1>1, FS_Subset, FS_CardinalityType
<1> QED BY <1>2, <1>3, <1>4

(* The first label of a statement fits its kind. *)
LEMMA FirstStepType ==
  ASSUME NEW s \in Stmts
  PROVE  \/ s \in CreateStmts /\ s.kind = "create" /\ FirstStep(s) = "lock"
         \/ s \in IndexStmts /\ s.kind = "index" /\ FirstStep(s) = "bind"
         \/ s \in QueryStmts /\ s.kind = "query" /\ FirstStep(s) = "bind"
         \/ s \in DbgStmts /\ s.kind = "dbgmvcc" /\ FirstStep(s) = "dbg"
         \/ s \in [kind : {"dt", "di"}] /\ s.kind \in {"dt", "di"} /\ FirstStep(s) = "names"
<1>1. CASE s \in CreateStmts BY Zenon, <1>1, StmtFields DEF FirstStep
<1>2. CASE s \in IndexStmts BY Zenon, <1>2, StmtFields DEF FirstStep
<1>3. CASE s \in QueryStmts BY Zenon, <1>3, StmtFields DEF FirstStep
<1>4. CASE s \in DbgStmts BY Zenon, <1>4, StmtFields DEF FirstStep
<1>5. CASE s \in [kind : {"dt", "di"}] BY Zenon, <1>5, StmtFields DEF FirstStep
<1> QED BY Zenon, <1>1, <1>2, <1>3, <1>4, <1>5 DEF Stmts

(* A statement begins. *)
LEMMA StartKeeps ==
  ASSUME IInv, NEW t \in Threads, NEW s \in Stmts, Start(t, s)
  PROVE  IInv'
<1>1. /\ failed = "no" /\ failed' = failed /\ pc[t] = "idle"
      /\ pc' = [pc EXCEPT ![t] = FirstStep(s)] /\ stmt' = [stmt EXCEPT ![t] = s]
      /\ UNCHANGED <<maps, catalog_lock_, bound, todo, next_table_oid_, next_index_oid_>>
      /\ s.kind = "create" => next_table_oid_ + Running({"create"}) <= MaxOid
      /\ s.kind \in {"create", "index"} => next_index_oid_ + Running({"create", "index"}) <= MaxOid
  BY Zenon DEF Start, At, Goto, NoOids
<1>2. pc \in [Threads -> {"idle", "bind", "plan", "execute", "dbg", "names", "show", "lock"} \cup Locked]
      /\ stmt \in [Threads -> Stmts \cup {NoStmt}]
  BY Zenon DEF IInv, TypeOK
<1>3. /\ pc'[t] = FirstStep(s) /\ stmt'[t] = s
      /\ \A u \in Threads \ {t} : pc'[u] = pc[u] /\ stmt'[u] = stmt[u]
  BY Zenon, <1>1, <1>2
<1>4. FirstStep(s) \in {"lock", "bind", "dbg", "names"} BY Zenon, FirstStepType
<1>5. pc[t] \notin Locked /\ pc'[t] \notin Locked BY Zenon, <1>1, <1>3, <1>4 DEF Locked
<1>6. TypeOK'
  <2>1. pc' \in [Threads -> {"idle", "bind", "plan", "execute", "dbg", "names", "show", "lock"} \cup Locked]
    BY Zenon, <1>1, <1>2, <1>4
  <2>2. stmt' \in [Threads -> Stmts \cup {NoStmt}] BY Zenon, <1>1, <1>2
  <2>3. \A u \in Threads : catalog_lock_' = u <=> pc'[u] \in Locked
    BY <1>1, <1>3, <1>5, Zenon DEF IInv, TypeOK
  <2> QED BY <1>1, <2>1, <2>2, <2>3, Zenon DEF IInv, TypeOK, maps
<1>7. PcKind' BY <1>3, FirstStepType DEF IInv, PcKind
<1>8. Counted'
  <2>1. next_table_oid_' + Cardinality(TableMakers') <= MaxOid + 1
    <3>1. CASE s.kind = "create"
      <4> DEFINE R == {u \in Threads : pc[u] # "idle" /\ stmt[u].kind \in {"create"}}
      <4>1. TableMakers \subseteq R /\ TableMakers' \subseteq TableMakers \cup {t}
        BY Zenon, <1>3 DEF TableMakers
      <4>2. Cardinality(TableMakers') <= Cardinality(R) + 1 BY Zenon, <4>1, OneMoreMaker
      <4>3. Cardinality(R) \in Nat /\ Cardinality(TableMakers') \in Nat BY Zenon, FewerMakers DEF TableMakers
      <4>4. next_table_oid_ + Cardinality(R) <= MaxOid BY Zenon, <1>1, <3>1 DEF Running
      <4> HIDE DEF R
      <4> QED BY <1>1, <4>2, <4>3, <4>4, OidTypes
    <3>2. CASE s.kind # "create"
      <4>1. TableMakers' \subseteq TableMakers BY Zenon, <1>3, <3>2 DEF TableMakers
      <4>2. /\ Cardinality(TableMakers') <= Cardinality(TableMakers)
            /\ Cardinality(TableMakers) \in Nat /\ Cardinality(TableMakers') \in Nat
        BY Zenon, <4>1, FewerMakers DEF TableMakers
      <4> QED BY <1>1, <4>2, OidTypes DEF IInv, Counted
    <3> QED BY Zenon, <3>1, <3>2
  <2>2. next_index_oid_' + Cardinality(IndexMakers') <= MaxOid + 1
    <3>1. CASE s.kind \in {"create", "index"}
      <4> DEFINE R == {u \in Threads : pc[u] # "idle" /\ stmt[u].kind \in {"create", "index"}}
      <4>1. IndexMakers \subseteq R /\ IndexMakers' \subseteq IndexMakers \cup {t}
        BY Zenon, <1>3 DEF IndexMakers
      <4>2. Cardinality(IndexMakers') <= Cardinality(R) + 1 BY Zenon, <4>1, OneMoreMaker
      <4>3. Cardinality(R) \in Nat /\ Cardinality(IndexMakers') \in Nat BY Zenon, FewerMakers DEF IndexMakers
      <4>4. next_index_oid_ + Cardinality(R) <= MaxOid BY Zenon, <1>1, <3>1 DEF Running
      <4> HIDE DEF R
      <4> QED BY <1>1, <4>2, <4>3, <4>4, OidTypes
    <3>2. CASE s.kind \notin {"create", "index"}
      <4>1. IndexMakers' \subseteq IndexMakers BY Zenon, <1>3, <3>2 DEF IndexMakers
      <4>2. /\ Cardinality(IndexMakers') <= Cardinality(IndexMakers)
            /\ Cardinality(IndexMakers) \in Nat /\ Cardinality(IndexMakers') \in Nat
        BY Zenon, <4>1, FewerMakers DEF IndexMakers
      <4> QED BY <1>1, <4>2, OidTypes DEF IInv, Counted
    <3> QED BY Zenon, <3>1, <3>2
  <2> QED BY Zenon, <2>1, <2>2 DEF Counted
<1>9. ~(pc'[t] \in {"plan", "execute"} \/ (pc'[t] = "lock" /\ stmt'[t].kind = "index"))
  BY Zenon, <1>3, FirstStepType
<1> QED BY Zenon, <1>1, <1>3, <1>5, <1>6, <1>7, <1>8, <1>9, QuietKeeps DEF QuietStep

(* The other steps outside the lock leave the statement alone. *)
LEMMA MoveKeeps ==
  ASSUME IInv, NEW t \in Threads, NEW l \in {"idle", "plan", "execute", "show", "lock"},
         failed = "no", failed' = "no", pc' = [pc EXCEPT ![t] = l],
         pc[t] \in {"bind", "plan", "execute", "dbg", "names", "show"},
         UNCHANGED <<maps, catalog_lock_, stmt>>, NoOids,
         NEW b \in Oids \cup {Absent}, bound' = bound \/ bound' = [bound EXCEPT ![t] = b],
         todo' \in [Threads -> SUBSET Names],
         l \in {"plan", "execute"} => stmt[t] \in QueryStmts,
         l = "show" => stmt[t] \in [kind : {"dt", "di"}],
         l = "lock" => pc[t] = "bind" /\ stmt[t] \in IndexStmts,
         l \in {"plan", "execute", "lock"} =>
             bound'[t] # Absent /\ table_names_[stmt[t].table] = bound'[t]
  PROVE  IInv'
<1>1. pc \in [Threads -> {"idle", "bind", "plan", "execute", "dbg", "names", "show", "lock"} \cup Locked]
      /\ bound \in [Threads -> Oids \cup {Absent}]
  BY Zenon DEF IInv, TypeOK
<1>2. pc'[t] = l /\ \A u \in Threads \ {t} : pc'[u] = pc[u] /\ bound'[u] = bound[u]
  BY Zenon, <1>1
<1>3. pc[t] \notin Locked /\ pc'[t] \notin Locked BY Zenon, <1>2 DEF Locked
<1>4. TypeOK'
  <2>1. pc' \in [Threads -> {"idle", "bind", "plan", "execute", "dbg", "names", "show", "lock"} \cup Locked]
    BY Zenon, <1>1
  <2>2. bound' \in [Threads -> Oids \cup {Absent}] BY Zenon, <1>1
  <2>3. \A u \in Threads : catalog_lock_' = u <=> pc'[u] \in Locked
    BY <1>2, <1>3, Zenon DEF IInv, TypeOK
  <2> QED BY <2>1, <2>2, <2>3, Zenon DEF IInv, TypeOK, maps, NoOids
<1>5. PcKind' BY <1>2, StmtFields DEF IInv, PcKind
<1>6. TableMakers' \subseteq TableMakers BY Zenon, <1>2, StmtFields DEF TableMakers
<1>7. IndexMakers' \subseteq IndexMakers BY Zenon, <1>2 DEF IndexMakers
<1>8. Counted' BY Zenon, <1>6, <1>7, NoNewMakers
<1> QED BY Zenon, <1>2, <1>3, <1>4, <1>5, <1>8, QuietKeeps DEF QuietStep, NoOids

(* The binder: the table it finds is there. *)
LEMMA BindKeeps ==
  ASSUME IInv, NEW t \in Threads, Bind(t)
  PROVE  IInv'
<1> DEFINE n == stmt[t].table
           l == IF table_names_[n] = Absent THEN "idle"
                ELSE IF stmt[t].kind = "query" THEN "plan" ELSE "lock"
<1>1. pc[t] = "bind" /\ failed = "no" BY Zenon DEF Bind, At
<1>2. stmt[t] \in IndexStmts \cup QueryStmts /\ n \in Names BY Zenon, <1>1, StmtFields DEF IInv, PcKind
<1>3. ~NamedTableMissing(n) BY Zenon, <1>2, NothingMissing
<1>4. /\ pc' = [pc EXCEPT ![t] = l] /\ bound' = [bound EXCEPT ![t] = table_names_[n]]
      /\ failed' = "no" /\ UNCHANGED <<maps, catalog_lock_, stmt, todo>> /\ NoOids
  BY Zenon, <1>1, <1>3 DEF Bind, Goto
<1>5. bound'[t] = table_names_[n] BY <1>4, Zenon DEF IInv, TypeOK
<1>6. table_names_[n] \in Oids \cup {Absent} /\ todo' \in [Threads -> SUBSET Names]
  BY <1>2, <1>4, Zenon DEF IInv, TypeOK
<1>7. CASE table_names_[n] = Absent
  <2>1. pc' = [pc EXCEPT ![t] = "idle"] BY Zenon, <1>4, <1>7
  <2> QED BY Zenon, <1>1, <1>4, <1>6, <2>1, MoveKeeps
<1>8. CASE table_names_[n] # Absent /\ stmt[t] \in QueryStmts
  <2>1. pc' = [pc EXCEPT ![t] = "plan"] BY Zenon, <1>4, <1>8, StmtFields
  <2> QED BY Zenon, <1>1, <1>4, <1>5, <1>6, <1>8, <2>1, MoveKeeps
<1>9. CASE table_names_[n] # Absent /\ stmt[t] \in IndexStmts
  <2>1. pc' = [pc EXCEPT ![t] = "lock"] BY Zenon, <1>4, <1>9, StmtFields
  <2> QED BY Zenon, <1>1, <1>4, <1>5, <1>6, <1>9, <2>1, MoveKeeps
<1> QED BY Zenon, <1>2, <1>7, <1>8, <1>9

(* The planner: with the lock free, both lookups succeed. *)
LEMMA PlanKeeps ==
  ASSUME IInv, NEW t \in Threads, Plan(t)
  PROVE  IInv'
<1>1. pc[t] = "plan" /\ failed = "no" /\ catalog_lock_ = NoThread BY Zenon DEF Plan, At
<1>2. stmt[t] \in QueryStmts /\ stmt[t].table \in Names BY <1>1, StmtFields, Zenon DEF IInv, PcKind
<1>3. ~NamedTableMissing(stmt[t].table) BY Zenon, <1>2, NothingMissing
<1>4. ~IndexListBroken(stmt[t].table) BY Zenon, <1>1, <1>2, NothingMissing, NoneInside, AgreeUnlocked
<1>5. /\ pc' = [pc EXCEPT ![t] = "execute"]
      /\ failed' = "no" /\ UNCHANGED <<maps, catalog_lock_, stmt, bound, todo>> /\ NoOids
  BY <1>1, <1>3, <1>4, Zenon DEF Plan, Goto
<1>6. bound'[t] # Absent /\ table_names_[stmt[t].table] = bound'[t]
  BY <1>1, <1>5, Zenon DEF IInv, BoundInv
<1>7. todo' \in [Threads -> SUBSET Names] BY <1>5, Zenon DEF IInv, TypeOK
<1> QED BY Zenon, <1>1, <1>2, <1>5, <1>6, <1>7, MoveKeeps

LEMMA ExecuteKeeps ==
  ASSUME IInv, NEW t \in Threads, Execute(t)
  PROVE  IInv'
<1>1. /\ pc[t] = "execute" /\ failed = "no" /\ pc' = [pc EXCEPT ![t] = "idle"]
      /\ failed' = "no" /\ UNCHANGED <<maps, catalog_lock_, stmt, bound, todo>> /\ NoOids
  BY Zenon DEF Execute, At, Goto
<1>2. todo' \in [Threads -> SUBSET Names] BY <1>1, Zenon DEF IInv, TypeOK
<1> QED BY Zenon, <1>1, <1>2, MoveKeeps

LEMMA CmdDbgMvccKeeps ==
  ASSUME IInv, NEW t \in Threads, CmdDbgMvcc(t)
  PROVE  IInv'
<1>1. pc[t] = "dbg" /\ failed = "no" BY Zenon DEF CmdDbgMvcc, At
<1>2. stmt[t] \in DbgStmts /\ stmt[t].table \in Names BY Zenon, <1>1, StmtFields DEF IInv, PcKind
<1>3. ~NamedTableMissing(stmt[t].table) BY Zenon, <1>2, NothingMissing
<1>4. /\ pc' = [pc EXCEPT ![t] = "idle"]
      /\ failed' = "no" /\ UNCHANGED <<maps, catalog_lock_, stmt, bound, todo>> /\ NoOids
  BY <1>1, <1>3, Zenon DEF CmdDbgMvcc, Goto
<1>5. todo' \in [Threads -> SUBSET Names] BY <1>4, Zenon DEF IInv, TypeOK
<1> QED BY Zenon, <1>1, <1>4, <1>5, MoveKeeps

LEMMA GetTableNamesKeeps ==
  ASSUME IInv, NEW t \in Threads, GetTableNames(t)
  PROVE  IInv'
<1>1. /\ pc[t] = "names" /\ failed = "no" /\ pc' = [pc EXCEPT ![t] = "show"]
      /\ todo' = [todo EXCEPT ![t] = {n \in Names : table_names_[n] # Absent}]
      /\ failed' = "no" /\ UNCHANGED <<maps, catalog_lock_, stmt, bound>> /\ NoOids
  BY Zenon DEF GetTableNames, At, Goto
<1>2. todo' \in [Threads -> SUBSET Names] BY <1>1, Zenon DEF IInv, TypeOK
<1>3. stmt[t] \in [kind : {"dt", "di"}] BY Zenon, <1>1 DEF IInv, PcKind
<1> QED BY Zenon, <1>1, <1>2, <1>3, MoveKeeps

(* \dt never fails; \di does only for a table that another connection, inside *)
(* the lock, has named and not yet given an entry in index_names_.             *)
LEMMA ShowOneKeeps ==
  ASSUME IInv, NEW t \in Threads, NEW n \in Names, ShowOne(t, n)
  PROVE  IInv'
<1>1. /\ pc[t] = "show" /\ failed = "no"
      /\ UNCHANGED <<maps, catalog_lock_, stmt, bound>> /\ NoOids
  BY Zenon DEF ShowOne, At
<1>2. stmt[t] \in [kind : {"dt", "di"}] BY Zenon, <1>1 DEF IInv, PcKind
<1>3. ~NamedTableMissing(n) BY Zenon, NothingMissing
<1>4. CASE stmt[t].kind = "di" /\ IndexListBroken(n)
  <2>1. failed' = "Broken Invariant" /\ UNCHANGED <<pc, todo>> BY <1>4, Zenon DEF ShowOne, Fails
  <2>2. table_names_[n] # Absent /\ n \notin index_tables_ BY Zenon, <1>4, NothingMissing
  <2>3. PICK u \in Threads : pc[u] = "index_names" BY Zenon, <2>2 DEF IInv, TableMaps
  <2>4. catalog_lock_ = u /\ u # t BY Zenon, <1>1, <2>3, OneInside DEF Locked
  <2>5. OnlyIndexDisplayFails' BY <1>1, <1>4, <2>1, <2>4, Zenon DEF OnlyIndexDisplayFails
  <2> QED BY <1>1, <2>1, <2>5, FailKeeps, Zenon DEF FailStep, NoOids
<1>5. CASE ~(stmt[t].kind = "di" /\ IndexListBroken(n))
  <2>1. todo' = [todo EXCEPT ![t] = @ \ {n}] /\ UNCHANGED pc /\ failed' = "no"
    BY <1>1, <1>3, <1>5, Zenon DEF ShowOne
  <2>2. todo' \in [Threads -> SUBSET Names] BY <2>1, Zenon DEF IInv, TypeOK
  <2>3. pc' = [pc EXCEPT ![t] = "show"] BY <1>1, <2>1, Zenon DEF IInv, TypeOK
  <2> QED BY Zenon, <1>1, <1>2, <2>1, <2>2, <2>3, MoveKeeps
<1> QED BY Zenon, <1>4, <1>5

LEMMA ShowDoneKeeps ==
  ASSUME IInv, NEW t \in Threads, ShowDone(t)
  PROVE  IInv'
<1>1. /\ pc[t] = "show" /\ failed = "no" /\ pc' = [pc EXCEPT ![t] = "idle"]
      /\ failed' = "no" /\ UNCHANGED <<maps, catalog_lock_, stmt, bound, todo>> /\ NoOids
  BY Zenon DEF ShowDone, At, Goto
<1>2. todo' \in [Threads -> SUBSET Names] BY <1>1, Zenon DEF IInv, TypeOK
<1> QED BY Zenon, <1>1, <1>2, MoveKeeps

-----------------------------------------------------------------------------
(* The holder of the lock goes on inside it. *)
InsideStep(t, l) ==
    /\ pc[t] \in Locked /\ pc' = [pc EXCEPT ![t] = l]
    /\ failed = "no" /\ failed' = "no" /\ UNCHANGED <<catalog_lock_, stmt, todo>>

LEMMA InsideMoves ==
  ASSUME IInv, NEW t \in Threads, NEW l \in Locked, InsideStep(t, l)
  PROVE  /\ pc'[t] = l /\ \A u \in Threads \ {t} : pc'[u] = pc[u] /\ pc[u] \notin Locked
         /\ pc' \in [Threads -> {"idle", "bind", "plan", "execute", "dbg", "names", "show", "lock"} \cup Locked]
         /\ \A u \in Threads : catalog_lock_' = u <=> pc'[u] \in Locked
         /\ LockInv' /\ OnlyIndexDisplayFails'
<1>1. pc \in [Threads -> {"idle", "bind", "plan", "execute", "dbg", "names", "show", "lock"} \cup Locked]
  BY Zenon DEF IInv, TypeOK
<1>2. pc'[t] = l /\ \A u \in Threads \ {t} : pc'[u] = pc[u] /\ pc[u] \notin Locked
  BY Zenon, <1>1, OneInside DEF InsideStep
<1>3. pc' \in [Threads -> {"idle", "bind", "plan", "execute", "dbg", "names", "show", "lock"} \cup Locked]
  BY Zenon, <1>1 DEF InsideStep
<1>4. catalog_lock_' = t BY Zenon, OneInside DEF InsideStep
<1>5. \A u \in Threads : catalog_lock_' = u <=> pc'[u] \in Locked BY Zenon, <1>2, <1>4
<1> QED BY Zenon, <1>2, <1>3, <1>5 DEF LockInv, OnlyIndexDisplayFails, InsideStep

LEMMA EmplaceTableKeeps ==
  ASSUME IInv, NEW t \in Threads, EmplaceTable(t)
  PROVE  IInv'
<1> DEFINE n == stmt[t].table
           o == next_table_oid_
<1>1. /\ pc[t] = "tables" /\ InsideStep(t, "table_names")
      /\ tables_' = Emplace(tables_, o, n) /\ bound' = [bound EXCEPT ![t] = o]
      /\ next_table_oid_' = o + 1
      /\ UNCHANGED <<table_names_, index_tables_, index_names_, indexes_, next_index_oid_,
                     catalog_lock_, stmt, todo>>
  BY Zenon DEF EmplaceTable, At, Goto, InsideStep, Locked
<1>2. stmt[t] \in CreateStmts /\ stmt[t].kind = "create" /\ n \in Names
  BY Zenon, <1>1, StmtFields DEF IInv, PcKind
<1>3. "table_names" \in Locked BY Zenon DEF Locked
<1>4. /\ pc'[t] = "table_names" /\ \A u \in Threads \ {t} : pc'[u] = pc[u] /\ pc[u] \notin Locked
      /\ pc' \in [Threads -> {"idle", "bind", "plan", "execute", "dbg", "names", "show", "lock"} \cup Locked]
      /\ \A u \in Threads : catalog_lock_' = u <=> pc'[u] \in Locked
      /\ LockInv' /\ OnlyIndexDisplayFails'
  BY Zenon, <1>1, <1>3, InsideMoves
<1>5. TableMakers' \subseteq TableMakers /\ t \in TableMakers \ TableMakers'
      /\ IndexMakers' \subseteq IndexMakers
  BY Zenon, <1>1, <1>2, <1>4 DEF TableMakers, IndexMakers
<1>6. /\ Cardinality(TableMakers') + 1 <= Cardinality(TableMakers)
      /\ Cardinality(TableMakers) \in Nat /\ Cardinality(TableMakers') \in Nat
  BY Zenon, <1>5, FewerMakers DEF TableMakers
<1>7. /\ Cardinality(IndexMakers') <= Cardinality(IndexMakers)
      /\ Cardinality(IndexMakers) \in Nat /\ Cardinality(IndexMakers') \in Nat
  BY Zenon, <1>5, FewerMakers DEF IndexMakers
<1>8. o \in Nat \ {0} /\ next_index_oid_ \in Nat \ {0} /\ MaxOid \in Nat \ {0} BY Zenon, OidTypes
<1>9. o + Cardinality(TableMakers) <= MaxOid + 1 /\ next_index_oid_ + Cardinality(IndexMakers) <= MaxOid + 1
  BY Zenon DEF IInv, Counted
<1>10. o \in Oids BY <1>6, <1>8, <1>9 DEF Oids
<1>11. Counted' BY <1>1, <1>6, <1>7, <1>8, <1>9 DEF Counted
<1>21. tables_' = [tables_ EXCEPT ![o] = n]
  <2>1. tables_[o] = Absent BY <1>8, <1>10 DEF IInv, Fresh
  <2> QED BY Zenon, <1>1, <2>1 DEF Emplace
<1>12. tables_'[o] = n /\ (\A p \in Oids \ {o} : tables_'[p] = tables_[p])
       /\ bound'[t] = o /\ (\A u \in Threads \ {t} : bound'[u] = bound[u])
  BY <1>1, <1>10, <1>21, Zenon DEF IInv, TypeOK
<1>13. TypeOK'
  <2>1. tables_' \in [Oids -> Names \cup {Absent}] BY <1>2, <1>21, Zenon DEF IInv, TypeOK
  <2>2. bound' \in [Threads -> Oids \cup {Absent}] BY <1>1, <1>10, Zenon DEF IInv, TypeOK
  <2>3. next_table_oid_' \in 1..(MaxOid + 1)
    <3>1. next_table_oid_' = o + 1 BY <1>1, Zenon
    <3> QED BY <1>8, <1>10, <3>1 DEF Oids
  <2> QED BY <1>1, <1>4, <2>1, <2>2, <2>3, Zenon DEF IInv, TypeOK
<1>14. PcKind' BY Zenon, <1>1, <1>2, <1>4 DEF IInv, PcKind
<1>15. Fresh'
  <2>1. \A p \in Oids : p >= o + 1 => p \in Oids \ {o} /\ p >= o BY <1>8 DEF Oids
  <2>2. next_table_oid_' = o + 1 /\ UNCHANGED <<next_index_oid_, indexes_>> BY <1>1, Zenon
  <2> QED BY <1>12, <2>1, <2>2, Zenon DEF IInv, Fresh
<1>16. TableMaps'
  <2>1. ASSUME NEW m \in Names, table_names_[m] # Absent PROVE tables_'[table_names_[m]] = m
    <3>1. table_names_[m] \in Oids BY <2>1, Zenon DEF IInv, TypeOK
    <3>2. tables_[table_names_[m]] = m BY Zenon, <2>1 DEF IInv, TableMaps
    <3>3. m # Absent BY Zenon, CatalogAssumption
    <3>4. tables_[o] = Absent BY <1>8, <1>10 DEF IInv, Fresh
    <3> QED BY Zenon, <1>12, <3>1, <3>2, <3>3, <3>4
  <2>2. ASSUME NEW p \in Oids, tables_'[p] # Absent
        PROVE  table_names_[tables_'[p]] = p \/ \E u \in Threads : pc'[u] = "table_names" /\ bound'[u] = p
    <3>1. CASE p = o BY Zenon, <1>4, <1>12, <3>1
    <3>2. CASE p # o
      <4>1. \A u \in Threads : pc[u] # "table_names" BY Zenon, <1>1, <1>4 DEF Locked
      <4> QED BY <1>12, <2>2, <3>2, <4>1 DEF IInv, TableMaps
    <3> QED BY Zenon, <3>1, <3>2
  <2>3. \A u \in Threads : pc[u] # "index_names" BY Zenon, <1>1, <1>4 DEF Locked
  <2> QED BY <1>1, <2>1, <2>2, <2>3 DEF IInv, TableMaps
<1>17. Creating' BY <1>1, <1>4, <1>10, <1>12 DEF IInv, Creating, Locked
<1>18. IndexMaps'
  <2>1. \A u \in Threads : pc[u] # "table_indexes" BY Zenon, <1>1, <1>4 DEF Locked
  <2> QED BY <1>1, <2>1, Zenon DEF IInv, IndexMaps
<1>19. Indexing' BY <1>4, Zenon DEF Indexing, Locked
<1>20. BoundInv' BY Zenon, <1>1, <1>4, <1>12 DEF IInv, BoundInv
<1> QED BY Zenon, <1>4, <1>11, <1>13, <1>14, <1>15, <1>16, <1>17, <1>18, <1>19, <1>20 DEF IInv

LEMMA EmplaceTableNameKeeps ==
  ASSUME IInv, NEW t \in Threads, EmplaceTableName(t)
  PROVE  IInv'
<1> DEFINE n == stmt[t].table
<1>1. /\ pc[t] = "table_names" /\ InsideStep(t, "index_names")
      /\ table_names_' = Emplace(table_names_, n, bound[t])
      /\ UNCHANGED <<tables_, index_tables_, index_names_, indexes_, next_table_oid_, next_index_oid_,
                     catalog_lock_, stmt, bound, todo>>
  BY Zenon DEF EmplaceTableName, At, Goto, InsideStep, Locked, NoOids
<1>2. stmt[t] \in CreateStmts /\ stmt[t].kind = "create" /\ n \in Names
  BY Zenon, <1>1, StmtFields DEF IInv, PcKind
<1>3. "index_names" \in Locked BY Zenon DEF Locked
<1>4. /\ pc'[t] = "index_names" /\ \A u \in Threads \ {t} : pc'[u] = pc[u] /\ pc[u] \notin Locked
      /\ pc' \in [Threads -> {"idle", "bind", "plan", "execute", "dbg", "names", "show", "lock"} \cup Locked]
      /\ \A u \in Threads : catalog_lock_' = u <=> pc'[u] \in Locked
      /\ LockInv' /\ OnlyIndexDisplayFails'
  BY Zenon, <1>1, <1>3, InsideMoves
<1>5. bound[t] \in Oids /\ tables_[bound[t]] = n /\ table_names_[n] = Absent
  BY Zenon, <1>1 DEF IInv, Creating
<1>17. table_names_' = [table_names_ EXCEPT ![n] = bound[t]] BY Zenon, <1>1, <1>5 DEF Emplace
<1>6. table_names_'[n] = bound[t] /\ \A m \in Names \ {n} : table_names_'[m] = table_names_[m]
  BY <1>2, <1>17, Zenon DEF IInv, TypeOK
<1>7. \A o \in Oids : o # Absent BY DEF Oids
<1>8. TypeOK'
  <2>1. table_names_' \in [Names -> Oids \cup {Absent}] BY <1>5, <1>17, Zenon DEF IInv, TypeOK
  <2> QED BY <1>1, <1>4, <2>1, Zenon DEF IInv, TypeOK
<1>9. PcKind' BY Zenon, <1>1, <1>2, <1>4 DEF IInv, PcKind
<1>10. Counted'
  <2>1. TableMakers' \subseteq TableMakers /\ IndexMakers' \subseteq IndexMakers
    BY Zenon, <1>1, <1>4 DEF TableMakers, IndexMakers
  <2> QED BY Zenon, <1>1, <2>1, NoNewMakers DEF NoOids
<1>11. Fresh' BY Zenon, <1>1 DEF IInv, Fresh
<1>12. TableMaps'
  <2>1. \A m \in Names : table_names_'[m] # Absent => tables_[table_names_'[m]] = m
    BY <1>5, <1>6 DEF IInv, TableMaps
  <2>2. ASSUME NEW o \in Oids, tables_[o] # Absent PROVE table_names_'[tables_[o]] = o
    <3>1. tables_[o] \in Names BY <2>2, Zenon DEF IInv, TypeOK
    <3>2. CASE table_names_[tables_[o]] = o
      <4>1. tables_[o] # n BY Zenon, <1>5, <1>7, <3>2
      <4> QED BY Zenon, <1>6, <3>1, <3>2, <4>1
    <3>3. CASE \E u \in Threads : pc[u] = "table_names" /\ bound[u] = o
      <4>1. bound[t] = o BY Zenon, <1>4, <3>3 DEF Locked
      <4> QED BY Zenon, <1>5, <1>6, <4>1
    <3> QED BY Zenon, <2>2, <3>2, <3>3 DEF IInv, TableMaps
  <2>3. \A m \in index_tables_ : table_names_'[m] # Absent
    BY <1>5, <1>6, Zenon DEF IInv, TableMaps, TypeOK
  <2>4. ASSUME NEW m \in Names, table_names_'[m] # Absent
        PROVE  m \in index_tables_ \/ \E u \in Threads : pc'[u] = "index_names" /\ stmt[u].table = m
    <3>1. CASE m = n BY Zenon, <1>4, <3>1
    <3>2. CASE m # n
      <4>1. \A u \in Threads : pc[u] # "index_names" BY Zenon, <1>1, <1>4 DEF Locked
      <4> QED BY Zenon, <1>6, <2>4, <3>2, <4>1 DEF IInv, TableMaps
    <3> QED BY Zenon, <3>1, <3>2
  <2> QED BY Zenon, <1>1, <2>1, <2>2, <2>3, <2>4 DEF TableMaps
<1>13. Creating'
  <2>1. n \notin index_tables_ BY Zenon, <1>5 DEF IInv, TableMaps
  <2> QED BY Zenon, <1>1, <1>4, <1>5, <1>6, <1>7, <2>1 DEF Creating, Locked
<1>14. IndexMaps'
  <2>1. \A u \in Threads : pc[u] # "table_indexes" BY Zenon, <1>1, <1>4 DEF Locked
  <2> QED BY <1>1, <2>1, Zenon DEF IInv, IndexMaps
<1>15. Indexing' BY <1>4, Zenon DEF Indexing, Locked
<1>16. BoundInv'
  <2> SUFFICES ASSUME NEW u \in Threads,
                      pc'[u] \in {"plan", "execute"} \/ (pc'[u] = "lock" /\ stmt[u].kind = "index")
               PROVE  bound[u] # Absent /\ table_names_'[stmt[u].table] = bound[u]
    BY Zenon, <1>1 DEF BoundInv
  <2>1. u # t /\ pc'[u] = pc[u] BY Zenon, <1>4
  <2>2. bound[u] # Absent /\ table_names_[stmt[u].table] = bound[u] BY Zenon, <2>1 DEF IInv, BoundInv
  <2>3. stmt[u].table \in Names BY Zenon, <2>1, StmtFields DEF IInv, PcKind
  <2> QED BY Zenon, <1>5, <1>6, <2>2, <2>3
<1> QED BY Zenon, <1>4, <1>8, <1>9, <1>10, <1>11, <1>12, <1>13, <1>14, <1>15, <1>16 DEF IInv

LEMMA EmplaceIndexEntryKeeps ==
  ASSUME IInv, NEW t \in Threads, EmplaceIndexEntry(t)
  PROVE  IInv'
<1> DEFINE n == stmt[t].table
           l == IF stmt[t].pk = "ok" THEN "indexes" ELSE "unlock"
<1>1. /\ pc[t] = "index_names" /\ InsideStep(t, l)
      /\ index_tables_' = index_tables_ \cup {n}
      /\ UNCHANGED <<tables_, table_names_, index_names_, indexes_, next_table_oid_, next_index_oid_,
                     catalog_lock_, stmt, bound, todo>>
  BY Zenon DEF EmplaceIndexEntry, At, Goto, InsideStep, Locked, NoOids
<1>2. stmt[t] \in CreateStmts /\ stmt[t].kind = "create" /\ n \in Names
  BY Zenon, <1>1, StmtFields DEF IInv, PcKind
<1>3. l \in {"indexes", "unlock"} /\ l \in Locked BY Zenon DEF Locked
<1> HIDE DEF l
<1>4. /\ pc'[t] = l /\ \A u \in Threads \ {t} : pc'[u] = pc[u] /\ pc[u] \notin Locked
      /\ pc' \in [Threads -> {"idle", "bind", "plan", "execute", "dbg", "names", "show", "lock"} \cup Locked]
      /\ \A u \in Threads : catalog_lock_' = u <=> pc'[u] \in Locked
      /\ LockInv' /\ OnlyIndexDisplayFails'
  BY Zenon, <1>1, <1>3, InsideMoves
<1>5. table_names_[n] # Absent /\ n \notin index_tables_ BY <1>1, Zenon DEF IInv, Creating
<1>6. TypeOK' BY <1>1, <1>2, <1>4, Zenon DEF IInv, TypeOK
<1>7. PcKind' BY <1>1, <1>2, <1>3, <1>4, Zenon DEF IInv, PcKind
<1>8. Counted'
  <2>1. TableMakers' \subseteq TableMakers /\ IndexMakers' \subseteq IndexMakers
    BY Zenon, <1>1, <1>3, <1>4 DEF TableMakers, IndexMakers
  <2> QED BY Zenon, <1>1, <2>1, NoNewMakers DEF NoOids
<1>9. Fresh' BY Zenon, <1>1 DEF IInv, Fresh
<1>10. TableMaps'
  <2>1. \A o \in Oids : tables_[o] # Absent => table_names_[tables_[o]] = o
    BY <1>1, <1>4 DEF IInv, TableMaps, Locked
  <2>2. \A m \in index_tables_' : table_names_[m] # Absent BY Zenon, <1>1, <1>5 DEF IInv, TableMaps
  <2>3. \A m \in Names : table_names_[m] # Absent => m \in index_tables_'
    BY <1>1, <1>4 DEF IInv, TableMaps, Locked
  <2> QED BY Zenon, <1>1, <2>1, <2>2, <2>3 DEF IInv, TableMaps
<1>11. Creating' BY Zenon, <1>3, <1>4 DEF Creating, Locked
<1>12. IndexMaps'
  <2>1. \A u \in Threads : pc[u] # "table_indexes" BY Zenon, <1>1, <1>4 DEF Locked
  <2> QED BY <1>1, <2>1, Zenon DEF IInv, IndexMaps
<1>13. Indexing'
  <2>1. IndexOf(t) \in AllIndexNames /\ IndexOf(t)' = IndexOf(t)
    BY Zenon, <1>1, <1>2, IndexOfType DEF IndexOf
  <2>2. index_names_[n, IndexOf(t)] = Absent BY <1>2, <1>5, <2>1, Zenon DEF IInv, IndexMaps
  <2> QED BY <1>1, <1>3, <1>4, <2>1, <2>2, Zenon DEF Indexing, Locked
<1>14. BoundInv' BY Zenon, <1>1, <1>3, <1>4 DEF IInv, BoundInv
<1> QED BY Zenon, <1>4, <1>6, <1>7, <1>8, <1>9, <1>10, <1>11, <1>12, <1>13, <1>14 DEF IInv

LEMMA EmplaceIndexKeeps ==
  ASSUME IInv, NEW t \in Threads, EmplaceIndex(t)
  PROVE  IInv'
<1> DEFINE n == stmt[t].table
           o == next_index_oid_
<1>1. /\ pc[t] = "indexes" /\ InsideStep(t, "table_indexes")
      /\ indexes_' = Emplace(indexes_, o, n) /\ next_index_oid_' = o + 1
      /\ UNCHANGED <<tables_, table_names_, index_tables_, index_names_, next_table_oid_,
                     catalog_lock_, stmt, bound, todo>>
  BY Zenon DEF EmplaceIndex, At, Goto, InsideStep, Locked
<1>2. stmt[t] \in CreateStmts \cup IndexStmts /\ stmt[t].kind \in {"create", "index"} /\ n \in Names
  BY Zenon, <1>1, StmtFields DEF IInv, PcKind
<1>3. "table_indexes" \in Locked BY Zenon DEF Locked
<1>4. /\ pc'[t] = "table_indexes" /\ \A u \in Threads \ {t} : pc'[u] = pc[u] /\ pc[u] \notin Locked
      /\ pc' \in [Threads -> {"idle", "bind", "plan", "execute", "dbg", "names", "show", "lock"} \cup Locked]
      /\ \A u \in Threads : catalog_lock_' = u <=> pc'[u] \in Locked
      /\ LockInv' /\ OnlyIndexDisplayFails'
  BY Zenon, <1>1, <1>3, InsideMoves
<1>5. TableMakers' \subseteq TableMakers /\ t \in IndexMakers \ IndexMakers'
      /\ IndexMakers' \subseteq IndexMakers
  BY Zenon, <1>1, <1>2, <1>4 DEF TableMakers, IndexMakers
<1>6. /\ Cardinality(TableMakers') <= Cardinality(TableMakers)
      /\ Cardinality(TableMakers) \in Nat /\ Cardinality(TableMakers') \in Nat
  BY Zenon, <1>5, FewerMakers DEF TableMakers
<1>7. /\ Cardinality(IndexMakers') + 1 <= Cardinality(IndexMakers)
      /\ Cardinality(IndexMakers) \in Nat /\ Cardinality(IndexMakers') \in Nat
  BY Zenon, <1>5, FewerMakers DEF IndexMakers
<1>8. o \in Nat \ {0} /\ next_table_oid_ \in Nat \ {0} /\ MaxOid \in Nat \ {0} BY Zenon, OidTypes
<1>9. next_table_oid_ + Cardinality(TableMakers) <= MaxOid + 1 /\ o + Cardinality(IndexMakers) <= MaxOid + 1
  BY Zenon DEF IInv, Counted
<1>10. o \in Oids BY <1>7, <1>8, <1>9 DEF Oids
<1>11. Counted' BY <1>1, <1>6, <1>7, <1>8, <1>9 DEF Counted
<1>22. indexes_' = [indexes_ EXCEPT ![o] = n]
  <2>1. indexes_[o] = Absent BY <1>8, <1>10 DEF IInv, Fresh
  <2> QED BY Zenon, <1>1, <2>1 DEF Emplace
<1>12. indexes_'[o] = n /\ (\A p \in Oids \ {o} : indexes_'[p] = indexes_[p])
  BY <1>10, <1>22, Zenon DEF IInv, TypeOK
<1>13. next_index_oid_' = o + 1 /\ next_index_oid_' - 1 = o
  <2>1. next_index_oid_' = o + 1 BY <1>1, Zenon
  <2> QED BY <1>8, <2>1
<1>14. TypeOK'
  <2>1. indexes_' \in [Oids -> Names \cup {Absent}] BY <1>2, <1>22, Zenon DEF IInv, TypeOK
  <2>2. next_index_oid_' \in 1..(MaxOid + 1) BY <1>8, <1>10, <1>13 DEF Oids
  <2> QED BY <1>1, <1>4, <2>1, <2>2, Zenon DEF IInv, TypeOK
<1>15. PcKind' BY Zenon, <1>1, <1>2, <1>4 DEF IInv, PcKind
<1>16. Fresh'
  <2>1. \A p \in Oids : p >= o + 1 => p \in Oids \ {o} /\ p >= o BY <1>8 DEF Oids
  <2>2. UNCHANGED <<next_table_oid_, tables_>> BY <1>1, Zenon
  <2> QED BY <1>12, <1>13, <2>1, <2>2, Zenon DEF IInv, Fresh
<1>17. TableMaps' BY <1>1, <1>4, Zenon DEF IInv, TableMaps, Locked
<1>18. Creating' BY Zenon, <1>4 DEF Creating, Locked
<1>19. IndexMaps'
  <2>1. ASSUME NEW m \in Names, NEW x \in AllIndexNames, index_names_[m, x] # Absent
        PROVE  m \in index_tables_ /\ indexes_'[index_names_[m, x]] = m
    <3>1. index_names_[m, x] \in Oids BY <2>1, Zenon DEF IInv, TypeOK
    <3>2. m \in index_tables_ /\ indexes_[index_names_[m, x]] = m BY <2>1, Zenon DEF IInv, IndexMaps
    <3>3. m # Absent BY Zenon, CatalogAssumption
    <3>4. indexes_[o] = Absent BY <1>8, <1>10 DEF IInv, Fresh
    <3> QED BY Zenon, <1>12, <3>1, <3>2, <3>3, <3>4
  <2>2. ASSUME NEW p \in Oids, indexes_'[p] # Absent
        PROVE  \/ \E x \in AllIndexNames : index_names_[indexes_'[p], x] = p
               \/ \E u \in Threads : pc'[u] = "table_indexes" /\ p = next_index_oid_' - 1
    <3>1. CASE p = o BY Zenon, <1>4, <1>13, <3>1
    <3>2. CASE p # o
      <4>1. \A u \in Threads : pc[u] # "table_indexes" BY Zenon, <1>1, <1>4 DEF Locked
      <4>2. indexes_'[p] = indexes_[p] BY <1>12, <3>2, Zenon
      <4> QED BY <2>2, <4>1, <4>2, Zenon DEF IInv, IndexMaps
    <3> QED BY Zenon, <3>1, <3>2
  <2> QED BY <1>1, <2>1, <2>2, Zenon DEF IndexMaps
<1>20. Indexing'
  <2>1. n \in index_tables_ /\ index_names_[n, IndexOf(t)] = Absent BY <1>1, Zenon DEF IInv, Indexing
  <2>2. IndexOf(t)' = IndexOf(t) BY Zenon, <1>1 DEF IndexOf
  <2> QED BY <1>1, <1>4, <1>10, <1>12, <1>13, <2>1, <2>2, Zenon DEF Indexing, Locked
<1>21. BoundInv' BY Zenon, <1>1, <1>4 DEF IInv, BoundInv
<1> QED BY Zenon, <1>4, <1>11, <1>14, <1>15, <1>16, <1>17, <1>18, <1>19, <1>20, <1>21 DEF IInv

LEMMA EmplaceIndexNameKeeps ==
  ASSUME IInv, NEW t \in Threads, EmplaceIndexName(t)
  PROVE  IInv'
<1> DEFINE n == stmt[t].table
           o == next_index_oid_ - 1
           y == IndexOf(t)
<1>1. /\ pc[t] = "table_indexes" /\ InsideStep(t, "unlock")
      /\ index_names_' = Emplace(index_names_, <<n, y>>, o)
      /\ UNCHANGED <<tables_, table_names_, index_tables_, indexes_, next_table_oid_, next_index_oid_,
                     catalog_lock_, stmt, bound, todo>>
  BY Zenon DEF EmplaceIndexName, At, Goto, InsideStep, Locked, NoOids
<1>2. stmt[t] \in CreateStmts \cup IndexStmts /\ n \in Names /\ y \in AllIndexNames
  BY Zenon, <1>1, StmtFields, IndexOfType DEF IInv, PcKind
<1>3. "unlock" \in Locked BY Zenon DEF Locked
<1>4. /\ pc'[t] = "unlock" /\ \A u \in Threads \ {t} : pc'[u] = pc[u] /\ pc[u] \notin Locked
      /\ pc' \in [Threads -> {"idle", "bind", "plan", "execute", "dbg", "names", "show", "lock"} \cup Locked]
      /\ \A u \in Threads : catalog_lock_' = u <=> pc'[u] \in Locked
      /\ LockInv' /\ OnlyIndexDisplayFails'
  BY Zenon, <1>1, <1>3, InsideMoves
<1>5. n \in index_tables_ /\ index_names_[n, y] = Absent /\ o \in Oids /\ indexes_[o] = n
  BY <1>1, Zenon DEF IInv, Indexing
<1> HIDE DEF y, o
<1>16. index_names_' = [index_names_ EXCEPT ![<<n, y>>] = o] BY Zenon, <1>1, <1>5 DEF Emplace
<1>6. /\ index_names_' \in [Names \X AllIndexNames -> Oids \cup {Absent}]
      /\ index_names_'[n, y] = o
      /\ \A m \in Names, x \in AllIndexNames : <<m, x>> # <<n, y>> => index_names_'[m, x] = index_names_[m, x]
  BY <1>2, <1>5, <1>16, Zenon DEF IInv, TypeOK
<1>7. TypeOK' BY <1>1, <1>4, <1>6, Zenon DEF IInv, TypeOK
<1>8. PcKind' BY <1>1, <1>2, <1>4, Zenon DEF IInv, PcKind
<1>9. Counted'
  <2>1. TableMakers' \subseteq TableMakers /\ IndexMakers' \subseteq IndexMakers
    BY Zenon, <1>1, <1>4 DEF TableMakers, IndexMakers
  <2> QED BY Zenon, <1>1, <2>1, NoNewMakers DEF NoOids
<1>10. Fresh' BY Zenon, <1>1 DEF IInv, Fresh
<1>11. TableMaps' BY Zenon, <1>1, <1>4 DEF IInv, TableMaps, Locked
<1>12. Creating' BY Zenon, <1>4 DEF Creating, Locked
<1>13. IndexMaps'
  <2>1. ASSUME NEW m \in Names, NEW x \in AllIndexNames, index_names_'[m, x] # Absent
        PROVE  m \in index_tables_ /\ indexes_[index_names_'[m, x]] = m
    <3>1. CASE m = n /\ x = y BY Zenon, <1>5, <1>6, <3>1
    <3>2. CASE ~(m = n /\ x = y)
      <4>1. index_names_'[m, x] = index_names_[m, x] BY Zenon, <1>6, <3>2
      <4> QED BY <2>1, <4>1, Zenon DEF IInv, IndexMaps
    <3> QED BY Zenon, <3>1, <3>2
  <2>2. ASSUME NEW p \in Oids, indexes_[p] # Absent
        PROVE  \E x \in AllIndexNames : index_names_'[indexes_[p], x] = p
    <3>1. CASE p = o BY Zenon, <1>2, <1>5, <1>6, <3>1
    <3>2. CASE p # o
      <4>1. \A u \in Threads : pc[u] = "table_indexes" => u = t BY Zenon, <1>4 DEF Locked
      <4>2. PICK x \in AllIndexNames : index_names_[indexes_[p], x] = p
        BY <2>2, <3>2, <4>1, Zenon DEF IInv, IndexMaps, o
      <4>3. p # Absent /\ indexes_[p] \in Names
        <5>1. p # Absent BY DEF Oids
        <5>2. indexes_[p] \in Names BY <2>2, Zenon DEF IInv, TypeOK
        <5> QED BY Zenon, <5>1, <5>2
      <4>4. ~(indexes_[p] = n /\ x = y) BY Zenon, <1>5, <4>2, <4>3
      <4> QED BY Zenon, <1>6, <4>2, <4>3, <4>4
    <3> QED BY Zenon, <3>1, <3>2
  <2> QED BY <1>1, <2>1, <2>2, Zenon DEF IndexMaps
<1>14. Indexing' BY <1>4, Zenon DEF Indexing, Locked
<1>15. BoundInv' BY <1>1, <1>4, Zenon DEF IInv, BoundInv
<1> QED BY <1>4, <1>7, <1>8, <1>9, <1>10, <1>11, <1>12, <1>13, <1>14, <1>15, Zenon DEF IInv

-----------------------------------------------------------------------------
(* A CREATE gets the free lock. *)
LEMMA TakeKeeps ==
  ASSUME IInv, NEW t \in Threads, NEW l \in {"tables", "indexes", "unlock"},
         failed = "no", failed' = "no", pc[t] = "lock", Lock(t), pc' = [pc EXCEPT ![t] = l],
         UNCHANGED <<maps, stmt, bound, todo>>, NoOids,
         l = "tables" => stmt[t] \in CreateStmts /\ table_names_[stmt[t].table] = Absent,
         l = "indexes" => /\ stmt[t].table \in index_tables_
                          /\ index_names_[stmt[t].table, IndexOf(t)] = Absent
  PROVE  IInv'
<1>1. catalog_lock_ = NoThread /\ catalog_lock_' = t BY Zenon DEF Lock
<1>2. \A u \in Threads : pc[u] \notin Locked BY Zenon, <1>1, NoneInside
<1>3. l \in Locked BY Zenon DEF Locked
<1>4. pc \in [Threads -> {"idle", "bind", "plan", "execute", "dbg", "names", "show", "lock"} \cup Locked]
  BY Zenon DEF IInv, TypeOK
<1>5. pc'[t] = l /\ \A u \in Threads \ {t} : pc'[u] = pc[u] BY Zenon, <1>4
<1>6. pc' \in [Threads -> {"idle", "bind", "plan", "execute", "dbg", "names", "show", "lock"} \cup Locked]
  BY Zenon, <1>3, <1>4
<1>7. \A u \in Threads : catalog_lock_' = u <=> pc'[u] \in Locked BY Zenon, <1>1, <1>2, <1>3, <1>5
<1>8. UNCHANGED <<tables_, table_names_, index_tables_, index_names_, indexes_>> BY Zenon DEF maps
<1>9. UNCHANGED <<next_table_oid_, next_index_oid_>> BY Zenon DEF NoOids
<1>10. TypeOK' BY <1>1, <1>6, <1>7, <1>8, <1>9, Zenon DEF IInv, TypeOK
<1>11. PcKind' BY <1>5, Zenon DEF IInv, PcKind
<1>12. Counted'
  <2>1. TableMakers' \subseteq TableMakers /\ IndexMakers' \subseteq IndexMakers
    BY <1>5, Zenon DEF TableMakers, IndexMakers
  <2> QED BY Zenon, <2>1, NoNewMakers
<1>13. LockInv' BY <1>7, Zenon DEF LockInv
<1>14. Fresh' BY <1>8, <1>9, Zenon DEF IInv, Fresh
<1>15. TableMaps' BY <1>2, <1>8, AgreeUnlocked, Zenon DEF IInv, TableMaps
<1>16. Creating' BY <1>2, <1>5, <1>8, Zenon DEF Creating, Locked
<1>17. IndexMaps' BY <1>2, <1>8, <1>9, AgreeUnlocked, Zenon DEF IInv, IndexMaps
<1>18. Indexing'
  <2>1. IndexOf(t)' = IndexOf(t) BY Zenon DEF IndexOf
  <2> QED BY <1>2, <1>5, <1>8, <2>1, Zenon DEF Indexing, Locked
<1>19. BoundInv' BY <1>5, <1>8, Zenon DEF IInv, BoundInv
<1>20. OnlyIndexDisplayFails' BY Zenon DEF OnlyIndexDisplayFails
<1> QED BY <1>10, <1>11, <1>12, <1>13, <1>14, <1>15, <1>16, <1>17, <1>18, <1>19, <1>20, Zenon DEF IInv

LEMMA CreateBeginKeeps ==
  ASSUME IInv, NEW t \in Threads, CreateBegin(t)
  PROVE  IInv'
<1>1. /\ failed = "no" /\ pc[t] = "lock" /\ stmt[t].kind = "create" /\ Lock(t)
      /\ UNCHANGED <<maps, stmt, bound, todo>> /\ NoOids
  BY Zenon DEF CreateBegin, At
<1>2. stmt[t] \in CreateStmts BY Zenon, <1>1, StmtFields DEF IInv, PcKind
<1>3. CASE ~Exists(t)
  <2>1. pc' = [pc EXCEPT ![t] = "tables"] /\ failed' = "no" BY <1>1, <1>3, Zenon DEF CreateBegin, Goto
  <2> QED BY <1>1, <1>2, <1>3, <2>1, TakeKeeps, Zenon DEF Exists
<1>4. CASE Exists(t) /\ stmt[t].pk = "none"
  <2>1. pc' = [pc EXCEPT ![t] = "unlock"] /\ failed' = "no" BY Zenon, <1>1, <1>4 DEF CreateBegin, Goto
  <2> QED BY Zenon, <1>1, <2>1, TakeKeeps
<1>5. CASE Exists(t) /\ stmt[t].pk # "none"
  <2>1. failed' = "NULL_TABLE_INFO dereferenced" /\ UNCHANGED pc BY <1>5, Zenon DEF CreateBegin, Fails
  <2> QED BY <1>1, <2>1, FailKeeps, Zenon DEF FailStep, OnlyIndexDisplayFails, Lock, NoOids
<1> QED BY Zenon, <1>3, <1>4, <1>5

(* CREATE INDEX has bound its table, so that index_names_ has an entry. *)
LEMMA IndexBeginKeeps ==
  ASSUME IInv, NEW t \in Threads, IndexBegin(t)
  PROVE  IInv'
<1>1. /\ failed = "no" /\ pc[t] = "lock" /\ stmt[t].kind = "index" /\ Lock(t)
      /\ UNCHANGED <<maps, stmt, bound, todo>> /\ NoOids
  BY Zenon DEF IndexBegin, At
<1>2. stmt[t] \in IndexStmts /\ stmt[t].table \in Names BY Zenon, <1>1, StmtFields DEF IInv, PcKind
<1>3. table_names_[stmt[t].table] # Absent BY Zenon, <1>1 DEF IInv, BoundInv
<1>4. stmt[t].table \in index_tables_ BY <1>1, <1>2, <1>3, NoneInside, AgreeUnlocked, Zenon DEF Lock
<1>5. CASE index_names_[stmt[t].table, IndexOf(t)] = Absent
  <2>1. pc' = [pc EXCEPT ![t] = "indexes"] /\ failed' = "no" BY <1>1, <1>4, <1>5, Zenon DEF IndexBegin, Goto
  <2> QED BY Zenon, <1>1, <1>4, <1>5, <2>1, TakeKeeps
<1>6. CASE index_names_[stmt[t].table, IndexOf(t)] # Absent
  <2>1. pc' = [pc EXCEPT ![t] = "unlock"] /\ failed' = "no" BY <1>1, <1>4, <1>6, Zenon DEF IndexBegin, Goto
  <2> QED BY Zenon, <1>1, <2>1, TakeKeeps
<1> QED BY Zenon, <1>5, <1>6

LEMMA UnlockKeeps ==
  ASSUME IInv, NEW t \in Threads, Unlock(t)
  PROVE  IInv'
<1>1. /\ failed = "no" /\ failed' = "no" /\ pc[t] = "unlock" /\ catalog_lock_' = NoThread
      /\ pc' = [pc EXCEPT ![t] = "idle"]
      /\ UNCHANGED <<tables_, table_names_, index_tables_, index_names_, indexes_, next_table_oid_,
                     next_index_oid_, stmt, bound, todo>>
  BY Zenon DEF Unlock, At, Goto, maps, NoOids
<1>2. pc \in [Threads -> {"idle", "bind", "plan", "execute", "dbg", "names", "show", "lock"} \cup Locked]
  BY Zenon DEF IInv, TypeOK
<1>3. pc'[t] = "idle" /\ \A u \in Threads \ {t} : pc'[u] = pc[u] BY Zenon, <1>1, <1>2
<1>4. pc' \in [Threads -> {"idle", "bind", "plan", "execute", "dbg", "names", "show", "lock"} \cup Locked]
  BY Zenon, <1>1, <1>2
<1>5. \A u \in Threads \ {t} : pc[u] \notin Locked BY <1>1, OneInside, Zenon DEF Locked
<1>6. \A u \in Threads : pc'[u] \notin Locked BY Zenon, <1>3, <1>5 DEF Locked
<1>7. NoThread \notin Threads BY Zenon, CatalogAssumption
<1>8. TypeOK' BY <1>1, <1>4, <1>6, <1>7, Zenon DEF IInv, TypeOK
<1>9. PcKind' BY <1>1, <1>3, Zenon DEF IInv, PcKind
<1>10. Counted'
  <2>1. TableMakers' \subseteq TableMakers /\ IndexMakers' \subseteq IndexMakers
    BY <1>1, <1>3, Zenon DEF TableMakers, IndexMakers
  <2> QED BY <1>1, <2>1, NoNewMakers, Zenon DEF NoOids
<1>11. LockInv' BY Zenon, <1>6 DEF LockInv
<1>12. Fresh' BY <1>1, Zenon DEF IInv, Fresh
<1>13. TableMaps' BY <1>1, <1>5, Zenon DEF IInv, TableMaps, Locked
<1>14. Creating' BY Zenon, <1>6 DEF Creating, Locked
<1>15. IndexMaps' BY <1>1, <1>5, Zenon DEF IInv, IndexMaps, Locked
<1>16. Indexing' BY <1>6, Zenon DEF Indexing, Locked
<1>17. BoundInv' BY <1>1, <1>3, Zenon DEF IInv, BoundInv
<1>18. OnlyIndexDisplayFails' BY <1>1, Zenon DEF OnlyIndexDisplayFails
<1> QED BY Zenon, <1>8, <1>9, <1>10, <1>11, <1>12, <1>13, <1>14, <1>15, <1>16, <1>17, <1>18 DEF IInv

-----------------------------------------------------------------------------
LEMMA InitIInv ==
  ASSUME Init
  PROVE  IInv
<1>1. MaxOid \in Nat \ {0} BY Zenon, CatalogAssumption
<1>2. NoThread \notin Threads BY Zenon, CatalogAssumption
<1>3. \A t \in Threads : pc[t] = "idle" BY Zenon DEF Init
<1>4. TableMakers = {} /\ IndexMakers = {} BY Zenon, <1>3 DEF TableMakers, IndexMakers
<1>5. Counted
  <2>1. next_table_oid_ = 1 /\ next_index_oid_ = 1 BY Zenon DEF Init
  <2>2. Cardinality({}) = 0 BY Zenon, FS_EmptySet
  <2> QED BY <1>1, <1>4, <2>1, <2>2 DEF Counted
<1>6. TypeOK
  <2>1. next_table_oid_ \in 1..(MaxOid + 1) /\ next_index_oid_ \in 1..(MaxOid + 1)
    <3>1. next_table_oid_ = 1 /\ next_index_oid_ = 1 BY Zenon DEF Init
    <3> QED BY <1>1, <3>1
  <2>2. \A t \in Threads : catalog_lock_ = t <=> pc[t] \in Locked BY <1>2, <1>3, Zenon DEF Init, Locked
  <2> QED BY <2>1, <2>2, Zenon DEF Init, TypeOK
<1>7. PcKind BY Zenon, <1>3 DEF PcKind
<1>8. LockInv BY Zenon, <1>3 DEF LockInv, Locked
<1>9. Fresh BY Zenon DEF Init, Fresh
<1>10. TableMaps BY Zenon DEF Init, TableMaps
<1>11. Creating BY Zenon, <1>3 DEF Creating
<1>12. IndexMaps BY Zenon DEF Init, IndexMaps
<1>13. Indexing BY <1>3, Zenon DEF Indexing
<1>14. BoundInv BY Zenon, <1>3 DEF BoundInv
<1>15. OnlyIndexDisplayFails BY Zenon DEF Init, OnlyIndexDisplayFails
<1> QED BY Zenon, <1>5, <1>6, <1>7, <1>8, <1>9, <1>10, <1>11, <1>12, <1>13, <1>14, <1>15 DEF IInv

LEMMA NextKeeps ==
  ASSUME IInv, [Next]_vars
  PROVE  IInv'
<1>1. ASSUME NEW t \in Threads, NEW s \in Stmts, Start(t, s) PROVE IInv' BY Zenon, <1>1, StartKeeps
<1>2. ASSUME NEW t \in Threads, Continue(t) PROVE IInv'
  <2>1. CASE Bind(t) BY Zenon, <2>1, BindKeeps
  <2>2. CASE Plan(t) BY Zenon, <2>2, PlanKeeps
  <2>3. CASE Execute(t) BY Zenon, <2>3, ExecuteKeeps
  <2>4. CASE CmdDbgMvcc(t) BY Zenon, <2>4, CmdDbgMvccKeeps
  <2>5. CASE GetTableNames(t) BY Zenon, <2>5, GetTableNamesKeeps
  <2>6. CASE \E n \in Names : ShowOne(t, n) BY Zenon, <2>6, ShowOneKeeps
  <2>7. CASE ShowDone(t) BY Zenon, <2>7, ShowDoneKeeps
  <2>8. CASE CreateBegin(t) BY Zenon, <2>8, CreateBeginKeeps
  <2>9. CASE EmplaceTable(t) BY Zenon, <2>9, EmplaceTableKeeps
  <2>10. CASE EmplaceTableName(t) BY Zenon, <2>10, EmplaceTableNameKeeps
  <2>11. CASE EmplaceIndexEntry(t) BY Zenon, <2>11, EmplaceIndexEntryKeeps
  <2>12. CASE IndexBegin(t) BY Zenon, <2>12, IndexBeginKeeps
  <2>13. CASE EmplaceIndex(t) BY Zenon, <2>13, EmplaceIndexKeeps
  <2>14. CASE EmplaceIndexName(t) BY Zenon, <2>14, EmplaceIndexNameKeeps
  <2>15. CASE Unlock(t) BY Zenon, <2>15, UnlockKeeps
  <2> QED BY Zenon, <1>2, <2>1, <2>2, <2>3, <2>4, <2>5, <2>6, <2>7, <2>8, <2>9, <2>10, <2>11, <2>12,
             <2>13, <2>14, <2>15 DEF Continue
<1>3. CASE UNCHANGED vars
  <2>1. UNCHANGED <<tables_, table_names_, index_tables_, index_names_, indexes_, next_table_oid_,
                    next_index_oid_, catalog_lock_, pc, stmt, bound, todo, failed>>
    BY Zenon, <1>3 DEF vars, maps
  <2>2. TypeOK' BY <2>1, Zenon DEF IInv, TypeOK
  <2>3. PcKind' /\ LockInv' /\ OnlyIndexDisplayFails' BY <2>1, Zenon DEF IInv, PcKind, LockInv, OnlyIndexDisplayFails
  <2>4. Counted' BY Zenon, <2>1 DEF IInv, Counted, TableMakers, IndexMakers
  <2>5. Fresh' /\ Creating' /\ BoundInv' BY <2>1, Zenon DEF IInv, Fresh, Creating, BoundInv
  <2>6. TableMaps' BY Zenon, <2>1 DEF IInv, TableMaps
  <2>7. IndexMaps' BY <2>1, Zenon DEF IInv, IndexMaps
  <2>8. Indexing' BY <2>1, Zenon DEF IInv, Indexing, IndexOf
  <2> QED BY Zenon, <2>2, <2>3, <2>4, <2>5, <2>6, <2>7, <2>8 DEF IInv
<1> QED BY Zenon, <1>1, <1>2, <1>3 DEF Next

LEMMA IInvHolds == Spec => []IInv
BY InitIInv, NextKeeps, PTL DEF Spec

(* The invariant gives NamesResolve: with the lock free nobody is at one of *)
(* the labels at which the maps differ.                                     *)
LEMMA MapsAgree ==
  ASSUME IInv
  PROVE  NamesResolve
<1>1. ASSUME catalog_lock_ = NoThread PROVE ConsistentUnlocked
  <2>1. \A u \in Threads : pc[u] \notin Locked BY Zenon, <1>1, NoneInside
  <2>2. index_tables_ \subseteq Names BY Zenon DEF IInv, TypeOK
  <2>3. index_tables_ = {n \in Names : table_names_[n] # Absent} BY Zenon, <2>1, <2>2, AgreeUnlocked
  <2> QED BY <2>1, <2>3, AgreeUnlocked, Zenon DEF ConsistentUnlocked
<1>2. ConsistentUnlocked BY <1>1, Zenon DEF ConsistentUnlocked
<1>3. \A n \in Names : table_names_[n] # Absent => tables_[table_names_[n]] = n BY Zenon DEF IInv, TableMaps
<1>4. \A n \in Names, x \in AllIndexNames :
         index_names_[n, x] # Absent => indexes_[index_names_[n, x]] = n
  BY Zenon DEF IInv, IndexMaps
<1> QED BY <1>2, <1>3, <1>4, Zenon DEF NamesResolve

(* For any connections and names: whoever follows a name without            *)
(* catalog_lock_, in the middle of a CreateTable or a CreateIndex, gets the *)
(* table or the index of that name, and whenever the lock is free the maps  *)
(* of the catalog agree.                                                    *)
THEOREM NamesAlwaysResolve == Spec => []NamesResolve
BY IInvHolds, MapsAgree, PTL

(* The table BindStatement finds without the lock is the table of that name *)
(* for as long as the statement is planned and executed.                    *)
THEOREM BindingsStay == Spec => []BoundStays
<1>1. IInv => BoundStays BY Zenon DEF IInv, BoundInv, BoundStays
<1> QED BY IInvHolds, <1>1, PTL

(* The assertions of GetTable, CreateIndex and GetTableIndexes hold for     *)
(* every statement but a \di that runs beside another connection's CREATE.  *)
THEOREM AssertionsHold == Spec => []OnlyIndexDisplayFails
<1>1. IInv => OnlyIndexDisplayFails BY Zenon DEF IInv
<1> QED BY IInvHolds, <1>1, PTL

(* catalog_lock_ is held exactly between a statement's lock() and unlock(), *)
(* and the oids handed out stay within the maps.                            *)
THEOREM CatalogTypeCorrect == Spec => []TypeOK
<1>1. IInv => TypeOK BY Zenon DEF IInv
<1> QED BY IInvHolds, <1>1, PTL
=============================================================================
