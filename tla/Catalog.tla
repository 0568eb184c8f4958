------------------------------ MODULE Catalog ------------------------------
(***************************************************************************)
(* The catalog (include/catalog/catalog.h) under the statements of several *)
(* connections: CREATE TABLE and CREATE INDEX (common/bustub_ddl.cpp),     *)
(* queries, \dt, \di and \dbgmvcc (common/bustub_instance.cpp).            *)
(* catalog_lock_ is taken exclusively by the two CREATEs and shared while  *)
(* a query is planned and by \dbgmvcc; binding, \dt and \di read the       *)
(* catalog without it.  An update of one of the hash maps, and a lookup in *)
(* one, is a step.  Oids are numbered from 1; 0 is an absent entry.        *)
(***************************************************************************)
EXTENDS Integers, FiniteSets

CONSTANTS
    Threads,        \* connections
    Names,          \* table names
    IndexNames,     \* names of CREATE INDEX; every table also has its <table>_pk
    MaxOid          \* bound on the tables and on the indexes created

Absent == 0
Oids == 1..MaxOid
PK == "pk"
AllIndexNames == IndexNames \cup {PK}
NoThread == "no thread"

ASSUME CatalogAssumption ==
    /\ MaxOid \in Nat \ {0} /\ IsFiniteSet(Threads)
    /\ NoThread \notin Threads /\ Absent \notin Names

VARIABLES
    tables_,        \* table oid -> name of the TableInfo, or Absent
    table_names_,   \* name -> table oid, or Absent
    index_tables_,  \* names that have an entry in index_names_
    index_names_,   \* <<table name, index name>> -> index oid, or Absent
    indexes_,       \* index oid -> table name of the IndexInfo, or Absent
    next_table_oid_, next_index_oid_,
    catalog_lock_,  \* the thread that holds it exclusively
    pc, stmt,       \* statement a thread is executing
    bound,          \* table oid a thread has bound, or made
    todo,           \* names a \dt or \di has still to show
    failed          \* the assertion or null pointer that ended the process

maps == <<tables_, table_names_, index_tables_, index_names_, indexes_>>
vars == <<maps, next_table_oid_, next_index_oid_, catalog_lock_, pc, stmt, bound, todo, failed>>

NoStmt == [kind |-> "none"]
CreateStmts == [kind : {"create"}, table : Names, pk : {"none", "ok", "rejected"}]
IndexStmts == [kind : {"index"}, table : Names, index : IndexNames]
QueryStmts == [kind : {"query"}, table : Names]
DbgStmts == [kind : {"dbgmvcc"}, table : Names]
Stmts == CreateStmts \cup IndexStmts \cup QueryStmts \cup DbgStmts \cup [kind : {"dt", "di"}]

Init ==
    /\ tables_ = [o \in Oids |-> Absent] /\ table_names_ = [n \in Names |-> Absent]
    /\ index_tables_ = {} /\ index_names_ = [x \in Names \X AllIndexNames |-> Absent]
    /\ indexes_ = [o \in Oids |-> Absent]
    /\ next_table_oid_ = 1 /\ next_index_oid_ = 1 /\ catalog_lock_ = NoThread
    /\ pc = [t \in Threads |-> "idle"] /\ stmt = [t \in Threads |-> NoStmt]
    /\ bound = [t \in Threads |-> Absent] /\ todo = [t \in Threads |-> {}]
    /\ failed = "no"

Goto(t, label) == pc' = [pc EXCEPT ![t] = label]
At(t, label) == failed = "no" /\ pc[t] = label
Fails(why) == failed' = why /\ UNCHANGED pc

(* emplace of a hash map: an entry that is there is kept. *)
Emplace(entries, key, value) ==
    IF entries[key] = Absent THEN [entries EXCEPT ![key] = value] ELSE entries

NoOids == UNCHANGED <<next_table_oid_, next_index_oid_>>

FirstStep(s) ==
    CASE s.kind = "create" -> "lock"
      [] s.kind \in {"index", "query"} -> "bind"
      [] s.kind \in {"dt", "di"} -> "names"
      [] s.kind = "dbgmvcc" -> "dbg"

Running(kinds) == Cardinality({u \in Threads : pc[u] # "idle" /\ stmt[u].kind \in kinds})

(* ExecuteSqlTxn has parsed a statement. *)
Start(t, s) ==
    /\ At(t, "idle") /\ stmt' = [stmt EXCEPT ![t] = s] /\ Goto(t, FirstStep(s))
    /\ s.kind = "create" => next_table_oid_ + Running({"create"}) <= MaxOid
    /\ s.kind \in {"create", "index"} => next_index_oid_ + Running({"create", "index"}) <= MaxOid
    /\ UNCHANGED <<maps, catalog_lock_, bound, todo, failed>> /\ NoOids

-----------------------------------------------------------------------------
(* Catalog::GetTable by name, asserting that the oid is there. *)
NamedTableMissing(n) == table_names_[n] # Absent /\ tables_[table_names_[n]] = Absent

(* Catalog::GetTableIndexes: its two assertions. *)
IndexListBroken(n) ==
    /\ table_names_[n] # Absent
    /\ \/ n \notin index_tables_
       \/ \E x \in AllIndexNames : index_names_[n, x] # Absent /\ indexes_[index_names_[n, x]] = Absent

(* BindStatement: the binder looks the table up without catalog_lock_.     *)
(* A name that is not there is an exception.                                *)
Bind(t) ==
    /\ At(t, "bind")
    /\ IF NamedTableMissing(stmt[t].table) THEN Fails("Broken Invariant") /\ UNCHANGED bound
       ELSE /\ bound' = [bound EXCEPT ![t] = table_names_[stmt[t].table]]
            /\ Goto(t, IF table_names_[stmt[t].table] = Absent THEN "idle"
                       ELSE IF stmt[t].kind = "query" THEN "plan" ELSE "lock")
            /\ UNCHANGED failed
    /\ UNCHANGED <<maps, catalog_lock_, stmt, todo>> /\ NoOids

(* Planner and optimizer, under the shared lock: GetTable and               *)
(* GetTableIndexes again, by name.                                          *)
Plan(t) ==
    /\ At(t, "plan") /\ catalog_lock_ = NoThread
    /\ IF NamedTableMissing(stmt[t].table) \/ IndexListBroken(stmt[t].table)
       THEN Fails("Broken Invariant")
       ELSE Goto(t, "execute") /\ UNCHANGED failed
    /\ UNCHANGED <<maps, catalog_lock_, stmt, bound, todo>> /\ NoOids

(* The plan is executed with no lock. *)
Execute(t) ==
    /\ At(t, "execute") /\ Goto(t, "idle")
    /\ UNCHANGED <<maps, catalog_lock_, stmt, bound, todo, failed>> /\ NoOids

(* CmdDbgMvcc looks the table up under the shared lock and walks its        *)
(* versions; a name that is not there is reported.                          *)
CmdDbgMvcc(t) ==
    /\ At(t, "dbg") /\ catalog_lock_ = NoThread
    /\ IF NamedTableMissing(stmt[t].table) THEN Fails("Broken Invariant")
       ELSE Goto(t, "idle") /\ UNCHANGED failed
    /\ UNCHANGED <<maps, catalog_lock_, stmt, bound, todo>> /\ NoOids

(* CmdDisplayTables and CmdDisplayIndices, without catalog_lock_: the names *)
(* first, then GetTable or GetTableIndexes of each.                         *)
GetTableNames(t) ==
    /\ At(t, "names") /\ Goto(t, "show")
    /\ todo' = [todo EXCEPT ![t] = {n \in Names : table_names_[n] # Absent}]
    /\ UNCHANGED <<maps, catalog_lock_, stmt, bound, failed>> /\ NoOids

ShowOne(t, n) ==
    /\ At(t, "show") /\ n \in todo[t]
    /\ IF \/ stmt[t].kind = "dt" /\ NamedTableMissing(n)
          \/ stmt[t].kind = "di" /\ IndexListBroken(n)
       THEN Fails("Broken Invariant") /\ UNCHANGED todo
       ELSE todo' = [todo EXCEPT ![t] = @ \ {n}] /\ UNCHANGED <<pc, failed>>
    /\ UNCHANGED <<maps, catalog_lock_, stmt, bound>> /\ NoOids

ShowDone(t) ==
    /\ At(t, "show") /\ todo[t] = {} /\ Goto(t, "idle")
    /\ UNCHANGED <<maps, catalog_lock_, stmt, bound, todo, failed>> /\ NoOids

-----------------------------------------------------------------------------
Lock(t) == catalog_lock_ = NoThread /\ catalog_lock_' = t

Exists(t) == table_names_[stmt[t].table] # Absent

(* HandleCreateStatement takes the lock and calls CreateTable.  When the    *)
(* table exists CreateTable returns NULL_TABLE_INFO; with a primary key its *)
(* schema is then read through the null pointer, without one the statement  *)
(* is rejected.                                                             *)
CreateBegin(t) ==
    /\ At(t, "lock") /\ stmt[t].kind = "create" /\ Lock(t)
    /\ CASE ~Exists(t) -> Goto(t, "tables") /\ UNCHANGED failed
         [] Exists(t) /\ stmt[t].pk = "none" -> Goto(t, "unlock") /\ UNCHANGED failed
         [] OTHER -> Fails("NULL_TABLE_INFO dereferenced")
    /\ UNCHANGED <<maps, stmt, bound, todo>> /\ NoOids

(* Mutant: the name is published before the table. *)
EmplaceTable_NameFirst(t) ==
    /\ At(t, "tables") /\ Goto(t, "table_names")
    /\ table_names_' = Emplace(table_names_, stmt[t].table, next_table_oid_)
    /\ bound' = [bound EXCEPT ![t] = next_table_oid_]
    /\ next_table_oid_' = next_table_oid_ + 1
    /\ UNCHANGED <<tables_, index_tables_, index_names_, indexes_, next_index_oid_, catalog_lock_, stmt,
                   todo, failed>>

EmplaceTable(t) ==
    /\ At(t, "tables") /\ Goto(t, "table_names")
    /\ tables_' = Emplace(tables_, next_table_oid_, stmt[t].table)
    /\ bound' = [bound EXCEPT ![t] = next_table_oid_]
    /\ next_table_oid_' = next_table_oid_ + 1
    /\ UNCHANGED <<table_names_, index_tables_, index_names_, indexes_, next_index_oid_, catalog_lock_,
                   stmt, todo, failed>>

EmplaceTableName(t) ==
    /\ At(t, "table_names") /\ Goto(t, "index_names")
    /\ table_names_' = Emplace(table_names_, stmt[t].table, bound[t])
    /\ UNCHANGED <<tables_, index_tables_, index_names_, indexes_, catalog_lock_, stmt, bound, todo,
                   failed>> /\ NoOids

(* Mutant: a rejected primary key takes the name of the new table back. *)
EmplaceIndexEntry_Undone(t) ==
    /\ At(t, "index_names")
    /\ IF stmt[t].pk = "rejected"
       THEN table_names_' = [table_names_ EXCEPT ![stmt[t].table] = Absent] /\ UNCHANGED index_tables_
       ELSE index_tables_' = index_tables_ \cup {stmt[t].table} /\ UNCHANGED table_names_
    /\ Goto(t, IF stmt[t].pk = "ok" THEN "indexes" ELSE "unlock")
    /\ UNCHANGED <<tables_, index_names_, indexes_, catalog_lock_, stmt, bound, todo, failed>> /\ NoOids

(* index_names_ gets an entry for the table; then the primary key, if any,  *)
(* is looked at: a column that is no INTEGER, or more than two of them, is  *)
(* an exception, which releases the lock and leaves the table.              *)
EmplaceIndexEntry(t) ==
    /\ At(t, "index_names")
    /\ index_tables_' = index_tables_ \cup {stmt[t].table}
    /\ Goto(t, IF stmt[t].pk = "ok" THEN "indexes" ELSE "unlock")
    /\ UNCHANGED <<tables_, table_names_, index_names_, indexes_, catalog_lock_, stmt, bound, todo,
                   failed>> /\ NoOids

IndexOf(t) == IF stmt[t].kind = "create" THEN PK ELSE stmt[t].index

(* HandleIndexStatement takes the lock and calls CreateIndex, which rejects *)
(* a name that the table already has.                                       *)
IndexBegin(t) ==
    /\ At(t, "lock") /\ stmt[t].kind = "index" /\ Lock(t)
    /\ IF stmt[t].table \notin index_tables_ THEN Fails("Broken Invariant")
       ELSE /\ Goto(t, IF index_names_[stmt[t].table, IndexOf(t)] = Absent THEN "indexes" ELSE "unlock")
            /\ UNCHANGED failed
    /\ UNCHANGED <<maps, stmt, bound, todo>> /\ NoOids

(* The index is built from the tuples of the table and entered in indexes_. *)
EmplaceIndex(t) ==
    /\ At(t, "indexes") /\ Goto(t, "table_indexes")
    /\ indexes_' = Emplace(indexes_, next_index_oid_, stmt[t].table)
    /\ next_index_oid_' = next_index_oid_ + 1
    /\ UNCHANGED <<tables_, table_names_, index_tables_, index_names_, next_table_oid_, catalog_lock_,
                   stmt, bound, todo, failed>>

EmplaceIndexName(t) ==
    /\ At(t, "table_indexes") /\ Goto(t, "unlock")
    /\ index_names_' = Emplace(index_names_, <<stmt[t].table, IndexOf(t)>>, next_index_oid_ - 1)
    /\ UNCHANGED <<tables_, table_names_, index_tables_, indexes_, catalog_lock_, stmt, bound, todo,
                   failed>> /\ NoOids

(* Mutant: an exception leaves the lock taken. *)
Unlock_OnlySuccess(t) ==
    /\ At(t, "unlock") /\ Goto(t, "idle")
    /\ catalog_lock_' = IF stmt[t].kind = "create" /\ stmt[t].pk = "rejected" THEN t ELSE NoThread
    /\ UNCHANGED <<maps, stmt, bound, todo, failed>> /\ NoOids

(* l.unlock(), or the destructor of l after an exception. *)
Unlock(t) ==
    /\ At(t, "unlock") /\ Goto(t, "idle") /\ catalog_lock_' = NoThread
    /\ UNCHANGED <<maps, stmt, bound, todo, failed>> /\ NoOids

Continue(t) ==
    \/ Bind(t) \/ Plan(t) \/ Execute(t) \/ CmdDbgMvcc(t)
    \/ GetTableNames(t) \/ (\E n \in Names : ShowOne(t, n)) \/ ShowDone(t)
    \/ CreateBegin(t) \/ EmplaceTable(t) \/ EmplaceTableName(t) \/ EmplaceIndexEntry(t)
    \/ IndexBegin(t) \/ EmplaceIndex(t) \/ EmplaceIndexName(t) \/ Unlock(t)

Next == \E t \in Threads : Continue(t) \/ \E s \in Stmts : Start(t, s)

Spec == Init /\ [][Next]_vars

(* A connection goes on with its statement, and gets a lock that is free    *)
(* again and again; when a statement is typed is the user's choice.         *)
FairSpec == Spec /\ \A t \in Threads : SF_vars(Continue(t))

-----------------------------------------------------------------------------
(* Labels at which a thread is inside catalog_lock_. *)
Locked == {"tables", "table_names", "index_names", "indexes", "table_indexes", "unlock"}

(* TypeOK: the maps have their types, and catalog_lock_ is held by a        *)
(* statement exactly between its lock() and its unlock(), however it fails. *)
TypeOK ==
    /\ tables_ \in [Oids -> Names \cup {Absent}] /\ table_names_ \in [Names -> Oids \cup {Absent}]
    /\ index_tables_ \subseteq Names
    /\ index_names_ \in [Names \X AllIndexNames -> Oids \cup {Absent}]
    /\ indexes_ \in [Oids -> Names \cup {Absent}]
    /\ next_table_oid_ \in 1..(MaxOid + 1) /\ next_index_oid_ \in 1..(MaxOid + 1)
    /\ catalog_lock_ \in Threads \cup {NoThread}
    /\ pc \in [Threads -> {"idle", "bind", "plan", "execute", "dbg", "names", "show", "lock"} \cup Locked]
    /\ stmt \in [Threads -> Stmts \cup {NoStmt}] /\ bound \in [Threads -> Oids \cup {Absent}]
    /\ todo \in [Threads -> SUBSET Names]
    /\ failed = "no" => \A t \in Threads : catalog_lock_ = t <=> pc[t] \in Locked

(* Whenever nobody holds catalog_lock_ exclusively, the three maps name the *)
(* same tables, no table is without a name, and every index can be found.   *)
ConsistentUnlocked ==
    catalog_lock_ = NoThread =>
        /\ index_tables_ = {n \in Names : table_names_[n] # Absent}
        /\ \A o \in Oids : tables_[o] # Absent => table_names_[tables_[o]] = o
        /\ \A o \in Oids : indexes_[o] # Absent => \E x \in AllIndexNames : index_names_[indexes_[o], x] = o

(* NamesResolve: at every moment, even between two steps of a CREATE, a     *)
(* table name leads to the table of that name and an index name to an index *)
(* of that table: a binder that looks without the lock gets the right       *)
(* table.  While the lock is free the maps of CreateTable and CreateIndex   *)
(* also agree with each other, whatever statements failed before.           *)
NamesResolve ==
    /\ ConsistentUnlocked
    /\ \A n \in Names : table_names_[n] # Absent => tables_[table_names_[n]] = n
    /\ \A n \in Names, x \in AllIndexNames :
          index_names_[n, x] # Absent => indexes_[index_names_[n, x]] = n

(* BoundStays: the table a statement has bound without the lock is still    *)
(* the table of that name when it is planned and executed.                  *)
BoundStays ==
    \A t \in Threads : pc[t] \in {"plan", "execute"} => table_names_[stmt[t].table] = bound[t]

(* OnlyIndexDisplayFails: the "Broken Invariant" assertions of GetTable,    *)
(* CreateIndex and GetTableIndexes hold for every binder, planner, CREATE   *)
(* and \dt; only a \di that looks at a table another connection is creating *)
(* meets one.                                                               *)
OnlyIndexDisplayFails ==
    failed = "Broken Invariant" =>
        \E t, u \in Threads : stmt[t].kind = "di" /\ pc[t] = "show" /\ catalog_lock_ = u /\ u # t

(* StatementsFinish: every statement ends, so that catalog_lock_ is never   *)
(* kept, after errors too, unless the process ends.                         *)
StatementsFinish == \A t \in Threads : pc[t] # "idle" ~> pc[t] = "idle" \/ failed # "no"
=============================================================================
