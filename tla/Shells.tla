------------------------------- MODULE Shells -------------------------------
(***************************************************************************)
(* The interactive front ends (tools/nc-shell, tools/shell): how the input *)
(* of a session becomes queries, and what becomes of the transaction of a  *)
(* network client.                                                         *)
(*                                                                         *)
(* Input is a sequence of tokens: words, ";", "\\" (a backslash at the     *)
(* start of a command) and "n" for the end of a line or the white space    *)
(* put in its place.  A session is of kind "serve" (a client of nc-shell,  *)
(* whose bytes arrive in pieces cut anywhere), "cli" (nc-shell's own       *)
(* terminal) or "shell" (bustub-shell, with and without a terminal).  One  *)
(* session is modelled: each has its own buffers and transaction, and what *)
(* they share is the instance, which the modules Session and Catalog model.*)
(***************************************************************************)
EXTENDS Naturals, Sequences, SequencesExt

CONSTANTS
    Lines,       \* lines the user may type
    MaxLines,    \* bound on the lines typed
    MaxQuery     \* bound on the query at the end of cli's input

VARIABLES
    kind,        \* "none" before the session starts
    up,          \* the process has not been ended by an exception nobody catches
    pc,          \* "none", "read", "run" or "closed"
    stream,      \* typed and not yet read
    eof,         \* the user has closed the input
    query,
    txn,         \* state of the transaction of a "serve" session
    typed, done  \* history: all that was typed, and the queries executed

vars == <<kind, up, pc, stream, eof, query, txn, typed, done>>

Init ==
    /\ kind = "none" /\ up = TRUE /\ pc = "none" /\ eof = FALSE
    /\ stream = <<>> /\ query = <<>> /\ txn = "none" /\ typed = <<>> /\ done = <<>>

(* A connection is accepted, or the terminal's loop is entered; Serve begins *)
(* a transaction for its client.                                            *)
Start(k) ==
    /\ pc = "none" /\ pc' = "read" /\ kind' = k
    /\ txn' = IF k = "serve" THEN "RUNNING" ELSE txn
    /\ UNCHANGED <<up, stream, eof, query, typed, done>>

(* The user types a line, or closes the input. *)
Type(line) ==
    /\ pc # "none" /\ ~eof
    /\ Len(SelectSeq(typed, LAMBDA t : t = "n")) < MaxLines
    /\ stream' = stream \o line \o <<"n">>
    /\ typed' = typed \o line \o <<"n">>
    /\ UNCHANGED <<kind, up, pc, eof, query, txn, done>>

Close ==
    /\ pc # "none" /\ ~eof /\ eof' = TRUE
    /\ UNCHANGED <<kind, up, pc, stream, query, txn, typed, done>>

IsBreak(t) == t = "n"
NoBreaks(q) == SelectSeq(q, LAMBDA t : ~IsBreak(t))

StartsWith(q, t) == q # <<>> /\ q[1] = t
EndsWith(q, t) == q # <<>> /\ q[Len(q)] = t
Complete(q) == EndsWith(q, ";") \/ StartsWith(q, "\\")

\* the query is q: run it when it is complete, otherwise break the line and read on
Received(q) ==
    IF Complete(q)
    THEN query' = q /\ pc' = "run"
    ELSE query' = Append(q, "n") /\ UNCHANGED pc

(* Mutant: only the piece just read is kept. *)
ReadBytes_DropsEarlier ==
    /\ up /\ pc = "read" /\ kind = "serve"
    /\ \E n \in 1..Len(stream) :
         /\ stream' = SubSeq(stream, n + 1, Len(stream))
         /\ Received(NoBreaks(SubSeq(stream, 1, n)))
    /\ UNCHANGED <<kind, up, eof, txn, typed, done>>

(* Serve reads the bytes that have arrived; every line break is stripped     *)
(* from the query, the one it put in itself included.                        *)
ReadBytes ==
    /\ up /\ pc = "read" /\ kind = "serve"
    /\ \E n \in 1..Len(stream) :
         /\ stream' = SubSeq(stream, n + 1, Len(stream))
         /\ Received(NoBreaks(query \o SubSeq(stream, 1, n)))
    /\ UNCHANGED <<kind, up, eof, txn, typed, done>>

\* the first line of the stream
LineEnd == SelectInSeq(stream, IsBreak)

ReadLine ==
    /\ up /\ pc = "read" /\ kind # "serve" /\ LineEnd > 0
    /\ stream' = SubSeq(stream, LineEnd + 1, Len(stream))
    /\ Received(query \o SubSeq(stream, 1, LineEnd - 1))
    /\ UNCHANGED <<kind, up, eof, txn, typed, done>>

(* Serve: abort what still runs, close the socket. *)
Disconnected ==
    /\ pc' = "closed"
    /\ txn' = IF txn \in {"RUNNING", "TAINTED"} THEN "ABORTED" ELSE txn

InputEnded(k) == up /\ kind = k /\ pc = "read" /\ eof /\ stream = <<>>

ClientEnd ==
    /\ InputEnded("serve") /\ Disconnected
    /\ UNCHANGED <<kind, up, stream, eof, query, typed, done>>

(* The shell returns. *)
ShellEnd ==
    /\ InputEnded("shell") /\ pc' = "closed"
    /\ UNCHANGED <<kind, up, stream, eof, query, txn, typed, done>>

(* Cli takes the failed getline for an empty line, over and over; a query    *)
(* that was not complete does not become so.                                 *)
CliEnd ==
    /\ InputEnded("cli") /\ Len(query) < MaxQuery
    /\ query' = Append(query, "n") /\ typed' = Append(typed, "n")
    /\ UNCHANGED <<kind, up, pc, stream, eof, txn, done>>

(* The query is executed and reported, or a bustub::Exception is; any other  *)
(* exception ends the process.                                               *)
Executed(k) ==
    /\ up /\ kind = k /\ pc = "run"
    /\ done' = Append(done, query) /\ query' = <<>>
    /\ UNCHANGED <<kind, stream, eof, typed>>
ReadOn == pc' = "read" /\ up' \in BOOLEAN /\ UNCHANGED txn

(* ExecuteSqlTxn: the statement may have ended the client's transaction, and *)
(* then the socket is closed.                                                *)
ClientQuery ==
    /\ Executed("serve")
    /\ \/ ReadOn
       \/ txn' \in {"COMMITTED", "ABORTED"} /\ pc' = "closed" /\ UNCHANGED up

(* ExecuteSql *)
CliQuery == Executed("cli") /\ ReadOn
ShellQuery == Executed("shell") /\ ReadOn

Next ==
    \/ \E k \in {"serve", "cli", "shell"} : Start(k)
    \/ \E line \in Lines : Type(line)
    \/ Close \/ ReadBytes \/ ReadLine
    \/ ClientEnd \/ CliEnd \/ ShellEnd \/ ClientQuery \/ CliQuery \/ ShellQuery

Spec == Init /\ [][Next]_vars

-----------------------------------------------------------------------------
(* InputBecomesQueries: the queries executed, the one being read and what is *)
(* still to be read are what was typed, in order and with nothing lost or    *)
(* doubled, however the bytes of a client were cut; a terminal's queries     *)
(* also keep every line break between two lines, so no words run together.   *)
InputBecomesQueries ==
    IF kind = "serve"
    THEN NoBreaks(FlattenSeq(done) \o query \o stream) = NoBreaks(typed)
    ELSE FoldLeft(LAMBDA all, q : all \o Append(q, "n"), <<>>, done) \o query
           \o (IF pc = "run" THEN <<"n">> ELSE <<>>) \o stream = typed

(* ClientsLeaveNoTxn: once the socket of a client is closed its transaction  *)
(* is over, whether the client ended it or went away.                        *)
ClientsLeaveNoTxn ==
    kind = "serve" /\ pc = "closed" => txn \in {"COMMITTED", "ABORTED"}
=============================================================================
