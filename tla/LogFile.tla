------------------------------ MODULE LogFile ------------------------------
(***************************************************************************)
(* The log half of the disk manager (WriteLog, ReadLog, GetFlushState in   *)
(* storage/disk/disk_manager.cpp).  The file is opened in append mode, so  *)
(* a write goes to its end wherever the last ReadLog left the position; a  *)
(* small write stays in the stream's buffer until flush(), which is where  *)
(* an error then shows.  Sizes and offsets are counted in records.         *)
(***************************************************************************)
EXTENDS Integers, Sequences

CONSTANTS
    Buffers,        \* log buffers the caller swaps between
    Records,        \* contents of a log record
    Faults,         \* subset of {"write", "flush"}
    MaxLog          \* bound on the records written

ASSUME LogBound == MaxLog \in Nat \ {0}

None == "none"
ZeroRecord == "zero"

VARIABLES
    log,            \* the file: sequence of records
    written,        \* history: every record passed to WriteLog, in order
    stream,         \* "good", "bad" (badbit, sticky) or "closed"
    flush_log_, num_flushes_, buffer_used,
    result          \* what the last ReadLog returned

logVars == <<log, written, stream, flush_log_, num_flushes_, buffer_used, result>>

NoResult == [ok |-> FALSE, data |-> <<>>]

LogInit ==
    /\ log = <<>> /\ written = <<>> /\ stream = "good"
    /\ flush_log_ = FALSE /\ num_flushes_ = 0 /\ buffer_used = None
    /\ result = NoResult

(* assert(log_data != buffer_used) is the caller's obligation to swap; an   *)
(* empty buffer is swapped and nothing else.                                *)
WriteEmpty(b) ==
    /\ b # buffer_used /\ buffer_used' = b
    /\ UNCHANGED <<log, written, stream, flush_log_, num_flushes_, result>>

MaybeAppend(r) == log' = log \/ (stream = "good" /\ log' = Append(log, r))

(* Mutant: the stream is cleared after a failed write. *)
WriteFails_ClearsStream(r) ==
    /\ stream # "good" \/ "write" \in Faults
    /\ UNCHANGED stream /\ flush_log_' = TRUE /\ MaybeAppend(r)

(* write() fails, or the stream is bad or closed: return, flush_log_ set. *)
WriteFails(r) ==
    /\ stream # "good" \/ "write" \in Faults
    /\ stream' = "bad" /\ flush_log_' = TRUE /\ MaybeAppend(r)

(* flush() fails, which nobody looks at: flush_log_ is cleared all the same. *)
FlushFails(r) ==
    /\ stream = "good" /\ "flush" \in Faults
    /\ stream' = "bad" /\ flush_log_' = FALSE /\ MaybeAppend(r)

WriteOk(r) ==
    /\ stream = "good" /\ log' = Append(log, r)
    /\ flush_log_' = FALSE /\ UNCHANGED stream

WriteLog(b, r) ==
    /\ b # buffer_used /\ buffer_used' = b
    /\ Len(written) < MaxLog
    /\ written' = Append(written, r)
    /\ num_flushes_' = num_flushes_ + 1
    /\ WriteOk(r) \/ WriteFails(r) \/ FlushFails(r)
    /\ UNCHANGED result

(* The records at offset..offset+size-1, zero-padded past the end. *)
Slice(s, offset, size) ==
    [i \in 1..size |-> IF offset + i <= Len(s) THEN s[offset + i] ELSE ZeroRecord]

(* Mutant: the seek to the offset is forgotten. *)
ReadLog_FromStart(size, offset) ==
    /\ result' = IF offset >= Len(log) \/ stream = "bad" THEN NoResult
                 ELSE [ok |-> TRUE, data |-> Slice(log, 0, size)]
    /\ UNCHANGED <<log, written, stream, flush_log_, num_flushes_, buffer_used>>

(* A closed stream reads no byte and the file size is still there: the      *)
(* buffer is zeroed and true returned.                                      *)
ReadLog(size, offset) ==
    /\ result' = IF offset >= Len(log) \/ stream = "bad" THEN NoResult
                 ELSE [ok |-> TRUE,
                       data |-> IF stream = "closed" THEN Slice(<<>>, 0, size)
                                ELSE Slice(log, offset, size)]
    /\ UNCHANGED <<log, written, stream, flush_log_, num_flushes_, buffer_used>>

(* ShutDown closes the stream; a later write finds it closed and sets badbit. *)
ShutDown ==
    /\ stream' = IF stream = "bad" THEN "bad" ELSE "closed"
    /\ UNCHANGED <<log, written, flush_log_, num_flushes_, buffer_used, result>>

LogNext ==
    \/ \E b \in Buffers : WriteEmpty(b)
    \/ \E b \in Buffers, r \in Records : WriteLog(b, r)
    \/ \E size \in 1..2, offset \in 0..MaxLog : ReadLog(size, offset)
    \/ ShutDown

LogSpec == LogInit /\ [][LogNext]_logVars

-----------------------------------------------------------------------------
(* LogIsPrefix: the file holds the records passed to WriteLog in order      *)
(* without a gap: after a record is lost, no later one reaches the file.    *)
LogIsPrefix == Len(log) <= Len(written) /\ log = SubSeq(written, 1, Len(log))

ReadGivesWritten ==
    \A size \in 1..2, offset \in 0..MaxLog :
        (ReadLog(size, offset) /\ result'.ok /\ stream = "good") =>
            /\ result'.data[1] = written[offset + 1]
            /\ \A i \in 2..size : result'.data[i] =
                 IF offset + i <= Len(written) THEN written[offset + i] ELSE ZeroRecord

(* ReadsBack: a successful ReadLog on an open stream returned what was      *)
(* written at that offset, then zeroes.                                     *)
ReadsBack == [][ReadGivesWritten]_logVars
=============================================================================
