------------------------------- MODULE LogToFile -------------------------------
(***************************************************************************)
(* CLogToFileThread of the log library with the CLogFile it writes to.     *)
(*                                                                         *)
(* Any thread appends lines to the current buffer; a full one moves to     *)
(* _vecBuff.  The log thread waits for that, at most for the flush         *)
(* interval, takes all the buffers, writes them in their order, and rolls  *)
(* the file when it has grown or the day has changed.  Stop ends it.       *)
(*                                                                         *)
(* What happens under the mutex is one action.  A line is its number and   *)
(* its length; a buffer is the sequence of its lines.                      *)
(***************************************************************************)
EXTENDS Naturals, Sequences, SequencesExt

CONSTANTS Loggers,      \* threads that log
          BuffSize,     \* LOG_PER_BUFF_SIZE
          RolSize,      \* _rolFileSize
          Lengths,      \* of the lines
          MaxLines      \* bound: lines logged

ASSUME LogAssumption ==
    /\ BuffSize \in Nat /\ RolSize \in Nat /\ MaxLines \in Nat
    /\ Lengths \subseteq 1 .. BuffSize

VARIABLES
    logRunning,     \* _running
    calls,          \* loggers that have asked for it and wait for the mutex
    currentBuffer,  \* _currentBuffer; NULL and an empty one are the same to append
    vecBuff,        \* _vecBuff
    readyEvent,     \* whether _readyEvent is set
    logPc,          \* the log thread: where it is in threadFunc
    vecWriteBuff,   \* vecWriteBuff from i on
    files,          \* the files, each the sequence of the lines written to it
    writtenBytes,   \* of the last one
    accepted,       \* history: the lines that append has put into a buffer
    owed            \* history: how many of them Stop may not lose

logVars == <<logRunning, calls, currentBuffer, vecBuff, readyEvent, logPc, vecWriteBuff,
             files, writtenBytes, accepted, owed>>

Line == [num : 1 .. MaxLines, len : Lengths]

Length(lines) == FoldSeq(LAMBDA line, n : line.len + n, 0, lines)
Buffers == vecBuff \o (IF currentBuffer = <<>> THEN <<>> ELSE <<currentBuffer>>)

LogInit ==
    /\ logRunning = TRUE /\ calls = {}
    /\ currentBuffer = <<>> /\ vecBuff = <<>> /\ readyEvent = FALSE
    /\ logPc = "loop" /\ vecWriteBuff = <<>>
    /\ files = << <<>> >> /\ writtenBytes = 0
    /\ accepted = <<>> /\ owed = 0

-------------------------------------------------------------------------------
(* The threads that log *)

\* append reads _running before it takes the mutex.
CallAppend(t) ==
    /\ t \notin calls /\ logRunning /\ logPc # "closed"
    /\ Len(accepted) + Cardinality(calls) < MaxLines
    /\ calls' = calls \cup {t}
    /\ UNCHANGED <<logRunning, currentBuffer, vecBuff, readyEvent, logPc, vecWriteBuff,
                   files, writtenBytes, accepted, owed>>

\* Mutant: the full buffer is only announced.
MutFull == vecBuff

\* What the vector becomes when the current buffer is full.
Full == Append(vecBuff, currentBuffer)

append(t, len) ==
    /\ t \in calls
    /\ calls' = calls \ {t}
    /\ LET line == [num |-> Len(accepted) + 1, len |-> len] IN
          /\ accepted' = Append(accepted, line)
          /\ IF BuffSize - Length(currentBuffer) >= len
             THEN /\ currentBuffer' = Append(currentBuffer, line)
                  /\ UNCHANGED <<vecBuff, readyEvent>>
             ELSE /\ vecBuff' = Full
                  /\ currentBuffer' = <<line>>
                  /\ readyEvent' = TRUE
    /\ UNCHANGED <<logRunning, logPc, vecWriteBuff, files, writtenBytes, owed>>

-------------------------------------------------------------------------------
(* Stop *)

Written == FlattenSeq(files)

\* The log thread collects once more if Stop finds it after its check of _running.
Stop ==
    /\ logRunning
    /\ logRunning' = FALSE
    /\ owed' = IF logPc \in {"check", "wait", "collect"} THEN Len(accepted)
               ELSE Len(Written) + Len(FlattenSeq(vecWriteBuff))
    /\ UNCHANGED <<calls, currentBuffer, vecBuff, readyEvent, logPc, vecWriteBuff, files,
                   writtenBytes, accepted>>

\* The thread is joined and the mutex closed.  Nobody logs any more by then: Lifecycle
\* says when the threads of the sockets have ended.
Stopped ==
    /\ ~logRunning /\ logPc = "off" /\ calls = {}
    /\ logPc' = "closed"
    /\ UNCHANGED <<logRunning, calls, currentBuffer, vecBuff, readyEvent, vecWriteBuff,
                   files, writtenBytes, accepted, owed>>

-------------------------------------------------------------------------------
(* The log thread *)

Check ==
    /\ logPc = "loop"
    /\ logPc' = IF logRunning THEN "check" ELSE "off"
    /\ UNCHANGED <<logRunning, calls, currentBuffer, vecBuff, readyEvent, vecWriteBuff,
                   files, writtenBytes, accepted, owed>>

\* All buffers, the current one too, become the ones to write.
Collect ==
    /\ vecWriteBuff' = Buffers
    /\ vecBuff' = <<>> /\ currentBuffer' = <<>>
    /\ logPc' = "write"
    /\ UNCHANGED <<logRunning, calls, readyEvent, files, writtenBytes, accepted, owed>>

CollectFull ==
    /\ logPc = "check" /\ vecBuff # <<>>
    /\ Collect

WaitReady ==
    /\ logPc = "check" /\ vecBuff = <<>>
    /\ logPc' = "wait"
    /\ UNCHANGED <<logRunning, calls, currentBuffer, vecBuff, readyEvent, vecWriteBuff,
                   files, writtenBytes, accepted, owed>>

\* Mutant: the wait has no end without the event.
MutWoken ==
    /\ logPc = "wait" /\ readyEvent
    /\ readyEvent' = FALSE
    /\ logPc' = "collect"
    /\ UNCHANGED <<logRunning, calls, currentBuffer, vecBuff, vecWriteBuff, files,
                   writtenBytes, accepted, owed>>

\* Mutant: a thread that was told to end does not collect any more.
MutLastCollect ==
    /\ logPc = "wait"
    /\ readyEvent' = FALSE
    /\ logPc' = IF logRunning THEN "collect" ELSE "loop"
    /\ UNCHANGED <<logRunning, calls, currentBuffer, vecBuff, vecWriteBuff, files,
                   writtenBytes, accepted, owed>>

\* The event, or the end of the flush interval.
Woken ==
    /\ logPc = "wait"
    /\ readyEvent' = FALSE
    /\ logPc' = "collect"
    /\ UNCHANGED <<logRunning, calls, currentBuffer, vecBuff, vecWriteBuff, files,
                   writtenBytes, accepted, owed>>

CollectAll ==
    /\ logPc = "collect" /\ currentBuffer # <<>>
    /\ Collect

CollectNothing ==
    /\ logPc = "collect" /\ currentBuffer = <<>>
    /\ logPc' = "loop"
    /\ UNCHANGED <<logRunning, calls, currentBuffer, vecBuff, readyEvent, vecWriteBuff,
                   files, writtenBytes, accepted, owed>>

\* CLogFile::append writes a buffer and then rolls the file, if it has grown too large or
\* the day has changed.  The name of a file is its second: within one second the file
\* that was closed is opened again, and its bytes are counted from 0.
WriteBuffer(newDay, newSecond) ==
    /\ logPc = "write" /\ vecWriteBuff # <<>>
    /\ LET file   == Last(files) \o Head(vecWriteBuff)
           length == writtenBytes + Length(Head(vecWriteBuff))
           rolls  == length > RolSize \/ newDay
       IN /\ writtenBytes' = IF rolls THEN 0 ELSE length
          /\ files' = Front(files) \o (IF rolls /\ newSecond THEN <<file, <<>>>>
                                       ELSE <<file>>)
    /\ vecWriteBuff' = Tail(vecWriteBuff)
    /\ UNCHANGED <<logRunning, calls, currentBuffer, vecBuff, readyEvent, logPc, accepted,
                   owed>>

Flush ==
    /\ logPc = "write" /\ vecWriteBuff = <<>>
    /\ logPc' = "loop"
    /\ UNCHANGED <<logRunning, calls, currentBuffer, vecBuff, readyEvent, vecWriteBuff,
                   files, writtenBytes, accepted, owed>>

LogThreadStep ==
    \/ Check \/ CollectFull \/ WaitReady \/ Woken \/ CollectAll \/ CollectNothing
    \/ \E newDay, newSecond \in BOOLEAN : WriteBuffer(newDay, newSecond)
    \/ Flush

LogNext ==
    \/ \E t \in Loggers : CallAppend(t) \/ \E len \in Lengths : append(t, len)
    \/ Stop \/ Stopped
    \/ LogThreadStep

LogSpec == LogInit /\ [][LogNext]_logVars

\* The log thread runs on; the wait ends with the flush interval.
LogFairness == WF_logVars(LogThreadStep)

-------------------------------------------------------------------------------
(* Properties *)

\* The lines are in the files, the buffers being written and the buffers to be written in
\* the order in which append took the mutex, each once: no swap of the buffers loses,
\* doubles or moves any, and no roll of the file.
LinesInOrder ==
    Written \o FlattenSeq(vecWriteBuff) \o FlattenSeq(Buffers) = accepted

\* What Stop finds written, collected or about to be collected is in a file when the
\* thread has ended.  (The lines of a buffer that is current while the thread writes, or
\* has come back to its loop, are lost.)
StopKeeps == logPc \in {"off", "closed"} => Len(Written) >= owed

\* Every line is written, a single one too, unless the log is stopped.
AllWritten ==
    \A n \in 1 .. MaxLines : Len(accepted) >= n ~> (Len(Written) >= n \/ ~logRunning)
===============================================================================
