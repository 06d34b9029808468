----------------------------- MODULE RunStream -----------------------------
(* The streams that follow a run by polling: stream_run of                 *)
(* apps/api/routers/runs.py over its row and metrics, and _tail_file_sse   *)
(* of routers/logs.py over training.log.                                   *)
(*                                                                         *)
(* A stream reads the status and the data in two steps, and workers commit *)
(* in between; whether the end of a stream is the end of the data is a     *)
(* matter of the order of the two.  The log is one file per run: a second  *)
(* training of the run truncates it under a stream that has it open.       *)
(***************************************************************************)
EXTENDS Naturals

CONSTANTS
  MaxMetrics,   \* bound on the metrics of the run
  MaxLines,     \* bound on the lines of one training
  LineCap,      \* _MAX_LINES_PER_STREAM
  MaxTrainings  \* bound on how often the run is trained

VARIABLES
  runStatus,    \* the row: running, terminal or deleted
  metrics,      \* how many metrics are recorded; their ids are 1 .. metrics
  lines,        \* how many lines training.log holds; NoFile before it exists
  trainings,
  writer,       \* a training process of the run is alive
  (* stream_run *)
  mPhase,       \* none, poll, fetch, closed
  mStatus,      \* the status this round has read
  mLast,        \* last_metric_id
  (* _tail_file_sse *)
  tPhase,       \* none, wait, absent, tail, check, final, closed
  tOffset,      \* how many lines the file position is past
  tEmitted,
  tReason,      \* the reason its done event gives
  (* history, read by the properties only *)
  mAtEnd,       \* metrics recorded when the run ended
  lAtEnd,       \* lines of the log when the run ended
  cut           \* the log was truncated under the stream

runVars == <<runStatus, metrics, lines, trainings, writer>>
mVars   == <<mPhase, mStatus, mLast>>
tVars   == <<tPhase, tOffset, tEmitted, tReason>>
endVars == <<mAtEnd, lAtEnd, cut>>
vars    == <<runVars, mVars, tVars, endVars>>

NoFile == MaxLines + 1
Size   == IF lines = NoFile THEN 0 ELSE lines

DataOK ==
  /\ runStatus \in {"running", "terminal", "deleted"}
  /\ metrics \in 0 .. MaxMetrics
  /\ lines \in 0 .. NoFile
  /\ trainings \in 0 .. MaxTrainings
  /\ mPhase \in {"none", "poll", "fetch", "closed"}
  /\ mStatus \in {"running", "terminal"}
  /\ mLast \in 0 .. MaxMetrics
  /\ tPhase \in {"none", "wait", "absent", "tail", "check", "final", "closed"}
  /\ tOffset \in 0 .. MaxLines
  /\ tEmitted \in 0 .. LineCap
  /\ tReason \in {"none", "max_lines", "terminal", "info", "no_log"}
  /\ mAtEnd \in 0 .. MaxMetrics /\ lAtEnd \in 0 .. MaxLines

FlagsOK == writer \in BOOLEAN /\ cut \in BOOLEAN

TypeOK == DataOK /\ FlagsOK

Init ==
  /\ runStatus = "running" /\ metrics = 0 /\ lines = NoFile
  /\ trainings = 0 /\ writer = FALSE
  /\ mPhase = "none" /\ mStatus = "running" /\ mLast = 0
  /\ tPhase = "none" /\ tOffset = 0 /\ tEmitted = 0 /\ tReason = "none"
  /\ mAtEnd = 0 /\ lAtEnd = 0 /\ cut = FALSE

-----------------------------------------------------------------------------
(* Workers and users                                                       *)

\* run_training_job opens the log for writing: the file of an earlier training
\* is emptied, in place.
OpenLog ==
  /\ runStatus = "running" /\ trainings < MaxTrainings
  /\ lines' = 0 /\ writer' = TRUE /\ trainings' = trainings + 1
  /\ cut' = (cut \/ tOffset > 0)
  /\ UNCHANGED <<runStatus, metrics, mVars, tVars, mAtEnd, lAtEnd>>

\* A line is flushed, and posted as a metric when it parses as one.  Nothing
\* stops a worker whose run was ended by somebody else.
WriteLine ==
  /\ writer /\ lines < MaxLines
  /\ lines' = lines + 1
  /\ metrics' = IF runStatus # "deleted" /\ metrics < MaxMetrics THEN metrics + 1 ELSE metrics
  /\ UNCHANGED <<runStatus, trainings, writer, mVars, tVars, endVars>>

\* The verdict: of the worker, whose process has ended, or of a user or a sweep.
EndRun ==
  /\ runStatus = "running"
  /\ runStatus' = "terminal"
  /\ \/ writer' = FALSE
     \/ UNCHANGED writer
  /\ mAtEnd' = metrics /\ lAtEnd' = Size
  /\ UNCHANGED <<metrics, lines, trainings, mVars, tVars, cut>>

ExitLate ==
  /\ writer /\ runStatus # "running"
  /\ writer' = FALSE
  /\ UNCHANGED <<runStatus, metrics, lines, trainings, mVars, tVars, endVars>>

DeleteRun ==
  /\ runStatus = "terminal"
  /\ runStatus' = "deleted" /\ metrics' = 0
  /\ lines' = IF tPhase \in {"tail", "check", "final"} THEN lines ELSE NoFile
  /\ cut' = (cut \/ lines' # lines)
  /\ UNCHANGED <<trainings, writer, mVars, tVars, mAtEnd, lAtEnd>>

-----------------------------------------------------------------------------
(* stream_run: the row, then the metrics past the last id                  *)

OpenStream ==
  /\ mPhase = "none"
  /\ mPhase' = "poll"
  /\ UNCHANGED <<runVars, mStatus, mLast, tVars, endVars>>

ReadRun ==
  /\ mPhase = "poll"
  /\ IF runStatus = "deleted"
     THEN mPhase' = "closed" /\ UNCHANGED mStatus       \* the error event
     ELSE mPhase' = "fetch" /\ mStatus' = runStatus
  /\ UNCHANGED <<runVars, mLast, tVars, endVars>>

FetchByCurrentStatus ==  \* mutant: the row is read again after the metrics
  /\ mPhase = "fetch"
  /\ mLast' = IF mStatus = "terminal" THEN mLast ELSE metrics
  /\ mPhase' = IF mStatus = "terminal" THEN "closed" ELSE "poll"
  /\ UNCHANGED <<runVars, mStatus, tVars, endVars>>

FetchMetrics ==
  /\ mPhase = "fetch"
  /\ mLast' = IF metrics > mLast THEN metrics ELSE mLast
  /\ mPhase' = IF mStatus = "terminal" THEN "closed" ELSE "poll"
  /\ UNCHANGED <<runVars, mStatus, tVars, endVars>>

-----------------------------------------------------------------------------
(* _tail_file_sse                                                          *)

OpenTail ==
  /\ tPhase = "none" /\ runStatus # "deleted"
  /\ tPhase' = "wait"
  /\ UNCHANGED <<runVars, mVars, tOffset, tEmitted, tReason, endVars>>

CloseTail(reason) == tPhase' = "closed" /\ tReason' = reason

\* Is the file there?
LookForFile ==
  /\ tPhase = "wait"
  /\ tPhase' = IF lines # NoFile THEN "tail" ELSE "absent"
  /\ UNCHANGED <<runVars, mVars, tOffset, tEmitted, tReason, endVars>>

\* It was not: the run may have ended without one, and waiting has a limit.
WaitForFile ==
  /\ tPhase = "absent"
  /\ IF runStatus # "running" THEN CloseTail("no_log")
     ELSE \/ tPhase' = "wait" /\ UNCHANGED tReason
          \/ CloseTail("info")
  /\ UNCHANGED <<runVars, mVars, tOffset, tEmitted, endVars>>

\* Everything past the position; nothing when the file has become shorter.
New == IF Size > tOffset THEN Size - tOffset ELSE 0

ReadChunkUncapped ==  \* mutant: the cap is looked at after the chunk
  /\ tPhase = "tail"
  /\ tOffset' = tOffset + New
  /\ tEmitted' = tEmitted + New
  /\ IF tEmitted' >= LineCap THEN CloseTail("max_lines") ELSE tPhase' = "check" /\ UNCHANGED tReason
  /\ UNCHANGED <<runVars, mVars, endVars>>

ReadChunk ==
  /\ tPhase = "tail"
  /\ tOffset' = tOffset + New
  /\ IF tEmitted + New >= LineCap
     THEN tEmitted' = LineCap /\ CloseTail("max_lines")
     ELSE tEmitted' = tEmitted + New /\ tPhase' = "check" /\ UNCHANGED tReason
  /\ UNCHANGED <<runVars, mVars, endVars>>

CheckTerminal ==
  /\ tPhase = "check"
  /\ tPhase' = IF runStatus = "running" THEN "tail" ELSE "final"
  /\ UNCHANGED <<runVars, mVars, tOffset, tEmitted, tReason, endVars>>

\* The last read, after the verdict was seen.  The cap ends its loop, not the
\* stream: the reason is "terminal" all the same.
FinalRead ==
  /\ tPhase = "final"
  /\ tOffset' = tOffset + New
  /\ tEmitted' = IF tEmitted + New > LineCap THEN LineCap ELSE tEmitted + New
  /\ CloseTail("terminal")
  /\ UNCHANGED <<runVars, mVars, endVars>>

-----------------------------------------------------------------------------
StreamStep == ReadRun \/ FetchMetrics
TailStep   == LookForFile \/ WaitForFile \/ ReadChunk \/ CheckTerminal \/ FinalRead

Next ==
  \/ OpenLog \/ WriteLine \/ EndRun \/ ExitLate \/ DeleteRun
  \/ OpenStream \/ StreamStep
  \/ OpenTail \/ TailStep

Spec == Init /\ [][Next]_vars

-----------------------------------------------------------------------------
(* Properties                                                              *)

\* A stream that closed with the verdict has delivered every metric recorded
\* before it, whatever was committed between its two reads, unless the run was
\* deleted.
MetricsBeforeDone ==
  mPhase = "closed" /\ mStatus = "terminal" /\ runStatus # "deleted" => mLast >= mAtEnd

\* A tail that ends with "terminal" has sent the whole log of the run, up to
\* the cap, unless a second training truncated the file behind its position or the
\* run was deleted.
LogBeforeDone ==
  tReason = "terminal" /\ ~cut => tEmitted >= lAtEnd \/ tEmitted >= LineCap

-----------------------------------------------------------------------------
(* The inductive invariant                                                 *)

\* What a stream takes for the verdict is the verdict.
VerdictIsRead ==
  mStatus = "terminal" \/ tPhase = "final" \/ tReason = "terminal" => runStatus # "running"

\* What was there when the run ended is there until the run is deleted, and a
\* tail is within the file unless the file was truncated.
NothingIsLost ==
  /\ runStatus = "terminal" => metrics >= mAtEnd
  /\ ~cut => tOffset <= Size /\ (runStatus # "running" => Size >= lAtEnd)

\* A tail has sent what its position is past, up to the cap.
TailIsCounted == tEmitted = IF tOffset < LineCap THEN tOffset ELSE LineCap

IInv ==
  /\ TypeOK
  /\ VerdictIsRead /\ NothingIsLost /\ TailIsCounted
  /\ MetricsBeforeDone /\ LogBeforeDone
=============================================================================
