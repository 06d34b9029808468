------------------------------ MODULE AgentRun ------------------------------
(* Agent runs: packages/agents/runner.py (the four agents and the wrapper   *)
(* stream_agent), the streaming endpoint of apps/api/routers/agents.py, and *)
(* the span row that apps/api/services/tracing.py keeps of each run.        *)
(*                                                                          *)
(* An agent runs on a thread and appends its events to a list; a coroutine  *)
(* of the event loop sends what it finds there and closes the stream when   *)
(* the thread has ended.  The span row is inserted open and finalized by    *)
(* its id, which the database gives out again once the rows are cleared.    *)
(* run-sync runs the same agents without a stream or a span.                *)
(***************************************************************************)
EXTENDS Naturals, FiniteSets, FiniteSetsExt

CONSTANTS
  Requests,     \* POST /agents/{name}/run, each once
  Agent,        \* the agent each of them asks for
  MaxFaults     \* bound on restarts and on failing inserts or updates of a span

VARIABLES
  thread,       \* its executor thread
  emitted,      \* length of the list progress: the n-th event is the n-th stage
  sent,         \* how many of them the stream has delivered
  stream,       \* the stream
  span,         \* id of the request's span row, 0 if it has none
  table,        \* the span rows of hermes_traces, by id
  faults,
  (* history, read by the properties only *)
  unasked,      \* requests with a step whose skill is installed and was not sent
  disturbed     \* requests whose row was cleared, reused or not written

runVars  == <<thread, emitted, sent, stream>>
rowVars  == <<span, table>>
histVars == <<unasked, disturbed>>
vars     == <<runVars, rowVars, faults, histVars>>

\* How many steps with a model an agent has.  Each emits a start and a done
\* stage, and the agent a last stage "done".
Plan == [experiment_recommender |-> 3, optimization_coach |-> 2,
         evaluation_designer |-> 3, incident_responder |-> 1]
Steps(r) == Plan[Agent[r]]
ReadsDataset == {"experiment_recommender", "evaluation_designer"}

Ids == 1 .. Cardinality(Requests)

TypeOK ==
  /\ thread \in [Requests -> {"none", "working", "returned", "raised", "killed"}]
  /\ emitted \in [Requests -> Nat] /\ sent \in [Requests -> Nat]
  /\ \A r \in Requests : emitted[r] \in 0 .. 2 * Steps(r) + 1 /\ sent[r] \in 0 .. emitted[r]
  /\ stream \in [Requests -> {"new", "open", "complete", "error", "gone", "killed"}]
  /\ span \in [Requests -> {0} \cup Ids]
  /\ table \in [Ids -> {"absent", "open", "success", "failure"}]
  /\ faults \in 0 .. MaxFaults
  /\ unasked \subseteq Requests /\ disturbed \subseteq Requests

Init ==
  /\ thread = [r \in Requests |-> "none"] /\ stream = [r \in Requests |-> "new"]
  /\ emitted = [r \in Requests |-> 0] /\ sent = [r \in Requests |-> 0]
  /\ span = [r \in Requests |-> 0] /\ table = [i \in Ids |-> "absent"]
  /\ faults = 0
  /\ unasked = {} /\ disturbed = {}

Fault == faults < MaxFaults /\ faults' = faults + 1

-----------------------------------------------------------------------------
(* The span row                                                            *)

\* SQLite gives the id after the largest one there is.
NextId == 1 + Max({0} \cup {i \in Ids : table[i] # "absent"})

\* _insert_open_row: best effort.
OpenSpan(r) ==
  \/ /\ span' = [span EXCEPT ![r] = NextId]
     /\ table' = [table EXCEPT ![NextId] = "open"]
     /\ disturbed' = disturbed \cup {q \in Requests : span[q] = NextId}
     /\ UNCHANGED faults
  \/ /\ Fault
     /\ disturbed' = disturbed \cup {r}
     /\ UNCHANGED rowVars

\* _finalize_row: whatever row has the id now.
CloseSpan(r, outcome) ==
  \/ /\ table' = IF span[r] # 0 /\ table[span[r]] # "absent"
                 THEN [table EXCEPT ![span[r]] = outcome] ELSE table
     /\ disturbed' = disturbed \cup {q \in Requests : span[q] = span[r] /\ r \in disturbed}
     /\ UNCHANGED faults
  \/ /\ Fault
     /\ disturbed' = disturbed \cup {r}
     /\ UNCHANGED table

\* DELETE /traces.
ClearTraces ==
  /\ \E i \in Ids : table[i] # "absent"
  /\ table' = [i \in Ids |-> "absent"]
  /\ disturbed' = disturbed \cup {r \in Requests : span[r] # 0}
  /\ UNCHANGED <<runVars, span, faults, unasked>>

-----------------------------------------------------------------------------
(* The agent on its thread                                                 *)

OpenStream(r) ==
  /\ stream[r] = "new"
  /\ stream' = [stream EXCEPT ![r] = "open"]
  /\ thread' = [thread EXCEPT ![r] = "working"]
  /\ OpenSpan(r)
  /\ UNCHANGED <<emitted, sent, unasked>>

Emit(r) == emitted' = [emitted EXCEPT ![r] = @ + 1]
Working(r) == thread[r] = "working"
Step(r) == (emitted[r] + 1) \div 2   \* the step in progress after its start stage

\* Where the agent reads a file outside every try: the dataset's files before
\* its first stage, and load_skill, which _call_skill runs behind a step's start
\* stage and the evaluation designer once more before its criteria begin.
Criteria(r) == Agent[r] = "evaluation_designer" /\ Step(r) = 3
ReadsUnguarded(r) ==
  \/ emitted[r] = 0 /\ Agent[r] \in ReadsDataset
  \/ emitted[r] % 2 = 1 /\ emitted[r] < 2 * Steps(r) /\ ~Criteria(r)
  \/ emitted[r] = 4 /\ Agent[r] = "evaluation_designer"

\* Such a file is there and cannot be read, or is not UTF-8: the agent ends in
\* the middle of its plan.  Nothing else of it can raise; in particular no
\* answer reaches the composing that could upset it (SystemPrompt).
ReadFails(r) ==
  /\ Working(r) /\ ReadsUnguarded(r)
  /\ thread' = [thread EXCEPT ![r] = "raised"]
  /\ UNCHANGED <<emitted, sent, stream, rowVars, faults, histVars>>

\* Without a dataset the evaluation designer returns before its first stage.
ReturnEarly(r) ==
  /\ Working(r) /\ emitted[r] = 0 /\ Agent[r] = "evaluation_designer"
  /\ thread' = [thread EXCEPT ![r] = "returned"]
  /\ UNCHANGED <<emitted, sent, stream, rowVars, faults, histVars>>

StartStep(r) ==
  /\ Working(r) /\ emitted[r] % 2 = 0 /\ emitted[r] < 2 * Steps(r)
  /\ Emit(r)
  /\ UNCHANGED <<thread, sent, stream, rowVars, faults, histVars>>

\* The system prompt of a step: what load_skill returns for an installed skill
\* is the text with its hash and its time.  The criteria of the evaluation
\* designer append it to a text of their own.
SystemPrompt(r, installed) ==
  CASE installed /\ ~Criteria(r) -> "tuple"
    [] installed /\ Criteria(r)  -> "type error"
    [] ~installed /\ Criteria(r) -> "text"
    [] OTHER                     -> "none"

\* json= encodes texts; a time it refuses, before anything is sent.
Encodes(prompt) == prompt = "text"

\* The rest of _call_skill, and the criteria's own call: every outcome, an
\* exception of the call too, is the step's result.
FinishStep(r) ==
  /\ Working(r) /\ emitted[r] % 2 = 1 /\ emitted[r] < 2 * Steps(r)
  /\ \E installed \in BOOLEAN :
       unasked' = IF installed /\ ~Encodes(SystemPrompt(r, installed))
                  THEN unasked \cup {r} ELSE unasked
  /\ Emit(r)
  /\ UNCHANGED <<thread, sent, stream, rowVars, faults, disturbed>>

\* The recommendation is composed of whatever the steps gave.
ComposeResult(r) ==
  /\ Working(r) /\ emitted[r] = 2 * Steps(r)
  /\ Emit(r)
  /\ thread' = [thread EXCEPT ![r] = "returned"]
  /\ UNCHANGED <<sent, stream, rowVars, faults, histVars>>

-----------------------------------------------------------------------------
(* The stream on the loop                                                  *)

DeliverStage(r) ==
  /\ stream[r] = "open" /\ sent[r] < emitted[r]
  /\ sent' = [sent EXCEPT ![r] = @ + 1]
  /\ UNCHANGED <<thread, emitted, stream, rowVars, faults, histVars>>

CloseUndrained(r) ==  \* mutant: without the drain after the polling loop
  /\ stream[r] = "open" /\ thread[r] \in {"returned", "raised"}
  /\ stream' = [stream EXCEPT ![r] = IF thread[r] = "raised" THEN "error" ELSE "complete"]
  /\ CloseSpan(r, "success")
  /\ UNCHANGED <<thread, emitted, sent, span, unasked>>

\* The exception of an agent is an event like others: its span is a success.
CloseStream(r) ==
  /\ stream[r] = "open" /\ thread[r] \in {"returned", "raised"}
  /\ sent[r] = emitted[r]
  /\ stream' = [stream EXCEPT ![r] = IF thread[r] = "raised" THEN "error" ELSE "complete"]
  /\ CloseSpan(r, "success")
  /\ UNCHANGED <<thread, emitted, sent, span, unasked>>

\* The generator is cancelled or closed; the thread goes on unseen.
Disconnect(r) ==
  /\ stream[r] = "open"
  /\ stream' = [stream EXCEPT ![r] = "gone"]
  /\ CloseSpan(r, "failure")
  /\ UNCHANGED <<thread, emitted, sent, span, unasked>>

\* Threads and streams die with the process; nothing looks for open rows.
RestartAPI ==
  /\ Fault
  /\ thread' = [r \in Requests |-> IF thread[r] = "working" THEN "killed" ELSE thread[r]]
  /\ stream' = [r \in Requests |-> IF stream[r] = "open" THEN "killed" ELSE stream[r]]
  /\ UNCHANGED <<emitted, sent, rowVars, histVars>>

-----------------------------------------------------------------------------
AgentStep(r) ==
  \/ ReadFails(r) \/ ReturnEarly(r) \/ StartStep(r) \/ FinishStep(r) \/ ComposeResult(r)

Next ==
  \/ \E r \in Requests :
       \/ OpenStream(r) \/ AgentStep(r)
       \/ DeliverStage(r) \/ CloseStream(r) \/ Disconnect(r)
  \/ ClearTraces \/ RestartAPI

Spec == Init /\ [][Next]_vars

-----------------------------------------------------------------------------
(* Properties                                                              *)

\* Nothing an agent told is lost before the stream's last event, however the
\* thread's appends and the loop's polls interleave: "complete" comes behind
\* every stage of the whole plan (of none, for an evaluation without a dataset),
\* and "error" behind every stage up to the read that failed, which is one the
\* agent makes outside its tries.
CompleteIsWhole ==
  \A r \in Requests :
    /\ stream[r] \in {"complete", "error"} => sent[r] = emitted[r]
    /\ stream[r] = "complete" =>
         \/ emitted[r] = 2 * Steps(r) + 1
         \/ emitted[r] = 0 /\ Agent[r] = "evaluation_designer"
    /\ stream[r] = "error" => ReadsUnguarded(r)

\* The span row of a run that nobody disturbed tells how its stream ended: open
\* while it runs and after a restart, a failure only if the client went away.
SpanTellsEnd ==
  \A r \in Requests \ disturbed :
    span[r] # 0 =>
      CASE stream[r] \in {"open", "killed"}     -> table[span[r]] = "open"
        [] stream[r] \in {"complete", "error"}  -> table[span[r]] = "success"
        [] stream[r] = "gone"                   -> table[span[r]] = "failure"

\* What a user sees of an agent run, live or in the traces, is what it did.
AgentRunIsSeen == CompleteIsWhole /\ SpanTellsEnd

-----------------------------------------------------------------------------
(* The inductive invariant                                                 *)

\* Where an agent's thread and stream stand, and how far it is there.
RunPhase(r) ==
  /\ stream[r] = "new" <=> thread[r] = "none"
  /\ stream[r] = "new" => emitted[r] = 0 /\ span[r] = 0
  /\ stream[r] \in {"complete", "error"} => sent[r] = emitted[r]
  /\ stream[r] = "complete" => thread[r] = "returned"
  /\ stream[r] = "error" => thread[r] = "raised"
  /\ thread[r] = "raised" => ReadsUnguarded(r)
  /\ thread[r] = "returned" =>
       \/ emitted[r] = 2 * Steps(r) + 1
       \/ emitted[r] = 0 /\ Agent[r] = "evaluation_designer"
  /\ thread[r] = "working" => emitted[r] <= 2 * Steps(r)

\* Two requests have one row only when the first was disturbed.
RowsAreOwn ==
  \A q, r \in Requests \ disturbed : span[q] = span[r] /\ span[q] # 0 => q = r

\* There is an id for every request.
Opened == {r \in Requests : stream[r] # "new"}
RowsAreOfRuns == \A i \in Ids : table[i] # "absent" => i <= Cardinality(Opened)

IInv ==
  TypeOK /\ (\A r \in Requests : RunPhase(r)) /\ SpanTellsEnd /\ RowsAreOwn /\ RowsAreOfRuns

-----------------------------------------------------------------------------
\* "Call one Hermes skill" (runner.py): an installed skill is put to the model.
InstalledSkillIsAsked == unasked = {}
=============================================================================
