---------------------------- MODULE RatchetLoop ----------------------------
(***************************************************************************)
(* One autoresearch session: the loop of packages/ratchet/loop.py that     *)
(* proposes, trains and judges one run per round, its decision rule        *)
(* (decision.py), the session endpoints it calls, and the startup recovery *)
(* of apps/api/main.py, which rewrites the same row.                       *)
(*                                                                         *)
(* Every HTTP call of the loop is a step of its own.  Calls made through   *)
(* the API class raise on an error, and the worker then marks the session  *)
(* failed; the bookkeeping PATCHes of runs swallow their errors.  The      *)
(* trainers are an environment: one ends an open run in any way, at any    *)
(* time, or never, and a worker that lost its run (module RunClaims) may   *)
(* report on it once more after it has ended.                              *)
(***************************************************************************)
EXTENDS Integers, FiniteSets

CONSTANTS
  MaxRounds,            \* TrainingSession.max_rounds
  Patience,             \* TrainingSession.plateau_patience
  MinDelta,             \* TrainingSession.min_delta, in units of loss
  MaxProposalFailures,  \* HERMES_MAX_PROPOSAL_FAILURES
  Losses,               \* values of final_val_loss
  NoLoss,               \* final_val_loss / best_metric IS NULL
  NoRun,                \* best_run_id IS NULL
  MaxFaults             \* bound on failed calls, crashes and API restarts

ASSUME RatchetAssumption ==
  /\ MaxRounds \in Nat \ {0} /\ Patience \in Nat \ {0}
  /\ MinDelta \in Nat /\ MaxProposalFailures \in Nat \ {0}
  /\ Losses \subseteq Int /\ NoLoss \notin Losses
  /\ NoRun \notin 1 .. MaxRounds
  /\ MaxFaults \in Nat

Runs == 1 .. MaxRounds   \* at most one child run is created per round

VARIABLES
  (* the sessions row *)
  sStatus,     \* TrainingSession.status, "deleted" when the row is gone
  bestRun, bestMetric,
  (* its child runs *)
  rStatus,     \* "none" before creation; "open" is queued or running
  rLoss, accepted,   \* final_val_loss and was_accepted
  exported,    \* runs with an exports row
  (* locals of _run_session_inner *)
  pc, round, rid, final, myRun, myMetric, streak, propFails,
  faults,
  late         \* history: runs reported on after they had ended

rowVars  == <<sStatus, bestRun, bestMetric>>
runVars  == <<rStatus, rLoss, accepted, exported, late>>
bestVars == <<myRun, myMetric>>
loopVars == <<round, rid, final, bestVars, streak, propFails>>
vars     == <<rowVars, runVars, pc, loopVars, faults>>

Closed == {"completed", "failed", "cancelled"}
Phases == {"idle", "start", "round", "propose", "create", "wait", "judge", "record",
           "finish", "export"}
NoFinal == [status |-> "none", loss |-> NoLoss]

TypeOK ==
  /\ sStatus \in {"queued", "running", "completed", "failed", "cancelled", "deleted"}
  /\ bestRun \in Runs \cup {NoRun} /\ bestMetric \in Losses \cup {NoLoss}
  /\ rStatus \in [Runs -> Closed \cup {"none", "open", "deleted"}]
  /\ rLoss \in [Runs -> Losses \cup {NoLoss}]
  /\ accepted \in [Runs -> {"null", "yes", "no"}]
  /\ exported \subseteq Runs
  /\ pc \in Phases
  /\ round \in 0 .. MaxRounds
  /\ rid \in 0 .. MaxRounds
  /\ final \in [status: Closed \cup {"none"}, loss: Losses \cup {NoLoss}]
  /\ myRun \in Runs \cup {NoRun} /\ myMetric \in Losses \cup {NoLoss}
  /\ streak \in 0 .. MaxRounds
  /\ propFails \in 0 .. MaxProposalFailures
  /\ faults \in 0 .. MaxFaults
  /\ late \subseteq Runs

Init ==
  /\ sStatus = "queued" /\ bestRun = NoRun /\ bestMetric = NoLoss
  /\ rStatus = [r \in Runs |-> "none"]
  /\ rLoss = [r \in Runs |-> NoLoss]
  /\ accepted = [r \in Runs |-> "null"]
  /\ exported = {}
  /\ pc = "idle" /\ round = 0 /\ rid = 0 /\ final = NoFinal
  /\ myRun = NoRun /\ myMetric = NoLoss /\ streak = 0 /\ propFails = 0
  /\ faults = 0
  /\ late = {}

Fault == faults < MaxFaults /\ faults' = faults + 1
SessionExists == sStatus # "deleted"
RunExists(r) == rStatus[r] \notin {"none", "deleted"}

-----------------------------------------------------------------------------
(* decision.py                                                             *)

Decision(a, p) == [accepted |-> a, plateau |-> p]

\* Mutant: any improvement is accepted.
EvaluateIgnoringDelta(new, best, noImprovement) ==
  IF new = NoLoss THEN Decision(FALSE, FALSE)
  ELSE IF best = NoLoss THEN Decision(TRUE, FALSE)
  ELSE Decision(new < best, ~(new < best) /\ noImprovement + 1 >= Patience)

EvaluateIteration(new, best, noImprovement) ==
  IF new = NoLoss THEN Decision(FALSE, FALSE)
  ELSE IF best = NoLoss THEN Decision(TRUE, FALSE)
  ELSE LET improved == best - new >= MinDelta
       IN  Decision(improved, ~improved /\ noImprovement + 1 >= Patience)

-----------------------------------------------------------------------------
(* The loop                                                                *)

FetchQueued ==
  /\ pc = "idle"
  /\ sStatus = "queued"
  /\ pc' = "start"
  /\ round' = 0 /\ rid' = 0 /\ final' = NoFinal
  /\ myRun' = NoRun /\ myMetric' = NoLoss /\ streak' = 0 /\ propFails' = 0
  /\ UNCHANGED <<rowVars, runVars, faults>>

\* PATCH /sessions/{sid} has no guard: whatever the status is now, it is set.
PatchStatus(new) == SessionExists /\ sStatus' = new

StartSession ==
  /\ pc = "start"
  /\ PatchStatus("running")
  /\ pc' = "round"
  /\ UNCHANGED <<bestRun, bestMetric, runVars, loopVars, faults>>

BeginRoundPastLast ==  \* mutant: range(max_rounds + 1)
  /\ pc = "round"
  /\ round <= MaxRounds
  /\ SessionExists
  /\ pc' = IF round = 0 THEN "create" ELSE "propose"
  /\ UNCHANGED <<rowVars, runVars, loopVars, faults>>

BeginRound ==
  /\ pc = "round"
  /\ round < MaxRounds
  /\ SessionExists
  /\ pc' = IF round = 0 THEN "create" ELSE "propose"
  /\ UNCHANGED <<rowVars, runVars, loopVars, faults>>

EndRounds ==
  /\ pc = "round"
  /\ round = MaxRounds
  /\ pc' = "finish"
  /\ UNCHANGED <<rowVars, runVars, loopVars, faults>>

NextRound == pc' = "round" /\ round' = round + 1

\* The proposal parses; the hyperparameters of the best run are read.
ProposalParsed ==
  /\ pc = "propose"
  /\ SessionExists
  /\ myRun # NoRun => RunExists(myRun)
  /\ propFails' = 0
  /\ pc' = "create"
  /\ UNCHANGED <<rowVars, runVars, round, rid, final, bestVars, streak, faults>>

\* MutationProposalError: the round is skipped, or the session given up.
ProposalUnparsed ==
  /\ pc = "propose"
  /\ SessionExists
  /\ propFails' = propFails + 1
  /\ IF propFails' >= MaxProposalFailures
     THEN PatchStatus("failed") /\ pc' = "idle" /\ UNCHANGED round
     ELSE NextRound /\ UNCHANGED sStatus
  /\ UNCHANGED <<bestRun, bestMetric, runVars, rid, final, bestVars, streak, faults>>

\* POST /runs and the two linking PATCHes, of which the second may be lost.
CreateRun ==
  /\ pc = "create"
  /\ rid' = rid + 1
  /\ rStatus' = [rStatus EXCEPT ![rid'] = "open"]
  /\ pc' = "wait"
  /\ UNCHANGED <<rowVars, rLoss, accepted, exported, late, round, final, bestVars, streak,
                 propFails, faults>>

\* _wait_for_run sees a terminal status and returns the row it read.
RunEnded ==
  /\ pc = "wait"
  /\ rStatus[rid] \in Closed
  /\ final' = [status |-> rStatus[rid], loss |-> rLoss[rid]]
  /\ pc' = "judge"
  /\ UNCHANGED <<rowVars, runVars, round, rid, bestVars, streak, propFails, faults>>

\* PATCH was_accepted: an error is logged and the loop goes on.
MarkRun(verdict) ==
  \/ RunExists(rid) /\ accepted' = [accepted EXCEPT ![rid] = verdict] /\ UNCHANGED faults
  \/ ~RunExists(rid) /\ UNCHANGED <<accepted, faults>>
  \/ RunExists(rid) /\ Fault /\ UNCHANGED accepted

\* A run that did not complete counts against the patience.
RejectUnfinished ==
  /\ pc = "judge"
  /\ final.status # "completed"
  /\ MarkRun("no")
  /\ streak' = streak + 1
  /\ IF streak' >= Patience THEN pc' = "finish" /\ UNCHANGED round ELSE NextRound
  /\ UNCHANGED <<rowVars, rStatus, rLoss, exported, late, rid, final, bestVars, propFails>>

Judge ==
  /\ pc = "judge"
  /\ final.status = "completed"
  /\ LET d == EvaluateIteration(final.loss, myMetric, streak) IN
       IF d.accepted
       THEN /\ MarkRun("yes")
            /\ myMetric' = final.loss /\ myRun' = rid /\ streak' = 0
            /\ pc' = "record"
            /\ UNCHANGED round
       ELSE /\ MarkRun("no")
            /\ streak' = streak + 1
            /\ IF d.plateau THEN pc' = "finish" /\ UNCHANGED round ELSE NextRound
            /\ UNCHANGED bestVars
  /\ UNCHANGED <<rowVars, rStatus, rLoss, exported, late, rid, final, propFails>>

\* PATCH /sessions/{sid} with the new best.
RecordRunOnly ==  \* mutant: best_metric_value is left out of the PATCH
  /\ pc = "record"
  /\ SessionExists
  /\ bestRun' = myRun
  /\ NextRound
  /\ UNCHANGED <<sStatus, bestMetric, runVars, rid, final, bestVars, streak, propFails, faults>>

RecordBest ==
  /\ pc = "record"
  /\ SessionExists
  /\ bestRun' = myRun /\ bestMetric' = myMetric
  /\ NextRound
  /\ UNCHANGED <<sStatus, runVars, rid, final, bestVars, streak, propFails, faults>>

Finish ==
  /\ pc = "finish"
  /\ PatchStatus("completed")
  /\ pc' = IF myRun = NoRun THEN "idle" ELSE "export"
  /\ UNCHANGED <<bestRun, bestMetric, runVars, loopVars, faults>>

\* POST /exports refuses a run that is not completed; any error is swallowed.
QueueExport ==
  /\ pc = "export"
  /\ \/ rStatus[myRun] = "completed" /\ exported' = exported \cup {myRun} /\ UNCHANGED faults
     \/ rStatus[myRun] # "completed" /\ UNCHANGED <<exported, faults>>
     \/ Fault /\ UNCHANGED exported
  /\ pc' = "idle"
  /\ UNCHANGED <<rowVars, rStatus, rLoss, accepted, late, loopVars>>

-----------------------------------------------------------------------------
(* Exceptions: the handler in __main__.py PATCHes the session failed       *)

MarkFailed ==
  IF SessionExists THEN sStatus' = "failed" ELSE UNCHANGED sStatus

GiveUp == pc' = "idle" /\ UNCHANGED <<bestRun, bestMetric, runVars, loopVars>>

\* A raising call of this phase answers 404: its row was deleted.
Missing ==
  \/ pc \in {"start", "round", "propose", "record", "finish"} /\ ~SessionExists
  \/ pc = "propose" /\ myRun # NoRun /\ ~RunExists(myRun)
  \/ pc = "wait" /\ ~RunExists(rid)

RowMissing ==
  /\ Missing
  /\ MarkFailed
  /\ GiveUp
  /\ UNCHANGED faults

WaitForever ==  \* mutant: no deadline
  /\ pc = "wait"
  /\ rStatus[rid] = "open"
  /\ UNCHANGED vars

\* The 7200 s of _wait_for_run pass: TimeoutError.  The run stays as it is.
WaitTimesOut ==
  /\ pc = "wait"
  /\ rStatus[rid] = "open"
  /\ MarkFailed
  /\ GiveUp
  /\ UNCHANGED faults

\* A raising call fails on the wire or in the server.  The handler's own
\* PATCH may fail with it (the API is down).
CallFails ==
  /\ pc \notin {"idle", "judge", "export"}
  /\ Fault
  /\ MarkFailed \/ UNCHANGED sStatus
  /\ GiveUp

\* The ratchet process is killed.
Crash ==
  /\ pc # "idle"
  /\ Fault
  /\ GiveUp
  /\ UNCHANGED sStatus

-----------------------------------------------------------------------------
(* Trainer, users and the API process                                      *)

EndRun(r) ==
  /\ rStatus[r] = "open"
  /\ \/ \E l \in Losses \cup {NoLoss} :
          rStatus' = [rStatus EXCEPT ![r] = "completed"] /\ rLoss' = [rLoss EXCEPT ![r] = l]
     \/ \E s \in {"failed", "cancelled"} :
          rStatus' = [rStatus EXCEPT ![r] = s] /\ UNCHANGED rLoss
  /\ UNCHANGED <<rowVars, accepted, exported, late, pc, loopVars, faults>>

\* A trainer whose run was swept, cancelled or failed under it PATCHes the row
\* all the same: running at its start, completed or failed at its end.
LateReport(r) ==
  /\ rStatus[r] \in Closed
  /\ Fault
  /\ late' = late \cup {r}
  /\ \/ \E l \in Losses \cup {NoLoss} :
          rStatus' = [rStatus EXCEPT ![r] = "completed"] /\ rLoss' = [rLoss EXCEPT ![r] = l]
     \/ \E s \in {"open", "failed"} :
          rStatus' = [rStatus EXCEPT ![r] = s] /\ UNCHANGED rLoss
  /\ UNCHANGED <<rowVars, accepted, exported, pc, loopVars>>

CancelSession ==
  /\ sStatus \in {"queued", "running"}
  /\ sStatus' = "cancelled"
  /\ UNCHANGED <<bestRun, bestMetric, runVars, pc, loopVars, faults>>

\* DELETE /runs/{id} looks at exports but not at the session's best_run_id.
DeleteRun(r) ==
  /\ RunExists(r) /\ r \notin exported
  /\ rStatus' = [rStatus EXCEPT ![r] = "deleted"]
  /\ UNCHANGED <<rowVars, rLoss, accepted, exported, late, pc, loopVars, faults>>

DeleteSession ==
  /\ SessionExists /\ exported = {}
  /\ sStatus' = "deleted"
  /\ rStatus' = [r \in Runs |-> IF RunExists(r) THEN "deleted" ELSE rStatus[r]]
  /\ UNCHANGED <<bestRun, bestMetric, rLoss, accepted, exported, late, pc, loopVars, faults>>

\* What the startup recovery makes of a running session with children rs.
Completed(rs) == {r \in Runs : rs[r] = "completed"}
WithMetric(rs) == {r \in Completed(rs) : rLoss[r] # NoLoss}

DeriveBest(rs) ==
  IF bestRun # NoRun THEN UNCHANGED <<bestRun, bestMetric>>
  ELSE IF WithMetric(rs) # {}
  THEN \E r \in WithMetric(rs) :
         /\ \A q \in WithMetric(rs) : rLoss[r] <= rLoss[q]
         /\ bestRun' = r /\ bestMetric' = rLoss[r]
  ELSE /\ bestRun' \in Completed(rs)
       /\ UNCHANGED bestMetric

\* release_expired_claims fails the open runs whose lease has lapsed (any of
\* them), then the running session is reconciled.
RestartAPI ==
  /\ Fault
  /\ \E stranded \in SUBSET {r \in Runs : rStatus[r] = "open"} :
       rStatus' = [r \in Runs |-> IF r \in stranded THEN "failed" ELSE rStatus[r]]
  /\ IF sStatus = "running"
     THEN IF Completed(rStatus') # {}
          THEN sStatus' = "completed" /\ DeriveBest(rStatus')
          ELSE sStatus' = "failed" /\ UNCHANGED <<bestRun, bestMetric>>
     ELSE UNCHANGED rowVars
  /\ UNCHANGED <<rLoss, accepted, exported, late, pc, loopVars>>

-----------------------------------------------------------------------------
LoopStep ==
  \/ FetchQueued \/ StartSession \/ BeginRound \/ EndRounds
  \/ ProposalParsed \/ ProposalUnparsed \/ CreateRun
  \/ RunEnded \/ RejectUnfinished \/ Judge \/ RecordBest
  \/ Finish \/ QueueExport
  \/ RowMissing \/ WaitTimesOut

Next ==
  \/ LoopStep \/ CallFails \/ Crash
  \/ \E r \in Runs : EndRun(r) \/ LateReport(r) \/ DeleteRun(r)
  \/ CancelSession \/ DeleteSession \/ RestartAPI

\* The loop is one sequential process that keeps running, and its wait is
\* bounded by a clock.  The trainer owes nothing: it may never claim a run.
Spec == Init /\ [][Next]_vars /\ WF_vars(LoopStep)

-----------------------------------------------------------------------------
(* Properties                                                              *)

\* Once a session has a best metric, the next one it records is better by at
\* least min_delta, also across a startup recovery that rewrites the row under
\* the running loop; unless that recovery chose a run that was reported on
\* after it had ended.
BestOnlyImproves ==
  bestMetric # NoLoss /\ bestMetric' # bestMetric /\ bestRun \notin late
    => bestMetric' # NoLoss /\ bestMetric - bestMetric' >= MinDelta

\* The runs marked accepted form a strictly improving chain in creation order.
AcceptedChain ==
  \A q, r \in Runs \ late :
    q < r /\ accepted[q] = "yes" /\ accepted[r] = "yes" => rLoss[q] - rLoss[r] >= MinDelta

\* The ratchet never slips, neither in the session's row nor in the verdicts on
\* its runs (evaluate_iteration, the PATCHes of loop.py, _recover_stranded).
RatchetNeverSlips == [][BestOnlyImproves /\ AcceptedChain']_vars

\* The recorded best metric is the loss of the recorded best run.
BestMatchesRun ==
  bestRun \in Runs \ late => bestMetric = rLoss[bestRun]

\* A completed session with a measured run points at a winner, whichever of
\* the loop and the recovery completed it.
CompletedHasWinner ==
  sStatus = "completed" /\ WithMetric(rStatus) \ late # {} => bestRun # NoRun

\* What is exported automatically is the winner the session row names.
ExportIsWinner == exported \subseteq {bestRun}

\* The loop never has two runs in training for one session: a next run is
\* created only when the one before has ended, and not after a timeout.
OneOpenRun == Cardinality({r \in Runs \ late : rStatus[r] = "open"}) <= 1

\* The session's row, its runs and its export tell one story, whoever of the
\* loop, its users and the recovery wrote last.
RowMatchesRuns == BestMatchesRun /\ CompletedHasWinner /\ ExportIsWinner /\ OneOpenRun

-----------------------------------------------------------------------------
(* The inductive invariant                                                 *)

\* The counters of the loop at each of its phases.
LoopPhase ==
  /\ pc # "idle" => propFails < MaxProposalFailures
  /\ pc \in {"start", "round", "propose", "create"} => rid <= round
  /\ pc \in {"wait", "judge", "record"} => rid \in 1 .. round + 1
  /\ pc \in {"propose", "create", "wait", "judge", "record"} => round < MaxRounds
  /\ pc \in {"start", "round", "propose", "create", "wait", "judge", "record"} => streak <= round
  /\ pc = "start" => rid = 0
  /\ pc \in {"record", "export"} => myRun # NoRun
  /\ sStatus = "queued" => pc \in {"idle", "start"} /\ rid = 0

\* Runs come into being in order, and one that nobody reported on late is in
\* training only as the newest, while the loop waits for it or has given up, and
\* is measured only when it completed.
RunsInOrder ==
  /\ \A r \in Runs : r > rid => rStatus[r] = "none"
  /\ \A r \in Runs : rStatus[r] = "none" => r \notin late /\ accepted[r] = "null"
  /\ \A r \in Runs \ late : rStatus[r] = "open" =>
       r = rid /\ pc \in {"wait", "idle"} /\ accepted[r] = "null"
  /\ \A r \in Runs \ late : rLoss[r] # NoLoss => rStatus[r] \in {"completed", "deleted"}

\* What the loop read of a run is still what the row says.
VerdictIsCurrent ==
  /\ pc = "judge" => final.status \in Closed
  /\ pc = "judge" /\ rid \notin late =>
       /\ rStatus[rid] \in {final.status, "deleted"} /\ final.loss = rLoss[rid]
       /\ final.loss # NoLoss => final.status = "completed"

\* The best run of the loop, which every other accepted one is worse than.
LoopBest ==
  /\ myRun = NoRun <=> myMetric = NoLoss
  /\ myRun \in Runs => rStatus[myRun] # "none"
  /\ myRun \in Runs \ late => myMetric = rLoss[myRun] /\ rStatus[myRun] # "open"
  /\ \A q \in Runs \ late : accepted[q] = "yes" =>
       /\ rLoss[q] \in Losses /\ myMetric \in Losses
       /\ q # myRun => rLoss[q] - myMetric >= MinDelta

\* The session's row names the best run of the loop, is about to, or holds what
\* a recovery found in the run the loop has yet to judge.
RowFollowsLoop ==
  /\ bestRun = NoRun => bestMetric = NoLoss
  /\ bestRun \in Runs => rStatus[bestRun] # "none"
  /\ bestRun \in Runs \ late => rStatus[bestRun] # "open"
  /\ pc \notin {"idle", "record"} /\ myRun # NoRun => bestRun = myRun /\ bestMetric = myMetric
  /\ pc \notin {"idle", "record"} /\ myRun = NoRun /\ bestMetric # NoLoss /\ bestRun \notin late
       => bestRun = rid /\ pc \in {"wait", "judge"}
  /\ pc = "record" => myRun = rid
  /\ pc = "record" /\ bestMetric \notin {NoLoss, myMetric} /\ bestRun \notin late
       => bestMetric - myMetric >= MinDelta

\* A measured run that was judged has left a winner in the row.
JudgedLeavesWinner ==
  /\ \A r \in WithMetric(rStatus) \ late :
       (r < rid \/ pc \notin {"wait", "judge", "record"}) /\ pc # "idle" => bestRun # NoRun
  /\ sStatus = "completed" /\ bestRun = NoRun =>
       pc \in {"idle", "export"} /\ \A r \in Runs \ late : rStatus[r] # "open"

ExportEndsSession ==
  exported # {} => pc = "idle" /\ sStatus # "queued" /\ bestRun # NoRun

IInv ==
  /\ TypeOK /\ LoopPhase
  /\ RunsInOrder /\ VerdictIsCurrent /\ LoopBest /\ AcceptedChain
  /\ RowFollowsLoop /\ BestMatchesRun
  /\ JudgedLeavesWinner /\ CompletedHasWinner
  /\ ExportEndsSession /\ ExportIsWinner
-----------------------------------------------------------------------------

\* The loop always comes back to its queue: no run, lost call or deleted row
\* holds it for ever, even if no trainer exists.
LoopReturns == pc # "idle" ~> pc = "idle"

=============================================================================
