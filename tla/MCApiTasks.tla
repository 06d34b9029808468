----------------------------- MODULE MCApiTasks -----------------------------
(* One instance of each service of the API that keeps state of its own:      *)
(* the repair of captured errors (AutoFix) and their reports, the QA store,  *)
(* the polling streams of a run, the skill calls with their traces and the   *)
(* endpoints in front of them, and who is let in.  They share the event loop *)
(* and no data, so a behaviour exercises one of them, the focus, and the     *)
(* others stay as they began: their product would reach nothing that one of  *)
(* them does not.  So do a run and a dataset, which no endpoint looks at     *)
(* together: either the dataset stays as it is or the run does.              *)
(***************************************************************************)
EXTENDS AutoFix, TLC

CONSTANTS
  Api, ReportWorkers, QueueCap, Threshold, Window, MaxReports, MaxTicks, MaxUpsets,  \* error reports
  Ids, Polls, StoreCap,                                       \* QA store
  MaxMetrics, MaxLines, LineCap, MaxTrainings,                \* streams of a run
  Calls, Skills, Proposals, MaxAttempts, MaxEdits, MaxRefused,  \* skill calls
  Requests, MaxRuns, MaxMoves,                                \* skill endpoints
  Allowed, TTL, MaxKeys, MaxOutages                           \* access

ASSUME ApiAssumption ==
  /\ IsFiniteSet(ReportWorkers) /\ Fingerprints # {}
  /\ QueueCap \in Nat /\ Threshold \in Nat /\ Window \in Nat
  /\ MaxReports \in Nat /\ MaxTicks \in Nat /\ MaxUpsets \in Nat
  /\ MaxMetrics \in Nat /\ MaxLines \in Nat /\ LineCap \in Nat /\ MaxTrainings \in Nat
  /\ StoreCap \in Nat
  /\ MaxAttempts \in Nat \ {0} /\ MaxEdits \in Nat
  /\ "none" \notin Requests /\ MaxRuns \in Nat \ {0} /\ MaxMoves \in Nat
  /\ TTL \in Nat /\ MaxKeys \in Nat \ {0} /\ MaxOutages \in Nat

VARIABLES
  focus,
  queue, window, reportPc, open, reportRows, captured, ticks, upsets, sent, unrecorded, doubled,
  store, order, old, opPc, stale, victim, overlapped,
  runStatus, metrics, lines, trainings, writer, mPhase, mStatus, mLast,
  tPhase, tOffset, tEmitted, tReason, mAtEnd, lAtEnd, cut,
  file, edits, call, traces, untraced,
  row, removing, worker, dir, flat, request, runs, moves, crossed, strays, racing,
  published, signer, gone, idp, opa, cached, answer, outages

\* Two tenants: an administrator, a user of two roles and one without a group in
\* the first, a worker of the system, and somebody else's row.
NoTenant == "none"
Users    == {"ann", "dev", "wrk", "new"}
Granted  == "ann" :> {"admin"} @@ "dev" :> {"viewer", "data_engineer"}
              @@ "wrk" :> {"worker"} @@ "new" :> {"admin"}
Tenant   == "ann" :> "acme" @@ "dev" :> "acme" @@ "wrk" :> "system" @@ "new" :> NoTenant
Rows     == {[tenant |-> "acme", owner |-> "dev"], [tenant |-> "other", owner |-> "zoe"]}

\* Skills are alike, so the proposal may as well use this one.
FirstSkill == CHOOSE k \in Skills : TRUE

ER == INSTANCE ErrorReports
        WITH Workers <- ReportWorkers, MaxErrors <- MaxReports, pc <- reportPc, rows <- reportRows,
             excused <- doubled
QA == INSTANCE QAStore WITH Cap <- StoreCap, pc <- opPc
RS == INSTANCE RunStream
HS == INSTANCE HermesSkills WITH rows <- traces
HE == INSTANCE HermesEndpoints
AC == INSTANCE Access

erVars == <<queue, window, reportPc, open, reportRows, captured, ticks, upsets, sent,
            unrecorded, doubled>>
qaVars == <<store, order, old, opPc, stale, victim, overlapped>>
rsVars == <<runStatus, metrics, lines, trainings, writer, mPhase, mStatus, mLast,
            tPhase, tOffset, tEmitted, tReason, mAtEnd, lAtEnd, cut>>
hsVars == <<file, edits, call, traces, untraced>>
heVars == <<row, removing, worker, dir, flat, request, runs, moves, crossed, strays, racing>>
acVars == <<published, signer, gone, idp, opa, cached, answer, outages>>
apiVars == <<focus, vars, erVars, qaVars, rsVars, hsVars, heVars, acVars>>

\* What the skills start with is settled while they are not in focus.
Settled == focus = "skills" \/ file = [k \in Skills |-> 0]

ApiInit ==
  /\ focus \in {"repair", "report", "qa_store", "stream", "skills", "runs", "datasets", "access"}
  /\ Settled
  /\ Init /\ ER!Init /\ QA!Init /\ RS!Init /\ HS!Init /\ HE!Init /\ AC!Init
  /\ \A c \in Calls : (focus = "skills" /\ c \notin Proposals) \/ call[c].skill = FirstSkill

ApiNext ==
  \/ /\ focus = "repair" /\ Next /\ errors' + faults' <= MaxErrors
     /\ UNCHANGED <<focus, erVars, qaVars, rsVars, hsVars, heVars, acVars>>
  \/ /\ focus = "report" /\ ER!Next
     /\ UNCHANGED <<focus, vars, qaVars, rsVars, hsVars, heVars, acVars>>
  \/ /\ focus = "qa_store" /\ QA!Next
     /\ UNCHANGED <<focus, vars, erVars, rsVars, hsVars, heVars, acVars>>
  \/ /\ focus = "stream" /\ RS!Next
     /\ UNCHANGED <<focus, vars, erVars, qaVars, hsVars, heVars, acVars>>
  \/ /\ focus = "skills" /\ HS!Next
     /\ UNCHANGED <<focus, vars, erVars, qaVars, rsVars, heVars, acVars>>
  \/ /\ focus = "runs" /\ HE!Next /\ UNCHANGED flat
     /\ \A q \in Requests : request'[q].what \in {"none", "run", "report"}
     /\ UNCHANGED <<focus, vars, erVars, qaVars, rsVars, hsVars, acVars>>
  \/ /\ focus = "datasets" /\ HE!Next /\ UNCHANGED <<row, worker, dir>>
     /\ UNCHANGED <<focus, vars, erVars, qaVars, rsVars, hsVars, acVars>>
  \/ /\ focus = "access" /\ AC!Next
     /\ UNCHANGED <<focus, vars, erVars, qaVars, rsVars, hsVars, heVars>>

ApiSpec == ApiInit /\ [][ApiNext]_apiVars

ApiTypeOK ==
  /\ focus = "repair" => TypeOK
  /\ focus = "report" => ER!TypeOK
  /\ focus = "qa_store" => QA!TypeOK
  /\ focus = "stream" => RS!TypeOK
  /\ focus = "skills" => HS!TypeOK
  /\ focus \in {"runs", "datasets"} => HE!TypeOK
  /\ focus = "access" => AC!TypeOK

\* One issue per error, no storms, and nothing captured is forgotten.
ErrorsAreReported == focus = "report" => ER!ErrorsAreReported

\* The order of the scan store and its entries stay in step but for an id that two
\* operations were in the middle of.
StoreInStep == focus = "qa_store" => QA!StoreInStep

\* The stream of a run's metrics says the run is done only behind its last metric,
\* unless the run was deleted; a tail of its log that ends with "terminal" has sent
\* every line up to the cap, unless the file was truncated.  A tail that ended
\* because there was no log promises nothing.
DoneIsLast == RS!MetricsBeforeDone /\ RS!LogBeforeDone

\* What the traces show of the calls and of the skills' changes is true; a request
\* runs the skill on the run it is shown with, and what it leaves behind lies with
\* its run or dataset, unless the run was deleted or its directory strayed into.
SkillCallsAreTrue ==
  /\ focus = "skills" => HS!SkillCallsTraced
  /\ focus \in {"runs", "datasets"} => HE!SkillAnswersKept

\* Keys, outages and roles: who should be let in is, and sees the tenant's rows.
AccessIsCurrent == focus = "access" => AC!AccessIsCurrent

Alike == Permutations(Requests)
=============================================================================
