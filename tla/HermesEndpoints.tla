--------------------------- MODULE HermesEndpoints ---------------------------
(* The skill endpoints of apps/api/routers/hermes.py: what they read of a    *)
(* run, a session or a dataset before the model is asked, and the two that   *)
(* write when it has answered, a run's post_mortem.md and a dataset's canary *)
(* set.  HermesSkills has the skill files and the call of the model itself.  *)
(* Requests run on threads of their own, and a call of the model takes       *)
(* minutes: meanwhile the run may be deleted and its id given to another,    *)
(* while the worker that trains it goes on.                                  *)
(*                                                                           *)
(* One dataset and one run id stand for all: those of other names never      *)
(* meet.                                                                     *)
(***************************************************************************)
EXTENDS Naturals, Sequences, FiniteSets

CONSTANTS
  Requests,
  MaxRuns,    \* bound on the runs that get the id, one after the other
  MaxMoves    \* bound on the datasets that come and go

VARIABLES
  row,          \* the run with the id, 0 for none
  removing,     \* deleted runs whose directory delete_run is about to remove
  worker,       \* of each run: has a trainer claimed it, and opened its log
  dir,          \* runs/<id>: [there, log, report], whose newest lines and post-mortem
  flat,         \* data/datasets/<name>: [there, records, canary]
  request,      \* [what, at, code, run, log]
  runs, moves,
  (* history, read by the properties only *)
  crossed,      \* requests during which their run was deleted
  strays,       \* runs that left something behind that a later run of the id may meet
  racing        \* requests that checked for a canary set while another was saving

worldVars == <<row, removing, worker, dir, flat, runs, moves, strays>>
vars == <<worldVars, request, crossed, racing>>

NoDir  == [there |-> FALSE, log |-> 0, report |-> 0]
NoData == [there |-> FALSE, records |-> FALSE, canary |-> "none"]
Idle   == [what |-> "none", at |-> "idle", code |-> 0, run |-> 0, log |-> 0]
\* Of a text or a session, of a run, its post-mortem, of a dataset, save_canary.
Kinds  == {"plain", "run", "report", "dataset", "save"}
Points == {"idle", "composing", "asked", "answered", "saving", "done"}
Codes  == {0, 200, 400, 404, 409, 500, 503}

Owners == 1 .. MaxRuns   \* the runs that get the id

TypeOK ==
  /\ row \in 0 .. MaxRuns /\ removing \subseteq Owners
  /\ worker \in [Owners -> {"none", "claimed", "writing"}]
  /\ dir \in [there : BOOLEAN, log : 0 .. MaxRuns, report : 0 .. MaxRuns]
  /\ flat \in [there : BOOLEAN, records : BOOLEAN, canary : {"none", "user"} \cup Requests]
  /\ request \in [Requests -> [what : Kinds \cup {"none"}, at : Points, code : Codes,
                              run : 0 .. MaxRuns, log : 0 .. MaxRuns]]
  /\ runs \in Owners /\ moves \in 0 .. MaxMoves
  /\ strays \subseteq Owners /\ crossed \subseteq Requests /\ racing \subseteq Requests

Init ==
  /\ row = 1 /\ removing = {} /\ worker = [n \in Owners |-> "none"] /\ dir = NoDir
  /\ flat = [there |-> TRUE, records |-> TRUE, canary |-> "none"]
  /\ request = [q \in Requests |-> Idle]
  /\ runs = 1 /\ moves = 0
  /\ crossed = {} /\ strays = {} /\ racing = {}

At(q, what, at) == request[q].what = what /\ request[q].at = at
Becomes(q, new) == request' = [request EXCEPT ![q] = new]
Refuse(q, what, code) == Becomes(q, [request[q] EXCEPT !.what = what, !.at = "done", !.code = code])
Finish(q, code) == Becomes(q, [request[q] EXCEPT !.at = "done", !.code = code])

-----------------------------------------------------------------------------
(* The world around the requests                                           *)

\* A trainer claims the run, and before long makes the directory and opens the log,
\* afresh.  Nothing tells it that the run was deleted meanwhile.
ClaimRun ==
  /\ row # 0 /\ worker' = [worker EXCEPT ![row] = IF @ = "none" THEN "claimed" ELSE @]
  /\ UNCHANGED <<row, removing, dir, flat, runs, moves, strays, request, crossed, racing>>

WriteLog(n) ==
  /\ dir' = [dir EXCEPT !.there = TRUE, !.log = n]
  /\ strays' = IF n = row THEN strays ELSE strays \cup {n}
  /\ UNCHANGED <<row, removing, flat, runs, moves, request, crossed, racing>>
OpenLog(n) ==
  /\ worker[n] = "claimed" /\ worker' = [worker EXCEPT ![n] = "writing"]
  /\ WriteLog(n)
WriteLine(n) == worker[n] = "writing" /\ WriteLog(n) /\ UNCHANGED worker
EndTraining(n) ==
  /\ worker[n] # "none"
  /\ worker' = [worker EXCEPT ![n] = "none"]
  /\ UNCHANGED <<row, removing, dir, flat, runs, moves, strays, request, crossed, racing>>

\* delete_run commits, then removes the directory, whosever that is by now, and the
\* lines of an open log go nowhere; a failing removal is passed over.
DeleteRow ==
  /\ row # 0
  /\ row' = 0 /\ removing' = removing \cup {row}
  /\ crossed' = crossed \cup {q \in Requests : request[q].run = row /\ request[q].at # "done"}
  /\ UNCHANGED <<worker, dir, flat, runs, moves, strays, request, racing>>
DeleteDir(n) ==
  /\ n \in removing /\ removing' = removing \ {n}
  /\ \/ /\ dir' = NoDir
        /\ worker' = [m \in Owners |-> IF worker[m] = "writing" THEN "none" ELSE worker[m]]
        /\ UNCHANGED strays
     \/ /\ dir.there /\ strays' = strays \cup {n}
        /\ UNCHANGED <<dir, worker>>
  /\ UNCHANGED <<row, flat, runs, moves, request, crossed, racing>>

\* The database gives out the id again, be the last one's directory removed or not.
CreateRun ==
  /\ row = 0 /\ runs < MaxRuns
  /\ runs' = runs + 1 /\ row' = runs + 1
  /\ strays' = strays \cup removing
  /\ UNCHANGED <<removing, worker, dir, flat, moves, request, crossed, racing>>

\* A dataset of the old layout is seeded away, or made by hand, perhaps with a
\* canary set, perhaps without records.
MoveDataset ==
  /\ moves < MaxMoves /\ moves' = moves + 1
  /\ IF flat.there THEN flat' = NoData
     ELSE \E has \in BOOLEAN, canary \in {"none", "user"} :
            flat' = [there |-> TRUE, records |-> has, canary |-> canary]
  /\ UNCHANGED <<row, removing, worker, dir, runs, strays, request, crossed, racing>>

World ==
  \/ ClaimRun \/ DeleteRow \/ CreateRun \/ MoveDataset
  \/ \E n \in Owners : OpenLog(n) \/ WriteLine(n) \/ EndTraining(n) \/ DeleteDir(n)

-----------------------------------------------------------------------------
(* Before the model is asked                                               *)

\* A row the caller may not see or that is not there, a dataset of another layout
\* or without records; a blank text, an empty canary set.
Reject(q, what) ==
  /\ request[q].at = "idle"
  /\ \E code \in {400, 404} :
       /\ code = 400 => what \in {"plain", "save"}
       /\ code = 404 => what \in {"plain", "run", "report"} \/ (what = "dataset" /\ ~flat.records)
                          \/ (what = "save" /\ ~flat.there)
       /\ Refuse(q, what, code)
  /\ UNCHANGED <<worldVars, crossed, racing>>

Compose(q, what, run) ==
  /\ request[q].at = "idle"
  /\ Becomes(q, [request[q] EXCEPT !.what = what, !.at = "composing", !.run = run])
  /\ UNCHANGED <<worldVars, crossed, racing>>

\* auto_label and its like have all they need from the caller, and analyze_drift
\* from the rows of a session.
ReadText(q) == Compose(q, "plain", 0)

\* diagnose_run, explain_anomaly, recommend_quants, post_mortem: the run's row.
ReadRow(q, what) == row # 0 /\ what \in {"run", "report"} /\ Compose(q, what, row)

\* data_quality, propose_canary, synth_style: the first records of a split.
ReadSample(q) == flat.records /\ Compose(q, "dataset", 0)

\* The tail of the log is read, and the skill is loaded, unless it is not installed or
\* cannot be read.
AskSkill(q) ==
  /\ request[q].at = "composing"
  /\ \/ \E code \in {404, 500} : Finish(q, code)
     \/ Becomes(q, [request[q] EXCEPT !.at = "asked",
                                    !.log = IF request[q].run = 0 THEN 0 ELSE dir.log])
  /\ UNCHANGED <<worldVars, crossed, racing>>

ModelFails(q) ==
  /\ request[q].at = "asked"
  /\ Finish(q, 503)
  /\ UNCHANGED <<worldVars, crossed, racing>>

\* Any answer is given on, as an object when it is one.
ModelAnswers(q) ==
  /\ request[q].at = "asked"
  /\ Becomes(q, [request[q] EXCEPT !.at = IF request[q].what = "report" THEN "answered" ELSE "done",
                                !.code = 200])
  /\ UNCHANGED <<worldVars, crossed, racing>>

-----------------------------------------------------------------------------
(* Behind the answer                                                       *)

\* post_mortem writes its answer into the run's directory, which it makes when
\* there is none, as best it can.
WriteReport(q) ==
  /\ At(q, "report", "answered")
  /\ dir' = [dir EXCEPT !.there = TRUE, !.report = request[q].run] \/ UNCHANGED dir
  /\ Finish(q, 200)
  /\ UNCHANGED <<row, removing, worker, flat, runs, moves, strays, crossed, racing>>

StartSave(q) == Becomes(q, [request[q] EXCEPT !.what = "save", !.at = "saving"])

SaveUnchecked(q) ==   \* mutant: an existing set is not refused
  /\ request[q].at = "idle" /\ flat.there
  /\ StartSave(q)
  /\ UNCHANGED <<worldVars, crossed, racing>>

\* save_canary looks for a canary set, and writes one.
CheckCanary(q) ==
  /\ request[q].at = "idle" /\ flat.there
  /\ IF flat.canary # "none"
     THEN /\ Refuse(q, "save", 409)
          /\ UNCHANGED racing
     ELSE /\ StartSave(q)
          /\ racing' = racing \cup (IF \E p \in Requests : At(p, "save", "saving")
                                    THEN {q} \cup {p \in Requests : At(p, "save", "saving")} ELSE {})
  /\ UNCHANGED <<worldVars, crossed>>

WriteCanary(q) ==
  /\ At(q, "save", "saving")
  /\ IF flat.there THEN Finish(q, 200) /\ flat' = [flat EXCEPT !.canary = q]
     ELSE Finish(q, 500) /\ UNCHANGED flat
  /\ UNCHANGED <<row, removing, worker, dir, runs, moves, strays, crossed, racing>>

Next ==
  \/ World
  \/ \E q \in Requests :
       \/ \E what \in Kinds : Reject(q, what) \/ ReadRow(q, what)
       \/ ReadText(q) \/ ReadSample(q)
       \/ AskSkill(q) \/ ModelFails(q) \/ ModelAnswers(q)
       \/ WriteReport(q) \/ CheckCanary(q) \/ WriteCanary(q)

Spec == Init /\ [][Next]_vars

-----------------------------------------------------------------------------
(* Properties                                                              *)

\* What the model is told of a run's log is of that run, and a post-mortem lies with
\* the run it explains, unless the run was deleted during the request or the other run
\* is a stray: its worker wrote on when it was deleted, its directory could not be
\* removed or was not yet when the id was given out (hermes.py:384-397, :767-778).
ReportsAreOwn ==
  /\ \A q \in Requests \ crossed : request[q].log \in {0, request[q].run} \cup strays
  /\ dir.report # 0 /\ row # 0 /\ dir.report \notin {row} \cup strays =>
       \E q \in crossed : request[q].what = "report" /\ request[q].run = dir.report

\* A canary set that was saved stays, beside another saved since only when the
\* two requests overlapped (hermes.py:599-604).
CanaryIsKept ==
  \A p, q \in Requests :
    (p # q /\ At(p, "save", "done") /\ At(q, "save", "done")
       /\ request[p].code = 200 /\ request[q].code = 200) =>
      {p, q} \subseteq racing \/ moves > 0

\* Reports and canary sets are those of what they lie with.
SkillAnswersKept == ReportsAreOwn /\ CanaryIsKept

-----------------------------------------------------------------------------
(* The inductive invariant                                                 *)

\* A request that has not begun holds nothing.
RequestPhase(q) ==
  /\ request[q].at = "idle" => request[q].run = 0 /\ q \notin crossed
  /\ request[q].at \in {"idle", "composing"} => request[q].log = 0
  /\ request[q].at \in {"idle", "composing", "asked", "saving"} => request[q].code = 0
  /\ request[q].at = "saving" => request[q].what = "save"
  /\ request[q].at \in {"composing", "asked", "answered"} => request[q].what # "save"

\* A request is about the run that has the id, unless its run was deleted; and
\* no run has an id before it is made.
RunIsCurrent ==
  /\ row \in {0, runs}
  /\ \A q \in Requests \ crossed :
       request[q].run # 0 /\ request[q].at # "done" => request[q].run = row

\* What the directory holds is the current run's, a stray's, or was written by a
\* request whose run was deleted, if it is not about to be removed.
DirIsOwn ==
  /\ row # 0 => removing \subseteq strays
  /\ dir.log \in {0, row} \cup strays \cup removing
  /\ dir.report \notin {0, row} \cup strays \cup removing =>
       \E q \in crossed : request[q].what = "report" /\ request[q].run = dir.report

Saved(q)  == At(q, "save", "done") /\ request[q].code = 200
Saving(q) == At(q, "save", "saving")

\* While no dataset moves, a saved canary set is there, and requests that could
\* still overwrite each other's are known to overlap.
SavesOverlap ==
  moves = 0 =>
    /\ flat.there
    /\ \A q \in Requests : Saved(q) => flat.canary # "none"
    /\ \A p, q \in Requests :
         p # q /\ Saving(p) /\ (Saving(q) \/ Saved(q)) => {p, q} \subseteq racing

IInv ==
  /\ TypeOK /\ SkillAnswersKept
  /\ \A q \in Requests : RequestPhase(q)
  /\ RunIsCurrent /\ DirIsOwn /\ SavesOverlap
=============================================================================
