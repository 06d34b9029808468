----------------------------- MODULE RunClaims -----------------------------
(***************************************************************************)
(* The run queue of the control plane and the trainer workers that drain   *)
(* it: apps/api/services/claims.py (claim, lease, sweep), the run          *)
(* endpoints of apps/api/routers/runs.py, the startup recovery of          *)
(* apps/api/main.py and the worker of packages/trainer.                    *)
(*                                                                         *)
(* A claim request is three database transactions: the sweep reads the     *)
(* running rows and then writes back the expired ones, the candidate list  *)
(* is read, and each candidate is tried with a compare-and-swap.  Requests *)
(* run on the server's thread pool, so the steps of two requests, and the  *)
(* PATCHes of other workers, interleave between them.                      *)
(***************************************************************************)
EXTENDS Naturals, FiniteSets

CONSTANTS
  Workers,    \* trainer processes (a slot keeps its name across restarts)
  Runs,       \* row ids; SQLite allots them in creation order
  Serves,     \* Serves[w]: the runs whose trainer_backend is the worker's
  NoWorker,
  NoRun,
  MaxFaults   \* bound on crashes, lost calls and API restarts together

ASSUME ConstantsAssumption ==
  /\ Runs \subseteq Nat
  /\ Serves \in [Workers -> SUBSET Runs]
  /\ NoWorker \notin Workers
  /\ NoRun \notin Runs
  /\ MaxFaults \in Nat

VARIABLES
  (* rows of the runs table *)
  status,     \* Run.status, or "absent" when there is no such row
  owner,      \* Run.claimed_by / claimed_at: written and cleared together
  recent,     \* last_activity is younger than SLM_FORGE_CLAIM_TIMEOUT_MIN
  fields,     \* the nullable columns among Columns that are set
  (* worker processes and their claim requests *)
  pc,         \* where the worker, or its request on the server, stands
  job,        \* the run the worker has been handed
  stale,      \* rows the request's sweep has judged expired, not yet written
  cand,       \* candidate rows the request has still to try
  faults,
  (* history, read by the properties only *)
  swept,      \* rows put back in the queue by a sweep
  trained,    \* rows for which a training process exited with 0
  haunted     \* ids deleted while a worker was still training them

rowVars  == <<status, owner, recent, fields>>
workVars == <<pc, job, stale, cand>>
histVars == <<swept, trained, haunted>>
vars     == <<rowVars, workVars, faults, histVars>>

Statuses == {"absent", "queued", "running", "completed", "failed", "cancelled"}
Columns  == {"started_at", "completed_at", "adapter_path"}

\* A claim request is being served in the first three phases; the worker
\* executes run_training_job in the last three.
RequestPhases == {"sweep", "select", "try"}
JobPhases     == {"claimed", "training", "exited"}
Phases        == {"idle"} \cup RequestPhases \cup JobPhases

Exists(r) == status[r] # "absent"
Holds(w, r) == job[w] = r

TypeOK ==
  /\ status \in [Runs -> Statuses]
  /\ owner \in [Runs -> Workers \cup {NoWorker}]
  /\ recent \in [Runs -> BOOLEAN]
  /\ fields \in [Runs -> SUBSET Columns]
  /\ pc \in [Workers -> Phases]
  /\ job \in [Workers -> Runs \cup {NoRun}]
  /\ stale \in [Workers -> SUBSET Runs]
  /\ cand \in [Workers -> SUBSET Runs]
  /\ faults \in 0 .. MaxFaults
  /\ swept \subseteq Runs
  /\ trained \subseteq Runs
  /\ haunted \subseteq Runs

Init ==
  /\ status = [r \in Runs |-> "absent"]
  /\ owner = [r \in Runs |-> NoWorker]
  /\ recent = [r \in Runs |-> FALSE]
  /\ fields = [r \in Runs |-> {}]
  /\ pc = [w \in Workers |-> "idle"]
  /\ job = [w \in Workers |-> NoRun]
  /\ stale = [w \in Workers |-> {}]
  /\ cand = [w \in Workers |-> {}]
  /\ faults = 0
  /\ swept = {} /\ trained = {} /\ haunted = {}

Fault == faults < MaxFaults /\ faults' = faults + 1

-----------------------------------------------------------------------------
(* Users of the API                                                        *)

\* POST /runs.  Without AUTOINCREMENT SQLite gives a new row the id after the
\* largest one present, so the id of a deleted last row is used again.
CreateRun(r) ==
  /\ \A s \in Runs : Exists(s) => s < r
  /\ \A s \in Runs : s < r => \E t \in Runs : Exists(t) /\ s <= t
  /\ status' = [status EXCEPT ![r] = "queued"]
  /\ UNCHANGED <<owner, recent, fields, workVars, faults, histVars>>

\* PATCH /runs/{id} {status: cancelled}: patch_run has no guard on the old
\* status, and nothing tells the worker.
CancelRun(r) ==
  /\ Exists(r)
  /\ status' = [status EXCEPT ![r] = "cancelled"]
  /\ fields' = [fields EXCEPT ![r] = @ \cup {"completed_at"}]
  /\ UNCHANGED <<owner, recent, workVars, faults, histVars>>

\* DELETE /runs/{id}: the row and its metrics go, whatever the status.  (The
\* refusal for runs with an export is outside this module.)
DeleteRun(r) ==
  /\ Exists(r)
  /\ status' = [status EXCEPT ![r] = "absent"]
  /\ owner' = [owner EXCEPT ![r] = NoWorker]
  /\ recent' = [recent EXCEPT ![r] = FALSE]
  /\ fields' = [fields EXCEPT ![r] = {}]
  /\ swept' = swept \ {r}
  /\ trained' = trained \ {r}
  /\ haunted' = IF \E w \in Workers : Holds(w, r) THEN haunted \cup {r} ELSE haunted
  /\ UNCHANGED <<workVars, faults>>

-----------------------------------------------------------------------------
(* POST /runs/claim, one transaction at a time                             *)

\* What release_expired_claims selects: running, claimed, and silent for the
\* whole timeout.  Rows without a claim are skipped (include_legacy=False).
Expired(r) == status[r] = "running" /\ owner[r] # NoWorker /\ ~recent[r]

\* The disposition of the rows in S by the sweep ("queued") or by the startup
\* recovery ("failed").  The UPDATEs go by primary key only.
ReleaseAlwaysRequeues(S, new) ==  \* mutant: stranded_action is ignored
  /\ status' = [r \in Runs |-> IF r \in S THEN "queued" ELSE status[r]]
  /\ owner' = [r \in Runs |-> IF r \in S THEN NoWorker ELSE owner[r]]

ReleaseUnknownStatus(S, new) ==  \* mutant: a status outside the enum
  /\ status' = [r \in Runs |-> IF r \in S THEN "released" ELSE status[r]]
  /\ owner' = [r \in Runs |-> IF r \in S THEN NoWorker ELSE owner[r]]

Release(S, new) ==
  /\ status' = [r \in Runs |-> IF r \in S THEN new ELSE status[r]]
  /\ owner' = [r \in Runs |-> IF r \in S THEN NoWorker ELSE owner[r]]

SweepRead(w) ==
  /\ pc[w] = "idle"
  /\ stale' = [stale EXCEPT ![w] = {r \in Runs : Expired(r)}]
  /\ pc' = [pc EXCEPT ![w] = "sweep"]
  /\ UNCHANGED <<rowVars, job, cand, faults, histVars>>

\* The rows are written as they were judged, whatever happened to them since.
SweepWrite(w) ==
  /\ pc[w] = "sweep"
  /\ \A r \in stale[w] : Exists(r)
  /\ Release(stale[w], "queued")
  /\ stale' = [stale EXCEPT ![w] = {}]
  /\ pc' = [pc EXCEPT ![w] = "select"]
  /\ swept' = swept \cup stale[w]
  /\ UNCHANGED <<recent, fields, job, cand, faults, trained, haunted>>

\* An UPDATE that matches no row raises, the request answers 500 and the
\* worker reads that as an empty queue.
SweepConflictRetries(w) ==  \* mutant: the request retries the same write
  /\ pc[w] = "sweep"
  /\ \E r \in stale[w] : ~Exists(r)
  /\ UNCHANGED vars

SweepConflict(w) ==
  /\ pc[w] = "sweep"
  /\ \E r \in stale[w] : ~Exists(r)
  /\ stale' = [stale EXCEPT ![w] = {}]
  /\ pc' = [pc EXCEPT ![w] = "idle"]
  /\ UNCHANGED <<rowVars, job, cand, faults, histVars>>

SelectCandidates(w) ==
  /\ pc[w] = "select"
  /\ cand' = [cand EXCEPT ![w] = {r \in Serves[w] : status[r] = "queued"}]
  /\ pc' = [pc EXCEPT ![w] = "try"]
  /\ UNCHANGED <<rowVars, job, stale, faults, histVars>>

\* The condition of the compare-and-swap in _try_claim.
ClaimableAlways(r) == Exists(r)  \* mutant: UPDATE ... WHERE id = :id
Claimable(r) == status[r] = "queued"

Oldest(r, S) == r \in S /\ \A s \in S : r <= s

\* _try_claim succeeds: the conditional UPDATE found the row still queued.
\* The response reaches the worker, or is lost on the way (a fault): then the
\* row is claimed and no process works on it.
ClaimRow(w, r) ==
  /\ status' = [status EXCEPT ![r] = "running"]
  /\ owner' = [owner EXCEPT ![r] = w]
  /\ recent' = [recent EXCEPT ![r] = TRUE]
  /\ fields' = [fields EXCEPT ![r] = @ \cup {"started_at"}]
  /\ cand' = [cand EXCEPT ![w] = {}]

TryClaim(w, r) ==
  /\ pc[w] = "try"
  /\ Oldest(r, cand[w])
  /\ Claimable(r)
  /\ ClaimRow(w, r)
  /\ \/ /\ job' = [job EXCEPT ![w] = r]
        /\ pc' = [pc EXCEPT ![w] = "claimed"]
        /\ UNCHANGED faults
     \/ /\ Fault
        /\ pc' = [pc EXCEPT ![w] = "idle"]
        /\ UNCHANGED job
  /\ UNCHANGED <<stale, histVars>>

\* The row is no longer queued: the loop goes on to the next candidate.
TryNext(w, r) ==
  /\ pc[w] = "try"
  /\ Oldest(r, cand[w])
  /\ ~Claimable(r)
  /\ cand' = [cand EXCEPT ![w] = @ \ {r}]
  /\ UNCHANGED <<rowVars, pc, job, stale, faults, histVars>>

NothingToClaim(w) ==
  /\ pc[w] = "try"
  /\ cand[w] = {}
  /\ pc' = [pc EXCEPT ![w] = "idle"]
  /\ UNCHANGED <<rowVars, job, stale, cand, faults, histVars>>

-----------------------------------------------------------------------------
(* The worker: run_training_job                                            *)

\* What patch_run does to row r for a status the worker sends.  The worker
\* swallows every error, so the call may have no effect: the row is gone
\* (404), or the call is lost (a fault).
PatchStatusOnly(r, new, cols) ==  \* mutant: the time stamps are forgotten
  /\ Exists(r)
  /\ status' = [status EXCEPT ![r] = new]
  /\ UNCHANGED <<fields, owner, recent, faults>>

PatchRow(r, new, cols) ==
  /\ Exists(r)
  /\ status' = [status EXCEPT ![r] = new]
  /\ fields' = [fields EXCEPT ![r] = @ \cup cols]
  /\ UNCHANGED <<owner, recent, faults>>

NoPatch(r) ==
  /\ IF Exists(r) THEN Fault ELSE UNCHANGED faults
  /\ UNCHANGED rowVars

PatchRun(r, new, cols) == PatchRow(r, new, cols) \/ NoPatch(r)

EndJob(w) ==
  /\ pc' = [pc EXCEPT ![w] = "idle"]
  /\ job' = [job EXCEPT ![w] = NoRun]

\* Dataset or toolchain missing.
RejectJob(w) ==
  /\ pc[w] = "claimed"
  /\ PatchRun(job[w], "failed", {"completed_at"})
  /\ EndJob(w)
  /\ UNCHANGED <<stale, cand, histVars>>

\* PATCH status=running, a second time after the claim, then the subprocess.
StartTraining(w) ==
  /\ pc[w] = "claimed"
  /\ PatchRun(job[w], "running", {"started_at"})
  /\ pc' = [pc EXCEPT ![w] = "training"]
  /\ UNCHANGED <<job, stale, cand, histVars>>

\* POST /runs/{id}/metrics: accepted for any row that exists, and the only
\* renewal of a lease.
PostMetric(w) ==
  /\ pc[w] \in {"training", "exited"}
  /\ Exists(job[w])
  /\ recent' = [recent EXCEPT ![job[w]] = TRUE]
  /\ UNCHANGED <<status, owner, fields, workVars, faults, histVars>>

\* The subprocess exits with 0; canary evaluation and adapter upload follow.
ExitZero(w) ==
  /\ pc[w] = "training"
  /\ pc' = [pc EXCEPT ![w] = "exited"]
  /\ trained' = trained \cup {job[w]}
  /\ UNCHANGED <<rowVars, job, stale, cand, faults, swept, haunted>>

ExitNonZero(w) ==
  /\ pc[w] = "training"
  /\ PatchRun(job[w], "failed", {"completed_at"})
  /\ EndJob(w)
  /\ UNCHANGED <<stale, cand, histVars>>

FinishJob(w) ==
  /\ pc[w] = "exited"
  /\ PatchRun(job[w], "completed", {"completed_at", "adapter_path"})
  /\ EndJob(w)
  /\ UNCHANGED <<stale, cand, histVars>>

\* The process dies, or run_training_job raises and main() only logs it: the
\* job is dropped without a PATCH.
DropJob(w) ==
  /\ pc[w] \in JobPhases
  /\ Fault
  /\ EndJob(w)
  /\ UNCHANGED <<rowVars, stale, cand, histVars>>

-----------------------------------------------------------------------------
(* Time and the API process                                                *)

\* SLM_FORGE_CLAIM_TIMEOUT_MIN passes without a metric or a claim.
LeaseLapses(r) ==
  /\ recent[r]
  /\ recent' = [recent EXCEPT ![r] = FALSE]
  /\ UNCHANGED <<status, owner, fields, workVars, faults, histVars>>

Stranded(r) == status[r] = "running" /\ (owner[r] = NoWorker \/ ~recent[r])

\* The API dies with the requests it was serving and comes back: stranded
\* runs are failed before the first request is served.
RestartAPI ==
  /\ Fault
  /\ Release({r \in Runs : Stranded(r)}, "failed")
  /\ pc' = [w \in Workers |-> IF pc[w] \in RequestPhases THEN "idle" ELSE pc[w]]
  /\ stale' = [w \in Workers |-> {}]
  /\ cand' = [w \in Workers |-> {}]
  /\ UNCHANGED <<recent, fields, job, histVars>>

-----------------------------------------------------------------------------
ClaimRequest(w) ==
  \/ SweepRead(w) \/ SweepWrite(w) \/ SweepConflict(w)
  \/ SelectCandidates(w) \/ NothingToClaim(w)
  \/ \E r \in Runs : TryClaim(w, r) \/ TryNext(w, r)

JobStep(w) ==
  RejectJob(w) \/ StartTraining(w) \/ ExitZero(w) \/ ExitNonZero(w) \/ FinishJob(w)

UserStep == \E r \in Runs : CreateRun(r) \/ CancelRun(r) \/ DeleteRun(r)

Next ==
  \/ UserStep
  \/ \E w \in Workers : ClaimRequest(w) \/ JobStep(w) \/ PostMetric(w) \/ DropJob(w)
  \/ \E r \in Runs : LeaseLapses(r)
  \/ RestartAPI

Spec == Init /\ [][Next]_vars

\* The worker's loop and the server's threads keep running, a training
\* process ends, and time passes.  Users and faults are not fair.
Fairness ==
  /\ \A w \in Workers : WF_vars(ClaimRequest(w)) /\ WF_vars(JobStep(w))
  /\ \A r \in Runs : WF_vars(LeaseLapses(r))

FairSpec == Spec /\ Fairness

-----------------------------------------------------------------------------
(* Properties                                                              *)

\* A row in the queue has no claim left on it, whatever sweeps, restarts and
\* zombie PATCHes did to it before: the next claim starts from a clean row.
QueuedIsUnclaimed ==
  \A r \in Runs : status[r] \in {"absent", "queued"} => owner[r] = NoWorker

\* A claim never takes a run over from another worker: a new claimed_by is
\* only ever written on a row that was queued and unclaimed when the row was
\* written, however old the candidate list of the request.
NoTakeover ==
  [][\A r \in Runs : owner'[r] \notin {NoWorker, owner[r]} =>
        status[r] = "queued" /\ owner[r] = NoWorker]_vars

\* Two workers train the same run only after a sweep put it back in the queue
\* (or its id was deleted under a worker and used again): not because of
\* concurrent claims, lost responses, API restarts or cancellations.
OverlapOnlyAfterSweep ==
  \A w, x \in Workers : \A r \in Runs :
    w # x /\ Holds(w, r) /\ Holds(x, r) => r \in swept \cup haunted

\* A run marked completed was started, has its adapter and its completion time,
\* and some training process for it exited with 0; no lost, late or repeated
\* PATCH of another worker makes a run complete otherwise.
CompletedWasTrained ==
  \A r \in Runs \ haunted :
    status[r] = "completed" => fields[r] = Columns /\ r \in trained

\* While its claim is untouched a worker's run is marked as that worker's: a
\* job whose row was neither swept nor deleted is claimed by nobody else, and
\* its row is not in the queue for anyone to claim.
JobIsOwned ==
  \A w \in Workers : \A r \in Runs \ (swept \cup haunted) :
    Holds(w, r) => status[r] # "queued" /\ owner[r] \in {w, NoWorker}

\* A run whose worker died is not stuck: once nobody trains it, a claimed
\* running row is swept, recovered, cancelled or deleted.
AbandonedRunReleased ==
  \A r \in Runs :
    (status[r] = "running" /\ owner[r] # NoWorker /\ \A w \in Workers : ~Holds(w, r))
      ~> (status[r] # "running" \/ \E w \in Workers : Holds(w, r))

\* A queued run does not wait for ever behind dead claims.
QueuedRunServed ==
  \A r \in Runs : status[r] = "queued" ~> status[r] # "queued"

\* No run is stuck with a dead worker or in the queue.
NoRunIsStuck == AbandonedRunReleased /\ QueuedRunServed

\* A run a worker has just been handed, its lease still running, does not go
\* back to the queue: "the compare-and-swap UPDATE guarantees two workers can
\* never claim the same run, even with concurrent requests" (claims.py).
FreshClaimStands ==
  [][\A r \in Runs :
        status[r] = "running" /\ recent[r] /\ (\E w \in Workers : owner[r] = w /\ pc[w] = "claimed")
          => status'[r] # "queued"]_vars

-----------------------------------------------------------------------------
(* The queue as its users see it: a claim is one step.                     *)

\* What a status means to the queue.
Class(s) ==
  CASE s \in {"absent", "queued"} -> s
    [] s = "running" -> "active"
    [] OTHER -> "closed"

Classes == [r \in Runs |-> Class(status[r])]
Believers == [r \in Runs |-> {w \in Workers : job[w] = r}]

Queue == INSTANCE LeasedQueue WITH
  Items <- Runs, Holders <- Workers, Nobody <- NoWorker,
  state <- Classes, holder <- owner, believers <- Believers

\* The three transactions of a claim request, interleaved with those of other
\* requests and with every PATCH, sweep and restart, come to a queue that
\* grants in one step: only a queued row without a claim is handed out, to one
\* worker; only workers it was handed to report on it; and no report puts a
\* row back or changes its claim.
ImplementsQueue == Queue!Spec

-----------------------------------------------------------------------------
(* The inductive invariant behind the four invariants above.               *)

\* A worker has a run exactly while it executes a job.
JobPhase == \A w \in Workers : pc[w] \in JobPhases <=> job[w] # NoRun

\* What a job knows of its row: it is still there and was started, and a job
\* past the end of its subprocess was trained.
JobRow ==
  \A w \in Workers : \A r \in Runs \ haunted :
    Holds(w, r) => /\ Exists(r)
                   /\ "started_at" \in fields[r]
                   /\ pc[w] = "exited" => r \in trained

IInv ==
  /\ TypeOK
  /\ JobPhase
  /\ JobRow
  /\ JobIsOwned
  /\ QueuedIsUnclaimed
  /\ OverlapOnlyAfterSweep
  /\ CompletedWasTrained
=============================================================================
