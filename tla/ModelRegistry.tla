--------------------------- MODULE ModelRegistry ---------------------------
(* The model registry: download jobs of                                    *)
(* apps/api/services/model_download_jobs.py, the endpoints of              *)
(* apps/api/routers/models.py, their reconciliation in services/db.py, and *)
(* the catalog views of services/model_catalog.py that merge the registry  *)
(* with the built-in seeds.                                                *)
(*                                                                         *)
(* A job validates a repository on a thread and registers it in one turn   *)
(* of the event loop.  The turn is two transactions, the registry row and  *)
(* the job's verdict, and either may fail or be cut off by a restart.      *)
(***************************************************************************)
EXTENDS Naturals, FiniteSets, Functions

CONSTANTS
  Repos,        \* checkpoint ids
  SeedRepos,    \* those the built-in catalog lists, for SeedBackend
  SeedBackend,
  Backends,     \* mlx, cuda
  Slug,         \* the key a repository asks for, by its last path segment
  SeedKeys,     \* <<slug, n>> of the seeds
  Jobs,
  MaxFaults     \* bound on database errors and restarts together

VARIABLES
  jobs,         \* rows of model_download_jobs
  registry,     \* rows of registered_models
  taskPc,       \* where the task of a job is
  turn,         \* the job whose upsert is committed and verdict is not
  dbFaults,
  (* history, read by the properties only *)
  orphans,      \* jobs whose task died of a database error
  freedKeys     \* keys of deleted rows

vars == <<jobs, registry, taskPc, turn, dbFaults, orphans, freedKeys>>

NoRow  == [status |-> "none"]
NoKey  == <<"", 0>>
Keys   == {<<Slug[r], n>> : r \in Repos, n \in 1 .. Cardinality(Repos) + 1}
Active == {"queued", "processing"}
Ended  == {"failed", "succeeded"}

JobRows ==
  [status : Active \cup Ended, repo : Repos, backend : Backends, key : Keys \cup {NoKey}]
Entries == [key : Keys, repo : Repos, backend : Backends]

TypeOK ==
  /\ jobs \in [Jobs -> JobRows \cup {NoRow}]
  /\ registry \subseteq Entries
  /\ taskPc \in [Jobs -> {"none", "start", "fetch", "upsert", "verdict", "done"}]
  /\ turn \in SUBSET Jobs /\ Cardinality(turn) <= 1
  /\ dbFaults \in 0 .. MaxFaults
  /\ orphans \subseteq Jobs /\ freedKeys \subseteq Keys

Init ==
  /\ jobs = [j \in Jobs |-> NoRow]
  /\ registry = {}
  /\ taskPc = [j \in Jobs |-> "none"]
  /\ turn = {} /\ dbFaults = 0
  /\ orphans = {} /\ freedKeys = {}

DbFault == dbFaults < MaxFaults /\ dbFaults' = dbFaults + 1
GoTask(j, p) == taskPc' = [taskPc EXCEPT ![j] = p]
SetJob(j, s, k) == jobs' = [jobs EXCEPT ![j].status = s, ![j].key = k]

\* Between the two transactions of a turn the loop runs nothing else.
LoopIdle == turn = {}

-----------------------------------------------------------------------------
(* Jobs                                                                    *)

\* POST /models/download.  A repository may be asked for again, for the other
\* backend too, and while another job for it is under way.
DownloadModel(j, r, b) ==
  /\ LoopIdle /\ jobs[j] = NoRow
  /\ jobs' = [jobs EXCEPT ![j] = [status |-> "queued", repo |-> r, backend |-> b, key |-> NoKey]]
  /\ GoTask(j, "start")
  /\ UNCHANGED <<registry, turn, dbFaults, orphans, freedKeys>>

MarkProcessing(j) ==
  /\ LoopIdle /\ taskPc[j] = "start"
  /\ SetJob(j, "processing", NoKey)
  /\ GoTask(j, "fetch")
  /\ UNCHANGED <<registry, turn, dbFaults, orphans, freedKeys>>

\* The Hub answers, on a thread: at most three attempts for what is transient.
MetaFetched(j) ==
  /\ taskPc[j] = "fetch"
  /\ GoTask(j, "upsert")
  /\ UNCHANGED <<jobs, registry, turn, dbFaults, orphans, freedKeys>>

\* Not found, gated, unreachable; or the upsert fails.
MarkFailed(j) ==
  /\ LoopIdle /\ taskPc[j] = "fetch"
  /\ SetJob(j, "failed", NoKey)
  /\ GoTask(j, "done")
  /\ UNCHANGED <<registry, turn, dbFaults, orphans, freedKeys>>

Taken == SeedKeys \cup {e.key : e \in registry}

\* The first free one of slug, slug-2, slug-3 ...
UniqueKey(r) ==
  <<Slug[r], CHOOSE n \in 1 .. Cardinality(Repos) + 1 :
               <<Slug[r], n>> \notin Taken /\ \A i \in 1 .. n - 1 : <<Slug[r], i>> \in Taken>>

InsertAlways(j) ==  \* mutant: the existing row is not looked up
  registry' = registry \cup
    {[key |-> UniqueKey(jobs[j].repo), repo |-> jobs[j].repo, backend |-> jobs[j].backend]}

\* An existing row keeps its key and takes the backend of the job.
Upsert(j) ==
  LET r == jobs[j].repo
      e == {x \in registry : x.repo = r}
      k == IF e = {} THEN UniqueKey(r) ELSE (CHOOSE x \in e : TRUE).key
  IN registry' = (registry \ e) \cup {[key |-> k, repo |-> r, backend |-> jobs[j].backend]}

UpsertRegisteredModel(j) ==
  /\ LoopIdle /\ taskPc[j] = "upsert"
  /\ Upsert(j)
  /\ turn' = {j}
  /\ GoTask(j, "verdict")
  /\ UNCHANGED <<jobs, dbFaults, orphans, freedKeys>>

MarkSucceeded(j) ==
  /\ taskPc[j] = "verdict" /\ turn = {j}
  /\ \E e \in registry : e.repo = jobs[j].repo /\ SetJob(j, "succeeded", e.key)
  /\ GoTask(j, "done") /\ turn' = {}
  /\ UNCHANGED <<registry, dbFaults, orphans, freedKeys>>

\* The database refuses a write.  The first mark is outside the try block, so
\* the task dies; later ones are caught and recorded, on a registered model too.
DatabaseFails(j) ==
  /\ DbFault
  /\ \/ /\ LoopIdle /\ taskPc[j] = "start"
        /\ orphans' = orphans \cup {j} /\ GoTask(j, "done")
        /\ UNCHANGED <<jobs, turn>>
     \/ /\ LoopIdle /\ taskPc[j] = "fetch"             \* in MarkFailed
        /\ orphans' = orphans \cup {j} /\ GoTask(j, "done")
        /\ UNCHANGED <<jobs, turn>>
     \/ /\ LoopIdle /\ taskPc[j] = "upsert"
        /\ SetJob(j, "failed", NoKey) /\ GoTask(j, "done")
        /\ UNCHANGED <<orphans, turn>>
     \/ /\ turn = {j}
        /\ SetJob(j, "failed", NoKey) /\ GoTask(j, "done") /\ turn' = {}
        /\ UNCHANGED orphans
  /\ UNCHANGED <<registry, freedKeys>>

-----------------------------------------------------------------------------
(* Users and restarts                                                      *)

DeleteRegistered(k) ==
  /\ LoopIdle
  /\ \E e \in registry : e.key = k
  /\ registry' = {e \in registry : e.key # k}
  /\ freedKeys' = freedKeys \cup {k}
  /\ UNCHANGED <<jobs, taskPc, turn, dbFaults, orphans>>

\* The tasks are gone; init_db fails every job they left open.
ReconcileNothing == jobs  \* mutant: rows are left as they are
ReconciledUnknown ==  \* mutant: a status that the column does not know
  [j \in Jobs |-> IF jobs[j].status \in Active THEN [jobs[j] EXCEPT !.status = "interrupted"]
                  ELSE jobs[j]]
Reconciled ==
  [j \in Jobs |-> IF jobs[j].status \in Active THEN [jobs[j] EXCEPT !.status = "failed"]
                  ELSE jobs[j]]

RestartAPI ==
  /\ DbFault
  /\ jobs' = Reconciled
  /\ taskPc' = [j \in Jobs |-> IF taskPc[j] = "none" THEN "none" ELSE "done"]
  /\ turn' = {}
  /\ orphans' = {}
  /\ UNCHANGED <<registry, freedKeys>>

TaskStep(j) ==
  \/ MarkProcessing(j) \/ MetaFetched(j) \/ MarkFailed(j)
  \/ UpsertRegisteredModel(j) \/ MarkSucceeded(j)

Next ==
  \/ \E j \in Jobs :
       \/ TaskStep(j) \/ DatabaseFails(j)
       \/ \E r \in Repos, b \in Backends : DownloadModel(j, r, b)
  \/ \E k \in Keys : DeleteRegistered(k)
  \/ RestartAPI

\* The loop runs its tasks; the Hub's answer has a timeout and three attempts.
Fairness == \A j \in Jobs : WF_vars(TaskStep(j))
Spec == Init /\ [][Next]_vars /\ Fairness

-----------------------------------------------------------------------------
(* Views                                                                   *)

Seeds == {[repo |-> r, backend |-> SeedBackend] : r \in SeedRepos}

\* effective_catalog, as the checkpoints and backends it offers.
EffectiveCatalog == Seeds \cup {[repo |-> e.repo, backend |-> e.backend] : e \in registry}

\* validate_run_request: the backend of the first match, seeds before registry.
FindByModelId(r) ==
  IF r \in SeedRepos THEN {SeedBackend} ELSE {e.backend : e \in {x \in registry : x.repo = r}}

ValidateRunRequest(r, b) ==
  FindByModelId(r) # {} /\ (CHOOSE f \in FindByModelId(r) : TRUE) = b

-----------------------------------------------------------------------------
(* Properties                                                              *)

\* What the catalog offers can be run: whatever overlapping registrations,
\* re-registrations for another backend and deletions left behind, a listed
\* checkpoint passes the check of a new run with its listed backend.
\* Registering a checkpoint of the seeds for another backend is the exception.
ListedIsAccepted ==
  \A m \in EffectiveCatalog : m.repo \notin SeedRepos => ValidateRunRequest(m.repo, m.backend)

\* Every job ends, across restarts, unless the database refused to record it.
DownloadEnds ==
  \A j \in Jobs : jobs[j].status \in Active ~> (jobs[j].status \in Ended \/ j \in orphans)

-----------------------------------------------------------------------------
(* The inductive invariant                                                 *)

\* A checkpoint is registered once, under a key of its own.
OneEntry ==
  /\ \A d, e \in registry : d.repo = e.repo \/ d.key = e.key => d = e
  /\ \A e \in registry : e.key \notin SeedKeys

\* A task has its row.
TaskHasRow == \A j \in Jobs : taskPc[j] # "none" \/ j \in turn => jobs[j] # NoRow

IInv == TypeOK /\ OneEntry /\ TaskHasRow
=============================================================================
