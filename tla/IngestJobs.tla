----------------------------- MODULE IngestJobs -----------------------------
(***************************************************************************)
(* Requests to create one dataset directory of one user: the large-upload  *)
(* endpoint of routers/ingest_v2.py and its background task in             *)
(* services/ingest_jobs.py, the synchronous endpoints that write the       *)
(* directory in place (dataset_ingest/converter.py), and the startup       *)
(* reconciliation of services/db.py.                                       *)
(*                                                                         *)
(* Requests for different names never meet, so all of them ask for the     *)
(* same name.  Background tasks share one event loop and change places     *)
(* where they await the object store; the url, scrape and s3 endpoints run *)
(* on threads and change places anywhere.  POST /file converts on a thread *)
(* but writes within one turn of the loop: one of their behaviours.        *)
(***************************************************************************)
EXTENDS Naturals, FiniteSets

CONSTANTS
  Jobs,        \* requests to POST /ingest/file/large
  Uploads,     \* requests to the synchronous endpoints
  Nobody,
  MinRecords,  \* _MIN_RECORDS
  MinValid,    \* target_min_valid of the split writer
  MinCanary,   \* target_min_canary
  MaxRecords,  \* bound on the lines of an upload, usable and not
  MaxFaults    \* bound on API restarts and failing store calls

ASSUME IngestAssumption ==
  /\ Nobody \notin Jobs \cup Uploads /\ Jobs \cap Uploads = {}
  /\ MinRecords \in Nat /\ MinValid \in Nat \ {0} /\ MinCanary \in Nat \ {0}
  /\ MaxRecords \in Nat /\ MaxFaults \in Nat

Splits == {"train", "valid", "canary"}

VARIABLES
  row,        \* IngestJob.status of each request, "none" before its row exists
  raw,        \* jobs whose uploaded blob is in the object store
  staging,    \* jobs whose staging directory exists
  dir,        \* the dataset directory: "absent", "empty" or "filled"
  files,      \* who wrote each split file in it
  pc,         \* where each large upload, then its task, stands
  upc,        \* where each synchronous request stands
  faults,
  published   \* history: jobs whose staging directory became the dataset

dirVars == <<dir, files>>
vars == <<row, raw, staging, dirVars, pc, upc, faults, published>>

Terminal == {"succeeded", "failed"}
JobPhases == {"new", "uploading", "stored", "scheduled", "begun", "parsing", "delete",
              "mark", "done"}
UploadPhases == {"new", "converting", "train", "valid", "canary", "done"}

TypeOK ==
  /\ row \in [Jobs -> {"none", "queued", "processing"} \cup Terminal]
  /\ raw \subseteq Jobs /\ staging \subseteq Jobs /\ published \subseteq Jobs
  /\ dir \in {"absent", "empty", "filled"}
  /\ files \in [Splits -> Jobs \cup Uploads \cup {Nobody}]
  /\ pc \in [Jobs -> JobPhases]
  /\ upc \in [Uploads -> UploadPhases]
  /\ faults \in 0 .. MaxFaults

Init ==
  /\ row = [j \in Jobs |-> "none"]
  /\ raw = {} /\ staging = {} /\ published = {}
  /\ dir = "absent" /\ files = [f \in Splits |-> Nobody]
  /\ pc = [j \in Jobs |-> "new"] /\ upc = [u \in Uploads |-> "new"]
  /\ faults = 0

Fault == faults < MaxFaults /\ faults' = faults + 1

At(j, p) == pc[j] = p
Goto(j, p) == pc' = [pc EXCEPT ![j] = p]
SetRow(j, s) == row' = [row EXCEPT ![j] = s]

-----------------------------------------------------------------------------
(* ingest_file_large                                                       *)

\* The name is free (409 otherwise): the body is streamed to the store.
AcceptUpload(j) ==
  /\ At(j, "new") /\ dir = "absent"
  /\ Goto(j, "uploading")
  /\ UNCHANGED <<row, raw, staging, dirVars, upc, faults, published>>

\* Wrong format (422) or too large (413): a partial blob is deleted.
RefuseUpload(j) ==
  /\ At(j, "uploading")
  /\ Goto(j, "done")
  /\ UNCHANGED <<row, raw, staging, dirVars, upc, faults, published>>

StoreRaw(j) ==
  /\ At(j, "uploading")
  /\ raw' = raw \cup {j}
  /\ Goto(j, "stored")
  /\ UNCHANGED <<row, staging, dirVars, upc, faults, published>>

QueueJob(j) ==
  /\ At(j, "stored")
  /\ SetRow(j, "queued")
  /\ Goto(j, "scheduled")
  /\ UNCHANGED <<raw, staging, dirVars, upc, faults, published>>

-----------------------------------------------------------------------------
(* _run_ingest_job                                                         *)

MarkProcessing(j) ==
  /\ At(j, "scheduled")
  /\ SetRow(j, "processing")
  /\ Goto(j, "begun")
  /\ UNCHANGED <<raw, staging, dirVars, upc, faults, published>>

\* The except clause: the staging directory is removed, the row failed.
Fail(j) ==
  /\ staging' = staging \ {j}
  /\ SetRow(j, "failed")
  /\ Goto(j, "done")

RefuseTaken(j) ==
  /\ At(j, "begun") /\ dir # "absent"
  /\ Fail(j)
  /\ UNCHANGED <<raw, dirVars, upc, faults, published>>

Stage(j) ==
  /\ At(j, "begun") /\ dir = "absent"
  /\ staging' = staging \cup {j}
  /\ Goto(j, "parsing")
  /\ UNCHANGED <<row, raw, dirVars, upc, faults, published>>

\* What was read: n records written to the splits, and unusable lines.  An
\* upload whose records are all unusable falls under the first condition.
Usable(n, unusable) == n >= MinRecords /\ ~(2 * unusable > n + unusable)

\* The split files n records end up in: the first MinCanary of them go to
\* canary, the next MinValid to valid, the others where their hash says.
SplitFiles(n) ==
  {F \in SUBSET Splits :
     /\ "canary" \in F <=> n > 0
     /\ "valid" \in F <=> n > MinCanary
     /\ "train" \in F => n > MinCanary + MinValid}

\* os.replace onto an existing directory: fails unless that one is empty.
RenameAlways == TRUE  \* mutant: the target is removed first
RenameAllowed == dir # "filled"

\* Records refused, blob unreadable, or the name taken by the time of the rename.
ParseFails(j) ==
  /\ At(j, "parsing")
  /\ \/ \E n \in 0 .. MaxRecords, u \in 0 .. MaxRecords : ~Usable(n, u)
     \/ ~RenameAllowed
  /\ Fail(j)
  /\ UNCHANGED <<raw, dirVars, upc, faults, published>>

StoreReadFails(j) ==
  /\ At(j, "parsing") /\ Fault
  /\ Fail(j)
  /\ UNCHANGED <<raw, dirVars, upc, published>>

PublishAndDelete(j) ==  \* mutant: the blob is deleted before the rename
  /\ At(j, "parsing")
  /\ raw' = raw \ {j}
  /\ IF RenameAllowed
     THEN /\ dir' = "filled" /\ files' = [f \in Splits |-> j]
          /\ staging' = staging \ {j} /\ published' = published \cup {j}
          /\ Goto(j, "delete") /\ UNCHANGED row
     ELSE Fail(j) /\ UNCHANGED <<dirVars, published>>
  /\ UNCHANGED <<upc, faults>>

Publish(j) ==
  /\ At(j, "parsing")
  /\ RenameAllowed
  /\ \E n \in 0 .. MaxRecords, u \in 0 .. MaxRecords :
       /\ Usable(n, u)
       /\ \E F \in SplitFiles(n) : files' = [f \in Splits |-> IF f \in F THEN j ELSE Nobody]
  /\ dir' = "filled"
  /\ staging' = staging \ {j}
  /\ published' = published \cup {j}
  /\ Goto(j, "delete")
  /\ UNCHANGED <<row, raw, upc, faults>>

DeleteRaw(j) ==
  /\ At(j, "delete")
  /\ raw' = raw \ {j}
  /\ Goto(j, "mark")
  /\ UNCHANGED <<row, staging, dirVars, upc, faults, published>>

\* The dataset is in place, but the job is recorded as failed.
DeleteRawFails(j) ==
  /\ At(j, "delete") /\ Fault
  /\ Fail(j)
  /\ UNCHANGED <<raw, dirVars, upc, published>>

MarkSucceeded(j) ==
  /\ At(j, "mark")
  /\ SetRow(j, "succeeded")
  /\ Goto(j, "done")
  /\ UNCHANGED <<raw, staging, dirVars, upc, faults, published>>

-----------------------------------------------------------------------------
(* The synchronous endpoints                                               *)

BeginConversion(u) ==
  /\ upc[u] = "new" /\ dir = "absent"
  /\ upc' = [upc EXCEPT ![u] = "converting"]
  /\ UNCHANGED <<row, raw, staging, dirVars, pc, faults, published>>

ConversionFails(u) ==
  /\ upc[u] = "converting"
  /\ upc' = [upc EXCEPT ![u] = "done"]
  /\ UNCHANGED <<row, raw, staging, dirVars, pc, faults, published>>

\* write_dataset: mkdir(exist_ok=True), without looking again.
MakeDir(u) ==
  /\ upc[u] = "converting"
  /\ dir' = IF dir = "absent" THEN "empty" ELSE dir
  /\ upc' = [upc EXCEPT ![u] = "train"]
  /\ UNCHANGED <<row, raw, staging, files, pc, faults, published>>

After(f) == CASE f = "train" -> "valid" [] f = "valid" -> "canary" [] f = "canary" -> "done"

WriteSplit(u, f) ==
  /\ upc[u] = f
  /\ dir' = "filled"
  /\ files' = [files EXCEPT ![f] = u]
  /\ upc' = [upc EXCEPT ![u] = After(f)]
  /\ UNCHANGED <<row, raw, staging, pc, faults, published>>

\* An empty canary split writes no file (and leaves one that is there).
SkipCanary(u) ==
  /\ upc[u] = "canary"
  /\ upc' = [upc EXCEPT ![u] = "done"]
  /\ UNCHANGED <<row, raw, staging, dirVars, pc, faults, published>>

-----------------------------------------------------------------------------
\* What _reconcile_orphaned_ingest_jobs makes of a status.
ReconciledProcessingOnly(s) ==  \* mutant: queued rows are left alone
  IF s = "processing" THEN "failed" ELSE s
ReconciledUnknown(s) ==  \* mutant: a status outside the enum
  IF s \in {"queued", "processing"} THEN "interrupted" ELSE s
Reconciled(s) == IF s \in {"queued", "processing"} THEN "failed" ELSE s

\* The API process dies with its tasks and requests and comes back.
RestartAPI ==
  /\ Fault
  /\ row' = [j \in Jobs |-> Reconciled(row[j])]
  /\ pc' = [j \in Jobs |-> IF At(j, "new") THEN "new" ELSE "done"]
  /\ upc' = [u \in Uploads |-> IF upc[u] = "new" THEN "new" ELSE "done"]
  /\ UNCHANGED <<raw, staging, dirVars, published>>

JobTask(j) ==
  \/ MarkProcessing(j) \/ RefuseTaken(j) \/ Stage(j)
  \/ ParseFails(j) \/ Publish(j) \/ DeleteRaw(j) \/ MarkSucceeded(j)

Next ==
  \/ \E j \in Jobs :
       \/ AcceptUpload(j) \/ RefuseUpload(j) \/ StoreRaw(j) \/ QueueJob(j)
       \/ JobTask(j) \/ StoreReadFails(j) \/ DeleteRawFails(j)
  \/ \E u \in Uploads :
       \/ BeginConversion(u) \/ ConversionFails(u) \/ MakeDir(u) \/ SkipCanary(u)
       \/ \E f \in Splits : WriteSplit(u, f)
  \/ RestartAPI

\* The event loop keeps running the tasks it holds.
Fairness == \A j \in Jobs : WF_vars(JobTask(j))

Spec == Init /\ [][Next]_vars /\ Fairness

-----------------------------------------------------------------------------
(* Properties                                                              *)

\* An upload the API has acknowledged is never lost: at every moment, through
\* failing store calls and restarts, its blob is in the store or its records
\* have been published.
UploadNeverLost == \A j \in Jobs : row[j] # "none" => j \in raw \cup published

\* A job reported as succeeded has published its records and cleaned up.
SuccessIsClean ==
  \A j \in Jobs : row[j] = "succeeded" => j \in published /\ j \notin raw \cup staging

\* Whatever a user is told of an upload, it is there to be used or tried again.
UploadIsSafe == UploadNeverLost /\ SuccessIsClean

\* Of all jobs for one name at most one publishes, however their checks,
\* parses and renames interleave.
OneJobPublishes == Cardinality(published) <= 1

\* A background job never overwrites a file of the dataset: not even one that
\* a synchronous request wrote after the job's own check of the name.
JobNeverClobbers ==
  \A f \in Splits : files[f] # Nobody /\ files'[f] # files[f] => files'[f] \in Uploads

\* One dataset has one author: a job publishes it whole or leaves it alone, in
\* whatever order jobs and synchronous requests check, parse and write.
DatasetHasOneAuthor == [][OneJobPublishes' /\ JobNeverClobbers]_vars

\* The inductive invariant: what the row and the store hold at each point of a
\* task, a job alone with the dataset it published, and no file outside one.
RowPhase ==
  \A j \in Jobs :
    /\ pc[j] \in {"new", "uploading", "stored"} => row[j] = "none"
    /\ pc[j] = "scheduled" => row[j] = "queued"
    /\ pc[j] \in {"begun", "parsing", "delete", "mark"} => row[j] = "processing"
    /\ pc[j] = "done" => row[j] \in {"none"} \cup Terminal

TaskData ==
  \A j \in Jobs :
    /\ pc[j] \in {"stored", "scheduled", "begun", "parsing", "delete"} => j \in raw
    /\ pc[j] \in {"delete", "mark"} => j \in published /\ j \notin staging
    /\ pc[j] = "mark" => j \notin raw

PublishedAlone == \A i, j \in published : i = j /\ dir = "filled"
FilesInDataset == dir # "filled" => \A f \in Splits : files[f] = Nobody

IInv == TypeOK /\ RowPhase /\ TaskData /\ UploadIsSafe /\ PublishedAlone /\ FilesInDataset

\* Every acknowledged job ends, also when the task that ran it is gone.
JobEnds == \A j \in Jobs : row[j] \in {"queued", "processing"} ~> row[j] \in Terminal
=============================================================================
