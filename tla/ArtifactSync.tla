---------------------------- MODULE ArtifactSync ----------------------------
(* The way of a run's artifacts into the object store:                     *)
(* apps/api/services/storage (uploader, tenancy, ozone), the background    *)
(* task that patch_run of apps/api/routers/runs.py schedules, the upload   *)
(* endpoint and packages/trainer/transfer.py for remote workers, and the   *)
(* worker's own packages/storage_sync.py.                                  *)
(*                                                                         *)
(* One run.  Its directory on the API's host, the tenant's bucket, and two *)
(* prefixes in it: the API stores under the owner's, workers under runs/.  *)
(* Nothing here is retried: a file that could not be stored is skipped.    *)
(***************************************************************************)
EXTENDS Naturals, FiniteSets

CONSTANTS
  Workers,
  MaxSyncs,     \* bound on the verdicts that schedule a sync
  MaxFaults     \* bound on lost calls, outages and restarts together

VARIABLES
  verdict,      \* status of the row: open, failed, completed, or deleted
  disk,         \* files of the run's directory on the API's host
  wpc,          \* a worker that trains the run
  remote,       \* workers that do not share the API's disk
  (* the gateway *)
  up,           \* it answers
  bucket,       \* the tenant's bucket exists
  verified,     \* _verified_buckets holds it
  stored,       \* files under the owner's prefix
  wstored,      \* files under the workers' prefix
  (* background syncs, numbered in the order they were scheduled; 0 is the *)
  (* auth middleware, which ensures the bucket for a signed-in user *)
  spc, todo,    \* where a sync stands, and the files it has still to put
  syncs, syncFaults,
  (* history, read by the properties only *)
  outage,       \* the gateway was away while a bucket was ensured
  missed        \* why the store may lack the adapter of the completed run

rowVars   == <<verdict, disk, wpc, remote>>
storeVars == <<up, bucket, verified, stored, wstored>>
syncVars  == <<spc, todo, syncs>>
histVars  == <<outage, missed>>
vars      == <<rowVars, storeVars, syncVars, syncFaults, histVars>>

Syncs   == 1 .. MaxSyncs
SignIn  == 0
Tasks   == Syncs \cup {SignIn}
Files   == {"log", "adapter"}
Running == {"head", "create", "put"}
Reasons == {"upload", "gateway", "restart", "failed_before"}

TypeOK ==
  /\ verdict \in {"open", "failed", "completed", "deleted"}
  /\ disk \subseteq Files
  /\ wpc \in [Workers -> {"idle", "train", "exit0", "patch", "sync"}]
  /\ remote \subseteq Workers
  /\ up \in BOOLEAN /\ bucket \in BOOLEAN /\ verified \in BOOLEAN
  /\ stored \subseteq Files /\ wstored \subseteq Files
  /\ spc \in [Tasks -> {"none", "queued", "done"} \cup Running]
  /\ todo \in [Tasks -> SUBSET Files]
  /\ syncs \in 0 .. MaxSyncs /\ syncFaults \in 0 .. MaxFaults
  /\ outage \in BOOLEAN /\ missed \subseteq Reasons

Init ==
  /\ verdict = "open" /\ disk = {}
  /\ wpc = [w \in Workers |-> "idle"] /\ remote = {}
  /\ up = TRUE /\ bucket = FALSE /\ verified = FALSE
  /\ stored = {} /\ wstored = {}
  /\ spc = [t \in Tasks |-> "none"] /\ todo = [t \in Tasks |-> {}]
  /\ syncs = 0 /\ syncFaults = 0
  /\ outage = FALSE /\ missed = {}

SyncFault == syncFaults < MaxFaults /\ syncFaults' = syncFaults + 1
GoWorker(w, p) == wpc' = [wpc EXCEPT ![w] = p]
GoSync(t, p) == spc' = [spc EXCEPT ![t] = p]

-----------------------------------------------------------------------------
(* Workers                                                                 *)

\* The process has the run and writes training.log.  A second worker begins
\* when the run was released under the first one.
StartTraining(w, away) ==
  /\ wpc[w] = "idle" /\ verdict = "open"
  /\ remote' = IF away THEN remote \cup {w} ELSE remote \ {w}
  /\ disk' = IF away THEN disk ELSE disk \cup {"log"}
  /\ GoWorker(w, "train")
  /\ UNCHANGED <<verdict, storeVars, syncVars, syncFaults, histVars>>

ExitZero(w) ==
  /\ wpc[w] = "train"
  /\ disk' = IF w \in remote THEN disk ELSE disk \cup {"adapter"}
  /\ GoWorker(w, IF w \in remote THEN "exit0" ELSE "patch")
  /\ UNCHANGED <<verdict, remote, storeVars, syncVars, syncFaults, histVars>>

\* upload_adapter and upload_run_artifacts.  Without the file the run completes
\* all the same.
UploadAdapter(w) ==
  /\ wpc[w] = "exit0"
  /\ \/ /\ verdict # "deleted"
        /\ disk' = disk \cup {"adapter"} /\ UNCHANGED <<missed, syncFaults>>
     \/ /\ verdict = "deleted" /\ UNCHANGED <<disk, missed, syncFaults>>
     \/ /\ SyncFault /\ missed' = missed \cup {"upload"} /\ UNCHANGED disk
  /\ GoWorker(w, "patch")
  /\ UNCHANGED <<verdict, remote, storeVars, syncVars, outage>>

\* The verdict is PATCHed: only the first one schedules a sync.
ScheduleNothing(s) == UNCHANGED <<spc, syncs>>  \* mutant: the task is not added
Schedule(s) ==
  IF verdict \notin {"completed", "failed"} /\ s \in {"completed", "failed"} /\ syncs < MaxSyncs
  THEN GoSync(syncs + 1, "queued") /\ syncs' = syncs + 1
  ELSE UNCHANGED <<spc, syncs>>

PatchRun(w, s) ==
  /\ \/ wpc[w] = "patch" /\ s = "completed" /\ GoWorker(w, "sync")
     \/ wpc[w] = "train" /\ s = "failed" /\ GoWorker(w, "idle")
  /\ verdict # "deleted"
  /\ verdict = "open" => syncs < MaxSyncs
  /\ verdict' = s
  /\ Schedule(s)
  /\ missed' = CASE s = "completed" /\ verdict = "open" -> missed \ {"failed_before", "restart", "gateway"}
                 [] s = "completed" /\ verdict = "failed" -> missed \cup {"failed_before"}
                 [] OTHER -> missed
  /\ UNCHANGED <<disk, remote, storeVars, todo, syncFaults, outage>>

\* The verdict is lost, or the run is gone.
NoPatch(w) ==
  /\ wpc[w] \in {"patch", "train"}
  /\ \/ verdict = "deleted" /\ UNCHANGED syncFaults
     \/ SyncFault
  /\ GoWorker(w, IF wpc[w] = "patch" THEN "sync" ELSE "idle")
  /\ UNCHANGED <<verdict, disk, remote, storeVars, syncVars, histVars>>

\* storage_sync: the bucket is ensured on every call, and every file of the
\* worker's own directory that can be stored is.
SyncRunArtifacts(w) ==
  /\ wpc[w] = "sync"
  /\ IF up
     THEN /\ bucket' = TRUE
          /\ wstored' = wstored \cup (IF w \in remote THEN Files ELSE disk)
     ELSE UNCHANGED <<bucket, wstored>>
  /\ GoWorker(w, "idle")
  /\ UNCHANGED <<verdict, disk, remote, up, verified, stored, syncVars, syncFaults, histVars>>

\* The startup recovery fails the row without patch_run, so nothing is scheduled.
RecoverStranded ==
  /\ verdict = "open" /\ SyncFault
  /\ verdict' = "failed"
  /\ UNCHANGED <<disk, wpc, remote, storeVars, syncVars, histVars>>

DeleteRun ==
  /\ verdict \in {"failed", "completed"}
  /\ verdict' = "deleted" /\ disk' = {}
  /\ UNCHANGED <<wpc, remote, storeVars, syncVars, syncFaults, histVars>>

-----------------------------------------------------------------------------
(* sync_local_dir_to_store and ensure_tenant_bucket                        *)

\* A request of a signed-in user.
SignedIn ==
  /\ spc[SignIn] \in {"none", "done"} /\ ~verified
  /\ GoSync(SignIn, "head")
  /\ UNCHANGED <<rowVars, storeVars, todo, syncs, syncFaults, histVars>>

\* What follows the bucket: the walk over the directory, as it is then.
BucketEnsured(t) ==
  IF t = SignIn THEN GoSync(t, "done") /\ UNCHANGED todo
  ELSE GoSync(t, "put") /\ todo' = [todo EXCEPT ![t] = disk]

\* An empty directory is skipped; a bucket known to this process is not asked
\* for again.
StartSync(t) ==
  /\ spc[t] = "queued"
  /\ IF disk = {} THEN GoSync(t, "done") /\ UNCHANGED todo
     ELSE IF verified THEN BucketEnsured(t)
     ELSE GoSync(t, "head") /\ UNCHANGED todo
  /\ UNCHANGED <<rowVars, storeVars, syncs, syncFaults, histVars>>

HeadBucket(t) ==
  /\ spc[t] = "head"
  /\ IF up /\ bucket
     THEN verified' = TRUE /\ BucketEnsured(t)
     ELSE GoSync(t, "create") /\ UNCHANGED <<verified, todo>>
  /\ UNCHANGED <<rowVars, up, bucket, stored, wstored, syncs, syncFaults, histVars>>

\* A failing create is taken for a race that somebody else won.
CreateBucket(t) ==
  /\ spc[t] = "create"
  /\ bucket' = (bucket \/ up)
  /\ verified' = TRUE
  /\ outage' = (outage \/ ~up)
  /\ BucketEnsured(t)
  /\ UNCHANGED <<rowVars, up, stored, wstored, syncs, syncFaults, missed>>

\* A multipart upload: visible when it is completed, else aborted and skipped;
\* so is a file that was deleted meanwhile.
PutFile(t, f) ==
  /\ spc[t] = "put" /\ f \in todo[t]
  /\ todo' = [todo EXCEPT ![t] = @ \ {f}]
  /\ IF up /\ bucket /\ f \in disk
     THEN stored' = stored \cup {f} /\ UNCHANGED missed
     ELSE missed' = missed \cup {"gateway"} /\ UNCHANGED stored
  /\ UNCHANGED <<rowVars, up, bucket, verified, wstored, spc, syncs, syncFaults, outage>>

EndSync(t) ==
  /\ spc[t] = "put" /\ todo[t] = {}
  /\ GoSync(t, "done")
  /\ UNCHANGED <<rowVars, storeVars, todo, syncs, syncFaults, histVars>>

-----------------------------------------------------------------------------
Outage ==
  /\ up /\ SyncFault
  /\ up' = FALSE
  /\ UNCHANGED <<rowVars, bucket, verified, stored, wstored, syncVars, histVars>>

Recover ==
  /\ ~up
  /\ up' = TRUE
  /\ UNCHANGED <<rowVars, bucket, verified, stored, wstored, syncVars, syncFaults, histVars>>

\* The background tasks and the set of verified buckets are the process's.
RestartAPI ==
  /\ SyncFault
  /\ verified' = FALSE /\ outage' = FALSE
  /\ spc' = [t \in Tasks |-> IF spc[t] \in Running \cup {"queued"} THEN "done" ELSE spc[t]]
  /\ todo' = [t \in Tasks |-> {}]
  /\ missed' = IF \E t \in Syncs : spc[t] \in Running \cup {"queued"}
               THEN missed \cup {"restart"} ELSE missed
  /\ UNCHANGED <<rowVars, up, bucket, stored, wstored, syncs>>

Next ==
  \/ \E w \in Workers :
       \/ \E away \in BOOLEAN : StartTraining(w, away)
       \/ ExitZero(w) \/ UploadAdapter(w) \/ NoPatch(w) \/ SyncRunArtifacts(w)
       \/ \E s \in {"completed", "failed"} : PatchRun(w, s)
  \/ RecoverStranded \/ DeleteRun
  \/ SignedIn
  \/ \E t \in Tasks :
       \/ StartSync(t) \/ HeadBucket(t) \/ CreateBucket(t) \/ EndSync(t)
       \/ \E f \in Files : PutFile(t, f)
  \/ Outage \/ Recover \/ RestartAPI

Spec == Init /\ [][Next]_vars

-----------------------------------------------------------------------------
(* Properties                                                              *)

Quiet == \A t \in Syncs : spc[t] \in {"none", "done"}

\* The adapter of a completed run is in the store once the syncs are through:
\* it is uploaded before the verdict, and the verdict starts the sync.  Except
\* where a call failed on the way, or the run had already been failed.
CompletedIsStored ==
  verdict = "completed" /\ Quiet /\ missed = {} => "adapter" \in stored

\* A bucket the process no longer asks for is there, however two syncs and a
\* worker race to create it; unless the gateway was away at that moment.
VerifiedBucketExists == verified /\ ~outage => bucket

\* What the chain from worker to object store delivers when nothing failed.
ArtifactsStored == CompletedIsStored /\ VerifiedBucketExists

-----------------------------------------------------------------------------
(* The inductive invariant                                                 *)

\* A worker that is about to report success has left the adapter on the API's disk,
\* unless its upload failed or the run is gone.
TrainedIsOnDisk ==
  /\ \A w \in Workers : wpc[w] = "patch" => "adapter" \in disk \/ "upload" \in missed \/ verdict = "deleted"
  /\ verdict = "completed" => "adapter" \in disk \/ "upload" \in missed

\* A completed run that misses nothing has the adapter stored, or a sync that is going
\* to store it.
SyncIsComing ==
  (verdict = "completed" /\ missed = {}) =>
    \/ "adapter" \in stored
    \/ \E t \in Syncs : spc[t] \in {"queued", "head", "create"} \/ (spc[t] = "put" /\ "adapter" \in todo[t])

IInv == TypeOK /\ TrainedIsOnDisk /\ SyncIsComing /\ VerifiedBucketExists
=============================================================================
