---------------------------- MODULE ExportQueue ----------------------------
(***************************************************************************)
(* Exports of completed runs: the rows and endpoints of routers/exports.py *)
(* and the one exporter process that polls them, packages/exporter.        *)
(*                                                                         *)
(* Unlike runs, exports are not claimed: the exporter takes the newest     *)
(* queued row and tells the API of its progress by PATCHes whose errors it *)
(* swallows.  The API knows nothing of the process, so a row may be        *)
(* cancelled, or deleted and its id used again, while its files are made.  *)
(* Rows and files are two stores, and every PATCH and tool is a step.      *)
(***************************************************************************)
EXTENDS Naturals, FiniteSets

CONSTANTS
  Exports,    \* row ids; SQLite allots them in creation order
  Quants,     \* the requested levels other than F16
  NoExport,
  MaxFaults   \* bound on lost PATCHes and crashes of the exporter

ASSUME ExportAssumption ==
  /\ Exports \subseteq Nat /\ NoExport \notin Exports
  /\ {"fused", "F16"} \cap Quants = {}
  /\ MaxFaults \in Nat

VARIABLES
  status,     \* Export.status, "absent" when there is no such row
  paths,      \* the artifacts whose path columns are set
  stamps,     \* the time stamps that are set
  disk,       \* the artifacts under exports/<id>
  pc, job,    \* the exporter: where it stands, and the row it was handed
  todo,       \* quant levels still to make
  quant,      \* the level just made
  faults,
  (* history, read by the properties only *)
  dropped,    \* rows the exporter was building when it died, or whose
              \* terminal PATCH was lost
  haunted     \* ids deleted while the exporter was building them

rowVars  == <<status, paths, stamps>>
procVars == <<pc, job, todo, quant>>
histVars == <<dropped, haunted>>
vars == <<rowVars, disk, procVars, faults, histVars>>

Building  == {"fusing", "converting", "quantizing"}
Terminal  == {"completed", "failed", "cancelled"}
Statuses  == {"absent", "queued"} \cup Building \cup Terminal
Artifacts == {"fused", "F16"} \cup Quants
Phases == {"idle", "picked", "fuse", "fused", "toConvert", "convert", "converted",
           "toQuantize", "quantize", "quantized", "finish"}

Exists(x) == status[x] # "absent"
Held(x) == job = x

TypeOK ==
  /\ status \in [Exports -> Statuses]
  /\ paths \in [Exports -> SUBSET Artifacts]
  /\ stamps \in [Exports -> SUBSET {"started_at", "completed_at"}]
  /\ disk \in [Exports -> SUBSET Artifacts]
  /\ pc \in Phases
  /\ job \in Exports \cup {NoExport}
  /\ todo \subseteq Quants
  /\ quant \in Quants \cup {"none"}
  /\ faults \in 0 .. MaxFaults
  /\ dropped \subseteq Exports /\ haunted \subseteq Exports

Init ==
  /\ status = [x \in Exports |-> "absent"]
  /\ paths = [x \in Exports |-> {}] /\ stamps = [x \in Exports |-> {}]
  /\ disk = [x \in Exports |-> {}]
  /\ pc = "idle" /\ job = NoExport /\ todo = {} /\ quant = "none"
  /\ faults = 0
  /\ dropped = {} /\ haunted = {}

Fault == faults < MaxFaults /\ faults' = faults + 1

-----------------------------------------------------------------------------
(* Users of the API                                                        *)

\* POST /exports: the new id is the one after the largest present.
CreateExport(x) ==
  /\ \A y \in Exports : Exists(y) => y < x
  /\ \A y \in Exports : y < x => \E z \in Exports : Exists(z) /\ y <= z
  /\ status' = [status EXCEPT ![x] = "queued"]
  /\ UNCHANGED <<paths, stamps, disk, procVars, faults, histVars>>

\* What patch_export does for a status: no guard on the old one.
Stamp(x, new) ==
  CASE new = "fusing" -> stamps[x] \cup {"started_at"}
    [] new \in Terminal -> stamps[x] \cup {"completed_at"}
    [] OTHER -> stamps[x]

SetStatus(x, new) ==
  /\ status' = [status EXCEPT ![x] = new]
  /\ stamps' = [stamps EXCEPT ![x] = Stamp(x, new)]

CancelExport(x) ==
  /\ Exists(x)
  /\ SetStatus(x, "cancelled")
  /\ UNCHANGED <<paths, disk, procVars, faults, histVars>>

\* DELETE /exports/{id}: the row goes, whatever the status.  The files under
\* /app/exports go only where that is the exporter's directory.
DeleteExport(x) ==
  /\ Exists(x)
  /\ status' = [status EXCEPT ![x] = "absent"]
  /\ paths' = [paths EXCEPT ![x] = {}]
  /\ stamps' = [stamps EXCEPT ![x] = {}]
  /\ disk' \in {disk, [disk EXCEPT ![x] = {}]}
  /\ dropped' = dropped \ {x}
  /\ haunted' = IF Held(x) THEN haunted \cup {x} ELSE haunted
  /\ UNCHANGED <<procVars, faults>>

-----------------------------------------------------------------------------
(* The exporter                                                            *)

Queued == {x \in Exports : status[x] = "queued"}

\* GET /exports?status=queued&limit=1, newest first.
FetchNextQueued ==
  /\ pc = "idle"
  /\ \E x \in Queued : (\A y \in Queued : y <= x) /\ job' = x
  /\ pc' = "picked"
  /\ todo' = {} /\ quant' = "none"
  /\ UNCHANGED <<rowVars, disk, faults, histVars>>

\* _patch_export: the call is lost (a fault) or answers 404, and nobody asks.
NoPatch ==
  /\ IF Exists(job) THEN Fault ELSE UNCHANGED faults
  /\ UNCHANGED rowVars

PatchStatus(new) ==
  \/ Exists(job) /\ SetStatus(job, new) /\ UNCHANGED <<paths, faults>>
  \/ NoPatch

PatchPath(a) ==
  \/ /\ Exists(job)
     /\ paths' = [paths EXCEPT ![job] = @ \cup {a}]
     /\ UNCHANGED <<status, stamps, faults>>
  \/ NoPatch

Goto(p) == pc' = p /\ UNCHANGED job

\* The job ends with a terminal PATCH.
EndJob(new) ==
  /\ PatchStatus(new)
  /\ dropped' = IF Exists(job) /\ faults' # faults THEN dropped \cup {job} ELSE dropped
  /\ pc' = "idle" /\ job' = NoExport
  /\ UNCHANGED <<disk, todo, quant, haunted>>

\* Tools or adapter missing, a stage exits non-zero or makes no file, or an
\* exception reaches main(): each PATCHes the row failed.
JobFailsSilently ==  \* mutant: a failing stage returns without a PATCH
  /\ pc # "idle"
  /\ pc' = "idle" /\ job' = NoExport
  /\ UNCHANGED <<rowVars, disk, todo, quant, faults, histVars>>

JobFails ==
  /\ pc # "idle"
  /\ EndJob("failed")

BeginFuse ==
  /\ pc = "picked"
  /\ PatchStatus("fusing")
  /\ Goto("fuse")
  /\ UNCHANGED <<disk, todo, quant, histVars>>

\* A tool that exits with 0 leaves its file, made from the one before.
MakeFile(a) == disk' = [disk EXCEPT ![job] = @ \cup {a}]

Fuse ==
  /\ pc = "fuse"
  /\ MakeFile("fused")
  /\ Goto("fused")
  /\ UNCHANGED <<rowVars, todo, quant, faults, histVars>>

RecordFused ==
  /\ pc = "fused"
  /\ PatchPath("fused")
  /\ Goto("toConvert")
  /\ UNCHANGED <<disk, todo, quant, histVars>>

BeginConvert ==
  /\ pc = "toConvert"
  /\ PatchStatus("converting")
  /\ Goto("convert")
  /\ UNCHANGED <<disk, todo, quant, histVars>>

Convert ==
  /\ pc = "convert"
  /\ "fused" \in disk[job]
  /\ MakeFile("F16")
  /\ Goto("converted")
  /\ UNCHANGED <<rowVars, todo, quant, faults, histVars>>

RecordF16 ==
  /\ pc = "converted"
  /\ PatchPath("F16")
  /\ todo' = Quants
  /\ Goto(IF Quants = {} THEN "finish" ELSE "toQuantize")
  /\ UNCHANGED <<disk, quant, histVars>>

BeginUnknownStatus ==  \* mutant: the status sent is not in the enum
  /\ pc = "toQuantize"
  /\ PatchStatus("quantized")
  /\ Goto("quantize")
  /\ UNCHANGED <<disk, todo, quant, histVars>>

BeginQuantize ==
  /\ pc = "toQuantize"
  /\ PatchStatus("quantizing")
  /\ Goto("quantize")
  /\ UNCHANGED <<disk, todo, quant, histVars>>

SkipQuantize ==  \* mutant: a failing level is skipped, not returned on
  /\ pc = "quantize"
  /\ \E q \in todo :
       /\ todo' = todo \ {q}
       /\ pc' = (IF todo' = {} THEN "finish" ELSE "quantize")
  /\ UNCHANGED <<rowVars, disk, job, quant, faults, histVars>>

RecordFirst ==  \* mutant: the path is PATCHed before the tool runs
  /\ pc = "quantize"
  /\ \E q \in todo : PatchPath(q) /\ quant' = q /\ todo' = todo \ {q}
  /\ pc' = (IF todo' = {} THEN "finish" ELSE "quantize")
  /\ UNCHANGED <<disk, job, histVars>>

Quantize ==
  /\ pc = "quantize"
  /\ "F16" \in disk[job]
  /\ \E q \in todo : MakeFile(q) /\ quant' = q /\ todo' = todo \ {q}
  /\ Goto("quantized")
  /\ UNCHANGED <<rowVars, faults, histVars>>

RecordQuant ==
  /\ pc = "quantized"
  /\ PatchPath(quant)
  /\ Goto(IF todo = {} THEN "finish" ELSE "quantize")
  /\ UNCHANGED <<disk, todo, quant, histVars>>

FinishThenSync ==  \* mutant: an exception of the artifact sync reaches main()
  /\ pc = "finish"
  /\ PatchStatus("completed")
  /\ Goto("finish")
  /\ UNCHANGED <<disk, todo, quant, histVars>>

FinishExport ==
  /\ pc = "finish"
  /\ EndJob("completed")

\* The process is killed and started again: the row stays as it is.
CrashExporter ==
  /\ pc # "idle"
  /\ Fault
  /\ dropped' = IF Exists(job) THEN dropped \cup {job} ELSE dropped
  /\ pc' = "idle" /\ job' = NoExport
  /\ UNCHANGED <<rowVars, disk, todo, quant, haunted>>

-----------------------------------------------------------------------------
UserStep == \E x \in Exports : CreateExport(x) \/ CancelExport(x) \/ DeleteExport(x)

ExporterStep ==
  \/ FetchNextQueued \/ JobFails
  \/ BeginFuse \/ Fuse \/ RecordFused
  \/ BeginConvert \/ Convert \/ RecordF16
  \/ BeginQuantize \/ Quantize \/ RecordQuant
  \/ FinishExport

Next == UserStep \/ ExporterStep \/ CrashExporter

\* The exporter is one sequential process that keeps running, and its tools
\* end.  Users and crashes are not fair.
Spec == Init /\ [][Next]_vars /\ WF_vars(ExporterStep)

-----------------------------------------------------------------------------
(* Properties                                                              *)

\* A file an export row names is there to download, whatever was cancelled,
\* lost or rebuilt; except for an id deleted under the exporter.
RecordedIsOnDisk == \A x \in Exports \ haunted : paths[x] \subseteq disk[x]

\* A completed export has every file it was asked for, whichever PATCHes of
\* the stages before were lost.
CompletedIsBuilt ==
  \A x \in Exports \ haunted : status[x] = "completed" => disk[x] = Artifacts

\* An export shows a build in progress only while the exporter is building it;
\* it stays there for ever only where the process died or a verdict was lost.
StuckOnlyAfterFault ==
  \A x \in Exports \ (dropped \cup haunted) : status[x] \in Building => Held(x)

\* The exporter's verdict on an export stands: neither a late PATCH nor a later
\* step of the same job takes it back.
VerdictStands ==
  [][\A x \in Exports \ haunted :
        status[x] \in {"completed", "failed"} =>
          status'[x] \in {status[x], "cancelled", "absent"}]_vars

-----------------------------------------------------------------------------
(* The inductive invariant behind the safety properties.                   *)

JobPhase ==
  /\ pc = "idle" <=> job = NoExport
  /\ pc = "quantized" => quant \in Quants

\* The row of the running job is there and without a verdict.
JobRow == \A x \in Exports \ haunted : Held(x) => status[x] \notin {"absent", "completed", "failed"}

\* The artifacts the running job has made by the time it stands at pc.
Made ==
  CASE pc \in {"fused", "toConvert", "convert"} -> {"fused"}
    [] pc = "converted" -> {"fused", "F16"}
    [] pc \in {"toQuantize", "quantize"} -> Artifacts \ todo
    [] pc = "quantized" -> (Artifacts \ todo) \cup {quant}
    [] pc = "finish" -> Artifacts
    [] OTHER -> {}

JobFiles == \A x \in Exports \ haunted : Held(x) => Made \subseteq disk[x]

IInv ==
  /\ TypeOK
  /\ JobPhase
  /\ JobRow
  /\ JobFiles
  /\ RecordedIsOnDisk
  /\ CompletedIsBuilt
  /\ StuckOnlyAfterFault
=============================================================================
