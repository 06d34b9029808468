--------------------------- MODULE MCExportsProofs ---------------------------
(***************************************************************************)
(* Proofs about what works through the API from outside: the exporter, for *)
(* any rows, quant levels and faults; the artifacts, the heartbeats, the   *)
(* training and the tools, for any workers, datasets, losses, waits and    *)
(* calls that ExportsAssumption allows; and all of them as one program.    *)
(***************************************************************************)
EXTENDS MCExports, Integers, Sequences, FiniteSetTheorems, TLAPS

-----------------------------------------------------------------------------
(* The exporter                                                            *)

\* Every variable keeps its type.  The type of the PATCHed rows needs to know
\* that a busy exporter has a row and a level just made, so JobPhase goes along.
Typing == TypeOK /\ JobPhase

\* The types, and who has a job, are kept by every step.
LEMMA QueueTyped == (Init => Typing) /\ (Typing /\ [Next]_vars => Typing')
<1>1. Init => Typing
  BY ExportAssumption
  DEF Init, Typing, TypeOK, JobPhase, Statuses, Building, Terminal, Artifacts, Phases
<1>2. Typing /\ [Next]_vars => Typing'
  <2> SUFFICES ASSUME Typing, [Next]_vars PROVE Typing'
    OBVIOUS
  <2> USE ExportAssumption
      DEF Typing, TypeOK, JobPhase, Statuses, Building, Terminal, Artifacts, Phases, Exists, Held,
          rowVars, procVars, histVars
  <2>1. ASSUME NEW x \in Exports, CreateExport(x)
        PROVE  Typing'
    BY <2>1 DEF CreateExport
  <2>2. ASSUME NEW x \in Exports, CancelExport(x)
        PROVE  Typing'
    BY <2>2 DEF CancelExport, SetStatus, Stamp
  <2>3. ASSUME NEW x \in Exports, DeleteExport(x)
        PROVE  Typing'
    BY <2>3 DEF DeleteExport
  <2>4. ASSUME FetchNextQueued
        PROVE  Typing'
    BY <2>4 DEF FetchNextQueued, Queued
  <2>5. ASSUME JobFails
        PROVE  Typing'
    BY <2>5 DEF JobFails, EndJob, PatchStatus, SetStatus, Stamp, NoPatch, Fault
  <2>6. ASSUME BeginFuse
        PROVE  Typing'
    BY <2>6 DEF BeginFuse, PatchStatus, SetStatus, Stamp, NoPatch, Fault, Goto
  <2>7. ASSUME Fuse
        PROVE  Typing'
    BY <2>7 DEF Fuse, MakeFile, Goto
  <2>8. ASSUME RecordFused
        PROVE  Typing'
    BY <2>8 DEF RecordFused, PatchPath, NoPatch, Fault, Goto
  <2>9. ASSUME BeginConvert
        PROVE  Typing'
    BY <2>9 DEF BeginConvert, PatchStatus, SetStatus, Stamp, NoPatch, Fault, Goto
  <2>10. ASSUME Convert
        PROVE  Typing'
    BY <2>10 DEF Convert, MakeFile, Goto
  <2>11. ASSUME RecordF16
        PROVE  Typing'
    BY <2>11 DEF RecordF16, PatchPath, NoPatch, Fault, Goto
  <2>12. ASSUME BeginQuantize
        PROVE  Typing'
    BY <2>12 DEF BeginQuantize, PatchStatus, SetStatus, Stamp, NoPatch, Fault, Goto
  <2>13. ASSUME Quantize
        PROVE  Typing'
    BY <2>13 DEF Quantize, MakeFile, Goto
  <2>14. ASSUME RecordQuant
        PROVE  Typing'
    BY <2>14 DEF RecordQuant, PatchPath, NoPatch, Fault, Goto
  <2>15. ASSUME FinishExport
        PROVE  Typing'
    BY <2>15 DEF FinishExport, EndJob, PatchStatus, SetStatus, Stamp, NoPatch, Fault
  <2>16. ASSUME CrashExporter
        PROVE  Typing'
    BY <2>16 DEF CrashExporter, Fault
  <2>17. CASE UNCHANGED vars
    BY <2>17 DEF vars
  <2> QED
    BY <2>1, <2>2, <2>3, <2>4, <2>5, <2>6, <2>7, <2>8, <2>9, <2>10, <2>11, <2>12, <2>13, <2>14, <2>15, <2>16, <2>17
    DEF Next, UserStep, ExporterStep
<1> QED
  BY <1>1, <1>2

\* So they hold throughout.
LEMMA TypingInvariant == Spec => []Typing
BY QueueTyped, PTL DEF Spec

\* No endpoint, PATCH, tool or crash writes outside its columns.
THEOREM TypeInvariant == Spec => []TypeOK
<1>1. Typing => TypeOK
  BY DEF Typing
<1> QED
  BY <1>1, TypingInvariant, PTL

-----------------------------------------------------------------------------
\* What the induction adds to the types.
Safe == JobRow /\ JobFiles /\ RecordedIsOnDisk /\ CompletedIsBuilt /\ StuckOnlyAfterFault

\* IInv survives every action.  A step that touches rows or files is shown
\* conjunct by conjunct; what Made says before and after it is what carries
\* the files from one stage of the pipeline to the next.
LEMMA SafeStep == IInv /\ Typing' /\ [Next]_vars => Safe'
<1> SUFFICES ASSUME IInv, Typing', [Next]_vars PROVE Safe'
  OBVIOUS
<1> USE ExportAssumption
    DEF IInv, Safe, Typing, TypeOK, JobPhase, Statuses, Building, Terminal, Artifacts, Phases,
        Exists, Held, rowVars, procVars, histVars, JobRow, JobFiles, Made, RecordedIsOnDisk,
        CompletedIsBuilt, StuckOnlyAfterFault
<1>1. ASSUME NEW x \in Exports, CreateExport(x)
      PROVE  Safe'
  <2>1. JobRow'
    BY <1>1 DEF CreateExport
  <2>2. JobFiles'
    BY <1>1 DEF CreateExport
  <2>3. RecordedIsOnDisk'
    BY <1>1 DEF CreateExport
  <2>4. CompletedIsBuilt'
    BY <1>1 DEF CreateExport
  <2>5. StuckOnlyAfterFault'
    BY <1>1 DEF CreateExport
  <2> QED
    BY <2>1, <2>2, <2>3, <2>4, <2>5
<1>2. ASSUME NEW x \in Exports, CancelExport(x)
      PROVE  Safe'
  <2>1. JobRow'
    BY <1>2 DEF CancelExport, SetStatus, Stamp
  <2>2. JobFiles'
    BY <1>2 DEF CancelExport, SetStatus, Stamp
  <2>3. RecordedIsOnDisk'
    BY <1>2 DEF CancelExport, SetStatus, Stamp
  <2>4. CompletedIsBuilt'
    BY <1>2 DEF CancelExport, SetStatus, Stamp
  <2>5. StuckOnlyAfterFault'
    BY <1>2 DEF CancelExport, SetStatus, Stamp
  <2> QED
    BY <2>1, <2>2, <2>3, <2>4, <2>5
<1>3. ASSUME NEW x \in Exports, DeleteExport(x)
      PROVE  Safe'
  <2>1. JobRow'
    BY <1>3 DEF DeleteExport
  <2>2. JobFiles'
    BY <1>3 DEF DeleteExport
  <2>3. RecordedIsOnDisk'
    BY <1>3 DEF DeleteExport
  <2>4. CompletedIsBuilt'
    BY <1>3 DEF DeleteExport
  <2>5. StuckOnlyAfterFault'
    BY <1>3 DEF DeleteExport
  <2> QED
    BY <2>1, <2>2, <2>3, <2>4, <2>5
<1>4. ASSUME FetchNextQueued
      PROVE  Safe'
  <2>1. JobRow'
    BY <1>4 DEF FetchNextQueued, Queued
  <2>2. JobFiles'
    BY <1>4 DEF FetchNextQueued, Queued
  <2>3. RecordedIsOnDisk'
    BY <1>4 DEF FetchNextQueued, Queued
  <2>4. CompletedIsBuilt'
    BY <1>4 DEF FetchNextQueued, Queued
  <2>5. StuckOnlyAfterFault'
    BY <1>4 DEF FetchNextQueued, Queued
  <2> QED
    BY <2>1, <2>2, <2>3, <2>4, <2>5
<1>5. ASSUME JobFails
      PROVE  Safe'
  <2>1. JobRow'
    BY <1>5 DEF JobFails, EndJob, PatchStatus, SetStatus, Stamp, NoPatch, Fault
  <2>2. JobFiles'
    BY <1>5 DEF JobFails, EndJob, PatchStatus, SetStatus, Stamp, NoPatch, Fault
  <2>3. RecordedIsOnDisk'
    BY <1>5 DEF JobFails, EndJob, PatchStatus, SetStatus, Stamp, NoPatch, Fault
  <2>4. CompletedIsBuilt'
    BY <1>5 DEF JobFails, EndJob, PatchStatus, SetStatus, Stamp, NoPatch, Fault
  <2>5. StuckOnlyAfterFault'
    BY <1>5 DEF JobFails, EndJob, PatchStatus, SetStatus, Stamp, NoPatch, Fault
  <2> QED
    BY <2>1, <2>2, <2>3, <2>4, <2>5
<1>6. ASSUME BeginFuse
      PROVE  Safe'
  <2>1. JobRow'
    BY <1>6 DEF BeginFuse, PatchStatus, SetStatus, Stamp, NoPatch, Fault, Goto
  <2>2. JobFiles'
    BY <1>6 DEF BeginFuse, PatchStatus, SetStatus, Stamp, NoPatch, Fault, Goto
  <2>3. RecordedIsOnDisk'
    BY <1>6 DEF BeginFuse, PatchStatus, SetStatus, Stamp, NoPatch, Fault, Goto
  <2>4. CompletedIsBuilt'
    BY <1>6 DEF BeginFuse, PatchStatus, SetStatus, Stamp, NoPatch, Fault, Goto
  <2>5. StuckOnlyAfterFault'
    BY <1>6 DEF BeginFuse, PatchStatus, SetStatus, Stamp, NoPatch, Fault, Goto
  <2> QED
    BY <2>1, <2>2, <2>3, <2>4, <2>5
<1>7. ASSUME Fuse
      PROVE  Safe'
  <2>1. JobRow'
    BY <1>7 DEF Fuse, MakeFile, Goto
  <2>2. JobFiles'
    BY <1>7 DEF Fuse, MakeFile, Goto
  <2>3. RecordedIsOnDisk'
    BY <1>7 DEF Fuse, MakeFile, Goto
  <2>4. CompletedIsBuilt'
    BY <1>7 DEF Fuse, MakeFile, Goto
  <2>5. StuckOnlyAfterFault'
    BY <1>7 DEF Fuse, MakeFile, Goto
  <2> QED
    BY <2>1, <2>2, <2>3, <2>4, <2>5
<1>8. ASSUME RecordFused
      PROVE  Safe'
  <2>1. JobRow'
    BY <1>8 DEF RecordFused, PatchPath, NoPatch, Fault, Goto
  <2>2. JobFiles'
    BY <1>8 DEF RecordFused, PatchPath, NoPatch, Fault, Goto
  <2>3. RecordedIsOnDisk'
    BY <1>8 DEF RecordFused, PatchPath, NoPatch, Fault, Goto
  <2>4. CompletedIsBuilt'
    BY <1>8 DEF RecordFused, PatchPath, NoPatch, Fault, Goto
  <2>5. StuckOnlyAfterFault'
    BY <1>8 DEF RecordFused, PatchPath, NoPatch, Fault, Goto
  <2> QED
    BY <2>1, <2>2, <2>3, <2>4, <2>5
<1>9. ASSUME BeginConvert
      PROVE  Safe'
  <2>1. JobRow'
    BY <1>9 DEF BeginConvert, PatchStatus, SetStatus, Stamp, NoPatch, Fault, Goto
  <2>2. JobFiles'
    BY <1>9 DEF BeginConvert, PatchStatus, SetStatus, Stamp, NoPatch, Fault, Goto
  <2>3. RecordedIsOnDisk'
    BY <1>9 DEF BeginConvert, PatchStatus, SetStatus, Stamp, NoPatch, Fault, Goto
  <2>4. CompletedIsBuilt'
    BY <1>9 DEF BeginConvert, PatchStatus, SetStatus, Stamp, NoPatch, Fault, Goto
  <2>5. StuckOnlyAfterFault'
    BY <1>9 DEF BeginConvert, PatchStatus, SetStatus, Stamp, NoPatch, Fault, Goto
  <2> QED
    BY <2>1, <2>2, <2>3, <2>4, <2>5
<1>10. ASSUME Convert
      PROVE  Safe'
  <2>1. JobRow'
    BY <1>10 DEF Convert, MakeFile, Goto
  <2>2. JobFiles'
    BY <1>10 DEF Convert, MakeFile, Goto
  <2>3. RecordedIsOnDisk'
    BY <1>10 DEF Convert, MakeFile, Goto
  <2>4. CompletedIsBuilt'
    BY <1>10 DEF Convert, MakeFile, Goto
  <2>5. StuckOnlyAfterFault'
    BY <1>10 DEF Convert, MakeFile, Goto
  <2> QED
    BY <2>1, <2>2, <2>3, <2>4, <2>5
<1>11. ASSUME RecordF16
      PROVE  Safe'
  <2>1. JobRow'
    BY <1>11 DEF RecordF16, PatchPath, NoPatch, Fault, Goto
  <2>2. JobFiles'
    BY <1>11 DEF RecordF16, PatchPath, NoPatch, Fault, Goto
  <2>3. RecordedIsOnDisk'
    BY <1>11 DEF RecordF16, PatchPath, NoPatch, Fault, Goto
  <2>4. CompletedIsBuilt'
    BY <1>11 DEF RecordF16, PatchPath, NoPatch, Fault, Goto
  <2>5. StuckOnlyAfterFault'
    BY <1>11 DEF RecordF16, PatchPath, NoPatch, Fault, Goto
  <2> QED
    BY <2>1, <2>2, <2>3, <2>4, <2>5
<1>12. ASSUME BeginQuantize
      PROVE  Safe'
  <2>1. JobRow'
    BY <1>12 DEF BeginQuantize, PatchStatus, SetStatus, Stamp, NoPatch, Fault, Goto
  <2>2. JobFiles'
    BY <1>12 DEF BeginQuantize, PatchStatus, SetStatus, Stamp, NoPatch, Fault, Goto
  <2>3. RecordedIsOnDisk'
    BY <1>12 DEF BeginQuantize, PatchStatus, SetStatus, Stamp, NoPatch, Fault, Goto
  <2>4. CompletedIsBuilt'
    BY <1>12 DEF BeginQuantize, PatchStatus, SetStatus, Stamp, NoPatch, Fault, Goto
  <2>5. StuckOnlyAfterFault'
    BY <1>12 DEF BeginQuantize, PatchStatus, SetStatus, Stamp, NoPatch, Fault, Goto
  <2> QED
    BY <2>1, <2>2, <2>3, <2>4, <2>5
<1>13. ASSUME Quantize
      PROVE  Safe'
  <2>1. JobRow'
    BY <1>13 DEF Quantize, MakeFile, Goto
  <2>2. JobFiles'
    BY <1>13 DEF Quantize, MakeFile, Goto
  <2>3. RecordedIsOnDisk'
    BY <1>13 DEF Quantize, MakeFile, Goto
  <2>4. CompletedIsBuilt'
    BY <1>13 DEF Quantize, MakeFile, Goto
  <2>5. StuckOnlyAfterFault'
    BY <1>13 DEF Quantize, MakeFile, Goto
  <2> QED
    BY <2>1, <2>2, <2>3, <2>4, <2>5
<1>14. ASSUME RecordQuant
      PROVE  Safe'
  <2>1. JobRow'
    BY <1>14 DEF RecordQuant, PatchPath, NoPatch, Fault, Goto
  <2>2. JobFiles'
    BY <1>14 DEF RecordQuant, PatchPath, NoPatch, Fault, Goto
  <2>3. RecordedIsOnDisk'
    BY <1>14 DEF RecordQuant, PatchPath, NoPatch, Fault, Goto
  <2>4. CompletedIsBuilt'
    BY <1>14 DEF RecordQuant, PatchPath, NoPatch, Fault, Goto
  <2>5. StuckOnlyAfterFault'
    BY <1>14 DEF RecordQuant, PatchPath, NoPatch, Fault, Goto
  <2> QED
    BY <2>1, <2>2, <2>3, <2>4, <2>5
<1>15. ASSUME FinishExport
      PROVE  Safe'
  <2>1. JobRow'
    BY <1>15 DEF FinishExport, EndJob, PatchStatus, SetStatus, Stamp, NoPatch, Fault
  <2>2. JobFiles'
    BY <1>15 DEF FinishExport, EndJob, PatchStatus, SetStatus, Stamp, NoPatch, Fault
  <2>3. RecordedIsOnDisk'
    BY <1>15 DEF FinishExport, EndJob, PatchStatus, SetStatus, Stamp, NoPatch, Fault
  <2>4. CompletedIsBuilt'
    BY <1>15 DEF FinishExport, EndJob, PatchStatus, SetStatus, Stamp, NoPatch, Fault
  <2>5. StuckOnlyAfterFault'
    BY <1>15 DEF FinishExport, EndJob, PatchStatus, SetStatus, Stamp, NoPatch, Fault
  <2> QED
    BY <2>1, <2>2, <2>3, <2>4, <2>5
<1>16. ASSUME CrashExporter
      PROVE  Safe'
  <2>1. JobRow'
    BY <1>16 DEF CrashExporter, Fault
  <2>2. JobFiles'
    BY <1>16 DEF CrashExporter, Fault
  <2>3. RecordedIsOnDisk'
    BY <1>16 DEF CrashExporter, Fault
  <2>4. CompletedIsBuilt'
    BY <1>16 DEF CrashExporter, Fault
  <2>5. StuckOnlyAfterFault'
    BY <1>16 DEF CrashExporter, Fault
  <2> QED
    BY <2>1, <2>2, <2>3, <2>4, <2>5
<1>17. CASE UNCHANGED vars
  BY <1>17 DEF vars
<1> QED
  BY <1>1, <1>2, <1>3, <1>4, <1>5, <1>6, <1>7, <1>8, <1>9, <1>10, <1>11, <1>12, <1>13, <1>14, <1>15, <1>16, <1>17
  DEF Next, UserStep, ExporterStep

\* No export is there at first.
LEMMA QueueInit == Init => IInv
BY ExportAssumption
DEF Init, IInv, TypeOK, JobPhase, JobRow, JobFiles, RecordedIsOnDisk, CompletedIsBuilt,
    StuckOnlyAfterFault, Statuses, Building, Terminal, Artifacts, Phases, Held

\* The invariant of the exports survives every step of the API and the exporter.
LEMMA QueueStep == IInv /\ [Next]_vars => IInv'
<1>1. IInv => Typing
  BY DEF IInv, Typing
<1> QED
  BY <1>1, QueueTyped, SafeStep DEF IInv, Typing, Safe

\* The inductive invariant holds in every reachable state.
THEOREM Invariance == Spec => []IInv
BY QueueInit, QueueStep, PTL DEF Spec

\* Every path an export row names is a file on disk (RecordedIsOnDisk).
THEOREM PathsAreFiles == Spec => []RecordedIsOnDisk
<1>1. IInv => RecordedIsOnDisk
  BY DEF IInv
<1> QED
  BY <1>1, Invariance, PTL

\* A completed export has all its files, whatever PATCHes were lost.
THEOREM CompletionIsBuilt == Spec => []CompletedIsBuilt
<1>1. IInv => CompletedIsBuilt
  BY DEF IInv
<1> QED
  BY <1>1, Invariance, PTL

\* Only a crash or a lost verdict leaves a build in progress behind.
THEOREM NoSilentStall == Spec => []StuckOnlyAfterFault
<1>1. IInv => StuckOnlyAfterFault
  BY DEF IInv
<1> QED
  BY <1>1, Invariance, PTL

\* The exporter's verdict is not taken back: by JobRow the row of the running
\* job has none yet, and no other row is PATCHed by the exporter.
THEOREM VerdictIsFinal == Spec => VerdictStands
<1>1. IInv /\ [Next]_vars =>
        [\A x \in Exports \ haunted :
          status[x] \in {"completed", "failed"} =>
            status'[x] \in {status[x], "cancelled", "absent"}]_vars
  <2> SUFFICES ASSUME IInv, [Next]_vars, NEW x \in Exports \ haunted,
                      status[x] \in {"completed", "failed"}
               PROVE  status'[x] \in {status[x], "cancelled", "absent"}
    OBVIOUS
  <2> USE ExportAssumption
      DEF IInv, TypeOK, JobPhase, JobRow, Exists, Held, Statuses, Building, Terminal, Phases,
          rowVars, procVars, histVars
  <2>1. ASSUME NEW y \in Exports, CreateExport(y)
        PROVE  status'[x] \in {status[x], "cancelled", "absent"}
    BY <2>1 DEF CreateExport
  <2>2. ASSUME NEW y \in Exports, CancelExport(y)
        PROVE  status'[x] \in {status[x], "cancelled", "absent"}
    BY <2>2 DEF CancelExport, SetStatus, Stamp
  <2>3. ASSUME NEW y \in Exports, DeleteExport(y)
        PROVE  status'[x] \in {status[x], "cancelled", "absent"}
    BY <2>3 DEF DeleteExport
  <2>4. ASSUME FetchNextQueued
        PROVE  status'[x] \in {status[x], "cancelled", "absent"}
    BY <2>4 DEF FetchNextQueued, Queued
  <2>5. ASSUME JobFails
        PROVE  status'[x] \in {status[x], "cancelled", "absent"}
    BY <2>5 DEF JobFails, EndJob, PatchStatus, SetStatus, Stamp, NoPatch, Fault
  <2>6. ASSUME BeginFuse
        PROVE  status'[x] \in {status[x], "cancelled", "absent"}
    BY <2>6 DEF BeginFuse, PatchStatus, SetStatus, Stamp, NoPatch, Fault, Goto
  <2>7. ASSUME Fuse
        PROVE  status'[x] \in {status[x], "cancelled", "absent"}
    BY <2>7 DEF Fuse, MakeFile, Goto
  <2>8. ASSUME RecordFused
        PROVE  status'[x] \in {status[x], "cancelled", "absent"}
    BY <2>8 DEF RecordFused, PatchPath, NoPatch, Fault, Goto
  <2>9. ASSUME BeginConvert
        PROVE  status'[x] \in {status[x], "cancelled", "absent"}
    BY <2>9 DEF BeginConvert, PatchStatus, SetStatus, Stamp, NoPatch, Fault, Goto
  <2>10. ASSUME Convert
        PROVE  status'[x] \in {status[x], "cancelled", "absent"}
    BY <2>10 DEF Convert, MakeFile, Goto
  <2>11. ASSUME RecordF16
        PROVE  status'[x] \in {status[x], "cancelled", "absent"}
    BY <2>11 DEF RecordF16, PatchPath, NoPatch, Fault, Goto
  <2>12. ASSUME BeginQuantize
        PROVE  status'[x] \in {status[x], "cancelled", "absent"}
    BY <2>12 DEF BeginQuantize, PatchStatus, SetStatus, Stamp, NoPatch, Fault, Goto
  <2>13. ASSUME Quantize
        PROVE  status'[x] \in {status[x], "cancelled", "absent"}
    BY <2>13 DEF Quantize, MakeFile, Goto
  <2>14. ASSUME RecordQuant
        PROVE  status'[x] \in {status[x], "cancelled", "absent"}
    BY <2>14 DEF RecordQuant, PatchPath, NoPatch, Fault, Goto
  <2>15. ASSUME FinishExport
        PROVE  status'[x] \in {status[x], "cancelled", "absent"}
    BY <2>15 DEF FinishExport, EndJob, PatchStatus, SetStatus, Stamp, NoPatch, Fault
  <2>16. ASSUME CrashExporter
        PROVE  status'[x] \in {status[x], "cancelled", "absent"}
    BY <2>16 DEF CrashExporter, Fault
  <2>17. CASE UNCHANGED vars
    BY <2>17 DEF vars
  <2> QED
    BY <2>1, <2>2, <2>3, <2>4, <2>5, <2>6, <2>7, <2>8, <2>9, <2>10, <2>11, <2>12, <2>13, <2>14, <2>15, <2>16, <2>17
    DEF Next, UserStep, ExporterStep
<1> QED
  BY <1>1, Invariance, PTL DEF Spec, VerdictStands

-----------------------------------------------------------------------------
(* The artifacts                                                           *)

\* What the bounds on syncs and faults are.
LEMMA SyncBounds == MaxSyncs \in Nat /\ MaxSyncFaults \in Nat
BY ExportsAssumption

\* Where a task stands, and what a step of one leaves of its type.
SyncStages == {"none", "queued", "done", "head", "create", "put"}
SyncRest ==
  /\ verdict \in {"open", "failed", "completed", "deleted"}
  /\ runDir \subseteq AS!Files
  /\ wpc \in [Workers -> {"idle", "train", "exit0", "patch", "sync"}]
  /\ remote \subseteq Workers
  /\ up \in BOOLEAN /\ bucket \in BOOLEAN /\ verified \in BOOLEAN
  /\ stored \subseteq AS!Files /\ wstored \subseteq AS!Files
  /\ syncs \in 0 .. MaxSyncs /\ syncFaults \in 0 .. MaxSyncFaults
  /\ outage \in BOOLEAN /\ missed \subseteq AS!Reasons

\* The types of the artifacts, in parts.
LEMMA SyncTypes ==
  AS!TypeOK <=> SyncRest /\ spc \in [AS!Tasks -> SyncStages] /\ pending \in [AS!Tasks -> SUBSET AS!Files]
<1>1. {"none", "queued", "done"} \cup AS!Running = SyncStages
  BY DEF SyncStages, AS!Running
<1> QED
  BY <1>1, Zenon DEF AS!TypeOK, SyncRest

\* The types of the artifacts survive every step of storage_sync and of the worker.
LEMMA ArtifactTypes ==
  AS!TypeOK /\ [AS!Next]_AS!vars => AS!TypeOK'
<1> SUFFICES ASSUME AS!TypeOK, [AS!Next]_AS!vars PROVE AS!TypeOK'
  OBVIOUS
<1>0. SyncRest /\ spc \in [AS!Tasks -> SyncStages] /\ pending \in [AS!Tasks -> SUBSET AS!Files]
  BY SyncTypes
<1>1. spc' \in [AS!Tasks -> SyncStages] /\ pending' \in [AS!Tasks -> SUBSET AS!Files]
  <2>1. ASSUME UNCHANGED <<spc, pending>> PROVE spc' \in [AS!Tasks -> SyncStages] /\ pending' \in [AS!Tasks -> SUBSET AS!Files]
    BY <1>0, <2>1
  <2>2. ASSUME NEW t \in AS!Tasks, NEW p \in SyncStages, AS!GoSync(t, p)
        PROVE  spc' \in [AS!Tasks -> SyncStages]
    BY <1>0, <2>2 DEF AS!GoSync
  <2>3. ASSUME NEW t \in AS!Tasks, AS!StartSync(t) \/ AS!HeadBucket(t) \/ AS!CreateBucket(t)
        PROVE  spc' \in [AS!Tasks -> SyncStages] /\ pending' \in [AS!Tasks -> SUBSET AS!Files]
    <3>1. "done" \in SyncStages /\ "head" \in SyncStages /\ "create" \in SyncStages /\ "put" \in SyncStages
      BY DEF SyncStages
    <3>2. [pending EXCEPT ![t] = runDir] \in [AS!Tasks -> SUBSET AS!Files]
      BY <1>0 DEF SyncRest
    <3> QED
      BY <1>0, <2>2, <2>3, <3>1, <3>2, Zenon DEF AS!StartSync, AS!HeadBucket, AS!CreateBucket, AS!BucketEnsured
  <2>4. ASSUME NEW t \in AS!Tasks, NEW f \in AS!Files, AS!PutFile(t, f)
        PROVE  spc' \in [AS!Tasks -> SyncStages] /\ pending' \in [AS!Tasks -> SUBSET AS!Files]
    BY <1>0, <2>4 DEF AS!PutFile
  <2>5. ASSUME NEW w \in Workers, NEW v \in {"completed", "failed"}, AS!PatchRun(w, v)
        PROVE  spc' \in [AS!Tasks -> SyncStages] /\ pending' \in [AS!Tasks -> SUBSET AS!Files]
    <3>1. "queued" \in SyncStages
      BY DEF SyncStages
    <3>2. syncs < MaxSyncs => syncs + 1 \in AS!Tasks
      BY <1>0, SyncBounds DEF SyncRest, AS!Tasks, AS!Syncs
    <3> QED
      BY <1>0, <2>2, <2>5, <3>1, <3>2, Zenon DEF AS!PatchRun, AS!Schedule
  <2>6. CASE AS!RestartAPI
    <3>1. spc' \in [AS!Tasks -> SyncStages]
      <4>1. \A t \in AS!Tasks : spc[t] \in SyncStages /\ "done" \in SyncStages
        BY <1>0 DEF SyncStages
      <4> QED
        BY <2>6, <4>1 DEF AS!RestartAPI
    <3>2. pending' = [t \in AS!Tasks |-> {}]
      BY <2>6 DEF AS!RestartAPI
    <3> QED
      BY <3>1, <3>2, Zenon
  <2>7. CASE AS!SignedIn
    <3>1. "head" \in SyncStages /\ AS!SignIn \in AS!Tasks
      BY DEF SyncStages, AS!Tasks
    <3> QED
      BY <1>0, <2>2, <2>7, <3>1, Zenon DEF AS!SignedIn
  <2>8. ASSUME NEW t \in AS!Tasks, AS!EndSync(t)
        PROVE  spc' \in [AS!Tasks -> SyncStages] /\ pending' \in [AS!Tasks -> SUBSET AS!Files]
    <3>1. "done" \in SyncStages
      BY DEF SyncStages
    <3> QED
      BY <1>0, <2>2, <2>8, <3>1, Zenon DEF AS!EndSync
  <2>9. \/ UNCHANGED <<spc, pending>> \/ AS!RestartAPI \/ AS!SignedIn
        \/ \E t \in AS!Tasks : \/ AS!StartSync(t) \/ AS!HeadBucket(t) \/ AS!CreateBucket(t) \/ AS!EndSync(t)
                               \/ \E f \in AS!Files : AS!PutFile(t, f)
        \/ \E w \in Workers, v \in {"completed", "failed"} : AS!PatchRun(w, v)
    BY Zenon DEF AS!Next, AS!vars, AS!syncVars, AS!StartTraining, AS!ExitZero, AS!UploadAdapter, AS!NoPatch,
       AS!SyncRunArtifacts, AS!RecoverStranded, AS!DeleteRun, AS!Outage, AS!Recover
  <2> QED
    BY <2>1, <2>3, <2>4, <2>5, <2>6, <2>7, <2>8, <2>9, Zenon
<1>2. SyncRest'
  <2> USE <1>0, SyncBounds DEF SyncRest, AS!Reasons, AS!Files, AS!rowVars, AS!storeVars, AS!syncVars, AS!histVars
  <2>0. AS!SyncFault => syncFaults' \in 0 .. MaxSyncFaults
    BY DEF AS!SyncFault
  <2>1. ASSUME NEW w \in Workers, NEW away \in BOOLEAN, AS!StartTraining(w, away)
        PROVE  SyncRest'
    BY <2>1 DEF AS!StartTraining, AS!GoWorker
  <2>2. ASSUME NEW w \in Workers, AS!ExitZero(w) PROVE SyncRest'
    BY <2>2 DEF AS!ExitZero, AS!GoWorker
  <2>3. ASSUME NEW w \in Workers, AS!UploadAdapter(w) PROVE SyncRest'
    BY <2>0, <2>3 DEF AS!UploadAdapter, AS!GoWorker
  <2>4. ASSUME NEW w \in Workers, AS!NoPatch(w) PROVE SyncRest'
    BY <2>0, <2>4 DEF AS!NoPatch, AS!GoWorker
  <2>5. ASSUME NEW w \in Workers, AS!SyncRunArtifacts(w) PROVE SyncRest'
    BY <2>5 DEF AS!SyncRunArtifacts, AS!GoWorker
  <2>6. ASSUME NEW w \in Workers, NEW v \in {"completed", "failed"}, AS!PatchRun(w, v) PROVE SyncRest'
    BY <2>6 DEF AS!PatchRun, AS!Schedule, AS!GoWorker
  <2>7. CASE AS!RecoverStranded \/ AS!DeleteRun \/ AS!SignedIn
    BY <2>0, <2>7 DEF AS!RecoverStranded, AS!DeleteRun, AS!SignedIn
  <2>8. ASSUME NEW t \in AS!Tasks, AS!StartSync(t) \/ AS!HeadBucket(t) \/ AS!EndSync(t) PROVE SyncRest'
    BY <2>8 DEF AS!StartSync, AS!HeadBucket, AS!EndSync
  <2>9. ASSUME NEW t \in AS!Tasks, AS!CreateBucket(t) PROVE SyncRest'
    BY <2>9 DEF AS!CreateBucket
  <2>10. ASSUME NEW t \in AS!Tasks, NEW f \in AS!Files, AS!PutFile(t, f) PROVE SyncRest'
    BY <2>10 DEF AS!PutFile
  <2>11. CASE AS!Outage \/ AS!Recover \/ UNCHANGED AS!vars
    BY <2>0, <2>11 DEF AS!Outage, AS!Recover, AS!vars
  <2>12. CASE AS!RestartAPI
    BY <2>0, <2>12 DEF AS!RestartAPI
  <2> QED
    BY <2>1, <2>2, <2>3, <2>4, <2>5, <2>6, <2>7, <2>8, <2>9, <2>10, <2>11, <2>12 DEF AS!Next
<1> QED
  BY <1>1, <1>2, Zenon DEF AS!TypeOK, SyncRest, SyncStages, AS!Running

\* What the syncs deliver, step by step.
Delivery == AS!TrainedIsOnDisk /\ AS!SyncIsComing /\ AS!VerifiedBucketExists

\* Nothing is trained and nothing is stored at first.
LEMMA ArtifactsInit == AS!Init => AS!IInv
<1> SUFFICES ASSUME AS!Init PROVE AS!IInv
  OBVIOUS
<1>1. SyncRest
  <2>1. wpc \in [Workers -> {"idle", "train", "exit0", "patch", "sync"}]
    BY DEF AS!Init
  <2>2. syncs \in 0 .. MaxSyncs /\ syncFaults \in 0 .. MaxSyncFaults
    BY SyncBounds DEF AS!Init
  <2> QED
    BY <2>1, <2>2, Zenon DEF AS!Init, SyncRest
<1>2. spc \in [AS!Tasks -> SyncStages] /\ pending \in [AS!Tasks -> SUBSET AS!Files]
  BY DEF AS!Init, SyncStages
<1>3. AS!TrainedIsOnDisk /\ AS!SyncIsComing /\ AS!VerifiedBucketExists
  BY DEF AS!Init, AS!TrainedIsOnDisk, AS!SyncIsComing, AS!VerifiedBucketExists
<1> QED
  BY <1>1, <1>2, <1>3, SyncTypes DEF AS!IInv

\* The invariant of the artifacts survives every step of the worker, the tasks and the store.
LEMMA ArtifactsStep == AS!IInv /\ [AS!Next]_AS!vars => AS!IInv'
<1> SUFFICES ASSUME AS!IInv, [AS!Next]_AS!vars PROVE AS!IInv'
  OBVIOUS
<1>0. AS!TypeOK'
  BY ArtifactTypes DEF AS!IInv
<1> SUFFICES Delivery'
  BY <1>0 DEF Delivery, AS!IInv
<1> USE SyncBounds DEF Delivery, AS!IInv, AS!TypeOK, AS!TrainedIsOnDisk, AS!SyncIsComing, AS!VerifiedBucketExists, AS!Files, AS!Tasks, AS!Syncs,
   AS!SignIn, AS!Running, AS!Reasons, AS!rowVars, AS!storeVars, AS!syncVars, AS!histVars, AS!GoSync, AS!GoWorker, AS!SyncFault
<1>1. ASSUME NEW w \in Workers, NEW away \in BOOLEAN, AS!StartTraining(w, away) PROVE Delivery'
  BY <1>1 DEF AS!StartTraining
<1>2. ASSUME NEW w \in Workers, AS!ExitZero(w) PROVE Delivery'
  BY <1>2 DEF AS!ExitZero
<1>3. ASSUME NEW w \in Workers, AS!UploadAdapter(w) PROVE Delivery'
  <2>1. AS!TrainedIsOnDisk' /\ AS!VerifiedBucketExists'
    BY <1>3 DEF AS!UploadAdapter
  <2>2. AS!SyncIsComing'
    BY <1>3 DEF AS!UploadAdapter
  <2> QED
    BY <2>1, <2>2
<1>4. ASSUME NEW w \in Workers, AS!NoPatch(w) PROVE Delivery'
  BY <1>4 DEF AS!NoPatch
<1>5. ASSUME NEW w \in Workers, AS!SyncRunArtifacts(w) PROVE Delivery'
  BY <1>5 DEF AS!SyncRunArtifacts
<1>6. ASSUME NEW w \in Workers, NEW s \in {"completed", "failed"}, AS!PatchRun(w, s) PROVE Delivery'
  BY <1>6 DEF AS!PatchRun, AS!Schedule
<1>7. CASE AS!RecoverStranded
  BY <1>7 DEF AS!RecoverStranded
<1>8. CASE AS!DeleteRun
  BY <1>8 DEF AS!DeleteRun
<1>9. CASE AS!SignedIn
  BY <1>9 DEF AS!SignedIn
<1>10. ASSUME NEW t \in AS!Tasks, AS!StartSync(t) PROVE Delivery'
  <2>1. AS!TrainedIsOnDisk' /\ AS!VerifiedBucketExists'
    BY <1>10 DEF AS!StartSync, AS!BucketEnsured
  <2>2. AS!SyncIsComing'
    BY <1>10 DEF AS!StartSync, AS!BucketEnsured
  <2> QED
    BY <2>1, <2>2
<1>11. ASSUME NEW t \in AS!Tasks, AS!HeadBucket(t) PROVE Delivery'
  <2>1. AS!TrainedIsOnDisk' /\ AS!VerifiedBucketExists'
    BY <1>11 DEF AS!HeadBucket, AS!BucketEnsured
  <2>2. AS!SyncIsComing'
    BY <1>11 DEF AS!HeadBucket, AS!BucketEnsured
  <2> QED
    BY <2>1, <2>2
<1>12. ASSUME NEW t \in AS!Tasks, AS!CreateBucket(t) PROVE Delivery'
  <2>1. AS!TrainedIsOnDisk' /\ AS!VerifiedBucketExists'
    BY <1>12 DEF AS!CreateBucket, AS!BucketEnsured
  <2>2. AS!SyncIsComing'
    BY <1>12 DEF AS!CreateBucket, AS!BucketEnsured
  <2> QED
    BY <2>1, <2>2
<1>13. ASSUME NEW t \in AS!Tasks, AS!EndSync(t) PROVE Delivery'
  BY <1>13 DEF AS!EndSync
<1>14. ASSUME NEW t \in AS!Tasks, NEW f \in AS!Files, AS!PutFile(t, f) PROVE Delivery'
  BY <1>14 DEF AS!PutFile
<1>15. CASE AS!Outage \/ AS!Recover \/ UNCHANGED AS!vars
  <2>1. AS!TrainedIsOnDisk' /\ AS!VerifiedBucketExists'
    BY <1>15 DEF AS!Outage, AS!Recover, AS!vars
  <2>2. AS!SyncIsComing'
    BY <1>15 DEF AS!Outage, AS!Recover, AS!vars
  <2> QED
    BY <2>1, <2>2
<1>16. CASE AS!RestartAPI
  <2>1. AS!TrainedIsOnDisk' /\ AS!VerifiedBucketExists'
    BY <1>16 DEF AS!RestartAPI
  <2>2. AS!SyncIsComing'
    BY <1>16 DEF AS!RestartAPI
  <2> QED
    BY <2>1, <2>2
<1> QED
  BY <1>1, <1>2, <1>3, <1>4, <1>5, <1>6, <1>7, <1>8, <1>9, <1>10, <1>11, <1>12, <1>13, <1>14, <1>15, <1>16 DEF AS!Next

\* What is on disk and on its way comes to: a completed run is in the store.
LEMMA ArtifactsHold == AS!IInv => AS!ArtifactsStored
BY DEF AS!IInv, AS!ArtifactsStored, AS!CompletedIsStored, AS!SyncIsComing, AS!Quiet

-----------------------------------------------------------------------------
(* The training                                                            *)

\* The constants of a training, as the proofs use them.
LEMMA TrainBounds ==
  /\ MaxLost \in Nat /\ BatchSizes \subseteq Nat /\ Iters \in Nat /\ TJ!SomeValue \in Values
  /\ NotANumber \notin Values /\ None # NotANumber
BY ExportsAssumption DEF TJ!SomeValue

\* A dataset has a number of rows of each split.
LEMMA DataAre ==
  ASSUME NEW d \in Datasets
  PROVE  d.rows.train \in Nat /\ d.rows.valid \in Nat /\ d.rows.canary \in Nat
<1>1. PICK n \in Sizes, s \in {"messages", "completion", "text", "other"} :
        d = [rows |-> [train |-> n[1], valid |-> n[2], canary |-> n[3]], canaryFile |-> n # <<1, 4, 0>>,
             shape |-> s]
  BY DEF Datasets
<1>2. n[1] \in Nat /\ n[2] \in Nat /\ n[3] \in Nat
  BY DEF Sizes
<1> QED
  BY <1>1, <1>2

\* The configuration, the points of the curves, the lines that are printed and the row.
Configs == [val_batches : 0 .. 25, mask_prompt : BOOLEAN]
Points == [step : 0 .. Iters, name : TJ!Metrics, value : Values]
Lines == [step : 0 .. Iters, name : TJ!Losses \cup {"other"}, value : TJ!Figures]
Reports == [status : {"running", "failed", "completed"}, train_loss : Values \cup {None},
            val_loss : Values \cup {None}, canary_loss : Values \cup {None}]
Trainings == {"config", "command", "train", "canary", "post", "report", "done", "raised"}

\* The types of a training, in parts.
LEMMA TrainTypes ==
  TJ!TypeOK <=> /\ backend \in {"mlx", "cuda"} /\ data \in Datasets /\ batch \in BatchSizes
                /\ trainPc \in Trainings /\ config \in Configs
                /\ finals \in [TJ!Losses -> TJ!Figures] /\ canary \in Values \cup {None}
                /\ curve \in Seq(Points) /\ row \in Reports /\ lost \in 0 .. MaxLost
                /\ printed \in Seq(Lines)
BY Zenon DEF TJ!TypeOK, Configs, Points, Lines, Reports, Trainings

\* The types behind a step, from their parts.
LEMMA TrainTypesBehind ==
  ASSUME backend' \in {"mlx", "cuda"}, data' \in Datasets, batch' \in BatchSizes,
         trainPc' \in Trainings, config' \in Configs,
         finals' \in [TJ!Losses -> TJ!Figures], canary' \in Values \cup {None},
         curve' \in Seq(Points), row' \in Reports, lost' \in 0 .. MaxLost, printed' \in Seq(Lines)
  PROVE  TJ!TypeOK'
BY Zenon DEF TJ!TypeOK, Configs, Points, Lines, Reports, Trainings

-----------------------------------------------------------------------------
(* The configuration is one the program accepts                            *)

\* Whole batches of a split fit in it, and there is one when there are rows for it.
LEMMA Quotient ==
  ASSUME NEW a \in Nat, NEW b \in Nat \ {0}
  PROVE  a \div b \in Nat /\ (a \div b) * b <= a /\ (a >= b => a \div b >= 1)
OBVIOUS

\* What fits many batches fits fewer.
LEMMA FewerFit ==
  ASSUME NEW m \in Nat, NEW q \in Nat, NEW b \in Nat, m <= q
  PROVE  m * b <= q * b
OBVIOUS

\* The batches of _safe_val_batches fit in a split that is empty or has a batch.
LEMMA BatchesFit ==
  ASSUME NEW valid \in Nat, batch \in Nat, batch > 0, valid = 0 \/ valid >= batch
  PROVE  TJ!Fits(valid, TJ!SafeValBatches(valid), batch)
<1> PICK b \in Nat \ {0} : b = batch
  OBVIOUS
<1>1. CASE valid = 0
  BY <1>1 DEF TJ!Fits, TJ!SafeValBatches
<1>2. CASE valid # 0 /\ valid >= b
  <2> PICK q \in Nat : q = valid \div b /\ q * b <= valid /\ q >= 1
    BY <1>2, Quotient
  <2> DEFINE m == TJ!SafeValBatches(valid)
  <2>1. m \in Nat /\ m <= q
    BY <1>2 DEF TJ!SafeValBatches, TJ!MinOf, TJ!MaxOf
  <2> HIDE DEF m
  <2>2. m * b <= q * b
    BY <2>1, FewerFit
  <2>3. m * b \in Nat /\ q * b \in Nat
    BY <2>1
  <2>4. valid >= m * b
    BY <2>2, <2>3
  <2> QED
    BY <2>4 DEF TJ!Fits, m
<1> QED
  BY <1>1, <1>2

\* The training accepts a dataset with the configuration write_config made of it.
LEMMA ConfigIsAccepted ==
  ASSUME TJ!TypeOK, TJ!ConfigIsWritten PROVE TJ!DatasetIsAccepted
<1> SUFFICES ASSUME trainPc = "train", batch > 0, data.rows.train >= batch,
                    data.rows.valid = 0 \/ data.rows.valid >= batch, data.shape # "other"
             PROVE  TJ!Accepts
  BY DEF TJ!DatasetIsAccepted
<1>1. batch \in Nat /\ data \in Datasets
  BY TrainTypes, TrainBounds
<1>2. data.rows.train \in Nat /\ data.rows.valid \in Nat
  BY <1>1, DataAre
<1>3. TJ!Fits(data.rows.train, 1, batch)
  BY <1>1, <1>2 DEF TJ!Fits
<1>4. backend = "mlx" => TJ!Fits(data.rows.valid, config.val_batches, batch)
  BY <1>1, <1>2, BatchesFit DEF TJ!ConfigIsWritten
<1>5. ~(config.mask_prompt /\ data.shape = "text")
  BY DEF TJ!ConfigIsWritten, TJ!Format
<1> QED
  BY <1>3, <1>4, <1>5 DEF TJ!Accepts

\* _safe_val_batches stays within the default of mlx-lm.
LEMMA BatchesAreFew ==
  ASSUME NEW valid \in Nat, batch \in Nat, valid = 0 \/ batch > 0
  PROVE  TJ!SafeValBatches(valid) \in 0 .. 25
<1>1. valid # 0 => valid \div batch \in Nat
  BY Quotient
<1> QED
  BY <1>1 DEF TJ!SafeValBatches, TJ!MinOf, TJ!MaxOf

-----------------------------------------------------------------------------
(* Where the curves end                                                    *)

\* A sequence ends on the same value of a name when events of other names follow.
LEMMA EndsBehind ==
  ASSUME NEW S, NEW s \in Seq(S), NEW t \in Seq(S), NEW name, NEW value, TJ!EndsOn(name, s, value),
         \A i \in DOMAIN t : t[i].name # name
  PROVE  TJ!EndsOn(name, s \o t, value)
<1>1. /\ s \o t \in Seq(S) /\ DOMAIN (s \o t) = 1 .. Len(s) + Len(t)
      /\ DOMAIN s = 1 .. Len(s) /\ DOMAIN t = 1 .. Len(t) /\ Len(s) \in Nat /\ Len(t) \in Nat
      /\ \A i \in 1 .. Len(s) : (s \o t)[i] = s[i]
      /\ \A i \in Len(s) + 1 .. Len(s) + Len(t) : (s \o t)[i] = t[i - Len(s)]
  OBVIOUS
<1> PICK u : u = s \o t
  OBVIOUS
<1>2. \A i \in DOMAIN u : i \in DOMAIN s \/ (i > Len(s) /\ u[i].name # name)
  BY <1>1
<1>3. CASE value = None /\ \A i \in DOMAIN s : s[i].name # name
  BY <1>1, <1>2, <1>3 DEF TJ!EndsOn
<1>4. ASSUME NEW i \in DOMAIN s, s[i].name = name, s[i].value = value,
             \A j \in DOMAIN s : j > i => s[j].name # name
      PROVE  TJ!EndsOn(name, u, value)
  <2>1. i \in DOMAIN u /\ u[i] = s[i]
    BY <1>1
  <2>2. \A j \in DOMAIN u : j > i => u[j].name # name
    BY <1>1, <1>2, <1>4
  <2> QED
    BY <1>4, <2>1, <2>2 DEF TJ!EndsOn
<1> QED
  BY <1>3, <1>4 DEF TJ!EndsOn

\* A sequence ends on the value of the first event that follows when no other of its name does.
LEMMA EndsOnNext ==
  ASSUME NEW S, NEW s \in Seq(S), NEW t \in Seq(S), t # <<>>, NEW name, t[1].name = name,
         \A i \in DOMAIN t : i > 1 => t[i].name # name
  PROVE  TJ!EndsOn(name, s \o t, t[1].value)
<1>1. /\ s \o t \in Seq(S) /\ DOMAIN (s \o t) = 1 .. Len(s) + Len(t)
      /\ DOMAIN s = 1 .. Len(s) /\ DOMAIN t = 1 .. Len(t) /\ Len(s) \in Nat /\ Len(t) \in Nat
      /\ \A i \in 1 .. Len(s) : (s \o t)[i] = s[i]
      /\ \A i \in Len(s) + 1 .. Len(s) + Len(t) : (s \o t)[i] = t[i - Len(s)]
      /\ Len(t) > 0
  OBVIOUS
<1> PICK u : u = s \o t
  OBVIOUS
<1> PICK n \in Nat : n = Len(s) + 1
  BY <1>1
<1>2. n \in DOMAIN u /\ u[n] = t[1]
  BY <1>1
<1>3. \A j \in DOMAIN u : j > n => u[j].name # name
  BY <1>1
<1> QED
  BY <1>2, <1>3 DEF TJ!EndsOn

-----------------------------------------------------------------------------
(* What a line leaves                                                      *)

\* A line is posted as it is printed, with three metrics behind it or none; or
\* nothing of it is, when it is no metric or no number.
LEMMA SentOfLine ==
  ASSUME TJ!TypeOK, NEW line \in Lines, line.name = "other" \/ line.value \in Values \cup {NotANumber},
         NEW sent, sent = TJ!Sent(TJ!Parse(line))
  PROVE  /\ sent \in Seq(Points)
         /\ line.name = "other" \/ line.value = NotANumber => sent = <<>>
         /\ line.name # "other" /\ line.value # NotANumber =>
              /\ sent # <<>> /\ sent[1] = line
              /\ \A i \in DOMAIN sent : i > 1 => sent[i].name \notin TJ!Losses
         /\ TJ!Parse(line) = <<>> <=> line.name = "other" \/ (backend = "mlx" /\ line.value = NotANumber)
<1>0. backend \in {"mlx", "cuda"}
  BY TrainTypes
<1>1. /\ line.step \in 0 .. Iters /\ line.name \in TJ!Losses \cup {"other"} /\ line.value \in TJ!Figures
      /\ line = [step |-> line.step, name |-> line.name, value |-> line.value]
  BY DEF Lines
<1> DEFINE e2 == TJ!Event(line.step, "learning_rate", TJ!SomeValue)
           e3 == TJ!Event(line.step, "iters_per_sec", TJ!SomeValue)
           e4 == TJ!Event(line.step, "tokens_per_sec", TJ!SomeValue)
<1>2. /\ e2 \in Points /\ e3 \in Points /\ e4 \in Points
      /\ e2.name \notin TJ!Losses /\ e3.name \notin TJ!Losses /\ e4.name \notin TJ!Losses
  BY <1>1, TrainBounds DEF Points, TJ!Event, TJ!Metrics, TJ!Losses
<1>3. TJ!Parse(line) = IF line.name = "other" \/ (backend = "mlx" /\ line.value = NotANumber) THEN <<>>
                       ELSE IF line.name = "train_loss" /\ backend = "mlx" THEN <<line, e2, e3, e4>> ELSE <<line>>
  BY Zenon DEF TJ!Parse
<1> HIDE DEF e2, e3, e4
<1>4. line.name # "other" /\ line.value # NotANumber => line \in Points
  BY <1>1 DEF Points, TJ!Metrics, TJ!Losses
<1>5. CASE line.name = "other" \/ (backend = "mlx" /\ line.value = NotANumber)
  <2>1. TJ!Parse(line) = <<>>
    BY <1>3, <1>5
  <2>2. sent = <<>>
    BY <2>1 DEF TJ!Sent
  <2>3. sent \in Seq(Points)
    BY <2>2
  <2> QED
    BY <1>5, <2>1, <2>2, <2>3, Zenon
<1>6. CASE line.name # "other" /\ line.value # NotANumber
  <2>1. TJ!Encodes({line.value})
    BY <1>6 DEF TJ!Encodes
  <2>2. CASE TJ!Parse(line) = <<line, e2, e3, e4>>
    <3>1. Head(<<line, e2, e3, e4>>) = line /\ <<line, e2, e3, e4>> # <<>>
      OBVIOUS
    <3>2. sent = <<line, e2, e3, e4>>
      BY <2>1, <2>2, <3>1 DEF TJ!Sent
    <3>3. sent \in Seq(Points)
      BY <1>2, <1>4, <1>6, <3>2
    <3>4. \A i \in DOMAIN sent : i > 1 => sent[i].name \notin TJ!Losses
      BY <1>2, <3>2
    <3>5. sent # <<>> /\ sent[1] = line
      BY <3>2
    <3> QED
      BY <1>6, <2>2, <3>1, <3>3, <3>4, <3>5, Zenon
  <2>3. CASE TJ!Parse(line) = <<line>>
    <3>1. Head(<<line>>) = line /\ <<line>> # <<>>
      OBVIOUS
    <3>2. sent = <<line>>
      BY <2>1, <2>3, <3>1 DEF TJ!Sent
    <3>3. sent \in Seq(Points) /\ \A i \in DOMAIN sent : i > 1 => sent[i].name \notin TJ!Losses
      BY <1>4, <1>6, <3>2
    <3> QED
      BY <1>6, <2>3, <3>1, <3>2, <3>3
  <2> QED
    BY <1>3, <1>6, <2>2, <2>3
<1>7. CASE line.name # "other" /\ line.value = NotANumber /\ backend = "cuda"
  <2>1. TJ!Parse(line) = <<line>>
    BY <1>3, <1>7
  <2>2. Head(<<line>>) = line /\ <<line>> # <<>> /\ Tail(<<line>>) = <<>>
    OBVIOUS
  <2>3. ~TJ!Encodes({line.value})
    BY <1>7 DEF TJ!Encodes
  <2>4. sent = <<>>
    BY <2>1, <2>2, <2>3 DEF TJ!Sent
  <2> QED
    BY <1>7, <2>1, <2>2, <2>4
<1> QED
  BY <1>0, <1>5, <1>6, <1>7

\* The events arrive, all of them but for a fault.
LEMMA PostLeaves ==
  ASSUME TJ!TypeOK, NEW events, TJ!Post(events), NEW sent \in Seq(Points), sent = TJ!Sent(events)
  PROVE  /\ curve' \in Seq(Points) /\ lost' \in 0 .. MaxLost
         /\ (lost' = lost /\ curve' = curve \o sent) \/ lost' > 0
<1>1. curve \in Seq(Points) /\ lost \in 0 .. MaxLost
  BY TrainTypes
<1>2. \/ curve' = curve \o sent /\ lost' = lost
      \/ \E i \in 1 .. Len(sent) :
           lost < MaxLost /\ lost' = lost + 1 /\ curve' = curve \o TJ!RemoveAt(sent, i)
  BY Zenon DEF TJ!Post, TJ!MayFail
<1>3. CASE curve' = curve \o sent /\ lost' = lost
  BY <1>1, <1>3
<1>4. ASSUME NEW i \in 1 .. Len(sent), lost < MaxLost, lost' = lost + 1, curve' = curve \o TJ!RemoveAt(sent, i)
      PROVE  curve' \in Seq(Points) /\ lost' \in 0 .. MaxLost /\ lost' > 0
  <2>1. TJ!RemoveAt(sent, i) \in Seq(Points)
    BY DEF TJ!RemoveAt
  <2> QED
    BY <1>1, <1>4, <2>1, TrainBounds
<1> QED
  BY <1>2, <1>3, <1>4

\* A report arrives, unless a loss is no number or the request is lost.
LEMMA PatchLeaves ==
  ASSUME TJ!TypeOK, NEW said \in {"running", "failed", "completed"},
         NEW t \in TJ!Figures, NEW v \in TJ!Figures, NEW k \in Values \cup {None},
         TJ!Patch(TJ!Report(said, t, v, k))
  PROVE  /\ row' \in Reports /\ lost' \in 0 .. MaxLost /\ lost <= lost'
         /\ \/ row' = TJ!Report(said, t, v, k) /\ t # NotANumber /\ v # NotANumber
            \/ row' = row /\ (lost' > 0 \/ NotANumber \in {t, v})
<1>1. row \in Reports /\ lost \in 0 .. MaxLost /\ lost \in Nat
  BY TrainTypes, TrainBounds
<1> PICK r : r = TJ!Report(said, t, v, k) /\ r.train_loss = t /\ r.val_loss = v
  BY DEF TJ!Report
<1>2. \/ row' = r /\ TJ!Encodes({t, v}) /\ UNCHANGED lost
      \/ ~TJ!Encodes({t, v}) /\ UNCHANGED <<row, lost>>
      \/ lost < MaxLost /\ lost' = lost + 1 /\ UNCHANGED row
  BY DEF TJ!Patch, TJ!MayFail
<1>3. t # NotANumber /\ v # NotANumber => r \in Reports
  BY DEF TJ!Report, Reports, TJ!Figures
<1>4. TJ!Encodes({t, v}) <=> t # NotANumber /\ v # NotANumber
  BY DEF TJ!Encodes
<1> QED
  BY <1>1, <1>2, <1>3, <1>4, TrainBounds

-----------------------------------------------------------------------------
(* The steps                                                               *)

\* The type behind a step that emits nothing.
LEMMA TrainParts ==
  ASSUME TJ!IInv
  PROVE  /\ TJ!TypeOK /\ TJ!ConfigIsWritten /\ TJ!LossesAreHeld /\ TJ!CanaryIsLast /\ TJ!RowIsReported
         /\ backend \in {"mlx", "cuda"} /\ data \in Datasets /\ batch \in BatchSizes
         /\ trainPc \in Trainings /\ config \in Configs
         /\ finals \in [TJ!Losses -> TJ!Figures] /\ canary \in Values \cup {None}
         /\ curve \in Seq(Points) /\ row \in Reports /\ lost \in 0 .. MaxLost
         /\ printed \in Seq(Lines)
<1>1. TJ!TypeOK /\ TJ!ConfigIsWritten /\ TJ!LossesAreHeld /\ TJ!CanaryIsLast /\ TJ!RowIsReported
  BY Zenon DEF TJ!IInv
<1> QED
  BY <1>1, TrainTypes

\* The losses that are held, and what they follow, stay while nothing is printed or
\* posted of a loss.
LEMMA HeldStays ==
  ASSUME TJ!LossesAreHeld, UNCHANGED <<backend, finals, printed, curve>>, lost' = lost \/ lost' > 0
  PROVE  TJ!LossesAreHeld'
<1>1. \A name \in TJ!Losses :
        /\ TJ!EndsOn(name, printed', finals'[name]) <=> TJ!EndsOn(name, printed, finals[name])
        /\ TJ!EndsOn(name, curve', finals'[name]) <=> TJ!EndsOn(name, curve, finals[name])
        /\ TJ!Diverged(name)' <=> TJ!Diverged(name)
  BY Zenon DEF TJ!Diverged
<1> QED
  BY <1>1 DEF TJ!LossesAreHeld, TJ!Losses

\* A step that prints and posts nothing.
LEMMA QuietStep ==
  ASSUME TJ!IInv, UNCHANGED <<backend, data, batch, finals, printed, curve>>,
         trainPc' \in Trainings, config' \in Configs, canary' \in Values \cup {None}, row' \in Reports,
         lost' \in 0 .. MaxLost, lost' = lost \/ lost' > 0,
         TJ!ConfigIsWritten', TJ!CanaryIsLast', TJ!RowIsReported'
  PROVE  TJ!IInv'
<1>1. TJ!TypeOK'
  BY TrainParts, TrainTypesBehind
<1>2. TJ!LossesAreHeld'
  BY TrainParts, HeldStays
<1> QED
  BY <1>1, <1>2, Zenon DEF TJ!IInv

\* The configuration stays as written while it and the run stay.
LEMMA ConfigStays ==
  ASSUME TJ!ConfigIsWritten, UNCHANGED <<backend, data, batch, config>>,
         trainPc' \in {"command", "train", "canary", "post", "report"} =>
           trainPc \in {"command", "train", "canary", "post", "report"}
  PROVE  TJ!ConfigIsWritten'
<1>1. TJ!SafeValBatches(data.rows.valid)' = TJ!SafeValBatches(data.rows.valid)
  BY Zenon DEF TJ!SafeValBatches
<1> QED
  BY <1>1 DEF TJ!ConfigIsWritten

\* write_config.
LEMMA ConfigHolds ==
  ASSUME TJ!IInv, TJ!WriteConfig PROVE TJ!IInv'
<1>0. /\ TJ!TypeOK /\ TJ!CanaryIsLast /\ TJ!RowIsReported /\ data \in Datasets /\ batch \in BatchSizes
      /\ trainPc \in Trainings /\ config \in Configs
      /\ canary \in Values \cup {None} /\ row \in Reports /\ lost \in 0 .. MaxLost
  BY TrainParts
<1>1. /\ trainPc = "config" /\ TJ!Divides /\ trainPc' = "command"
      /\ config' = [val_batches |-> IF backend = "mlx" THEN TJ!SafeValBatches(data.rows.valid) ELSE 0,
                    mask_prompt |-> TJ!Format(data.shape) = "chat"]
      /\ UNCHANGED <<backend, data, batch, finals, printed, curve>> /\ UNCHANGED <<canary, row, lost>>
  BY Zenon DEF TJ!WriteConfig
<1>2. config' \in Configs
  <2>1. backend = "mlx" => TJ!SafeValBatches(data.rows.valid) \in 0 .. 25
    BY <1>0, <1>1, DataAre, TrainBounds, BatchesAreFew DEF TJ!Divides
  <2> QED
    BY <1>1, <2>1 DEF Configs
<1>3. TJ!ConfigIsWritten'
  <2>1. TJ!SafeValBatches(data.rows.valid)' = TJ!SafeValBatches(data.rows.valid)
    BY <1>1, Zenon DEF TJ!SafeValBatches
  <2>2. /\ backend = "mlx" => config'.val_batches = TJ!SafeValBatches(data.rows.valid)
        /\ config'.mask_prompt = (TJ!Format(data.shape) = "chat")
    BY <1>1
  <2> QED
    BY <1>1, <2>1, <2>2 DEF TJ!ConfigIsWritten
<1>4. TJ!CanaryIsLast'
  BY <1>0, <1>1 DEF TJ!CanaryIsLast
<1>5. TJ!RowIsReported'
  BY <1>0, <1>1 DEF TJ!RowIsReported, TJ!VerdictIsReported
<1>6. trainPc' \in Trainings /\ canary' \in Values \cup {None} /\ row' \in Reports /\ lost' \in 0 .. MaxLost
  BY <1>0, <1>1 DEF Trainings
<1> QED
  BY <1>1, <1>2, <1>3, <1>4, <1>5, <1>6, QuietStep

\* The training starts, ends well or raises before it starts.
LEMMA StartHolds ==
  ASSUME TJ!IInv, TJ!Raise \/ TJ!BuildCommand \/ TJ!ExitDone PROVE TJ!IInv'
<1>0. /\ TJ!TypeOK /\ TJ!ConfigIsWritten /\ TJ!CanaryIsLast /\ TJ!RowIsReported /\ config \in Configs
      /\ canary \in Values \cup {None} /\ row \in Reports /\ lost \in 0 .. MaxLost
  BY TrainParts
<1>1. /\ UNCHANGED <<backend, data, batch, finals, printed, curve>> /\ UNCHANGED config /\ UNCHANGED canary
      /\ \/ trainPc \in {"config", "command"} /\ trainPc' = "raised"
         \/ trainPc = "command" /\ trainPc' = "train"
         \/ trainPc = "train" /\ trainPc' = "canary"
  BY Zenon DEF TJ!Raise, TJ!BuildCommand, TJ!ExitDone
<1>2. UNCHANGED <<row, lost>> \/ TJ!Patch(TJ!Report("running", None, None, None))
  BY Zenon DEF TJ!Raise, TJ!BuildCommand, TJ!ExitDone
<1>3. /\ row' \in Reports /\ lost' \in 0 .. MaxLost /\ lost <= lost'
      /\ row' = row \/ row' = TJ!Report("running", None, None, None)
  <2>1. CASE UNCHANGED <<row, lost>>
    BY <1>0, <2>1, TrainBounds
  <2>2. CASE TJ!Patch(TJ!Report("running", None, None, None))
    <3>1. None \in TJ!Figures /\ None \in Values \cup {None} /\ "running" \in {"running", "failed", "completed"}
      BY DEF TJ!Figures
    <3>2. row' \in Reports
      BY <1>0, <2>2, <3>1, PatchLeaves
    <3>3. lost' \in 0 .. MaxLost /\ lost <= lost'
      BY <1>0, <2>2, <3>1, PatchLeaves
    <3>4. row' = row \/ row' = TJ!Report("running", None, None, None)
      BY <1>0, <2>2, <3>1, PatchLeaves
    <3> QED
      BY <3>2, <3>3, <3>4
  <2> QED
    BY <1>2, <2>1, <2>2
<1>4. lost' = lost \/ lost' > 0
  BY <1>0, <1>3, TrainBounds
<1>5. TJ!ConfigIsWritten'
  BY <1>0, <1>1, ConfigStays
<1>6. TJ!CanaryIsLast'
  BY <1>0, <1>1 DEF TJ!CanaryIsLast
<1>7. TJ!RowIsReported'
  <2>1. row.status = "running"
    BY <1>0, <1>1 DEF TJ!RowIsReported
  <2>2. row'.status = "running"
    BY <1>3, <2>1 DEF TJ!Report
  <2> QED
    BY <1>1, <2>2 DEF TJ!RowIsReported, TJ!VerdictIsReported
<1>8. trainPc' \in Trainings /\ config' \in Configs /\ canary' \in Values \cup {None}
  BY <1>0, <1>1 DEF Trainings
<1> QED
  BY <1>1, <1>3, <1>4, <1>5, <1>6, <1>7, <1>8, QuietStep

\* The training fails.
LEMMA FailHolds ==
  ASSUME TJ!IInv, TJ!NoToolchain \/ TJ!ExitFailed PROVE TJ!IInv'
<1>0. /\ TJ!TypeOK /\ TJ!ConfigIsWritten /\ TJ!CanaryIsLast /\ TJ!RowIsReported /\ config \in Configs
      /\ canary \in Values \cup {None} /\ row \in Reports /\ lost \in 0 .. MaxLost
  BY TrainParts
<1>1. /\ UNCHANGED <<backend, data, batch, finals, printed, curve>> /\ UNCHANGED config /\ UNCHANGED canary
      /\ trainPc \in {"command", "train"} /\ trainPc' = "done"
      /\ TJ!Patch(TJ!Report("failed", None, None, None))
  BY Zenon DEF TJ!NoToolchain, TJ!ExitFailed
<1>2. None \in TJ!Figures /\ None \in Values \cup {None} /\ "failed" \in {"running", "failed", "completed"}
  BY DEF TJ!Figures
<1>3. row' \in Reports
  BY <1>0, <1>1, <1>2, PatchLeaves
<1>4. lost' \in 0 .. MaxLost /\ lost <= lost'
  BY <1>0, <1>1, <1>2, PatchLeaves
<1>5. \/ row' = TJ!Report("failed", None, None, None)
      \/ row' = row /\ (lost' > 0 \/ NotANumber \in {None, None})
  BY <1>0, <1>1, <1>2, PatchLeaves
<1>6. lost' = lost \/ lost' > 0
  BY <1>0, <1>4, TrainBounds
<1>7. TJ!ConfigIsWritten'
  BY <1>0, <1>1, ConfigStays
<1>8. TJ!CanaryIsLast'
  BY <1>0, <1>1 DEF TJ!CanaryIsLast
<1>9. TJ!RowIsReported'
  <2>1. row.status = "running"
    BY <1>0, <1>1 DEF TJ!RowIsReported
  <2>2. row'.status = "failed" \/ (row'.status = "running" /\ lost' > 0)
    BY <1>5, <2>1, TrainBounds DEF TJ!Report
  <2> QED
    BY <1>1, <2>2 DEF TJ!RowIsReported, TJ!VerdictIsReported
<1>10. trainPc' \in Trainings /\ config' \in Configs /\ canary' \in Values \cup {None}
  BY <1>0, <1>1 DEF Trainings
<1> QED
  BY <1>1, <1>3, <1>4, <1>6, <1>7, <1>8, <1>9, <1>10, QuietStep

\* The canary evaluation.
LEMMA EvalHolds ==
  ASSUME TJ!IInv, NEW value \in Values \cup {None}, TJ!EvalCanary(value) PROVE TJ!IInv'
<1>0. /\ TJ!TypeOK /\ TJ!ConfigIsWritten /\ TJ!CanaryIsLast /\ TJ!RowIsReported /\ config \in Configs
      /\ row \in Reports /\ lost \in 0 .. MaxLost
  BY TrainParts
<1>1. /\ UNCHANGED <<backend, data, batch, finals, printed, curve>> /\ UNCHANGED <<config, row, lost>>
      /\ trainPc = "canary" /\ canary' = value /\ trainPc' = IF value = None THEN "report" ELSE "post"
      /\ value # None => TJ!HasCanary
  BY Zenon DEF TJ!EvalCanary
<1>2. TJ!ConfigIsWritten'
  BY <1>0, <1>1, ConfigStays
<1>3. TJ!CanaryIsLast'
  <2>1. value # None => TJ!HasCanary'
    BY <1>1, Zenon DEF TJ!HasCanary
  <2> QED
    BY <1>1, <2>1 DEF TJ!CanaryIsLast
<1>4. TJ!RowIsReported'
  BY <1>0, <1>1 DEF TJ!RowIsReported, TJ!VerdictIsReported
<1>5. trainPc' \in Trainings /\ config' \in Configs /\ canary' \in Values \cup {None} /\ row' \in Reports
      /\ lost' \in 0 .. MaxLost /\ (lost' = lost \/ lost' > 0)
  BY <1>0, <1>1 DEF Trainings
<1> QED
  BY <1>1, <1>2, <1>3, <1>4, <1>5, QuietStep

\* The last report.
LEMMA DoneHolds ==
  ASSUME TJ!IInv, TJ!ReportDone PROVE TJ!IInv'
<1>0. /\ TJ!TypeOK /\ TJ!ConfigIsWritten /\ TJ!LossesAreHeld /\ TJ!CanaryIsLast /\ TJ!RowIsReported
      /\ backend \in {"mlx", "cuda"} /\ config \in Configs
      /\ finals \in [TJ!Losses -> TJ!Figures]
      /\ canary \in Values \cup {None} /\ row \in Reports /\ lost \in 0 .. MaxLost
  BY TrainParts
<1>1. /\ UNCHANGED <<backend, data, batch, finals, printed, curve>> /\ UNCHANGED config /\ UNCHANGED canary
      /\ trainPc = "report" /\ trainPc' = "done"
      /\ TJ!Patch(TJ!Report("completed", finals["train_loss"], finals["val_loss"], canary))
  BY Zenon DEF TJ!ReportDone
<1>2. PICK t \in TJ!Figures, v \in TJ!Figures, k \in Values \cup {None} :
        t = finals["train_loss"] /\ v = finals["val_loss"] /\ k = canary
  BY <1>0 DEF TJ!Losses
<1>3. TJ!Patch(TJ!Report("completed", t, v, k)) /\ "completed" \in {"running", "failed", "completed"}
  BY <1>1, <1>2
<1>4. row' \in Reports
  BY <1>0, <1>3, PatchLeaves
<1>5. lost' \in 0 .. MaxLost /\ lost <= lost'
  BY <1>0, <1>3, PatchLeaves
<1>6. \/ row' = TJ!Report("completed", t, v, k)
      \/ row' = row /\ (lost' > 0 \/ NotANumber \in {t, v})
  BY <1>0, <1>3, PatchLeaves
<1>7. lost' = lost \/ lost' > 0
  BY <1>0, <1>5, TrainBounds
<1>8. TJ!ConfigIsWritten'
  BY <1>0, <1>1, ConfigStays
<1>9. TJ!CanaryIsLast'
  <2>1. TJ!HasCanary' <=> TJ!HasCanary
    BY <1>1, Zenon DEF TJ!HasCanary
  <2>2. (lost > 0 => lost' > 0) /\ TJ!Last(curve)' = TJ!Last(curve)
    BY <1>0, <1>1, <1>5, TrainBounds DEF TJ!Last
  <2> QED
    BY <1>0, <1>1, <2>1, <2>2 DEF TJ!CanaryIsLast
<1>10. TJ!RowIsReported'
  <2>1. row.status = "running"
    BY <1>0, <1>1 DEF TJ!RowIsReported
  <2>2. CASE row' = TJ!Report("completed", t, v, k)
    <3>1. row'.status = "completed" /\ row' = TJ!Report("completed", finals'["train_loss"], finals'["val_loss"], canary')
      BY <1>1, <1>2, <2>2 DEF TJ!Report
    <3> QED
      BY <1>1, <3>1 DEF TJ!RowIsReported, TJ!VerdictIsReported
  <2>3. CASE row' = row /\ (lost' > 0 \/ NotANumber \in {t, v})
    <3>1. NotANumber \in {t, v} => backend = "cuda" /\ NotANumber \in TJ!Range(finals)
      BY <1>0, <1>2 DEF TJ!LossesAreHeld, TJ!Losses, TJ!Range
    <3>2. TJ!Range(finals') = TJ!Range(finals) /\ backend' = backend
      BY <1>1
    <3> QED
      BY <1>1, <2>1, <2>3, <3>1, <3>2 DEF TJ!RowIsReported, TJ!VerdictIsReported
  <2> QED
    BY <1>6, <2>2, <2>3
<1>11. trainPc' \in Trainings /\ config' \in Configs /\ canary' \in Values \cup {None}
  BY <1>0, <1>1 DEF Trainings
<1> QED
  BY <1>1, <1>4, <1>5, <1>7, <1>8, <1>9, <1>10, <1>11, QuietStep

\* The loss of the canary evaluation is posted.
LEMMA PostHolds ==
  ASSUME TJ!IInv, TJ!PostCanary PROVE TJ!IInv'
<1>0. /\ TJ!TypeOK /\ TJ!ConfigIsWritten /\ TJ!LossesAreHeld /\ TJ!CanaryIsLast /\ TJ!RowIsReported
      /\ backend \in {"mlx", "cuda"} /\ data \in Datasets /\ batch \in BatchSizes /\ config \in Configs
      /\ finals \in [TJ!Losses -> TJ!Figures] /\ canary \in Values \cup {None}
      /\ curve \in Seq(Points) /\ row \in Reports /\ lost \in 0 .. MaxLost /\ printed \in Seq(Lines)
  BY TrainParts
<1>1. /\ UNCHANGED <<backend, data, batch, finals, printed>> /\ UNCHANGED <<config, canary, row>>
      /\ trainPc = "post" /\ trainPc' = "report"
      /\ TJ!Post(<<TJ!Event(Iters, "canary_loss", canary)>>)
  BY Zenon DEF TJ!PostCanary
<1>2. canary \in Values /\ canary # None
  BY <1>0, <1>1 DEF TJ!CanaryIsLast
<1>e. TJ!Event(Iters, "canary_loss", canary) \in Points
  BY <1>2, TrainBounds DEF Points, TJ!Event, TJ!Metrics
<1>3. PICK e \in Points : e = TJ!Event(Iters, "canary_loss", canary)
  BY <1>e, Zenon
<1>4. e.name = "canary_loss" /\ e.value = canary /\ e.name \notin TJ!Losses
  BY <1>3 DEF TJ!Event, TJ!Losses
<1>t. <<e>> \in Seq(Points)
  OBVIOUS
<1>5. PICK t \in Seq(Points) : t = <<e>>
  BY <1>t, Zenon
<1>6. TJ!Sent(t) = t
  <2>1. Head(t) = e /\ TJ!Encodes({e.value})
    BY <1>2, <1>4, <1>5, TrainBounds DEF TJ!Encodes
  <2> QED
    BY <2>1 DEF TJ!Sent
<1>7. TJ!Post(t)
  BY <1>1, <1>3, <1>5
<1>8. curve' \in Seq(Points) /\ lost' \in 0 .. MaxLost
  BY <1>0, <1>6, <1>7, PostLeaves
<1>9. (lost' = lost /\ curve' = curve \o t) \/ lost' > 0
  BY <1>0, <1>6, <1>7, PostLeaves
<1>10. TJ!LossesAreHeld'
  <2> SUFFICES ASSUME NEW name \in TJ!Losses
               PROVE  /\ TJ!EndsOn(name, printed', finals'[name]) \/ (backend' = "mlx" /\ TJ!Diverged(name)')
                      /\ \/ TJ!EndsOn(name, curve', finals'[name]) \/ lost' > 0
                         \/ (backend' = "cuda" /\ TJ!Diverged(name)')
                      /\ backend' = "mlx" => finals'[name] # NotANumber
    BY DEF TJ!LossesAreHeld, TJ!Losses
  <2>1. /\ TJ!EndsOn(name, printed, finals[name]) \/ (backend = "mlx" /\ TJ!Diverged(name))
        /\ TJ!EndsOn(name, curve, finals[name]) \/ lost > 0 \/ (backend = "cuda" /\ TJ!Diverged(name))
        /\ backend = "mlx" => finals[name] # NotANumber
    BY <1>0 DEF TJ!LossesAreHeld
  <2>2. TJ!Diverged(name)' <=> TJ!Diverged(name)
    BY <1>1, Zenon DEF TJ!Diverged
  <2>3. CASE lost' = lost /\ curve' = curve \o t
    <3> PICK s \in Seq(Points), f \in TJ!Figures : s = curve /\ f = finals[name]
      BY <1>0
    <3>1. \A i \in DOMAIN t : t[i].name # name
      BY <1>4, <1>5
    <3>2. TJ!EndsOn(name, s, f) => TJ!EndsOn(name, s \o t, f)
      BY <3>1, EndsBehind
    <3>3. TJ!EndsOn(name, curve, finals[name]) => TJ!EndsOn(name, curve', finals'[name])
      BY <1>1, <2>3, <3>2
    <3> QED
      BY <1>1, <2>1, <2>2, <2>3, <3>3, Zenon
  <2>4. CASE lost' > 0
    BY <1>1, <2>1, <2>2, <2>4, Zenon
  <2> QED
    BY <1>9, <2>3, <2>4
<1>11. TJ!CanaryIsLast'
  <2>1. TJ!HasCanary' <=> TJ!HasCanary
    BY <1>1, Zenon DEF TJ!HasCanary
  <2>2. lost' > 0 \/ (curve' # <<>> /\ TJ!Last(curve') = e)
    BY <1>0, <1>5, <1>9 DEF TJ!Last
  <2> QED
    BY <1>0, <1>1, <1>3, <2>1, <2>2 DEF TJ!CanaryIsLast, TJ!Last
<1>12. TJ!RowIsReported'
  BY <1>0, <1>1 DEF TJ!RowIsReported, TJ!VerdictIsReported
<1>13. TJ!ConfigIsWritten'
  BY <1>0, <1>1, ConfigStays
<1>14. TJ!TypeOK'
  <2>1. trainPc' \in Trainings
    BY <1>1 DEF Trainings
  <2> QED
    BY <1>0, <1>1, <1>8, <2>1, TrainTypesBehind
<1> QED
  BY <1>10, <1>11, <1>12, <1>13, <1>14, Zenon DEF TJ!IInv

\* A line is printed, read and posted.
LEMMA EmitHolds ==
  ASSUME TJ!IInv, NEW name \in TJ!Losses \cup {"other"}, NEW value \in TJ!Figures,
         name = "other" \/ value \in Values \cup {NotANumber}, TJ!Emit(name, value)
  PROVE  TJ!IInv'
<1>0. /\ TJ!TypeOK /\ TJ!ConfigIsWritten /\ TJ!LossesAreHeld /\ TJ!CanaryIsLast /\ TJ!RowIsReported
      /\ backend \in {"mlx", "cuda"} /\ data \in Datasets /\ batch \in BatchSizes /\ config \in Configs
      /\ finals \in [TJ!Losses -> TJ!Figures] /\ canary \in Values \cup {None}
      /\ curve \in Seq(Points) /\ row \in Reports /\ lost \in 0 .. MaxLost /\ printed \in Seq(Lines)
      /\ trainPc \in Trainings
  BY TrainParts
<1>1. UNCHANGED <<backend, data, batch>> /\ UNCHANGED <<trainPc, config, canary, row>> /\ trainPc = "train"
  BY Zenon DEF TJ!Emit
<1>2. PICK step \in 1 .. Iters :
        /\ printed' = Append(printed, TJ!Event(step, name, value))
        /\ finals' = IF name \in TJ!Losses /\ TJ!Parse(TJ!Event(step, name, value)) # <<>>
                     THEN [finals EXCEPT ![name] = value] ELSE finals
        /\ TJ!Post(TJ!Parse(TJ!Event(step, name, value)))
  BY Zenon DEF TJ!Emit
<1>a. TJ!Event(step, name, value) \in Lines
  BY TrainBounds DEF Lines, TJ!Event
<1>3. PICK line \in Lines : line = TJ!Event(step, name, value)
  BY <1>a, Zenon
<1>4. line.name = name /\ line.value = value
  BY <1>3 DEF TJ!Event
<1>b. line.name = "other" \/ line.value \in Values \cup {NotANumber}
  BY <1>4
<1> PICK sent : sent = TJ!Sent(TJ!Parse(line))
  OBVIOUS
<1>5. sent \in Seq(Points)
  BY <1>0, <1>b, SentOfLine
<1>6. name = "other" \/ value = NotANumber => sent = <<>>
  BY <1>0, <1>b, <1>4, SentOfLine
<1>7. name # "other" /\ value # NotANumber =>
        /\ sent # <<>> /\ sent[1] = line
        /\ \A i \in DOMAIN sent : i > 1 => sent[i].name \notin TJ!Losses
  BY <1>0, <1>b, <1>4, SentOfLine
<1>8. TJ!Parse(line) = <<>> <=> name = "other" \/ (backend = "mlx" /\ value = NotANumber)
  BY <1>0, <1>b, <1>4, SentOfLine
<1>9. TJ!Post(TJ!Parse(line)) /\ printed' = Append(printed, line)
  BY <1>2, <1>3
<1>10. curve' \in Seq(Points) /\ lost' \in 0 .. MaxLost
  BY <1>0, <1>5, <1>9, PostLeaves
<1>11. (lost' = lost /\ curve' = curve \o sent) \/ lost' > 0
  BY <1>0, <1>5, <1>9, PostLeaves
<1>12. "other" \notin TJ!Losses
  BY DEF TJ!Losses
<1>13. /\ finals' \in [TJ!Losses -> TJ!Figures]
       /\ \A l \in TJ!Losses : l # name => finals'[l] = finals[l]
       /\ (name # "other" /\ ~(backend = "mlx" /\ value = NotANumber)) => finals'[name] = value
       /\ backend = "mlx" /\ value = NotANumber => finals' = finals
  BY <1>0, <1>2, <1>3, <1>8, <1>12
<1>14. TJ!LossesAreHeld'
  <2> SUFFICES ASSUME NEW l \in TJ!Losses
               PROVE  /\ TJ!EndsOn(l, printed', finals'[l]) \/ (backend' = "mlx" /\ TJ!Diverged(l)')
                      /\ \/ TJ!EndsOn(l, curve', finals'[l]) \/ lost' > 0
                         \/ (backend' = "cuda" /\ TJ!Diverged(l)')
                      /\ backend' = "mlx" => finals'[l] # NotANumber
    BY DEF TJ!LossesAreHeld, TJ!Losses
  <2>1. /\ TJ!EndsOn(l, printed, finals[l]) \/ (backend = "mlx" /\ TJ!Diverged(l))
        /\ TJ!EndsOn(l, curve, finals[l]) \/ lost > 0 \/ (backend = "cuda" /\ TJ!Diverged(l))
        /\ backend = "mlx" => finals[l] # NotANumber
    BY <1>0 DEF TJ!LossesAreHeld
  <2>a. <<line>> \in Seq(Lines)
    OBVIOUS
  <2> PICK p \in Seq(Lines), s \in Seq(Points), f \in TJ!Figures : p = printed /\ s = curve /\ f = finals[l]
    BY <1>0
  <2> PICK t \in Seq(Lines) : t = <<line>>
    BY <2>a, Zenon
  <2>2. printed' = p \o t /\ t # <<>> /\ t[1] = line /\ DOMAIN t = {1}
    BY <1>9
  <2>3. TJ!Diverged(l)' <=> TJ!Diverged(l) \/ (l = name /\ value = NotANumber)
    <3>1. /\ DOMAIN printed' = DOMAIN printed \cup {Len(printed) + 1}
          /\ \A i \in DOMAIN printed : printed'[i] = printed[i]
          /\ printed'[Len(printed) + 1] = line
      BY <1>0, <1>9
    <3> QED
      BY <1>4, <3>1 DEF TJ!Diverged
  <2>4. CASE l # name
    <3>1. TJ!EndsOn(l, p, f) => TJ!EndsOn(l, p \o t, f)
      <4>1. \A i \in DOMAIN t : t[i].name # l
        BY <1>4, <2>2, <2>4
      <4> QED
        BY <4>1, EndsBehind
    <3>2. TJ!EndsOn(l, s, f) => TJ!EndsOn(l, s \o sent, f)
      <4>1. \A i \in DOMAIN sent : sent[i].name # l
        <5>1. CASE sent = <<>>
          BY <5>1
        <5>2. CASE sent # <<>>
          <6>1. \A i \in DOMAIN sent : i = 1 \/ i > 1
            BY <1>5
          <6> QED
            BY <1>4, <1>6, <1>7, <2>4, <5>2, <6>1
        <5> QED
          BY <5>1, <5>2
      <4> QED
        BY <1>5, <4>1, EndsBehind
    <3>3. finals'[l] = f
      BY <1>13, <2>4
    <3>4. TJ!EndsOn(l, curve, f) => TJ!EndsOn(l, curve', f) \/ lost' > 0
      BY <1>11, <3>2
    <3>5. lost > 0 => lost' > 0
      BY <1>0, <1>11, TrainBounds
    <3>6. TJ!EndsOn(l, printed, f) => TJ!EndsOn(l, printed', f)
      BY <2>2, <3>1
    <3> QED
      BY <1>1, <2>1, <2>3, <3>3, <3>4, <3>5, <3>6
  <2>5. CASE l = name /\ value = NotANumber /\ backend = "mlx"
    <3>1. finals'[l] = f /\ TJ!Diverged(l)'
      BY <1>13, <2>3, <2>5
    <3>2. curve' = curve \/ lost' > 0
      BY <1>0, <1>6, <1>11, <2>5, SMT
    <3>3. lost > 0 => lost' > 0
      BY <1>0, <1>11, TrainBounds
    <3> QED
      BY <1>1, <2>1, <2>3, <2>5, <3>1, <3>2, <3>3
  <2>6. CASE l = name /\ ~(value = NotANumber /\ backend = "mlx")
    <3>1. finals'[l] = value
      BY <1>12, <1>13, <2>6
    <3>2. TJ!EndsOn(l, p \o t, t[1].value)
      <4>1. t[1].name = l /\ \A i \in DOMAIN t : i > 1 => t[i].name # l
        BY <1>4, <2>2, <2>6
      <4> QED
        BY <2>2, <4>1, EndsOnNext
    <3>3. TJ!EndsOn(l, printed', finals'[l])
      BY <1>4, <2>2, <3>1, <3>2
    <3>4. CASE value = NotANumber
      BY <1>0, <1>1, <2>3, <2>6, <3>3, <3>4
    <3>5. CASE value # NotANumber
      <4>1. sent # <<>> /\ sent[1].name = l /\ sent[1].value = value
            /\ \A i \in DOMAIN sent : i > 1 => sent[i].name # l
        BY <1>4, <1>7, <1>12, <2>6, <3>5
      <4>2. TJ!EndsOn(l, s \o sent, sent[1].value)
        BY <1>5, <4>1, EndsOnNext
      <4>3. TJ!EndsOn(l, curve', finals'[l]) \/ lost' > 0
        BY <1>11, <3>1, <4>1, <4>2
      <4> QED
        BY <3>1, <3>3, <3>5, <4>3
    <3> QED
      BY <3>4, <3>5
  <2> QED
    BY <2>4, <2>5, <2>6
<1>15. TJ!CanaryIsLast'
  BY <1>0, <1>1 DEF TJ!CanaryIsLast
<1>16. TJ!RowIsReported'
  BY <1>0, <1>1 DEF TJ!RowIsReported, TJ!VerdictIsReported
<1>17. TJ!ConfigIsWritten'
  BY <1>0, <1>1, ConfigStays
<1>18. TJ!TypeOK'
  <2>1. printed' \in Seq(Lines)
    BY <1>0, <1>9
  <2> QED
    BY <1>0, <1>1, <1>10, <1>13, <2>1, TrainTypesBehind
<1> QED
  BY <1>14, <1>15, <1>16, <1>17, <1>18, Zenon DEF TJ!IInv

\* Nothing is configured, printed or posted at first.
LEMMA TrainInit == TJ!Init => TJ!IInv
<1> SUFFICES ASSUME TJ!Init PROVE TJ!IInv
  OBVIOUS
<1>1. /\ backend \in {"mlx", "cuda"} /\ data \in Datasets /\ batch \in BatchSizes
      /\ trainPc = "config" /\ config = [val_batches |-> 0, mask_prompt |-> FALSE]
      /\ finals = [l \in TJ!Losses |-> None] /\ canary = None /\ curve = <<>>
      /\ row = TJ!Report("running", None, None, None) /\ lost = 0 /\ printed = <<>>
  BY Zenon DEF TJ!Init
<1>2. TJ!TypeOK
  <2>1. trainPc \in Trainings /\ config \in Configs /\ row \in Reports
    BY <1>1 DEF Trainings, Configs, Reports, TJ!Report
  <2>2. finals \in [TJ!Losses -> TJ!Figures] /\ canary \in Values \cup {None} /\ lost \in 0 .. MaxLost
    BY <1>1, TrainBounds DEF TJ!Figures
  <2>3. curve \in Seq(Points) /\ printed \in Seq(Lines)
    BY <1>1
  <2> QED
    BY <1>1, <2>1, <2>2, <2>3, TrainTypes
<1>3. TJ!ConfigIsWritten /\ TJ!CanaryIsLast
  BY <1>1 DEF TJ!ConfigIsWritten, TJ!CanaryIsLast
<1>4. TJ!LossesAreHeld
  <2>1. DOMAIN printed = {} /\ DOMAIN curve = {}
    BY <1>1
  <2> QED
    BY <1>1, <2>1, TrainBounds DEF TJ!LossesAreHeld, TJ!EndsOn
<1>5. TJ!RowIsReported
  BY <1>1 DEF TJ!RowIsReported, TJ!VerdictIsReported, TJ!Report
<1> QED
  BY <1>2, <1>3, <1>4, <1>5, Zenon DEF TJ!IInv

\* The invariant of a training survives every step of run_training_job and of the program.
LEMMA TrainStep == TJ!IInv /\ [TJ!Next]_TJ!vars => TJ!IInv'
<1> SUFFICES ASSUME TJ!IInv, [TJ!Next]_TJ!vars PROVE TJ!IInv'
  OBVIOUS
<1>1. CASE UNCHANGED TJ!vars
  <2>0. /\ TJ!ConfigIsWritten /\ TJ!CanaryIsLast /\ TJ!RowIsReported
        /\ trainPc \in Trainings /\ config \in Configs /\ canary \in Values \cup {None} /\ row \in Reports
        /\ lost \in 0 .. MaxLost
    BY TrainParts
  <2>1. /\ UNCHANGED <<backend, data, batch, finals, printed, curve>>
        /\ UNCHANGED <<trainPc, config, canary, row, lost>>
    BY <1>1, Zenon DEF TJ!vars
  <2>2. TJ!ConfigIsWritten'
    BY <2>0, <2>1, ConfigStays
  <2>3. TJ!CanaryIsLast'
    <3>1. TJ!HasCanary' <=> TJ!HasCanary
      BY <2>1, Zenon DEF TJ!HasCanary
    <3>2. TJ!Last(curve') = TJ!Last(curve)
      BY <2>1
    <3> QED
      BY <2>0, <2>1, <3>1, <3>2 DEF TJ!CanaryIsLast
  <2>4. TJ!RowIsReported'
    <3>1. TJ!Range(finals') = TJ!Range(finals)
      BY <2>1
    <3> QED
      BY <2>0, <2>1, <3>1 DEF TJ!RowIsReported, TJ!VerdictIsReported
  <2> QED
    BY <2>0, <2>1, <2>2, <2>3, <2>4, QuietStep
<1>2. ASSUME NEW name \in TJ!Losses, NEW value \in Values \cup {NotANumber}, TJ!Emit(name, value) PROVE TJ!IInv'
  <2>1. name \in TJ!Losses \cup {"other"} /\ value \in TJ!Figures
    BY DEF TJ!Figures
  <2> QED
    BY <1>2, <2>1, EmitHolds
<1>3. CASE TJ!Emit("other", None)
  <2>1. "other" \in TJ!Losses \cup {"other"} /\ None \in TJ!Figures
    BY DEF TJ!Figures
  <2> QED
    BY <1>3, <2>1, EmitHolds
<1> QED
  BY <1>1, <1>2, <1>3, ConfigHolds, StartHolds, FailHolds, EvalHolds, PostHolds, DoneHolds, Zenon DEF TJ!Next

\* What the invariant comes to: the report of a training is true and arrives.
LEMMA TrainHolds == TJ!IInv => TJ!TrainingIsReported
<1> SUFFICES ASSUME TJ!IInv PROVE TJ!TrainingIsReported
  OBVIOUS
<1>0. /\ TJ!TypeOK /\ TJ!ConfigIsWritten /\ TJ!LossesAreHeld /\ TJ!CanaryIsLast /\ TJ!RowIsReported
      /\ data \in Datasets /\ trainPc \in Trainings
  BY TrainParts
<1>1. TJ!DatasetIsAccepted
  BY <1>0, ConfigIsAccepted
<1>2. TJ!ReportIsTrue
  <2> SUFFICES ASSUME row.status = "completed"
               PROVE  /\ \A name \in TJ!Losses :
                           /\ TJ!EndsOn(name, printed, row[name]) \/ (backend = "mlx" /\ TJ!Diverged(name))
                           /\ \/ TJ!EndsOn(name, curve, row[name]) \/ lost > 0
                              \/ (backend = "cuda" /\ TJ!Diverged(name))
                      /\ row.canary_loss # None =>
                           /\ data.rows.canary > 0
                           /\ lost > 0 \/ TJ!Last(curve) = TJ!Event(Iters, "canary_loss", row.canary_loss)
    BY DEF TJ!ReportIsTrue
  <2>1. /\ trainPc = "done" /\ row.canary_loss = canary
        /\ row["train_loss"] = finals["train_loss"] /\ row["val_loss"] = finals["val_loss"]
    BY <1>0 DEF TJ!RowIsReported, TJ!Report
  <2>2. \A name \in TJ!Losses : row[name] = finals[name]
    BY <2>1 DEF TJ!Losses
  <2>3. \A name \in TJ!Losses :
          /\ TJ!EndsOn(name, printed, row[name]) \/ (backend = "mlx" /\ TJ!Diverged(name))
          /\ TJ!EndsOn(name, curve, row[name]) \/ lost > 0 \/ (backend = "cuda" /\ TJ!Diverged(name))
    BY <1>0, <2>2 DEF TJ!LossesAreHeld
  <2>4. row.canary_loss # None =>
          /\ data.rows.canary > 0
          /\ lost > 0 \/ TJ!Last(curve) = TJ!Event(Iters, "canary_loss", row.canary_loss)
    BY <1>0, <2>1 DEF TJ!CanaryIsLast, TJ!HasCanary
  <2> QED
    BY <2>3, <2>4
<1>3. TJ!VerdictIsReported
  BY <1>0 DEF TJ!RowIsReported
<1> QED
  BY <1>1, <1>2, <1>3, Zenon DEF TJ!TrainingIsReported

-----------------------------------------------------------------------------
(* The heartbeats                                                          *)

\* The interval, the timeouts and the age at which a row is stale, as the proofs use them.
LEMMA Waits ==
  /\ Interval \in Nat /\ Timeout \in Nat /\ StaleAfter \in Nat
  /\ Timeout <= Interval /\ 2 * Interval + Timeout < StaleAfter
BY ExportsAssumption

\* The posts a worker may have under way.
Posts == [at : {"down", "asleep", "posting"}, left : 0 .. (IF Interval < Timeout THEN Timeout ELSE Interval)]

\* The posts that a worker begins are posts.
LEMMA PostsAre ==
  /\ Posts \subseteq [at : {"down", "asleep", "posting"}, left : Nat]
  /\ [at |-> "down", left |-> 0] \in Posts
  /\ [at |-> "posting", left |-> Timeout] \in Posts
  /\ [at |-> "asleep", left |-> Interval] \in Posts
BY Waits DEF Posts

\* The types without the tokens, which no step changes.
BeatsType ==
  /\ post \in [Workers -> Posts]
  /\ handled \subseteq Workers
  /\ age \in 0 .. StaleAfter + 1
  /\ failed \in [Workers -> 0 .. 2] /\ slow \in [Workers -> 0 .. Timeout]
  /\ idle \in 0 .. StaleAfter

\* The types of the heartbeats, in parts.
LEMMA BeatTypes ==
  WC!TypeOK <=> /\ BeatsType /\ api \in BOOLEAN
                /\ setup \in [auth : BOOLEAN, server : {"", "shared"}, worker : WC!Tokens]
BY Zenon DEF WC!TypeOK, BeatsType, Posts, WC!Never

\* What the invariant says of one worker.
BeatIsBounded(w) ==
  /\ post[w].at = "posting" => post[w].left <= Timeout
  /\ post[w].at = "asleep" => post[w].left <= Interval
  /\ w \in handled => post[w].at = "posting" /\ failed[w] = 0 /\ slow[w] <= WC!Elapsed(w)
  /\ (post[w].at # "down" /\ failed[w] < 2) => age <= WC!SinceHandled(w)

\* What the invariant says of the workers, said of each.
LEMMA BeatsOfEach ==
  ASSUME BeatsType
  PROVE  (WC!HandledIsPosting /\ WC!WaitsAreBounded /\ WC!AgeIsBounded) <=> \A w \in Workers : BeatIsBounded(w)
BY DEF BeatsType, BeatIsBounded, WC!HandledIsPosting, WC!WaitsAreBounded, WC!AgeIsBounded

\* The invariant, in parts.
LEMMA BeatsFacts ==
  ASSUME WC!IInv
  PROVE  /\ BeatsType /\ api \in BOOLEAN
         /\ setup \in [auth : BOOLEAN, server : {"", "shared"}, worker : WC!Tokens]
         /\ \A w \in Workers : BeatIsBounded(w)
         /\ WC!IdleIsOlder
BY BeatTypes, BeatsOfEach, Zenon DEF WC!IInv

\* The post, the failures and the wait of a worker are its own.
LEMMA BeatOfWorker ==
  ASSUME BeatsType, NEW w \in Workers
  PROVE  /\ post[w] \in Posts /\ post[w].at \in {"down", "asleep", "posting"} /\ post[w].left \in Nat
         /\ failed[w] \in 0 .. 2 /\ slow[w] \in 0 .. Timeout
         /\ age \in Nat /\ idle \in Nat
<1>1. post[w] \in Posts /\ failed[w] \in 0 .. 2 /\ slow[w] \in 0 .. Timeout
  BY DEF BeatsType
<1>2. age \in Nat /\ idle \in Nat
  BY Waits DEF BeatsType
<1> QED
  BY <1>1, <1>2, PostsAre

\* A worker keeps its bound while its post stays and the row is not older.
LEMMA OtherBeat ==
  ASSUME BeatsType, NEW v \in Workers, BeatIsBounded(v), post'[v] = post[v], failed'[v] = failed[v],
         slow'[v] = slow[v], v \in handled' <=> v \in handled, age' \in Nat, age' <= age
  PROVE  BeatIsBounded(v)'
<1>1. WC!SinceHandled(v)' = WC!SinceHandled(v) /\ WC!Elapsed(v)' = WC!Elapsed(v)
  BY DEF WC!SinceHandled, WC!Elapsed, WC!Slept
<1>2. WC!SinceHandled(v) \in Int /\ age \in Nat
  BY BeatOfWorker, Waits DEF WC!SinceHandled, WC!Elapsed, WC!Slept
<1>4. age <= WC!SinceHandled(v) => age' <= WC!SinceHandled(v)
  <2> PICK a \in Nat, b \in Nat, c \in Int : a = age /\ b = age' /\ c = WC!SinceHandled(v)
    BY <1>2
  <2>1. b <= a
    OBVIOUS
  <2> QED
    BY <2>1
<1> QED
  BY <1>1, <1>4, Zenon DEF BeatIsBounded

\* No worker is up at first and no row is fresh.
LEMMA BeatsInit == WC!Init => WC!IInv
<1> SUFFICES ASSUME WC!Init PROVE WC!IInv
  OBVIOUS
<1>1. /\ post = [w \in Workers |-> [at |-> "down", left |-> 0]] /\ handled = {}
      /\ age = StaleAfter + 1 /\ idle = StaleAfter
      /\ failed = [w \in Workers |-> 0] /\ slow = [w \in Workers |-> 0]
  BY Zenon DEF WC!Init, WC!Down, WC!Never
<1>2. BeatsType
  BY <1>1, PostsAre, Waits DEF BeatsType
<1>3. WC!TypeOK
  BY <1>2, BeatTypes, Zenon DEF WC!Init
<1>4. \A w \in Workers : BeatIsBounded(w)
  BY <1>1, Waits DEF BeatIsBounded
<1>5. WC!IdleIsOlder
  BY <1>1, Waits DEF WC!IdleIsOlder
<1> QED
  BY <1>2, <1>3, <1>4, <1>5, BeatsOfEach DEF WC!IInv

\* What the bounds come to: a living worker is shown, and a dead one is not.
LEMMA BeatsAreShown == WC!IInv => WC!WorkersAreShown
<1> SUFFICES ASSUME WC!IInv PROVE WC!LivingIsShown /\ WC!DeadIsShown
  BY DEF WC!WorkersAreShown
<1>1. WC!DeadIsShown
  <2>1. idle <= age
    BY BeatsFacts, Zenon DEF WC!IdleIsOlder
  <2>2. age \in 0 .. StaleAfter + 1 /\ idle \in 0 .. StaleAfter
    BY BeatsFacts, Zenon DEF BeatsType
  <2> QED
    BY <2>1, <2>2, Waits DEF WC!DeadIsShown, WC!Running
<1>2. ASSUME NEW w \in Workers, post[w].at # "down"
      PROVE  /\ failed[w] = 0 => WC!Running
             /\ (failed[w] = 1 /\ 2 * Interval + Timeout + slow[w] + WC!Elapsed(w) < StaleAfter) => WC!Running
  <2>1. BeatsType /\ BeatIsBounded(w)
    BY BeatsFacts, Zenon
  <2>2. CASE post[w].at = "posting"
    BY <1>2, <2>1, <2>2, Waits, BeatOfWorker DEF BeatIsBounded, WC!SinceHandled, WC!Slept, WC!Elapsed, WC!Running
  <2>3. CASE post[w].at = "asleep"
    BY <1>2, <2>1, <2>3, Waits, BeatOfWorker DEF BeatIsBounded, WC!SinceHandled, WC!Slept, WC!Elapsed, WC!Running
  <2> QED
    BY <1>2, <2>1, <2>2, <2>3, BeatOfWorker
<1> QED
  BY <1>1, <1>2 DEF WC!LivingIsShown

\* The invariant behind a step, from what it says of each worker.
LEMMA BeatsBehind ==
  ASSUME WC!IInv, setup' = setup, api' \in BOOLEAN, BeatsType', \A w \in Workers : BeatIsBounded(w)',
         WC!IdleIsOlder'
  PROVE  WC!IInv'
<1>1. WC!TypeOK'
  <2>1. setup' \in [auth : BOOLEAN, server : {"", "shared"}, worker : WC!Tokens]
    BY BeatsFacts, Zenon
  <2> QED
    BY <2>1, BeatTypes, Zenon DEF WC!TypeOK, BeatsType, Posts, WC!Never, WC!Tokens
<1>2. (WC!HandledIsPosting /\ WC!WaitsAreBounded /\ WC!AgeIsBounded)'
  BY DEF BeatsType, BeatIsBounded, WC!HandledIsPosting, WC!WaitsAreBounded, WC!AgeIsBounded
<1> QED
  BY <1>1, <1>2, Zenon DEF WC!IInv

BeatOf(w) ==
  \/ WC!StartWorker(w) \/ WC!Die(w) \/ WC!Send(w) \/ WC!Handle(w) \/ WC!Answer(w) \/ WC!Refuse(w) \/ WC!GiveUp(w)

\* A step of one worker keeps the bounds of all.
LEMMA BeatOfOne ==
  ASSUME WC!IInv, NEW w \in Workers, BeatOf(w) PROVE WC!IInv'
<1>0. /\ BeatsType /\ api \in BOOLEAN /\ \A v \in Workers : BeatIsBounded(v)
      /\ WC!IdleIsOlder
  BY BeatsFacts, Zenon
<1> HIDE DEF BeatOf
<1>1. UNCHANGED <<setup, api>>
  BY Zenon DEF BeatOf, WC!StartWorker, WC!Die, WC!Send, WC!Handle, WC!Answer, WC!Refuse, WC!GiveUp
<1>2. /\ \E p \in Posts : post' = [post EXCEPT ![w] = p]
      /\ \E f \in 0 .. 2 : failed' = [failed EXCEPT ![w] = f]
      /\ \E n \in 0 .. Timeout : slow' = [slow EXCEPT ![w] = n]
      /\ handled' \in {handled, handled \cup {w}, handled \ {w}}
      /\ age' \in {age, 0} /\ idle' \in {idle, 0}
  <2>0. post[w] \in Posts /\ failed[w] \in 0 .. 2 /\ slow[w] \in 0 .. Timeout
        /\ post = [post EXCEPT ![w] = post[w]] /\ failed = [failed EXCEPT ![w] = failed[w]]
        /\ slow = [slow EXCEPT ![w] = slow[w]] /\ 0 \in 0 .. 2 /\ 2 \in 0 .. 2 /\ 0 \in 0 .. Timeout
        /\ WC!Cap(failed[w] + 1, 2) \in 0 .. 2
    BY <1>0, Waits DEF BeatsType, WC!Cap
  <2>1. CASE WC!StartWorker(w)
    BY <2>0, <2>1, PostsAre, Zenon DEF WC!StartWorker
  <2>2. CASE WC!Die(w)
    BY <2>0, <2>2, PostsAre, Zenon DEF WC!Die, WC!Down
  <2>3. CASE WC!Send(w)
    BY <2>0, <2>3, PostsAre, Zenon DEF WC!Send
  <2>4. CASE WC!Handle(w)
    BY <2>0, <2>4, PostsAre, Zenon DEF WC!Handle
  <2>5. CASE WC!Answer(w)
    BY <2>0, <2>5, PostsAre, Zenon DEF WC!Answer, WC!Sleep
  <2>6. CASE WC!Refuse(w)
    BY <2>0, <2>6, PostsAre, Zenon DEF WC!Refuse, WC!Sleep, WC!Fails
  <2>7. CASE WC!GiveUp(w)
    BY <2>0, <2>7, PostsAre, Zenon DEF WC!GiveUp, WC!Sleep, WC!Fails
  <2> QED
    BY <2>1, <2>2, <2>3, <2>4, <2>5, <2>6, <2>7, Zenon DEF BeatOf
<1>3. BeatsType'
  BY <1>0, <1>2, Waits DEF BeatsType
<1>4. ASSUME NEW v \in Workers, v # w PROVE BeatIsBounded(v)'
  <2>1. post'[v] = post[v] /\ failed'[v] = failed[v] /\ slow'[v] = slow[v] /\ (v \in handled' <=> v \in handled)
    BY <1>0, <1>2, <1>4 DEF BeatsType
  <2>2. age' \in Nat /\ age' <= age
    BY <1>0, <1>2 DEF BeatsType
  <2> QED
    BY <1>0, <2>1, <2>2, OtherBeat
<1>5. BeatIsBounded(w)'
  <2>0. /\ post[w] \in Posts /\ post[w].at \in {"down", "asleep", "posting"} /\ post[w].left \in Nat
        /\ failed[w] \in 0 .. 2 /\ slow[w] \in 0 .. Timeout /\ age \in Nat /\ idle \in Nat
        /\ BeatIsBounded(w)
    BY <1>0, BeatOfWorker
  <2>1. CASE WC!StartWorker(w)
    <3>1. post'[w] = [at |-> "posting", left |-> Timeout] /\ failed'[w] = 2 /\ w \notin handled'
      BY <1>0, <2>0, <2>1 DEF WC!StartWorker, BeatsType, BeatIsBounded
    <3> QED
      BY <3>1, Waits DEF BeatIsBounded
  <2>2. CASE WC!Die(w)
    <3>1. post'[w] = [at |-> "down", left |-> 0] /\ w \notin handled'
      BY <1>0, <2>0, <2>2 DEF WC!Die, WC!Down, BeatsType, BeatIsBounded
    <3> QED
      BY <3>1, Waits DEF BeatIsBounded
  <2>3. CASE WC!Send(w)
    <3>1. /\ post'[w] = [at |-> "posting", left |-> Timeout] /\ post[w] = [at |-> "asleep", left |-> 0]
          /\ failed'[w] = failed[w] /\ slow'[w] = slow[w] /\ age' = age /\ handled' = handled
      BY <1>0, <2>0, <2>3 DEF WC!Send, BeatsType
    <3>2. w \notin handled
      BY <2>0, <3>1 DEF BeatIsBounded
    <3>3. failed[w] < 2 => age <= slow[w] + (IF failed[w] = 1 THEN Interval + Timeout ELSE 0) + Interval
      BY <2>0, <3>1, <3>2, Waits DEF BeatIsBounded, WC!SinceHandled, WC!Slept
    <3> QED
      BY <2>0, <3>1, <3>2, <3>3, Waits DEF BeatIsBounded, WC!SinceHandled, WC!Elapsed
  <2>4. CASE WC!Handle(w)
    <3>1. post' = post /\ post[w].at = "posting" /\ failed'[w] = 0 /\ slow'[w] = 0 /\ age' = 0 /\ w \in handled'
      BY <1>0, <2>0, <2>4 DEF WC!Handle, BeatsType
    <3> QED
      BY <2>0, <3>1, Waits DEF BeatIsBounded, WC!SinceHandled, WC!Elapsed
  <2>5. CASE WC!Answer(w)
    <3>1. /\ post'[w] = [at |-> "asleep", left |-> Interval] /\ failed'[w] = failed[w] /\ slow'[w] = slow[w]
          /\ age' = age /\ w \notin handled' /\ w \in handled
      BY <1>0, <2>0, <2>5 DEF WC!Answer, WC!Sleep, BeatsType
    <3> QED
      BY <2>0, <3>1, Waits DEF BeatIsBounded, WC!SinceHandled, WC!Slept
  <2>6. CASE (WC!Refuse(w) \/ WC!GiveUp(w)) /\ w \notin handled
    <3>1. /\ post'[w] = [at |-> "asleep", left |-> Interval] /\ slow'[w] = slow[w] /\ post[w].at = "posting"
          /\ failed'[w] = WC!Cap(failed[w] + 1, 2) /\ age' = age /\ w \notin handled'
      BY <1>0, <2>0, <2>6 DEF WC!Refuse, WC!GiveUp, WC!Fails, WC!Sleep, BeatsType
    <3>2. failed[w] < 2 => age <= slow[w] + (IF failed[w] = 1 THEN Interval + Timeout ELSE 0) + Interval + Timeout
      BY <2>0, <2>6, <3>1, Waits DEF BeatIsBounded, WC!SinceHandled, WC!Elapsed
    <3>3. failed'[w] < 2 => failed[w] = 0 /\ failed'[w] = 1
      BY <2>0, <3>1 DEF WC!Cap
    <3> QED
      BY <2>0, <3>1, <3>2, <3>3, Waits DEF BeatIsBounded, WC!SinceHandled, WC!Slept
  <2>7. CASE (WC!Refuse(w) \/ WC!GiveUp(w)) /\ w \in handled
    <3>1. /\ post'[w] = [at |-> "asleep", left |-> Interval] /\ failed'[w] = failed[w] /\ slow'[w] = slow[w]
          /\ age' = age /\ w \notin handled'
      BY <1>0, <2>0, <2>7 DEF WC!Refuse, WC!GiveUp, WC!Sleep, BeatsType
    <3> QED
      BY <2>0, <2>7, <3>1, Waits DEF BeatIsBounded, WC!SinceHandled, WC!Slept
  <2> QED
    BY <2>1, <2>2, <2>3, <2>4, <2>5, <2>6, <2>7, Zenon DEF BeatOf
<1>6. WC!IdleIsOlder'
  <2>1. CASE idle' = 0
    <3>1. age' \in Nat
      BY <1>0, <1>2 DEF BeatsType
    <3> QED
      BY <2>1, <3>1 DEF WC!IdleIsOlder
  <2>2. CASE idle' = idle
    <3>1. (\E v \in Workers : post[v].at # "down") => idle = 0
      BY <1>0 DEF WC!IdleIsOlder
    <3>2. post[w].at # "down" \/ idle' = 0
      <4>1. w \in handled => post[w].at # "down"
        BY <1>0 DEF BeatIsBounded
      <4>2. WC!Send(w) \/ WC!Handle(w) \/ WC!Refuse(w) \/ WC!GiveUp(w) => post[w].at # "down"
        BY DEF WC!Send, WC!Handle, WC!Refuse, WC!GiveUp
      <4> QED
        BY <4>1, <4>2, Zenon DEF BeatOf, WC!StartWorker, WC!Die, WC!Answer
    <3> QED
      BY <2>1, <2>2, <3>1, <3>2
  <2> QED
    BY <1>2, <2>1, <2>2
<1> QED
  BY <1>0, <1>1, <1>3, <1>4, <1>5, <1>6, BeatsBehind, Zenon

\* Time passes: what has passed of a wait grows with the age of the row.
LEMMA BeatsTick ==
  ASSUME WC!IInv, WC!Tick PROVE WC!IInv'
<1>0. /\ BeatsType /\ api \in BOOLEAN /\ \A v \in Workers : BeatIsBounded(v)
      /\ WC!IdleIsOlder
  BY BeatsFacts, Zenon
<1>1. /\ UNCHANGED <<setup, api, handled, failed>>
      /\ age' = IF age = StaleAfter + 1 THEN StaleAfter + 1 ELSE WC!Cap(age + 1, StaleAfter)
      /\ idle' = IF \E v \in Workers : post[v].at # "down" THEN 0 ELSE WC!Cap(idle + 1, StaleAfter)
  BY Zenon DEF WC!Tick, WC!Never
<1>2. age' \in 0 .. StaleAfter + 1 /\ idle' \in 0 .. StaleAfter /\ age' <= age + 1
  <2> PICK a \in Nat, b \in Nat : a = age /\ b = idle
    BY <1>0 DEF BeatsType
  <2>1. a \in 0 .. StaleAfter + 1 /\ b \in 0 .. StaleAfter
    BY <1>0 DEF BeatsType
  <2> QED
    BY <1>1, <2>1, Waits DEF WC!Cap
<1>3. ASSUME NEW w \in Workers
      PROVE  /\ post'[w] \in Posts /\ slow'[w] \in 0 .. Timeout
             /\ post'[w].at = post[w].at
             /\ post[w].at = "down" => slow'[w] = slow[w]
             /\ post[w].at # "down" => post'[w].left + 1 = post[w].left
             /\ slow'[w] = (IF w \in handled THEN slow[w] + 1 ELSE slow[w])
             /\ BeatIsBounded(w)'
  <2>0. /\ post[w] \in Posts /\ post[w].at \in {"down", "asleep", "posting"} /\ post[w].left \in Nat
        /\ failed[w] \in 0 .. 2 /\ slow[w] \in 0 .. Timeout /\ age \in Nat /\ idle \in Nat
        /\ BeatIsBounded(w)
    BY <1>0, BeatOfWorker
  <2>1. slow'[w] = (IF w \in handled THEN slow[w] + 1 ELSE slow[w])
    BY DEF WC!Tick
  <2>2. post'[w] = IF post[w].at = "down" THEN post[w] ELSE [post[w] EXCEPT !.left = @ - 1]
    BY DEF WC!Tick
  <2>3. post[w].at # "down" => post[w].left > 0
    BY DEF WC!Tick
  <2>4. post'[w].at = post[w].at /\ post'[w] \in Posts
    BY <2>0, <2>2, <2>3, Waits DEF Posts
  <2>5. post[w].at # "down" => post'[w].left = post[w].left - 1
    BY <2>0, <2>2 DEF Posts
  <2>6. w \in handled => post[w].at = "posting" /\ slow[w] <= Timeout - post[w].left
    BY <2>0 DEF BeatIsBounded, WC!Elapsed
  <2>7. slow'[w] \in 0 .. Timeout
    BY <2>0, <2>1, <2>3, <2>6, Waits
  <2>8. BeatIsBounded(w)'
    <3> PICK l \in Nat, m \in Int, n \in Nat, o \in Nat, f \in Nat, a \in Nat, b \in Nat :
          /\ l = post[w].left /\ m = post'[w].left /\ n = slow[w] /\ o = slow'[w]
          /\ f = failed[w] /\ f = failed'[w] /\ a = age /\ b = age'
      <4>1. post'[w].left \in Int /\ slow'[w] \in Nat /\ age' \in Nat /\ failed'[w] = failed[w]
        BY <1>1, <1>2, <2>4, <2>7, PostsAre, Waits
      <4> QED
        BY <2>0, <4>1
    <3> DEFINE Fail == IF f = 1 THEN Interval + Timeout ELSE 0
    <3>1. b <= a + 1 /\ (post[w].at # "down" => m = l - 1) /\ o = (IF w \in handled THEN n + 1 ELSE n)
      BY <1>2, <2>1, <2>5
    <3>2. CASE post[w].at = "posting"
      <4>1. /\ l <= Timeout
            /\ w \in handled => f = 0 /\ n <= Timeout - l
            /\ f < 2 => a <= IF w \in handled THEN n ELSE n + Fail + Interval + (Timeout - l)
        BY <2>0, <3>2, Waits DEF BeatIsBounded, WC!Elapsed, WC!SinceHandled
      <4>2. /\ m <= Timeout
            /\ w \in handled => f = 0 /\ o <= Timeout - m
            /\ f < 2 => b <= IF w \in handled THEN o ELSE o + Fail + Interval + (Timeout - m)
        BY <3>1, <3>2, <4>1, Waits
      <4> QED
        BY <1>1, <2>4, <3>2, <4>2, Waits DEF BeatIsBounded, WC!Elapsed, WC!SinceHandled
    <3>3. CASE post[w].at = "asleep"
      <4>1. /\ l <= Interval /\ w \notin handled
            /\ f < 2 => a <= n + Fail + (Interval - l)
        BY <2>0, <3>3, Waits DEF BeatIsBounded, WC!Slept, WC!SinceHandled
      <4>2. /\ m <= Interval
            /\ f < 2 => b <= o + Fail + (Interval - m)
        BY <3>1, <3>3, <4>1, Waits
      <4> QED
        BY <1>1, <2>4, <3>3, <4>1, <4>2, Waits DEF BeatIsBounded, WC!Slept, WC!SinceHandled
    <3>4. CASE post[w].at = "down"
      BY <1>1, <2>0, <2>4, <3>4 DEF BeatIsBounded
    <3> QED
      BY <2>0, <3>2, <3>3, <3>4
  <2> QED
    BY <2>0, <2>1, <2>4, <2>5, <2>6, <2>7, <2>8, PostsAre
<1>4. BeatsType'
  <2>1. post' \in [Workers -> Posts] /\ slow' \in [Workers -> 0 .. Timeout]
    BY <1>3 DEF WC!Tick
  <2> QED
    BY <1>0, <1>1, <1>2, <2>1 DEF BeatsType
<1>5. WC!IdleIsOlder'
  <2>1. (\E v \in Workers : post'[v].at # "down") <=> (\E v \in Workers : post[v].at # "down")
    BY <1>3
  <2>2. idle' <= age'
    <3> PICK a \in Nat, b \in Nat : a = age /\ b = idle /\ b <= a /\ b \in 0 .. StaleAfter
      BY <1>0 DEF BeatsType, WC!IdleIsOlder
    <3> QED
      BY <1>1, Waits DEF WC!Cap
  <2> QED
    BY <1>1, <2>1, <2>2 DEF WC!IdleIsOlder
<1> QED
  BY <1>0, <1>1, <1>3, <1>4, <1>5, BeatsBehind, Zenon

\* The invariant of the heartbeats survives every step of _heartbeat_loop and of the API.
LEMMA BeatsStep == WC!IInv /\ [WC!Next]_WC!vars => WC!IInv'
<1> SUFFICES ASSUME WC!IInv, [WC!Next]_WC!vars PROVE WC!IInv'
  OBVIOUS
<1>1. ASSUME NEW w \in Workers, BeatOf(w) PROVE WC!IInv'
  BY <1>1, BeatOfOne
<1>2. CASE WC!StopApi \/ WC!StartApi \/ UNCHANGED WC!vars
  <2>0. /\ BeatsType /\ api \in BOOLEAN /\ \A v \in Workers : BeatIsBounded(v)
        /\ WC!IdleIsOlder
    BY BeatsFacts, Zenon
  <2>1. UNCHANGED <<setup, post, handled, age, failed, slow, idle>> /\ api' \in BOOLEAN
    BY <1>2, <2>0, Zenon DEF WC!StopApi, WC!StartApi, WC!vars
  <2>2. BeatsType' /\ WC!IdleIsOlder' /\ \A v \in Workers : BeatIsBounded(v)'
    BY <2>0, <2>1 DEF BeatsType, WC!IdleIsOlder, BeatIsBounded, WC!SinceHandled, WC!Elapsed, WC!Slept
  <2> QED
    BY <2>1, <2>2, BeatsBehind, Zenon
<1> QED
  BY <1>1, <1>2, BeatsTick, Zenon DEF WC!Next, BeatOf

-----------------------------------------------------------------------------
(* The tools                                                               *)

\* The bounds on presses and on lost answers, and that a card is no call.
LEMMA ToolBounds ==
  /\ MaxClicks \in Nat /\ MaxLost \in Nat /\ IsFiniteSet(Calls)
  /\ \A c, d \in Calls : CT!CardOf(c) \notin Calls /\ CT!CardOf(c) # d
BY ExportsAssumption DEF CT!CardOf

\* One cardinality, whichever instance names it.
LEMMA SameCardinality == \A S : CT!Cardinality(S) = Cardinality(S)
BY DEF CT!Cardinality, Cardinality

\* The entries of a call and of an effect.
Places == {"idle", "sent", "served", "abandoned", "done"}
Codes == {0, 200, 401, 403, 404, 409, 422, 500}
Answers == {"none", "ok", "envelope", "error"}
Clients == {"none", "chat", "mcp"}
Callers == {"none", "admin", "user", "service", "nobody"}
Entries == [client : Clients, makes : CT!Kinds, at : Places, as : Callers, code : Codes, result : Answers]
Makers == {"admin", "user", "service", "process"}
Authors == Calls \cup {CT!CardOf(c) : c \in Calls}
Effects == [kind : CT!Kinds, by : Authors, as : Makers]

\* The types of the tools, in parts.
LEMMA ToolTypes ==
  CT!TypeOK <=> /\ auth \in BOOLEAN /\ bearer \in BOOLEAN /\ token \in BOOLEAN /\ allowed \in BOOLEAN
                /\ call \in [Calls -> Entries]
                /\ card \in [Calls -> {"none", "shown", "posting", "failed", "started"}]
                /\ effects \in Seq(Effects)
                /\ presses \in 0 .. MaxClicks /\ reloads \in 0 .. MaxClicks /\ toolsLost \in 0 .. MaxLost
BY Zenon DEF CT!TypeOK, Entries, Places, Codes, Answers, Clients, Callers, Makers, Authors, Effects

\* An entry is written, and the others stay.
LEMMA EntryWritten ==
  ASSUME CT!TypeOK, NEW c \in Calls, NEW client \in Clients, NEW makes \in CT!Kinds, NEW place \in Places,
         NEW as \in Callers, NEW code \in Codes, NEW res \in Answers,
         call' = [call EXCEPT ![c] = [client |-> client, makes |-> makes, at |-> place, as |-> as, code |-> code,
                                      result |-> res]]
  PROVE  /\ call' \in [Calls -> Entries]
         /\ call'[c].client = client /\ call'[c].makes = makes /\ call'[c].at = place
         /\ call'[c].as = as /\ call'[c].code = code /\ call'[c].result = res
         /\ \A d \in Calls : d # c => call'[d] = call[d]
<1>1. call \in [Calls -> Entries]
  BY ToolTypes
<1>2. [client |-> client, makes |-> makes, at |-> place, as |-> as, code |-> code, result |-> res] \in Entries
  BY DEF Entries
<1>3. call'[c] = [client |-> client, makes |-> makes, at |-> place, as |-> as, code |-> code, result |-> res]
  BY <1>1
<1>4. call' \in [Calls -> Entries]
  BY <1>1, <1>2
<1> QED
  BY <1>1, <1>3, <1>4

\* What an entry holds.
LEMMA EntryHolds ==
  ASSUME CT!TypeOK, NEW c \in Calls
  PROVE  /\ call[c].client \in Clients /\ call[c].makes \in CT!Kinds /\ call[c].at \in Places
         /\ call[c].as \in Callers /\ call[c].code \in Codes /\ call[c].result \in Answers
<1>1. call[c] \in Entries
  BY ToolTypes
<1> QED
  BY <1>1 DEF Entries

\* A call that begins is written whole and leaves the others alone.
LEMMA CallBegins ==
  ASSUME CT!TypeOK, NEW c \in Calls, NEW client \in Clients, NEW makes \in CT!Kinds, NEW place \in Places,
         NEW as \in Callers, NEW res \in Answers, CT!Begin(c, client, makes, place, as, res)
  PROVE  /\ call' \in [Calls -> Entries]
         /\ call'[c].client = client /\ call'[c].makes = makes /\ call'[c].at = place
         /\ call'[c].as = as /\ call'[c].code = 0 /\ call'[c].result = res
         /\ \A d \in Calls : d # c => call'[d] = call[d]
<1>1. 0 \in Codes
  BY DEF Codes
<1>2. call' = [call EXCEPT ![c] = [client |-> client, makes |-> makes, at |-> place, as |-> as, code |-> 0,
                                   result |-> res]]
  BY DEF CT!Begin
<1>3. call' \in [Calls -> Entries]
  BY <1>1, <1>2, EntryWritten
<1>4. /\ call'[c].client = client /\ call'[c].makes = makes /\ call'[c].at = place
      /\ call'[c].as = as /\ call'[c].code = 0 /\ call'[c].result = res
  BY <1>2, ToolTypes
<1>5. \A d \in Calls : d # c => call'[d] = call[d]
  BY <1>2, ToolTypes
<1> QED
  BY <1>3, <1>4, <1>5, Zenon

\* A call that moves keeps its client, its tool and its caller.
LEMMA CallMoves ==
  ASSUME CT!TypeOK, NEW c \in Calls, NEW place \in Places, NEW code \in Codes, NEW res \in Answers,
         CT!Move(c, place, code, res)
  PROVE  /\ call' \in [Calls -> Entries]
         /\ call'[c].client = call[c].client /\ call'[c].makes = call[c].makes /\ call'[c].at = place
         /\ call'[c].as = call[c].as /\ call'[c].code = code /\ call'[c].result = res
         /\ \A d \in Calls : d # c => call'[d] = call[d]
<1>1. call' = [call EXCEPT ![c] = [client |-> call[c].client, makes |-> call[c].makes, at |-> place, as |-> call[c].as,
                                   code |-> code, result |-> res]]
  BY DEF CT!Move
<1> QED
  BY <1>1, EntryWritten, EntryHolds, ZenonT(40)

\* An effect is appended, and the others stay.
LEMMA EffectMade ==
  ASSUME CT!TypeOK, NEW kind \in CT!Kinds, NEW by \in Authors, NEW as \in Makers, CT!Make(kind, by, as)
  PROVE  /\ effects' \in Seq(Effects)
         /\ \E n \in Nat : /\ n \notin DOMAIN effects /\ DOMAIN effects' = DOMAIN effects \cup {n}
                           /\ effects'[n].kind = kind /\ effects'[n].by = by /\ effects'[n].as = as
         /\ \A i \in DOMAIN effects : effects'[i] = effects[i]
<1>1. effects \in Seq(Effects)
  BY ToolTypes
<1> DEFINE e == [kind |-> kind, by |-> by, as |-> as]
<1>2. e \in Effects
  BY DEF Effects
<1>3. effects' = Append(effects, e)
  BY DEF CT!Make
<1>e. e.kind = kind /\ e.by = by /\ e.as = as
  OBVIOUS
<1> HIDE DEF e
<1>4. /\ Len(effects) + 1 \in Nat /\ Len(effects) + 1 \notin DOMAIN effects
      /\ DOMAIN effects' = DOMAIN effects \cup {Len(effects) + 1}
      /\ effects'[Len(effects) + 1] = e
  BY <1>1, <1>2, <1>3
<1>5. effects' \in Seq(Effects)
  BY <1>1, <1>2, <1>3
<1>6. \A i \in DOMAIN effects : effects'[i] = effects[i]
  BY <1>1, <1>2, <1>3
<1> QED
  BY <1>4, <1>5, <1>6, <1>e, Zenon

-----------------------------------------------------------------------------

\* What holds of one call.
OneCall(c) ==
  /\ \A i, j \in CT!Made(c) : i = j
  /\ \A i \in CT!Made(c) : effects[i].kind = call[c].makes /\ call[c].makes \notin CT!Silent \cup CT!NoRequest
  /\ (call[c].result = "ok" /\ call[c].makes \notin CT!Silent \cup CT!NoRequest) => CT!Made(c) # {}
  /\ call[c].code \in {401, 403, 404, 409, 422} => CT!Made(c) = {}
Whole(c) == OneCall(c) /\ CT!CallIsWhole(c)

\* What the invariant says of the calls, said of each.
LEMMA WholeCalls ==
  (CT!OneCallOneEffect /\ \A c \in Calls : CT!CallIsWhole(c)) <=> \A c \in Calls : Whole(c)
<1>1. \A c \in Calls : Whole(c) <=> OneCall(c) /\ CT!CallIsWhole(c)
  BY DEF Whole
<1>2. CT!OneCallOneEffect <=> \A c \in Calls : OneCall(c)
  BY DEF CT!OneCallOneEffect, OneCall, CT!Makes
<1> QED
  BY <1>1, <1>2, Zenon

\* A call that is left alone, and has made nothing more, is what it was.
LEMMA LeftAlone ==
  ASSUME CT!TypeOK, NEW d \in Calls, Whole(d), call'[d] = call[d], UNCHANGED CT!given,
         CT!Made(d)' = CT!Made(d), \A i \in DOMAIN effects : effects'[i] = effects[i]
  PROVE  Whole(d)'
<1>1. \A i \in CT!Made(d) : effects'[i] = effects[i]
  BY DEF CT!Made
<1>2. OneCall(d)'
  <2>1. \A i, j \in CT!Made(d)' : i = j
    BY DEF Whole, OneCall
  <2>2. \A i \in CT!Made(d)' : effects'[i].kind = call'[d].makes /\ call'[d].makes \notin CT!Silent \cup CT!NoRequest
    BY <1>1 DEF Whole, OneCall
  <2>3. /\ (call'[d].result = "ok" /\ call'[d].makes \notin CT!Silent \cup CT!NoRequest) => CT!Made(d)' # {}
        /\ call'[d].code \in {401, 403, 404, 409, 422} => CT!Made(d)' = {}
    BY DEF Whole, OneCall
  <2> QED
    BY <2>1, <2>2, <2>3 DEF OneCall, CT!Silent, CT!NoRequest
<1>3. UNCHANGED <<auth, bearer, token>>
  BY DEF CT!given
<1>4. CT!CallIsWhole(d)'
  BY <1>3, Zenon DEF Whole, CT!CallIsWhole, CT!Makes, CT!Principal
<1> QED
  BY <1>2, <1>4 DEF Whole

\* No effect is made.
LEMMA NothingMade ==
  ASSUME UNCHANGED effects
  PROVE  /\ \A d : CT!Made(d)' = CT!Made(d)
         /\ CT!Carded' = CT!Carded
         /\ \A i \in DOMAIN effects : effects'[i] = effects[i]
BY DEF CT!Made, CT!Carded

\* One is made, and whose it is.
LEMMA OneMade ==
  ASSUME CT!TypeOK, NEW kind \in CT!Kinds, NEW by \in Authors, NEW as \in Makers, CT!Make(kind, by, as)
  PROVE  /\ effects' \in Seq(Effects)
         /\ \A i \in DOMAIN effects : effects'[i] = effects[i]
         /\ \A d \in Calls : d # by => CT!Made(d)' = CT!Made(d)
         /\ by \in Calls => CT!Carded' = CT!Carded
         /\ \E n \in Nat : /\ n \notin DOMAIN effects /\ DOMAIN effects' = DOMAIN effects \cup {n}
                           /\ effects'[n].kind = kind /\ effects'[n].as = as
                           /\ CT!Made(by)' = CT!Made(by) \cup {n}
                           /\ by \notin Calls => CT!Carded' = CT!Carded \cup {n}
<1>0. /\ effects' \in Seq(Effects)
      /\ \E n \in Nat : /\ n \notin DOMAIN effects /\ DOMAIN effects' = DOMAIN effects \cup {n}
                        /\ effects'[n].kind = kind /\ effects'[n].by = by /\ effects'[n].as = as
      /\ \A i \in DOMAIN effects : effects'[i] = effects[i]
  BY EffectMade
<1>1. PICK n \in Nat : /\ n \notin DOMAIN effects /\ DOMAIN effects' = DOMAIN effects \cup {n}
                       /\ effects'[n].kind = kind /\ effects'[n].by = by /\ effects'[n].as = as
  BY <1>0, Zenon
<1>2. effects' \in Seq(Effects) /\ \A i \in DOMAIN effects : effects'[i] = effects[i]
  BY <1>0
<1>3. \A d \in Calls : d # by => CT!Made(d)' = CT!Made(d)
  BY <1>1, <1>2 DEF CT!Made
<1>4. CT!Made(by)' = CT!Made(by) \cup {n}
  BY <1>1, <1>2 DEF CT!Made
<1>5. by \in Calls => CT!Carded' = CT!Carded
  BY <1>1, <1>2 DEF CT!Carded
<1>6. by \notin Calls => CT!Carded' = CT!Carded \cup {n}
  BY <1>1, <1>2 DEF CT!Carded
<1> QED
  BY <1>1, <1>2, <1>3, <1>4, <1>5, <1>6

\* What is made is made by somebody who may, and once where there is only one.
LEMMA MadeAsCaller ==
  ASSUME CT!TypeOK, NEW kind \in CT!Kinds, NEW by \in Authors, NEW as \in Makers, CT!Make(kind, by, as),
         CT!ActsAsCaller, UNCHANGED CT!given,
         (auth /\ bearer /\ kind # "trace") => as = "user",
         (as = "user" /\ kind \in CT!Guarded) => allowed,
         kind \in CT!Named => \A j \in DOMAIN effects : effects[j].kind # kind
  PROVE  CT!ActsAsCaller'
<1>0. /\ effects' \in Seq(Effects)
      /\ \E n \in Nat : /\ n \notin DOMAIN effects /\ DOMAIN effects' = DOMAIN effects \cup {n}
                        /\ effects'[n].kind = kind /\ effects'[n].by = by /\ effects'[n].as = as
      /\ \A i \in DOMAIN effects : effects'[i] = effects[i]
  BY EffectMade
<1>1. PICK n \in Nat : /\ n \notin DOMAIN effects /\ DOMAIN effects' = DOMAIN effects \cup {n}
                       /\ effects'[n].kind = kind /\ effects'[n].as = as
  BY <1>0, Zenon
<1>2. \A i \in DOMAIN effects : effects'[i] = effects[i]
  BY OneMade
<1>3. UNCHANGED <<auth, bearer, allowed>>
  BY DEF CT!given
<1>4. as # "nobody"
  BY DEF Makers
<1> SUFFICES ASSUME NEW i \in DOMAIN effects'
             PROVE  /\ (auth /\ bearer /\ effects'[i].kind # "trace") => effects'[i].as = "user"
                    /\ effects'[i].as # "nobody"
                    /\ (effects'[i].as = "user" /\ effects'[i].kind \in CT!Guarded) => allowed
                    /\ effects'[i].kind \in CT!Named =>
                         \A j \in DOMAIN effects' : effects'[j].kind = effects'[i].kind => i = j
  BY <1>3 DEF CT!ActsAsCaller, CT!Guarded, CT!Named
<1>5. CASE i = n
  <2>1. \A j \in DOMAIN effects' : (kind \in CT!Named /\ effects'[j].kind = kind) => j = n
    BY <1>1, <1>2
  <2> QED
    BY <1>1, <1>4, <1>5, <2>1
<1>6. CASE i \in DOMAIN effects
  <2>1. /\ (auth /\ bearer /\ effects[i].kind # "trace") => effects[i].as = "user"
        /\ effects[i].as # "nobody"
        /\ (effects[i].as = "user" /\ effects[i].kind \in CT!Guarded) => allowed
        /\ effects[i].kind \in CT!Named =>
             \A j \in DOMAIN effects : effects[j].kind = effects[i].kind => i = j
    BY <1>6 DEF CT!ActsAsCaller
  <2>2. effects[i].kind \in CT!Named => effects'[n].kind # effects[i].kind
    BY <1>1, <1>6
  <2> QED
    BY <1>1, <1>2, <1>6, <2>1, <2>2
<1> QED
  BY <1>1, <1>5, <1>6

\* What is made is made as the caller while nothing more is made.
LEMMA ActsStay ==
  ASSUME CT!ActsAsCaller, UNCHANGED CT!given, UNCHANGED effects
  PROVE  CT!ActsAsCaller'
<1>1. UNCHANGED <<auth, bearer, allowed>>
  BY DEF CT!given
<1> QED
  BY <1>1, Zenon DEF CT!ActsAsCaller, CT!Guarded, CT!Named

-----------------------------------------------------------------------------

Given == auth \in BOOLEAN /\ bearer \in BOOLEAN /\ token \in BOOLEAN /\ allowed \in BOOLEAN
Shows == {"none", "shown", "posting", "failed", "started"}
Started == {c \in Calls : card[c] = "started"}

\* The invariant by its parts, before a step and behind it.
LEMMA ToolParts ==
  CT!IInv <=> /\ CT!TypeOK /\ \A c \in Calls : Whole(c)
              /\ CT!ActsAsCaller /\ CT!CardsAreOfCalls /\ CT!StartsAreCounted
BY WholeCalls, Zenon DEF CT!IInv

\* The invariant behind a step, from its parts.
LEMMA ToolPartsBehind ==
  ASSUME Given', call' \in [Calls -> Entries], card' \in [Calls -> Shows], effects' \in Seq(Effects),
         presses' \in 0 .. MaxClicks, reloads' \in 0 .. MaxClicks, toolsLost' \in 0 .. MaxLost,
         \A c \in Calls : Whole(c)', CT!ActsAsCaller', CT!CardsAreOfCalls', CT!StartsAreCounted'
  PROVE  CT!IInv'
<1>1. CT!TypeOK'
  BY ZenonT(40) DEF CT!TypeOK, Entries, Places, Codes, Answers, Clients, Callers, Makers, Authors, Effects, Given, Shows
<1>2. CT!OneCallOneEffect'
  <2>1. \A c \in Calls : OneCall(c)'
    BY DEF Whole
  <2> QED
    BY <2>1 DEF CT!OneCallOneEffect, OneCall, CT!Makes
<1>3. \A c \in Calls : CT!CallIsWhole(c)'
  BY DEF Whole
<1> QED
  BY <1>1, <1>2, <1>3, Zenon DEF CT!IInv

\* The experiments started from a card, and the cards that say so, are finitely many.
LEMMA StartsAreFinite ==
  ASSUME CT!TypeOK
  PROVE  /\ IsFiniteSet(CT!Carded) /\ Cardinality(CT!Carded) \in Nat
         /\ IsFiniteSet(Started) /\ Cardinality(Started) \in Nat
         /\ toolsLost \in Nat /\ reloads \in Nat /\ CT!Carded \subseteq DOMAIN effects
<1>1. effects \in Seq(Effects) /\ toolsLost \in Nat /\ reloads \in Nat
  BY ToolTypes, ToolBounds
<1>2. CT!Carded \subseteq 1 .. Len(effects) /\ CT!Carded \subseteq DOMAIN effects
  BY <1>1 DEF CT!Carded
<1>3. IsFiniteSet(1 .. Len(effects))
  BY <1>1, FS_Interval
<1>4. IsFiniteSet(CT!Carded)
  BY <1>2, <1>3, FS_Subset
<1>5. IsFiniteSet(Started)
  BY ToolBounds, FS_Subset DEF Started
<1> QED
  BY <1>1, <1>2, <1>4, <1>5, FS_CardinalityType

\* The count of the started experiments, in one cardinality.
LEMMA StartsCounted ==
  CT!StartsAreCounted <=> Cardinality(CT!Carded) <= Cardinality(Started) + toolsLost + reloads
BY SameCardinality DEF CT!StartsAreCounted, Started

\* The count behind a step: nothing is started from a card,
LEMMA CountStays ==
  ASSUME CT!TypeOK, CT!StartsAreCounted, CT!Carded' = CT!Carded, Started' = Started,
         toolsLost' \in Nat, reloads' \in Nat, toolsLost <= toolsLost', reloads <= reloads'
  PROVE  CT!StartsAreCounted'
<1>1. Cardinality(CT!Carded) <= Cardinality(Started) + toolsLost + reloads
  BY StartsCounted
<1>2. Cardinality(CT!Carded) <= Cardinality(Started) + toolsLost' + reloads'
  BY <1>1, StartsAreFinite
<1>3. {c \in Calls : card'[c] = "started"} = Started
  BY DEF Started
<1> QED
  BY <1>2, <1>3, SameCardinality DEF CT!StartsAreCounted

\* a card forgets that it started,
LEMMA CountForgets ==
  ASSUME CT!TypeOK, CT!StartsAreCounted, NEW c \in Calls, CT!Carded' = CT!Carded,
         {d \in Calls : card'[d] = "started"} = Started \ {c},
         toolsLost' = toolsLost, reloads' = reloads + 1
  PROVE  CT!StartsAreCounted'
<1>1. Cardinality(CT!Carded) <= Cardinality(Started) + toolsLost + reloads
  BY StartsCounted
<1>2. Cardinality(Started) <= Cardinality(Started \ {c}) + 1 /\ Cardinality(Started \ {c}) \in Nat
  <2>1. /\ IsFiniteSet(Started \ {c})
        /\ Cardinality(Started \ {c}) = IF c \in Started THEN Cardinality(Started) - 1 ELSE Cardinality(Started)
    BY StartsAreFinite, FS_RemoveElement
  <2>2. Cardinality(Started \ {c}) \in Nat
    BY <2>1, FS_CardinalityType
  <2> QED
    BY <2>1, <2>2, StartsAreFinite
<1>3. Cardinality(CT!Carded) <= Cardinality(Started \ {c}) + toolsLost + (reloads + 1)
  BY <1>1, <1>2, StartsAreFinite
<1> QED
  BY <1>3, SameCardinality DEF CT!StartsAreCounted

\* or something is, and the card says so or the answer is lost.
LEMMA CountGrows ==
  ASSUME CT!TypeOK, CT!StartsAreCounted, NEW n, n \notin DOMAIN effects, CT!Carded' = CT!Carded \cup {n},
         NEW c \in Calls, c \notin Started, reloads' = reloads,
         \/ {d \in Calls : card'[d] = "started"} = Started \cup {c} /\ toolsLost' = toolsLost
         \/ {d \in Calls : card'[d] = "started"} = Started /\ toolsLost' = toolsLost + 1
  PROVE  CT!StartsAreCounted'
<1>1. Cardinality(CT!Carded) <= Cardinality(Started) + toolsLost + reloads
  BY StartsCounted
<1>2. Cardinality(CT!Carded \cup {n}) = Cardinality(CT!Carded) + 1
  BY StartsAreFinite, FS_AddElement
<1>3. Cardinality(Started \cup {c}) = Cardinality(Started) + 1
  BY StartsAreFinite, FS_AddElement
<1>4. /\ Cardinality(CT!Carded \cup {n}) <= Cardinality(Started \cup {c}) + toolsLost + reloads
      /\ Cardinality(CT!Carded \cup {n}) <= Cardinality(Started) + (toolsLost + 1) + reloads
  BY <1>1, <1>2, <1>3, StartsAreFinite
<1> QED
  BY <1>4, SameCardinality DEF CT!StartsAreCounted

-----------------------------------------------------------------------------

\* A step of a call: what it was given stays, and so do the other calls; no card
\* starts anything.
LEMMA CallStepped ==
  ASSUME CT!IInv, NEW c \in Calls, UNCHANGED CT!given, call' \in [Calls -> Entries],
         \A d \in Calls : d # c => call'[d] = call[d] /\ CT!Made(d)' = CT!Made(d),
         effects' \in Seq(Effects), \A i \in DOMAIN effects : effects'[i] = effects[i],
         CT!Carded' = CT!Carded, card' \in [Calls -> Shows], Started' = Started,
         \A d \in Calls : card'[d] = card[d] \/ (d = c /\ call'[c].at = "done"),
         call[c].at = "done" => call'[c].at = "done",
         UNCHANGED <<presses, reloads>>, toolsLost' \in 0 .. MaxLost, toolsLost <= toolsLost',
         Whole(c)', CT!ActsAsCaller'
  PROVE  CT!IInv'
<1>0. /\ CT!TypeOK /\ \A d \in Calls : Whole(d)
      /\ CT!CardsAreOfCalls /\ CT!StartsAreCounted
  BY ToolParts, Zenon
<1>1. Given' /\ presses' \in 0 .. MaxClicks /\ reloads' \in 0 .. MaxClicks
  BY <1>0, ToolTypes DEF Given, CT!given
<1>2. \A d \in Calls : Whole(d)'
  <2>1. ASSUME NEW d \in Calls, d # c PROVE Whole(d)'
    BY <1>0, <2>1, LeftAlone
  <2> QED
    BY <2>1
<1>3. CT!CardsAreOfCalls'
  BY <1>0 DEF CT!CardsAreOfCalls
<1>4. CT!StartsAreCounted'
  <2>1. toolsLost' \in Nat /\ reloads' \in Nat /\ reloads <= reloads'
    BY <1>0, ToolBounds, StartsAreFinite
  <2> QED
    BY <1>0, <2>1, CountStays
<1> QED
  BY <1>1, <1>2, <1>3, <1>4, ToolPartsBehind

\* A step of a call that makes nothing.
LEMMA CallSteppedIdly ==
  ASSUME CT!IInv, NEW c \in Calls, UNCHANGED CT!given, call' \in [Calls -> Entries],
         \A d \in Calls : d # c => call'[d] = call[d], UNCHANGED effects,
         card' \in [Calls -> Shows], Started' = Started,
         \A d \in Calls : card'[d] = card[d] \/ (d = c /\ call'[c].at = "done"),
         call[c].at = "done" => call'[c].at = "done",
         UNCHANGED <<presses, reloads>>, toolsLost' \in 0 .. MaxLost, toolsLost <= toolsLost',
         Whole(c)'
  PROVE  CT!IInv'
<1>0. CT!TypeOK /\ CT!ActsAsCaller
  BY ToolParts, Zenon
<1>1. /\ \A d : CT!Made(d)' = CT!Made(d)
      /\ CT!Carded' = CT!Carded
      /\ \A i \in DOMAIN effects : effects'[i] = effects[i]
  BY NothingMade
<1>2. effects' \in Seq(Effects)
  BY <1>0, ToolTypes
<1>3. CT!ActsAsCaller'
  BY <1>0, ActsStay
<1> QED
  BY <1>1, <1>2, <1>3, CallStepped

\* Before a step of the call: the invariant, by the parts the steps use.
LEMMA CallBefore ==
  ASSUME CT!IInv, NEW c \in Calls
  PROVE  /\ CT!TypeOK /\ Whole(c) /\ CT!ActsAsCaller /\ card \in [Calls -> Shows]
         /\ toolsLost \in 0 .. MaxLost /\ toolsLost <= toolsLost
         /\ call[c].at # "done" => card[c] = "none"
<1>1. CT!TypeOK /\ Whole(c) /\ CT!ActsAsCaller /\ CT!CardsAreOfCalls
  BY ToolParts, Zenon
<1>2. card \in [Calls -> Shows] /\ toolsLost \in 0 .. MaxLost
  BY <1>1, ToolTypes DEF Shows
<1> QED
  BY <1>1, <1>2, ToolBounds DEF CT!CardsAreOfCalls

\* The client reads the answer.
LEMMA ReceiveHolds ==
  ASSUME CT!IInv, NEW c \in Calls, CT!Receive(c) PROVE CT!IInv'
<1>0. /\ CT!TypeOK /\ Whole(c) /\ card \in [Calls -> Shows] /\ toolsLost \in 0 .. MaxLost /\ toolsLost <= toolsLost
  BY CallBefore
<1> DEFINE res == IF call[c].code = 200 THEN "ok" ELSE "error"
<1>1. /\ call[c].at = "served" /\ CT!Move(c, "done", call[c].code, res)
      /\ UNCHANGED CT!given /\ UNCHANGED card /\ UNCHANGED effects /\ UNCHANGED <<presses, reloads>>
      /\ UNCHANGED toolsLost
  BY Zenon DEF CT!Receive
<1>2. "done" \in Places /\ call[c].code \in Codes /\ res \in Answers
  BY <1>0, EntryHolds DEF Places, Answers
<1>r. (res = "ok" => call[c].code = 200) /\ (res = "none" => FALSE)
  OBVIOUS
<1> HIDE DEF res
<1>3. /\ call' \in [Calls -> Entries]
      /\ call'[c].client = call[c].client /\ call'[c].makes = call[c].makes /\ call'[c].at = "done"
      /\ call'[c].as = call[c].as /\ call'[c].code = call[c].code /\ call'[c].result = res
      /\ \A d \in Calls : d # c => call'[d] = call[d]
  BY <1>0, <1>1, <1>2, CallMoves
<1>4. CT!Made(c)' = CT!Made(c)
  BY <1>1, NothingMade
<1>5. Whole(c)'
  BY <1>0, <1>1, <1>3, <1>4, <1>r DEF Whole, OneCall, CT!CallIsWhole, CT!Makes
<1> QED
  BY <1>0, <1>1, <1>3, <1>5, CallSteppedIdly DEF Started

\* The client gives up, or the answer is lost.
LEMMA LoseHolds ==
  ASSUME CT!IInv, NEW c \in Calls, CT!Lose(c) PROVE CT!IInv'
<1>0. /\ CT!TypeOK /\ Whole(c) /\ card \in [Calls -> Shows] /\ toolsLost \in 0 .. MaxLost
      /\ call[c].at # "done" => card[c] = "none"
  BY CallBefore
<1> DEFINE place == IF call[c].at = "sent" THEN "abandoned" ELSE "done"
<1>1. /\ call[c].at \in {"sent", "served"} /\ CT!Move(c, place, 0, "error")
      /\ UNCHANGED CT!given /\ UNCHANGED card /\ UNCHANGED effects /\ UNCHANGED <<presses, reloads>>
      /\ toolsLost < MaxLost /\ toolsLost' = toolsLost + 1
  BY Zenon DEF CT!Lose
<1>2. place \in Places /\ 0 \in Codes /\ "error" \in Answers
  BY DEF Places, Answers, Codes
<1>p. (call[c].at = "sent" => place = "abandoned") /\ (call[c].at = "served" => place = "done")
  BY DEF Places
<1> HIDE DEF place
<1>3. /\ call' \in [Calls -> Entries]
      /\ call'[c].client = call[c].client /\ call'[c].makes = call[c].makes /\ call'[c].at = place
      /\ call'[c].as = call[c].as /\ call'[c].code = 0 /\ call'[c].result = "error"
      /\ \A d \in Calls : d # c => call'[d] = call[d]
  BY <1>0, <1>1, <1>2, CallMoves
<1>4. CT!Made(c)' = CT!Made(c)
  BY <1>1, NothingMade
<1>5. Whole(c)'
  BY <1>0, <1>1, <1>3, <1>4, <1>p DEF Whole, OneCall, CT!CallIsWhole, CT!Makes, CT!Principal, CT!given
<1>6. toolsLost' \in 0 .. MaxLost /\ toolsLost <= toolsLost'
  BY <1>0, <1>1, ToolBounds
<1> QED
  BY <1>0, <1>1, <1>3, <1>5, <1>6, CallSteppedIdly DEF Started

\* The API drops a request nobody waits for any more.
LEMMA DropHolds ==
  ASSUME CT!IInv, NEW c \in Calls, CT!Drop(c) PROVE CT!IInv'
<1>0. /\ CT!TypeOK /\ Whole(c) /\ card \in [Calls -> Shows] /\ toolsLost \in 0 .. MaxLost /\ toolsLost <= toolsLost
  BY CallBefore
<1>1. /\ call[c].at = "abandoned" /\ CT!Move(c, "done", 0, call[c].result)
      /\ UNCHANGED CT!given /\ UNCHANGED card /\ UNCHANGED effects /\ UNCHANGED <<presses, reloads>>
      /\ UNCHANGED toolsLost
  BY Zenon DEF CT!Drop
<1>2. "done" \in Places /\ 0 \in Codes /\ call[c].result \in Answers
  BY <1>0, EntryHolds DEF Places, Codes
<1>3. /\ call' \in [Calls -> Entries]
      /\ call'[c].client = call[c].client /\ call'[c].makes = call[c].makes /\ call'[c].at = "done"
      /\ call'[c].as = call[c].as /\ call'[c].code = 0 /\ call'[c].result = call[c].result
      /\ \A d \in Calls : d # c => call'[d] = call[d]
  BY <1>0, <1>1, <1>2, CallMoves
<1>4. CT!Made(c)' = CT!Made(c)
  BY <1>1, NothingMade
<1>5. Whole(c)'
  BY <1>0, <1>1, <1>3, <1>4 DEF Whole, OneCall, CT!CallIsWhole, CT!Makes
<1> QED
  BY <1>0, <1>1, <1>3, <1>5, CallSteppedIdly DEF Started

\* Where the answer of the API leaves a call.
LEMMA Answered ==
  ASSUME CT!TypeOK, NEW c \in Calls, NEW code \in Codes, CT!Answer(c, code), call[c].at \in {"sent", "abandoned"}
  PROVE  /\ call' \in [Calls -> Entries]
         /\ call'[c].client = call[c].client /\ call'[c].makes = call[c].makes
         /\ call'[c].as = call[c].as /\ call'[c].result = call[c].result
         /\ \/ call[c].at = "abandoned" /\ call'[c].at = "done" /\ call'[c].code = 0
            \/ call[c].at = "sent" /\ call'[c].at = "served" /\ call'[c].code = code
         /\ \A d \in Calls : d # c => call'[d] = call[d]
<1>1. "done" \in Places /\ "served" \in Places /\ 0 \in Codes /\ call[c].result \in Answers
  BY EntryHolds DEF Places, Codes
<1>2. CASE call[c].at = "abandoned"
  <2>1. CT!Move(c, "done", 0, call[c].result)
    BY <1>2 DEF CT!Answer
  <2>2. /\ call' \in [Calls -> Entries]
        /\ call'[c].client = call[c].client /\ call'[c].makes = call[c].makes /\ call'[c].at = "done"
        /\ call'[c].as = call[c].as /\ call'[c].code = 0 /\ call'[c].result = call[c].result
        /\ \A d \in Calls : d # c => call'[d] = call[d]
    BY <1>1, <2>1, CallMoves
  <2> QED
    BY <1>2, <2>2, Zenon
<1>3. CASE call[c].at = "sent"
  <2>1. CT!Move(c, "served", code, call[c].result)
    BY <1>3 DEF CT!Answer
  <2>2. /\ call' \in [Calls -> Entries]
        /\ call'[c].client = call[c].client /\ call'[c].makes = call[c].makes /\ call'[c].at = "served"
        /\ call'[c].as = call[c].as /\ call'[c].code = code /\ call'[c].result = call[c].result
        /\ \A d \in Calls : d # c => call'[d] = call[d]
    BY <1>1, <2>1, CallMoves
  <2> QED
    BY <1>3, <2>2, Zenon
<1> QED
  BY <1>2, <1>3

\* It is answered, and nothing was made of it.
LEMMA AnsweredIdly ==
  ASSUME CT!IInv, NEW c \in Calls, NEW code \in Codes, CT!Answer(c, code), call[c].at \in {"sent", "abandoned"},
         UNCHANGED <<CT!given, card, effects, presses, reloads, toolsLost>>,
         code = 200 => CT!Makes(c) \in CT!Silent
  PROVE  CT!IInv'
<1>0. /\ CT!TypeOK /\ Whole(c) /\ card \in [Calls -> Shows] /\ toolsLost \in 0 .. MaxLost /\ toolsLost <= toolsLost
  BY CallBefore
<1>1. /\ UNCHANGED CT!given /\ UNCHANGED card /\ UNCHANGED effects /\ UNCHANGED <<presses, reloads>>
      /\ UNCHANGED toolsLost
  BY Zenon
<1>3. /\ call' \in [Calls -> Entries]
      /\ call'[c].client = call[c].client /\ call'[c].makes = call[c].makes
      /\ call'[c].as = call[c].as /\ call'[c].result = call[c].result
      /\ \/ call[c].at = "abandoned" /\ call'[c].at = "done" /\ call'[c].code = 0
         \/ call[c].at = "sent" /\ call'[c].at = "served" /\ call'[c].code = code
      /\ \A d \in Calls : d # c => call'[d] = call[d]
  BY <1>0, Answered
<1>4. CT!Made(c)' = CT!Made(c)
  BY <1>1, NothingMade
<1>5. Whole(c)'
  BY <1>0, <1>1, <1>3, <1>4 DEF Whole, OneCall, CT!CallIsWhole, CT!Makes, CT!Principal, CT!given
<1> QED
  BY <1>0, <1>1, <1>3, <1>5, CallSteppedIdly DEF Started

\* The API refuses: nothing is made.
LEMMA RefuseHolds ==
  ASSUME CT!IInv, NEW c \in Calls, NEW code \in {401, 403, 404, 409, 422}, CT!Refuse(c, code) PROVE CT!IInv'
<1>1. code \in Codes /\ code # 200
  BY DEF Codes
<1> QED
  BY <1>1, AnsweredIdly DEF CT!Refuse

\* What the API does not refuse.
LEMMA NotRefused ==
  ASSUME NEW kind, NEW as, CT!Admitted(kind, as)
  PROVE  /\ as = "nobody" => kind = "health"
         /\ (as = "user" /\ kind \in CT!Guarded) => allowed
         /\ kind \in CT!Named => \A j \in DOMAIN effects : effects[j].kind # kind
<1>1. ~CT!Refusal(kind, as, 401) /\ ~CT!Refusal(kind, as, 403) /\ ~CT!Refusal(kind, as, 409)
  <2>1. 401 \in {401, 403, 409} /\ 403 \in {401, 403, 409} /\ 409 \in {401, 403, 409}
    OBVIOUS
  <2> QED
    BY <2>1, ZenonT(40) DEF CT!Admitted
<1>2. as = "nobody" => kind = "health"
  BY <1>1 DEF CT!Refusal
<1>3. (as = "user" /\ kind \in CT!Guarded) => allowed
  BY <1>1 DEF CT!Refusal
<1>4. ~(kind \in CT!Named /\ \E i \in DOMAIN effects : effects[i].kind = kind)
  BY <1>1 DEF CT!Refusal
<1> QED
  BY <1>2, <1>3, <1>4

\* What a call makes is its own.
LEMMA CallMade ==
  ASSUME CT!TypeOK, NEW c \in Calls, NEW kind \in CT!Kinds, NEW as \in Makers, CT!Make(kind, c, as)
  PROVE  /\ effects' \in Seq(Effects)
         /\ \A i \in DOMAIN effects : effects'[i] = effects[i]
         /\ \A d \in Calls : d # c => CT!Made(d)' = CT!Made(d)
         /\ CT!Carded' = CT!Carded
         /\ \E n \in Nat : effects'[n].kind = kind /\ CT!Made(c)' = CT!Made(c) \cup {n}
<1>1. c \in Authors
  BY DEF Authors
<1>2. CT!Carded' = CT!Carded
  BY <1>1, OneMade
<1>3. effects' \in Seq(Effects)
  BY <1>1, OneMade
<1>4. \A i \in DOMAIN effects : effects'[i] = effects[i]
  BY <1>1, OneMade
<1>5. \A d \in Calls : d # c => CT!Made(d)' = CT!Made(d)
  BY <1>1, OneMade
<1>6. \E n \in Nat : effects'[n].kind = kind /\ CT!Made(c)' = CT!Made(c) \cup {n}
  BY <1>1, OneMade
<1> QED
  BY <1>2, <1>3, <1>4, <1>5, <1>6, Zenon

\* It is answered, and what it was sent for was made, as whom it was sent.
LEMMA AnsweredAndMade ==
  ASSUME CT!IInv, NEW c \in Calls, NEW code \in {200, 500}, CT!Answer(c, code), call[c].at \in {"sent", "abandoned"},
         NEW kind \in CT!Kinds, kind = call[c].makes, NEW as, as = call[c].as,
         CT!Admitted(kind, as), kind \notin CT!Silent, CT!Make(kind, c, as),
         UNCHANGED <<CT!given, card, presses, reloads, toolsLost>>
  PROVE  CT!IInv'
<1>0. /\ CT!TypeOK /\ Whole(c) /\ CT!ActsAsCaller /\ card \in [Calls -> Shows]
      /\ toolsLost \in 0 .. MaxLost /\ toolsLost <= toolsLost
  BY CallBefore
<1>1. UNCHANGED CT!given /\ UNCHANGED card /\ UNCHANGED <<presses, reloads>> /\ UNCHANGED toolsLost
  BY Zenon
<1>2. PICK client \in Clients : client = call[c].client
  BY <1>0, EntryHolds
<1>3. c \in Authors /\ code \in Codes
  BY DEF Authors, Codes
<1>4. /\ as = "nobody" => kind = "health"
      /\ (as = "user" /\ kind \in CT!Guarded) => allowed
      /\ kind \in CT!Named => \A j \in DOMAIN effects : effects[j].kind # kind
  BY NotRefused
<1>5. as = CT!Principal(client) /\ kind \notin CT!NoRequest
  BY <1>0, <1>2 DEF Whole, CT!CallIsWhole, CT!Makes
<1>a. as # "nobody"
  BY <1>4 DEF CT!Silent
<1>6. as \in Makers
  BY <1>5, <1>a DEF CT!Principal, Makers
<1>b. (auth /\ bearer /\ kind # "trace") => as = "user"
  BY <1>5, <1>a DEF CT!Principal
<1>7. /\ call' \in [Calls -> Entries]
      /\ call'[c].client = call[c].client /\ call'[c].makes = call[c].makes
      /\ call'[c].as = call[c].as /\ call'[c].result = call[c].result
      /\ \/ call[c].at = "abandoned" /\ call'[c].at = "done" /\ call'[c].code = 0
         \/ call[c].at = "sent" /\ call'[c].at = "served" /\ call'[c].code = code
      /\ \A d \in Calls : d # c => call'[d] = call[d]
  BY <1>0, <1>3, Answered
<1>8. /\ effects' \in Seq(Effects)
      /\ \A i \in DOMAIN effects : effects'[i] = effects[i]
      /\ \A d \in Calls : d # c => CT!Made(d)' = CT!Made(d)
      /\ CT!Carded' = CT!Carded
      /\ \E n \in Nat : effects'[n].kind = kind /\ CT!Made(c)' = CT!Made(c) \cup {n}
  BY <1>0, <1>6, CallMade
<1>9. CT!ActsAsCaller'
  BY <1>0, <1>1, <1>3, <1>4, <1>6, <1>b, MadeAsCaller
<1>10. Whole(c)'
  <2>1. PICK n \in Nat : effects'[n].kind = kind /\ CT!Made(c)' = CT!Made(c) \cup {n}
    BY <1>8, Zenon
  <2>2. CT!Made(c) = {}
    BY <1>0 DEF Whole, CT!CallIsWhole
  <2>3. CT!Made(c)' = {n}
    BY <2>1, <2>2
  <2>4. /\ \A i, j \in CT!Made(c)' : i = j
        /\ \A i \in CT!Made(c)' : effects'[i].kind = call'[c].makes
        /\ call'[c].makes \notin CT!Silent \cup CT!NoRequest /\ CT!Made(c)' # {}
        /\ call'[c].code \notin {401, 403, 404, 409, 422}
    BY <1>5, <1>7, <2>1, <2>3
  <2>5. OneCall(c)'
    BY <2>4 DEF OneCall, CT!Silent, CT!NoRequest
  <2>6. CT!CallIsWhole(c)'
    BY <1>0, <1>1, <1>7, <2>4 DEF Whole, CT!CallIsWhole, CT!Makes, CT!Principal, CT!given
  <2> QED
    BY <2>5, <2>6 DEF Whole
<1> QED
  BY <1>0, <1>1, <1>7, <1>8, <1>9, <1>10, CallStepped DEF Started

\* The API does what a tool asks for, or breaks after it.
LEMMA ServedHolds ==
  ASSUME CT!IInv, NEW c \in Calls, CT!Accept(c) \/ CT!Break(c) PROVE CT!IInv'
<1>1. CASE CT!Accept(c) /\ CT!Makes(c) \in CT!Silent
  <2>1. 200 \in Codes
    BY DEF Codes
  <2> QED
    BY <1>1, <2>1, AnsweredIdly DEF CT!Accept
<1>0. PICK kind \in CT!Kinds, as \in Callers : kind = call[c].makes /\ as = call[c].as
  BY CallBefore, EntryHolds
<1>2. CASE CT!Accept(c) /\ CT!Makes(c) \notin CT!Silent
  <2>1. /\ CT!Admitted(kind, as) /\ kind \notin CT!Silent /\ CT!Make(kind, c, as) /\ CT!Answer(c, 200)
        /\ call[c].at \in {"sent", "abandoned"} /\ UNCHANGED <<CT!given, card, presses, reloads, toolsLost>>
    BY <1>0, <1>2 DEF CT!Accept, CT!Makes
  <2> QED
    BY <1>0, <2>1, AnsweredAndMade
<1>3. CASE CT!Break(c) /\ CT!Makes(c) \notin CT!Silent /\ CT!Make(CT!Makes(c), c, call[c].as)
  <2>1. /\ CT!Admitted(kind, as) /\ kind \notin CT!Silent /\ CT!Make(kind, c, as) /\ CT!Answer(c, 500)
        /\ call[c].at \in {"sent", "abandoned"} /\ UNCHANGED <<CT!given, card, presses, reloads, toolsLost>>
    BY <1>0, <1>3 DEF CT!Break, CT!Makes
  <2> QED
    BY <1>0, <2>1, AnsweredAndMade
<1>4. CASE CT!Break(c) /\ UNCHANGED effects
  <2>1. 500 \in Codes /\ 500 # 200
    BY DEF Codes
  <2> QED
    BY <1>4, <2>1, AnsweredIdly DEF CT!Break
<1> QED
  BY <1>1, <1>2, <1>3, <1>4, Zenon DEF CT!Break

-----------------------------------------------------------------------------

\* What the tools make is of a kind the types know.
LEMMA KindsOfTools ==
  /\ CT!Image(CT!Tools("chat")) \subseteq CT!Kinds /\ CT!Image(CT!Tools("mcp")) \subseteq CT!Kinds
  /\ CT!Image(CT!ChatProposal) = {"trace"} /\ "trace" \in CT!Kinds /\ "session" \in CT!Kinds
<1>1. CT!Tools("chat") = CT!ChatTools /\ CT!Tools("mcp") = CT!McpTools
  BY DEF CT!Tools
<1>2. CT!Image(CT!ChatProposal) = {"trace"}
  BY DEF CT!Image, CT!ChatProposal
<1>3. /\ CT!Image(CT!ChatTools) \subseteq CT!Kinds /\ CT!Image(CT!McpTools) \subseteq CT!Kinds
      /\ CT!Image(CT!ChatProposal) \subseteq CT!Kinds /\ "session" \in CT!Kinds
  BY Zenon DEF CT!Kinds
<1> QED
  BY <1>1, <1>2, <1>3

\* A tool of the chat or of MCP is invoked.
LEMMA InvokeHolds ==
  ASSUME CT!IInv, NEW c \in Calls, NEW client \in {"chat", "mcp"}, NEW makes \in CT!Image(CT!Tools(client)),
         CT!Invoke(c, client, makes)
  PROVE  CT!IInv'
<1>0. /\ CT!TypeOK /\ Whole(c) /\ card \in [Calls -> Shows] /\ toolsLost \in 0 .. MaxLost /\ toolsLost <= toolsLost
      /\ call[c].at # "done" => card[c] = "none"
  BY CallBefore
<1>1. /\ UNCHANGED CT!given /\ UNCHANGED effects /\ UNCHANGED <<presses, reloads>> /\ UNCHANGED toolsLost
      /\ call[c].at = "idle"
  BY Zenon DEF CT!Invoke
<1>2. PICK as \in Callers : as = CT!Principal(client)
  BY DEF Callers, CT!Principal
<1>3. PICK place \in {"done", "sent"}, res \in Answers :
        /\ CT!Begin(c, client, makes, place, as, res)
        /\ \/ makes = "card" /\ place = "done" /\ res = "envelope" /\ card' = [card EXCEPT ![c] = "shown"]
           \/ makes = "answer" /\ place = "done" /\ res = "ok" /\ UNCHANGED card
           \/ makes \notin CT!NoRequest /\ place = "done" /\ res = "error" /\ UNCHANGED card
           \/ makes \notin CT!NoRequest /\ place = "sent" /\ res = "none" /\ UNCHANGED card
  <2>1. "envelope" \in Answers /\ "ok" \in Answers /\ "error" \in Answers /\ "none" \in Answers
    BY DEF Answers
  <2> QED
    BY <1>2, <2>1 DEF CT!Invoke
<1>4. /\ client \in Clients /\ client # "none" /\ makes \in CT!Kinds /\ place \in Places /\ 0 \in Codes
  BY KindsOfTools DEF Clients, Places, Codes
<1>6. /\ call' \in [Calls -> Entries]
      /\ call'[c].client = client /\ call'[c].makes = makes /\ call'[c].at = place
      /\ call'[c].as = as /\ call'[c].code = 0 /\ call'[c].result = res
      /\ \A d \in Calls : d # c => call'[d] = call[d]
  BY <1>0, <1>3, <1>4, CallBegins
<1>7. CT!Made(c)' = CT!Made(c)
  BY <1>1, NothingMade
<1>8. Whole(c)'
  <2>1. CT!Made(c) = {}
    BY <1>0, <1>1 DEF Whole, CT!CallIsWhole
  <2>2. OneCall(c)'
    BY <1>3, <1>6, <1>7, <2>1 DEF OneCall, CT!NoRequest
  <2>3. CT!CallIsWhole(c)'
    BY <1>1, <1>2, <1>3, <1>4, <1>6, <1>7, <2>1 DEF CT!CallIsWhole, CT!Makes, CT!Principal, CT!given
  <2> QED
    BY <2>2, <2>3 DEF Whole
<1>9. /\ card' \in [Calls -> Shows] /\ Started' = Started
      /\ \A d \in Calls : card'[d] = card[d] \/ (d = c /\ call'[c].at = "done")
  <2>1. CASE place = "done" /\ card' = [card EXCEPT ![c] = "shown"]
    BY <1>0, <1>1, <1>6, <2>1 DEF Shows, Started
  <2>2. CASE UNCHANGED card
    BY <1>0, <2>2 DEF Started
  <2> QED
    BY <1>3, <2>1, <2>2
<1> QED
  BY <1>0, <1>1, <1>6, <1>8, <1>9, CallSteppedIdly

\* A proposal shows a card and makes nothing.
LEMMA ProposeHolds ==
  ASSUME CT!IInv, NEW c \in Calls, CT!Propose(c) PROVE CT!IInv'
<1>0. /\ CT!TypeOK /\ Whole(c) /\ CT!ActsAsCaller /\ card \in [Calls -> Shows]
      /\ toolsLost \in 0 .. MaxLost /\ toolsLost <= toolsLost
  BY CallBefore
<1>1. UNCHANGED CT!given /\ UNCHANGED card /\ UNCHANGED <<presses, reloads>> /\ UNCHANGED toolsLost
      /\ call[c].at = "idle"
  BY Zenon DEF CT!Propose
<1>2. PICK res \in {"ok", "error"} :
        /\ CT!Begin(c, "chat", "trace", "done", "none", res)
        /\ CT!Make("trace", c, "process") \/ (res = "error" /\ UNCHANGED effects)
  BY KindsOfTools DEF CT!Propose
<1>3. /\ "chat" \in Clients /\ "trace" \in CT!Kinds /\ "done" \in Places /\ "none" \in Callers /\ 0 \in Codes
      /\ res \in Answers /\ c \in Authors /\ "process" \in Makers
      /\ "trace" \notin CT!Silent \cup CT!NoRequest /\ "trace" \notin CT!Named
  BY KindsOfTools DEF Clients, Places, Callers, Codes, Answers, Authors, Makers, CT!Silent, CT!NoRequest, CT!Named
<1>5. /\ call' \in [Calls -> Entries]
      /\ call'[c].client = "chat" /\ call'[c].makes = "trace" /\ call'[c].at = "done"
      /\ call'[c].as = "none" /\ call'[c].code = 0 /\ call'[c].result = res
      /\ \A d \in Calls : d # c => call'[d] = call[d]
  BY <1>0, <1>2, <1>3, CallBegins
<1>6. CT!Made(c) = {}
  BY <1>0, <1>1 DEF Whole, CT!CallIsWhole
<1>7. CASE res = "error" /\ UNCHANGED effects
  <2>1. CT!Made(c)' = CT!Made(c)
    BY <1>7, NothingMade
  <2>2. Whole(c)'
    BY <1>5, <1>6, <1>7, <2>1 DEF Whole, OneCall, CT!CallIsWhole, CT!Makes
  <2> QED
    BY <1>0, <1>1, <1>5, <1>7, <2>2, CallSteppedIdly DEF Started
<1>8. CASE CT!Make("trace", c, "process")
  <2>1. /\ effects' \in Seq(Effects)
        /\ \A i \in DOMAIN effects : effects'[i] = effects[i]
        /\ \A d \in Calls : d # c => CT!Made(d)' = CT!Made(d)
        /\ CT!Carded' = CT!Carded
        /\ \E n \in Nat : effects'[n].kind = "trace" /\ CT!Made(c)' = CT!Made(c) \cup {n}
    BY <1>0, <1>3, <1>8, CallMade
  <2>2. CT!ActsAsCaller'
    BY <1>0, <1>1, <1>3, <1>8, MadeAsCaller
  <2>3. PICK n \in Nat : effects'[n].kind = "trace" /\ CT!Made(c)' = CT!Made(c) \cup {n}
    BY <2>1, Zenon
  <2>4. CT!Made(c)' = {n}
    BY <1>6, <2>3
  <2>5. Whole(c)'
    BY <1>3, <1>5, <2>3, <2>4 DEF Whole, OneCall, CT!CallIsWhole, CT!Makes
  <2> QED
    BY <1>0, <1>1, <1>5, <2>1, <2>2, <2>5, CallStepped DEF Started
<1> QED
  BY <1>2, <1>7, <1>8

\* The user presses the card, the API deals with it, or the page is reloaded.
LEMMA CardHolds ==
  ASSUME CT!IInv, NEW c \in Calls, CT!PressStart(c) \/ CT!ServeCard(c) \/ CT!Reload(c) PROVE CT!IInv'
<1>0. /\ CT!TypeOK /\ \A d \in Calls : Whole(d)
      /\ CT!ActsAsCaller /\ CT!CardsAreOfCalls /\ CT!StartsAreCounted
  BY ToolParts, Zenon
<1>1. /\ Given /\ call \in [Calls -> Entries] /\ card \in [Calls -> Shows] /\ effects \in Seq(Effects)
      /\ presses \in 0 .. MaxClicks /\ reloads \in 0 .. MaxClicks /\ toolsLost \in 0 .. MaxLost
  BY <1>0, ToolTypes DEF Given, Shows
<1>2. UNCHANGED CT!given /\ UNCHANGED call /\ card[c] # "none"
  BY Zenon DEF CT!PressStart, CT!ServeCard, CT!Reload
<1>3. Given' /\ call' \in [Calls -> Entries]
  BY <1>1, <1>2 DEF Given, CT!given
<1>4. card' \in [Calls -> Shows] /\ \A d \in Calls : d # c => card'[d] = card[d]
  BY <1>1 DEF CT!PressStart, CT!ServeCard, CT!Reload, Shows
<1>5. CT!CardsAreOfCalls'
  BY <1>0, <1>2, <1>4 DEF CT!CardsAreOfCalls
<1>6. ASSUME UNCHANGED effects
      PROVE  /\ \A d \in Calls : Whole(d)'
             /\ CT!ActsAsCaller' /\ CT!Carded' = CT!Carded /\ effects' \in Seq(Effects)
  <2>1. /\ \A d : CT!Made(d)' = CT!Made(d)
        /\ CT!Carded' = CT!Carded
        /\ \A i \in DOMAIN effects : effects'[i] = effects[i]
    BY <1>6, NothingMade
  <2>2. \A d \in Calls : Whole(d)'
    BY <1>0, <1>2, <2>1, LeftAlone
  <2>3. CT!ActsAsCaller'
    BY <1>0, <1>2, <1>6, ActsStay
  <2> QED
    BY <1>1, <1>6, <2>1, <2>2, <2>3
<1>7. CASE CT!PressStart(c)
  <2>1. /\ UNCHANGED effects /\ UNCHANGED reloads /\ UNCHANGED toolsLost
        /\ card[c] \in {"shown", "failed"} /\ presses < MaxClicks /\ presses' = presses + 1
        /\ card' = [card EXCEPT ![c] = "posting"]
    BY <1>7, Zenon DEF CT!PressStart
  <2>2. presses' \in 0 .. MaxClicks /\ Started' = Started
    BY <1>1, <2>1, ToolBounds DEF Started
  <2>3. toolsLost' \in Nat /\ reloads' \in Nat /\ toolsLost <= toolsLost' /\ reloads <= reloads'
    BY <1>1, <2>1, ToolBounds
  <2>4. CT!StartsAreCounted'
    BY <1>0, <1>6, <2>1, <2>2, <2>3, CountStays
  <2> QED
    BY <1>1, <1>3, <1>4, <1>5, <1>6, <2>1, <2>2, <2>4, ToolPartsBehind
<1>8. CASE CT!Reload(c)
  <2>1. /\ UNCHANGED effects /\ UNCHANGED presses /\ UNCHANGED toolsLost
        /\ reloads < MaxClicks /\ reloads' = reloads + 1
        /\ card' = [card EXCEPT ![c] = "shown"]
    BY <1>8, Zenon DEF CT!Reload
  <2>2. reloads' \in 0 .. MaxClicks /\ {d \in Calls : card'[d] = "started"} = Started \ {c}
    BY <1>1, <2>1, ToolBounds DEF Started
  <2>3. CT!StartsAreCounted'
    BY <1>0, <1>6, <2>1, <2>2, CountForgets
  <2> QED
    BY <1>1, <1>3, <1>4, <1>5, <1>6, <2>1, <2>2, <2>3, ToolPartsBehind
<1>9. CASE CT!ServeCard(c) /\ UNCHANGED effects /\ UNCHANGED toolsLost /\ card' = [card EXCEPT ![c] = "failed"]
  <2>1. UNCHANGED presses /\ UNCHANGED reloads /\ card[c] = "posting"
    BY <1>9, Zenon DEF CT!ServeCard
  <2>2. Started' = Started
    BY <1>1, <1>9, <2>1 DEF Started
  <2>3. toolsLost' \in Nat /\ reloads' \in Nat /\ toolsLost <= toolsLost' /\ reloads <= reloads'
    BY <1>1, <1>9, <2>1, ToolBounds
  <2>4. CT!StartsAreCounted'
    BY <1>0, <1>6, <1>9, <2>2, <2>3, CountStays
  <2> QED
    BY <1>1, <1>3, <1>4, <1>5, <1>6, <1>9, <2>1, <2>4, ToolPartsBehind
<1>10. ASSUME CT!ServeCard(c), CT!Admitted("session", CT!BrowserUser), CT!Make("session", CT!CardOf(c), CT!BrowserUser)
       PROVE  CT!IInv'
  <2>1. /\ UNCHANGED presses /\ UNCHANGED reloads /\ card[c] = "posting"
    BY <1>10, Zenon DEF CT!ServeCard
  <2>2. PICK as \in Makers : as = CT!BrowserUser /\ (auth => as = "user")
    BY DEF CT!BrowserUser, Makers
  <2>3. CT!Make("session", CT!CardOf(c), as) /\ CT!Admitted("session", as)
    BY <1>10, <2>2
  <2>4. PICK by \in Authors : by = CT!CardOf(c) /\ by \notin Calls
    BY ToolBounds DEF Authors
  <2>5. CT!Make("session", by, as) /\ "session" \in CT!Kinds /\ "session" \notin CT!Named
    BY <2>3, <2>4, KindsOfTools DEF CT!Named
  <2>6. (as = "user" /\ "session" \in CT!Guarded) => allowed
    BY <2>3, NotRefused
  <2>7. CT!ActsAsCaller'
    BY <1>0, <1>2, <2>2, <2>5, <2>6, MadeAsCaller
  <2>8. effects' \in Seq(Effects)
    BY <1>0, <2>5, OneMade
  <2>9. \A i \in DOMAIN effects : effects'[i] = effects[i]
    BY <1>0, <2>5, OneMade
  <2>10. \A d \in Calls : d # by => CT!Made(d)' = CT!Made(d)
    BY <1>0, <2>5, OneMade
  <2>11. \E n \in Nat : n \notin DOMAIN effects /\ (by \notin Calls => CT!Carded' = CT!Carded \cup {n})
    BY <1>0, <2>5, OneMade
  <2>12. \A d \in Calls : Whole(d)'
    BY <1>0, <1>2, <2>4, <2>9, <2>10, LeftAlone
  <2>13. c \notin Started
    BY <2>1 DEF Started
  <2>14. PICK n \in Nat : n \notin DOMAIN effects /\ CT!Carded' = CT!Carded \cup {n}
    BY <2>4, <2>11
  <2>15. /\ toolsLost' \in 0 .. MaxLost
         /\ \/ {d \in Calls : card'[d] = "started"} = Started \cup {c} /\ toolsLost' = toolsLost
            \/ {d \in Calls : card'[d] = "started"} = Started /\ toolsLost' = toolsLost + 1
    <3>1. CASE card' = [card EXCEPT ![c] = "started"] /\ UNCHANGED toolsLost
      BY <1>1, <3>1 DEF Started
    <3>2. CASE toolsLost < MaxLost /\ toolsLost' = toolsLost + 1 /\ card' = [card EXCEPT ![c] = "failed"]
      BY <1>1, <2>1, <3>2, ToolBounds DEF Started
    <3>3. CASE UNCHANGED effects
      <4>1. \E m \in Nat : m \notin DOMAIN effects /\ DOMAIN effects' = DOMAIN effects \cup {m}
        BY <1>0, <2>5, OneMade
      <4> QED
        BY <3>3, <4>1
    <3> QED
      BY <1>10, <3>1, <3>2, <3>3, Zenon DEF CT!ServeCard
  <2>16. CT!StartsAreCounted'
    BY <1>0, <2>1, <2>13, <2>14, <2>15, CountGrows
  <2> QED
    BY <1>1, <1>3, <1>4, <1>5, <2>1, <2>7, <2>8, <2>12, <2>15, <2>16, ToolPartsBehind
<1> QED
  BY <1>7, <1>8, <1>9, <1>10, Zenon DEF CT!ServeCard

-----------------------------------------------------------------------------

\* No tool is called at first.
LEMMA ToolsInit == CT!Init => CT!IInv
<1> SUFFICES ASSUME CT!Init PROVE CT!IInv
  OBVIOUS
<1>1. /\ Given /\ call = [c \in Calls |-> CT!Unused] /\ card = [c \in Calls |-> "none"] /\ effects = <<>>
      /\ presses = 0 /\ reloads = 0 /\ toolsLost = 0
  BY Zenon DEF CT!Init, Given
<1>2. CT!Unused \in Entries /\ CT!Unused.at = "idle" /\ CT!Unused.code = 0 /\ CT!Unused.result = "none"
  <2>1. "nothing" \in CT!Kinds
    BY Zenon DEF CT!Kinds
  <2> QED
    BY <2>1 DEF CT!Unused, Entries, Places, Codes, Answers, Clients, Callers
<1>3. CT!TypeOK
  <2>1. call \in [Calls -> Entries] /\ card \in [Calls -> {"none", "shown", "posting", "failed", "started"}]
    BY <1>1, <1>2
  <2>2. effects \in Seq(Effects)
    BY <1>1
  <2>3. presses \in 0 .. MaxClicks /\ reloads \in 0 .. MaxClicks /\ toolsLost \in 0 .. MaxLost
    BY <1>1, ToolBounds
  <2> QED
    BY <1>1, <2>1, <2>2, <2>3, ToolTypes, Zenon DEF Given
<1>4. DOMAIN effects = {}
  BY <1>1
<1>5. \A c \in Calls : Whole(c)
  BY <1>1, <1>2, <1>4 DEF Whole, OneCall, CT!CallIsWhole, CT!Made
<1>6. CT!ActsAsCaller /\ CT!CardsAreOfCalls
  BY <1>1, <1>4 DEF CT!ActsAsCaller, CT!CardsAreOfCalls
<1>7. CT!StartsAreCounted
  <2>1. CT!Carded = {}
    BY <1>4 DEF CT!Carded
  <2>2. Cardinality(CT!Carded) = 0
    BY <2>1, FS_EmptySet
  <2> QED
    BY <1>3, <1>1, <2>2, StartsCounted, StartsAreFinite
<1> QED
  BY <1>3, <1>5, <1>6, <1>7, ToolParts

\* The invariant of the tools survives every step of a client, of the API and of the user.
LEMMA ToolsStep == CT!IInv /\ [CT!Next]_CT!vars => CT!IInv'
<1> SUFFICES ASSUME CT!IInv, [CT!Next]_CT!vars PROVE CT!IInv'
  OBVIOUS
<1>1. CASE UNCHANGED CT!vars
  <2>0. /\ CT!TypeOK /\ \A d \in Calls : Whole(d)
        /\ CT!ActsAsCaller /\ CT!CardsAreOfCalls /\ CT!StartsAreCounted
    BY ToolParts, Zenon
  <2>1. /\ UNCHANGED CT!given /\ UNCHANGED call /\ UNCHANGED card /\ UNCHANGED effects
        /\ UNCHANGED <<auth, bearer, token, allowed>> /\ UNCHANGED <<presses, reloads, toolsLost>>
    BY <1>1, Zenon DEF CT!vars, CT!given
  <2>2. /\ Given' /\ call' \in [Calls -> Entries] /\ card' \in [Calls -> Shows] /\ effects' \in Seq(Effects)
        /\ presses' \in 0 .. MaxClicks /\ reloads' \in 0 .. MaxClicks /\ toolsLost' \in 0 .. MaxLost
    BY <2>0, <2>1, ToolTypes, Zenon DEF Given, Shows
  <2>3. \A d \in Calls : Whole(d)'
    BY <2>0, <2>1, NothingMade, LeftAlone
  <2>4. CT!ActsAsCaller'
    BY <2>0, <2>1, ActsStay
  <2>5. CT!CardsAreOfCalls'
    BY <2>0, <2>1 DEF CT!CardsAreOfCalls
  <2>6. CT!StartsAreCounted'
    BY <2>0, <2>1, Zenon DEF CT!StartsAreCounted, CT!Carded
  <2> QED
    BY <2>2, <2>3, <2>4, <2>5, <2>6, ToolPartsBehind
<1>2. ASSUME NEW c \in Calls, NEW client \in {"chat", "mcp"}, NEW makes \in CT!Image(CT!Tools(client)),
             CT!Invoke(c, client, makes)
      PROVE  CT!IInv'
  BY <1>2, InvokeHolds
<1>3. ASSUME NEW c \in Calls, NEW code \in {401, 403, 404, 409, 422}, CT!Refuse(c, code) PROVE CT!IInv'
  BY <1>3, RefuseHolds
<1>4. ASSUME NEW c \in Calls,
             \/ CT!Propose(c) \/ CT!Accept(c) \/ CT!Break(c) \/ CT!Receive(c) \/ CT!Lose(c) \/ CT!Drop(c)
             \/ CT!PressStart(c) \/ CT!ServeCard(c) \/ CT!Reload(c)
      PROVE  CT!IInv'
  <2>1. CASE CT!PressStart(c) \/ CT!ServeCard(c) \/ CT!Reload(c)
    BY <2>1, CardHolds
  <2>2. CASE CT!Accept(c) \/ CT!Break(c)
    BY <2>2, ServedHolds
  <2> QED
    BY <1>4, <2>1, <2>2, ProposeHolds, ReceiveHolds, LoseHolds, DropHolds
<1>5. CASE CT!Next
  <2>1. PICK c \in Calls :
          \/ \E client \in {"chat", "mcp"} : \E makes \in CT!Image(CT!Tools(client)) : CT!Invoke(c, client, makes)
          \/ CT!Propose(c)
          \/ CT!Accept(c) \/ (\E code \in {401, 403, 404, 409, 422} : CT!Refuse(c, code)) \/ CT!Break(c)
          \/ CT!Receive(c) \/ CT!Lose(c) \/ CT!Drop(c)
          \/ CT!PressStart(c) \/ CT!ServeCard(c) \/ CT!Reload(c)
    BY <1>5, Zenon DEF CT!Next
  <2> QED
    BY <2>1, <1>2, <1>3, <1>4
<1> QED
  BY <1>1, <1>5

\* What the invariant comes to: the calls are true, and so are the cards.
LEMMA ToolsHold == CT!IInv => CT!ToolCallsAreTrue
<1> SUFFICES ASSUME CT!IInv PROVE CT!ToolCallsAreTrue
  OBVIOUS
<1>1. CT!TypeOK /\ CT!StartsAreCounted /\ CT!OneCallOneEffect /\ CT!ActsAsCaller
  BY Zenon DEF CT!IInv
<1> DEFINE shown == {c \in Calls : card[c] # "none"}
<1>2. Cardinality(Started) <= Cardinality(shown) /\ Cardinality(shown) \in Nat
  <2>1. Started \subseteq shown
    BY DEF Started
  <2>2. IsFiniteSet(shown)
    BY ToolBounds, FS_Subset
  <2> QED
    BY <2>1, <2>2, FS_Subset, FS_CardinalityType
<1>3. Cardinality(CT!Carded) <= Cardinality(shown) + toolsLost + reloads
  BY <1>1, <1>2, StartsCounted, StartsAreFinite
<1>4. CT!CardStartsOne
  BY <1>3, SameCardinality DEF CT!CardStartsOne
<1> QED
  BY <1>1, <1>4 DEF CT!ToolCallsAreTrue

-----------------------------------------------------------------------------
(* All of them                                                             *)

\* The invariants of the five parts, which share no variable.
ExportsInv == IInv /\ AS!IInv /\ TJ!IInv /\ WC!IInv /\ CT!IInv

\* They hold whichever part a behaviour exercises.
THEOREM ExportsInvariance == ExportsSpec => []ExportsInv
<1>1. ExportsInit => ExportsInv
  BY QueueInit, ArtifactsInit, TrainInit, BeatsInit, ToolsInit, Zenon DEF ExportsInit, ExportsInv
<1>2. ExportsInv /\ [ExportsNext]_allVars => ExportsInv'
  <2> SUFFICES ASSUME IInv, AS!IInv, TJ!IInv, WC!IInv, CT!IInv, [ExportsNext]_allVars
               PROVE  IInv' /\ AS!IInv' /\ TJ!IInv' /\ WC!IInv' /\ CT!IInv'
    BY Zenon DEF ExportsInv
  <2>1. /\ [Next]_vars /\ [AS!Next]_(AS!vars) /\ [TJ!Next]_(TJ!vars)
        /\ [WC!Next]_(WC!vars) /\ [CT!Next]_(CT!vars)
    <3>1. UNCHANGED syncVars => UNCHANGED AS!vars
      BY DEF syncVars, AS!vars, AS!rowVars, AS!storeVars, AS!syncVars, AS!histVars
    <3>2. UNCHANGED trainVars => UNCHANGED TJ!vars
      BY DEF trainVars, TJ!vars
    <3>3. UNCHANGED beatVars => UNCHANGED WC!vars
      BY DEF beatVars, WC!vars
    <3>4. UNCHANGED toolVars => UNCHANGED CT!vars
      BY DEF toolVars, CT!vars, CT!given
    <3>5. /\ (Next \/ UNCHANGED vars) /\ (AS!Next \/ UNCHANGED syncVars)
          /\ (TJ!Next \/ UNCHANGED trainVars) /\ (WC!Next \/ UNCHANGED beatVars)
          /\ (CT!Next \/ UNCHANGED toolVars)
      BY DEF ExportsNext, allVars
    <3> QED
      BY <3>1, <3>2, <3>3, <3>4, <3>5, Zenon
  <2> QED
    BY <2>1, QueueStep, ArtifactsStep, TrainStep, BeatsStep, ToolsStep, Zenon
<1> QED
  BY <1>1, <1>2, PTL DEF ExportsSpec

\* No step of a part leaves the types.
THEOREM ExportsTypes == ExportsSpec => []ExportsTypeOK
<1>1. ExportsInv => ExportsTypeOK
  BY Zenon DEF ExportsInv, IInv, AS!IInv, TJ!IInv, WC!IInv, CT!IInv, ExportsTypeOK
<1> QED
  BY <1>1, ExportsInvariance, PTL

\* For any losses, number of iterations and lost requests: a dataset with a batch of
\* each split is accepted, what a completed run says of its losses is what was printed
\* and stored last, and a run that came back has its verdict; and a completed run's
\* files are in the store unless a task or the store failed them (run_training_job,
\* _safe_val_batches, storage_sync).
THEOREM TrainingStaysTrue == ExportsSpec => []TrainingArrives
<1>1. ExportsInv => TrainingArrives
  BY TrainHolds, ArtifactsHold, Zenon DEF ExportsInv, TrainingArrives
<1> QED
  BY <1>1, ExportsInvariance, PTL

\* Whatever the intervals and timeouts are, as long as a row outlives two intervals and
\* a timeout: a worker that lives and whose posts get through, one failure apart, is
\* shown running, and none is shown where none has lived that long (_heartbeat_loop,
\* workers.py).
THEOREM WorkersStayShown == ExportsSpec => []WorkersAreShown
<1>1. ExportsInv => WorkersAreShown
  BY BeatsAreShown, Zenon DEF ExportsInv, WorkersAreShown
<1> QED
  BY <1>1, ExportsInvariance, PTL

\* However many calls, presses, reloads and lost answers: a call that is said to have
\* made something made it once and as its caller, and a card starts no more experiments
\* than its presses, lost answers and reloads account for (agent tools, MCP server).
THEOREM ToolCallsStayTrue == ExportsSpec => []ToolCallsAreTrue
<1>1. ExportsInv => ToolCallsAreTrue
  BY ToolsHold, Zenon DEF ExportsInv, ToolCallsAreTrue
<1> QED
  BY <1>1, ExportsInvariance, PTL
=============================================================================
