-------------------------- MODULE RunClaimsProofs --------------------------
(***************************************************************************)
(* Proofs about RunClaims, for any sets of workers and runs and any number *)
(* of faults.                                                              *)
(***************************************************************************)
EXTENDS RunClaims, TLAPS

\* Every variable keeps its type.  The type of trained needs to know that a
\* worker past "claimed" has a run, so JobPhase goes with it.
Typing == TypeOK /\ JobPhase

\* The types, and who has a job, are kept by every step.
LEMMA TypingInvariant == Spec => []Typing
<1>1. Init => Typing
  BY ConstantsAssumption
  DEF Init, Typing, TypeOK, JobPhase, Statuses, Columns, Phases, RequestPhases, JobPhases
<1>2. Typing /\ [Next]_vars => Typing'
  <2> SUFFICES ASSUME Typing, [Next]_vars PROVE Typing'
    OBVIOUS
  <2> USE ConstantsAssumption DEF Typing, TypeOK, JobPhase, Statuses, Columns, Phases, RequestPhases, JobPhases,
             rowVars, workVars, histVars
  <2>1. ASSUME NEW r \in Runs, CreateRun(r)
        PROVE  Typing'
    BY <2>1 DEF CreateRun
  <2>2. ASSUME NEW r \in Runs, CancelRun(r)
        PROVE  Typing'
    BY <2>2 DEF CancelRun
  <2>3. ASSUME NEW r \in Runs, DeleteRun(r)
        PROVE  Typing'
    BY <2>3 DEF DeleteRun
  <2>4. ASSUME NEW w \in Workers, SweepRead(w)
        PROVE  Typing'
    BY <2>4 DEF SweepRead, Expired
  <2>5. ASSUME NEW w \in Workers, SweepWrite(w)
        PROVE  Typing'
    BY <2>5 DEF SweepWrite, Release
  <2>6. ASSUME NEW w \in Workers, SweepConflict(w)
        PROVE  Typing'
    BY <2>6 DEF SweepConflict
  <2>7. ASSUME NEW w \in Workers, SelectCandidates(w)
        PROVE  Typing'
    BY <2>7 DEF SelectCandidates
  <2>8. ASSUME NEW w \in Workers, NothingToClaim(w)
        PROVE  Typing'
    BY <2>8 DEF NothingToClaim
  <2>9. ASSUME NEW w \in Workers, NEW r \in Runs, TryClaim(w, r)
        PROVE  Typing'
    BY <2>9 DEF TryClaim, Claimable, Oldest, ClaimRow, Fault
  <2>10. ASSUME NEW w \in Workers, NEW r \in Runs, TryNext(w, r)
        PROVE  Typing'
    BY <2>10 DEF TryNext, Claimable, Oldest
  <2>11. ASSUME NEW w \in Workers, RejectJob(w)
        PROVE  Typing'
    BY <2>11 DEF RejectJob, PatchRun, PatchRow, NoPatch, EndJob, Fault
  <2>12. ASSUME NEW w \in Workers, StartTraining(w)
        PROVE  Typing'
    BY <2>12 DEF StartTraining, PatchRun, PatchRow, NoPatch, Fault
  <2>13. ASSUME NEW w \in Workers, ExitZero(w)
        PROVE  Typing'
    BY <2>13 DEF ExitZero
  <2>14. ASSUME NEW w \in Workers, ExitNonZero(w)
        PROVE  Typing'
    BY <2>14 DEF ExitNonZero, PatchRun, PatchRow, NoPatch, EndJob, Fault
  <2>15. ASSUME NEW w \in Workers, FinishJob(w)
        PROVE  Typing'
    BY <2>15 DEF FinishJob, PatchRun, PatchRow, NoPatch, EndJob, Fault
  <2>16. ASSUME NEW w \in Workers, PostMetric(w)
        PROVE  Typing'
    BY <2>16 DEF PostMetric
  <2>17. ASSUME NEW w \in Workers, DropJob(w)
        PROVE  Typing'
    BY <2>17 DEF DropJob, EndJob, Fault
  <2>18. ASSUME NEW r \in Runs, LeaseLapses(r)
        PROVE  Typing'
    BY <2>18 DEF LeaseLapses
  <2>19. ASSUME RestartAPI
        PROVE  Typing'
    BY <2>19 DEF RestartAPI, Release, Fault, Stranded
  <2>20. CASE UNCHANGED vars
    BY <2>20 DEF vars
  <2> QED
    BY <2>1, <2>2, <2>3, <2>4, <2>5, <2>6, <2>7, <2>8, <2>9, <2>10, <2>11, <2>12, <2>13, <2>14, <2>15, <2>16, <2>17, <2>18, <2>19, <2>20
    DEF Next, UserStep, ClaimRequest, JobStep
<1> QED
  BY <1>1, <1>2, PTL DEF Spec

\* No handler, worker step, fault or restart writes outside its columns.
THEOREM TypeInvariant == Spec => []TypeOK
<1>1. Typing => TypeOK
  BY DEF Typing
<1> QED
  BY <1>1, TypingInvariant, PTL

-----------------------------------------------------------------------------
\* What the induction adds to the types.
Safe == JobRow /\ JobIsOwned /\ QueuedIsUnclaimed /\ OverlapOnlyAfterSweep /\ CompletedWasTrained

\* The step of the induction: IInv survives every action.  Typing' comes from
\* the step lemma above; the rest is shown conjunct by conjunct where an
\* action touches what several conjuncts relate.
LEMMA SafeStep == IInv /\ Typing' /\ [Next]_vars => Safe'
<1> SUFFICES ASSUME IInv, Typing', [Next]_vars PROVE Safe'
  OBVIOUS
<1> USE ConstantsAssumption
    DEF IInv, Safe, Typing, TypeOK, JobPhase, JobRow, JobIsOwned, QueuedIsUnclaimed,
        OverlapOnlyAfterSweep, CompletedWasTrained, Holds, Exists, Statuses, Columns,
        Phases, RequestPhases, JobPhases, rowVars, workVars, histVars
<1>1. ASSUME NEW r \in Runs, CreateRun(r)
      PROVE  Safe'
  BY <1>1 DEF CreateRun
<1>2. ASSUME NEW r \in Runs, CancelRun(r)
      PROVE  Safe'
  BY <1>2 DEF CancelRun
<1>3. ASSUME NEW r \in Runs, DeleteRun(r)
      PROVE  Safe'
  <2>1. JobRow'
    BY <1>3 DEF DeleteRun
  <2>2. JobIsOwned'
    BY <1>3 DEF DeleteRun
  <2>3. QueuedIsUnclaimed'
    BY <1>3 DEF DeleteRun
  <2>4. OverlapOnlyAfterSweep'
    BY <1>3 DEF DeleteRun
  <2>5. CompletedWasTrained'
    BY <1>3 DEF DeleteRun
  <2> QED
    BY <2>1, <2>2, <2>3, <2>4, <2>5
<1>4. ASSUME NEW w \in Workers, SweepRead(w)
      PROVE  Safe'
  BY <1>4 DEF SweepRead, Expired
<1>5. ASSUME NEW w \in Workers, SweepWrite(w)
      PROVE  Safe'
  <2>1. JobRow'
    BY <1>5 DEF SweepWrite, Release
  <2>2. JobIsOwned'
    BY <1>5 DEF SweepWrite, Release
  <2>3. QueuedIsUnclaimed'
    BY <1>5 DEF SweepWrite, Release
  <2>4. OverlapOnlyAfterSweep'
    BY <1>5 DEF SweepWrite, Release
  <2>5. CompletedWasTrained'
    BY <1>5 DEF SweepWrite, Release
  <2> QED
    BY <2>1, <2>2, <2>3, <2>4, <2>5
<1>6. ASSUME NEW w \in Workers, SweepConflict(w)
      PROVE  Safe'
  BY <1>6 DEF SweepConflict
<1>7. ASSUME NEW w \in Workers, SelectCandidates(w)
      PROVE  Safe'
  BY <1>7 DEF SelectCandidates
<1>8. ASSUME NEW w \in Workers, NothingToClaim(w)
      PROVE  Safe'
  BY <1>8 DEF NothingToClaim
<1>9. ASSUME NEW w \in Workers, NEW r \in Runs, TryClaim(w, r)
      PROVE  Safe'
  <2>1. JobRow'
    BY <1>9 DEF TryClaim, Claimable, Oldest, ClaimRow, Fault
  <2>2. JobIsOwned'
    BY <1>9 DEF TryClaim, Claimable, Oldest, ClaimRow, Fault
  <2>3. QueuedIsUnclaimed'
    BY <1>9 DEF TryClaim, Claimable, Oldest, ClaimRow, Fault
  <2>4. OverlapOnlyAfterSweep'
    BY <1>9 DEF TryClaim, Claimable, Oldest, ClaimRow, Fault
  <2>5. CompletedWasTrained'
    BY <1>9 DEF TryClaim, Claimable, Oldest, ClaimRow, Fault
  <2> QED
    BY <2>1, <2>2, <2>3, <2>4, <2>5
<1>10. ASSUME NEW w \in Workers, NEW r \in Runs, TryNext(w, r)
      PROVE  Safe'
  BY <1>10 DEF TryNext, Claimable, Oldest
<1>11. ASSUME NEW w \in Workers, RejectJob(w)
      PROVE  Safe'
  BY <1>11 DEF RejectJob, PatchRun, PatchRow, NoPatch, EndJob, Fault
<1>12. ASSUME NEW w \in Workers, StartTraining(w)
      PROVE  Safe'
  <2>1. JobRow'
    BY <1>12 DEF StartTraining, PatchRun, PatchRow, NoPatch, Fault
  <2>2. JobIsOwned'
    BY <1>12 DEF StartTraining, PatchRun, PatchRow, NoPatch, Fault
  <2>3. QueuedIsUnclaimed'
    BY <1>12 DEF StartTraining, PatchRun, PatchRow, NoPatch, Fault
  <2>4. OverlapOnlyAfterSweep'
    BY <1>12 DEF StartTraining, PatchRun, PatchRow, NoPatch, Fault
  <2>5. CompletedWasTrained'
    BY <1>12 DEF StartTraining, PatchRun, PatchRow, NoPatch, Fault
  <2> QED
    BY <2>1, <2>2, <2>3, <2>4, <2>5
<1>13. ASSUME NEW w \in Workers, ExitZero(w)
      PROVE  Safe'
  BY <1>13 DEF ExitZero
<1>14. ASSUME NEW w \in Workers, ExitNonZero(w)
      PROVE  Safe'
  BY <1>14 DEF ExitNonZero, PatchRun, PatchRow, NoPatch, EndJob, Fault
<1>15. ASSUME NEW w \in Workers, FinishJob(w)
      PROVE  Safe'
  <2>1. JobRow'
    BY <1>15 DEF FinishJob, PatchRun, PatchRow, NoPatch, EndJob, Fault
  <2>2. JobIsOwned'
    BY <1>15 DEF FinishJob, PatchRun, PatchRow, NoPatch, EndJob, Fault
  <2>3. QueuedIsUnclaimed'
    BY <1>15 DEF FinishJob, PatchRun, PatchRow, NoPatch, EndJob, Fault
  <2>4. OverlapOnlyAfterSweep'
    BY <1>15 DEF FinishJob, PatchRun, PatchRow, NoPatch, EndJob, Fault
  <2>5. CompletedWasTrained'
    BY <1>15 DEF FinishJob, PatchRun, PatchRow, NoPatch, EndJob, Fault
  <2> QED
    BY <2>1, <2>2, <2>3, <2>4, <2>5
<1>16. ASSUME NEW w \in Workers, PostMetric(w)
      PROVE  Safe'
  BY <1>16 DEF PostMetric
<1>17. ASSUME NEW w \in Workers, DropJob(w)
      PROVE  Safe'
  BY <1>17 DEF DropJob, EndJob, Fault
<1>18. ASSUME NEW r \in Runs, LeaseLapses(r)
      PROVE  Safe'
  BY <1>18 DEF LeaseLapses
<1>19. ASSUME RestartAPI
      PROVE  Safe'
  BY <1>19 DEF RestartAPI, Release, Fault, Stranded
<1>20. CASE UNCHANGED vars
  BY <1>20 DEF vars
<1> QED
  BY <1>1, <1>2, <1>3, <1>4, <1>5, <1>6, <1>7, <1>8, <1>9, <1>10, <1>11, <1>12, <1>13, <1>14, <1>15, <1>16, <1>17, <1>18, <1>19, <1>20
  DEF Next, UserStep, ClaimRequest, JobStep

\* IInv is an invariant: it holds of the empty table and survives every step.
THEOREM Invariance == Spec => []IInv
<1>1. Init => IInv
  BY ConstantsAssumption
  DEF Init, IInv, TypeOK, JobPhase, JobRow, JobIsOwned, QueuedIsUnclaimed,
      OverlapOnlyAfterSweep, CompletedWasTrained, Holds, Exists, Statuses, Columns,
      Phases, RequestPhases, JobPhases
<1>2. IInv /\ Typing' /\ [Next]_vars => IInv'
  BY SafeStep DEF Safe, IInv, Typing
<1> QED
  BY <1>1, <1>2, TypingInvariant, PTL DEF Spec

-----------------------------------------------------------------------------
\* Rows in the queue carry no claim: what the sweep, the restart and deletion
\* must clear, and what a claim relies on.
THEOREM QueueIsClean == Spec => []QueuedIsUnclaimed
<1>1. IInv => QueuedIsUnclaimed
  BY DEF IInv
<1> QED
  BY <1>1, Invariance, PTL

\* Concurrent claims alone never give one run to two workers: any number of
\* workers may interleave their requests, responses may be lost, and the API
\* may restart, but only a sweep or a deleted id lets two of them train a run.
THEOREM ClaimsExclude == Spec => []OverlapOnlyAfterSweep
<1>1. IInv => OverlapOnlyAfterSweep
  BY DEF IInv
<1> QED
  BY <1>1, Invariance, PTL

\* As long as its row is neither swept nor deleted a job keeps its claim.
THEOREM JobKeepsClaim == Spec => []JobIsOwned
<1>1. IInv => JobIsOwned
  BY DEF IInv
<1> QED
  BY <1>1, Invariance, PTL

\* "completed" is earned: a completed row has an adapter, was started and
\* finished, and a process that trained it exited with 0.
THEOREM CompletionIsEarned == Spec => []CompletedWasTrained
<1>1. IInv => CompletedWasTrained
  BY DEF IInv
<1> QED
  BY <1>1, Invariance, PTL

\* The compare-and-swap: the only step that writes a new owner finds the row
\* queued, and the invariant says such a row has no owner.
LEMMA OwnerStep ==
  ASSUME IInv, [Next]_vars, NEW r \in Runs, owner'[r] \notin {NoWorker, owner[r]}
  PROVE  status[r] = "queued" /\ owner[r] = NoWorker
<1> USE DEF IInv, TypeOK, rowVars
<1>1. ASSUME NEW w \in Workers, NEW s \in Runs, TryClaim(w, s)
      PROVE  status[r] = "queued"
  BY <1>1 DEF TryClaim, Claimable, ClaimRow
<1>2. CASE ~\E w \in Workers, s \in Runs : TryClaim(w, s)
  <2>1. UNCHANGED owner \/ \A s \in Runs : owner'[s] \in {owner[s], NoWorker}
    BY <1>2
    DEF Next, UserStep, ClaimRequest, JobStep, vars, CreateRun, CancelRun, DeleteRun,
        SweepRead, SweepWrite, Release, SweepConflict, SelectCandidates, NothingToClaim, TryNext,
        RejectJob, StartTraining, ExitZero, ExitNonZero, FinishJob, PostMetric, DropJob,
        PatchRun, PatchRow, NoPatch, LeaseLapses, RestartAPI
  <2> QED
    BY <2>1
<1>3. status[r] = "queued"
  BY <1>1, <1>2
<1> QED
  BY <1>3 DEF QueuedIsUnclaimed

\* No claim takes a run over from another worker, however stale the candidate
\* list of the request that makes it.
THEOREM ClaimNeverTakesOver == Spec => NoTakeover
<1>1. IInv /\ [Next]_vars =>
        [\A r \in Runs : owner'[r] \notin {NoWorker, owner[r]} =>
            status[r] = "queued" /\ owner[r] = NoWorker]_vars
  BY OwnerStep
<1> QED
  BY <1>1, Invariance, PTL DEF Spec, NoTakeover

-----------------------------------------------------------------------------
\* The mapping to LeasedQueue, row by row.
LEMMA ClassesWrite ==
  ASSUME TypeOK, NEW r \in Runs, NEW s, status' = [status EXCEPT ![r] = s]
  PROVE  Classes' = [Classes EXCEPT ![r] = Class(s)]
BY DEF TypeOK, Classes

LEMMA ClassesTaken ==
  ASSUME TypeOK, NEW S \in SUBSET Runs, NEW s, Release(S, s)
  PROVE  Classes' = [r \in Runs |-> IF r \in S THEN Class(s) ELSE Classes[r]]
BY DEF TypeOK, Classes, Release

LEMMA ClassValues ==
  /\ Class("absent") = "absent" /\ Class("queued") = "queued" /\ Class("running") = "active"
  /\ \A s \in {"completed", "failed", "cancelled"} : Class(s) = "closed"
  /\ \A s \in Statuses : Class(s) = "absent" => s = "absent"
BY DEF Class, Statuses

LEMMA ClassesAt ==
  ASSUME TypeOK, NEW r \in Runs
  PROVE  /\ Classes[r] = Class(status[r])
         /\ Exists(r) => Queue!Present(r)
         /\ ~Exists(r) => ~Queue!Present(r)
BY ClassValues DEF TypeOK, Classes, Exists, Queue!Present

LEMMA BelieversJoin ==
  ASSUME TypeOK, NEW w \in Workers, NEW r \in Runs, job[w] = NoRun, job' = [job EXCEPT ![w] = r]
  PROVE  Believers' = [Believers EXCEPT ![r] = @ \cup {w}]
<1>1. \A q \in Runs : Believers'[q] = IF q = r THEN Believers[q] \cup {w} ELSE Believers[q]
  BY ConstantsAssumption DEF TypeOK, Believers
<1> QED
  BY <1>1 DEF Believers

LEMMA BelieversLeave ==
  ASSUME TypeOK, NEW w \in Workers, job[w] \in Runs, EndJob(w)
  PROVE  Believers' = [Believers EXCEPT ![job[w]] = @ \ {w}]
<1>1. \A q \in Runs : Believers'[q] = IF q = job[w] THEN Believers[q] \ {w} ELSE Believers[q]
  BY ConstantsAssumption DEF TypeOK, Believers, EndJob
<1> QED
  BY <1>1 DEF Believers

\* A step of this module is one step of the queue or leaves the queue as it is.
LEMMA RefinementStep == IInv /\ [Next]_vars => [Queue!Next]_Queue!vars
<1> SUFFICES ASSUME IInv, [Next]_vars PROVE [Queue!Next]_Queue!vars
  OBVIOUS
<1> DEFINE Same == UNCHANGED <<status, owner, job>>
<1> USE ConstantsAssumption DEF rowVars, workVars, histVars
<1>t. TypeOK /\ JobPhase /\ QueuedIsUnclaimed
  BY DEF IInv
<1>s. ASSUME Same PROVE [Queue!Next]_Queue!vars
  BY <1>s DEF Queue!vars, Classes, Believers
<1>j. ASSUME UNCHANGED job PROVE Believers' = Believers
  BY <1>j DEF Believers
<1>1. ASSUME NEW r \in Runs, CreateRun(r)
      PROVE  Queue!Next
  <2>1. Classes' = [Classes EXCEPT ![r] = "queued"] /\ ~Queue!Present(r)
    <3>1. ~Exists(r) /\ status' = [status EXCEPT ![r] = "queued"]
      BY <1>1, <1>t DEF CreateRun, Exists
    <3>2. Classes' = [Classes EXCEPT ![r] = Class("queued")]
      BY <1>t, <3>1, ClassesWrite
    <3> QED
      BY <1>t, <3>1, <3>2, ClassesAt, ClassValues
  <2>2. Queue!Submit(r)
    BY <1>1, <1>j, <2>1 DEF CreateRun, Queue!Submit
  <2> QED
    BY <2>2 DEF Queue!Next
<1>2. ASSUME NEW r \in Runs, CancelRun(r)
      PROVE  Queue!Next
  <2>1. Classes' = [Classes EXCEPT ![r] = "closed"] /\ Queue!Present(r)
    <3>1. Exists(r) /\ status' = [status EXCEPT ![r] = "cancelled"]
      BY <1>2 DEF CancelRun
    <3>2. Classes' = [Classes EXCEPT ![r] = Class("cancelled")]
      BY <1>t, <3>1, ClassesWrite
    <3> QED
      BY <1>t, <3>1, <3>2, ClassesAt, ClassValues
  <2>2. Queue!Cancel(r)
    BY <1>2, <1>j, <2>1 DEF CancelRun, Queue!Cancel
  <2> QED
    BY <2>2 DEF Queue!Next
<1>3. ASSUME NEW r \in Runs, DeleteRun(r)
      PROVE  Queue!Next
  <2>1. Classes' = [Classes EXCEPT ![r] = "absent"] /\ Queue!Present(r)
    <3>1. Exists(r) /\ status' = [status EXCEPT ![r] = "absent"]
      BY <1>3 DEF DeleteRun
    <3>2. Classes' = [Classes EXCEPT ![r] = Class("absent")]
      BY <1>t, <3>1, ClassesWrite
    <3> QED
      BY <1>t, <3>1, <3>2, ClassesAt, ClassValues
  <2>2. Queue!Remove(r)
    BY <1>3, <1>j, <2>1 DEF DeleteRun, Queue!Remove
  <2> QED
    BY <2>2 DEF Queue!Next
<1>4. ASSUME NEW w \in Workers,
             SweepRead(w) \/ SweepConflict(w) \/ SelectCandidates(w) \/ NothingToClaim(w)
               \/ (\E r \in Runs : TryNext(w, r)) \/ ExitZero(w) \/ PostMetric(w)
      PROVE  Same
  BY <1>4 DEF SweepRead, SweepConflict, SelectCandidates, NothingToClaim, TryNext, ExitZero, PostMetric
<1>5. ASSUME NEW w \in Workers, SweepWrite(w)
      PROVE  Queue!Next
  <2>1. stale[w] \in SUBSET Runs /\ Release(stale[w], "queued") /\ UNCHANGED job
    BY <1>5, <1>t DEF SweepWrite, TypeOK
  <2>2. \A r \in stale[w] : Queue!Present(r)
    BY <1>5, <1>t, <2>1, ClassesAt DEF SweepWrite
  <2>3. Queue!TakeBack(stale[w], "queued")
    BY <1>j, <1>t, <2>1, ClassesTaken, ClassValues DEF Release, Queue!TakeBack
  <2> QED
    BY <2>1, <2>2, <2>3 DEF Queue!Release, Queue!Next
<1>6. ASSUME NEW w \in Workers, NEW r \in Runs, TryClaim(w, r)
      PROVE  Queue!Next
  <2>1. status[r] = "queued" /\ owner[r] = NoWorker /\ job[w] = NoRun
    BY <1>6, <1>t DEF TryClaim, Claimable, QueuedIsUnclaimed, TypeOK, JobPhase, JobPhases
  <2>2. Classes[r] = "queued" /\ Classes' = [Classes EXCEPT ![r] = "active"]
    <3>1. status' = [status EXCEPT ![r] = "running"]
      BY <1>6 DEF TryClaim, ClaimRow
    <3>2. Classes' = [Classes EXCEPT ![r] = Class("running")]
      BY <1>t, <3>1, ClassesWrite
    <3> QED
      BY <1>t, <2>1, <3>2, ClassesAt, ClassValues
  <2>3. Believers' \in {Believers, [Believers EXCEPT ![r] = @ \cup {w}]}
    BY <1>6, <1>j, <1>t, <2>1, BelieversJoin DEF TryClaim
  <2>4. Queue!Grant(r, w)
    BY <1>6, <2>1, <2>2, <2>3 DEF TryClaim, ClaimRow, Queue!Grant
  <2> QED
    BY <2>4 DEF Queue!Next
<1>7. ASSUME NEW w \in Workers, pc[w] \in JobPhases
      PROVE  job[w] \in Runs /\ w \in Believers[job[w]]
  BY <1>7, <1>t DEF TypeOK, JobPhase, Believers
<1>8. ASSUME NEW w \in Workers, pc[w] \in JobPhases, EndJob(w) \/ UNCHANGED job,
             NEW new \in {"running", "failed", "completed"}, NEW cols,
             PatchRow(job[w], new, cols)
      PROVE  Queue!Next
  <2>1. job[w] \in Runs /\ w \in Believers[job[w]]
    BY <1>7, <1>8
  <2>2. Classes' = [Classes EXCEPT ![job[w]] = Class(new)] /\ Queue!Present(job[w])
    BY <1>8, <1>t, <2>1, ClassesAt, ClassesWrite DEF PatchRow
  <2>3. Class(new) \in {"active", "closed"}
    BY ClassValues
  <2>4. Believers' \in {Believers, [Believers EXCEPT ![job[w]] = @ \ {w}]}
    BY <1>8, <1>j, <1>t, <2>1, BelieversLeave
  <2>5. Queue!Report(job[w], w)
    BY <1>8, <2>1, <2>2, <2>3, <2>4 DEF PatchRow, Queue!Report
  <2> QED
    BY <2>1, <2>5 DEF Queue!Next
<1>9. ASSUME NEW w \in Workers, pc[w] \in JobPhases, EndJob(w), UNCHANGED <<status, owner>>
      PROVE  Queue!Next
  <2>1. job[w] \in Runs /\ w \in Believers[job[w]]
    BY <1>7, <1>9
  <2>2. Believers' = [Believers EXCEPT ![job[w]] = @ \ {w}] /\ Classes' = Classes
    BY <1>9, <1>t, <2>1, BelieversLeave DEF Classes
  <2>3. Queue!Leave(job[w], w)
    BY <1>9, <2>1, <2>2 DEF Queue!Leave
  <2> QED
    BY <2>1, <2>3 DEF Queue!Next
<1>10. ASSUME NEW w \in Workers, RejectJob(w) \/ ExitNonZero(w) \/ FinishJob(w) \/ DropJob(w)
       PROVE  Queue!Next
  <2>1. pc[w] \in JobPhases /\ EndJob(w)
    BY <1>10 DEF RejectJob, ExitNonZero, FinishJob, DropJob, JobPhases
  <2>2. \/ UNCHANGED <<status, owner>>
        \/ \E new \in {"running", "failed", "completed"} : \E cols : PatchRow(job[w], new, cols)
    BY <1>10 DEF RejectJob, ExitNonZero, FinishJob, DropJob, PatchRun, NoPatch
  <2> QED
    BY <1>8, <1>9, <2>1, <2>2
<1>11. ASSUME NEW w \in Workers, StartTraining(w)
       PROVE  [Queue!Next]_Queue!vars
  <2>1. pc[w] \in JobPhases /\ UNCHANGED job
    BY <1>11 DEF StartTraining, JobPhases
  <2>2. CASE PatchRow(job[w], "running", {"started_at"})
    BY <1>8, <2>1, <2>2
  <2>3. CASE NoPatch(job[w])
    BY <1>s, <2>1, <2>3 DEF NoPatch
  <2> QED
    BY <1>11, <2>2, <2>3 DEF StartTraining, PatchRun
<1>12. ASSUME NEW r \in Runs, LeaseLapses(r)
       PROVE  Same
  BY <1>12 DEF LeaseLapses
<1>13. ASSUME RestartAPI
       PROVE  Queue!Next
  <2> DEFINE S == {r \in Runs : Stranded(r)}
  <2>1. S \in SUBSET Runs /\ Release(S, "failed") /\ UNCHANGED job
    BY <1>13 DEF RestartAPI
  <2>2. \A r \in S : Classes[r] = "active"
    BY <1>t, ClassesAt, ClassValues DEF Stranded
  <2>3. Queue!TakeBack(S, "closed")
    <3>1. Classes' = [r \in Runs |-> IF r \in S THEN Class("failed") ELSE Classes[r]]
      BY <1>t, <2>1, ClassesTaken
    <3>2. Class("failed") = "closed"
      BY ClassValues
    <3> QED
      BY <1>j, <2>1, <3>1, <3>2 DEF Release, Queue!TakeBack
  <2> QED
    BY <2>1, <2>2, <2>3 DEF Queue!GiveUp, Queue!Next
<1>14. CASE UNCHANGED vars
  BY <1>14, <1>s DEF vars
<1> QED
  BY <1>s, <1>1, <1>2, <1>3, <1>4, <1>5, <1>6, <1>10, <1>11, <1>12, <1>13, <1>14
  DEF Next, UserStep, ClaimRequest, JobStep

\* The claim protocol implements the queue that grants in one step, for any
\* workers, runs and faults.
THEOREM Refinement == Spec => ImplementsQueue
<1>1. Init => Queue!Init
  BY ConstantsAssumption, ClassValues DEF Init, Queue!Init, Classes, Believers
<1> QED
  BY <1>1, RefinementStep, Invariance, PTL DEF Spec, Queue!Spec, ImplementsQueue
=============================================================================
