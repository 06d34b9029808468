-------------------------- MODULE MCApiTasksProofs --------------------------
(***************************************************************************)
(* Proofs about the services of the API, for any numbers of metrics,       *)
(* lines, trainings, reports, processes and skills, any caps and           *)
(* lifetimes, any ids, calls, requests, runs of an id and polls, and any   *)
(* keys and outages: the polling streams of a run, the rules of access,    *)
(* the scan store, the reports of captured errors, the skill calls and the *)
(* skill endpoints; and the repair of errors (AutoFix), for any processes, *)
(* fingerprints, cap and number of errors and faults.  The users, roles    *)
(* and rows of the access rules are those of MCApiTasks.                   *)
(***************************************************************************)
EXTENDS MCApiTasks, SequenceTheorems, FiniteSetTheorems, WellFoundedInduction, TLAPS

-----------------------------------------------------------------------------
(* Sizes of sets, and the numbers of sandboxes                             *)

\* How the size of a finite set changes with its elements.
LEMMA CardLemma ==
  ASSUME NEW S, NEW T, IsFiniteSet(T)
  PROVE  /\ Cardinality(T) \in Nat
         /\ S \subseteq T => IsFiniteSet(S) /\ Cardinality(S) \in Nat /\ Cardinality(S) <= Cardinality(T)
         /\ \A p : S \cup {p} \subseteq T /\ p \notin S => Cardinality(S) + 1 <= Cardinality(T)
         /\ \A p : IsFiniteSet(S) /\ T \subseteq S \cup {p} => Cardinality(T) <= Cardinality(S) + 1
<1>1. S \subseteq T => IsFiniteSet(S) /\ Cardinality(S) \in Nat /\ Cardinality(S) <= Cardinality(T)
  BY FS_Subset, FS_CardinalityType
<1>2. ASSUME NEW p, S \cup {p} \subseteq T, p \notin S
      PROVE  Cardinality(S) + 1 <= Cardinality(T)
  <2>1. IsFiniteSet(S) /\ IsFiniteSet(S \cup {p}) /\ Cardinality(S \cup {p}) = Cardinality(S) + 1
    BY <1>2, FS_Subset, FS_AddElement
  <2> QED
    BY <1>2, <2>1, FS_Subset
<1>3. ASSUME NEW p, IsFiniteSet(S), T \subseteq S \cup {p}
      PROVE  Cardinality(T) <= Cardinality(S) + 1
  <2>1. IsFiniteSet(S \cup {p}) /\ Cardinality(S \cup {p}) <= Cardinality(S) + 1
        /\ Cardinality(S \cup {p}) \in Nat /\ Cardinality(S) \in Nat
    <3>1. CASE p \in S
      <4>1. S \cup {p} = S
        BY <3>1
      <4> QED
        <5>1. Cardinality(S) \in Nat
          BY <1>3, FS_CardinalityType
        <5> QED
          BY <1>3, <4>1, <5>1
    <3>2. CASE p \notin S
      <4>1. IsFiniteSet(S \cup {p}) /\ Cardinality(S \cup {p}) = Cardinality(S) + 1
        BY <1>3, <3>2, FS_AddElement
      <4>2. Cardinality(S) \in Nat
        BY <1>3, FS_CardinalityType
      <4> QED
        BY <4>1, <4>2
    <3> QED
      BY <3>1, <3>2
  <2>2. Cardinality(T) \in Nat /\ Cardinality(T) <= Cardinality(S \cup {p})
    BY <1>3, <2>1, FS_Subset, FS_CardinalityType
  <2> QED
    BY <2>1, <2>2
<1> QED
  BY <1>1, <1>2, <1>3, FS_CardinalityType

\* The sets of processes that the invariant counts are finite.
LEMMA PhasesFinite ==
  /\ IsFiniteSet(Procs) /\ IsFiniteSet(Waiting) /\ Waiting \subseteq Procs
  /\ \A f \in Fingerprints : /\ Counted(f) \subseteq Procs /\ IsFiniteSet(Counted(f))
                             /\ Unrowed(f) \subseteq Procs /\ IsFiniteSet(Unrowed(f))
<1>1. /\ Waiting \subseteq Procs
      /\ \A f \in Fingerprints : Counted(f) \subseteq Procs /\ Unrowed(f) \subseteq Procs
  BY DEF Waiting, Counted, Unrowed
<1> QED
  BY <1>1, FS_Subset, AutoFixAssumption

\* With k sandboxes made and numbered without a gap, the next is the (k+1)-st, and
\* a process about to make it stands for an error that has none yet.
LEMMA NextIsNew ==
  ASSUME TypeOK, NEW k \in 0 .. MaxErrors, Numbered(k)
  PROVE  /\ NextRepair = k + 2 /\ Cardinality(Waiting) \in Nat
         /\ \A p \in Procs : pc[p] = "sandbox" => k + 1 <= errors /\ NextRepair \in Repairs
<1>1. {n \in Repairs : \E p \in Procs : mine[p] >= n} = 2 .. k + 1
  <2>1. \A p \in Procs : mine[p] \in Int
    BY AutoFixAssumption DEF TypeOK, Developer, Repairs
  <2>2. ASSUME NEW n \in Repairs, NEW p \in Procs, mine[p] >= n
        PROVE  n \in 2 .. k + 1
    BY <2>1, <2>2, AutoFixAssumption DEF Numbered, Repairs
  <2>3. ASSUME NEW n \in 2 .. k + 1
        PROVE  n \in Repairs /\ \E p \in Procs : mine[p] >= n
    <3>1. PICK p \in Procs : mine[p] = k + 1
      BY <2>3 DEF Numbered
    <3> QED
      BY <2>3, <3>1, AutoFixAssumption DEF Repairs
  <2> QED
    BY <2>2, <2>3
<1>2. Cardinality(2 .. k + 1) = k
  BY FS_Interval
<1>3. NextRepair = k + 2
  <2>1. NextRepair = 2 + k
    BY <1>1, <1>2, Zenon DEF NextRepair
  <2> QED
    BY <2>1, AutoFixAssumption
<1>4. Cardinality(Waiting) \in Nat
  BY PhasesFinite, FS_CardinalityType
<1>5. ASSUME NEW p \in Procs, pc[p] = "sandbox"
      PROVE  k + 1 <= errors /\ NextRepair \in Repairs
  <2>1. {} \cup {p} \subseteq Waiting
    BY <1>5 DEF Waiting
  <2>2. 1 <= Cardinality(Waiting)
    BY <2>1, PhasesFinite, CardLemma, FS_EmptySet
  <2>3. k + 1 <= errors
    BY <1>4, <2>2 DEF Numbered, TypeOK
  <2> QED
    BY <1>3, <2>3, AutoFixAssumption DEF TypeOK, Repairs
<1> QED
  BY <1>3, <1>4, <1>5

\* The part of the invariant the types need: the number of the next sandbox lies
\* within the errors, and a stash to be popped is not empty.
Typing ==
  /\ TypeOK /\ LockIsHeld /\ (\A p \in Procs : RepairUnderWay(p))
  /\ \E k \in 0 .. MaxErrors : Numbered(k)

-----------------------------------------------------------------------------
(* The lock, the numbers and the types                                     *)

\* Every step keeps the lock with the process between TakeLock and its release.
LEMMA LockStep ==
  ASSUME TypeOK, LockIsHeld, [Next]_vars
  PROVE  LockIsHeld'
<1>t. NoProc \notin Procs /\ Holding \subseteq Phases /\ (\A q \in Procs : pc[q] \in Holding <=> lock = q)
  BY AutoFixAssumption DEF LockIsHeld, Holding, Repairing, Phases, UsesGit
<1>1. ASSUME NEW p \in Procs,
             \/ Capture(p) \/ Refuse(p) \/ CheckWorkspace(p) \/ CountAttempts(p) \/ LockTaken(p)
             \/ Escalate(p)
      PROVE  LockIsHeld'
  <2>1. pc[p] \notin Holding /\ pc'[p] \notin Holding /\ UNCHANGED lock
    BY <1>1 DEF Capture, Refuse, CheckWorkspace, CountAttempts, LockTaken, Escalate, Holding, Repairing, Goto, TypeOK
  <2>2. \A q \in Procs : q # p => pc'[q] = pc[q]
    BY <1>1 DEF Capture, Refuse, CheckWorkspace, CountAttempts, LockTaken, Escalate, Goto, TypeOK
  <2> QED
    BY <1>t, <2>1, <2>2, Zenon DEF LockIsHeld
<1>2. ASSUME NEW p \in Procs, TakeLock(p)
      PROVE  LockIsHeld'
  <2>1. lock = NoProc /\ lock' = p /\ pc'[p] \in Holding /\ \A q \in Procs : q # p => pc'[q] = pc[q]
    BY <1>2 DEF TakeLock, Holding, Goto, TypeOK
  <2> QED
    BY <1>t, <2>1 DEF LockIsHeld
<1>3. ASSUME NEW p \in Procs,
             \/ Sandbox(p) \/ RunSDK(p) \/ StashSources(p) \/ TestWithoutFix(p) \/ TestsFail(p)
             \/ TestsPass(p) \/ Commit(p) \/ CommitFails(p) \/ Reset(p) \/ ResetFails(p)
      PROVE  LockIsHeld'
  <2>1. pc[p] \in Holding /\ pc'[p] \in Holding /\ UNCHANGED lock
    BY <1>3 DEF Sandbox, RunSDK, StashSources, TestWithoutFix, TestsFail, TestsPass, Commit, CommitFails, Reset,
       ResetFails, Holding, Repairing, Goto, TypeOK
  <2>2. \A q \in Procs : q # p => pc'[q] = pc[q]
    BY <1>3 DEF Sandbox, RunSDK, StashSources, TestWithoutFix, TestsFail, TestsPass, Commit, CommitFails, Reset,
       ResetFails, Goto, TypeOK
  <2> QED
    BY <1>t, <2>1, <2>2, Zenon DEF LockIsHeld
<1>4. ASSUME NEW p \in Procs, SandboxFails(p) \/ Deploy(p) \/ Restore(p)
      PROVE  LockIsHeld'
  <2>1. pc[p] \in Holding /\ pc'[p] \notin Holding /\ lock' = NoProc
    BY <1>4 DEF SandboxFails, Deploy, Restore, Holding, Repairing, Goto, TypeOK
  <2>2. \A q \in Procs : q # p => pc'[q] = pc[q]
    BY <1>4 DEF SandboxFails, Deploy, Restore, Goto, TypeOK
  <2> QED
    BY <1>t, <2>1, <2>2 DEF LockIsHeld
<1>5. ASSUME NEW p \in Procs, GitTimesOut(p) \/ Crash(p)
      PROVE  LockIsHeld'
  <2>1. pc'[p] \notin Holding /\ lock' = IF lock = p THEN NoProc ELSE lock
    BY <1>5 DEF GitTimesOut, Crash, BreakOff, Holding, Repairing, Goto, TypeOK
  <2>2. \A q \in Procs : q # p => pc'[q] = pc[q]
    BY <1>5 DEF GitTimesOut, Crash, BreakOff, Goto, TypeOK
  <2> QED
    BY <1>t, <2>1, <2>2 DEF LockIsHeld
<1>6. CASE DeveloperStep \/ UNCHANGED vars
  BY <1>6 DEF DeveloperStep, vars, LockIsHeld
<1> QED
  BY <1>1, <1>2, <1>3, <1>4, <1>5, <1>6 DEF Next, DispatchStep

\* A step that makes no sandbox keeps the numbering.
LEMMA NumberKept ==
  ASSUME TypeOK, NEW k \in 0 .. MaxErrors, Numbered(k),
         UNCHANGED <<mine, attempts>>, errors' \in Nat, errors <= errors',
         Cardinality(Waiting') \in Nat, Cardinality(Waiting') - errors' <= Cardinality(Waiting) - errors,
         \A n \in Repairs : commits'[n] # {} => commits[n] # {} \/ \E p \in Procs : n = mine[p]
  PROVE  Numbered(k)'
<1>1. k + Cardinality(Waiting') <= errors'
  <2>1. Cardinality(Waiting) \in Nat
    BY PhasesFinite, FS_CardinalityType
  <2>2. errors \in Nat /\ k \in Nat /\ k + Cardinality(Waiting) <= errors
    BY AutoFixAssumption DEF Numbered, TypeOK
  <2> QED
    BY <2>1, <2>2
<1>2. \A n \in Repairs : commits'[n] # {} => n <= k + 1
  BY DEF Numbered
<1> QED
  BY <1>1, <1>2 DEF Numbered

\* Every step keeps the sandboxes numbered without a gap and within the errors.
LEMMA NumberStep ==
  ASSUME TypeOK, NEW k \in 0 .. MaxErrors, Numbered(k), [Next]_vars
  PROVE  \E m \in 0 .. MaxErrors : Numbered(m)'
<1>t. IsFiniteSet(Waiting) /\ Cardinality(Waiting) \in Nat /\ errors \in Nat
  BY PhasesFinite, FS_CardinalityType, AutoFixAssumption DEF TypeOK
<1>1. ASSUME NEW p \in Procs, Capture(p)
      PROVE  Numbered(k)'
  <2>1. Waiting' \subseteq Waiting \cup {p}
    BY <1>1 DEF Capture, Goto, Waiting, TypeOK
  <2>2. IsFiniteSet(Waiting') /\ Cardinality(Waiting') \in Nat /\ Cardinality(Waiting') <= Cardinality(Waiting) + 1
    <3>1. IsFiniteSet(Waiting \cup {p})
      BY <1>t, FS_AddElement
    <3>2. IsFiniteSet(Waiting')
      BY <2>1, <3>1, FS_Subset
    <3> QED
      BY <1>t, <2>1, <3>2, CardLemma
  <2>3. UNCHANGED <<mine, attempts, commits>> /\ errors' = errors + 1
    BY <1>1 DEF Capture, gitVars, histVars
  <2> QED
    BY <1>t, <2>2, <2>3, NumberKept
<1>2. ASSUME NEW p \in Procs, Sandbox(p)
      PROVE  k + 1 \in 0 .. MaxErrors /\ Numbered(k + 1)'
  <2>1. NextRepair = k + 2 /\ k + 1 <= errors /\ k + 1 \in 0 .. MaxErrors
    <3>1. pc[p] = "sandbox"
      BY <1>2 DEF Sandbox
    <3>2. NextRepair = k + 2 /\ k + 1 <= errors
      BY <3>1, NextIsNew
    <3>3. errors <= MaxErrors /\ MaxErrors \in Nat
      BY AutoFixAssumption DEF TypeOK
    <3> QED
      BY <1>t, <3>2, <3>3
  <2>2. /\ mine'[p] = k + 2 /\ \A q \in Procs : q # p => mine'[q] = mine[q]
        /\ UNCHANGED <<commits, errors>>
        /\ \A f \in Fingerprints : attempts'[f] = attempts[f] \/ attempts'[f] = attempts[f] + 1
    BY <1>2, <2>1 DEF Sandbox, TypeOK
  <2>3. /\ \A q \in Procs : mine[q] \in Int
        /\ \A f \in Fingerprints : attempts[f] \in Int
        /\ \A n \in Repairs : n \in Int
        /\ k \in Nat
    BY AutoFixAssumption, SMTT(30) DEF TypeOK, Developer, Repairs
  <2>4. k + 1 + Cardinality(Waiting') <= errors
    <3>1. Waiting' \cup {p} \subseteq Waiting /\ p \notin Waiting'
      BY <1>2 DEF Sandbox, Goto, Waiting, TypeOK
    <3>2. Cardinality(Waiting') \in Nat /\ Cardinality(Waiting') + 1 <= Cardinality(Waiting)
      BY <1>t, <3>1, CardLemma
    <3> QED
      BY <1>t, <2>3, <3>2 DEF Numbered
  <2>5. (\A q \in Procs : mine'[q] <= k + 1 + 1) /\ mine'[p] = k + 1 + 1
    BY <2>2, <2>3 DEF Numbered
  <2>6. (\A n \in Repairs : commits'[n] # {} => n <= k + 1 + 1) /\ \A f \in Fingerprints : attempts'[f] <= k + 1
    BY <2>2, <2>3 DEF Numbered
  <2> QED
    BY <2>1, <2>2, <2>4, <2>5, <2>6 DEF Numbered
<1>3. ASSUME NEW p \in Procs,
             \/ Refuse(p) \/ CheckWorkspace(p) \/ CountAttempts(p) \/ TakeLock(p) \/ LockTaken(p)
             \/ SandboxFails(p) \/ RunSDK(p) \/ StashSources(p) \/ TestWithoutFix(p) \/ TestsFail(p)
             \/ TestsPass(p) \/ Commit(p) \/ CommitFails(p) \/ Deploy(p) \/ Reset(p) \/ Restore(p)
             \/ Escalate(p) \/ GitTimesOut(p) \/ ResetFails(p) \/ Crash(p)
      PROVE  Numbered(k)'
  <2>1. Waiting' \subseteq Waiting
    BY <1>3 DEF Refuse, CheckWorkspace, CountAttempts, TakeLock, LockTaken, SandboxFails, RunSDK, StashSources,
       TestWithoutFix, TestsFail, TestsPass, Commit, CommitFails, Deploy, Reset, Restore, Escalate, GitTimesOut,
       ResetFails, Crash, BreakOff, UsesGit, Goto, Waiting, TypeOK
  <2>2. /\ UNCHANGED <<mine, attempts, errors>>
        /\ \A n \in Repairs : commits'[n] # {} => commits[n] # {} \/ n = mine[p]
    BY <1>3 DEF Refuse, CheckWorkspace, CountAttempts, TakeLock, LockTaken, SandboxFails, RunSDK, StashSources,
       TestWithoutFix, TestsFail, TestsPass, Commit, CommitFails, Deploy, Reset, Restore, Escalate, GitTimesOut,
       ResetFails, Crash, BreakOff, gitVars, procVars, histVars, TypeOK
  <2>3. Cardinality(Waiting') \in Nat /\ Cardinality(Waiting') <= Cardinality(Waiting)
    BY <1>t, <2>1, CardLemma
  <2> QED
    BY <1>t, <2>2, <2>3, NumberKept
<1>4. CASE DeveloperStep \/ UNCHANGED vars
  <2>1. UNCHANGED <<pc, mine, attempts, errors, commits>>
    BY <1>4 DEF DeveloperStep, DeveloperEdits, DeveloperCleans, gitVars, procVars, histVars, vars
  <2> QED
    BY <2>1 DEF Numbered, Waiting
<1> QED
  BY <1>1, <1>2, <1>3, <1>4 DEF Next, DispatchStep

\* A row is written or its loss is counted as a fault.
LEMMA RowStep ==
  ASSUME TypeOK, NEW p \in Procs, AddRow(p)
  PROVE  /\ rows' \in [Fingerprints -> 0 .. Cap] /\ faults' \in 0 .. MaxFaults /\ faults <= faults'
         /\ \A f \in Fingerprints : rows[f] <= rows'[f]
         /\ \/ rows'[fp[p]] = Cap \/ rows'[fp[p]] = rows[fp[p]] + 1
            \/ UNCHANGED rows /\ faults' = faults + 1
<1>t. /\ rows \in [Fingerprints -> 0 .. Cap] /\ faults \in 0 .. MaxFaults /\ Cap \in Nat /\ MaxFaults \in Nat
      /\ fp[p] \in Fingerprints
  BY AutoFixAssumption DEF TypeOK
<1>1. CASE rows' = [rows EXCEPT ![fp[p]] = IF @ < Cap THEN @ + 1 ELSE Cap] /\ UNCHANGED faults
  <2>1. \A n \in 0 .. Cap : LET m == IF n < Cap THEN n + 1 ELSE Cap
                           IN  m \in 0 .. Cap /\ n <= m /\ (m = Cap \/ m = n + 1)
    BY <1>t
  <2>2. rows'[fp[p]] = IF rows[fp[p]] < Cap THEN rows[fp[p]] + 1 ELSE Cap
    BY <1>t, <1>1
  <2>3. \A f \in Fingerprints : f # fp[p] => rows'[f] = rows[f]
    BY <1>t, <1>1
  <2>4. \A f \in Fingerprints : rows[f] \in 0 .. Cap /\ rows[f] <= rows[f]
    BY <1>t
  <2>5. rows' \in [Fingerprints -> 0 .. Cap]
    BY <1>t, <1>1, <2>1, <2>4
  <2>6. \A f \in Fingerprints : rows[f] <= rows'[f]
    BY <2>1, <2>2, <2>3, <2>4
  <2>7. rows'[fp[p]] = Cap \/ rows'[fp[p]] = rows[fp[p]] + 1
    BY <1>t, <2>2
  <2>8. faults' \in 0 .. MaxFaults /\ faults <= faults'
    BY <1>t, <1>1
  <2> QED
    BY <2>5, <2>6, <2>7, <2>8
<1>2. CASE Fault /\ UNCHANGED rows
  <2>1. faults' = faults + 1 /\ faults' \in 0 .. MaxFaults
    BY <1>t, <1>2 DEF Fault
  <2>2. \A f \in Fingerprints : rows[f] <= rows'[f]
    BY <1>t, <1>2
  <2> QED
    BY <1>t, <1>2, <2>1, <2>2
<1> QED
  BY <1>1, <1>2 DEF AddRow

\* No step forgets a fault or a mishap.
LEMMA FaultStep ==
  ASSUME TypeOK, [Next]_vars
  PROVE  /\ faults' \in 0 .. MaxFaults /\ faults <= faults'
         /\ mishap' \subseteq {"broken", "refused"} /\ mishap \subseteq mishap'
<1> USE DEF gitVars, procVars, histVars
<1>t. faults \in 0 .. MaxFaults /\ MaxFaults \in Nat /\ mishap \subseteq {"broken", "refused"}
  BY AutoFixAssumption DEF TypeOK
<1>1. ASSUME NEW p \in Procs,
             \/ Refuse(p) \/ CountAttempts(p) \/ LockTaken(p) \/ SandboxFails(p) \/ Deploy(p) \/ Restore(p)
             \/ Escalate(p)
      PROVE  faults' \in 0 .. MaxFaults /\ faults <= faults' /\ UNCHANGED mishap
  <2>1. UNCHANGED mishap /\ (AddRow(p) \/ Fault \/ UNCHANGED faults)
    BY <1>1 DEF Refuse, CountAttempts, LockTaken, SandboxFails, Deploy, Restore, Escalate
  <2> QED
    BY <1>t, <2>1, RowStep DEF Fault
<1>2. ASSUME NEW p \in Procs,
             \/ Capture(p) \/ CheckWorkspace(p) \/ TakeLock(p) \/ Sandbox(p) \/ RunSDK(p)
             \/ StashSources(p) \/ TestsFail(p) \/ TestsPass(p) \/ Commit(p) \/ CommitFails(p) \/ Reset(p)
      PROVE  UNCHANGED <<faults, mishap>>
  BY <1>2 DEF Capture, CheckWorkspace, TakeLock, Sandbox, RunSDK, StashSources, TestsFail, TestsPass, Commit,
     CommitFails, Reset
<1>3. ASSUME NEW p \in Procs, TestWithoutFix(p)
      PROVE  UNCHANGED faults /\ mishap' \in {mishap, mishap \cup {"refused"}}
  BY <1>3 DEF TestWithoutFix, PopApplies, PopRefused, PopConflicts
<1>4. ASSUME NEW p \in Procs, GitTimesOut(p) \/ ResetFails(p) \/ Crash(p)
      PROVE  faults' \in 0 .. MaxFaults /\ faults <= faults' /\ mishap' \in {mishap, mishap \cup {"broken"}}
  BY <1>t, <1>4 DEF GitTimesOut, ResetFails, Crash, BreakOff, Fault
<1>5. ASSUME DeveloperStep \/ UNCHANGED vars
      PROVE  UNCHANGED <<faults, mishap>>
  BY <1>5 DEF DeveloperStep, vars
<1>6. \/ DeveloperStep \/ UNCHANGED vars
      \/ \E p \in Procs : Capture(p) \/ DispatchStep(p) \/ GitTimesOut(p) \/ ResetFails(p) \/ Crash(p)
  BY DEF Next
<1>7. faults' \in 0 .. MaxFaults /\ faults <= faults'
  <2>1. UNCHANGED faults => faults' \in 0 .. MaxFaults /\ faults <= faults'
    BY <1>t
  <2> QED
    BY <1>1, <1>2, <1>3, <1>4, <1>5, <1>6, <2>1, Zenon DEF DispatchStep
<1>8. mishap' \in {mishap, mishap \cup {"refused"}, mishap \cup {"broken"}}
  BY <1>1, <1>2, <1>3, <1>4, <1>5, <1>6, Zenon DEF DispatchStep
<1> QED
  BY <1>t, <1>7, <1>8

\* Every step keeps the types.
LEMMA TypeStep ==
  ASSUME Typing, [Next]_vars
  PROVE  TypeOK'
<1> USE AutoFixAssumption DEF gitVars, procVars, histVars
<1>t. /\ TypeOK /\ (\A p \in Procs : RepairUnderWay(p)) /\ \E k \in 0 .. MaxErrors : Numbered(k)
      /\ Main = 0 /\ Developer = 1
  BY DEF Typing, Main, Developer
<1>p. \A p \in Procs, next \in Phases : Goto(p, next) => pc' \in [Procs -> Phases]
  BY <1>t DEF TypeOK, Goto
<1>r. \A p \in Procs : AddRow(p) => rows' \in [Fingerprints -> 0 .. Cap]
  BY <1>t, RowStep
<1>f. faults' \in 0 .. MaxFaults /\ mishap' \subseteq {"broken", "refused"}
  BY <1>t, FaultStep
<1>1. ASSUME NEW p \in Procs, Capture(p)
      PROVE  TypeOK'
  <2>1. errors' \in 0 .. MaxErrors /\ fp' \in [Procs -> Fingerprints] /\ pc' \in [Procs -> Phases]
    BY <1>t, <1>p, <1>1 DEF Capture, TypeOK, Phases
  <2> QED
    BY <1>t, <1>1, <2>1 DEF Capture, TypeOK
<1>2. ASSUME NEW p \in Procs, Refuse(p) \/ LockTaken(p) \/ SandboxFails(p) \/ Escalate(p)
      PROVE  TypeOK'
  <2>1. /\ pc' \in [Procs -> Phases]
        /\ lock' \in Procs \cup {NoProc} /\ UNCHANGED <<gitVars, procVars, errors, histVars>>
    BY <1>t, <1>p, <1>2 DEF Refuse, LockTaken, SandboxFails, Escalate, TypeOK, Phases
  <2>2. rows' \in [Fingerprints -> 0 .. Cap]
    BY <1>t, <1>r, <1>2 DEF Refuse, LockTaken, SandboxFails, Escalate, TypeOK
  <2> QED
    BY <1>t, <1>f, <2>1, <2>2 DEF TypeOK
<1>3. ASSUME NEW p \in Procs, Deploy(p)
      PROVE  TypeOK'
  <2>1. /\ pc' \in [Procs -> Phases]
        /\ lock' \in Procs \cup {NoProc} /\ UNCHANGED <<gitVars, procVars, errors, histVars>>
    BY <1>t, <1>p, <1>3 DEF Deploy, TypeOK, Phases
  <2>2. rows' \in [Fingerprints -> 0 .. Cap]
    BY <1>t, <1>r, <1>3 DEF Deploy, TypeOK
  <2> QED
    BY <1>t, <1>f, <2>1, <2>2 DEF TypeOK
<1>4. ASSUME NEW p \in Procs, CheckWorkspace(p) \/ CountAttempts(p) \/ TestsFail(p)
      PROVE  TypeOK'
  <2>1. /\ pc' \in [Procs -> Phases]
        /\ UNCHANGED <<gitVars, lock, procVars, rows, errors, histVars>>
    BY <1>t, <1>p, <1>4 DEF CheckWorkspace, CountAttempts, TestsFail, Phases, UsesGit
  <2> QED
    BY <1>t, <1>f, <2>1 DEF TypeOK
<1>5. ASSUME NEW p \in Procs, TakeLock(p)
      PROVE  TypeOK'
  <2>1. pc' \in [Procs -> Phases] /\ orig' \in [Procs -> {Main, Developer} \cup Repairs]
    BY <1>t, <1>p, <1>5 DEF TakeLock, TypeOK, Phases, UsesGit
  <2> QED
    BY <1>t, <1>5, <2>1 DEF TakeLock, TypeOK
<1>6. ASSUME NEW p \in Procs, Sandbox(p)
      PROVE  TypeOK'
  <2>1. PICK k \in 0 .. MaxErrors : Numbered(k)
    BY <1>t
  <2>2. NextRepair = k + 2 /\ NextRepair \in Repairs /\ k + 1 <= errors
    BY <1>t, <1>6, <2>1, NextIsNew DEF Sandbox
  <2>3. pc' \in [Procs -> Phases]
    BY <1>t, <1>p, <1>6 DEF Sandbox, Phases
  <2>4. mine' \in [Procs -> {Developer} \cup Repairs] /\ head' \in Repairs /\ branches' \subseteq Repairs
    BY <1>t, <1>6, <2>2 DEF Sandbox, TypeOK
  <2>5. attempts' \in [Fingerprints -> 0 .. MaxErrors]
    <3>1. /\ fp[p] \in Fingerprints /\ attempts[fp[p]] \in 0 .. MaxErrors /\ attempts[fp[p]] <= k
          /\ errors <= MaxErrors /\ errors \in Int
      BY <1>t, <2>1 DEF Numbered, TypeOK
    <3>2. attempts[fp[p]] + 1 \in 0 .. MaxErrors
      BY <2>2, <3>1
    <3> QED
      BY <1>t, <1>6, <3>2 DEF Sandbox, TypeOK
  <2> QED
    BY <1>t, <1>6, <2>3, <2>4, <2>5 DEF Sandbox, TypeOK
<1>7. ASSUME NEW p \in Procs, RunSDK(p)
      PROVE  TypeOK'
  <2>1. pc' \in [Procs -> Phases]
    BY <1>t, <1>p, <1>7 DEF RunSDK, Phases, UsesGit
  <2>2. mine[p] \in Repairs
    BY <1>t, <1>7 DEF RunSDK, RepairUnderWay, Repairing
  <2>3. edited' \subseteq Files /\ untracked' \subseteq Repairs
    BY <1>t, <1>7, <2>2 DEF RunSDK, TypeOK, Files
  <2> QED
    BY <1>t, <1>7, <2>1, <2>3 DEF RunSDK, TypeOK
<1>8. ASSUME NEW p \in Procs, StashSources(p)
      PROVE  TypeOK'
  <2>1. pc' \in [Procs -> Phases]
    BY <1>t, <1>p, <1>8 DEF StashSources, Phases, UsesGit
  <2>2. mine[p] \in Repairs
    BY <1>t, <1>8 DEF StashSources, RepairUnderWay, Repairing
  <2>3. Append(stash, mine[p]) \in Seq(Repairs)
    BY <1>t, <2>2, AppendProperties DEF TypeOK
  <2>4. edited' \subseteq Files /\ stash' \in Seq(Repairs)
    BY <1>t, <1>8, <2>3 DEF StashSources, TypeOK
  <2> QED
    BY <1>t, <1>8, <2>1, <2>4 DEF StashSources, TypeOK
<1>9. ASSUME NEW p \in Procs, TestWithoutFix(p)
      PROVE  TypeOK'
  <2>1. pc' \in [Procs -> Phases]
    BY <1>t, <1>p, <1>9 DEF TestWithoutFix, Phases, UsesGit
  <2>2. stash # <<>> /\ stash \in Seq(Repairs)
    BY <1>t, <1>9 DEF TestWithoutFix, RepairUnderWay, TypeOK
  <2>3. Len(stash) \in Nat \ {0} /\ \A n \in 1 .. Len(stash) : stash[n] \in Repairs
    BY <2>2, EmptySeq, LenProperties, ElementOfSeq
  <2>4. stash[Len(stash)] \in Repairs /\ SubSeq(stash, 1, Len(stash) - 1) \in Seq(Repairs)
    BY <2>3, SubSeqProperties
  <2>5. edited' \subseteq Files /\ stash' \in Seq(Repairs)
    BY <1>t, <1>9, <2>4 DEF TestWithoutFix, PopApplies, PopRefused, PopConflicts, Newest, TypeOK, Files
  <2> QED
    BY <1>t, <1>f, <1>9, <2>1, <2>5 DEF TestWithoutFix, TypeOK
<1>10. ASSUME NEW p \in Procs, TestsPass(p)
       PROVE  TypeOK'
  <2>1. pc' \in [Procs -> Phases]
    BY <1>t, <1>p, <1>10 DEF TestsPass, Phases, UsesGit
  <2>2. gated' \in [Repairs -> SUBSET Files]
    BY <1>t, <1>10 DEF TestsPass, TypeOK
  <2> QED
    BY <1>t, <1>10, <2>1, <2>2 DEF TestsPass, TypeOK
<1>11. ASSUME NEW p \in Procs, Commit(p)
       PROVE  TypeOK'
  <2>1. pc' \in [Procs -> Phases]
    BY <1>t, <1>p, <1>11 DEF Commit, Phases
  <2>2. commits' \in [Repairs -> SUBSET Files]
    BY <1>t, <1>11 DEF Commit, TypeOK
  <2> QED
    BY <1>t, <1>11, <2>1, <2>2 DEF Commit, TypeOK
<1>12. ASSUME NEW p \in Procs, CommitFails(p) \/ Reset(p)
       PROVE  TypeOK'
  <2>1. pc' \in [Procs -> Phases]
    BY <1>t, <1>p, <1>12 DEF CommitFails, Reset, Phases, UsesGit
  <2>2. edited' \subseteq Files /\ untracked' \subseteq Repairs
        /\ UNCHANGED <<head, branches, stash, commits, lock, procVars, rows, errors, faults, histVars>>
    BY <1>t, <1>12 DEF CommitFails, Reset, TypeOK, Files
  <2> QED
    BY <1>t, <2>1, <2>2 DEF TypeOK
<1>13. ASSUME NEW p \in Procs, Restore(p)
       PROVE  TypeOK'
  <2>1. pc' \in [Procs -> Phases] /\ rows' \in [Fingerprints -> 0 .. Cap]
    BY <1>t, <1>p, <1>r, <1>13 DEF Restore, Phases
  <2>2. head' \in {Main, Developer} \cup Repairs /\ branches' \subseteq Repairs
    BY <1>t, <1>13 DEF Restore, TypeOK
  <2> QED
    BY <1>t, <1>f, <1>13, <2>1, <2>2 DEF Restore, TypeOK
<1>14. ASSUME NEW p \in Procs, GitTimesOut(p) \/ ResetFails(p) \/ Crash(p)
       PROVE  TypeOK'
  <2>1. pc' \in [Procs -> Phases]
    BY <1>t, <1>p, <1>14 DEF GitTimesOut, ResetFails, Crash, BreakOff, Phases, UsesGit
  <2>2. lock' \in Procs \cup {NoProc} /\ UNCHANGED <<gitVars, procVars, rows, errors, attempts, gated>>
    BY <1>t, <1>14 DEF GitTimesOut, ResetFails, Crash, BreakOff, TypeOK
  <2> QED
    BY <1>t, <1>f, <2>1, <2>2 DEF TypeOK
<1>15. CASE DeveloperStep
  <2>1. /\ head' \in {Main, Developer} \cup Repairs /\ edited' \subseteq Files /\ untracked' \subseteq Repairs
        /\ UNCHANGED <<branches, stash, commits, lock, pc, procVars, rows, errors, faults, histVars>>
    BY <1>t, <1>15 DEF DeveloperStep, DeveloperEdits, DeveloperCleans, TypeOK, Files
  <2> QED
    BY <1>t, <2>1 DEF TypeOK
<1>16. CASE UNCHANGED vars
  BY <1>t, <1>16 DEF vars, TypeOK
<1> QED
  BY <1>1, <1>2, <1>3, <1>4, <1>5, <1>6, <1>7, <1>8, <1>9, <1>10, <1>11, <1>12, <1>13, <1>14, <1>15, <1>16
  DEF Next, DispatchStep

-----------------------------------------------------------------------------
(* The workspace                                                           *)

\* Who holds the lock is the only one in the workspace.
LEMMA Bystanders ==
  ASSUME Typing, NEW p \in Procs, NEW q \in Procs, q # p, pc[p] \in Holding
  PROVE  pc[q] \notin Holding
  BY DEF Typing, LockIsHeld

\* A step of a process changes no place but its own.
LEMMA Moved ==
  ASSUME TypeOK, NEW p \in Procs,
         Capture(p) \/ DispatchStep(p) \/ GitTimesOut(p) \/ ResetFails(p) \/ Crash(p)
  PROVE  \E next \in Phases : pc' = [pc EXCEPT ![p] = next]
  BY DEF Capture, DispatchStep, Refuse, CheckWorkspace, CountAttempts, TakeLock, LockTaken, Sandbox,
     SandboxFails, RunSDK, StashSources, TestWithoutFix, TestsFail, TestsPass, Commit, CommitFails,
     Deploy, Reset, ResetFails, Restore, Escalate, GitTimesOut, Crash, BreakOff, Goto, Phases, UsesGit

\* The actions on the workspace are steps of a process that holds the lock.
LEMMA InTree ==
  ASSUME TypeOK, NEW p \in Procs,
         \/ Sandbox(p) \/ SandboxFails(p) \/ RunSDK(p) \/ StashSources(p) \/ TestWithoutFix(p)
         \/ TestsFail(p) \/ TestsPass(p) \/ Commit(p) \/ CommitFails(p) \/ Deploy(p) \/ Reset(p)
         \/ ResetFails(p) \/ Restore(p)
  PROVE  pc[p] \in Holding
  BY DEF Sandbox, SandboxFails, RunSDK, StashSources, TestWithoutFix, TestsFail, TestsPass, Commit, CommitFails,
     Deploy, Reset, ResetFails, Restore, Holding, Repairing

\* The others leave the workspace alone and end outside it.
LEMMA OutOfTree ==
  ASSUME TypeOK, NEW p \in Procs,
         \/ Capture(p) \/ Refuse(p) \/ CheckWorkspace(p) \/ CountAttempts(p) \/ LockTaken(p)
         \/ Escalate(p) \/ GitTimesOut(p) \/ Crash(p)
  PROVE  /\ pc'[p] \in Phases \ Holding
         /\ \A q \in Procs : q # p => pc'[q] = pc[q]
         /\ UNCHANGED <<gitVars, orig, mine, gated>>
  BY DEF Capture, Refuse, CheckWorkspace, CountAttempts, LockTaken, Escalate, GitTimesOut, Crash, BreakOff, Goto,
     Phases, UsesGit, Holding, Repairing, gitVars, procVars, histVars, TypeOK

\* Every step keeps a repair under way uncommitted, and what it is about to commit
\* what its tests passed with.
LEMMA RepairStep ==
  ASSUME Typing, [Next]_vars
  PROVE  \A q \in Procs : RepairUnderWay(q)'
<1> USE DEF Goto, gitVars, procVars, histVars
<1>t. /\ TypeOK /\ (\A q \in Procs : RepairUnderWay(q)) /\ \E k \in 0 .. MaxErrors : Numbered(k)
      /\ (\A q \in Procs : pc[q] \in Holding <=> lock = q) /\ NoProc \notin Procs
  BY AutoFixAssumption DEF Typing, LockIsHeld
<1>1. ASSUME NEW p \in Procs,
             \/ Capture(p) \/ Refuse(p) \/ CheckWorkspace(p) \/ CountAttempts(p) \/ LockTaken(p)
             \/ Escalate(p) \/ GitTimesOut(p) \/ Crash(p)
      PROVE  \A q \in Procs : RepairUnderWay(q)'
  <2>1. /\ pc'[p] \in Phases \ Holding
        /\ \A q \in Procs : q # p => pc'[q] = pc[q]
        /\ UNCHANGED <<gitVars, mine, gated>>
    BY <1>t, <1>1, OutOfTree
  <2> QED
    BY <1>t, <2>1 DEF RepairUnderWay, Holding, Repairing
<1>2. ASSUME NEW p \in Procs, TakeLock(p)
      PROVE  \A q \in Procs : RepairUnderWay(q)'
  <2>1. /\ pc'[p] = "sandbox"
        /\ \A q \in Procs : q # p => pc'[q] = pc[q]
        /\ UNCHANGED <<gitVars, mine, gated>>
    BY <1>t, <1>2 DEF TakeLock, TypeOK
  <2> QED
    BY <1>t, <2>1 DEF RepairUnderWay, Repairing
<1>3. ASSUME NEW p \in Procs, pc[p] \in Holding, NEW next, pc' = [pc EXCEPT ![p] = next],
             RepairUnderWay(p)'
      PROVE  \A q \in Procs : RepairUnderWay(q)'
  <2>1. ASSUME NEW q \in Procs, q # p
        PROVE  pc'[q] \notin Holding
    BY <1>t, <1>3, <2>1, Bystanders DEF TypeOK
  <2> QED
    BY <1>3, <2>1 DEF RepairUnderWay, Holding, Repairing
<1>4. ASSUME NEW p \in Procs, Sandbox(p)
      PROVE  RepairUnderWay(p)'
  <2>1. PICK k \in 0 .. MaxErrors : Numbered(k)
    BY <1>t
  <2>2. NextRepair = k + 2 /\ NextRepair \in Repairs
    BY <1>t, <1>4, <2>1, NextIsNew DEF Sandbox
  <2>3. commits[NextRepair] = {}
    BY <2>1, <2>2, AutoFixAssumption DEF Numbered
  <2>4. pc'[p] = "sdk" /\ mine'[p] = NextRepair /\ UNCHANGED commits
    BY <1>t, <1>4 DEF Sandbox, TypeOK
  <2> QED
    BY <2>2, <2>3, <2>4 DEF RepairUnderWay
<1>5. ASSUME NEW p \in Procs,
             RunSDK(p) \/ TestWithoutFix(p) \/ TestsFail(p) \/ CommitFails(p) \/ Reset(p) \/ ResetFails(p)
      PROVE  RepairUnderWay(p)'
  <2>1. /\ pc[p] \in Repairing /\ pc'[p] \in {"stash", "reset", "verify", "restore"}
        /\ UNCHANGED <<commits, mine>>
    BY <1>t, <1>5 DEF RunSDK, TestWithoutFix, TestsFail, CommitFails, Reset, ResetFails, Repairing, TypeOK
  <2> QED
    BY <1>t, <2>1 DEF RepairUnderWay
<1>6. ASSUME NEW p \in Procs, StashSources(p)
      PROVE  RepairUnderWay(p)'
  <2>1. /\ pc[p] \in Repairing /\ pc'[p] \in {"prefix", "reset"}
        /\ UNCHANGED <<commits, mine>>
    BY <1>t, <1>6 DEF StashSources, Repairing, TypeOK
  <2>2. pc'[p] = "prefix" => stash' # <<>>
    <3>1. Append(stash, mine[p]) # <<>>
      <4>1. mine[p] \in Repairs /\ stash \in Seq(Repairs)
        BY <1>t, <2>1 DEF RepairUnderWay, TypeOK
      <4>2. Len(Append(stash, mine[p])) = Len(stash) + 1 /\ Len(stash) \in Nat
        BY <4>1, AppendProperties, LenProperties
      <4>3. \A s : Len(s) = Len(stash) + 1 => s # <<>>
        <5>1. Len(<<>>) = 0
          OBVIOUS
        <5> QED
          BY <4>2, <5>1
      <4> QED
        BY <4>2, <4>3, Zenon
    <3> QED
      BY <1>t, <1>6, <3>1 DEF StashSources, TypeOK
  <2> QED
    BY <1>t, <2>1, <2>2 DEF RepairUnderWay
<1>7. ASSUME NEW p \in Procs, TestsPass(p)
      PROVE  RepairUnderWay(p)'
  <2>1. pc[p] \in Repairing /\ mine[p] \in Repairs /\ commits[mine[p]] = {}
    BY <1>t, <1>7 DEF TestsPass, RepairUnderWay, Repairing
  <2> QED
    BY <1>t, <1>7, <2>1 DEF TestsPass, RepairUnderWay, TypeOK
<1>8. ASSUME NEW p \in Procs, Commit(p) \/ Deploy(p) \/ Restore(p) \/ SandboxFails(p)
      PROVE  RepairUnderWay(p)'
  <2>1. pc'[p] \in {"deploy", "idle", "escalate"}
    BY <1>t, <1>8 DEF Commit, Deploy, Restore, SandboxFails, TypeOK
  <2> QED
    BY <2>1 DEF RepairUnderWay, Repairing
<1>9. CASE DeveloperStep
  <2>1. UNCHANGED <<lock, pc, stash, commits, mine, gated>>
    BY <1>9 DEF DeveloperStep, DeveloperEdits, DeveloperCleans
  <2>2. CASE DeveloperEdits
    BY <1>t, <2>1, <2>2 DEF DeveloperEdits, RepairUnderWay
  <2>3. CASE DeveloperCleans
    BY <1>t, <2>1, <2>3 DEF DeveloperCleans, RepairUnderWay, Holding, Repairing
  <2> QED
    BY <1>9, <2>2, <2>3 DEF DeveloperStep
<1>10. CASE UNCHANGED vars
  BY <1>t, <1>10 DEF vars, RepairUnderWay
<1>11. ASSUME NEW p \in Procs,
              \/ Sandbox(p) \/ SandboxFails(p) \/ RunSDK(p) \/ StashSources(p) \/ TestWithoutFix(p)
              \/ TestsFail(p) \/ TestsPass(p) \/ Commit(p) \/ CommitFails(p) \/ Deploy(p) \/ Reset(p)
              \/ ResetFails(p) \/ Restore(p)
       PROVE  \A q \in Procs : RepairUnderWay(q)'
  <2>1. pc[p] \in Holding
    BY <1>t, <1>11, InTree
  <2>2. PICK next \in Phases : pc' = [pc EXCEPT ![p] = next]
    BY <1>t, <1>11, Moved DEF DispatchStep
  <2> QED
    BY <1>3, <1>4, <1>5, <1>6, <1>7, <1>8, <1>11, <2>1, <2>2
<1> QED
  BY <1>1, <1>2, <1>9, <1>10, <1>11 DEF Next, DispatchStep

\* Until a repair breaks off, the workspace holds the one under way and is settled
\* again when the lock is free.
LEMMA OnlyStep ==
  ASSUME IInv, [Next]_vars, "broken" \notin mishap'
  PROVE  (\A q \in Procs : OnlyRepair(q)') /\ (lock' = NoProc => TreeSettled')
<1> USE DEF Goto, gitVars, procVars, histVars
<1>t. /\ Typing /\ TypeOK /\ (\A q \in Procs : RepairUnderWay(q))
      /\ \E k \in 0 .. MaxErrors : Numbered(k)
      /\ (\A q \in Procs : pc[q] \in Holding <=> lock = q) /\ NoProc \notin Procs
  BY AutoFixAssumption DEF IInv, Typing, LockIsHeld
<1>0. (\A q \in Procs : OnlyRepair(q)) /\ (lock = NoProc => TreeSettled)
  <2>1. "broken" \notin mishap
    BY <1>t, FaultStep
  <2> QED
    BY <2>1 DEF IInv, WorkspaceSettled
<1>1. ASSUME NEW p \in Procs, ResetFails(p) \/ ((GitTimesOut(p) \/ Crash(p)) /\ lock = p)
      PROVE  FALSE
  BY <1>1 DEF GitTimesOut, ResetFails, Crash, BreakOff
<1>2. ASSUME NEW p \in Procs,
             \/ Capture(p) \/ Refuse(p) \/ CheckWorkspace(p) \/ CountAttempts(p) \/ LockTaken(p) \/ Escalate(p)
             \/ (GitTimesOut(p) \/ Crash(p)) /\ lock # p
      PROVE  (\A q \in Procs : OnlyRepair(q)') /\ (lock' = NoProc => TreeSettled')
  <2>1. /\ pc'[p] \in Phases \ Holding
        /\ \A q \in Procs : q # p => pc'[q] = pc[q]
        /\ UNCHANGED <<gitVars, orig, mine, gated>>
    BY <1>t, <1>2, OutOfTree
  <2>2. UNCHANGED lock
    BY <1>2 DEF Capture, Refuse, CheckWorkspace, CountAttempts, LockTaken, Escalate, GitTimesOut, Crash, BreakOff
  <2>3. TreeSettled => TreeSettled'
    BY <2>1 DEF TreeSettled, Landed
  <2>4. \A q \in Procs : OnlyRepair(q) => OnlyRepair(q)'
    BY <2>1, <2>3 DEF OnlyRepair, Landed, Holding, Repairing
  <2> QED
    BY <1>0, <2>2, <2>3, <2>4
<1>3. ASSUME NEW p \in Procs, pc[p] \in Holding, NEW next, pc' = [pc EXCEPT ![p] = next], OnlyRepair(p)'
      PROVE  \A q \in Procs : OnlyRepair(q)'
  <2>1. ASSUME NEW q \in Procs, q # p
        PROVE  pc'[q] \notin Holding
    BY <1>t, <1>3, <2>1, Bystanders DEF TypeOK
  <2> QED
    BY <1>3, <2>1 DEF OnlyRepair, Holding, Repairing
<1>4. ASSUME NEW p \in Procs, TakeLock(p)
      PROVE  (\A q \in Procs : OnlyRepair(q)') /\ (lock' = NoProc => TreeSettled')
  <2>1. /\ lock = NoProc /\ lock' = p /\ pc'[p] = "sandbox" /\ orig'[p] = head
        /\ \A q \in Procs : q # p => pc'[q] = pc[q]
        /\ UNCHANGED <<gitVars, mine>>
    BY <1>t, <1>4 DEF TakeLock, TypeOK
  <2>2. TreeSettled /\ TreeSettled' /\ head \in {Main, Developer} \cup Landed
    BY <1>0, <2>1 DEF TreeSettled, Landed
  <2>3. OnlyRepair(p)'
    BY <2>1, <2>2 DEF OnlyRepair, Repairing, Landed
  <2>4. \A q \in Procs : q # p => OnlyRepair(q)'
    BY <1>t, <2>1 DEF OnlyRepair, Holding, Repairing
  <2> QED
    BY <1>t, <2>1, <2>3, <2>4
<1>5. ASSUME NEW p \in Procs, Sandbox(p)
      PROVE  OnlyRepair(p)' /\ lock' = p
  <2>1. PICK k \in 0 .. MaxErrors : Numbered(k)
    BY <1>t
  <2>2. NextRepair = k + 2 /\ NextRepair \in Repairs
    BY <1>t, <1>5, <2>1, NextIsNew DEF Sandbox
  <2>3. commits[NextRepair] = {}
    BY <2>1, <2>2, AutoFixAssumption DEF Numbered
  <2>4. /\ pc[p] = "sandbox" /\ pc'[p] = "sdk" /\ mine'[p] = NextRepair /\ head' = NextRepair
        /\ branches' = branches \cup {NextRepair}
        /\ UNCHANGED <<edited, commits, lock, orig>>
    BY <1>t, <1>5 DEF Sandbox, TypeOK
  <2>5. TreeSettled /\ orig[p] \in {Main, Developer} \cup Landed /\ lock = p
    BY <1>t, <1>0, <2>4 DEF OnlyRepair, Holding
  <2>6. Landed' = Landed
    BY <2>3, <2>4 DEF Landed
  <2> QED
    BY <2>4, <2>5, <2>6 DEF OnlyRepair, TreeSettled, Repairing
<1>6. ASSUME NEW p \in Procs, SandboxFails(p) \/ Deploy(p)
      PROVE  OnlyRepair(p)' /\ TreeSettled'
  <2>1. /\ pc[p] \in {"sandbox", "deploy"} /\ pc'[p] \in {"idle", "escalate"}
        /\ UNCHANGED gitVars
    BY <1>t, <1>6 DEF SandboxFails, Deploy, TypeOK
  <2>2. TreeSettled
    BY <1>0, <2>1 DEF OnlyRepair
  <2> QED
    BY <2>1, <2>2 DEF OnlyRepair, TreeSettled, Landed, Repairing
<1>7. ASSUME NEW p \in Procs,
             RunSDK(p) \/ StashSources(p) \/ TestWithoutFix(p) \/ TestsFail(p) \/ TestsPass(p)
             \/ CommitFails(p) \/ Reset(p)
      PROVE  OnlyRepair(p)' /\ lock' = p
  <2>1. /\ pc[p] \in Repairing \ {"restore"}
        /\ pc'[p] \in Repairing /\ UNCHANGED <<head, branches, commits, lock, mine, orig>>
    BY <1>t, <1>7 DEF RunSDK, StashSources, TestWithoutFix, TestsFail, TestsPass, CommitFails, Reset, Repairing,
       TypeOK
  <2>2. /\ lock = p /\ orig[p] \in {Main, Developer} \cup Landed
        /\ head = mine[p] /\ branches = Landed \cup {mine[p]}
    BY <1>t, <1>0, <2>1 DEF OnlyRepair, Holding
  <2>3. Landed' = Landed
    BY <2>1 DEF Landed
  <2>4. pc'[p] = "restore" => edited' \subseteq {Developer}
    BY <1>t, <1>7 DEF RunSDK, StashSources, TestWithoutFix, TestsFail, TestsPass, CommitFails, Reset, TypeOK
  <2> QED
    BY <2>1, <2>2, <2>3, <2>4 DEF OnlyRepair, Repairing
<1>8. ASSUME NEW p \in Procs, Commit(p)
      PROVE  OnlyRepair(p)' /\ lock' = p
  <2>1. /\ pc[p] = "commit" /\ pc'[p] = "deploy" /\ edited' = {} /\ commits' = [commits EXCEPT ![mine[p]] = edited]
        /\ UNCHANGED <<head, branches, lock, mine, orig>>
    BY <1>t, <1>8 DEF Commit, TypeOK
  <2>2. /\ lock = p /\ head = mine[p] /\ branches = Landed \cup {mine[p]}
        /\ edited # {} /\ mine[p] \in Repairs
    BY <1>t, <1>0, <2>1 DEF OnlyRepair, RepairUnderWay, Holding, Repairing
  <2>3. Landed' = branches
    BY <1>t, <2>1, <2>2 DEF Landed, TypeOK
  <2> QED
    BY <2>1, <2>2, <2>3 DEF OnlyRepair, TreeSettled, Repairing
<1>9. ASSUME NEW p \in Procs, Restore(p)
      PROVE  OnlyRepair(p)' /\ TreeSettled'
  <2>1. /\ pc[p] = "restore" /\ pc'[p] = "escalate" /\ head' = orig[p] /\ branches' = branches \ {mine[p]}
        /\ UNCHANGED <<edited, commits>>
    BY <1>t, <1>9 DEF Restore, TypeOK
  <2>2. /\ orig[p] \in {Main, Developer} \cup Landed /\ branches = Landed \cup {mine[p]}
        /\ edited \subseteq {Developer} /\ mine[p] \in Repairs /\ commits[mine[p]] = {}
    BY <1>t, <1>0, <2>1 DEF OnlyRepair, RepairUnderWay, Repairing
  <2>3. Landed' = Landed /\ branches' = Landed
    BY <2>1, <2>2 DEF Landed
  <2> QED
    BY <2>1, <2>2, <2>3 DEF OnlyRepair, TreeSettled, Repairing
<1>10. ASSUME NEW p \in Procs,
              \/ Sandbox(p) \/ SandboxFails(p) \/ RunSDK(p) \/ StashSources(p) \/ TestWithoutFix(p)
              \/ TestsFail(p) \/ TestsPass(p) \/ Commit(p) \/ CommitFails(p) \/ Deploy(p) \/ Reset(p)
              \/ Restore(p)
       PROVE  (\A q \in Procs : OnlyRepair(q)') /\ (lock' = NoProc => TreeSettled')
  <2>1. pc[p] \in Holding
    BY <1>t, <1>10, InTree
  <2>2. PICK next \in Phases : pc' = [pc EXCEPT ![p] = next]
    BY <1>t, <1>10, Moved DEF DispatchStep
  <2>3. OnlyRepair(p)' /\ (lock' = NoProc => TreeSettled')
    BY <1>t, <1>5, <1>6, <1>7, <1>8, <1>9, <1>10
  <2> QED
    BY <1>3, <2>1, <2>2, <2>3
<1>11. CASE DeveloperStep
  <2>1. UNCHANGED <<branches, commits, lock, pc, mine, orig>>
    BY <1>11 DEF DeveloperStep, DeveloperEdits, DeveloperCleans
  <2>2. CASE DeveloperEdits
    <3>1. edited' = edited \cup {Developer} /\ head' = head
      BY <2>2 DEF DeveloperEdits
    <3>2. TreeSettled => TreeSettled'
      BY <2>1, <3>1 DEF TreeSettled, Landed
    <3>3. \A q \in Procs : OnlyRepair(q) => OnlyRepair(q)'
      BY <2>1, <3>1, <3>2 DEF OnlyRepair, Landed
    <3> QED
      BY <1>0, <2>1, <3>2, <3>3
  <2>3. CASE DeveloperCleans
    <3>1. lock = NoProc /\ edited' = {} /\ head' \in {Main, Developer} \cup branches
      BY <2>3 DEF DeveloperCleans
    <3>2. TreeSettled'
      BY <1>0, <2>1, <3>1 DEF TreeSettled, Landed
    <3>3. \A q \in Procs : pc'[q] \notin Holding
      BY <1>t, <2>1, <3>1
    <3> QED
      BY <3>2, <3>3 DEF OnlyRepair, Holding, Repairing
  <2> QED
    BY <1>11, <2>2, <2>3 DEF DeveloperStep
<1>12. CASE UNCHANGED vars
  BY <1>0, <1>12 DEF vars, OnlyRepair, TreeSettled, Landed
<1> QED
  BY <1>1, <1>2, <1>4, <1>10, <1>11, <1>12 DEF Next, DispatchStep

\* Without a mishap the tree and the stash hold the edits of the repair under way, and
\* the stash is empty again when the lock is free.
LEMMA OwnStep ==
  ASSUME IInv, [Next]_vars, mishap' = {}
  PROVE  (\A q \in Procs : OwnEdits(q)') /\ (lock' = NoProc => stash' = <<>>)
<1> USE DEF Goto, gitVars, procVars, histVars
<1>t. /\ Typing /\ TypeOK
      /\ (\A q \in Procs : pc[q] \in Holding <=> lock = q) /\ NoProc \notin Procs
  BY AutoFixAssumption DEF IInv, Typing, LockIsHeld
<1>0. /\ \A q \in Procs : OwnEdits(q) /\ OnlyRepair(q)
      /\ lock = NoProc => stash = <<>>
  <2>1. mishap = {}
    BY <1>t, FaultStep
  <2> QED
    BY <2>1 DEF IInv, WorkspaceSettled
<1>1. ASSUME NEW p \in Procs, ResetFails(p) \/ ((GitTimesOut(p) \/ Crash(p)) /\ lock = p)
      PROVE  FALSE
  BY <1>1 DEF GitTimesOut, ResetFails, Crash, BreakOff
<1>2. ASSUME NEW p \in Procs,
             \/ Capture(p) \/ Refuse(p) \/ CheckWorkspace(p) \/ CountAttempts(p) \/ LockTaken(p) \/ Escalate(p)
             \/ (GitTimesOut(p) \/ Crash(p)) /\ lock # p
      PROVE  (\A q \in Procs : OwnEdits(q)') /\ (lock' = NoProc => stash' = <<>>)
  <2>1. /\ pc'[p] \in Phases \ Holding
        /\ \A q \in Procs : q # p => pc'[q] = pc[q]
        /\ UNCHANGED <<gitVars, orig, mine, gated>>
    BY <1>t, <1>2, OutOfTree
  <2>2. UNCHANGED lock
    BY <1>2 DEF Capture, Refuse, CheckWorkspace, CountAttempts, LockTaken, Escalate, GitTimesOut, Crash, BreakOff
  <2> QED
    BY <1>0, <2>1, <2>2 DEF OwnEdits, Holding, Repairing
<1>3. ASSUME NEW p \in Procs, pc[p] \in Holding, NEW next, pc' = [pc EXCEPT ![p] = next], OwnEdits(p)'
      PROVE  \A q \in Procs : OwnEdits(q)'
  <2>1. ASSUME NEW q \in Procs, q # p
        PROVE  pc'[q] \notin Holding
    BY <1>t, <1>3, <2>1, Bystanders DEF TypeOK
  <2> QED
    BY <1>3, <2>1 DEF OwnEdits, Holding, Repairing
<1>4. ASSUME NEW p \in Procs, TakeLock(p)
      PROVE  (\A q \in Procs : OwnEdits(q)') /\ (lock' = NoProc => stash' = <<>>)
  <2>1. /\ lock = NoProc /\ lock' = p /\ pc'[p] = "sandbox"
        /\ \A q \in Procs : q # p => pc'[q] = pc[q]
        /\ UNCHANGED <<gitVars, mine>>
    BY <1>t, <1>4 DEF TakeLock, TypeOK
  <2>2. \A q \in Procs : q # p => pc'[q] \notin Holding
    BY <1>t, <2>1
  <2> QED
    BY <1>t, <1>0, <2>1, <2>2 DEF OwnEdits, Repairing, Holding
<1>5. ASSUME NEW p \in Procs, Sandbox(p) \/ SandboxFails(p) \/ Deploy(p) \/ Restore(p)
      PROVE  OwnEdits(p)' /\ stash' = <<>>
  <2>1. /\ pc[p] \in Holding \ {"prefix"} /\ pc'[p] \in {"sdk", "idle", "escalate"}
        /\ UNCHANGED <<edited, stash>>
        /\ pc'[p] = "sdk" => pc[p] = "sandbox"
    BY <1>t, <1>5 DEF Sandbox, SandboxFails, Deploy, Restore, Holding, Repairing, TypeOK
  <2>2. stash = <<>> /\ (pc[p] = "sandbox" => edited \subseteq {Developer})
    BY <1>0, <2>1 DEF OwnEdits, OnlyRepair, TreeSettled
  <2> QED
    BY <2>1, <2>2 DEF OwnEdits, Holding, Repairing
<1>6. ASSUME NEW p \in Procs,
             RunSDK(p) \/ StashSources(p) \/ TestWithoutFix(p) \/ TestsFail(p) \/ TestsPass(p)
             \/ Commit(p) \/ CommitFails(p) \/ Reset(p)
      PROVE  OwnEdits(p)' /\ lock' = p
  <2>1. /\ pc[p] \in Repairing /\ lock' = p
        /\ pc'[p] \in Repairing \cup {"deploy"} /\ UNCHANGED mine
    BY <1>t, <1>6 DEF RunSDK, StashSources, TestWithoutFix, TestsFail, TestsPass, Commit, CommitFails, Reset,
       Repairing, Holding, TypeOK
  <2>2. /\ stash = IF pc[p] = "prefix" THEN <<mine[p]>> ELSE <<>>
        /\ pc[p] # "reset" => edited \subseteq {Developer, mine[p]}
        /\ pc[p] \in {"verify", "commit"} => mine[p] \in edited
    BY <1>0, <2>1 DEF OwnEdits, Holding
  <2>3. /\ stash' = IF pc'[p] = "prefix" THEN <<mine[p]>> ELSE <<>>
        /\ pc'[p] # "reset" => edited' \subseteq {Developer, mine[p]}
        /\ pc'[p] \in {"verify", "commit"} => mine[p] \in edited'
    <3>1. CASE RunSDK(p)
      BY <1>t, <2>2, <3>1 DEF RunSDK, TypeOK
    <3>2. CASE StashSources(p)
      <4>1. Append(<<>>, mine[p]) = <<mine[p]>> /\ stash = <<>>
        BY <2>2, <3>2 DEF StashSources
      <4> QED
        BY <1>t, <2>2, <3>2, <4>1 DEF StashSources, TypeOK
    <3>3. CASE TestWithoutFix(p)
      <4>1. stash = <<mine[p]>> /\ pc[p] = "prefix" /\ pc'[p] \in {"verify", "reset"}
        BY <1>t, <2>2, <3>3 DEF TestWithoutFix, TypeOK
      <4>2. Len(<<mine[p]>>) = 1 /\ <<mine[p]>>[1] = mine[p] /\ SubSeq(<<mine[p]>>, 1, 0) = <<>>
        BY SubSeqEmpty
      <4>3. PopApplies
        BY <3>3 DEF TestWithoutFix, PopRefused, PopConflicts
      <4>4. stash' = <<>> /\ edited' = edited \cup {mine[p]}
        BY <4>1, <4>2, <4>3 DEF PopApplies, Newest
      <4> QED
        BY <2>2, <4>1, <4>4
    <3>4. CASE TestsFail(p) \/ TestsPass(p)
      BY <1>t, <2>2, <3>4 DEF TestsFail, TestsPass, TypeOK
    <3>5. CASE Commit(p) \/ CommitFails(p) \/ Reset(p)
      BY <1>t, <2>2, <3>5 DEF Commit, CommitFails, Reset, TypeOK
    <3> QED
      BY <1>6, <3>1, <3>2, <3>3, <3>4, <3>5
  <2> QED
    BY <2>1, <2>3 DEF OwnEdits, Repairing
<1>7. ASSUME NEW p \in Procs,
              \/ Sandbox(p) \/ SandboxFails(p) \/ RunSDK(p) \/ StashSources(p) \/ TestWithoutFix(p)
              \/ TestsFail(p) \/ TestsPass(p) \/ Commit(p) \/ CommitFails(p) \/ Deploy(p) \/ Reset(p)
              \/ Restore(p)
      PROVE  (\A q \in Procs : OwnEdits(q)') /\ (lock' = NoProc => stash' = <<>>)
  <2>1. pc[p] \in Holding
    BY <1>t, <1>7, InTree
  <2>2. PICK next \in Phases : pc' = [pc EXCEPT ![p] = next]
    BY <1>t, <1>7, Moved DEF DispatchStep
  <2>3. OwnEdits(p)' /\ (lock' = NoProc => stash' = <<>>)
    BY <1>t, <1>5, <1>6, <1>7
  <2> QED
    BY <1>3, <2>1, <2>2, <2>3
<1>8. CASE DeveloperStep
  <2>1. UNCHANGED <<stash, lock, pc, mine>>
    BY <1>8 DEF DeveloperStep, DeveloperEdits, DeveloperCleans
  <2>2. CASE DeveloperEdits
    BY <1>0, <2>1, <2>2 DEF DeveloperEdits, OwnEdits
  <2>3. CASE DeveloperCleans
    <3>1. \A q \in Procs : pc'[q] \notin Holding
      BY <1>t, <2>1, <2>3 DEF DeveloperCleans
    <3> QED
      BY <1>0, <2>1, <3>1 DEF OwnEdits, Holding, Repairing
  <2> QED
    BY <1>8, <2>2, <2>3 DEF DeveloperStep
<1>9. CASE UNCHANGED vars
  BY <1>0, <1>9 DEF vars, OwnEdits
<1> QED
  BY <1>1, <1>2, <1>4, <1>7, <1>8, <1>9 DEF Next, DispatchStep

\* Every step keeps the commits what the tests passed with.
LEMMA CommittedStep ==
  ASSUME IInv, [Next]_vars
  PROVE  CommittedWasVerified'
<1> USE DEF gitVars, procVars, histVars
<1>t. /\ Typing /\ TypeOK /\ (\A q \in Procs : RepairUnderWay(q)) /\ CommittedWasVerified
      /\ \E k \in 0 .. MaxErrors : Numbered(k)
      /\ mishap' = {} => mishap = {}
  <2>1. TypeOK
    BY DEF IInv
  <2> QED
    BY <2>1, FaultStep DEF IInv, Typing
<1>1. ASSUME Landed' \subseteq Landed,
             \A n \in Landed : commits'[n] = commits[n] /\ gated'[n] = gated[n]
      PROVE  CommittedWasVerified'
  BY <1>t, <1>1 DEF CommittedWasVerified
<1>2. ASSUME NEW p \in Procs, Sandbox(p)
      PROVE  CommittedWasVerified'
  <2>1. PICK k \in 0 .. MaxErrors : Numbered(k)
    BY <1>t
  <2>2. NextRepair = k + 2 /\ NextRepair \in Repairs
    BY <1>t, <1>2, <2>1, NextIsNew DEF Sandbox
  <2>3. commits[NextRepair] = {}
    BY <2>1, <2>2, AutoFixAssumption DEF Numbered
  <2>4. branches' = branches \cup {NextRepair} /\ UNCHANGED <<commits, gated>>
    BY <1>2 DEF Sandbox
  <2>5. Landed' = Landed
    BY <2>3, <2>4 DEF Landed
  <2> QED
    BY <1>1, <2>4, <2>5
<1>3. ASSUME NEW p \in Procs, TestsPass(p)
      PROVE  CommittedWasVerified'
  <2>1. mine[p] \in Repairs /\ commits[mine[p]] = {}
    BY <1>t, <1>3 DEF TestsPass, RepairUnderWay, Repairing
  <2>2. UNCHANGED <<branches, commits>> /\ gated' = [gated EXCEPT ![mine[p]] = edited]
    BY <1>3 DEF TestsPass
  <2>3. \A n \in Landed : n \in Repairs /\ n # mine[p]
    BY <1>t, <2>1 DEF Landed, TypeOK
  <2>4. Landed' = Landed /\ \A n \in Landed : commits'[n] = commits[n] /\ gated'[n] = gated[n]
    BY <1>t, <2>2, <2>3 DEF Landed, TypeOK
  <2> QED
    BY <1>1, <2>4
<1>4. ASSUME NEW p \in Procs, Commit(p)
      PROVE  CommittedWasVerified'
  <2>1. pc[p] = "commit" /\ commits' = [commits EXCEPT ![mine[p]] = edited] /\ UNCHANGED <<branches, gated>>
    BY <1>4 DEF Commit
  <2>2. mine[p] \in Repairs /\ edited \ {Developer} = gated[mine[p]] \ {Developer}
    BY <1>t, <2>1 DEF RepairUnderWay, Repairing
  <2>3. mine[p] # Developer
    BY <2>2, AutoFixAssumption DEF Repairs, Developer
  <2>4. mishap = {} => mine[p] \in edited /\ edited \subseteq {Developer, mine[p]}
    BY <2>1 DEF IInv, OwnEdits, Repairing
  <2>5. ASSUME NEW n \in Landed'
        PROVE  /\ commits'[n] \ {Developer} = gated'[n] \ {Developer}
               /\ mishap' = {} => commits'[n] \ {Developer} = {n}
    <3>1. n \in branches /\ n \in Repairs /\ commits'[n] # {}
      BY <1>t, <2>1 DEF Landed, TypeOK
    <3>2. CASE n = mine[p]
      BY <1>t, <2>1, <2>2, <2>3, <2>4, <3>1, <3>2 DEF TypeOK
    <3>3. CASE n # mine[p]
      BY <1>t, <2>1, <3>1, <3>3 DEF TypeOK, Landed, CommittedWasVerified
    <3> QED
      BY <3>2, <3>3
  <2> QED
    BY <2>5 DEF CommittedWasVerified
<1>5. ASSUME NEW p \in Procs, Restore(p)
      PROVE  CommittedWasVerified'
  <2>1. branches' = branches \ {mine[p]} /\ UNCHANGED <<commits, gated>>
    BY <1>5 DEF Restore
  <2>2. Landed' \subseteq Landed
    BY <2>1 DEF Landed
  <2> QED
    BY <1>1, <2>1, <2>2
<1>6. ASSUME UNCHANGED <<branches, commits, gated>>
      PROVE  CommittedWasVerified'
  <2>1. Landed' = Landed
    BY <1>6 DEF Landed
  <2> QED
    BY <1>1, <1>6, <2>1
<1>7. ASSUME NEW p \in Procs,
             \/ Capture(p) \/ Refuse(p) \/ CheckWorkspace(p) \/ CountAttempts(p) \/ TakeLock(p) \/ LockTaken(p)
             \/ SandboxFails(p) \/ RunSDK(p) \/ StashSources(p) \/ TestWithoutFix(p) \/ TestsFail(p)
             \/ CommitFails(p) \/ Deploy(p) \/ Reset(p) \/ Escalate(p) \/ GitTimesOut(p) \/ ResetFails(p)
             \/ Crash(p)
      PROVE  UNCHANGED <<branches, commits, gated>>
  BY <1>7 DEF Capture, Refuse, CheckWorkspace, CountAttempts, TakeLock, LockTaken, SandboxFails, RunSDK,
     StashSources, TestWithoutFix, TestsFail, CommitFails, Deploy, Reset, Escalate, GitTimesOut, ResetFails,
     Crash, BreakOff
<1>8. ASSUME DeveloperStep \/ UNCHANGED vars
      PROVE  UNCHANGED <<branches, commits, gated>>
  BY <1>8 DEF DeveloperStep, DeveloperEdits, DeveloperCleans, vars
<1> QED
  BY <1>2, <1>3, <1>4, <1>5, <1>6, <1>7, <1>8 DEF Next, DispatchStep

-----------------------------------------------------------------------------
(* The attempts                                                            *)

\* A step that starts no run keeps the count of attempts, if what it takes from the
\* runs whose row is to come it gives to the rows or to the faults.
LEMMA CountedKept ==
  ASSUME TypeOK, NEW f \in Fingerprints, AttemptsCounted(f), attempts'[f] = attempts[f],
         rows'[f] \in 0 .. Cap, rows[f] <= rows'[f], faults' \in Nat, faults <= faults',
         Counted(f)' \subseteq Counted(f),
         \/ Unrowed(f) \subseteq Unrowed(f)'
         \/ /\ \E p \in Procs : Unrowed(f) \subseteq Unrowed(f)' \cup {p}
            /\ rows'[f] = Cap \/ rows[f] + faults < rows'[f] + faults'
  PROVE  AttemptsCounted(f)'
<1>1. /\ attempts[f] \in Nat /\ rows[f] \in Nat /\ Cap \in Nat /\ rows'[f] \in Nat /\ faults \in Nat
      /\ IsFiniteSet(Counted(f)) /\ IsFiniteSet(Unrowed(f)) /\ IsFiniteSet(Procs) /\ Unrowed(f)' \subseteq Procs
  <2>1. attempts[f] \in Nat /\ rows[f] \in Nat /\ Cap \in Nat /\ rows'[f] \in Nat /\ faults \in Nat
    BY AutoFixAssumption DEF TypeOK
  <2>2. Unrowed(f)' \subseteq Procs
    BY DEF Unrowed
  <2> QED
    BY <2>1, <2>2, PhasesFinite
<1>2. IsFiniteSet(Unrowed(f)')
  BY <1>1, FS_Subset
<1>3. /\ Cardinality(Counted(f)') \in Nat /\ Cardinality(Counted(f)') <= Cardinality(Counted(f))
      /\ Cardinality(Counted(f)) \in Nat /\ Cardinality(Procs) \in Nat
  BY <1>1, CardLemma
<1>4. Cardinality(Unrowed(f)) \in Nat /\ Cardinality(Unrowed(f)') \in Nat
  BY <1>1, <1>2, FS_CardinalityType
<1>5. attempts'[f] + Cardinality(Counted(f)') < Cap + Cardinality(Procs) + faults'
  BY <1>1, <1>3 DEF AttemptsCounted
<1>6. rows'[f] < Cap => attempts'[f] <= rows'[f] + Cardinality(Unrowed(f)') + faults'
  <2>1. CASE Unrowed(f) \subseteq Unrowed(f)'
    <3>1. Cardinality(Unrowed(f)) <= Cardinality(Unrowed(f)')
      BY <1>2, <2>1, CardLemma
    <3> QED
      BY <1>1, <1>4, <3>1 DEF AttemptsCounted
  <2>2. CASE /\ \E p \in Procs : Unrowed(f) \subseteq Unrowed(f)' \cup {p}
             /\ rows'[f] = Cap \/ rows[f] + faults < rows'[f] + faults'
    <3>1. Cardinality(Unrowed(f)) <= Cardinality(Unrowed(f)') + 1
      BY <1>1, <1>2, <2>2, CardLemma
    <3> QED
      BY <1>1, <1>4, <2>2, <3>1 DEF AttemptsCounted
  <2> QED
    BY <2>1, <2>2
<1> QED
  BY <1>5, <1>6 DEF AttemptsCounted

\* Every step keeps the count of attempts.
LEMMA AttemptsStep ==
  ASSUME IInv, [Next]_vars
  PROVE  \A f \in Fingerprints : AttemptsCounted(f)'
<1> USE DEF gitVars, procVars, histVars
<1>t. /\ TypeOK /\ Cap \in Nat /\ (\A f \in Fingerprints : AttemptsCounted(f))
      /\ faults \in Nat /\ faults' \in Nat /\ faults <= faults'
  <2>1. TypeOK /\ Cap \in Nat /\ MaxFaults \in Nat /\ \A f \in Fingerprints : AttemptsCounted(f)
    BY AutoFixAssumption DEF IInv
  <2> QED
    BY <2>1, FaultStep DEF TypeOK
<1>r. ASSUME NEW p \in Procs, NEW f \in Fingerprints, AddRow(p) \/ UNCHANGED rows
      PROVE  rows'[f] \in 0 .. Cap /\ rows[f] <= rows'[f]
  <2>1. rows[f] \in 0 .. Cap
    BY <1>t DEF TypeOK
  <2> QED
    BY <1>t, <1>r, <2>1, RowStep
<1>1. ASSUME NEW p \in Procs, NEW f \in Fingerprints,
             GitTimesOut(p) \/ ResetFails(p) \/ Crash(p)
      PROVE  AttemptsCounted(f)'
  <2>1. /\ UNCHANGED <<fp, rows, attempts>> /\ faults' = faults + 1
        /\ pc'[p] \notin {"lock", "sandbox"} /\ \A q \in Procs : q # p => pc'[q] = pc[q]
    BY <1>t, <1>1 DEF GitTimesOut, ResetFails, Crash, BreakOff, Fault, Goto, TypeOK
  <2>2. Counted(f)' \subseteq Counted(f) /\ Unrowed(f) \subseteq Unrowed(f)' \cup {p}
    BY <2>1 DEF Counted, Unrowed
  <2>3. rows'[f] \in 0 .. Cap /\ rows[f] <= rows'[f] /\ rows[f] + faults < rows'[f] + faults'
    BY <1>t, <2>1 DEF TypeOK
  <2> QED
    BY <1>t, <2>1, <2>2, <2>3, CountedKept
<1>2. ASSUME NEW p \in Procs, NEW f \in Fingerprints,
             \/ Capture(p) \/ Refuse(p) \/ CheckWorkspace(p) \/ TakeLock(p) \/ LockTaken(p) \/ SandboxFails(p)
             \/ RunSDK(p) \/ StashSources(p) \/ TestWithoutFix(p) \/ TestsFail(p) \/ TestsPass(p)
             \/ Commit(p) \/ CommitFails(p) \/ Reset(p) \/ Escalate(p)
      PROVE  AttemptsCounted(f)'
  <2>1. /\ Counted(f)' \subseteq Counted(f) /\ Unrowed(f) \subseteq Unrowed(f)'
    BY <1>t, <1>2 DEF Capture, Refuse, CheckWorkspace, TakeLock, LockTaken, SandboxFails, RunSDK, StashSources,
       TestWithoutFix, TestsFail, TestsPass, Commit, CommitFails, Reset, Escalate, Goto, Counted, Unrowed,
       Repairing, TypeOK
  <2>2. UNCHANGED attempts /\ (AddRow(p) \/ UNCHANGED rows)
    BY <1>2 DEF Capture, Refuse, CheckWorkspace, TakeLock, LockTaken, SandboxFails, RunSDK, StashSources,
       TestWithoutFix, TestsFail, TestsPass, Commit, CommitFails, Reset, Escalate
  <2> QED
    BY <1>t, <1>r, <2>1, <2>2, CountedKept
<1>3. ASSUME NEW p \in Procs, NEW f \in Fingerprints, CountAttempts(p)
      PROVE  AttemptsCounted(f)'
  <2>1. /\ rows[fp[p]] < Cap \/ faults' = faults + 1
        /\ pc[p] = "attempts" /\ UNCHANGED <<fp, rows, attempts>>
        /\ pc'[p] = "lock" /\ \A q \in Procs : q # p => pc'[q] = pc[q]
    BY <1>t, <1>3 DEF CountAttempts, Fault, Goto, TypeOK
  <2>2. Unrowed(f)' = Unrowed(f) /\ rows[f] \in 0 .. Cap
    BY <1>t, <2>1 DEF Unrowed, Repairing, TypeOK
  <2>3. CASE fp[p] # f
    <3>1. Counted(f)' = Counted(f)
      BY <2>1, <2>3 DEF Counted
    <3> QED
      BY <1>t, <2>1, <2>2, <3>1, CountedKept
  <2>4. CASE fp[p] = f
    <3>1. IsFiniteSet(Procs) /\ Counted(f)' \subseteq Procs /\ Unrowed(f) \subseteq Procs
          /\ Counted(f)' \cap Unrowed(f) = {} /\ Counted(f)' \subseteq Counted(f) \cup {p}
      BY <2>1, AutoFixAssumption DEF Counted, Unrowed, Repairing
    <3>2. IsFiniteSet(Counted(f)') /\ IsFiniteSet(Unrowed(f)) /\ IsFiniteSet(Counted(f))
      BY <3>1, PhasesFinite, FS_Subset
    <3>3. /\ Cardinality(Counted(f)') \in Nat /\ Cardinality(Unrowed(f)) \in Nat
          /\ Cardinality(Procs) \in Nat /\ Cardinality(Counted(f)) \in Nat
      BY <3>1, <3>2, FS_CardinalityType
    <3>4. AttemptsCounted(f) /\ attempts[f] \in Nat /\ rows[f] \in Nat
      BY <1>t, <2>2 DEF TypeOK
    <3>5. attempts[f] + Cardinality(Counted(f)') < Cap + Cardinality(Procs) + faults'
      <4>1. CASE rows[fp[p]] < Cap
        <5>1. /\ Cardinality(Counted(f)' \cup Unrowed(f)) =
                   Cardinality(Counted(f)') + Cardinality(Unrowed(f)) - Cardinality(Counted(f)' \cap Unrowed(f))
              /\ IsFiniteSet(Counted(f)' \cup Unrowed(f))
          BY <3>2, FS_Union
        <5>2. Cardinality(Counted(f)' \cap Unrowed(f)) = 0
          BY <3>1, FS_EmptySet
        <5>3. Cardinality(Counted(f)' \cup Unrowed(f)) = Cardinality(Counted(f)') + Cardinality(Unrowed(f))
          BY <3>3, <5>1, <5>2
        <5>4. Cardinality(Counted(f)' \cup Unrowed(f)) <= Cardinality(Procs)
          BY <3>1, CardLemma
        <5>5. attempts[f] <= rows[f] + Cardinality(Unrowed(f)) + faults /\ rows[f] < Cap
          BY <2>4, <3>4, <4>1 DEF AttemptsCounted
        <5> QED
          BY <1>t, <3>3, <3>4, <5>3, <5>4, <5>5
      <4>2. CASE faults' = faults + 1
        <5>1. Cardinality(Counted(f)') <= Cardinality(Counted(f)) + 1
          BY <3>1, <3>2, CardLemma
        <5> QED
          BY <1>t, <3>3, <3>4, <4>2, <5>1 DEF AttemptsCounted
      <4> QED
        BY <2>1, <4>1, <4>2
    <3>6. rows[f] < Cap => attempts[f] <= rows[f] + Cardinality(Unrowed(f)) + faults'
      BY <1>t, <3>3, <3>4 DEF AttemptsCounted
    <3> QED
      BY <2>1, <2>2, <3>5, <3>6 DEF AttemptsCounted
  <2> QED
    BY <2>3, <2>4
<1>4. ASSUME NEW p \in Procs, NEW f \in Fingerprints, Sandbox(p)
      PROVE  AttemptsCounted(f)'
  <2>1. /\ pc[p] = "sandbox" /\ UNCHANGED <<fp, rows, faults>>
        /\ attempts'[f] = IF fp[p] = f THEN attempts[f] + 1 ELSE attempts[f]
        /\ pc'[p] = "sdk" /\ \A q \in Procs : q # p => pc'[q] = pc[q]
    BY <1>t, <1>4 DEF Sandbox, Goto, TypeOK
  <2>2. AttemptsCounted(f) /\ rows[f] \in 0 .. Cap /\ attempts[f] \in Nat
    BY <1>t, <2>1 DEF TypeOK
  <2>3. CASE fp[p] # f
    <3>1. Counted(f)' = Counted(f) /\ Unrowed(f)' = Unrowed(f)
      BY <2>1, <2>3 DEF Counted, Unrowed, Repairing
    <3> QED
      BY <2>1, <2>2, <2>3, <3>1 DEF AttemptsCounted
  <2>4. CASE fp[p] = f
    <3>1. /\ Counted(f)' \cup {p} \subseteq Counted(f) /\ p \notin Counted(f)'
          /\ Unrowed(f) \cup {p} \subseteq Unrowed(f)' /\ p \notin Unrowed(f)
          /\ Unrowed(f)' \subseteq Procs
      BY <2>1, <2>4 DEF Counted, Unrowed, Repairing
    <3>2. IsFiniteSet(Procs) /\ IsFiniteSet(Counted(f)) /\ IsFiniteSet(Unrowed(f)')
      BY <3>1, PhasesFinite, FS_Subset
    <3>3. /\ Cardinality(Counted(f)') + 1 <= Cardinality(Counted(f)) /\ Cardinality(Counted(f)') \in Nat
          /\ Cardinality(Counted(f)) \in Nat /\ Cardinality(Procs) \in Nat
      BY <3>1, <3>2, CardLemma
    <3>4. /\ Cardinality(Unrowed(f)) + 1 <= Cardinality(Unrowed(f)') /\ Cardinality(Unrowed(f)) \in Nat
          /\ Cardinality(Unrowed(f)') \in Nat
      BY <3>1, <3>2, CardLemma
    <3>5. attempts'[f] = attempts[f] + 1 /\ rows'[f] = rows[f] /\ rows[f] \in Nat /\ faults' = faults
      BY <2>1, <2>2, <2>4
    <3>6. attempts'[f] + Cardinality(Counted(f)') < Cap + Cardinality(Procs) + faults'
      BY <1>t, <2>2, <3>3, <3>5 DEF AttemptsCounted
    <3>7. rows'[f] < Cap => attempts'[f] <= rows'[f] + Cardinality(Unrowed(f)') + faults'
      BY <1>t, <2>2, <3>4, <3>5 DEF AttemptsCounted
    <3> QED
      BY <3>6, <3>7 DEF AttemptsCounted
  <2> QED
    BY <2>3, <2>4
<1>5. ASSUME NEW p \in Procs, NEW f \in Fingerprints, Deploy(p) \/ Restore(p)
      PROVE  AttemptsCounted(f)'
  <2>1. /\ pc[p] \in {"deploy", "restore"} /\ AddRow(p) /\ UNCHANGED <<fp, attempts>>
        /\ pc'[p] \in {"idle", "escalate"} /\ \A q \in Procs : q # p => pc'[q] = pc[q]
    BY <1>t, <1>5 DEF Deploy, Restore, Goto, TypeOK
  <2>2. AttemptsCounted(f) /\ rows[f] \in Nat /\ rows'[f] \in 0 .. Cap /\ rows[f] <= rows'[f]
    BY <1>t, <1>r, <2>1 DEF TypeOK
  <2>3. Counted(f)' = Counted(f) /\ Unrowed(f) \subseteq Unrowed(f)' \cup {p}
    BY <2>1 DEF Counted, Unrowed
  <2>4. CASE fp[p] # f
    <3>1. Unrowed(f)' = Unrowed(f)
      BY <2>1, <2>4 DEF Unrowed
    <3> QED
      BY <1>t, <2>1, <2>2, <2>3, <3>1, CountedKept
  <2>5. CASE fp[p] = f
    <3>1. rows'[f] = Cap \/ rows[f] + faults < rows'[f] + faults'
      BY <1>t, <2>1, <2>2, <2>5, RowStep
    <3> QED
      BY <1>t, <2>1, <2>2, <2>3, <3>1, CountedKept
  <2> QED
    BY <2>4, <2>5
<1>6. CASE DeveloperStep \/ UNCHANGED vars
  <2>1. UNCHANGED <<pc, fp, rows, attempts, faults>>
    BY <1>6 DEF DeveloperStep, vars
  <2> QED
    BY <1>t, <2>1 DEF AttemptsCounted, Counted, Unrowed
<1> QED
  BY <1>1, <1>2, <1>3, <1>4, <1>5, <1>6 DEF Next, DispatchStep

-----------------------------------------------------------------------------
(* The theorems                                                            *)

\* The initial states satisfy the inductive invariant.
LEMMA IInvInit == Init => IInv
<1> SUFFICES ASSUME Init PROVE IInv
  OBVIOUS
<1>t. /\ Cap \in Nat /\ MaxErrors \in Nat /\ MaxFaults \in Nat /\ NoProc \notin Procs /\ Procs # {}
      /\ Cardinality(Procs) \in Nat /\ Cardinality(Procs) # 0
  BY AutoFixAssumption, FS_CardinalityType, FS_EmptySet
<1>1. TypeOK
  BY <1>t DEF Init, TypeOK, Phases, Main, Developer, Files
<1>2. LockIsHeld
  BY <1>t DEF Init, LockIsHeld, Holding, Repairing
<1>3. Numbered(0)
  <2>1. Waiting = {}
    BY DEF Init, Waiting
  <2>2. Cardinality(Waiting) = 0
    BY <2>1, FS_EmptySet
  <2> QED
    BY <1>t, <2>2 DEF Init, Numbered, Developer
<1>4. \A p \in Procs : RepairUnderWay(p) /\ OnlyRepair(p) /\ OwnEdits(p)
  BY DEF Init, RepairUnderWay, OnlyRepair, OwnEdits, Holding, Repairing
<1>5. ASSUME NEW f \in Fingerprints
      PROVE  AttemptsCounted(f)
  <2>1. Counted(f) = {} /\ Unrowed(f) = {}
    BY DEF Init, Counted, Unrowed, Repairing
  <2>2. Cardinality(Counted(f)) = 0 /\ Cardinality(Unrowed(f)) = 0
    BY <2>1, FS_EmptySet
  <2> QED
    BY <1>t, <2>2 DEF Init, AttemptsCounted
<1>6. Landed = {}
  BY DEF Init, Landed
<1>7. WorkspaceSettled /\ CommittedWasVerified
  BY <1>6 DEF Init, WorkspaceSettled, TreeSettled, CommittedWasVerified
<1> QED
  BY <1>t, <1>1, <1>2, <1>3, <1>4, <1>5, <1>7 DEF IInv

\* Every step keeps the inductive invariant.
LEMMA IInvStep == IInv /\ [Next]_vars => IInv'
<1> SUFFICES ASSUME IInv, [Next]_vars PROVE IInv'
  OBVIOUS
<1>t. Typing
  BY DEF IInv, Typing
<1>1. TypeOK'
  BY <1>t, TypeStep
<1>2. LockIsHeld'
  BY LockStep DEF IInv
<1>3. \E m \in 0 .. MaxErrors : Numbered(m)'
  BY NumberStep DEF IInv
<1>4. \A p \in Procs : RepairUnderWay(p)'
  BY <1>t, RepairStep
<1>5. /\ "broken" \notin mishap' => \A p \in Procs : OnlyRepair(p)'
      /\ mishap' = {} => \A p \in Procs : OwnEdits(p)'
  BY OnlyStep, OwnStep
<1>6. WorkspaceSettled'
  <2>1. ASSUME lock' = NoProc, "broken" \notin mishap', stash' # <<>>
        PROVE  "refused" \in mishap'
    <3>1. mishap' # {}
      BY <2>1, OwnStep
    <3> QED
      BY <1>1, <2>1, <3>1 DEF TypeOK
  <2> QED
    BY <2>1, OnlyStep DEF WorkspaceSettled
<1>7. CommittedWasVerified' /\ \A f \in Fingerprints : AttemptsCounted(f)'
  BY CommittedStep, AttemptsStep
<1> QED
  BY <1>1, <1>2, <1>3, <1>4, <1>5, <1>6, <1>7 DEF IInv

\* The inductive invariant holds in every reachable state.
THEOREM Invariance == Spec => []IInv
BY IInvInit, IInvStep, PTL DEF Spec

\* No dispatch, fault or step of the developer leaves the types.
THEOREM TypeInvariant == Spec => []TypeOK
<1>1. IInv => TypeOK
  BY DEF IInv
<1> QED
  BY <1>1, Invariance, PTL

\* With the lock free and no repair broken off in the workspace, no edit or sandbox of
\* a failed repair is left, and a stash entry only where a pop was refused
\* (run_autofix, verify_with_tests, revert_sandbox).
THEOREM WorkspaceIsSettled == Spec => []WorkspaceSettled
<1>1. IInv => WorkspaceSettled
  BY DEF IInv
<1> QED
  BY <1>1, Invariance, PTL

\* A repair commits what its tests passed with, and a fingerprint gets fewer runs than
\* the cap, the number of processes and that of the faults together (preflight checks
\* the cap before the lock; verify_with_tests, deploy_fix).
THEOREM RepairsAreGated == Spec => []RepairIsGated
<1>1. IInv => RepairIsGated
  <2> SUFFICES ASSUME IInv PROVE RepairIsGated
    OBVIOUS
  <2>1. ASSUME NEW f \in Fingerprints
        PROVE  attempts[f] < Cap + Cardinality(Procs) + faults
    <3>1. attempts[f] \in Nat /\ Cap \in Nat /\ faults \in Nat /\ AttemptsCounted(f)
      BY <2>1, AutoFixAssumption DEF IInv, TypeOK
    <3>2. Cardinality(Procs) \in Nat /\ Cardinality(Counted(f)) \in Nat
      BY PhasesFinite, FS_CardinalityType
    <3> QED
      BY <3>1, <3>2 DEF AttemptsCounted
  <2>2. CommittedWasVerified
    BY DEF IInv
  <2> QED
    BY <2>1, <2>2 DEF RepairIsGated, AttemptsBounded
<1> QED
  BY <1>1, Invariance, PTL

-----------------------------------------------------------------------------
(* Least and greatest numbers                                              *)

\* A set of naturals has a least element.
LEMMA LeastElement ==
  ASSUME NEW K \in SUBSET Nat, K # {}
  PROVE  \E i \in K : \A j \in K : i <= j
<1> DEFINE R == {ss \in Nat \X Nat : ss[1] < ss[2]}
<1>1. IsWellFoundedOn(R, Nat)
  BY NatLessThanWellFounded DEF OpToRel
<1>2. PICK i \in K : \A j \in K : <<j, i>> \notin R
  <2> HIDE DEF R
  <2> QED
    BY <1>1, WFMin
<1>3. ASSUME NEW j \in K
      PROVE  i <= j
  <2>1. <<j, i>> \notin R
    BY <1>2
  <2>2. ~(j < i)
    BY <2>1
  <2> QED
    BY <2>2
<1> QED
  BY <1>3

-----------------------------------------------------------------------------
(* The polling streams of a run                                            *)

\* Every step of a run and its streams keeps the flags Boolean.
LEMMA StreamFlags ==
  ASSUME RS!FlagsOK, [RS!Next]_(RS!vars)
  PROVE  RS!FlagsOK'
<1> USE DEF RS!FlagsOK, RS!runVars, RS!mVars, RS!tVars, RS!endVars
<1>1. CASE RS!OpenLog \/ RS!WriteLine \/ RS!EndRun \/ RS!ExitLate \/ RS!DeleteRun
  BY <1>1 DEF RS!OpenLog, RS!WriteLine, RS!EndRun, RS!ExitLate, RS!DeleteRun
<1>2. CASE RS!OpenStream \/ RS!StreamStep \/ RS!OpenTail \/ RS!TailStep \/ UNCHANGED RS!vars
  <2>1. UNCHANGED <<writer, cut>>
    BY <1>2 DEF RS!OpenStream, RS!StreamStep, RS!ReadRun, RS!FetchMetrics, RS!OpenTail, RS!TailStep,
       RS!LookForFile, RS!WaitForFile, RS!ReadChunk, RS!CheckTerminal, RS!FinalRead, RS!vars
  <2> QED
    BY <2>1
<1> QED
  BY <1>1, <1>2 DEF RS!Next

\* The initial states satisfy the inductive invariant of the streams.
LEMMA StreamInit == RS!Init => RS!IInv
<1> SUFFICES ASSUME RS!Init PROVE RS!IInv
  OBVIOUS
<1>1. RS!FlagsOK
  BY DEF RS!Init, RS!FlagsOK
<1>2. RS!DataOK
  BY ApiAssumption DEF RS!Init, RS!DataOK, RS!NoFile
<1>3. RS!NothingIsLost /\ RS!TailIsCounted
  BY ApiAssumption DEF RS!Init, RS!NothingIsLost, RS!TailIsCounted, RS!Size
<1>4. RS!VerdictIsRead /\ RS!MetricsBeforeDone /\ RS!LogBeforeDone
  BY DEF RS!Init, RS!VerdictIsRead, RS!MetricsBeforeDone, RS!LogBeforeDone
<1> QED
  BY <1>1, <1>2, <1>3, <1>4 DEF RS!IInv, RS!TypeOK

\* Every step keeps what the streams have delivered in step with what was recorded.
LEMMA StreamData ==
  ASSUME RS!IInv, [RS!Next]_(RS!vars)
  PROVE  /\ RS!DataOK' /\ RS!VerdictIsRead' /\ RS!NothingIsLost' /\ RS!TailIsCounted'
         /\ RS!MetricsBeforeDone' /\ RS!LogBeforeDone'
<1> DEFINE Data == /\ RS!DataOK /\ RS!VerdictIsRead /\ RS!NothingIsLost /\ RS!TailIsCounted
                   /\ RS!MetricsBeforeDone /\ RS!LogBeforeDone
<1>t. Data
  BY DEF RS!IInv, RS!TypeOK
<1> USE <1>t, ApiAssumption DEF Data, RS!DataOK, RS!VerdictIsRead, RS!NothingIsLost, RS!TailIsCounted,
     RS!MetricsBeforeDone, RS!LogBeforeDone, RS!NoFile, RS!Size, RS!runVars, RS!mVars, RS!tVars, RS!endVars
<1>1. CASE RS!OpenLog
  <2>1. /\ runStatus = "running" /\ trainings < MaxTrainings /\ lines' = 0 /\ trainings' = trainings + 1
        /\ UNCHANGED <<runStatus, metrics, mPhase, mStatus, mLast, tPhase, tOffset, tEmitted, tReason,
                      mAtEnd, lAtEnd>>
    BY <1>1 DEF RS!OpenLog
  <2>2. ~cut' => ~cut /\ ~(tOffset > 0)
    BY <1>1, Zenon DEF RS!OpenLog
  <2> QED
    BY <2>1, <2>2
<1>2. CASE RS!WriteLine
  BY <1>2 DEF RS!WriteLine
<1>3. CASE RS!EndRun
  BY <1>3 DEF RS!EndRun
<1>4. CASE RS!ExitLate
  BY <1>4 DEF RS!ExitLate
<1>5. CASE RS!DeleteRun
  <2>1. /\ runStatus = "terminal" /\ runStatus' = "deleted" /\ metrics' = 0 /\ lines' \in {lines, MaxLines + 1}
        /\ UNCHANGED <<trainings, mPhase, mStatus, mLast, tPhase, tOffset, tEmitted, tReason, mAtEnd, lAtEnd>>
    BY <1>5 DEF RS!DeleteRun
  <2>2. ~cut' => ~cut /\ lines' = lines
    BY <1>5, Zenon DEF RS!DeleteRun
  <2> QED
    BY <2>1, <2>2
<1>6. CASE RS!OpenStream \/ RS!ReadRun \/ RS!FetchMetrics
  BY <1>6 DEF RS!OpenStream, RS!ReadRun, RS!FetchMetrics
<1>7. CASE RS!OpenTail \/ RS!LookForFile \/ RS!CheckTerminal
  BY <1>7 DEF RS!OpenTail, RS!LookForFile, RS!CheckTerminal
<1>8. CASE RS!WaitForFile
  BY <1>8 DEF RS!WaitForFile, RS!CloseTail
<1>9. CASE RS!ReadChunk
  BY <1>9 DEF RS!ReadChunk, RS!CloseTail, RS!New
<1>10. CASE RS!FinalRead
  BY <1>10 DEF RS!FinalRead, RS!CloseTail, RS!New
<1>11. CASE UNCHANGED RS!vars
  BY <1>11 DEF RS!vars
<1> HIDE <1>t DEF RS!DataOK, RS!VerdictIsRead, RS!NothingIsLost, RS!TailIsCounted,
     RS!MetricsBeforeDone, RS!LogBeforeDone
<1> QED
  BY <1>1, <1>2, <1>3, <1>4, <1>5, <1>6, <1>7, <1>8, <1>9, <1>10, <1>11
     DEF RS!Next, RS!StreamStep, RS!TailStep

\* Every step keeps the inductive invariant of the streams.
LEMMA StreamStep == RS!IInv /\ [RS!Next]_(RS!vars) => RS!IInv'
  BY StreamFlags, StreamData DEF RS!IInv, RS!TypeOK

-----------------------------------------------------------------------------
(* Who is let in                                                           *)

\* Only who was granted the role is an administrator.
LEMMA RoleIsGranted == \A u : AC!Role(u) = "admin" => "admin" \in Granted[u]
<1> SUFFICES ASSUME NEW u, AC!Role(u) = "admin" PROVE "admin" \in Granted[u]
  OBVIOUS
<1> DEFINE known == {i \in DOMAIN AC!Precedence : AC!Precedence[i] \in Granted[u]}
           least == CHOOSE i \in known : \A j \in known : i <= j
<1>1. known \in SUBSET Nat
  BY DEF AC!Precedence
<1>2. known # {} /\ AC!Precedence[least] = "admin"
  BY DEF AC!Role
<1>3. \E i \in known : \A j \in known : i <= j
  <2> HIDE DEF known
  <2> QED
    BY <1>1, <1>2, LeastElement
<1>4. least \in known
  <2> HIDE DEF known
  <2> QED
    BY <1>3
<1> QED
  BY <1>2, <1>4

\* A listing is limited to the caller's tenant, except for the system's administrator.
LEMMA ScopeIsTheTenants ==
  ASSUME NEW u
  PROVE  /\ AC!Scope(u) \subseteq Rows
         /\ \A r \in AC!Scope(u) :
              r.tenant = Tenant[u] \/ (Tenant[u] = "system" /\ "admin" \in Granted[u])
<1>1. CASE Tenant[u] = "system" /\ AC!Role(u) = "admin"
  BY <1>1, RoleIsGranted DEF AC!Scope
<1>2. CASE ~(Tenant[u] = "system" /\ AC!Role(u) = "admin")
  <2>1. AC!Scope(u) \subseteq {r \in Rows : r.tenant = Tenant[u]}
    BY <1>2 DEF AC!Scope
  <2>2. AC!Scope(u) \subseteq Rows
    BY <2>1
  <2>3. ASSUME NEW r \in AC!Scope(u) PROVE r.tenant = Tenant[u]
    BY <2>1
  <2> QED
    BY <2>2, <2>3
<1> QED
  BY <1>1, <1>2

\* A document is read fresh from the cache or from the provider, or not at all.
LEMMA FetchedIsCurrent ==
  ASSUME NEW c \in [keys : SUBSET AC!Keys, age : 0 .. TTL], published \subseteq AC!Keys
  PROVE  /\ AC!Fetched(c).cache \in [keys : SUBSET AC!Keys, age : 0 .. TTL]
         /\ ~AC!Fetched(c).ok => ~idp /\ AC!Fetched(c).cache = c /\ c.age = TTL
         /\ AC!Fetched(c).ok => \/ AC!Fetched(c).cache = c /\ c.age < TTL
                                \/ AC!Fetched(c).cache.keys = published /\ AC!Fetched(c).cache.age = 0
<1>1. CASE AC!Fresh(c)
  BY <1>1 DEF AC!Fetched, AC!Fresh
<1>2. CASE ~AC!Fresh(c) /\ idp
  BY <1>2, ApiAssumption DEF AC!Fetched
<1>3. CASE ~AC!Fresh(c) /\ ~idp
  BY <1>3, ApiAssumption DEF AC!Fetched, AC!Fresh
<1> QED
  BY <1>1, <1>2, <1>3

\* What a lookup of a key decides is right about the key, and what it leaves in the
\* cache is recent.
LEMMA LookupIsCurrent ==
  ASSUME AC!TypeOK, AC!CacheIsRecent, NEW k \in AC!Keys
  PROVE  LET jwks == AC!Lookup(k)
         IN  /\ jwks.cache \in [keys : SUBSET AC!Keys, age : 0 .. TTL]
             /\ ~jwks.ok => ~idp /\ jwks.cache.age = TTL
             /\ jwks.ok /\ k \notin jwks.cache.keys => k \notin published
             /\ jwks.ok /\ k \in jwks.cache.keys => k \in published \/ gone[k] < TTL
             /\ jwks.cache.age < TTL =>
                  \A q \in jwks.cache.keys : q \in published \/ gone[q] <= jwks.cache.age
<1> DEFINE Caches == [keys : SUBSET AC!Keys, age : 0 .. TTL]
           jwks == AC!Lookup(k)
           first == AC!Fetched(cached)
           second == AC!Fetched(AC!NoKeys)
<1>t. /\ cached \in Caches /\ published \subseteq AC!Keys /\ gone \in [AC!Keys -> 0 .. TTL + 1]
      /\ cached.age < TTL => \A q \in cached.keys : q \in published \/ gone[q] <= cached.age
      /\ TTL \in Nat
  BY ApiAssumption DEF AC!TypeOK, AC!CacheIsRecent, AC!Fresh
<1>n. AC!NoKeys \in Caches /\ AC!NoKeys.age = TTL
  BY ApiAssumption DEF AC!NoKeys
<1>1. /\ first.cache \in Caches
      /\ ~first.ok => ~idp /\ first.cache.age = TTL
      /\ first.ok => \/ first.cache = cached /\ cached.age < TTL
                     \/ first.cache.keys = published /\ first.cache.age = 0
  BY <1>t, FetchedIsCurrent
<1>2. /\ second.cache \in Caches
      /\ ~second.ok => ~idp /\ second.cache.age = TTL
      /\ second.ok => second.cache.keys = published /\ second.cache.age = 0
  BY <1>t, <1>n, FetchedIsCurrent
<1>3. \/ jwks = first /\ (~first.ok \/ k \in first.cache.keys)
      \/ jwks = second /\ first.ok /\ k \notin first.cache.keys
  BY DEF AC!Lookup
<1>4. CASE jwks = first /\ (~first.ok \/ k \in first.cache.keys)
  <2>1. first.ok \/ ~first.ok
    OBVIOUS
  <2> QED
    BY <1>t, <1>1, <1>4
<1>5. CASE jwks = second /\ first.ok /\ k \notin first.cache.keys
  BY <1>t, <1>2, <1>5
<1> QED
  BY <1>3, <1>4, <1>5

\* The initial states satisfy the inductive invariant of the access rules.
LEMMA AccessInit == AC!Init => AC!IInv
<1> SUFFICES ASSUME AC!Init PROVE AC!IInv
  OBVIOUS
<1>1. idp \in BOOLEAN /\ opa \in BOOLEAN
  BY DEF AC!Init
<1>2. AC!Nobody \in Users
  BY DEF AC!Nobody, Users
<1>3. AC!NoAnswer \in [user : Users, key : AC!Keys, what : AC!Outcomes, rows : SUBSET Rows]
  BY <1>2, ApiAssumption DEF AC!NoAnswer, AC!Keys, AC!Outcomes
<1>4. AC!NoKeys \in [keys : SUBSET AC!Keys, age : 0 .. TTL]
  BY ApiAssumption DEF AC!NoKeys
<1>5. AC!TypeOK
  <2>1. /\ published \subseteq AC!Keys /\ signer \in published
        /\ gone \in [AC!Keys -> 0 .. TTL + 1] /\ outages \in 0 .. MaxOutages
        /\ cached = AC!NoKeys /\ answer = AC!NoAnswer
    BY ApiAssumption DEF AC!Init, AC!Keys
  <2> QED
    BY <1>1, <1>3, <1>4, <2>1 DEF AC!TypeOK
<1>6. AC!ClocksStart
  BY ApiAssumption DEF AC!Init, AC!ClocksStart, AC!Keys
<1>7. AC!CacheIsRecent
  BY ApiAssumption DEF AC!Init, AC!CacheIsRecent, AC!Fresh, AC!NoKeys
<1>8. AC!AccessIsCurrent
  BY DEF AC!Init, AC!NoAnswer, AC!AccessIsCurrent, AC!SessionsSurvive, AC!AccessEnds, AC!RowsAreTheTenants
<1> QED
  BY <1>5, <1>6, <1>7, <1>8 DEF AC!IInv

\* Every step keeps the provider's keys and the clocks of the withdrawn ones.
LEMMA KeysStep ==
  ASSUME AC!IInv, [AC!Next]_(AC!vars)
  PROVE  /\ published' \subseteq AC!Keys /\ signer' \in published'
         /\ gone' \in [AC!Keys -> 0 .. TTL + 1]
         /\ AC!ClocksStart'
<1>t. /\ published \subseteq AC!Keys /\ signer \in published /\ gone \in [AC!Keys -> 0 .. TTL + 1]
      /\ published \subseteq 1 .. signer /\ \A k \in AC!Keys : k \in published \/ k > signer => gone[k] = 0
  BY DEF AC!IInv, AC!TypeOK, AC!ClocksStart
<1>k. AC!Keys = 1 .. MaxKeys /\ MaxKeys \in Nat /\ TTL \in Nat
  BY ApiAssumption DEF AC!Keys
<1>1. CASE AC!RotateKey
  BY <1>t, <1>k, <1>1 DEF AC!RotateKey, AC!ClocksStart
<1>2. ASSUME NEW k \in AC!Keys, AC!WithdrawKey(k)
      PROVE  /\ published' \subseteq AC!Keys /\ signer' \in published'
             /\ gone' \in [AC!Keys -> 0 .. TTL + 1]
             /\ AC!ClocksStart'
  BY <1>t, <1>k, <1>2 DEF AC!WithdrawKey, AC!ClocksStart
<1>3. CASE AC!Tick
  BY <1>t, <1>k, <1>3 DEF AC!Tick, AC!ClocksStart
<1>4. CASE UNCHANGED <<published, signer, gone>>
  BY <1>t, <1>4 DEF AC!ClocksStart
<1> QED
  BY <1>1, <1>2, <1>3, <1>4 DEF AC!Next, AC!Outage, AC!Recover, AC!NotSignedIn, AC!ListRows, AC!vars

\* Every step keeps the cache recent.
LEMMA CacheStep ==
  ASSUME AC!IInv, [AC!Next]_(AC!vars)
  PROVE  cached' \in [keys : SUBSET AC!Keys, age : 0 .. TTL] /\ AC!CacheIsRecent'
<1>t. /\ cached \in [keys : SUBSET AC!Keys, age : 0 .. TTL] /\ published \subseteq AC!Keys
      /\ signer \in published /\ published \subseteq 1 .. signer /\ gone \in [AC!Keys -> 0 .. TTL + 1]
      /\ \A k \in AC!Keys : k \in published \/ k > signer => gone[k] = 0
      /\ cached.age < TTL => \A k \in cached.keys : k \in published \/ gone[k] <= cached.age
  BY DEF AC!IInv, AC!TypeOK, AC!ClocksStart, AC!CacheIsRecent, AC!Fresh
<1>k. AC!Keys = 1 .. MaxKeys /\ MaxKeys \in Nat /\ TTL \in Nat
  BY ApiAssumption DEF AC!Keys
<1> DEFINE Good == /\ cached' \in [keys : SUBSET AC!Keys, age : 0 .. TTL]
                   /\ cached'.age < TTL =>
                        \A k \in cached'.keys : k \in published' \/ gone'[k] <= cached'.age
<1>1. ASSUME AC!RotateKey PROVE Good
  BY <1>t, <1>k, <1>1 DEF AC!RotateKey
<1>2. ASSUME NEW k \in AC!Keys, AC!WithdrawKey(k) PROVE Good
  <2>1. gone[k] = 0 /\ UNCHANGED <<cached, gone>> /\ published' = published \ {k}
    BY <1>t, <1>2 DEF AC!WithdrawKey
  <2> QED
    BY <1>t, <1>k, <2>1
<1>3. ASSUME AC!Tick PROVE Good
  <2>1. /\ cached' = [cached EXCEPT !.age = IF @ < TTL THEN @ + 1 ELSE TTL] /\ published' = published
        /\ gone' = [k \in AC!Keys |-> IF k <= signer /\ k \notin published /\ gone[k] <= TTL
                                      THEN gone[k] + 1 ELSE gone[k]]
    BY <1>3 DEF AC!Tick
  <2>2. cached' \in [keys : SUBSET AC!Keys, age : 0 .. TTL] /\ cached'.keys = cached.keys
    <3> DEFINE a == IF cached.age < TTL THEN cached.age + 1 ELSE TTL
    <3>1. a \in 0 .. TTL
      BY <1>t, <1>k
    <3>2. cached' = [cached EXCEPT !.age = a]
      BY <2>1
    <3> HIDE DEF a
    <3> QED
      BY <1>t, <3>1, <3>2
  <2>3. cached'.age < TTL => cached.age < TTL /\ cached'.age = cached.age + 1
    BY <1>t, <1>k, <2>1
  <2>4. \A k \in AC!Keys : gone'[k] <= gone[k] + 1
    BY <1>t, <1>k, <2>1
  <2>5. ASSUME cached'.age < TTL, NEW k \in cached'.keys
        PROVE  k \in published' \/ gone'[k] <= cached'.age
    <3>1. k \in published \/ gone[k] <= cached.age
      BY <1>t, <2>2, <2>3, <2>5
    <3>2. k \in AC!Keys
      BY <1>t, <2>2, <2>5
    <3>3. gone[k] \in 0 .. TTL + 1 /\ gone'[k] \in Int
      BY <1>t, <1>k, <2>1, <3>2
    <3> QED
      BY <1>t, <1>k, <2>1, <2>3, <2>4, <2>5, <3>1, <3>2, <3>3
  <2> QED
    BY <2>2, <2>5
<1>4. ASSUME NEW u \in Users, NEW k \in AC!Keys, NEW e \in BOOLEAN, AC!ListRows(u, k, e) PROVE Good
  <2>1. cached' = AC!Lookup(k).cache /\ UNCHANGED <<published, gone>>
    BY <1>4 DEF AC!ListRows
  <2>2. AC!TypeOK /\ AC!CacheIsRecent
    BY DEF AC!IInv
  <2> QED
    BY <2>1, <2>2, LookupIsCurrent
<1>5. ASSUME UNCHANGED <<cached, published, gone>> PROVE Good
  BY <1>t, <1>5
<1>6. Good
  <2> HIDE DEF Good
  <2> QED
    BY <1>1, <1>2, <1>3, <1>4, <1>5 DEF AC!Next, AC!Outage, AC!Recover, AC!NotSignedIn, AC!vars
<1> QED
  BY <1>6 DEF AC!CacheIsRecent, AC!Fresh

\* Every step answers, if it does, as the access rules say.
LEMMA AnswerStep ==
  ASSUME AC!IInv, [AC!Next]_(AC!vars)
  PROVE  /\ answer' \in [user : Users, key : AC!Keys, what : AC!Outcomes, rows : SUBSET Rows]
         /\ AC!AccessIsCurrent'
<1> DEFINE Answers == [user : Users, key : AC!Keys, what : AC!Outcomes, rows : SUBSET Rows]
           Good == answer' \in Answers /\ AC!AccessIsCurrent'
<1>1. ASSUME answer' = AC!NoAnswer PROVE Good
  <2>1. AC!NoAnswer \in Answers
    BY ApiAssumption DEF AC!NoAnswer, AC!Nobody, Users, AC!Keys, AC!Outcomes
  <2> QED
    BY <1>1, <2>1 DEF AC!NoAnswer, AC!AccessIsCurrent, AC!SessionsSurvive, AC!AccessEnds, AC!RowsAreTheTenants
<1>2. ASSUME NEW u \in Users, NEW k \in AC!Keys, NEW what \in AC!Outcomes, AC!Respond(u, k, what, {}),
             what # "rows",
             what = "unknown_key" => k \notin published',
             what = "unreachable" => ~idp' /\ cached'.age = TTL
      PROVE  Good
  <2>1. answer' = [user |-> u, key |-> k, what |-> what, rows |-> {}]
    BY <1>2 DEF AC!Respond
  <2> QED
    BY <1>2, <2>1 DEF AC!AccessIsCurrent, AC!SessionsSurvive, AC!AccessEnds, AC!RowsAreTheTenants
<1>3. ASSUME NEW u \in Users, NEW k \in AC!Keys, NEW e \in BOOLEAN, AC!ListRows(u, k, e) PROVE Good
  <2> DEFINE jwks == AC!Lookup(k)
  <2>1. /\ ~jwks.ok => ~idp /\ jwks.cache.age = TTL
        /\ jwks.ok /\ k \notin jwks.cache.keys => k \notin published
        /\ jwks.ok /\ k \in jwks.cache.keys => k \in published \/ gone[k] < TTL
    BY LookupIsCurrent DEF AC!IInv
  <2>2. cached' = jwks.cache /\ UNCHANGED <<published, signer, gone, idp, opa, outages>>
    BY <1>3 DEF AC!ListRows
  <2>3. \/ AC!Respond(u, k, "unreachable", {}) /\ ~jwks.ok
        \/ AC!Respond(u, k, "unknown_key", {}) /\ jwks.ok /\ k \notin jwks.cache.keys
        \/ AC!Respond(u, k, "expired", {})
        \/ AC!Respond(u, k, "forbidden", {})
        \/ AC!Respond(u, k, "no_tenant", {})
        \/ AC!Respond(u, k, "rows", AC!Scope(u)) /\ jwks.ok /\ k \in jwks.cache.keys /\ AC!Permitted(u)
    BY <1>3 DEF AC!ListRows
  <2> HIDE DEF jwks, Good
  <2>4. CASE AC!Respond(u, k, "rows", AC!Scope(u)) /\ jwks.ok /\ k \in jwks.cache.keys /\ AC!Permitted(u)
    <3>1. answer' = [user |-> u, key |-> k, what |-> "rows", rows |-> AC!Scope(u)]
      BY <2>4 DEF AC!Respond
    <3>2. AC!Scope(u) \subseteq Rows
      BY ScopeIsTheTenants
    <3>3. answer' \in Answers
      BY <3>1, <3>2 DEF AC!Outcomes
    <3>4. opa'
      BY <2>2, <2>4 DEF AC!Permitted
    <3>5. k \in published' \/ gone'[k] < TTL
      BY <2>1, <2>2, <2>4
    <3>6. AC!SessionsSurvive'
      BY <3>1 DEF AC!SessionsSurvive
    <3>7. AC!AccessEnds'
      BY <3>1, <3>4, <3>5 DEF AC!AccessEnds
    <3>8. AC!RowsAreTheTenants'
      BY <3>1, ScopeIsTheTenants DEF AC!RowsAreTheTenants
    <3> QED
      BY <3>3, <3>6, <3>7, <3>8 DEF Good, AC!AccessIsCurrent
  <2> QED
    BY <1>2, <2>1, <2>2, <2>3, <2>4 DEF AC!Outcomes
<1>4. ASSUME NEW u \in Users, AC!NotSignedIn(u) PROVE Good
  <2>1. signer \in AC!Keys /\ AC!Respond(u, signer, "not_signed_in", {})
    BY <1>4 DEF AC!NotSignedIn, AC!IInv, AC!TypeOK
  <2> HIDE DEF Good
  <2> QED
    BY <1>2, <2>1 DEF AC!Outcomes
<1>5. ASSUME UNCHANGED AC!vars PROVE Good
  BY <1>5 DEF AC!vars, AC!IInv, AC!TypeOK, AC!AccessIsCurrent, AC!SessionsSurvive, AC!AccessEnds,
     AC!RowsAreTheTenants
<1>6. Good
  <2> HIDE DEF Good
  <2> QED
    BY <1>1, <1>3, <1>4, <1>5 DEF AC!Next, AC!RotateKey, AC!Tick, AC!Outage, AC!Recover, AC!WithdrawKey
<1> QED
  BY <1>6

\* Every step keeps the inductive invariant of the access rules.
LEMMA AccessStep == AC!IInv /\ [AC!Next]_(AC!vars) => AC!IInv'
<1> SUFFICES ASSUME AC!IInv, [AC!Next]_(AC!vars) PROVE AC!IInv'
  OBVIOUS
<1>1. idp' \in BOOLEAN /\ opa' \in BOOLEAN
  <2>1. idp \in BOOLEAN /\ opa \in BOOLEAN
    BY DEF AC!IInv, AC!TypeOK
  <2> QED
    BY <2>1, ZenonT(30) DEF AC!Next, AC!RotateKey, AC!Tick, AC!Outage, AC!Recover, AC!WithdrawKey, AC!NotSignedIn,
       AC!ListRows, AC!vars
<1>2. outages' \in 0 .. MaxOutages
  <2>1. outages \in 0 .. MaxOutages /\ MaxOutages \in Nat
    BY ApiAssumption DEF AC!IInv, AC!TypeOK
  <2>2. outages' = outages \/ (outages < MaxOutages /\ outages' = outages + 1)
    BY DEF AC!Next, AC!RotateKey, AC!Tick, AC!Outage, AC!Recover, AC!WithdrawKey, AC!NotSignedIn,
       AC!ListRows, AC!vars
  <2> QED
    BY <2>1, <2>2
<1> QED
  BY <1>1, <1>2, KeysStep, CacheStep, AnswerStep DEF AC!IInv, AC!TypeOK

-----------------------------------------------------------------------------
(* The scan store                                                          *)

\* t is s without one occurrence of e.
Removed(s, t, e) ==
  /\ Len(t) = Len(s) - 1
  /\ \E p \in 1 .. Len(s) :
       s[p] = e /\ \A n \in 1 .. Len(s) - 1 : t[n] = s[IF n < p THEN n ELSE n + 1]

\* RemoveFirst removes one occurrence of what is there.
LEMMA RemovedOnce ==
  ASSUME NEW S, NEW s \in Seq(S), NEW e, NEW m \in 1 .. Len(s), s[m] = e
  PROVE  QA!RemoveFirst(s, e) \in Seq(S) /\ Removed(s, QA!RemoveFirst(s, e), e)
<1> DEFINE I == {i \in 1 .. Len(s) : s[i] = e}
           p == QA!SelectInSeq(s, LAMBDA v : v = e)
<1>1. I \in SUBSET Nat /\ I # {}
  OBVIOUS
<1>2. p \in I
  <2>1. \E i \in I : \A j \in I : i <= j
    <3> HIDE DEF I
    <3> QED
      BY <1>1, LeastElement
  <2>2. p = CHOOSE i \in I : \A j \in I : i <= j
    BY <1>1 DEF QA!SelectInSeq, QA!Min
  <2> QED
    BY <2>1, <2>2
<1>3. QA!RemoveFirst(s, e) = SubSeq(s, 1, p - 1) \o SubSeq(s, p + 1, Len(s))
  BY DEF QA!RemoveFirst, QA!RemoveAt
<1> HIDE DEF p
<1>4. p \in 1 .. Len(s) /\ s[p] = e
  BY <1>2
<1> DEFINE a == SubSeq(s, 1, p - 1)
           b == SubSeq(s, p + 1, Len(s))
<1>5. a \in Seq(S) /\ Len(a) = p - 1 /\ \A n \in 1 .. p - 1 : a[n] = s[n]
  BY <1>4
<1>6. b \in Seq(S) /\ Len(b) = Len(s) - p /\ \A n \in 1 .. Len(s) - p : b[n] = s[p + n]
  BY <1>4
<1>7. QA!RemoveFirst(s, e) = a \o b
  BY <1>3
<1> HIDE DEF a, b
<1>8. a \o b \in Seq(S) /\ Len(a \o b) = Len(s) - 1
  BY <1>4, <1>5, <1>6
<1>9. ASSUME NEW n \in 1 .. Len(s) - 1
      PROVE  (a \o b)[n] = s[IF n < p THEN n ELSE n + 1]
  <2>1. CASE n < p
    BY <1>4, <1>5, <1>6, <2>1
  <2>2. CASE ~(n < p)
    <3>1. (a \o b)[n] = b[n - (p - 1)]
      BY <1>4, <1>5, <1>6, <2>2, SMTT(40)
    <3>2. n - (p - 1) \in 1 .. Len(s) - p /\ p + (n - (p - 1)) = n + 1
      BY <1>4, <2>2
    <3> QED
      BY <1>6, <2>2, <3>1, <3>2
  <2> QED
    BY <2>1, <2>2
<1> QED
  BY <1>4, <1>7, <1>8, <1>9 DEF Removed

\* An id is in the order, once at most, twice at most: of any sequence.
ListedIn(s, i) == \E m \in DOMAIN s : s[m] = i
OnceIn(s, i) == \A m, n \in DOMAIN s : s[m] = i /\ s[n] = i => m = n
TwiceIn(s, i) ==
  \A l, m, n \in DOMAIN s : s[l] = i /\ s[m] = i /\ s[n] = i => l = m \/ l = n \/ m = n

\* The predicates of the store are those of its order.
LEMMA OrderIsASequence ==
  ASSUME NEW i
  PROVE  /\ QA!Listed(i) <=> ListedIn(order, i)
         /\ QA!Once(i) <=> OnceIn(order, i)
         /\ QA!AtMostTwice(i) <=> TwiceIn(order, i)
         /\ QA!Listed(i)' <=> ListedIn(order', i)
         /\ QA!Once(i)' <=> OnceIn(order', i)
         /\ QA!AtMostTwice(i)' <=> TwiceIn(order', i)
  BY DEF QA!Listed, QA!Once, QA!AtMostTwice, QA!ToSet, ListedIn, OnceIn, TwiceIn

\* A removal adds nothing, and leaves one less of what it removes.
LEMMA RemovalKeeps ==
  ASSUME NEW S, NEW s \in Seq(S), NEW t \in Seq(S), NEW p \in 1 .. Len(s), Len(t) = Len(s) - 1,
         \A n \in 1 .. Len(s) - 1 : t[n] = s[IF n < p THEN n ELSE n + 1],
         NEW i
  PROVE  /\ ListedIn(t, i) => ListedIn(s, i)
         /\ OnceIn(s, i) => OnceIn(t, i)
         /\ TwiceIn(s, i) => TwiceIn(t, i)
         /\ s[p] = i /\ OnceIn(s, i) => ~ListedIn(t, i)
         /\ s[p] = i /\ TwiceIn(s, i) => OnceIn(t, i)
         /\ s[p] # i /\ ListedIn(s, i) => ListedIn(t, i)
<1> DEFINE h(n) == IF n < p THEN n ELSE n + 1
<1>1. /\ DOMAIN s = 1 .. Len(s) /\ DOMAIN t = 1 .. Len(s) - 1 /\ p \in DOMAIN s
      /\ \A n \in DOMAIN t : t[n] = s[h(n)]
  OBVIOUS
<1>2. /\ \A n \in DOMAIN t : h(n) \in DOMAIN s /\ h(n) # p
      /\ \A m, n \in DOMAIN t : h(m) = h(n) => m = n
      /\ \A m \in DOMAIN s : m # p => \E n \in DOMAIN t : h(n) = m
  <2>1. /\ \A n \in DOMAIN t : h(n) \in DOMAIN s /\ h(n) # p
        /\ \A m, n \in DOMAIN t : h(m) = h(n) => m = n
    BY <1>1
  <2>2. ASSUME NEW m \in DOMAIN s, m # p PROVE \E n \in DOMAIN t : h(n) = m
    <3>1. CASE m < p
      <4>1. m \in DOMAIN t /\ h(m) = m
        BY <1>1, <2>2, <3>1
      <4> QED
        BY <4>1
    <3>2. CASE m > p
      <4>1. m - 1 \in DOMAIN t /\ h(m - 1) = m
        BY <1>1, <2>2, <3>2
      <4> QED
        BY <4>1
    <3> QED
      BY <1>1, <2>2, <3>1, <3>2
  <2> QED
    BY <2>1, <2>2
<1> HIDE DEF h
<1> QED
  BY <1>1, <1>2 DEF ListedIn, OnceIn, TwiceIn

\* An append adds one of what it appends, and nothing else.
LEMMA AppendKeeps ==
  ASSUME NEW S, NEW s \in Seq(S), NEW x \in S, NEW i
  PROVE  /\ i # x => /\ ListedIn(Append(s, x), i) <=> ListedIn(s, i)
                     /\ OnceIn(s, i) => OnceIn(Append(s, x), i)
                     /\ TwiceIn(s, i) => TwiceIn(Append(s, x), i)
         /\ ListedIn(Append(s, x), x)
         /\ ~ListedIn(s, x) => OnceIn(Append(s, x), x)
         /\ OnceIn(s, x) => TwiceIn(Append(s, x), x)
<1> DEFINE t == Append(s, x)
           last == Len(s) + 1
<1>1. /\ DOMAIN t = DOMAIN s \cup {last} /\ last \notin DOMAIN s /\ t[last] = x
      /\ \A n \in DOMAIN s : t[n] = s[n]
  OBVIOUS
<1> HIDE DEF t, last
<1>2. i # x => /\ ListedIn(t, i) <=> ListedIn(s, i)
               /\ OnceIn(s, i) => OnceIn(t, i)
               /\ TwiceIn(s, i) => TwiceIn(t, i)
  BY <1>1 DEF ListedIn, OnceIn, TwiceIn
<1>3. ListedIn(t, x) /\ (~ListedIn(s, x) => OnceIn(t, x))
  BY <1>1 DEF ListedIn, OnceIn
<1>4. OnceIn(s, x) => TwiceIn(t, x)
  BY <1>1 DEF OnceIn, TwiceIn
<1> QED
  BY <1>2, <1>3, <1>4 DEF t

\* Not at all is once at most, and once is twice at most.
LEMMA OnceIsAtMostTwice ==
  ASSUME NEW s, NEW i
  PROVE  /\ OnceIn(s, i) => TwiceIn(s, i)
         /\ ~ListedIn(s, i) => OnceIn(s, i)
  BY DEF ListedIn, OnceIn, TwiceIn

\* Unlisting an id removes one occurrence of it, if there is one, and no other.
LEMMA UnlistOrder ==
  ASSUME order \in Seq(Ids), NEW i, NEW q, order' = QA!RemoveFirst(order, i)
  PROVE  /\ QA!Listed(q)' => QA!Listed(q)
         /\ QA!Once(q) => QA!Once(q)'
         /\ QA!AtMostTwice(q) => QA!AtMostTwice(q)'
         /\ i = q /\ QA!Once(q) => ~QA!Listed(q)'
         /\ i = q /\ QA!AtMostTwice(q) => QA!Once(q)'
         /\ i # q /\ QA!Listed(q) => QA!Listed(q)'
<1>1. CASE \E m \in 1 .. Len(order) : order[m] = i
  <2>1. Removed(order, order', i) /\ order' \in Seq(Ids)
    BY <1>1, RemovedOnce
  <2>2. PICK n \in 1 .. Len(order) :
          /\ order[n] = i
          /\ \A m \in 1 .. Len(order) - 1 : order'[m] = order[IF m < n THEN m ELSE m + 1]
    BY <2>1 DEF Removed
  <2>3. /\ ListedIn(order', q) => ListedIn(order, q)
        /\ OnceIn(order, q) => OnceIn(order', q)
        /\ TwiceIn(order, q) => TwiceIn(order', q)
        /\ order[n] = q /\ OnceIn(order, q) => ~ListedIn(order', q)
        /\ order[n] = q /\ TwiceIn(order, q) => OnceIn(order', q)
        /\ order[n] # q /\ ListedIn(order, q) => ListedIn(order', q)
    <3> DEFINE t == order'
    <3>1. /\ t \in Seq(Ids) /\ Len(t) = Len(order) - 1
          /\ \A m \in 1 .. Len(order) - 1 : t[m] = order[IF m < n THEN m ELSE m + 1]
      BY <2>1, <2>2 DEF Removed
    <3> HIDE DEF t
    <3>2. /\ ListedIn(t, q) => ListedIn(order, q)
          /\ OnceIn(order, q) => OnceIn(t, q)
          /\ TwiceIn(order, q) => TwiceIn(t, q)
          /\ order[n] = q /\ OnceIn(order, q) => ~ListedIn(t, q)
          /\ order[n] = q /\ TwiceIn(order, q) => OnceIn(t, q)
          /\ order[n] # q /\ ListedIn(order, q) => ListedIn(t, q)
      BY <3>1, RemovalKeeps
    <3> QED
      BY <3>2 DEF t
  <2> QED
    BY <2>2, <2>3, OrderIsASequence, Zenon
<1>2. CASE ~\E m \in 1 .. Len(order) : order[m] = i
  <2>1. order' = order
    BY <1>2 DEF QA!RemoveFirst
  <2>2. i = q => ~QA!Listed(q) /\ QA!Once(q)
    BY <1>2 DEF QA!Listed, QA!ToSet, QA!Once
  <2> QED
    BY <2>1, <2>2 DEF QA!Listed, QA!Once, QA!AtMostTwice, QA!ToSet
<1> QED
  BY <1>1, <1>2

\* Listing an id appends it if it is not stored, and moves no other.
LEMMA ListOrder ==
  ASSUME order \in Seq(Ids), NEW i \in Ids, NEW q,
         order' = IF QA!Stored(i) THEN order ELSE Append(order, i)
  PROVE  /\ i # q => /\ QA!Listed(q)' <=> QA!Listed(q)
                     /\ QA!Once(q) => QA!Once(q)'
                     /\ QA!AtMostTwice(q) => QA!AtMostTwice(q)'
         /\ i = q => /\ ~QA!Listed(q) => QA!Once(q)'
                     /\ QA!Once(q) => QA!AtMostTwice(q)'
                     /\ QA!Stored(q) => (QA!Once(q) => QA!Once(q)') /\ (QA!Listed(q)' <=> QA!Listed(q))
                     /\ ~QA!Stored(q) => QA!Listed(q)'
         /\ QA!Once(q)' => QA!AtMostTwice(q)'
<1>1. CASE QA!Stored(i)
  <2>1. order' = order
    BY <1>1
  <2>2. (QA!Once(q) => QA!AtMostTwice(q)) /\ (~QA!Listed(q) => QA!Once(q))
    BY OnceIsAtMostTwice, OrderIsASequence
  <2> QED
    BY <1>1, <2>1, <2>2 DEF QA!Listed, QA!Once, QA!AtMostTwice, QA!ToSet
<1>2. CASE ~QA!Stored(i)
  <2>1. order' = Append(order, i)
    BY <1>2
  <2>2. /\ q # i => /\ ListedIn(order', q) <=> ListedIn(order, q)
                    /\ OnceIn(order, q) => OnceIn(order', q)
                    /\ TwiceIn(order, q) => TwiceIn(order', q)
        /\ ListedIn(order', i)
        /\ ~ListedIn(order, i) => OnceIn(order', i)
        /\ OnceIn(order, i) => TwiceIn(order', i)
        /\ OnceIn(order', q) => TwiceIn(order', q)
    BY <2>1, AppendKeeps, OnceIsAtMostTwice
  <2> QED
    BY <1>2, <2>2, OrderIsASequence
<1> QED
  BY <1>1, <1>2

\* Trimming takes the head of the order away, and nothing else.
LEMMA TrimOrder ==
  ASSUME order \in Seq(Ids), Len(order) > StoreCap, order' = Tail(order), NEW q
  PROVE  /\ QA!Listed(q)' => QA!Listed(q)
         /\ QA!Once(q) => QA!Once(q)'
         /\ QA!AtMostTwice(q) => QA!AtMostTwice(q)'
         /\ Head(order) = q => /\ QA!Once(q) => ~QA!Listed(q)'
                               /\ QA!AtMostTwice(q) => QA!Once(q)'
                               /\ QA!Listed(q)
         /\ Head(order) # q /\ QA!Listed(q) => QA!Listed(q)'
<1>1. /\ 1 \in 1 .. Len(order) /\ Len(order') = Len(order) - 1 /\ Head(order) = order[1]
      /\ order' \in Seq(Ids) /\ \A n \in 1 .. Len(order) - 1 : order'[n] = order[n + 1]
  BY ApiAssumption
<1>2. \A n \in 1 .. Len(order) - 1 : order'[n] = order[IF n < 1 THEN n ELSE n + 1]
  BY <1>1
<1>3. /\ ListedIn(order', q) => ListedIn(order, q)
      /\ OnceIn(order, q) => OnceIn(order', q)
      /\ TwiceIn(order, q) => TwiceIn(order', q)
      /\ order[1] = q /\ OnceIn(order, q) => ~ListedIn(order', q)
      /\ order[1] = q /\ TwiceIn(order, q) => OnceIn(order', q)
      /\ order[1] # q /\ ListedIn(order, q) => ListedIn(order', q)
  <2> DEFINE t == order'
  <2>1. t \in Seq(Ids) /\ Len(t) = Len(order) - 1
        /\ \A n \in 1 .. Len(order) - 1 : t[n] = order[IF n < 1 THEN n ELSE n + 1]
    BY <1>1, <1>2
  <2> HIDE DEF t
  <2>2. /\ ListedIn(t, q) => ListedIn(order, q)
        /\ OnceIn(order, q) => OnceIn(t, q)
        /\ TwiceIn(order, q) => TwiceIn(t, q)
        /\ order[1] = q /\ OnceIn(order, q) => ~ListedIn(t, q)
        /\ order[1] = q /\ TwiceIn(order, q) => OnceIn(t, q)
        /\ order[1] # q /\ ListedIn(order, q) => ListedIn(t, q)
    BY <1>1, <2>1, RemovalKeeps
  <2> QED
    BY <2>2 DEF t
<1> QED
  BY <1>1, <1>3 DEF QA!Listed, QA!Once, QA!AtMostTwice, QA!ToSet, ListedIn, OnceIn, TwiceIn

\* An id has one preview and one scan, and they are operations.
LEMMA Operations ==
  /\ \A i \in Ids : /\ <<"preview", i>> \in QA!Previews /\ <<"preview", i>> \in QA!Ops
                    /\ <<"preview", i>> \notin QA!Scans
                    /\ <<"scan", i>> \in QA!Scans /\ <<"scan", i>> \in QA!Ops
                    /\ <<"scan", i>> \notin QA!Previews
  /\ \A o \in QA!Previews : o[2] \in Ids /\ o = <<"preview", o[2]>> /\ o \in QA!Ops
  /\ \A o \in QA!Scans : o[2] \in Ids /\ o = <<"scan", o[2]>> /\ o \in QA!Ops
  BY DEF QA!Previews, QA!Scans, QA!Ops

\* The initial states satisfy the inductive invariant of the store.
LEMMA StoreInit == QA!Init => QA!IInv
<1> SUFFICES ASSUME QA!Init PROVE QA!IInv
  OBVIOUS
<1>t. /\ store = [i \in Ids |-> "none"] /\ order = <<>> /\ old = {}
      /\ opPc = [o \in QA!Ops |-> "idle"]
      /\ stale = [o \in QA!Ops |-> {}] /\ victim = [o \in QA!Ops |-> {}] /\ overlapped = {}
  BY DEF QA!Init
<1>1. QA!TypeOK
  BY <1>t DEF QA!TypeOK, QA!Statuses, QA!Phases
<1>2. QA!OpsInOrder
  BY <1>t, Operations DEF QA!OpsInOrder
<1>3. QA!TrimPending
  BY <1>t, ApiAssumption DEF QA!TrimPending
<1>4. ASSUME NEW i \in Ids
      PROVE  QA!ListedByPreview(i) /\ QA!ScanMayList(i) /\ QA!SecondIsUnlisted(i)
  <2>1. ~QA!Listed(i) /\ QA!Once(i) /\ QA!AtMostTwice(i) /\ ~QA!Unstoring(i)
    BY <1>t DEF QA!Listed, QA!ToSet, QA!Once, QA!AtMostTwice, QA!Unstoring
  <2> QED
    BY <2>1 DEF QA!ListedByPreview, QA!ScanMayList, QA!SecondIsUnlisted
<1>5. ASSUME NEW i \in Ids PROVE QA!Steady(i)
  <2>1. ~QA!Listed(i) /\ QA!Once(i) /\ ~QA!Stored(i) /\ \A o \in QA!Ops : ~QA!Between(o, i)
    BY <1>t DEF QA!Listed, QA!ToSet, QA!Once, QA!Stored, QA!Between
  <2> QED
    BY <2>1, Zenon DEF QA!Steady
<1> QED
  BY <1>1, <1>2, <1>3, <1>4, <1>5 DEF QA!IInv

\* Every step keeps the types of the store.
LEMMA StoreTypes ==
  ASSUME QA!TypeOK, QA!OpsInOrder, [QA!Next]_(QA!vars)
  PROVE  QA!TypeOK'
<1>t. /\ store \in [Ids -> QA!Statuses] /\ order \in Seq(Ids) /\ old \subseteq Ids
      /\ opPc \in [QA!Ops -> QA!Phases]
      /\ stale \in [QA!Ops -> SUBSET Ids] /\ victim \in [QA!Ops -> SUBSET Ids]
  BY DEF QA!TypeOK
<1>h. overlapped' \subseteq Ids
  BY DEF QA!TypeOK, QA!Next, QA!Record, QA!vars
<1>g. \A o \in QA!Ops, p \in QA!Phases : QA!Goto(o, p) => opPc' \in [QA!Ops -> QA!Phases]
  BY <1>t DEF QA!Goto
<1>p. /\ \A p \in {"idle", "drop", "unlist", "list", "write", "trim", "unstore", "scan", "done", "failed"} :
           p \in QA!Phases
      /\ \A s \in {"none", "pending", "ready", "unavailable"} : s \in QA!Statuses
      /\ \A o \in QA!Ops : QA!AfterEviction(o) \in QA!Phases
  BY DEF QA!Phases, QA!Statuses, QA!AfterEviction
<1>o. \A o \in QA!Ops : opPc[o] \in {"list", "write", "trim", "unstore"} => o[2] \in Ids
  BY Operations DEF QA!OpsInOrder
<1>1. ASSUME NEW o \in QA!Ops, QA!Snapshot(o) PROVE QA!TypeOK'
  BY <1>h, <1>t, <1>g, <1>p, <1>1 DEF QA!Snapshot, QA!TypeOK
<1>2. ASSUME NEW o \in QA!Ops, NEW i \in Ids, QA!DropStale(o, i) PROVE QA!TypeOK'
  BY <1>h, <1>t, <1>g, <1>p, <1>2 DEF QA!DropStale, QA!TypeOK
<1>3. ASSUME NEW o \in QA!Ops, NEW i \in Ids, QA!Unlist(o, i) PROVE QA!TypeOK'
  <2>1. QA!RemoveFirst(order, i) \in Seq(Ids)
    <3>1. CASE \E m \in 1 .. Len(order) : order[m] = i
      BY <1>t, <3>1, RemovedOnce
    <3>2. CASE ~\E m \in 1 .. Len(order) : order[m] = i
      BY <1>t, <3>2 DEF QA!RemoveFirst
    <3> QED
      BY <3>1, <3>2
  <2> QED
    BY <1>h, <1>t, <1>g, <1>p, <1>3, <2>1 DEF QA!Unlist, QA!TypeOK
<1>4. ASSUME NEW o \in QA!Ops, QA!List(o) PROVE QA!TypeOK'
  <2>1. o[2] \in Ids
    BY <1>o, <1>4 DEF QA!List
  <2>2. Append(order, o[2]) \in Seq(Ids)
    BY <1>t, <2>1
  <2> QED
    BY <1>h, <1>t, <1>g, <1>p, <1>4, <2>2 DEF QA!List, QA!TypeOK
<1>5. ASSUME NEW o \in QA!Ops, QA!Write(o) PROVE QA!TypeOK'
  <2>1. PICK s \in QA!Statuses : store' = [store EXCEPT ![o[2]] = s]
    BY <1>p, <1>5 DEF QA!Write
  <2>2. old' \subseteq Ids /\ opPc' \in [QA!Ops -> QA!Phases] /\ UNCHANGED <<order, stale, victim>>
    BY <1>t, <1>g, <1>p, <1>5 DEF QA!Write
  <2> QED
    BY <1>h, <1>t, <2>1, <2>2 DEF QA!TypeOK
<1>6. ASSUME NEW o \in QA!Ops, QA!Trim(o) PROVE QA!TypeOK'
  <2>1. CASE Len(order) > StoreCap
    <3>1. Head(order) \in Ids /\ Tail(order) \in Seq(Ids)
      BY <1>t, <2>1, ApiAssumption
    <3>2. /\ victim' = [victim EXCEPT ![o] = {Head(order)}] /\ order' = Tail(order)
          /\ opPc' \in [QA!Ops -> QA!Phases] /\ UNCHANGED <<store, old, stale>>
      BY <1>g, <1>p, <1>6, <2>1 DEF QA!Trim
    <3> QED
      BY <1>h, <1>t, <3>1, <3>2 DEF QA!TypeOK
  <2>2. CASE ~(Len(order) > StoreCap)
    BY <1>h, <1>t, <1>g, <1>p, <1>6, <2>2 DEF QA!Trim, QA!TypeOK
  <2> QED
    BY <2>1, <2>2
<1>7. ASSUME NEW o \in QA!Ops, NEW i \in Ids, QA!Unstore(o, i) PROVE QA!TypeOK'
  BY <1>h, <1>t, <1>g, <1>p, <1>7 DEF QA!Unstore, QA!TypeOK
<1>8. ASSUME NEW i \in Ids, QA!StartScan(i) \/ QA!EndScan(i) PROVE QA!TypeOK'
  BY <1>h, <1>t, <1>g, <1>p, <1>8, Operations DEF QA!StartScan, QA!EndScan, QA!TypeOK
<1>9. ASSUME NEW i \in Ids, QA!Expire(i) PROVE QA!TypeOK'
  BY <1>h, <1>t, <1>9 DEF QA!Expire, QA!TypeOK
<1>10. CASE UNCHANGED QA!vars
  BY <1>10 DEF QA!vars, QA!TypeOK
<1> QED
  BY <1>1, <1>2, <1>3, <1>4, <1>5, <1>6, <1>7, <1>8, <1>9, <1>10 DEF QA!Next, QA!Step, QA!OpStep

\* A step moves one operation at most, a scan only after its preview.
LEMMA StoreMoves ==
  ASSUME QA!TypeOK, QA!OpsInOrder, QA!Next
  PROVE  \/ UNCHANGED opPc
         \/ \E o \in QA!Ops, p \in QA!Phases :
              /\ opPc' = [opPc EXCEPT ![o] = p] /\ opPc[o] # "done"
              /\ p \in {"list", "write", "trim", "unstore"} => o \in QA!Previews \cup QA!Scans
              /\ opPc[o] = "idle" /\ o \in QA!Scans => opPc[<<"preview", o[2]>>] = "done"
<1> DEFINE Good == \/ UNCHANGED opPc
                   \/ \E o \in QA!Ops, p \in QA!Phases :
                        /\ opPc' = [opPc EXCEPT ![o] = p] /\ opPc[o] # "done"
                        /\ p \in {"list", "write", "trim", "unstore"} => o \in QA!Previews \cup QA!Scans
                        /\ opPc[o] = "idle" /\ o \in QA!Scans => opPc[<<"preview", o[2]>>] = "done"
<1>o. \A o \in QA!Ops : opPc[o] \in {"list", "write", "trim", "unstore"} => o \in QA!Previews \cup QA!Scans
  BY DEF QA!OpsInOrder
<1>p. \A p \in {"idle", "drop", "unlist", "list", "write", "trim", "unstore", "scan", "done", "failed"} :
           p \in QA!Phases
  BY DEF QA!Phases
<1>e. \A o \in QA!Ops : \/ QA!AfterEviction(o) = "list" /\ o \in QA!Previews
                        \/ QA!AfterEviction(o) = "done"
  BY DEF QA!AfterEviction
<1>1. ASSUME NEW o \in QA!Ops, QA!Snapshot(o) PROVE Good
  <2>1. /\ opPc[o] = "idle" /\ o \notin QA!Scans
        /\ \E p \in {"failed", "drop", QA!AfterEviction(o)} : opPc' = [opPc EXCEPT ![o] = p]
    BY <1>1 DEF QA!Snapshot, QA!Goto
  <2> QED
    BY <1>p, <1>e, <2>1
<1>2. ASSUME NEW o \in QA!Ops, NEW i \in Ids, QA!DropStale(o, i) PROVE Good
  BY <1>p, <1>2 DEF QA!DropStale, QA!Goto
<1>3. ASSUME NEW o \in QA!Ops, NEW i \in Ids, QA!Unlist(o, i) PROVE Good
  <2>1. opPc[o] = "unlist" /\ \E p \in {"drop", QA!AfterEviction(o)} : opPc' = [opPc EXCEPT ![o] = p]
    BY <1>3 DEF QA!Unlist, QA!Goto
  <2> QED
    BY <1>p, <1>e, <2>1
<1>4. ASSUME NEW o \in QA!Ops, QA!List(o) \/ QA!Write(o) \/ QA!Trim(o) \/ \E i \in Ids : QA!Unstore(o, i) PROVE Good
  <2>1. /\ opPc[o] \in {"list", "write", "trim", "unstore"}
        /\ \E p \in {"write", "trim", "unstore", "done"} : opPc' = [opPc EXCEPT ![o] = p]
    BY <1>4 DEF QA!List, QA!Write, QA!Trim, QA!Unstore, QA!Goto
  <2> QED
    BY <1>p, <1>o, <2>1
<1>5. ASSUME NEW i \in Ids, QA!StartScan(i) \/ QA!EndScan(i) PROVE Good
  <2> DEFINE o == <<"scan", i>>
  <2>1. /\ o \in QA!Scans /\ o \in QA!Ops /\ o[2] = i
        /\ \E p \in {"scan", "list"} : opPc' = [opPc EXCEPT ![o] = p]
        /\ opPc[o] # "done" /\ (opPc[o] = "idle" => opPc[<<"preview", i>>] = "done")
    BY <1>5, Operations DEF QA!StartScan, QA!EndScan, QA!Goto
  <2> HIDE DEF o
  <2> QED
    BY <1>p, <2>1
<1>6. ASSUME NEW i \in Ids, QA!Expire(i) PROVE Good
  BY <1>6 DEF QA!Expire
<1>7. Good
  <2> HIDE DEF Good
  <2> QED
    BY <1>1, <1>2, <1>3, <1>4, <1>5, <1>6 DEF QA!Next, QA!Step, QA!OpStep
<1> QED
  BY <1>7

\* An operation removes one entry at a time.
LEMMA VictimStep ==
  ASSUME QA!TypeOK, QA!OpsInOrder, [QA!Next]_(QA!vars), NEW q \in QA!Ops
  PROVE  \A i, j \in victim'[q] : i = j
<1>t. victim \in [QA!Ops -> SUBSET Ids] /\ \A i, j \in victim[q] : i = j
  BY DEF QA!TypeOK, QA!OpsInOrder
<1>1. \/ UNCHANGED victim
      \/ \E o \in QA!Ops : victim' = [victim EXCEPT ![o] = {}]
      \/ \E o \in QA!Ops : \E x : victim' = [victim EXCEPT ![o] = {x}]
  BY DEF QA!Next, QA!Step, QA!OpStep, QA!Snapshot, QA!DropStale, QA!Unlist, QA!List, QA!Write, QA!Trim, QA!Unstore,
     QA!StartScan, QA!EndScan, QA!Expire, QA!vars
<1> QED
  BY <1>t, <1>1

\* Every step keeps the operations in order.
LEMMA OpsStep ==
  ASSUME QA!TypeOK, QA!OpsInOrder, [QA!Next]_(QA!vars)
  PROVE  QA!OpsInOrder'
<1>t. /\ opPc \in [QA!Ops -> QA!Phases]
      /\ \A o \in QA!Ops : opPc[o] \in {"list", "write", "trim", "unstore"} => o \in QA!Previews \cup QA!Scans
      /\ \A i \in Ids : opPc[<<"scan", i>>] # "idle" => opPc[<<"preview", i>>] = "done"
  BY DEF QA!TypeOK, QA!OpsInOrder
<1>1. \A o \in QA!Ops : \A i, j \in victim'[o] : i = j
  BY VictimStep
<1>2. CASE UNCHANGED opPc
  BY <1>t, <1>1, <1>2 DEF QA!OpsInOrder
<1>3. ASSUME NEW o \in QA!Ops, NEW p \in QA!Phases, opPc' = [opPc EXCEPT ![o] = p], opPc[o] # "done",
             p \in {"list", "write", "trim", "unstore"} => o \in QA!Previews \cup QA!Scans,
             opPc[o] = "idle" /\ o \in QA!Scans => opPc[<<"preview", o[2]>>] = "done"
      PROVE  QA!OpsInOrder'
  <2>1. \A r \in QA!Ops : opPc'[r] = IF r = o THEN p ELSE opPc[r]
    BY <1>t, <1>3
  <2>2. \A r \in QA!Ops : opPc'[r] \in {"list", "write", "trim", "unstore"} => r \in QA!Previews \cup QA!Scans
    BY <1>t, <1>3, <2>1
  <2>3. ASSUME NEW i \in Ids, opPc'[<<"scan", i>>] # "idle"
        PROVE  opPc'[<<"preview", i>>] = "done"
    <3> DEFINE s == <<"scan", i>>
               v == <<"preview", i>>
    <3>1. s \in QA!Ops /\ v \in QA!Ops /\ s \in QA!Scans /\ s[2] = i
      BY Operations
    <3>2. opPc[v] = "done"
      <4>1. CASE opPc[s] # "idle"
        BY <1>t, <4>1
      <4>2. CASE opPc[s] = "idle"
        <5>1. o = s
          BY <2>1, <2>3, <3>1, <4>2
        <5> QED
          BY <1>3, <3>1, <4>2, <5>1
      <4> QED
        BY <4>1, <4>2
    <3> QED
      BY <1>3, <2>1, <3>1, <3>2
  <2> QED
    BY <1>1, <2>2, <2>3 DEF QA!OpsInOrder
<1>4. CASE QA!Next
  BY <1>2, <1>3, <1>4, StoreMoves
<1>5. CASE UNCHANGED QA!vars
  BY <1>2, <1>5 DEF QA!vars
<1> QED
  BY <1>4, <1>5

\* Every step keeps an order beyond the cap about to be trimmed.
LEMMA TrimStep ==
  ASSUME QA!TypeOK, QA!OpsInOrder, QA!TrimPending, [QA!Next]_(QA!vars)
  PROVE  QA!TrimPending'
<1>t. /\ opPc \in [QA!Ops -> QA!Phases] /\ order \in Seq(Ids) /\ StoreCap \in Nat
      /\ Len(order) > StoreCap => \E o \in QA!Ops : opPc[o] \in {"write", "trim", "unstore"}
  BY ApiAssumption DEF QA!TypeOK, QA!TrimPending
<1>k. ASSUME order' = order \/ Len(order') <= Len(order), Len(order') \in Nat,
             \A o \in QA!Ops : opPc[o] \in {"write", "trim", "unstore"} => opPc'[o] \in {"write", "trim", "unstore"}
      PROVE  QA!TrimPending'
  BY <1>t, <1>k DEF QA!TrimPending
<1>n. Len(order') \in Nat
  BY StoreTypes DEF QA!TypeOK
<1>1. ASSUME NEW o \in QA!Ops, QA!Snapshot(o) \/ \E i \in Ids : QA!DropStale(o, i) PROVE QA!TrimPending'
  <2>1. order' = order /\ opPc[o] \in {"idle", "drop"} /\ \E p : opPc' = [opPc EXCEPT ![o] = p]
    BY <1>1 DEF QA!Snapshot, QA!DropStale, QA!Goto
  <2> QED
    BY <1>t, <1>k, <1>n, <2>1
<1>2. ASSUME NEW o \in QA!Ops, NEW i \in Ids, QA!Unlist(o, i) PROVE QA!TrimPending'
  <2>1. order' = QA!RemoveFirst(order, i) /\ opPc[o] = "unlist" /\ \E p : opPc' = [opPc EXCEPT ![o] = p]
    BY <1>2 DEF QA!Unlist, QA!Goto
  <2>2. Len(order') <= Len(order)
    <3>1. CASE \E m \in 1 .. Len(order) : order[m] = i
      BY <1>t, <2>1, <3>1, RemovedOnce DEF Removed
    <3>2. CASE ~\E m \in 1 .. Len(order) : order[m] = i
      BY <1>t, <2>1, <3>2 DEF QA!RemoveFirst
    <3> QED
      BY <3>1, <3>2
  <2> QED
    BY <1>t, <1>k, <1>n, <2>1, <2>2
<1>3. ASSUME NEW o \in QA!Ops, opPc'[o] \in {"write", "trim", "unstore"} PROVE QA!TrimPending'
  BY <1>3 DEF QA!TrimPending
<1>4. ASSUME NEW o \in QA!Ops, QA!List(o) \/ QA!Write(o) \/ \E i \in Ids : QA!Unstore(o, i) PROVE QA!TrimPending'
  <2>1. \E p \in {"write", "trim"} : opPc' = [opPc EXCEPT ![o] = p]
    BY <1>4 DEF QA!List, QA!Write, QA!Unstore, QA!Goto
  <2> QED
    BY <1>t, <1>3, <2>1
<1>5. ASSUME NEW o \in QA!Ops, QA!Trim(o) PROVE QA!TrimPending'
  <2>1. CASE Len(order) > StoreCap
    BY <1>t, <1>3, <1>5, <2>1 DEF QA!Trim, QA!Goto
  <2>2. CASE ~(Len(order) > StoreCap)
    <3>1. order' = order
      BY <1>5, <2>2 DEF QA!Trim
    <3> QED
      BY <1>t, <2>2, <3>1 DEF QA!TrimPending
  <2> QED
    BY <2>1, <2>2
<1>6. ASSUME NEW i \in Ids, QA!StartScan(i) \/ QA!EndScan(i) PROVE QA!TrimPending'
  <2>1. /\ order' = order /\ opPc[<<"scan", i>>] \in {"idle", "scan"}
        /\ \E p : opPc' = [opPc EXCEPT ![<<"scan", i>>] = p]
    BY <1>6 DEF QA!StartScan, QA!EndScan, QA!Goto
  <2> QED
    BY <1>t, <1>k, <1>n, <2>1
<1>7. ASSUME UNCHANGED <<order, opPc>> PROVE QA!TrimPending'
  BY <1>t, <1>7 DEF QA!TrimPending
<1> QED
  BY <1>1, <1>2, <1>4, <1>5, <1>6, <1>7 DEF QA!Next, QA!Step, QA!OpStep, QA!Expire, QA!vars

\* What the inductive invariant says of an id.
EntryOK(i) == QA!ListedByPreview(i) /\ QA!ScanMayList(i) /\ QA!SecondIsUnlisted(i)

\* Every step keeps an id listed once, or about to be unlisted.
LEMMA EntryStep ==
  ASSUME QA!IInv, [QA!Next]_(QA!vars), NEW q \in Ids
  PROVE  EntryOK(q)'
<1> DEFINE v == <<"preview", q>>
           s == <<"scan", q>>
<1>t. /\ opPc \in [QA!Ops -> QA!Phases] /\ order \in Seq(Ids) /\ order' \in Seq(Ids)
      /\ store \in [Ids -> QA!Statuses] /\ victim \in [QA!Ops -> SUBSET Ids]
  BY StoreTypes DEF QA!IInv, QA!TypeOK
<1>o. /\ v \in QA!Ops /\ s \in QA!Ops /\ v # s
      /\ v \in QA!Previews /\ s \in QA!Scans /\ s \notin QA!Previews /\ v \notin QA!Scans
      /\ opPc[s] # "idle" => opPc[v] = "done"
      /\ \A o \in QA!Ops : opPc[o] \in {"list", "write", "trim", "unstore"} => o \in QA!Previews \cup QA!Scans
      /\ \A o \in QA!Ops : \A i, j \in victim[o] : i = j
  BY Operations DEF QA!IInv, QA!OpsInOrder
<1>e. /\ QA!ListedByPreview(q) /\ QA!ScanMayList(q) /\ QA!SecondIsUnlisted(q)
  BY DEF QA!IInv
<1>s. \A o \in QA!Previews \cup QA!Scans : o[2] \in Ids /\ (o[2] = q => o = v \/ o = s)
  BY Operations
<1> HIDE DEF v, s
<1> USE DEF EntryOK
\* What a step leaves alone.
<1>u. ASSUME order' = order
      PROVE  /\ QA!Listed(q)' <=> QA!Listed(q)
             /\ QA!Once(q)' <=> QA!Once(q)
             /\ QA!AtMostTwice(q)' <=> QA!AtMostTwice(q)
  BY <1>u DEF QA!Listed, QA!Once, QA!AtMostTwice, QA!ToSet
<1>v. ASSUME NEW o \in QA!Ops, NEW p, opPc' = [opPc EXCEPT ![o] = p],
             opPc[o] \notin {"unlist", "unstore"}, p \notin {"unlist", "unstore"}, victim' = victim
      PROVE  (QA!Unlisting(q)' <=> QA!Unlisting(q)) /\ (QA!Unstoring(q)' <=> QA!Unstoring(q))
  BY <1>t, <1>v DEF QA!Unlisting, QA!Unstoring
<1>w. ASSUME NEW o \in QA!Ops, NEW p, opPc' = [opPc EXCEPT ![o] = p]
      PROVE  \A r \in QA!Ops : opPc'[r] = IF r = o THEN p ELSE opPc[r]
  BY <1>t, <1>w
<1>1. ASSUME NEW o \in QA!Ops, QA!Snapshot(o) PROVE EntryOK(q)'
  <2>1. /\ opPc[o] = "idle" /\ o \notin QA!Scans /\ UNCHANGED <<store, order, old, victim>>
        /\ \E p \in {"failed", "drop", QA!AfterEviction(o)} : opPc' = [opPc EXCEPT ![o] = p]
    BY <1>1 DEF QA!Snapshot, QA!Goto
  <2>2. QA!AfterEviction(o) = (IF o \in QA!Previews THEN "list" ELSE "done")
    BY DEF QA!AfterEviction
  <2>3. PICK p \in {"failed", "drop", QA!AfterEviction(o)} : opPc' = [opPc EXCEPT ![o] = p]
    BY <2>1
  <2>4. (QA!Unlisting(q)' <=> QA!Unlisting(q)) /\ (QA!Unstoring(q)' <=> QA!Unstoring(q))
    BY <1>v, <2>1, <2>2, <2>3
  <2>5. opPc'[s] = opPc[s] /\ (opPc'[v] = opPc[v] \/ (opPc[v] = "idle" /\ opPc'[v] \in {"failed", "drop", "list"}))
    BY <1>o, <1>w, <2>1, <2>2, <2>3
  <2>6. QA!Stored(q)' <=> QA!Stored(q)
    BY <2>1 DEF QA!Stored
  <2> QED
    BY <1>e, <1>u, <2>1, <2>4, <2>5, <2>6 DEF QA!ListedByPreview, QA!ScanMayList, QA!SecondIsUnlisted, v, s
<1>2. ASSUME NEW o \in QA!Ops, NEW i \in Ids, QA!DropStale(o, i) PROVE EntryOK(q)'
  <2>1. /\ opPc[o] = "drop" /\ opPc' = [opPc EXCEPT ![o] = "unlist"] /\ order' = order
        /\ victim' = [victim EXCEPT ![o] = {i}] /\ store' = [store EXCEPT ![i] = "none"]
    BY <1>2 DEF QA!DropStale, QA!Goto
  <2>2. /\ QA!Unlisting(q) => QA!Unlisting(q)'
        /\ i = q => QA!Unlisting(q)'
        /\ QA!Unstoring(q)' => QA!Unstoring(q)
    BY <1>t, <2>1 DEF QA!Unlisting, QA!Unstoring
  <2>3. /\ opPc'[v] = opPc[v] \/ (opPc[v] = "drop" /\ opPc'[v] = "unlist")
        /\ opPc'[s] = opPc[s] \/ opPc'[s] = "unlist"
    BY <1>o, <1>w, <2>1
  <2>4. i # q => (QA!Stored(q)' <=> QA!Stored(q))
    BY <1>t, <2>1 DEF QA!Stored
  <2> QED
    BY <1>e, <1>u, <2>1, <2>2, <2>3, <2>4 DEF QA!ListedByPreview, QA!ScanMayList, QA!SecondIsUnlisted, v, s
<1>3. ASSUME NEW o \in QA!Ops, NEW i \in Ids, QA!Unlist(o, i) PROVE EntryOK(q)'
  <2>1. /\ opPc[o] = "unlist" /\ i \in victim[o] /\ order' = QA!RemoveFirst(order, i) /\ UNCHANGED store
        /\ victim' = [victim EXCEPT ![o] = {}]
    BY <1>3 DEF QA!Unlist
  <2>2. PICK p \in {"drop", QA!AfterEviction(o)} : opPc' = [opPc EXCEPT ![o] = p]
    BY <1>3 DEF QA!Unlist, QA!Goto
  <2>3. QA!AfterEviction(o) = (IF o \in QA!Previews THEN "list" ELSE "done")
    BY DEF QA!AfterEviction
  <2>4. /\ i # q => (QA!Unlisting(q)' <=> QA!Unlisting(q))
        /\ QA!Unstoring(q)' <=> QA!Unstoring(q)
    <3>1. i # q => q \notin victim[o]
      BY <1>o, <2>1
    <3>2. p \notin {"unlist", "unstore"}
      BY <2>2, <2>3
    <3> QED
      BY <1>t, <2>1, <2>2, <3>1, <3>2 DEF QA!Unlisting, QA!Unstoring
  <2>5. /\ opPc'[v] = opPc[v] \/ (opPc[v] = "unlist" /\ opPc'[v] \in {"drop", "list"})
        /\ opPc'[s] = opPc[s] \/ opPc'[s] \in {"drop", "done"}
    BY <1>o, <1>w, <2>1, <2>2, <2>3
  <2>6. QA!Stored(q)' <=> QA!Stored(q)
    BY <2>1 DEF QA!Stored
  <2>7. /\ QA!Listed(q)' => QA!Listed(q)
        /\ QA!Once(q) => QA!Once(q)'
        /\ QA!AtMostTwice(q) => QA!AtMostTwice(q)'
        /\ i = q /\ QA!Once(q) => ~QA!Listed(q)'
        /\ i = q /\ QA!AtMostTwice(q) => QA!Once(q)'
    BY <1>t, <2>1, UnlistOrder
  <2> QED
    BY <1>e, <2>4, <2>5, <2>6, <2>7 DEF QA!ListedByPreview, QA!ScanMayList, QA!SecondIsUnlisted, v, s
<1>4. ASSUME NEW o \in QA!Ops, QA!List(o) PROVE EntryOK(q)'
  <2>a. opPc[o] = "list" /\ opPc' = [opPc EXCEPT ![o] = "write"] /\ UNCHANGED victim
    BY <1>4 DEF QA!List, QA!Goto
  <2>1. /\ opPc[o] = "list" /\ UNCHANGED store
        /\ order' = IF QA!Stored(o[2]) THEN order ELSE Append(order, o[2])
    BY <1>4 DEF QA!List
  <2>2. (QA!Unlisting(q)' <=> QA!Unlisting(q)) /\ (QA!Unstoring(q)' <=> QA!Unstoring(q))
    BY <1>v, <2>a
  <2>3. o[2] \in Ids /\ (o[2] = q => o = v \/ o = s) /\ (o[2] # q => o # v /\ o # s)
    BY <1>o, <1>s, <2>1 DEF v, s
  <2>4. opPc'[v] = (IF o = v THEN "write" ELSE opPc[v]) /\ opPc'[s] = (IF o = s THEN "write" ELSE opPc[s])
    BY <1>t, <1>o, <2>a
  <2>5. QA!Stored(q)' <=> QA!Stored(q)
    BY <2>1 DEF QA!Stored
  <2>6. /\ o[2] # q => /\ QA!Listed(q)' => QA!Listed(q)
                       /\ QA!Once(q) => QA!Once(q)'
                       /\ QA!AtMostTwice(q) => QA!AtMostTwice(q)'
        /\ o[2] = q => /\ ~QA!Listed(q) => QA!Once(q)'
                       /\ QA!Once(q) => QA!AtMostTwice(q)'
                       /\ QA!Stored(q) => (QA!Once(q) => QA!Once(q)')
        /\ QA!Once(q)' => QA!AtMostTwice(q)'
    BY <1>t, <2>1, <2>3, ListOrder
  <2>7. CASE o[2] # q
    BY <1>e, <2>2, <2>3, <2>4, <2>5, <2>6, <2>7
       DEF QA!ListedByPreview, QA!ScanMayList, QA!SecondIsUnlisted, v, s
  <2>8. CASE o[2] = q /\ o = v
    BY <1>e, <1>o, <2>1, <2>2, <2>4, <2>5, <2>6, <2>8
       DEF QA!ListedByPreview, QA!ScanMayList, QA!SecondIsUnlisted, v, s
  <2>9. CASE o[2] = q /\ o = s
    BY <1>e, <1>o, <2>1, <2>2, <2>4, <2>5, <2>6, <2>9
       DEF QA!ListedByPreview, QA!ScanMayList, QA!SecondIsUnlisted, v, s
  <2> QED
    BY <2>3, <2>7, <2>8, <2>9
<1>5. ASSUME NEW o \in QA!Ops, QA!Write(o) PROVE EntryOK(q)'
  <2>a. opPc[o] = "write" /\ opPc' = [opPc EXCEPT ![o] = "trim"] /\ UNCHANGED victim
    BY <1>5 DEF QA!Write, QA!Goto
  <2>1. /\ opPc[o] = "write" /\ UNCHANGED order
        /\ \E x \in {"ready", "unavailable", "pending"} : store' = [store EXCEPT ![o[2]] = x]
    BY <1>5 DEF QA!Write
  <2>2. (QA!Unlisting(q)' <=> QA!Unlisting(q)) /\ (QA!Unstoring(q)' <=> QA!Unstoring(q))
    BY <1>v, <2>a
  <2>3. o[2] \in Ids /\ (o[2] = q => o = v \/ o = s) /\ (o[2] # q => o # v /\ o # s)
    BY <1>o, <1>s, <2>1 DEF v, s
  <2>4. opPc'[v] = (IF o = v THEN "trim" ELSE opPc[v]) /\ opPc'[s] = (IF o = s THEN "trim" ELSE opPc[s])
    BY <1>t, <1>o, <2>a
  <2>5. (o[2] = q => QA!Stored(q)') /\ (o[2] # q => (QA!Stored(q)' <=> QA!Stored(q)))
    BY <1>t, <2>1 DEF QA!Stored
  <2> QED
    BY <1>e, <1>u, <2>1, <2>2, <2>3, <2>4, <2>5
       DEF QA!ListedByPreview, QA!ScanMayList, QA!SecondIsUnlisted, v, s
<1>6. ASSUME NEW o \in QA!Ops, QA!Trim(o) PROVE EntryOK(q)'
  <2>1. opPc[o] = "trim" /\ UNCHANGED store /\ (QA!Stored(q)' <=> QA!Stored(q))
    BY <1>6 DEF QA!Trim, QA!Stored
  <2>2. CASE ~(Len(order) > StoreCap)
    <3>1. opPc' = [opPc EXCEPT ![o] = "done"] /\ UNCHANGED <<order, victim>>
      BY <1>6, <2>2 DEF QA!Trim, QA!Goto
    <3>2. (QA!Unlisting(q)' <=> QA!Unlisting(q)) /\ (QA!Unstoring(q)' <=> QA!Unstoring(q))
      BY <1>v, <2>1, <3>1
    <3>3. /\ opPc'[v] = opPc[v] \/ (opPc[v] = "trim" /\ opPc'[v] = "done")
          /\ opPc'[s] = opPc[s] \/ opPc'[s] = "done"
      BY <1>o, <1>w, <2>1, <3>1
    <3> QED
      BY <1>e, <1>u, <2>1, <3>1, <3>2, <3>3
         DEF QA!ListedByPreview, QA!ScanMayList, QA!SecondIsUnlisted, v, s
  <2>3. CASE Len(order) > StoreCap
    <3>1. /\ opPc' = [opPc EXCEPT ![o] = "unstore"] /\ order' = Tail(order)
          /\ victim' = [victim EXCEPT ![o] = {Head(order)}]
      BY <1>6, <2>3 DEF QA!Trim, QA!Goto
    <3>4. /\ QA!Listed(q)' => QA!Listed(q)
          /\ QA!Once(q) => QA!Once(q)'
          /\ QA!AtMostTwice(q) => QA!AtMostTwice(q)'
          /\ Head(order) = q => /\ QA!Once(q) => ~QA!Listed(q)'
                                /\ QA!AtMostTwice(q) => QA!Once(q)'
                                /\ QA!Listed(q)
      BY <1>t, <2>3, <3>1, TrimOrder
    <3>5. /\ QA!Unlisting(q)' <=> QA!Unlisting(q)
          /\ Head(order) # q => (QA!Unstoring(q)' => QA!Unstoring(q))
      BY <1>t, <2>1, <3>1 DEF QA!Unlisting, QA!Unstoring
    <3>6. /\ opPc'[v] = opPc[v] \/ (opPc[v] = "trim" /\ opPc'[v] = "unstore")
          /\ opPc'[s] = opPc[s] \/ opPc'[s] = "unstore"
      BY <1>o, <1>w, <2>1, <3>1
    <3> QED
      BY <1>e, <2>1, <3>4, <3>5, <3>6 DEF QA!ListedByPreview, QA!ScanMayList, QA!SecondIsUnlisted, v, s
  <2> QED
    BY <2>2, <2>3
<1>7. ASSUME NEW o \in QA!Ops, NEW i \in Ids, QA!Unstore(o, i) PROVE EntryOK(q)'
  <2>1. /\ opPc[o] = "unstore" /\ i \in victim[o] /\ opPc' = [opPc EXCEPT ![o] = "trim"]
        /\ store' = [store EXCEPT ![i] = "none"] /\ victim' = [victim EXCEPT ![o] = {}] /\ order' = order
    BY <1>7 DEF QA!Unstore, QA!Goto
  <2>2. /\ QA!Unlisting(q)' <=> QA!Unlisting(q)
        /\ QA!Unstoring(q)' => QA!Unstoring(q)
        /\ i = q => QA!Unstoring(q)
    BY <1>t, <2>1 DEF QA!Unlisting, QA!Unstoring
  <2>3. /\ opPc'[v] = opPc[v] \/ (opPc[v] = "unstore" /\ opPc'[v] = "trim")
        /\ opPc'[s] = opPc[s] \/ opPc'[s] = "trim"
    BY <1>o, <1>w, <2>1
  <2>4. i # q => (QA!Stored(q)' <=> QA!Stored(q))
    BY <1>t, <2>1 DEF QA!Stored
  <2> QED
    BY <1>e, <1>u, <2>1, <2>2, <2>3, <2>4 DEF QA!ListedByPreview, QA!ScanMayList, QA!SecondIsUnlisted, v, s
<1>8. ASSUME NEW i \in Ids, QA!StartScan(i) \/ QA!EndScan(i) PROVE EntryOK(q)'
  <2> DEFINE o == <<"scan", i>>
  <2>1. /\ o \in QA!Ops /\ o \in QA!Scans /\ opPc[o] \in {"idle", "scan"} /\ UNCHANGED <<store, order, victim>>
        /\ \E p \in {"scan", "list"} : opPc' = [opPc EXCEPT ![o] = p]
    BY <1>8, Operations DEF QA!StartScan, QA!EndScan, QA!Goto
  <2> HIDE DEF o
  <2>2. PICK p \in {"scan", "list"} : opPc' = [opPc EXCEPT ![o] = p]
    BY <2>1
  <2>3. (QA!Unlisting(q)' <=> QA!Unlisting(q)) /\ (QA!Unstoring(q)' <=> QA!Unstoring(q))
    BY <1>v, <2>1, <2>2
  <2>4. /\ opPc'[v] = opPc[v]
        /\ opPc'[s] = opPc[s] \/ (opPc[s] \in {"idle", "scan"} /\ opPc'[s] \in {"scan", "list"})
    BY <1>o, <1>w, <2>1, <2>2
  <2>5. QA!Stored(q)' <=> QA!Stored(q)
    BY <2>1 DEF QA!Stored
  <2> QED
    BY <1>e, <1>u, <2>1, <2>3, <2>4, <2>5 DEF QA!ListedByPreview, QA!ScanMayList, QA!SecondIsUnlisted, v, s
<1>9. ASSUME UNCHANGED <<store, order, opPc, victim>> PROVE EntryOK(q)'
  <2>1. /\ QA!Unlisting(q)' <=> QA!Unlisting(q)
        /\ QA!Unstoring(q)' <=> QA!Unstoring(q)
        /\ QA!Stored(q)' <=> QA!Stored(q)
    BY <1>9 DEF QA!Unlisting, QA!Unstoring, QA!Stored
  <2> QED
    BY <1>e, <1>u, <1>9, <2>1 DEF QA!ListedByPreview, QA!ScanMayList, QA!SecondIsUnlisted, v, s
<1> HIDE DEF EntryOK
<1> QED
  BY <1>1, <1>2, <1>3, <1>4, <1>5, <1>6, <1>7, <1>8, <1>9 DEF QA!Next, QA!Step, QA!OpStep, QA!Expire, QA!vars

\* Every step keeps an id steady that no two operations are in the middle of.
LEMMA SteadyStep ==
  ASSUME QA!IInv, [QA!Next]_(QA!vars), NEW q \in Ids \ overlapped'
  PROVE  QA!Steady(q)'
<1>t. /\ opPc \in [QA!Ops -> QA!Phases] /\ order \in Seq(Ids)
      /\ store \in [Ids -> QA!Statuses] /\ victim \in [QA!Ops -> SUBSET Ids]
  BY DEF QA!IInv, QA!TypeOK
<1>o. /\ \A o \in QA!Ops : opPc[o] \in {"list", "write", "trim", "unstore"} => o[2] \in Ids
      /\ \A o \in QA!Ops : \A i, j \in victim[o] : i = j
      /\ \A i \in Ids : <<"scan", i>> \in QA!Ops
  BY Operations DEF QA!IInv, QA!OpsInOrder
<1>q. q \in Ids /\ QA!Steady(q)
  <2>1. q \in Ids /\ q \notin overlapped
    BY DEF QA!Next, QA!Record, QA!vars
  <2> QED
    BY <2>1 DEF QA!IInv
<1>b. \A o, p \in QA!Ops : QA!Between(o, q)' /\ QA!Between(p, q)' => o = p
  <2>1. CASE QA!Next
    BY <2>1 DEF QA!Next, QA!Record
  <2>2. CASE UNCHANGED QA!vars
    BY <1>q, <2>2 DEF QA!vars, QA!Steady, QA!Between
  <2> QED
    BY <2>1, <2>2
\* A step is in the middle of nothing of q, begins with it or is through with it.
<1>k. ASSUME \A o \in QA!Ops : /\ QA!Between(o, q)' <=> QA!Between(o, q)
                               /\ QA!Between(o, q) => opPc'[o] = opPc[o],
             QA!Once(q) => QA!Once(q)', QA!Listed(q)' <=> QA!Listed(q), QA!Stored(q)' <=> QA!Stored(q)
      PROVE  QA!Steady(q)'
  <2>1. QA!Once(q)' /\ ((\A o \in QA!Ops : ~QA!Between(o, q)') => (QA!Listed(q)' <=> QA!Stored(q)'))
    BY <1>q, <1>k, Zenon DEF QA!Steady
  <2>2. ASSUME NEW o \in QA!Ops, QA!Between(o, q)'
        PROVE  QA!HalfDone(o, q)'
    BY <1>q, <1>k, <2>2, Zenon DEF QA!Steady, QA!HalfDone
  <2> QED
    BY <1>b, <2>1, <2>2, Zenon DEF QA!Steady
<1>x. ASSUME NEW o \in QA!Ops, QA!Between(o, q)', QA!Once(q)',
             QA!HalfDone(o, q)'
      PROVE  QA!Steady(q)'
  BY <1>b, <1>x, Zenon DEF QA!Steady
<1>y. ASSUME NEW o \in QA!Ops, QA!Between(o, q), ~QA!Between(o, q)', QA!Once(q)',
             QA!Listed(q)' <=> QA!Stored(q)',
             \A p \in QA!Ops : p # o => (QA!Between(p, q)' <=> QA!Between(p, q))
      PROVE  QA!Steady(q)'
  <2>1. \A p \in QA!Ops : ~QA!Between(p, q)'
    BY <1>q, <1>y, Zenon DEF QA!Steady
  <2> QED
    BY <1>y, <2>1, Zenon DEF QA!Steady
<1>s. ASSUME UNCHANGED order
      PROVE  (QA!Once(q)' <=> QA!Once(q)) /\ (QA!Listed(q)' <=> QA!Listed(q))
  BY <1>s DEF QA!Once, QA!Listed, QA!ToSet
<1>w. ASSUME NEW o \in QA!Ops, NEW p, opPc' = [opPc EXCEPT ![o] = p]
      PROVE  \A r \in QA!Ops : opPc'[r] = IF r = o THEN p ELSE opPc[r]
  BY <1>t, <1>w
\* The phases of an operation in the middle of nothing.
<1>z. ASSUME NEW o \in QA!Ops, NEW p, opPc' = [opPc EXCEPT ![o] = p],
             opPc[o] \notin {"write", "unlist", "unstore"}, p \notin {"write", "unlist", "unstore"},
             UNCHANGED <<store, order, victim>>
      PROVE  QA!Steady(q)'
  <2>1. \A r \in QA!Ops : /\ QA!Between(r, q)' <=> QA!Between(r, q)
                          /\ QA!Between(r, q) => opPc'[r] = opPc[r]
    BY <1>w, <1>z DEF QA!Between
  <2> QED
    BY <1>k, <1>s, <1>z, <2>1 DEF QA!Stored
<1>1. ASSUME NEW o \in QA!Ops, QA!Snapshot(o) PROVE QA!Steady(q)'
  <2>1. /\ opPc[o] = "idle" /\ UNCHANGED <<store, order, victim>>
        /\ \E p \in {"failed", "drop", "list", "done"} : opPc' = [opPc EXCEPT ![o] = p]
    BY <1>1 DEF QA!Snapshot, QA!Goto, QA!AfterEviction
  <2> QED
    BY <1>z, <2>1
<1>2. ASSUME NEW o \in QA!Ops, NEW i \in Ids, QA!DropStale(o, i) PROVE QA!Steady(q)'
  <2>1. /\ opPc[o] = "drop" /\ opPc' = [opPc EXCEPT ![o] = "unlist"] /\ order' = order
        /\ victim' = [victim EXCEPT ![o] = {i}] /\ store' = [store EXCEPT ![i] = "none"]
    BY <1>2 DEF QA!DropStale, QA!Goto
  <2>2. CASE i = q
    BY <1>q, <1>s, <1>t, <1>x, <2>1, <2>2 DEF QA!Steady, QA!HalfDone, QA!Between, QA!Stored
  <2>3. CASE i # q
    <3>1. \A r \in QA!Ops : /\ QA!Between(r, q)' <=> QA!Between(r, q)
                            /\ QA!Between(r, q) => opPc'[r] = opPc[r]
      BY <1>t, <2>1, <2>3 DEF QA!Between
    <3> QED
      BY <1>k, <1>q, <1>s, <1>t, <2>1, <2>3, <3>1 DEF QA!Stored
  <2> QED
    BY <2>2, <2>3
<1>3. ASSUME NEW o \in QA!Ops, NEW i \in Ids, QA!Unlist(o, i) PROVE QA!Steady(q)'
  <2>1. /\ opPc[o] = "unlist" /\ i \in victim[o] /\ order' = QA!RemoveFirst(order, i) /\ UNCHANGED store
        /\ victim' = [victim EXCEPT ![o] = {}]
        /\ \E p \in {"drop", "list", "done"} : opPc' = [opPc EXCEPT ![o] = p]
    BY <1>3 DEF QA!Unlist, QA!Goto, QA!AfterEviction
  <2>2. /\ QA!Once(q) => QA!Once(q)'
        /\ i = q /\ QA!Once(q) => ~QA!Listed(q)'
        /\ i # q => (QA!Listed(q)' <=> QA!Listed(q))
    BY <1>t, <2>1, UnlistOrder
  <2>3. QA!Stored(q)' <=> QA!Stored(q)
    BY <2>1 DEF QA!Stored
  <2>4. \A r \in QA!Ops : r # o => (QA!Between(r, q)' <=> QA!Between(r, q)) /\ opPc'[r] = opPc[r]
    BY <1>t, <2>1 DEF QA!Between
  <2>5. ~QA!Between(o, q)' /\ (QA!Between(o, q) <=> i = q)
    BY <1>o, <1>t, <2>1 DEF QA!Between
  <2>6. CASE i = q
    <3>1. ~QA!Stored(q) /\ QA!Once(q)
      BY <1>q, <2>1, <2>5, <2>6 DEF QA!Steady, QA!HalfDone
    <3> QED
      BY <1>y, <2>2, <2>3, <2>4, <2>5, <2>6, <3>1
  <2>7. CASE i # q
    BY <1>k, <2>2, <2>3, <2>4, <2>5, <2>7
  <2> QED
    BY <2>6, <2>7
<1>4. ASSUME NEW o \in QA!Ops, QA!List(o) PROVE QA!Steady(q)'
  <2>1. /\ opPc[o] = "list" /\ opPc' = [opPc EXCEPT ![o] = "write"] /\ UNCHANGED <<store, victim>>
        /\ order' = (IF QA!Stored(o[2]) THEN order ELSE Append(order, o[2])) /\ o[2] \in Ids
    BY <1>4, <1>o DEF QA!List, QA!Goto
  <2>2. /\ o[2] # q => (QA!Listed(q)' <=> QA!Listed(q)) /\ (QA!Once(q) => QA!Once(q)')
        /\ o[2] = q => /\ ~QA!Listed(q) => QA!Once(q)'
                       /\ QA!Stored(q) => (QA!Once(q) => QA!Once(q)') /\ (QA!Listed(q)' <=> QA!Listed(q))
                       /\ ~QA!Stored(q) => QA!Listed(q)'
    BY <1>t, <2>1, ListOrder
  <2>3. QA!Stored(q)' <=> QA!Stored(q)
    BY <2>1 DEF QA!Stored
  <2>4. \A r \in QA!Ops : r # o => (QA!Between(r, q)' <=> QA!Between(r, q)) /\ opPc'[r] = opPc[r]
    BY <1>t, <2>1 DEF QA!Between
  <2>5. ~QA!Between(o, q) /\ (QA!Between(o, q)' <=> o[2] = q) /\ opPc'[o] = "write"
    BY <1>t, <2>1 DEF QA!Between
  <2>6. CASE o[2] = q
    <3>1. \A r \in QA!Ops : ~QA!Between(r, q)
      BY <1>b, <2>4, <2>5, <2>6
    <3>2. (QA!Listed(q) <=> QA!Stored(q)) /\ QA!Once(q)
      BY <1>q, <3>1 DEF QA!Steady, QA!HalfDone
    <3>3. QA!Listed(q)' /\ QA!Once(q)'
      BY <2>2, <2>6, <3>2
    <3>4. QA!HalfDone(o, q)'
      BY <2>5, <3>3 DEF QA!HalfDone
    <3> QED
      BY <1>x, <2>5, <2>6, <3>3, <3>4
  <2>7. CASE o[2] # q
    BY <1>k, <2>2, <2>3, <2>4, <2>5, <2>7
  <2> QED
    BY <2>6, <2>7
<1>5. ASSUME NEW o \in QA!Ops, QA!Write(o) PROVE QA!Steady(q)'
  <2>1. /\ opPc[o] = "write" /\ opPc' = [opPc EXCEPT ![o] = "trim"] /\ UNCHANGED <<order, victim>>
        /\ o[2] \in Ids
        /\ \E x \in {"ready", "unavailable", "pending"} : store' = [store EXCEPT ![o[2]] = x]
    BY <1>5, <1>o DEF QA!Write, QA!Goto
  <2>2. (o[2] = q => QA!Stored(q)') /\ (o[2] # q => (QA!Stored(q)' <=> QA!Stored(q)))
    BY <1>t, <2>1 DEF QA!Stored
  <2>3. \A r \in QA!Ops : r # o => (QA!Between(r, q)' <=> QA!Between(r, q)) /\ opPc'[r] = opPc[r]
    BY <1>t, <2>1 DEF QA!Between
  <2>4. ~QA!Between(o, q)' /\ (QA!Between(o, q) <=> o[2] = q)
    BY <1>t, <2>1 DEF QA!Between
  <2>5. CASE o[2] = q
    <3>1. QA!Listed(q) /\ QA!Once(q)
      BY <1>q, <2>1, <2>4, <2>5 DEF QA!Steady, QA!HalfDone
    <3> QED
      BY <1>s, <1>y, <2>1, <2>2, <2>3, <2>4, <2>5, <3>1
  <2>6. CASE o[2] # q
    BY <1>k, <1>s, <2>1, <2>2, <2>3, <2>4, <2>6
  <2> QED
    BY <2>5, <2>6
<1>6. ASSUME NEW o \in QA!Ops, QA!Trim(o) PROVE QA!Steady(q)'
  <2>1. CASE ~(Len(order) > StoreCap)
    BY <1>6, <1>z, <2>1 DEF QA!Trim, QA!Goto
  <2>2. CASE Len(order) > StoreCap
    <3>1. /\ opPc[o] = "trim" /\ opPc' = [opPc EXCEPT ![o] = "unstore"] /\ order' = Tail(order)
          /\ victim' = [victim EXCEPT ![o] = {Head(order)}] /\ UNCHANGED store
      BY <1>6, <2>2 DEF QA!Trim, QA!Goto
    <3>2. /\ QA!Once(q) => QA!Once(q)'
          /\ Head(order) = q /\ QA!Once(q) => ~QA!Listed(q)'
          /\ Head(order) # q => (QA!Listed(q)' <=> QA!Listed(q))
      BY <1>t, <2>2, <3>1, TrimOrder
    <3>3. QA!Stored(q)' <=> QA!Stored(q)
      BY <3>1 DEF QA!Stored
    <3>4. \A r \in QA!Ops : r # o => (QA!Between(r, q)' <=> QA!Between(r, q)) /\ opPc'[r] = opPc[r]
      BY <1>t, <3>1 DEF QA!Between
    <3>5. ~QA!Between(o, q) /\ (QA!Between(o, q)' <=> Head(order) = q) /\ opPc'[o] = "unstore"
      BY <1>t, <3>1 DEF QA!Between
    <3>6. CASE Head(order) = q
      <4>1. QA!Once(q)
        BY <1>q, Zenon DEF QA!Steady
      <4>2. QA!HalfDone(o, q)'
        BY <3>2, <3>5, <3>6, <4>1 DEF QA!HalfDone
      <4> QED
        BY <1>x, <3>2, <3>5, <3>6, <4>1, <4>2
    <3>7. CASE Head(order) # q
      BY <1>k, <3>2, <3>3, <3>4, <3>5, <3>7
    <3> QED
      BY <3>6, <3>7
  <2> QED
    BY <2>1, <2>2
<1>7. ASSUME NEW o \in QA!Ops, NEW i \in Ids, QA!Unstore(o, i) PROVE QA!Steady(q)'
  <2>1. /\ opPc[o] = "unstore" /\ i \in victim[o] /\ opPc' = [opPc EXCEPT ![o] = "trim"]
        /\ store' = [store EXCEPT ![i] = "none"] /\ victim' = [victim EXCEPT ![o] = {}] /\ order' = order
    BY <1>7 DEF QA!Unstore, QA!Goto
  <2>2. (i = q => ~QA!Stored(q)') /\ (i # q => (QA!Stored(q)' <=> QA!Stored(q)))
    BY <1>q, <1>t, <2>1 DEF QA!Stored
  <2>3. \A r \in QA!Ops : r # o => (QA!Between(r, q)' <=> QA!Between(r, q)) /\ opPc'[r] = opPc[r]
    BY <1>t, <2>1 DEF QA!Between
  <2>4. ~QA!Between(o, q)' /\ (QA!Between(o, q) <=> i = q)
    BY <1>o, <1>t, <2>1 DEF QA!Between
  <2>5. CASE i = q
    <3>1. ~QA!Listed(q) /\ QA!Once(q)
      BY <1>q, <2>1, <2>4, <2>5 DEF QA!Steady, QA!HalfDone
    <3> QED
      BY <1>s, <1>y, <2>1, <2>2, <2>3, <2>4, <2>5, <3>1
  <2>6. CASE i # q
    BY <1>k, <1>s, <2>1, <2>2, <2>3, <2>4, <2>6
  <2> QED
    BY <2>5, <2>6
<1>8. ASSUME NEW i \in Ids, QA!StartScan(i) \/ QA!EndScan(i) PROVE QA!Steady(q)'
  <2>1. /\ opPc[<<"scan", i>>] \in {"idle", "scan"} /\ UNCHANGED <<store, order, victim>>
        /\ \E p \in {"scan", "list"} : opPc' = [opPc EXCEPT ![<<"scan", i>>] = p]
    BY <1>8 DEF QA!StartScan, QA!EndScan, QA!Goto
  <2> QED
    BY <1>o, <1>z, <2>1
<1>9. ASSUME UNCHANGED <<store, order, opPc, victim>> PROVE QA!Steady(q)'
  <2>1. \A r \in QA!Ops : (QA!Between(r, q)' <=> QA!Between(r, q)) /\ opPc'[r] = opPc[r]
    BY <1>9 DEF QA!Between
  <2> QED
    BY <1>9, <1>k, <1>s, <2>1 DEF QA!Stored
<1> QED
  BY <1>1, <1>2, <1>3, <1>4, <1>5, <1>6, <1>7, <1>8, <1>9
     DEF QA!Next, QA!Step, QA!OpStep, QA!Expire, QA!vars

\* Every step keeps the inductive invariant of the store.
LEMMA StoreStep == QA!IInv /\ [QA!Next]_(QA!vars) => QA!IInv'
<1> SUFFICES ASSUME QA!IInv, [QA!Next]_(QA!vars) PROVE QA!IInv'
  OBVIOUS
<1>1. QA!TypeOK /\ QA!OpsInOrder /\ QA!TrimPending
  BY DEF QA!IInv
<1>2. QA!TypeOK' /\ QA!OpsInOrder' /\ QA!TrimPending'
  BY <1>1, StoreTypes, OpsStep, TrimStep
<1>3. \A i \in Ids : EntryOK(i)'
  BY EntryStep
<1>4. \A i \in Ids \ overlapped' : QA!Steady(i)'
  BY SteadyStep
<1> QED
  BY <1>2, <1>3, <1>4 DEF QA!IInv, EntryOK

\* A steady id is in step, and the order is tidy once the writes are through.
LEMMA StoreIsInStep == QA!IInv => QA!StoreInStep
<1> SUFFICES ASSUME QA!IInv PROVE QA!StoreInStep
  OBVIOUS
<1>1. \A i \in Ids \ overlapped :
        (\A o \in QA!Ops : ~QA!Between(o, i)) => (QA!Listed(i) <=> QA!Stored(i))
  BY DEF QA!IInv, QA!Steady
<1>2. ASSUME \A o \in QA!Ops : opPc[o] \in {"idle", "scan", "done", "failed"}
      PROVE  QA!IsInjective(order) /\ Len(order) <= StoreCap
  <2>1. order \in Seq(Ids) /\ StoreCap \in Nat
    BY ApiAssumption DEF QA!IInv, QA!TypeOK
  <2>2. Len(order) <= StoreCap
    BY <1>2, <2>1 DEF QA!IInv, QA!TrimPending
  <2>3. \A i \in Ids : QA!Once(i)
    BY <1>2 DEF QA!IInv, QA!SecondIsUnlisted, QA!Unlisting
  <2>4. QA!IsInjective(order)
    BY <2>1, <2>3 DEF QA!IsInjective, QA!Once
  <2> QED
    BY <2>2, <2>4
<1> QED
  BY <1>1, <1>2, Zenon DEF QA!StoreInStep

-----------------------------------------------------------------------------
(* The reports of captured errors                                          *)

\* The reports count with the cardinality of the standard module.
LEMMA SameCardinality == \A S : ER!Cardinality(S) = Cardinality(S)
BY DEF ER!Cardinality, Cardinality

\* Sequences are functions on an interval.
LEMMA SequencesAre ==
  ASSUME NEW S
  PROVE  /\ \A s \in Seq(S) : Len(s) \in Nat /\ DOMAIN s = 1 .. Len(s) /\ \A i \in 1 .. Len(s) : s[i] \in S
         /\ \A n \in Nat : \A s \in [1 .. n -> S] : s \in Seq(S) /\ Len(s) = n
OBVIOUS

\* How many occurrences are not older than age.
Count(s, age) == Cardinality(ER!Since(s, age))

LEMMA CountIsNatural ==
  ASSUME NEW s \in ER!Ages, NEW age
  PROVE  IsFiniteSet(ER!Since(s, age)) /\ Count(s, age) \in Nat
<1>1. Len(s) \in Nat /\ DOMAIN s = 1 .. Len(s)
  BY DEF ER!Ages
<1>2. IsFiniteSet(DOMAIN s)
  BY <1>1, FS_Interval
<1>3. IsFiniteSet(ER!Since(s, age))
  BY <1>2, FS_Subset DEF ER!Since
<1> QED
  BY <1>3, FS_CardinalityType DEF Count

\* No occurrence makes none.
LEMMA CountOfNone == \A age : Count(<<>>, age) = 0
<1> SUFFICES ASSUME NEW age PROVE Count(<<>>, age) = 0
  OBVIOUS
<1>1. ER!Since(<<>>, age) = {}
  BY DEF ER!Since
<1> QED
  BY <1>1, FS_EmptySet DEF Count

\* One that occurs now is one more at every age.
LEMMA CountOfOneMore ==
  ASSUME NEW s \in ER!Ages, NEW age \in Nat
  PROVE  Append(s, 0) \in ER!Ages /\ Count(Append(s, 0), age) = Count(s, age) + 1
<1>1. /\ s \in Seq(0 .. Window + 1) /\ Len(s) \in Nat /\ DOMAIN s = 1 .. Len(s)
  BY DEF ER!Ages
<1>2. Append(s, 0) \in ER!Ages
  BY <1>1, ApiAssumption DEF ER!Ages
<1>3. ER!Since(Append(s, 0), age) = ER!Since(s, age) \cup {Len(s) + 1}
  BY <1>1 DEF ER!Since
<1>4. Len(s) + 1 \notin ER!Since(s, age)
  BY <1>1 DEF ER!Since
<1> QED
  BY <1>2, <1>3, <1>4, CountIsNatural, FS_AddElement DEF Count

\* The ages of the occurrences a tick later.
Older(s) == [i \in 1 .. Len(s) |-> IF s[i] > Window THEN s[i] ELSE s[i] + 1]

LEMMA CountOfOlder ==
  ASSUME NEW s \in ER!Ages
  PROVE  /\ Older(s) \in ER!Ages
         /\ Count(Older(s), 0) = 0
         /\ \A age \in 0 .. Window : age # 0 => Count(Older(s), age) = Count(s, age - 1)
<1>1. /\ s \in Seq(0 .. Window + 1) /\ Len(s) \in Nat /\ DOMAIN s = 1 .. Len(s)
      /\ \A i \in 1 .. Len(s) : s[i] \in 0 .. Window + 1
  BY SequencesAre, Zenon DEF ER!Ages
<1>2. DOMAIN Older(s) = 1 .. Len(s) /\ \A i \in 1 .. Len(s) :
                     Older(s)[i] = IF s[i] > Window THEN s[i] ELSE s[i] + 1
  BY DEF Older
<1>3. Older(s) \in ER!Ages
  <2>1. \A i \in 1 .. Len(s) : Older(s)[i] \in 0 .. Window + 1
    BY <1>1, <1>2, ApiAssumption
  <2>2. Older(s) \in [1 .. Len(s) -> 0 .. Window + 1]
    BY <2>1 DEF Older
  <2> QED
    BY <1>1, <2>2, SequencesAre, Zenon DEF ER!Ages
<1>4. ER!Since(Older(s), 0) = {}
  BY <1>1, <1>2, ApiAssumption DEF ER!Since
<1>5. ASSUME NEW age \in 0 .. Window, age # 0
      PROVE  ER!Since(Older(s), age) = ER!Since(s, age - 1)
  <2>1. \A i \in 1 .. Len(s) : Older(s)[i] <= age <=> s[i] <= age - 1
    BY <1>1, <1>2, <1>5, ApiAssumption
  <2> QED
    BY <1>1, <1>2, <2>1 DEF ER!Since
<1> QED
  BY <1>3, <1>4, <1>5, FS_EmptySet DEF Count

\* The longer ago, the more occurrences.
LEMMA CountGrows ==
  ASSUME NEW s \in ER!Ages, NEW a \in Int, NEW b \in Int, a <= b
  PROVE  Count(s, a) <= Count(s, b)
<1>1. \A i \in DOMAIN s : s[i] \in Int
  BY ApiAssumption DEF ER!Ages
<1>2. ER!Since(s, a) \subseteq ER!Since(s, b)
  BY <1>1 DEF ER!Since
<1> QED
  BY <1>2, CountIsNatural, FS_Subset DEF Count

\* What the windows and what was sent must satisfy.
Windows == window \in [ER!Reporters -> [Fingerprints -> ER!Ages]]
           /\ sent \in [ER!Reporters -> [Fingerprints -> ER!Ages]]
NotMore(s, w) ==
  /\ Count(s, Window) <= Threshold
  /\ \A age \in 0 .. Window : Count(s, age) <= Count(w, age)
Sound(s, w) == \A p \in ER!Reporters, f \in Fingerprints : NotMore(s[p][f], w[p][f])

LEMMA NotMoreIs ==
  /\ ER!StormIsBounded /\ ER!SentOccurred <=> Sound(sent, window)
  /\ (ER!StormIsBounded /\ ER!SentOccurred)' <=> Sound(sent', window')
BY SameCardinality DEF ER!StormIsBounded, ER!SentOccurred, Sound, NotMore, Count, ER!Since

\* An occurrence that is sent counts, one that is not sent counts too.
LEMMA OneMoreIsNotMore ==
  ASSUME NEW s \in ER!Ages, NEW w \in ER!Ages, NotMore(s, w)
  PROVE  /\ NotMore(s, Append(w, 0))
         /\ Count(w, Window) + 1 <= Threshold => NotMore(Append(s, 0), Append(w, 0))
<1>1. Window \in Nat /\ Threshold \in Nat /\ Window \in 0 .. Window
  BY ApiAssumption
<1>2. \A age \in 0 .. Window :
        /\ Count(Append(w, 0), age) = Count(w, age) + 1
        /\ Count(Append(s, 0), age) = Count(s, age) + 1
        /\ Count(w, age) \in Nat /\ Count(s, age) \in Nat /\ Count(s, age) <= Count(w, age)
  BY <1>1, CountOfOneMore, CountIsNatural DEF NotMore
<1> QED
  BY <1>1, <1>2 DEF NotMore

\* A tick later no more was sent either.
LEMMA OlderIsNotMore ==
  ASSUME NEW s \in ER!Ages, NEW w \in ER!Ages, NotMore(s, w)
  PROVE  NotMore(Older(s), Older(w))
<1>1. Window \in Nat /\ Threshold \in Nat /\ Count(s, Window) <= Threshold /\ Count(s, Window) \in Nat
  BY ApiAssumption, CountIsNatural DEF NotMore
<1>2. \A age \in 0 .. Window : age # 0 => /\ Count(Older(s), age) = Count(s, age - 1)
                                         /\ Count(Older(w), age) = Count(w, age - 1)
  BY CountOfOlder
<1>3. Count(Older(s), 0) = 0 /\ Count(Older(w), 0) = 0
  BY CountOfOlder
<1>4. ASSUME NEW age \in 0 .. Window
      PROVE  Count(Older(s), age) <= Count(Older(w), age)
  <2>1. CASE age = 0
    BY <1>3, <2>1
  <2>2. CASE age # 0
    <3>1. age - 1 \in 0 .. Window
      BY <1>1, <2>2
    <3> QED
      BY <1>2, <2>2, <3>1 DEF NotMore
  <2> QED
    BY <2>1, <2>2
<1>5. Count(Older(s), Window) <= Threshold
  <2>1. CASE Window = 0
    BY <1>1, <1>3, <2>1
  <2>2. CASE Window # 0
    <3>1. Count(Older(s), Window) = Count(s, Window - 1)
      BY <1>1, <1>2, <2>2
    <3>2. Count(s, Window - 1) <= Count(s, Window) /\ Count(s, Window - 1) \in Nat
      BY <1>1, CountGrows, CountIsNatural
    <3> QED
      BY <1>1, <3>1, <3>2
  <2> QED
    BY <2>1, <2>2
<1> QED
  BY <1>4, <1>5 DEF NotMore

\* What is sent is bounded, and the windows keep their types, in every step.
LEMMA WindowStep ==
  ASSUME ER!IInv, ER!Next
  PROVE  (Windows /\ ER!StormIsBounded /\ ER!SentOccurred)'
<1>1. Windows /\ Sound(sent, window)
  BY NotMoreIs DEF ER!IInv, ER!ErrorsAreReported, ER!TypeOK, Windows
<1> SUFFICES /\ window' \in [ER!Reporters -> [Fingerprints -> ER!Ages]]
             /\ sent' \in [ER!Reporters -> [Fingerprints -> ER!Ages]]
             /\ Sound(sent', window')
  BY NotMoreIs DEF Windows
<1>2. CASE UNCHANGED <<window, sent>>
  BY <1>1, <1>2 DEF Windows
<1>3. ASSUME NEW p \in ER!Reporters, ER!CheckStorm(p)
      PROVE  /\ window' \in [ER!Reporters -> [Fingerprints -> ER!Ages]]
             /\ sent' \in [ER!Reporters -> [Fingerprints -> ER!Ages]]
             /\ Sound(sent', window')
  <2>1. reportPc[p].fp \in Fingerprints
    BY DEF ER!IInv, ER!TypeOK
  <2>2. PICK f \in Fingerprints :
          /\ window' = [window EXCEPT ![p][f] = Append(@, 0)]
          /\ (ER!UnderCap(p, f) /\ sent' = [sent EXCEPT ![p][f] = Append(@, 0)]) \/ sent' = sent
    BY <1>3, <2>1 DEF ER!CheckStorm
  <2>3. window[p][f] \in ER!Ages /\ sent[p][f] \in ER!Ages /\ NotMore(sent[p][f], window[p][f])
    BY <1>1 DEF Windows, Sound
  <2>4. /\ Append(window[p][f], 0) \in ER!Ages /\ Append(sent[p][f], 0) \in ER!Ages
    BY <2>3, CountOfOneMore
  <2>5. /\ window' \in [ER!Reporters -> [Fingerprints -> ER!Ages]]
        /\ window'[p][f] = Append(window[p][f], 0)
        /\ \A q \in ER!Reporters, g \in Fingerprints : q # p \/ g # f => window'[q][g] = window[q][g]
    BY <1>1, <2>2, <2>4 DEF Windows
  <2>6. CASE sent' = sent
    <3>1. NotMore(sent'[p][f], window'[p][f])
      BY <2>3, <2>5, <2>6, OneMoreIsNotMore
    <3> QED
      BY <1>1, <2>5, <2>6, <3>1 DEF Windows, Sound
  <2>7. CASE ER!UnderCap(p, f) /\ sent' = [sent EXCEPT ![p][f] = Append(@, 0)]
    <3>1. /\ sent' \in [ER!Reporters -> [Fingerprints -> ER!Ages]]
          /\ sent'[p][f] = Append(sent[p][f], 0)
          /\ \A q \in ER!Reporters, g \in Fingerprints : q # p \/ g # f => sent'[q][g] = sent[q][g]
      BY <1>1, <2>7, <2>4 DEF Windows
    <3>2. Count(window[p][f], Window) + 1 <= Threshold
      BY <2>7, SameCardinality DEF ER!UnderCap, ER!Recent, Count
    <3>3. NotMore(sent'[p][f], window'[p][f])
      BY <2>3, <2>5, <3>1, <3>2, OneMoreIsNotMore
    <3> QED
      BY <1>1, <2>5, <3>1, <3>3 DEF Sound
  <2> QED
    BY <2>2, <2>6, <2>7
<1>4. CASE ER!Tick
  <2>1. /\ window' = [p \in ER!Reporters |-> [f \in Fingerprints |-> Older(window[p][f])]]
        /\ sent' = [p \in ER!Reporters |-> [f \in Fingerprints |-> Older(sent[p][f])]]
    BY <1>4 DEF ER!Tick, Older
  <2>2. ASSUME NEW p \in ER!Reporters, NEW f \in Fingerprints
        PROVE  /\ Older(window[p][f]) \in ER!Ages /\ Older(sent[p][f]) \in ER!Ages
               /\ NotMore(Older(sent[p][f]), Older(window[p][f]))
    BY <1>1, CountOfOlder, OlderIsNotMore DEF Windows, Sound
  <2> QED
    BY <2>1, <2>2 DEF Sound
<1>5. ASSUME NEW p \in ER!Reporters, ER!Restart(p)
      PROVE  /\ window' \in [ER!Reporters -> [Fingerprints -> ER!Ages]]
             /\ sent' \in [ER!Reporters -> [Fingerprints -> ER!Ages]]
             /\ Sound(sent', window')
  <2>1. /\ window' = [window EXCEPT ![p] = [f \in Fingerprints |-> <<>>]]
        /\ sent' = [sent EXCEPT ![p] = [f \in Fingerprints |-> <<>>]]
    BY <1>5 DEF ER!Restart
  <2>2. <<>> \in ER!Ages
    BY DEF ER!Ages
  <2>3. NotMore(<<>>, <<>>)
    BY CountOfNone, ApiAssumption DEF NotMore
  <2> QED
    BY <1>1, <2>1, <2>2, <2>3 DEF Windows, Sound
<1> QED
  BY <1>2, <1>3, <1>4, <1>5 DEF ER!Next, ER!Enqueue, ER!CloseIssue, ER!Report, ER!Dequeue, ER!Search, ER!Post, ER!Persist

\* Where the reports stand, what is queued and what is open keep their types.
LEMMA PlacesStep ==
  ASSUME ER!IInv, ER!Next
  PROVE  /\ reportPc' \in [ER!Reporters -> [at : ER!Steps, fp : Fingerprints]]
         /\ queue' \in Seq(Fingerprints) /\ Len(queue') <= QueueCap
         /\ open' \in [Fingerprints -> Nat] /\ doubled' \subseteq Fingerprints
<1>1. /\ reportPc \in [ER!Reporters -> [at : ER!Steps, fp : Fingerprints]]
      /\ queue \in Seq(Fingerprints) /\ Len(queue) <= QueueCap
      /\ open \in [Fingerprints -> Nat] /\ doubled \subseteq Fingerprints
      /\ QueueCap \in Nat
  BY ApiAssumption DEF ER!IInv, ER!TypeOK
<1>2. ER!NoFp \in Fingerprints /\ ER!Idle \in [at : ER!Steps, fp : Fingerprints]
  BY ApiAssumption DEF ER!NoFp, ER!Idle, ER!Steps
<1>3. reportPc' \in [ER!Reporters -> [at : ER!Steps, fp : Fingerprints]]
  <2>1. ASSUME NEW p \in ER!Reporters, NEW at \in ER!Steps, ER!Go(p, at)
        PROVE  reportPc' \in [ER!Reporters -> [at : ER!Steps, fp : Fingerprints]]
    <3>1. [reportPc[p] EXCEPT !.at = at] \in [at : ER!Steps, fp : Fingerprints]
      BY <1>1
    <3> QED
      BY <1>1, <2>1, <3>1 DEF ER!Go
  <2>2. ASSUME NEW p \in ER!Reporters, NEW f \in Fingerprints,
               reportPc' = [reportPc EXCEPT ![p] = [at |-> "captured", fp |-> f]]
        PROVE  reportPc' \in [ER!Reporters -> [at : ER!Steps, fp : Fingerprints]]
    BY <1>1, <2>2 DEF ER!Steps
  <2>3. ASSUME NEW p \in ER!Reporters, ER!CheckStorm(p) \/ ER!Search(p) \/ ER!Post(p)
        PROVE  reportPc' \in [ER!Reporters -> [at : ER!Steps, fp : Fingerprints]]
    <3>1. \E at \in ER!Steps : ER!Go(p, at)
      BY <2>3 DEF ER!CheckStorm, ER!Search, ER!Post, ER!Steps
    <3> QED
      BY <2>1, <3>1, ZenonT(30)
  <2>4. ASSUME NEW p \in ER!Reporters, ER!Persist(p) \/ ER!Restart(p)
        PROVE  reportPc' \in [ER!Reporters -> [at : ER!Steps, fp : Fingerprints]]
    BY <1>1, <1>2, <2>4 DEF ER!Persist, ER!Restart
  <2>5. ASSUME NEW w \in ReportWorkers, NEW f \in Fingerprints, ER!Report(w, f)
        PROVE  reportPc' \in [ER!Reporters -> [at : ER!Steps, fp : Fingerprints]]
    BY <2>2, <2>5 DEF ER!Report, ER!Reporters
  <2>6. CASE ER!Dequeue
    <3>1. Head(queue) \in Fingerprints
      BY <1>1, <2>6 DEF ER!Dequeue
    <3> QED
      BY <2>2, <2>6, <3>1 DEF ER!Dequeue, ER!Reporters
  <2>7. CASE UNCHANGED reportPc
    BY <1>1, <2>7, Zenon
  <2> QED
    BY <2>3, <2>4, <2>5, <2>6, <2>7 DEF ER!Next, ER!Enqueue, ER!CloseIssue, ER!Tick
<1>4. queue' \in Seq(Fingerprints) /\ Len(queue') <= QueueCap
  <2>1. ASSUME NEW f \in Fingerprints, ER!Enqueue(f)
        PROVE  queue' \in Seq(Fingerprints) /\ Len(queue') <= QueueCap
    <3>1. Append(queue, f) \in Seq(Fingerprints) /\ Len(Append(queue, f)) = Len(queue) + 1 /\ Len(queue) \in Nat
      BY <1>1
    <3> QED
      <4>1. CASE Len(queue) < QueueCap /\ queue' = Append(queue, f)
        BY <1>1, <3>1, <4>1
      <4>2. CASE queue' = queue
        BY <1>1, <4>2, Zenon
      <4> QED
        BY <2>1, <4>1, <4>2 DEF ER!Enqueue
  <2>2. CASE ER!Dequeue
    BY <1>1, <2>2 DEF ER!Dequeue
  <2>3. CASE queue' \in {queue, <<>>}
    <3>1. <<>> \in Seq(Fingerprints) /\ Len(<<>>) = 0
      OBVIOUS
    <3> QED
      <4>1. CASE queue' = queue
        BY <1>1, <4>1, Zenon
      <4>2. CASE queue' = <<>>
        BY <1>1, <3>1, <4>2
      <4> QED
        BY <2>3, <4>1, <4>2
  <2> QED
    BY <2>1, <2>2, <2>3, Zenon DEF ER!Next, ER!CloseIssue, ER!Report, ER!CheckStorm, ER!Search, ER!Post, ER!Persist,
       ER!Restart, ER!Tick
<1>5. doubled' \subseteq Fingerprints
  <2>1. ASSUME NEW p \in ER!Reporters
        PROVE  ER!Overlap(p) \subseteq Fingerprints /\ reportPc[p].fp \in Fingerprints
    BY <1>1 DEF ER!Overlap
  <2> QED
    BY <1>1, <2>1, ZenonT(30) DEF ER!Next, ER!Enqueue, ER!CloseIssue, ER!Report, ER!Dequeue, ER!CheckStorm, ER!Search, ER!Post,
       ER!Persist, ER!Restart, ER!Tick
<1>6. open' \in [Fingerprints -> Nat]
  <2>1. ASSUME NEW p \in ER!Reporters, ER!Post(p)
        PROVE  open' \in [Fingerprints -> Nat]
    BY <1>1, <2>1 DEF ER!Post
  <2>2. ASSUME NEW f \in Fingerprints, ER!CloseIssue(f)
        PROVE  open' \in [Fingerprints -> Nat]
    BY <1>1, <2>2 DEF ER!CloseIssue
  <2>3. CASE UNCHANGED open
    BY <1>1, <2>3
  <2> QED
    BY <2>1, <2>2, <2>3, Zenon DEF ER!Next, ER!Enqueue, ER!Report, ER!Dequeue, ER!CheckStorm, ER!Search, ER!Persist,
       ER!Restart, ER!Tick
<1> QED
  BY <1>3, <1>4, <1>5, <1>6

\* Who is on its way with an error that only one at a time may send.
Sends(p, f) == reportPc[p].at \in {"open", "comment"} /\ reportPc[p].fp = f

LEMMA SenderIs ==
  ASSUME NEW f
  PROVE  ER!OneSender(f) <=>
           /\ \A p, q \in ER!Reporters : Sends(p, f) /\ Sends(q, f) => p = q
           /\ \A p \in ER!Reporters : Sends(p, f) /\ reportPc[p].at = "open" => open[f] = 0
BY DEF ER!OneSender, ER!Sending, Sends

\* An error has one sender and one issue, as long as no search failed and no two
\* overlapped.
LEMMA SenderStep ==
  ASSUME ER!IInv, ER!Next, NEW f \in Fingerprints \ doubled'
  PROVE  ER!OneSender(f)' /\ open'[f] <= 1
<1>1. /\ reportPc \in [ER!Reporters -> [at : ER!Steps, fp : Fingerprints]]
      /\ open \in [Fingerprints -> Nat]
  BY Zenon DEF ER!IInv, ER!TypeOK
<1>2. doubled \subseteq doubled'
  BY Zenon DEF ER!Next, ER!Enqueue, ER!CloseIssue, ER!Report, ER!Dequeue, ER!CheckStorm, ER!Search, ER!Post,
     ER!Persist, ER!Restart, ER!Tick
<1>3. /\ \A p, q \in ER!Reporters : Sends(p, f) /\ Sends(q, f) => p = q
      /\ \A p \in ER!Reporters : Sends(p, f) /\ reportPc[p].at = "open" => open[f] = 0
      /\ open[f] <= 1 /\ open[f] \in Nat
  BY <1>1, <1>2, SenderIs DEF ER!IInv, ER!ErrorsAreReported, ER!OneIssuePerError
<1> SUFFICES /\ \A p, q \in ER!Reporters : Sends(p, f)' /\ Sends(q, f)' => p = q
             /\ \A p \in ER!Reporters : Sends(p, f)' /\ reportPc'[p].at = "open" => open'[f] = 0
             /\ open'[f] <= 1
  BY DEF ER!OneSender, ER!Sending, Sends
<1>4. ASSUME NEW p \in ER!Reporters, ER!Search(p)
      PROVE  /\ \A q, r \in ER!Reporters : Sends(q, f)' /\ Sends(r, f)' => q = r
             /\ \A q \in ER!Reporters : Sends(q, f)' /\ reportPc'[q].at = "open" => open'[f] = 0
             /\ open'[f] <= 1
  <2>1. /\ \A q \in ER!Reporters \ {p} : reportPc'[q] = reportPc[q]
        /\ reportPc'[p].fp = reportPc[p].fp /\ open' = open
    BY <1>1, <1>4 DEF ER!Search, ER!Go
  <2>2. CASE reportPc[p].fp # f
    BY <1>3, <2>1, <2>2 DEF Sends
  <2>3. CASE reportPc[p].fp = f
    <3>1. f \notin ER!Overlap(p) /\ (reportPc'[p].at = "open" => open[f] = 0)
      BY <1>1, <1>4, <2>3 DEF ER!Search, ER!Go
    <3>2. \A q \in ER!Reporters \ {p} : ~Sends(q, f)
      BY <2>3, <3>1 DEF ER!Overlap, Sends
    <3> QED
      BY <1>3, <2>1, <3>1, <3>2 DEF Sends
  <2> QED
    BY <2>2, <2>3
<1>5. ASSUME NEW p \in ER!Reporters, ER!Post(p)
      PROVE  /\ \A q, r \in ER!Reporters : Sends(q, f)' /\ Sends(r, f)' => q = r
             /\ \A q \in ER!Reporters : Sends(q, f)' /\ reportPc'[q].at = "open" => open'[f] = 0
             /\ open'[f] <= 1
  <2>1. \A q \in ER!Reporters : Sends(q, f)' => q # p /\ Sends(q, f) /\ reportPc'[q] = reportPc[q]
    BY <1>1, <1>5 DEF ER!Post, ER!Go, Sends
  <2>2. reportPc[p].fp # f => open'[f] = open[f]
    BY <1>1, <1>5 DEF ER!Post
  <2>3. reportPc[p].fp = f => Sends(p, f) /\ (open'[f] = open[f] \/ (open[f] = 0 /\ open'[f] = 1))
    BY <1>1, <1>3, <1>5 DEF ER!Post, Sends
  <2> QED
    BY <1>3, <2>1, <2>2, <2>3
<1>6. ASSUME \A q \in ER!Reporters : Sends(q, f)' => Sends(q, f) /\ reportPc'[q] = reportPc[q], open'[f] = open[f]
      PROVE  /\ \A q, r \in ER!Reporters : Sends(q, f)' /\ Sends(r, f)' => q = r
             /\ \A q \in ER!Reporters : Sends(q, f)' /\ reportPc'[q].at = "open" => open'[f] = 0
             /\ open'[f] <= 1
  BY <1>3, <1>6
<1>7. ASSUME NEW g \in Fingerprints, ER!CloseIssue(g)
      PROVE  /\ \A q, r \in ER!Reporters : Sends(q, f)' /\ Sends(r, f)' => q = r
             /\ \A q \in ER!Reporters : Sends(q, f)' /\ reportPc'[q].at = "open" => open'[f] = 0
             /\ open'[f] <= 1
  BY <1>1, <1>3, <1>7 DEF ER!CloseIssue, Sends
<1>8. ASSUME NEW p \in ER!Reporters, ER!CheckStorm(p) \/ ER!Persist(p) \/ ER!Restart(p)
      PROVE  (\A q \in ER!Reporters : Sends(q, f)' => Sends(q, f) /\ reportPc'[q] = reportPc[q]) /\ open'[f] = open[f]
  <2>1. /\ \A q \in ER!Reporters \ {p} : reportPc'[q] = reportPc[q]
        /\ reportPc'[p].at \in {"idle", "search", "record"} /\ open' = open
    <3>1. CASE ER!CheckStorm(p)
      BY <1>1, <3>1 DEF ER!CheckStorm, ER!Go
    <3>2. CASE ER!Persist(p)
      BY <1>1, <3>2 DEF ER!Persist, ER!Idle
    <3>3. CASE ER!Restart(p)
      BY <1>1, <3>3 DEF ER!Restart, ER!Idle
    <3> QED
      BY <1>8, <3>1, <3>2, <3>3
  <2> QED
    BY <2>1 DEF Sends
<1>9. CASE ER!Dequeue \/ \E w \in ReportWorkers, g \in Fingerprints : ER!Report(w, g)
  <2>1. \A q \in ER!Reporters : Sends(q, f)' => Sends(q, f) /\ reportPc'[q] = reportPc[q]
    BY <1>1, <1>9 DEF ER!Dequeue, ER!Report, ER!Reporters, Sends
  <2>2. open' = open
    BY <1>9 DEF ER!Dequeue, ER!Report
  <2> QED
    BY <1>6, <2>1, <2>2
<1>10. CASE ER!Tick \/ \E g \in Fingerprints : ER!Enqueue(g)
  <2>1. UNCHANGED <<reportPc, open>>
    BY <1>10 DEF ER!Tick, ER!Enqueue
  <2> QED
    BY <1>6, <2>1 DEF Sends
<1> QED
  BY <1>4, <1>5, <1>6, <1>7, <1>8, <1>9, <1>10 DEF ER!Next

\* The reports that are on their way.
OnTheWay == {p \in ER!Reporters : ER!Busy(p)}

LEMMA LedgerIs ==
  /\ ER!EveryErrorIsRecorded <=> captured = Len(queue) + Cardinality(OnTheWay) + reportRows + unrecorded
  /\ ER!EveryErrorIsRecorded' <=> captured' = Len(queue') + Cardinality(OnTheWay') + reportRows' + unrecorded'
BY SameCardinality DEF ER!EveryErrorIsRecorded, OnTheWay

\* Who gets busy is one more, who is through is one less.
LEMMA Busyness ==
  ASSUME IsFiniteSet(ER!Reporters), NEW p \in ER!Reporters,
         \A q \in ER!Reporters \ {p} : ER!Busy(q)' <=> ER!Busy(q)
  PROVE  /\ Cardinality(OnTheWay) \in Nat /\ Cardinality(OnTheWay') \in Nat
         /\ ER!Busy(p) /\ ER!Busy(p)' => Cardinality(OnTheWay') = Cardinality(OnTheWay)
         /\ ~ER!Busy(p) /\ ~ER!Busy(p)' => Cardinality(OnTheWay') = Cardinality(OnTheWay)
         /\ ~ER!Busy(p) /\ ER!Busy(p)' => Cardinality(OnTheWay') = Cardinality(OnTheWay) + 1
         /\ ER!Busy(p) /\ ~ER!Busy(p)' => Cardinality(OnTheWay') = Cardinality(OnTheWay) - 1
<1>1. IsFiniteSet(OnTheWay) /\ IsFiniteSet(OnTheWay')
  BY FS_Subset DEF OnTheWay
<1>2. Cardinality(OnTheWay) \in Nat /\ Cardinality(OnTheWay') \in Nat
  BY <1>1, FS_CardinalityType
<1>3. (ER!Busy(p)' <=> ER!Busy(p)) => OnTheWay' = OnTheWay
  BY DEF OnTheWay
<1>4. ~ER!Busy(p) /\ ER!Busy(p)' => OnTheWay' = OnTheWay \cup {p} /\ p \notin OnTheWay
  BY DEF OnTheWay
<1>5. ER!Busy(p) /\ ~ER!Busy(p)' => OnTheWay' = OnTheWay \ {p} /\ p \in OnTheWay
  BY DEF OnTheWay
<1>6. Cardinality(OnTheWay \cup {p}) = IF p \in OnTheWay THEN Cardinality(OnTheWay) ELSE Cardinality(OnTheWay) + 1
  BY <1>1, FS_AddElement
<1>7. Cardinality(OnTheWay \ {p}) = IF p \in OnTheWay THEN Cardinality(OnTheWay) - 1 ELSE Cardinality(OnTheWay)
  BY <1>1, FS_RemoveElement
<1> QED
  BY <1>2, <1>3, <1>4, <1>5, <1>6, <1>7

\* Nothing captured is forgotten, in any step.
LEMMA LedgerStep ==
  ASSUME ER!IInv, ER!Next
  PROVE  /\ ER!EveryErrorIsRecorded'
         /\ captured' \in 0 .. MaxReports /\ reportRows' \in 0 .. MaxReports /\ unrecorded' \in 0 .. MaxReports
         /\ ticks' \in 0 .. MaxTicks /\ upsets' \in 0 .. MaxUpsets
<1>1. /\ reportPc \in [ER!Reporters -> [at : ER!Steps, fp : Fingerprints]]
      /\ queue \in Seq(Fingerprints) /\ queue' \in Seq(Fingerprints)
      /\ captured \in 0 .. MaxReports /\ reportRows \in 0 .. MaxReports /\ unrecorded \in 0 .. MaxReports
      /\ ticks \in 0 .. MaxTicks /\ upsets \in 0 .. MaxUpsets
      /\ MaxReports \in Nat /\ MaxTicks \in Nat /\ MaxUpsets \in Nat /\ Len(queue) \in Nat /\ Len(queue') \in Nat
  BY PlacesStep, ApiAssumption, LenProperties, Zenon DEF ER!IInv, ER!TypeOK
<1>2. captured = Len(queue) + Cardinality(OnTheWay) + reportRows + unrecorded
  BY LedgerIs DEF ER!IInv, ER!ErrorsAreReported
<1>3. IsFiniteSet(ER!Reporters)
  BY ApiAssumption, FS_AddElement DEF ER!Reporters
<1>4. Cardinality(OnTheWay) \in Nat
  BY <1>3, FS_Subset, FS_CardinalityType DEF OnTheWay
<1>5. Cardinality(OnTheWay') \in Nat
  BY <1>3, FS_Subset, FS_CardinalityType DEF OnTheWay
<1>6. Api \in ER!Reporters /\ ReportWorkers \subseteq ER!Reporters
  BY DEF ER!Reporters
\* The values before and after, by names of their own for the arithmetic.
<1>7. PICK waits, busy, made, lost, caught, time, bad :
        /\ waits = Len(queue') /\ busy = Cardinality(OnTheWay') /\ made = reportRows' /\ lost = unrecorded'
        /\ caught = captured' /\ time = ticks' /\ bad = upsets'
  OBVIOUS
<1>8. PICK w0, b0, m0, l0, c0, t0, u0 :
        /\ w0 = Len(queue) /\ b0 = Cardinality(OnTheWay) /\ m0 = reportRows /\ l0 = unrecorded
        /\ c0 = captured /\ t0 = ticks /\ u0 = upsets
  OBVIOUS
<1>9. /\ c0 = w0 + b0 + m0 + l0 /\ w0 \in Nat /\ b0 \in Nat /\ m0 \in Nat /\ l0 \in Nat
      /\ c0 \in 0 .. MaxReports /\ t0 \in 0 .. MaxTicks /\ u0 \in 0 .. MaxUpsets
      /\ MaxReports \in Nat /\ MaxTicks \in Nat /\ MaxUpsets \in Nat
  BY <1>1, <1>2, <1>4, <1>8
<1>10. waits \in Nat /\ busy \in Nat
  BY <1>1, <1>5, <1>7
<1> DEFINE Balanced == /\ caught = waits + busy + made + lost
                       /\ caught \in 0 .. MaxReports /\ made \in Nat /\ lost \in Nat
                       /\ time \in 0 .. MaxTicks /\ bad \in 0 .. MaxUpsets
<1> SUFFICES Balanced
  <2>1. ASSUME Balanced
        PROVE  made \in 0 .. MaxReports /\ lost \in 0 .. MaxReports
    BY <1>9, <1>10, <2>1
  <2>2. Balanced => ER!EveryErrorIsRecorded'
    BY <1>7, LedgerIs, Zenon
  <2> QED
    BY <1>7, <2>1, <2>2, Zenon
<1>11. reportPc' = reportPc => OnTheWay' = OnTheWay
  BY DEF OnTheWay, ER!Busy
<1>12. ASSUME NEW f \in Fingerprints, ER!Enqueue(f)
      PROVE  Balanced
  <2>1. Len(Append(queue, f)) = Len(queue) + 1
    BY <1>1
  <2>2. /\ (waits = w0 + 1 /\ lost = l0) \/ (waits = w0 /\ lost = l0 + 1)
        /\ c0 < MaxReports /\ caught = c0 + 1 /\ busy = b0
        /\ made = m0 /\ time = t0 /\ bad = u0
    BY <1>7, <1>8, <1>11, <1>12, <2>1 DEF ER!Enqueue
  <2> QED
    BY <1>9, <2>2
<1>13. ASSUME NEW f \in Fingerprints, ER!CloseIssue(f)
       PROVE  Balanced
  <2>1. /\ waits = w0 /\ busy = b0 /\ made = m0 /\ lost = l0
        /\ caught = c0 /\ time = t0 /\ u0 < MaxUpsets /\ bad = u0 + 1
    BY <1>7, <1>8, <1>11, <1>13 DEF ER!CloseIssue, ER!Upset
  <2> QED
    BY <1>9, <2>1
<1>14. ASSUME NEW w \in ReportWorkers, NEW f \in Fingerprints, ER!Report(w, f)
       PROVE  Balanced
  <2>1. w \in ER!Reporters /\ ~ER!Busy(w) /\ ER!Busy(w)' /\ \A q \in ER!Reporters \ {w} : ER!Busy(q)' <=> ER!Busy(q)
    BY <1>1, <1>6, <1>14 DEF ER!Report, ER!Busy
  <2>2. /\ waits = w0 /\ busy = b0 + 1 /\ made = m0 /\ lost = l0
        /\ c0 < MaxReports /\ caught = c0 + 1 /\ time = t0 /\ bad = u0
    BY <1>3, <1>7, <1>8, <1>14, <2>1, Busyness DEF ER!Report
  <2> QED
    BY <1>9, <2>2
<1>15. CASE ER!Dequeue
  <2>1. ~ER!Busy(Api) /\ ER!Busy(Api)' /\ \A q \in ER!Reporters \ {Api} : ER!Busy(q)' <=> ER!Busy(q)
    BY <1>1, <1>6, <1>15 DEF ER!Dequeue, ER!Busy
  <2>2. Len(Tail(queue)) = Len(queue) - 1
    BY <1>1, <1>15 DEF ER!Dequeue
  <2>3. /\ waits = w0 - 1 /\ busy = b0 + 1 /\ made = m0 /\ lost = l0
        /\ caught = c0 /\ time = t0 /\ bad = u0
    BY <1>3, <1>6, <1>7, <1>8, <1>15, <2>1, <2>2, Busyness DEF ER!Dequeue
  <2> QED
    BY <1>9, <2>3
<1>16. ASSUME NEW p \in ER!Reporters, ER!CheckStorm(p) \/ ER!Search(p) \/ ER!Post(p)
       PROVE  Balanced
  <2>1. ER!Busy(p) /\ ER!Busy(p)' /\ \A q \in ER!Reporters \ {p} : ER!Busy(q)' <=> ER!Busy(q)
    BY <1>1, <1>16 DEF ER!CheckStorm, ER!Search, ER!Post, ER!Go, ER!Busy
  <2>2. busy = b0
    BY <1>3, <1>7, <1>8, <2>1, Busyness
  <2>3. /\ waits = w0 /\ made = m0 /\ lost = l0 /\ caught = c0 /\ time = t0
        /\ bad = u0 \/ (u0 < MaxUpsets /\ bad = u0 + 1)
    BY <1>7, <1>8, <1>16 DEF ER!CheckStorm, ER!Search, ER!Post, ER!Upset
  <2> QED
    BY <1>9, <2>2, <2>3
<1>17. ASSUME NEW p \in ER!Reporters, ER!Persist(p)
       PROVE  Balanced
  <2>1. ER!Busy(p) /\ ~ER!Busy(p)' /\ \A q \in ER!Reporters \ {p} : ER!Busy(q)' <=> ER!Busy(q)
    BY <1>1, <1>17 DEF ER!Persist, ER!Idle, ER!Busy
  <2>2. busy = b0 - 1
    BY <1>3, <1>7, <1>8, <2>1, Busyness
  <2>3. /\ \/ made = m0 + 1 /\ lost = l0 /\ bad = u0
           \/ made = m0 /\ lost = l0 + 1 /\ u0 < MaxUpsets /\ bad = u0 + 1
        /\ waits = w0 /\ caught = c0 /\ time = t0
    BY <1>7, <1>8, <1>17 DEF ER!Persist, ER!Upset
  <2> QED
    BY <1>9, <2>2, <2>3
<1>18. ASSUME NEW p \in ER!Reporters, ER!Restart(p)
       PROVE  Balanced
  <2> DEFINE queued == IF p = Api THEN Len(queue) ELSE 0
             running == IF ER!Busy(p) THEN 1 ELSE 0
  <2>1. ~ER!Busy(p)' /\ \A q \in ER!Reporters \ {p} : ER!Busy(q)' <=> ER!Busy(q)
    BY <1>1, <1>18 DEF ER!Restart, ER!Idle, ER!Busy
  <2>2. busy = b0 - running
    BY <1>3, <1>4, <1>7, <1>8, <2>1, Busyness
  <2>3. waits = w0 - queued
    BY <1>1, <1>7, <1>8, <1>18 DEF ER!Restart
  <2>4. /\ lost = l0 + (queued + running) /\ u0 < MaxUpsets /\ bad = u0 + 1
        /\ caught = c0 /\ made = m0 /\ time = t0
    BY <1>7, <1>8, <1>18, Zenon DEF ER!Restart, ER!Upset
  <2>5. queued \in Nat /\ running \in Nat
    BY <1>1
  <2> HIDE DEF queued, running
  <2> QED
    BY <1>9, <2>2, <2>3, <2>4, <2>5
<1>19. CASE ER!Tick
  <2>1. /\ waits = w0 /\ busy = b0 /\ made = m0 /\ lost = l0
        /\ caught = c0 /\ bad = u0 /\ t0 < MaxTicks /\ time = t0 + 1
    BY <1>7, <1>8, <1>11, <1>19 DEF ER!Tick
  <2> QED
    BY <1>9, <2>1
<1> QED
  BY <1>12, <1>13, <1>14, <1>15, <1>16, <1>17, <1>18, <1>19, Zenon DEF ER!Next

\* The initial states satisfy the inductive invariant of the reports.
LEMMA ReportsInit == ER!Init => ER!IInv
<1> SUFFICES ASSUME ER!Init PROVE ER!IInv
  OBVIOUS
<1>1. ER!NoFp \in Fingerprints /\ ER!Idle \in [at : ER!Steps, fp : Fingerprints] /\ ER!Idle.at = "idle"
  BY ApiAssumption DEF ER!NoFp, ER!Idle, ER!Steps
<1>2. <<>> \in ER!Ages
  BY DEF ER!Ages
<1>3. window \in [ER!Reporters -> [Fingerprints -> ER!Ages]] /\ sent = window
  BY <1>2 DEF ER!Init
<1>4. reportPc \in [ER!Reporters -> [at : ER!Steps, fp : Fingerprints]]
  BY <1>1 DEF ER!Init
<1>5. ER!TypeOK
  <2>1. <<>> \in Seq(Fingerprints) /\ Len(<<>>) = 0
    OBVIOUS
  <2> QED
    BY <1>3, <1>4, <2>1, ApiAssumption DEF ER!Init, ER!TypeOK
<1>6. ER!StormIsBounded /\ ER!SentOccurred
  <2>1. Sound(sent, window)
    BY CountOfNone, ApiAssumption DEF ER!Init, Sound, NotMore
  <2> QED
    BY <2>1, NotMoreIs
<1>7. ER!EveryErrorIsRecorded
  <2>1. OnTheWay = {}
    BY <1>1 DEF ER!Init, OnTheWay, ER!Busy
  <2> QED
    BY <2>1, LedgerIs, FS_EmptySet DEF ER!Init
<1>8. ER!OneIssuePerError /\ \A f \in Fingerprints \ doubled : ER!OneSender(f)
  BY <1>1 DEF ER!Init, ER!OneIssuePerError, ER!OneSender, ER!Sending
<1> QED
  BY <1>5, <1>6, <1>7, <1>8 DEF ER!IInv, ER!ErrorsAreReported

\* Every step of the reports keeps their invariant.
LEMMA ReportsStep == ER!IInv /\ [ER!Next]_(ER!vars) => ER!IInv'
<1> SUFFICES ASSUME ER!IInv, [ER!Next]_(ER!vars) PROVE ER!IInv'
  OBVIOUS
<1>1. CASE ER!Next
  <2>1. (Windows /\ ER!StormIsBounded /\ ER!SentOccurred)'
    BY <1>1, WindowStep
  <2>2. ER!TypeOK'
    BY <1>1, <2>1, PlacesStep, LedgerStep, Zenon DEF ER!TypeOK, Windows
  <2>3. ER!OneIssuePerError' /\ \A f \in Fingerprints \ doubled' : ER!OneSender(f)'
    BY <1>1, SenderStep DEF ER!OneIssuePerError
  <2> QED
    BY <1>1, <2>1, <2>2, <2>3, LedgerStep DEF ER!IInv, ER!ErrorsAreReported
<1>2. CASE UNCHANGED ER!vars
  <2>1. UNCHANGED <<queue, window, reportPc, open, reportRows, captured, ticks, upsets, sent, unrecorded, doubled>>
    BY <1>2 DEF ER!vars
  <2>2. ER!TypeOK' /\ ER!OneIssuePerError' /\ \A f \in Fingerprints \ doubled' : ER!OneSender(f)'
    BY <2>1 DEF ER!IInv, ER!TypeOK, ER!ErrorsAreReported, ER!OneIssuePerError, ER!OneSender, ER!Sending
  <2>3. (ER!StormIsBounded /\ ER!SentOccurred)'
    BY <2>1, NotMoreIs, Zenon DEF ER!IInv, ER!ErrorsAreReported
  <2>4. ER!EveryErrorIsRecorded'
    <3>1. OnTheWay' = OnTheWay
      BY <2>1 DEF OnTheWay, ER!Busy
    <3> QED
      BY <2>1, <3>1, LedgerIs DEF ER!IInv, ER!ErrorsAreReported
  <2> QED
    BY <2>2, <2>3, <2>4 DEF ER!IInv, ER!ErrorsAreReported
<1> QED
  BY <1>1, <1>2

-----------------------------------------------------------------------------
(* Skill calls and their traces                                            *)

\* The initial states satisfy the inductive invariant of the calls.
LEMMA CallsInit == HS!Init => HS!IInv
<1> SUFFICES ASSUME HS!Init PROVE HS!IInv
  OBVIOUS
<1>1. HS!TypeOK
  BY ApiAssumption DEF HS!Init, HS!TypeOK, HS!Phases, HS!Replies
<1>2. \A c \in Calls : HS!CallPhase(c) /\ call[c].reply = "pending" /\ HS!RowsOf(c) = {}
  BY ApiAssumption DEF HS!Init, HS!CallPhase, HS!RowsOf
<1> QED
  BY <1>1, <1>2 DEF HS!IInv, HS!TracedOnce

\* What is known of a call.
CallRow == [skill : Skills, phase : HS!Phases, posts : 0 .. MaxAttempts,
            sha : 0 .. MaxEdits + 1, reply : HS!Replies]

\* One call changes, and keeps its type.
OneChange(c, phase, posts, reply) ==
  /\ \A d \in Calls \ {c} : call'[d] = call[d]
  /\ call'[c].phase = phase /\ call'[c].posts = posts /\ call'[c].reply = reply
  /\ call' \in [Calls -> CallRow]

\* Replacing one call does so.
LEMMA CallReplaced ==
  ASSUME NEW f \in [Calls -> CallRow], NEW c \in Calls, NEW r \in CallRow
  PROVE  LET g == [f EXCEPT ![c] = r]
         IN  g \in [Calls -> CallRow] /\ g[c] = r /\ \A d \in Calls \ {c} : g[d] = f[d]
  OBVIOUS

\* A change of one call leaves the others, and the types.
LEMMA CallChanges ==
  ASSUME call \in [Calls -> CallRow], NEW c \in Calls, NEW phase \in HS!Phases,
         NEW posts \in 0 .. MaxAttempts, NEW sha \in 0 .. MaxEdits + 1, NEW reply \in HS!Replies,
         call' = [call EXCEPT ![c].phase = phase, ![c].posts = posts, ![c].sha = sha, ![c].reply = reply]
  PROVE  OneChange(c, phase, posts, reply)
<1> DEFINE r1 == [call[c] EXCEPT !.phase = phase]
           r2 == [r1 EXCEPT !.posts = posts]
           r3 == [r2 EXCEPT !.sha = sha]
           r4 == [r3 EXCEPT !.reply = reply]
<1>1. r1 \in CallRow /\ r1.phase = phase
  BY DEF CallRow
<1>2. r2 \in CallRow /\ r2.phase = phase /\ r2.posts = posts
  <2> HIDE DEF r1
  <2> QED
    BY <1>1 DEF CallRow
<1>3. r3 \in CallRow /\ r3.phase = phase /\ r3.posts = posts
  <2> HIDE DEF r2
  <2> QED
    BY <1>2 DEF CallRow
<1>4. r4 \in CallRow /\ r4.phase = phase /\ r4.posts = posts /\ r4.reply = reply
  <2> HIDE DEF r3
  <2> QED
    BY <1>3 DEF CallRow
<1>5. call' = [call EXCEPT ![c] = r4]
  OBVIOUS
<1> QED
  BY <1>4, <1>5, CallReplaced DEF OneChange

\* A call that ends on an HTTP answer or a failure leaves its row, or is one of
\* those the database refused.
LEMMA CallEnds ==
  ASSUME HS!IInv, NEW c \in Calls, NEW reply \in {"answered", "unavailable"},
         call[c].phase = "post", HS!Record(c, reply # "unavailable"),
         call' = [call EXCEPT ![c].phase = "done", ![c].posts = @ + 1, ![c].reply = reply],
         UNCHANGED <<file, edits>>
  PROVE  HS!IInv'
<1> DEFINE new == [call |-> c, skill |-> call[c].skill, sha |-> call[c].sha,
                   ok |-> reply # "unavailable", attempts |-> call[c].posts + 1]
<1>t. /\ HS!TypeOK /\ HS!CallPhase(c)
      /\ call \in [Calls -> CallRow] /\ call[c] \in CallRow
      /\ call[c].posts < MaxAttempts /\ call[c].reply = "pending" /\ MaxAttempts \in Nat
      /\ c \notin untraced
  BY ApiAssumption DEF HS!IInv, HS!TypeOK, HS!CallPhase, CallRow
<1>1. new \in HS!Row
  BY <1>t DEF HS!Row, CallRow
<1>2. /\ \A d \in Calls \ {c} : call'[d] = call[d]
      /\ call'[c].phase = "done" /\ call'[c].posts = call[c].posts + 1 /\ call'[c].reply = reply
      /\ call' \in [Calls -> CallRow]
  <2>1. call' = [call EXCEPT ![c].phase = "done", ![c].posts = call[c].posts + 1,
                             ![c].sha = call[c].sha, ![c].reply = reply]
    BY <1>t, ZenonT(30) DEF CallRow
  <2>2. /\ call[c].posts + 1 \in 0 .. MaxAttempts /\ call[c].sha \in 0 .. MaxEdits + 1
        /\ "done" \in HS!Phases /\ reply \in HS!Replies
    BY <1>t DEF CallRow, HS!Phases, HS!Replies
  <2>3. call \in [Calls -> CallRow]
    BY <1>t
  <2>4. OneChange(c, "done", call[c].posts + 1, reply)
    BY <2>1, <2>2, <2>3, CallChanges, Zenon
  <2> QED
    BY <2>4 DEF OneChange
<1>3. /\ traces' \in Seq(HS!Row) /\ untraced' \subseteq Calls
      /\ \A d \in Calls \ {c} : d \in untraced' <=> d \in untraced
  <2>1. traces \in Seq(HS!Row) /\ untraced \subseteq Calls
    BY <1>t DEF HS!TypeOK
  <2>2. CASE traces' = Append(traces, new) /\ UNCHANGED untraced
    BY <1>1, <2>1, <2>2
  <2>3. CASE untraced' = untraced \cup {c} /\ UNCHANGED traces
    BY <2>1, <2>3
  <2> QED
    BY <2>2, <2>3 DEF HS!Record
<1>4. HS!TypeOK'
  BY <1>t, <1>2, <1>3 DEF HS!TypeOK, CallRow
<1>5. \A d \in Calls : HS!CallPhase(d)'
  BY <1>2, <1>3 DEF HS!CallPhase, HS!IInv
<1>6. HS!RowsOf(c) = {}
  BY <1>t DEF HS!IInv, HS!TracedOnce
<1>7. CASE traces' = Append(traces, new) /\ untraced' = untraced
  <2> DEFINE last == Len(traces) + 1
  <2>1. /\ DOMAIN traces' = DOMAIN traces \cup {last} /\ last \notin DOMAIN traces
        /\ traces'[last] = new /\ \A i \in DOMAIN traces : traces'[i] = traces[i]
    BY <1>t, <1>7 DEF HS!TypeOK
  <2> HIDE DEF last
  <2>2. HS!RowsOf(c)' = {last}
    BY <1>6, <2>1 DEF HS!RowsOf
  <2>3. ASSUME NEW d \in Calls, d # c
        PROVE  HS!RowsOf(d)' = HS!RowsOf(d) /\ \A i \in HS!RowsOf(d) : traces'[i] = traces[i]
    BY <2>1, <2>3 DEF HS!RowsOf
  <2>4. HS!TracedOnce'
    <3> SUFFICES ASSUME NEW d \in Calls
                 PROVE  IF call'[d].reply \in {"answered", "unavailable"} /\ d \notin untraced'
                        THEN \E i \in HS!RowsOf(d)' : /\ HS!RowsOf(d)' = {i}
                               /\ traces'[i].ok = (call'[d].reply # "unavailable")
                               /\ traces'[i].attempts = call'[d].posts
                        ELSE HS!RowsOf(d)' = {}
      BY DEF HS!TracedOnce
    <3>1. CASE d = c
      BY <1>2, <1>7, <1>t, <2>1, <2>2, <3>1
    <3>2. CASE d # c
      <4>1. IF call[d].reply \in {"answered", "unavailable"} /\ d \notin untraced
            THEN \E i \in HS!RowsOf(d) : /\ HS!RowsOf(d) = {i}
                   /\ traces[i].ok = (call[d].reply # "unavailable")
                   /\ traces[i].attempts = call[d].posts
            ELSE HS!RowsOf(d) = {}
        BY DEF HS!IInv, HS!TracedOnce
      <4>2. call'[d] = call[d] /\ untraced' = untraced /\ HS!RowsOf(d)' = HS!RowsOf(d)
            /\ \A i \in HS!RowsOf(d) : traces'[i] = traces[i]
        BY <1>2, <1>7, <2>3, <3>2
      <4> QED
        BY <4>1, <4>2
    <3> QED
      BY <3>1, <3>2
  <2> QED
    BY <1>4, <1>5, <2>4 DEF HS!IInv
<1>8. CASE traces' = traces /\ untraced' = untraced \cup {c}
  <2>1. \A d \in Calls : HS!RowsOf(d)' = HS!RowsOf(d)
    BY <1>8 DEF HS!RowsOf
  <2>2. HS!TracedOnce'
    BY <1>2, <1>6, <1>8, <2>1 DEF HS!IInv, HS!TracedOnce
  <2> QED
    BY <1>4, <1>5, <2>2 DEF HS!IInv
<1> QED
  BY <1>7, <1>8 DEF HS!Record

\* A call that goes on, or ends without having got an answer, leaves no row.
LEMMA CallLeavesNoRow ==
  ASSUME HS!IInv, NEW c \in Calls, call[c].phase # "done", UNCHANGED <<edits, file, traces, untraced>>,
         NEW phase \in {"post", "done"}, NEW posts \in 0 .. MaxAttempts, NEW sha \in 0 .. MaxEdits + 1,
         NEW reply \in {"pending", "no_skill", "broken"}, phase = "post" => reply = "pending" /\ posts < MaxAttempts,
         call' = [call EXCEPT ![c].phase = phase, ![c].posts = posts, ![c].sha = sha, ![c].reply = reply]
  PROVE  HS!IInv'
<1>1. /\ \A d \in Calls \ {c} : call'[d] = call[d]
      /\ call'[c].phase = phase /\ call'[c].posts = posts /\ call'[c].reply = reply
      /\ call' \in [Calls -> CallRow]
  <2>1. call \in [Calls -> CallRow] /\ phase \in HS!Phases /\ reply \in HS!Replies
    BY DEF HS!IInv, HS!TypeOK, CallRow, HS!Phases, HS!Replies
  <2> QED
    BY <2>1, CallChanges DEF OneChange
<1>2. call[c].reply = "pending" /\ c \notin untraced /\ HS!RowsOf(c) = {}
  BY DEF HS!IInv, HS!CallPhase, HS!TracedOnce
<1>3. HS!TypeOK' /\ \A d \in Calls : HS!RowsOf(d)' = HS!RowsOf(d)
  BY <1>1 DEF HS!RowsOf, HS!IInv, HS!TypeOK, CallRow
<1>4. \A d \in Calls : HS!CallPhase(d)'
  BY <1>1, <1>2 DEF HS!IInv, HS!CallPhase
<1>5. HS!TracedOnce'
  <2> SUFFICES ASSUME NEW d \in Calls
               PROVE  IF call'[d].reply \in {"answered", "unavailable"} /\ d \notin untraced
                      THEN \E i \in HS!RowsOf(d) : /\ HS!RowsOf(d) = {i}
                             /\ traces[i].ok = (call'[d].reply # "unavailable")
                             /\ traces[i].attempts = call'[d].posts
                      ELSE HS!RowsOf(d) = {}
    BY <1>3 DEF HS!TracedOnce
  <2>1. CASE d = c
    BY <1>1, <1>2, <2>1
  <2>2. CASE d # c
    BY <1>1, <2>2 DEF HS!IInv, HS!TracedOnce
  <2> QED
    BY <2>1, <2>2
<1> QED
  BY <1>3, <1>4, <1>5 DEF HS!IInv

\* Every step of a call, of an editor of skills or of nobody keeps the invariant.
LEMMA CallsStep == HS!IInv /\ [HS!Next]_(HS!vars) => HS!IInv'
<1> SUFFICES ASSUME HS!IInv, [HS!Next]_(HS!vars) PROVE HS!IInv'
  OBVIOUS
<1>t. /\ HS!TypeOK /\ MaxAttempts \in Nat \ {0} /\ MaxEdits \in Nat
      /\ \A c \in Calls : HS!CallPhase(c)
      /\ call \in [Calls -> CallRow] /\ \A c \in Calls : call[c] \in CallRow
  BY ApiAssumption DEF HS!IInv, HS!TypeOK, CallRow
<1>1. ASSUME NEW k \in Skills, HS!EditSkill(k)
      PROVE  HS!IInv'
  <2>1. HS!TypeOK'
    BY <1>t, <1>1 DEF HS!EditSkill, HS!TypeOK
  <2>2. HS!TracedOnce' /\ \A c \in Calls : HS!CallPhase(c)'
    BY <1>t, <1>1 DEF HS!EditSkill, HS!IInv, HS!TracedOnce, HS!RowsOf, HS!CallPhase
  <2> QED
    BY <2>1, <2>2 DEF HS!IInv
<1>2. ASSUME NEW c \in Calls, HS!LoadSkill(c)
      PROVE  HS!IInv'
  <2>1. /\ file[call[c].skill] \in 0 .. MaxEdits + 1 /\ call[c].posts < MaxAttempts /\ call[c].reply = "pending"
        /\ call[c].posts \in 0 .. MaxAttempts
    BY <1>t, <1>2 DEF HS!LoadSkill, HS!TypeOK, HS!CallPhase, CallRow
  <2>2. call' = [call EXCEPT ![c].phase = "post", ![c].posts = call[c].posts,
                             ![c].sha = file[call[c].skill], ![c].reply = "pending"]
    BY <1>t, <1>2, <2>1, ZenonT(30) DEF HS!LoadSkill, CallRow
  <2> QED
    BY <1>2, <2>1, <2>2, CallLeavesNoRow DEF HS!LoadSkill
<1>3. ASSUME NEW c \in Calls, HS!SkillMissing(c)
      PROVE  HS!IInv'
  <2>1. call' = [call EXCEPT ![c].phase = "done", ![c].posts = call[c].posts,
                             ![c].sha = call[c].sha, ![c].reply = "no_skill"]
    BY <1>t, <1>3 DEF HS!SkillMissing, HS!EndCall, CallRow
  <2> QED
    BY <1>t, <1>3, <2>1, CallLeavesNoRow DEF HS!SkillMissing, CallRow
<1>4. ASSUME NEW c \in Calls, HS!ModelAnswers(c)
      PROVE  HS!IInv'
  <2>1. HS!Record(c, "answered" # "unavailable")
    BY <1>4 DEF HS!ModelAnswers, HS!Record
  <2> QED
    BY <1>4, <2>1, CallEnds DEF HS!ModelAnswers
<1>5. ASSUME NEW c \in Calls, HS!HttpError(c)
      PROVE  HS!IInv'
  <2>1. HS!Record(c, "unavailable" # "unavailable")
    BY <1>5 DEF HS!HttpError, HS!Record
  <2> QED
    BY <1>5, <2>1, CallEnds DEF HS!HttpError
<1>6. ASSUME NEW c \in Calls, HS!TransientError(c)
      PROVE  HS!IInv'
  <2>1. CASE call[c].posts + 1 < MaxAttempts
    <3>1. call' = [call EXCEPT ![c].phase = "post", ![c].posts = call[c].posts + 1,
                               ![c].sha = call[c].sha, ![c].reply = "pending"]
      BY <1>t, <1>6, <2>1, ZenonT(30) DEF HS!TransientError, CallRow, HS!CallPhase
    <3>2. /\ call[c].posts + 1 \in 0 .. MaxAttempts /\ call[c].sha \in 0 .. MaxEdits + 1
          /\ call[c].phase # "done" /\ UNCHANGED <<edits, file, traces, untraced>>
      BY <1>t, <1>6, <2>1 DEF HS!TransientError, CallRow
    <3> QED
      BY <2>1, <3>1, <3>2, CallLeavesNoRow
  <2>2. CASE ~(call[c].posts + 1 < MaxAttempts)
    <3>1. HS!Record(c, "unavailable" # "unavailable")
      BY <1>6, <2>2 DEF HS!TransientError, HS!Record
    <3> QED
      BY <1>6, <2>2, <3>1, CallEnds DEF HS!TransientError
  <2> QED
    BY <2>1, <2>2
<1>7. ASSUME NEW c \in Calls, HS!MalformedAnswer(c)
      PROVE  HS!IInv'
  <2>1. call' = [call EXCEPT ![c].phase = "done", ![c].posts = call[c].posts + 1,
                             ![c].sha = call[c].sha, ![c].reply = "broken"]
    BY <1>t, <1>7 DEF HS!MalformedAnswer, CallRow
  <2>2. /\ call[c].posts + 1 \in 0 .. MaxAttempts /\ call[c].sha \in 0 .. MaxEdits + 1
        /\ call[c].phase # "done" /\ UNCHANGED <<edits, file, traces, untraced>>
    BY <1>t, <1>7 DEF HS!MalformedAnswer, HS!CallPhase, CallRow
  <2> QED
    BY <2>1, <2>2, CallLeavesNoRow
<1>8. CASE UNCHANGED HS!vars
  BY <1>8, SMTT(30) DEF HS!vars, HS!IInv, HS!TypeOK, HS!TracedOnce, HS!RowsOf, HS!CallPhase
<1> QED
  BY <1>1, <1>2, <1>3, <1>4, <1>5, <1>6, <1>7, <1>8 DEF HS!Next, HS!CallStep

\* With a hash on every row the rows that are marked are those that are counted.
LEMMA MarksAreCounted == HS!ChangesAgree
<1> SUFFICES ASSUME NEW k \in Skills, \A i \in DOMAIN traces : traces[i].sha # 0
             PROVE  HS!Marked(k) = {i \in HS!Hashed(k) : HS!DiffersFromLast(HS!Hashed(k), i)}
  BY DEF HS!ChangesAgree, HS!ChangeCount
<1>1. HS!Hashed(k) = HS!OfSkill(k)
  BY DEF HS!Hashed, HS!OfSkill
<1> QED
  BY <1>1 DEF HS!Marked

-----------------------------------------------------------------------------
(* The skill endpoints                                                     *)

\* What is known of a request.
RequestRow == [what : HE!Kinds \cup {"none"}, at : HE!Points, code : HE!Codes,
               run : 0 .. MaxRuns, log : 0 .. MaxRuns]

\* The initial states satisfy the inductive invariant of the endpoints.
LEMMA EndpointsInit == HE!Init => HE!IInv
<1> SUFFICES ASSUME HE!Init PROVE HE!IInv
  OBVIOUS
<1> USE ApiAssumption DEF HE!Init
<1>1. HE!TypeOK
  <2>1. HE!Idle \in RequestRow
    BY DEF RequestRow, HE!Kinds, HE!Points, HE!Codes, HE!Idle
  <2>2. request \in [Requests -> RequestRow]
    BY <2>1
  <2>3. dir \in [there : BOOLEAN, log : 0 .. MaxRuns, report : 0 .. MaxRuns]
    BY DEF HE!NoDir
  <2>4. flat \in [there : BOOLEAN, records : BOOLEAN, canary : {"none", "user"} \cup Requests]
    OBVIOUS
  <2>5. /\ row \in 0 .. MaxRuns /\ runs \in HE!Owners /\ moves \in 0 .. MaxMoves
        /\ worker \in [HE!Owners -> {"none", "claimed", "writing"}]
    BY DEF HE!Owners
  <2>6. /\ removing \subseteq HE!Owners /\ strays \subseteq HE!Owners
        /\ crossed \subseteq Requests /\ racing \subseteq Requests
    OBVIOUS
  <2> HIDE DEF HE!Init
  <2> QED
    BY <2>2, <2>3, <2>4, <2>5, <2>6, Zenon DEF HE!TypeOK, RequestRow
<1>2. \A q \in Requests : HE!RequestPhase(q)
  BY DEF HE!RequestPhase, HE!Idle
<1>3. HE!RunIsCurrent /\ HE!DirIsOwn /\ HE!SavesOverlap
  BY DEF HE!RunIsCurrent, HE!DirIsOwn, HE!SavesOverlap, HE!Saved, HE!Saving, HE!At, HE!NoDir, HE!Idle
<1>4. HE!SkillAnswersKept
  BY DEF HE!SkillAnswersKept, HE!ReportsAreOwn, HE!CanaryIsKept, HE!NoDir, HE!At, HE!Idle
<1> QED
  BY <1>1, <1>2, <1>3, <1>4 DEF HE!IInv

\* What the directory of a run may hold.
DirRow == [there : BOOLEAN, log : 0 .. MaxRuns, report : 0 .. MaxRuns]

\* A line in the log leaves the directory one of its kind, and all but the log and the
\* strays as it was.
LEMMA LogLine ==
  ASSUME HE!TypeOK, NEW n \in HE!Owners, HE!WriteLog(n)
  PROVE  /\ dir' \in DirRow /\ dir'.log = n /\ dir'.report = dir.report
         /\ strays \subseteq strays' /\ strays' \subseteq HE!Owners
         /\ n = row \/ n \in strays'
         /\ UNCHANGED <<row, removing, flat, runs, moves, request, crossed, racing>>
<1>1. dir \in DirRow /\ n \in 0 .. MaxRuns /\ strays \subseteq HE!Owners
  BY ApiAssumption DEF HE!TypeOK, DirRow, HE!Owners
<1> QED
  BY <1>1 DEF HE!WriteLog, DirRow

\* The world around the requests, action by action.
LEMMA WorldCases ==
  ASSUME HE!World
  PROVE  \/ HE!ClaimRun \/ HE!DeleteRow \/ HE!CreateRun \/ HE!MoveDataset
         \/ \E n \in HE!Owners : HE!EndTraining(n) \/ HE!DeleteDir(n)
         \/ \E n \in HE!Owners : /\ HE!WriteLog(n)
                                 /\ worker' = [worker EXCEPT ![n] = "writing"] \/ UNCHANGED worker
<1>1. ASSUME NEW n \in HE!Owners, HE!OpenLog(n) \/ HE!WriteLine(n)
      PROVE  /\ HE!WriteLog(n)
             /\ worker' = [worker EXCEPT ![n] = "writing"] \/ UNCHANGED worker
  BY <1>1, Zenon DEF HE!OpenLog, HE!WriteLine
<1>2. CASE \E n \in HE!Owners : HE!OpenLog(n) \/ HE!WriteLine(n) \/ HE!EndTraining(n) \/ HE!DeleteDir(n)
  <2>1. PICK n \in HE!Owners : HE!OpenLog(n) \/ HE!WriteLine(n) \/ HE!EndTraining(n) \/ HE!DeleteDir(n)
    BY <1>2
  <2>2. CASE HE!OpenLog(n) \/ HE!WriteLine(n)
    BY <1>1, <2>2
  <2>3. CASE HE!EndTraining(n) \/ HE!DeleteDir(n)
    BY <2>3
  <2> QED
    BY <2>1, <2>2, <2>3
<1> QED
  BY <1>2 DEF HE!World

\* The world around the requests keeps the types.
LEMMA WorldTypes == HE!TypeOK /\ HE!World => HE!TypeOK'
<1> SUFFICES ASSUME HE!TypeOK, HE!World PROVE HE!TypeOK'
  OBVIOUS
<1> USE ApiAssumption
<1>1. CASE HE!ClaimRun \/ HE!DeleteRow \/ HE!CreateRun
  <2>1. CASE HE!ClaimRun
    BY <2>1 DEF HE!TypeOK, HE!ClaimRun
  <2>2. CASE HE!DeleteRow
    <3>1. row \in HE!Owners
      BY <2>2 DEF HE!TypeOK, HE!DeleteRow, HE!Owners
    <3> QED
      BY <2>2, <3>1 DEF HE!TypeOK, HE!DeleteRow
  <2>3. CASE HE!CreateRun
    <3>1. runs + 1 \in HE!Owners /\ runs + 1 \in 0 .. MaxRuns
      BY <2>3 DEF HE!TypeOK, HE!CreateRun, HE!Owners
    <3> QED
      BY <2>3, <3>1 DEF HE!TypeOK, HE!CreateRun
  <2> QED
    BY <1>1, <2>1, <2>2, <2>3
<1>2. ASSUME NEW n \in HE!Owners, HE!EndTraining(n)
      PROVE  HE!TypeOK'
  BY <1>2 DEF HE!TypeOK, HE!EndTraining
<1>3. ASSUME NEW n \in HE!Owners, HE!DeleteDir(n)
      PROVE  HE!TypeOK'
  <2>1. HE!NoDir \in DirRow
    BY DEF HE!NoDir, DirRow
  <2>2. dir' \in DirRow
    BY <1>3, <2>1 DEF HE!TypeOK, HE!DeleteDir, DirRow
  <2>3. /\ worker' \in [HE!Owners -> {"none", "claimed", "writing"}] /\ removing' \subseteq HE!Owners
        /\ strays' \subseteq HE!Owners
        /\ UNCHANGED <<row, flat, runs, moves, request, crossed, racing>>
    BY <1>3 DEF HE!TypeOK, HE!DeleteDir
  <2> QED
    BY <2>2, <2>3 DEF HE!TypeOK, DirRow
<1>4. ASSUME NEW n \in HE!Owners, HE!WriteLog(n),
             worker' = [worker EXCEPT ![n] = "writing"] \/ UNCHANGED worker
      PROVE  HE!TypeOK'
  <2>1. worker' \in [HE!Owners -> {"none", "claimed", "writing"}]
    BY <1>4 DEF HE!TypeOK
  <2> QED
    BY <1>4, <2>1, LogLine DEF HE!TypeOK, DirRow
<1>5. CASE HE!MoveDataset
  <2>1. flat' \in [there : BOOLEAN, records : BOOLEAN, canary : {"none", "user"} \cup Requests]
    <3>1. CASE flat.there
      <4>1. HE!NoData \in [there : BOOLEAN, records : BOOLEAN, canary : {"none", "user"} \cup Requests]
        BY DEF HE!NoData
      <4> QED
        BY <1>5, <3>1, <4>1 DEF HE!MoveDataset
    <3>2. CASE ~flat.there
      <4>1. PICK has \in BOOLEAN, canary \in {"none", "user"} :
              flat' = [there |-> TRUE, records |-> has, canary |-> canary]
        BY <1>5, <3>2 DEF HE!MoveDataset
      <4> QED
        BY <4>1
    <3> QED
      BY <3>1, <3>2
  <2> QED
    BY <1>5, <2>1 DEF HE!TypeOK, HE!MoveDataset
<1> QED
  BY <1>1, <1>2, <1>3, <1>4, <1>5, WorldCases

\* The world leaves the requests alone, and forgets none that were crossed and no stray.
LEMMA WorldFrame ==
  ASSUME HE!TypeOK, HE!World
  PROVE  /\ request' = request /\ racing' = racing /\ crossed \subseteq crossed'
         /\ strays \subseteq strays'
         /\ \A q \in crossed' \ crossed : request[q].run = row /\ row # 0
         /\ HE!MoveDataset \/ UNCHANGED <<flat, moves>>
<1>1. CASE HE!ClaimRun \/ HE!DeleteRow \/ HE!CreateRun \/ HE!MoveDataset
  BY <1>1 DEF HE!ClaimRun, HE!DeleteRow, HE!CreateRun, HE!MoveDataset
<1>2. CASE \E n \in HE!Owners : HE!EndTraining(n) \/ HE!DeleteDir(n)
  BY <1>2 DEF HE!EndTraining, HE!DeleteDir
<1>3. CASE \E n \in HE!Owners : HE!WriteLog(n)
  BY <1>3, LogLine
<1> QED
  BY <1>1, <1>2, <1>3, WorldCases

\* What the world does to the directory leaves it its run's or a stray's.
LEMMA WorldDir == HE!IInv /\ HE!World => HE!RunIsCurrent' /\ HE!DirIsOwn'
<1> SUFFICES ASSUME HE!IInv, HE!World PROVE HE!RunIsCurrent' /\ HE!DirIsOwn'
  OBVIOUS
<1>t. /\ HE!TypeOK /\ HE!RunIsCurrent /\ HE!DirIsOwn
      /\ request' = request /\ racing' = racing /\ crossed \subseteq crossed'
      /\ row \in 0 .. MaxRuns /\ runs \in Nat
  BY WorldFrame, ApiAssumption DEF HE!IInv, HE!TypeOK, HE!Owners
<1>1. CASE HE!ClaimRun \/ HE!MoveDataset
  BY <1>t, <1>1 DEF HE!ClaimRun, HE!MoveDataset, HE!RunIsCurrent, HE!DirIsOwn
<1>2. CASE HE!DeleteRow
  <2>1. HE!RunIsCurrent'
    BY <1>t, <1>2 DEF HE!DeleteRow, HE!RunIsCurrent
  <2>2. HE!DirIsOwn'
    BY <1>t, <1>2 DEF HE!DeleteRow, HE!DirIsOwn
  <2> QED
    BY <2>1, <2>2
<1>3. CASE HE!CreateRun
  <2>1. HE!RunIsCurrent'
    BY <1>t, <1>3 DEF HE!CreateRun, HE!RunIsCurrent
  <2>2. HE!DirIsOwn'
    BY <1>t, <1>3 DEF HE!CreateRun, HE!DirIsOwn
  <2> QED
    BY <2>1, <2>2
<1>4. ASSUME NEW n \in HE!Owners, HE!EndTraining(n)
      PROVE  HE!RunIsCurrent' /\ HE!DirIsOwn'
  BY <1>t, <1>4 DEF HE!EndTraining, HE!RunIsCurrent, HE!DirIsOwn
<1>5. ASSUME NEW n \in HE!Owners, HE!DeleteDir(n)
      PROVE  HE!RunIsCurrent' /\ HE!DirIsOwn'
  <2>1. HE!RunIsCurrent'
    BY <1>t, <1>5 DEF HE!DeleteDir, HE!RunIsCurrent
  <2>2. HE!DirIsOwn'
    BY <1>t, <1>5 DEF HE!DeleteDir, HE!DirIsOwn, HE!NoDir
  <2> QED
    BY <2>1, <2>2
<1>6. ASSUME NEW n \in HE!Owners, HE!WriteLog(n)
      PROVE  HE!RunIsCurrent' /\ HE!DirIsOwn'
  <2>1. /\ dir'.log = n /\ dir'.report = dir.report /\ strays \subseteq strays'
        /\ n = row \/ n \in strays'
        /\ UNCHANGED <<row, removing, runs, crossed>>
    BY <1>t, <1>6, LogLine
  <2>2. HE!RunIsCurrent'
    BY <1>t, <2>1 DEF HE!RunIsCurrent
  <2>3. HE!DirIsOwn'
    BY <1>t, <2>1 DEF HE!DirIsOwn
  <2> QED
    BY <2>2, <2>3
<1> QED
  BY <1>1, <1>2, <1>3, <1>4, <1>5, <1>6, WorldCases

\* What the world does to nobody's request keeps the rest of the invariant.
LEMMA WorldStep == HE!IInv /\ HE!World => HE!IInv'
<1> SUFFICES ASSUME HE!IInv, HE!World PROVE HE!IInv'
  OBVIOUS
<1>t. /\ HE!TypeOK /\ HE!TypeOK' /\ \A q \in Requests : HE!RequestPhase(q)
      /\ HE!RunIsCurrent' /\ HE!DirIsOwn' /\ HE!SavesOverlap /\ HE!SkillAnswersKept
      /\ request' = request /\ racing' = racing /\ crossed \subseteq crossed'
      /\ strays \subseteq strays'
      /\ \A q \in crossed' \ crossed : request[q].run = row /\ row # 0
      /\ HE!MoveDataset \/ UNCHANGED <<flat, moves>>
  BY WorldTypes, WorldFrame, WorldDir DEF HE!IInv
<1>1. \A q \in Requests : HE!RequestPhase(q)'
  BY <1>t DEF HE!RequestPhase
<1>2. HE!SavesOverlap'
  <2>1. CASE HE!MoveDataset
    BY <1>t, <2>1, ApiAssumption DEF HE!MoveDataset, HE!SavesOverlap, HE!TypeOK
  <2>2. CASE UNCHANGED <<flat, moves>>
    BY <1>t, <2>2 DEF HE!SavesOverlap, HE!Saved, HE!Saving, HE!At
  <2> QED
    BY <1>t, <2>1, <2>2
<1>3. HE!ReportsAreOwn'
  BY <1>t DEF HE!SkillAnswersKept, HE!ReportsAreOwn, HE!DirIsOwn
<1>4. HE!CanaryIsKept'
  <2>1. moves > 0 => moves' > 0
    BY <1>t, ApiAssumption DEF HE!MoveDataset, HE!TypeOK
  <2>2. \A q \in Requests : HE!At(q, "save", "done")' <=> HE!At(q, "save", "done")
    BY <1>t DEF HE!At
  <2> QED
    BY <1>t, <2>1, <2>2 DEF HE!SkillAnswersKept, HE!CanaryIsKept
<1> QED
  BY <1>t, <1>1, <1>2, <1>3, <1>4 DEF HE!IInv, HE!SkillAnswersKept

\* A request's step, as far as it is about requests: what it becomes fits its point,
\* the run that it is about, and what it was.
Fits(q, new) ==
  /\ request[q].at # "done" /\ new.at # "idle"
  /\ new.at = "composing" => new.log = 0
  /\ new.at \in {"composing", "asked", "saving"} => new.code = 0
  /\ new.at = "saving" => new.what = "save"
  /\ new.at \in {"composing", "asked", "answered"} => new.what # "save"
  /\ request[q].at # "idle" => new.what = request[q].what /\ new.run = request[q].run
  /\ q \notin crossed =>
       /\ new.run # 0 /\ new.at # "done" => new.run = row
       /\ new.log \in {0, new.run} \cup strays

LEMMA RequestChanges ==
  ASSUME HE!IInv, NEW q \in Requests, NEW new \in RequestRow, Fits(q, new),
         request' = [request EXCEPT ![q] = new],
         UNCHANGED <<row, removing, strays, runs, moves, crossed>>
  PROVE  /\ request'[q] = new /\ \A p \in Requests \ {q} : request'[p] = request[p]
         /\ request' \in [Requests -> RequestRow]
         /\ \A p \in Requests : HE!RequestPhase(p)'
         /\ HE!RunIsCurrent'
         /\ \A p \in Requests \ crossed : request'[p].log \in {0, request'[p].run} \cup strays
         /\ \A p \in crossed : request'[p].what = request[p].what /\ request'[p].run = request[p].run
<1>1. request \in [Requests -> RequestRow] /\ crossed \subseteq Requests
  BY DEF HE!IInv, HE!TypeOK, RequestRow
<1>2. /\ request'[q] = new /\ \A p \in Requests \ {q} : request'[p] = request[p]
      /\ request' \in [Requests -> RequestRow]
  BY <1>1
<1>3. \A p \in Requests : HE!RequestPhase(p)'
  BY <1>1, <1>2 DEF HE!IInv, HE!RequestPhase, Fits
<1>4. HE!RunIsCurrent'
  BY <1>1, <1>2 DEF HE!IInv, HE!RunIsCurrent, Fits
<1>5. \A p \in Requests \ crossed : request'[p].log \in {0, request'[p].run} \cup strays
  BY <1>1, <1>2 DEF HE!IInv, HE!SkillAnswersKept, HE!ReportsAreOwn, Fits
<1>6. \A p \in crossed : request'[p].what = request[p].what /\ request'[p].run = request[p].run
  BY <1>1, <1>2 DEF HE!IInv, HE!RequestPhase, Fits
<1> QED
  BY <1>2, <1>3, <1>4, <1>5, <1>6

\* With the directory as it was, it is still its run's.
LEMMA DirKept ==
  ASSUME HE!IInv, UNCHANGED <<dir, row, removing, strays, crossed>>,
         \A p \in crossed : request'[p].what = request[p].what /\ request'[p].run = request[p].run
  PROVE  HE!DirIsOwn'
BY DEF HE!IInv, HE!DirIsOwn

\* A directory of its run's shows reports of its own.
LEMMA ReportsFromDir ==
  ASSUME HE!RunIsCurrent', HE!DirIsOwn',
         \A p \in Requests \ crossed' : request'[p].log \in {0, request'[p].run} \cup strays'
  PROVE  HE!ReportsAreOwn'
BY DEF HE!RunIsCurrent, HE!DirIsOwn, HE!ReportsAreOwn

\* A request that neither saves nor saved leaves the canary set to those that do.
LEMMA SavesKept ==
  ASSUME HE!IInv, NEW q \in Requests, UNCHANGED <<flat, moves, racing>>,
         \A p \in Requests \ {q} : request'[p] = request[p],
         ~HE!Saved(q)', ~HE!Saving(q)'
  PROVE  HE!SavesOverlap' /\ HE!CanaryIsKept'
<1>1. \A p \in Requests :
        /\ HE!Saved(p)' => p # q /\ HE!Saved(p)
        /\ HE!Saving(p)' => p # q /\ HE!Saving(p)
  BY DEF HE!Saved, HE!Saving, HE!At
<1>2. HE!SavesOverlap'
  <2> SUFFICES ASSUME moves' = 0
               PROVE  /\ flat'.there
                      /\ \A p \in Requests : HE!Saved(p)' => flat'.canary # "none"
                      /\ \A p, r \in Requests :
                           p # r /\ HE!Saving(p)' /\ (HE!Saving(r)' \/ HE!Saved(r)')
                             => {p, r} \subseteq racing'
    BY DEF HE!SavesOverlap
  <2>1. /\ flat.there
        /\ \A p \in Requests : HE!Saved(p) => flat.canary # "none"
        /\ \A p, r \in Requests :
             p # r /\ HE!Saving(p) /\ (HE!Saving(r) \/ HE!Saved(r)) => {p, r} \subseteq racing
    BY DEF HE!IInv, HE!SavesOverlap
  <2> QED
    BY <1>1, <2>1
<1>3. HE!CanaryIsKept'
  <2>1. HE!CanaryIsKept <=> \A p, r \in Requests : p # r /\ HE!Saved(p) /\ HE!Saved(r)
                                                     => {p, r} \subseteq racing \/ moves > 0
    BY DEF HE!CanaryIsKept, HE!Saved
  <2>2. HE!CanaryIsKept' <=> \A p, r \in Requests : p # r /\ HE!Saved(p)' /\ HE!Saved(r)'
                                                      => {p, r} \subseteq racing' \/ moves' > 0
    BY DEF HE!CanaryIsKept, HE!Saved
  <2>3. HE!CanaryIsKept
    BY DEF HE!IInv, HE!SkillAnswersKept
  <2> QED
    BY <1>1, <2>1, <2>2, <2>3
<1> QED
  BY <1>2, <1>3

\* Requests that had saved, or overlapped, or moved on, still did.
LEMMA CanarySets ==
  ASSUME HE!IInv, moves' = moves, racing \subseteq racing',
         \A p \in Requests : HE!Saved(p)' => HE!Saved(p)
  PROVE  HE!CanaryIsKept'
<1>1. HE!CanaryIsKept <=> \A p, r \in Requests : p # r /\ HE!Saved(p) /\ HE!Saved(r)
                                                   => {p, r} \subseteq racing \/ moves > 0
  BY DEF HE!CanaryIsKept, HE!Saved
<1>2. HE!CanaryIsKept' <=> \A p, r \in Requests : p # r /\ HE!Saved(p)' /\ HE!Saved(r)'
                                                    => {p, r} \subseteq racing' \/ moves' > 0
  BY DEF HE!CanaryIsKept, HE!Saved
<1>3. HE!CanaryIsKept
  BY DEF HE!IInv, HE!SkillAnswersKept
<1> QED
  BY <1>1, <1>2, <1>3

\* A request that does not touch the datasets or the directories.
SavesNothing(new) == new.what # "save" \/ (new.at # "saving" /\ new.code # 200)

LEMMA RequestOnly ==
  ASSUME HE!IInv, NEW q \in Requests, NEW new \in RequestRow, Fits(q, new),
         HE!Becomes(q, new), SavesNothing(new),
         UNCHANGED <<HE!worldVars, crossed, racing>>
  PROVE  HE!IInv'
<1>1. /\ UNCHANGED <<row, removing, worker, dir, flat, runs, moves, strays, crossed, racing>>
  BY DEF HE!worldVars
<1>2. /\ request'[q] = new /\ \A p \in Requests \ {q} : request'[p] = request[p]
      /\ request' \in [Requests -> RequestRow]
      /\ \A p \in Requests : HE!RequestPhase(p)'
      /\ HE!RunIsCurrent'
      /\ \A p \in Requests \ crossed : request'[p].log \in {0, request'[p].run} \cup strays
      /\ \A p \in crossed : request'[p].what = request[p].what /\ request'[p].run = request[p].run
  BY <1>1, RequestChanges DEF HE!Becomes
<1>3. HE!DirIsOwn'
  BY <1>1, <1>2, DirKept
<1>4. HE!ReportsAreOwn'
  BY <1>1, <1>2, <1>3, ReportsFromDir
<1>5. ~HE!Saved(q)' /\ ~HE!Saving(q)'
  BY <1>2 DEF HE!Saved, HE!Saving, HE!At, SavesNothing
<1>6. HE!SavesOverlap' /\ HE!CanaryIsKept'
  BY <1>1, <1>2, <1>5, SavesKept
<1>7. HE!TypeOK'
  BY <1>1, <1>2 DEF HE!IInv, HE!TypeOK, RequestRow
<1> QED
  BY <1>2, <1>3, <1>4, <1>6, <1>7 DEF HE!IInv, HE!SkillAnswersKept

\* What a request is at a point, from its type and its invariant.
LEMMA RequestKnown ==
  ASSUME HE!IInv, NEW q \in Requests
  PROVE  /\ request[q] \in RequestRow /\ HE!RequestPhase(q)
         /\ request[q].what \in HE!Kinds \cup {"none"} /\ request[q].at \in HE!Points
         /\ request[q].code \in HE!Codes
         /\ request[q].run \in 0 .. MaxRuns /\ request[q].log \in 0 .. MaxRuns
         /\ q \notin crossed =>
              /\ request[q].run # 0 /\ request[q].at # "done" => request[q].run = row
              /\ request[q].log \in {0, request[q].run} \cup strays
<1>1. request[q] \in RequestRow
  BY DEF HE!IInv, HE!TypeOK, RequestRow
<1>2. q \notin crossed =>
        /\ request[q].run # 0 /\ request[q].at # "done" => request[q].run = row
        /\ request[q].log \in {0, request[q].run} \cup strays
  BY DEF HE!IInv, HE!RunIsCurrent, HE!SkillAnswersKept, HE!ReportsAreOwn
<1> QED
  BY <1>1, <1>2 DEF HE!IInv, RequestRow

\* What a request becomes that has a new point and a new code.
Put(r, at, code) == [r EXCEPT !.at = at, !.code = code]

LEMMA RequestPut ==
  ASSUME NEW r \in RequestRow, NEW at \in HE!Points, NEW code \in HE!Codes
  PROVE  /\ Put(r, at, code) \in RequestRow
         /\ Put(r, at, code).at = at /\ Put(r, at, code).code = code
         /\ Put(r, at, code).what = r.what
         /\ Put(r, at, code).run = r.run /\ Put(r, at, code).log = r.log
BY Zenon DEF RequestRow, Put

\* A request is refused before anything is read.
LEMMA RefuseStep ==
  ASSUME HE!IInv, NEW q \in Requests, NEW what \in HE!Kinds, NEW code \in {400, 404, 409},
         request[q].at = "idle", HE!Refuse(q, what, code),
         UNCHANGED <<HE!worldVars, crossed, racing>>
  PROVE  HE!IInv'
<1> DEFINE new == [request[q] EXCEPT !.what = what, !.at = "done", !.code = code]
<1>1. request[q] \in RequestRow /\ request[q].run = 0 /\ request[q].log = 0
  BY RequestKnown DEF HE!RequestPhase
<1>2. new \in RequestRow /\ new.what = what /\ new.at = "done" /\ new.code = code /\ new.run = 0 /\ new.log = 0
  <2>1. what \in HE!Kinds \cup {"none"} /\ "done" \in HE!Points /\ code \in HE!Codes
    BY DEF HE!Points, HE!Codes
  <2> QED
    BY <1>1, <2>1, ZenonT(30) DEF RequestRow
<1>3. HE!Becomes(q, new)
  BY ZenonT(30) DEF HE!Refuse
<1> HIDE DEF new
<1>4. Fits(q, new)
  BY <1>1, <1>2 DEF Fits
<1>5. SavesNothing(new)
  BY <1>2 DEF SavesNothing
<1> QED
  BY <1>2, <1>3, <1>4, <1>5, RequestOnly, ZenonT(30)

LEMMA RejectStep ==
  ASSUME HE!IInv, NEW q \in Requests, NEW what \in HE!Kinds, HE!Reject(q, what)
  PROVE  HE!IInv'
<1>1. PICK code \in {400, 404} : HE!Refuse(q, what, code)
  BY DEF HE!Reject
<1> QED
  BY <1>1, RefuseStep DEF HE!Reject

\* A request reads the row of its run, or what it needs of none.
LEMMA ComposeStep ==
  ASSUME HE!IInv, NEW q \in Requests, NEW what \in HE!Kinds \ {"save"}, NEW r \in {0, row},
         HE!Compose(q, what, r)
  PROVE  HE!IInv'
<1> DEFINE new == [request[q] EXCEPT !.what = what, !.at = "composing", !.run = r]
<1>1. /\ request[q] \in RequestRow /\ request[q].at = "idle" /\ request[q].log = 0 /\ request[q].code = 0
      /\ r \in 0 .. MaxRuns
  BY RequestKnown, ApiAssumption DEF HE!Compose, HE!RequestPhase, HE!IInv, HE!TypeOK
<1>2. /\ new \in RequestRow /\ new.what = what /\ new.at = "composing" /\ new.code = 0 /\ new.run = r
      /\ new.log = 0
  BY <1>1 DEF RequestRow, HE!Points
<1>3. HE!Becomes(q, new)
  BY Zenon DEF HE!Compose
<1>4. UNCHANGED <<HE!worldVars, crossed, racing>>
  BY DEF HE!Compose
<1> HIDE DEF new
<1>5. Fits(q, new)
  BY <1>1, <1>2 DEF Fits
<1>6. SavesNothing(new)
  BY <1>2 DEF SavesNothing
<1> QED
  BY <1>2, <1>3, <1>4, <1>5, <1>6, RequestOnly, Zenon

\* A request ends without an answer, of the skill that is missing or the model that
\* fails.
LEMMA FinishStep ==
  ASSUME HE!IInv, NEW q \in Requests, NEW code \in {404, 500, 503}, HE!Finish(q, code),
         request[q].at \in {"composing", "asked"}, code = 503 => request[q].at = "asked",
         UNCHANGED <<HE!worldVars, crossed, racing>>
  PROVE  HE!IInv'
<1> DEFINE new == Put(request[q], "done", code)
<1>1. request[q] \in RequestRow /\ HE!RequestPhase(q)
  BY RequestKnown
<1>2. /\ new \in RequestRow /\ new.at = "done" /\ new.code = code /\ new.what = request[q].what
      /\ new.run = request[q].run /\ new.log = request[q].log
  <2>1. "done" \in HE!Points /\ code \in HE!Codes
    BY DEF HE!Points, HE!Codes
  <2> QED
    BY <1>1, <2>1, RequestPut
<1>3. HE!Becomes(q, new)
  BY Zenon DEF HE!Finish, Put
<1> HIDE DEF new
<1>4. Fits(q, new)
  BY <1>1, <1>2, RequestKnown DEF Fits, HE!RequestPhase
<1>5. SavesNothing(new)
  BY <1>2 DEF SavesNothing
<1> QED
  BY <1>2, <1>3, <1>4, <1>5, RequestOnly, ZenonT(30)

\* The tail of the log is read and the skill loaded: the run's own log, while the run
\* has its row.
LEMMA AskStep ==
  ASSUME HE!IInv, NEW q \in Requests, HE!AskSkill(q)
  PROVE  HE!IInv'
<1>1. /\ request[q] \in RequestRow /\ HE!RequestPhase(q) /\ request[q].at = "composing"
      /\ request[q].code = 0
      /\ UNCHANGED <<HE!worldVars, crossed, racing>>
  BY RequestKnown DEF HE!AskSkill, HE!RequestPhase
<1>2. CASE \E code \in {404, 500} : HE!Finish(q, code)
  BY <1>1, <1>2, FinishStep
<1>3. CASE HE!Becomes(q, [request[q] EXCEPT !.at = "asked", !.log = IF request[q].run = 0 THEN 0 ELSE dir.log])
  <2> DEFINE log == IF request[q].run = 0 THEN 0 ELSE dir.log
             new == [request[q] EXCEPT !.at = "asked", !.log = log]
  <2>1. log \in 0 .. MaxRuns
    BY ApiAssumption DEF HE!IInv, HE!TypeOK
  <2>2. q \notin crossed => log \in {0, request[q].run} \cup strays
    BY <1>1, RequestKnown DEF HE!IInv, HE!RunIsCurrent, HE!DirIsOwn
  <2>3. HE!Becomes(q, new)
    BY <1>3, Zenon
  <2> HIDE DEF log
  <2>4. /\ new \in RequestRow /\ new.at = "asked" /\ new.code = 0 /\ new.what = request[q].what
        /\ new.run = request[q].run /\ new.log = log
    BY <1>1, <2>1 DEF RequestRow, HE!Points
  <2> HIDE DEF new
  <2>5. Fits(q, new)
    BY <1>1, <2>2, <2>4, RequestKnown DEF Fits, HE!RequestPhase
  <2>6. SavesNothing(new)
    BY <2>4 DEF SavesNothing
  <2> QED
    BY <1>1, <2>3, <2>4, <2>5, <2>6, RequestOnly, Zenon
<1> QED
  BY <1>2, <1>3 DEF HE!AskSkill

\* The model answers, which for a post-mortem is not the end.
LEMMA AnswerOfModel ==
  ASSUME HE!IInv, NEW q \in Requests, HE!ModelAnswers(q)
  PROVE  HE!IInv'
<1> DEFINE at  == IF request[q].what = "report" THEN "answered" ELSE "done"
           new == Put(request[q], at, 200)
<1>1. /\ request[q] \in RequestRow /\ HE!RequestPhase(q) /\ request[q].at = "asked"
      /\ UNCHANGED <<HE!worldVars, crossed, racing>>
  BY RequestKnown DEF HE!ModelAnswers
<1>2. at \in {"answered", "done"}
  OBVIOUS
<1>3. HE!Becomes(q, new)
  BY Zenon DEF HE!ModelAnswers, Put
<1> HIDE DEF at
<1>4. /\ new \in RequestRow /\ new.at = at /\ new.code = 200 /\ new.what = request[q].what
      /\ new.run = request[q].run /\ new.log = request[q].log
  <2>1. at \in HE!Points /\ 200 \in HE!Codes
    BY <1>2 DEF HE!Points, HE!Codes
  <2> QED
    BY <1>1, <2>1, RequestPut
<1> HIDE DEF new
<1>5. request[q].what # "save"
  BY <1>1 DEF HE!RequestPhase
<1>6. Fits(q, new)
  BY <1>1, <1>2, <1>4, <1>5, RequestKnown DEF Fits
<1>7. SavesNothing(new)
  BY <1>4, <1>5 DEF SavesNothing
<1> QED
  BY <1>1, <1>3, <1>4, <1>6, <1>7, RequestOnly, Zenon

\* A post-mortem is written beside the run, or what there is of its directory.
LEMMA ReportStep ==
  ASSUME HE!IInv, NEW q \in Requests, HE!WriteReport(q)
  PROVE  HE!IInv'
<1> DEFINE new == Put(request[q], "done", 200)
<1>1. /\ request[q] \in RequestRow /\ HE!RequestPhase(q)
      /\ request[q].at = "answered" /\ request[q].what = "report"
      /\ UNCHANGED <<row, removing, worker, flat, runs, moves, strays, crossed, racing>>
  BY RequestKnown DEF HE!WriteReport, HE!At, HE!RequestPhase
<1>2. /\ new \in RequestRow /\ new.at = "done" /\ new.code = 200 /\ new.what = "report"
      /\ new.run = request[q].run /\ new.log = request[q].log
  <2>1. "done" \in HE!Points /\ 200 \in HE!Codes
    BY DEF HE!Points, HE!Codes
  <2> QED
    BY <1>1, <2>1, RequestPut
<1>3. request' = [request EXCEPT ![q] = new]
  BY DEF HE!WriteReport, HE!Finish, HE!Becomes, Put
<1> HIDE DEF new
<1>4. Fits(q, new)
  BY <1>1, <1>2, RequestKnown DEF Fits
<1>5. /\ request'[q] = new /\ \A p \in Requests \ {q} : request'[p] = request[p]
      /\ request' \in [Requests -> RequestRow]
      /\ \A p \in Requests : HE!RequestPhase(p)'
      /\ HE!RunIsCurrent'
      /\ \A p \in Requests \ crossed : request'[p].log \in {0, request'[p].run} \cup strays
      /\ \A p \in crossed : request'[p].what = request[p].what /\ request'[p].run = request[p].run
  BY <1>1, <1>2, <1>3, <1>4, RequestChanges
<1>6. dir' \in [there : BOOLEAN, log : 0 .. MaxRuns, report : 0 .. MaxRuns]
  <2>1. dir \in [there : BOOLEAN, log : 0 .. MaxRuns, report : 0 .. MaxRuns] /\ request[q].run \in 0 .. MaxRuns
    BY RequestKnown DEF HE!IInv, HE!TypeOK
  <2>2. [dir EXCEPT !.there = TRUE] \in [there : BOOLEAN, log : 0 .. MaxRuns, report : 0 .. MaxRuns]
    BY <2>1
  <2> QED
    BY <2>1, <2>2 DEF HE!WriteReport
<1>7. HE!DirIsOwn'
  <2>1. dir' = dir \/ (dir'.log = dir.log /\ dir'.report = request[q].run)
    BY DEF HE!WriteReport, HE!IInv, HE!TypeOK
  <2>2. q \notin crossed => request[q].run \in {0, row}
    BY <1>1, RequestKnown
  <2>3. CASE dir' = dir
    BY <1>1, <1>5, <2>3, DirKept
  <2>4. CASE dir'.log = dir.log /\ dir'.report = request[q].run
    BY <1>1, <1>2, <1>5, <2>2, <2>4 DEF HE!IInv, HE!DirIsOwn
  <2> QED
    BY <2>1, <2>3, <2>4
<1>8. HE!ReportsAreOwn'
  BY <1>1, <1>5, <1>7, ReportsFromDir
<1>9. HE!SavesOverlap' /\ HE!CanaryIsKept'
  <2>1. ~HE!Saved(q)' /\ ~HE!Saving(q)'
    BY <1>2, <1>5 DEF HE!Saved, HE!Saving, HE!At
  <2> QED
    BY <1>1, <1>5, <2>1, SavesKept
<1>10. HE!TypeOK'
  BY <1>1, <1>5, <1>6 DEF HE!IInv, HE!TypeOK, RequestRow
<1> QED
  BY <1>5, <1>7, <1>8, <1>9, <1>10 DEF HE!IInv, HE!SkillAnswersKept

\* save_canary goes on only when it saw no canary set.
LEMMA CheckStep ==
  ASSUME HE!IInv, NEW q \in Requests, HE!CheckCanary(q)
  PROVE  HE!IInv'
<1>1. CASE flat.canary # "none"
  <2>1. /\ request[q].at = "idle" /\ HE!Refuse(q, "save", 409) /\ "save" \in HE!Kinds
        /\ UNCHANGED <<HE!worldVars, crossed, racing>>
    BY <1>1 DEF HE!CheckCanary, HE!Kinds
  <2> QED
    BY <2>1, RefuseStep
<1>2. CASE flat.canary = "none"
  <2> DEFINE new == [request[q] EXCEPT !.what = "save", !.at = "saving"]
             met == {p \in Requests : HE!Saving(p)}
  <2>1. /\ request[q] \in RequestRow /\ HE!RequestPhase(q) /\ request[q].at = "idle"
        /\ request[q].code = 0 /\ request[q].run = 0 /\ request[q].log = 0
        /\ HE!StartSave(q) /\ flat.there
        /\ UNCHANGED <<row, removing, worker, dir, flat, runs, moves, strays, crossed>>
    BY <1>2, RequestKnown DEF HE!CheckCanary, HE!RequestPhase, HE!worldVars
  <2>2. racing' = racing \cup (IF \E p \in Requests : HE!Saving(p) THEN {q} \cup met ELSE {})
    BY <1>2 DEF HE!CheckCanary, HE!Saving
  <2>3. /\ new \in RequestRow /\ new.what = "save" /\ new.at = "saving" /\ new.code = 0
        /\ new.run = 0 /\ new.log = 0
    <3>1. "save" \in HE!Kinds \cup {"none"} /\ "saving" \in HE!Points
      BY DEF HE!Kinds, HE!Points
    <3> QED
      BY <2>1, <3>1 DEF RequestRow
  <2>4. HE!Becomes(q, new)
    BY <2>1, Zenon DEF HE!StartSave
  <2> HIDE DEF new
  <2>5. Fits(q, new)
    BY <2>1, <2>3 DEF Fits
  <2>6. /\ request'[q] = new /\ \A p \in Requests \ {q} : request'[p] = request[p]
        /\ request' \in [Requests -> RequestRow]
        /\ \A p \in Requests : HE!RequestPhase(p)'
        /\ HE!RunIsCurrent'
        /\ \A p \in Requests \ crossed : request'[p].log \in {0, request'[p].run} \cup strays
        /\ \A p \in crossed : request'[p].what = request[p].what /\ request'[p].run = request[p].run
    BY <2>1, <2>3, <2>4, <2>5, RequestChanges DEF HE!Becomes
  <2>7. HE!DirIsOwn'
    BY <2>1, <2>6, DirKept
  <2>8. HE!ReportsAreOwn'
    BY <2>1, <2>6, <2>7, ReportsFromDir
  <2>9. \A p \in Requests :
          /\ HE!Saved(p)' => p # q /\ HE!Saved(p)
          /\ HE!Saving(p)' => p = q \/ HE!Saving(p)
    BY <2>3, <2>6 DEF HE!Saved, HE!Saving, HE!At
  <2>10. racing \subseteq racing' /\ racing' \subseteq Requests
         /\ \A p \in Requests : HE!Saving(p) => {p, q} \subseteq racing'
    BY <2>2 DEF HE!IInv, HE!TypeOK
  <2>11. HE!SavesOverlap'
    <3> SUFFICES ASSUME moves' = 0
                 PROVE  /\ flat'.there
                        /\ \A p \in Requests : HE!Saved(p)' => flat'.canary # "none"
                        /\ \A p, r \in Requests :
                             p # r /\ HE!Saving(p)' /\ (HE!Saving(r)' \/ HE!Saved(r)')
                               => {p, r} \subseteq racing'
      BY DEF HE!SavesOverlap
    <3>1. /\ \A p \in Requests : ~HE!Saved(p)
          /\ \A p, r \in Requests : p # r /\ HE!Saving(p) /\ HE!Saving(r) => {p, r} \subseteq racing
      BY <1>2, <2>1 DEF HE!IInv, HE!SavesOverlap
    <3> QED
      BY <2>1, <2>9, <2>10, <3>1
  <2>12. HE!CanaryIsKept'
    BY <2>1, <2>9, <2>10, CanarySets
  <2>13. HE!TypeOK'
    BY <2>1, <2>6, <2>10 DEF HE!IInv, HE!TypeOK, RequestRow
  <2> QED
    BY <2>6, <2>7, <2>8, <2>11, <2>12, <2>13 DEF HE!IInv, HE!SkillAnswersKept
<1> QED
  BY <1>1, <1>2

\* The canary set that is written replaces one saved since only of a request that
\* overlapped.
LEMMA WriteStep ==
  ASSUME HE!IInv, NEW q \in Requests, HE!WriteCanary(q)
  PROVE  HE!IInv'
<1>1. /\ request[q] \in RequestRow /\ HE!RequestPhase(q)
      /\ request[q].at = "saving" /\ request[q].what = "save" /\ HE!Saving(q)
      /\ UNCHANGED <<row, removing, worker, dir, runs, moves, strays, crossed, racing>>
  BY RequestKnown DEF HE!WriteCanary, HE!At, HE!Saving
<1> DEFINE code == IF flat.there THEN 200 ELSE 500
           new == Put(request[q], "done", code)
<1>2. HE!Becomes(q, new)
  <2>1. HE!Finish(q, code)
    BY DEF HE!WriteCanary
  <2> HIDE DEF code
  <2> QED
    BY <2>1, Zenon DEF HE!Finish, Put
<1>3. code \in {200, 500}
  OBVIOUS
<1>4. code = 200 => flat.there
  OBVIOUS
<1>5. flat.there => code = 200 /\ flat' = [flat EXCEPT !.canary = q]
  BY DEF HE!WriteCanary
<1>6. ~flat.there => code = 500 /\ UNCHANGED flat
  BY DEF HE!WriteCanary
<1> HIDE DEF code
<1>7. /\ new \in RequestRow /\ new.at = "done" /\ new.code = code /\ new.what = "save"
      /\ new.run = request[q].run /\ new.log = request[q].log
  <2>1. "done" \in HE!Points /\ code \in HE!Codes
    BY <1>3 DEF HE!Points, HE!Codes
  <2> QED
    BY <1>1, <2>1, RequestPut
<1> HIDE DEF new
<1>8. Fits(q, new)
  BY <1>1, <1>3, <1>7, RequestKnown DEF Fits
<1>9. CASE ~flat.there
  <2>1. SavesNothing(new) /\ UNCHANGED <<HE!worldVars, crossed, racing>>
    BY <1>1, <1>6, <1>7, <1>9 DEF SavesNothing, HE!worldVars
  <2> QED
    BY <1>2, <1>7, <1>8, <2>1, RequestOnly, Zenon
<1>10. CASE flat.there
  <2>1. /\ request'[q] = new /\ \A p \in Requests \ {q} : request'[p] = request[p]
        /\ request' \in [Requests -> RequestRow]
        /\ \A p \in Requests : HE!RequestPhase(p)'
        /\ HE!RunIsCurrent'
        /\ \A p \in Requests \ crossed : request'[p].log \in {0, request'[p].run} \cup strays
        /\ \A p \in crossed : request'[p].what = request[p].what /\ request'[p].run = request[p].run
    BY <1>1, <1>2, <1>7, <1>8, RequestChanges DEF HE!Becomes
  <2>2. HE!DirIsOwn'
    BY <1>1, <2>1, DirKept
  <2>3. HE!ReportsAreOwn'
    BY <1>1, <2>1, <2>2, ReportsFromDir
  <2>4. /\ flat' \in [there : BOOLEAN, records : BOOLEAN, canary : {"none", "user"} \cup Requests]
        /\ flat'.there /\ flat'.canary = q
    BY <1>5, <1>10 DEF HE!IInv, HE!TypeOK
  <2>5. \A p \in Requests :
          /\ HE!Saved(p)' => p = q \/ HE!Saved(p)
          /\ HE!Saving(p)' => p # q /\ HE!Saving(p)
    BY <1>7, <2>1 DEF HE!Saved, HE!Saving, HE!At
  <2>6. moves = 0 => \A p \in Requests : p # q /\ (HE!Saving(p) \/ HE!Saved(p)) => {p, q} \subseteq racing
    BY <1>1 DEF HE!IInv, HE!SavesOverlap
  <2>7. HE!SavesOverlap'
    <3> SUFFICES ASSUME moves' = 0
                 PROVE  /\ flat'.there
                        /\ \A p \in Requests : HE!Saved(p)' => flat'.canary # "none"
                        /\ \A p, r \in Requests :
                             p # r /\ HE!Saving(p)' /\ (HE!Saving(r)' \/ HE!Saved(r)')
                               => {p, r} \subseteq racing'
      BY DEF HE!SavesOverlap
    <3>1. \A p, r \in Requests :
            p # r /\ HE!Saving(p) /\ (HE!Saving(r) \/ HE!Saved(r)) => {p, r} \subseteq racing
      BY <1>1 DEF HE!IInv, HE!SavesOverlap
    <3> QED
      BY <1>1, <2>4, <2>5, <2>6, <3>1, ApiAssumption
  <2>8. HE!CanaryIsKept'
    <3>1. HE!CanaryIsKept /\ moves \in Nat
      BY ApiAssumption DEF HE!IInv, HE!SkillAnswersKept, HE!TypeOK
    <3>2. \A p, r \in Requests : p # r /\ HE!Saved(p)' /\ HE!Saved(r)' => {p, r} \subseteq racing' \/ moves' > 0
      BY <1>1, <2>5, <2>6, <3>1 DEF HE!CanaryIsKept, HE!Saved
    <3> QED
      BY <3>2 DEF HE!CanaryIsKept, HE!Saved
  <2>9. HE!TypeOK'
    BY <1>1, <2>1, <2>4 DEF HE!IInv, HE!TypeOK, RequestRow
  <2> QED
    BY <2>1, <2>2, <2>3, <2>7, <2>8, <2>9 DEF HE!IInv, HE!SkillAnswersKept
<1> QED
  BY <1>9, <1>10

\* Every step of the endpoints keeps their invariant.
LEMMA EndpointsStep == HE!IInv /\ [HE!Next]_(HE!vars) => HE!IInv'
<1> SUFFICES ASSUME HE!IInv, [HE!Next]_(HE!vars) PROVE HE!IInv'
  OBVIOUS
<1>1. CASE HE!World
  BY <1>1, WorldStep
<1>2. ASSUME NEW q \in Requests, NEW what \in HE!Kinds, HE!Reject(q, what)
      PROVE  HE!IInv'
  BY <1>2, RejectStep
<1>3. ASSUME NEW q \in Requests, NEW what \in HE!Kinds, HE!ReadRow(q, what)
      PROVE  HE!IInv'
  BY <1>3, ComposeStep DEF HE!ReadRow
<1>4. ASSUME NEW q \in Requests, HE!ReadText(q) \/ HE!ReadSample(q)
      PROVE  HE!IInv'
  BY <1>4, ComposeStep DEF HE!ReadText, HE!ReadSample, HE!Kinds
<1>5. ASSUME NEW q \in Requests, HE!ModelFails(q)
      PROVE  HE!IInv'
  BY <1>5, FinishStep DEF HE!ModelFails
<1>6. CASE UNCHANGED HE!vars
  <2>1. UNCHANGED <<row, removing, worker, dir, flat, runs, moves, strays, request, crossed, racing>>
    BY <1>6 DEF HE!vars, HE!worldVars
  <2> QED
    BY <2>1 DEF HE!IInv, HE!TypeOK, HE!SkillAnswersKept, HE!ReportsAreOwn,
       HE!CanaryIsKept, HE!At, HE!RequestPhase, HE!RunIsCurrent, HE!DirIsOwn, HE!SavesOverlap, HE!Saved, HE!Saving
<1> QED
  BY <1>1, <1>2, <1>3, <1>4, <1>5, <1>6, AskStep, AnswerOfModel, ReportStep, CheckStep, WriteStep DEF HE!Next

-----------------------------------------------------------------------------
(* The theorems                                                            *)

\* The inductive invariants of the services.
ServicesInv == IInv /\ ER!IInv /\ QA!IInv /\ RS!IInv /\ HS!IInv /\ HE!IInv /\ AC!IInv

\* The inductive invariants hold in every reachable state: a step is of one service,
\* and the others stutter.
THEOREM ServicesInvariance == ApiSpec => []ServicesInv
<1>1. ApiInit => ServicesInv
  BY IInvInit, ReportsInit, StoreInit, StreamInit, CallsInit, EndpointsInit, AccessInit DEF ApiInit, ServicesInv
<1>2. ServicesInv /\ [ApiNext]_apiVars => ServicesInv'
  <2> SUFFICES ASSUME IInv, ER!IInv, QA!IInv, RS!IInv, HS!IInv, HE!IInv, AC!IInv, [ApiNext]_apiVars
               PROVE  IInv' /\ ER!IInv' /\ QA!IInv' /\ RS!IInv' /\ HS!IInv' /\ HE!IInv' /\ AC!IInv'
    BY DEF ServicesInv
  <2>1. /\ [Next]_vars /\ [ER!Next]_(ER!vars) /\ [QA!Next]_(QA!vars) /\ [RS!Next]_(RS!vars)
        /\ [HS!Next]_(HS!vars) /\ [HE!Next]_(HE!vars) /\ [AC!Next]_(AC!vars)
    <3>1. UNCHANGED erVars => UNCHANGED ER!vars
      BY DEF erVars, ER!vars
    <3>2. UNCHANGED qaVars => UNCHANGED QA!vars
      BY DEF qaVars, QA!vars
    <3>3. UNCHANGED rsVars => UNCHANGED RS!vars
      BY DEF rsVars, RS!vars, RS!runVars, RS!mVars, RS!tVars, RS!endVars
    <3>4. UNCHANGED hsVars => UNCHANGED HS!vars
      BY DEF hsVars, HS!vars
    <3>5. UNCHANGED heVars => UNCHANGED HE!vars
      BY DEF heVars, HE!vars, HE!worldVars
    <3>6. UNCHANGED acVars => UNCHANGED AC!vars
      BY DEF acVars, AC!vars
    <3>7. /\ (Next \/ UNCHANGED vars) /\ (ER!Next \/ UNCHANGED erVars)
          /\ (QA!Next \/ UNCHANGED qaVars) /\ (RS!Next \/ UNCHANGED rsVars)
          /\ (HS!Next \/ UNCHANGED hsVars) /\ (HE!Next \/ UNCHANGED heVars)
          /\ (AC!Next \/ UNCHANGED acVars)
      BY DEF ApiNext, apiVars
    <3> QED
      BY <3>1, <3>2, <3>3, <3>4, <3>5, <3>6, <3>7
  <2> QED
    BY <2>1, IInvStep, ReportsStep, StoreStep, StreamStep, CallsStep, EndpointsStep, AccessStep
<1> QED
  BY <1>1, <1>2, PTL DEF ApiSpec

\* No step of a service leaves the types.
THEOREM ApiTypes == ApiSpec => []ApiTypeOK
<1>1. ServicesInv => ApiTypeOK
  BY DEF ServicesInv, IInv, ER!IInv, QA!IInv, RS!IInv, HS!IInv, HE!IInv, AC!IInv, ApiTypeOK
<1> QED
  BY <1>1, ServicesInvariance, PTL

\* However often an error comes back, whichever process catches it and whenever one
\* restarts: one open issue unless a search failed or two reports overlapped, no more
\* reports within a window than the threshold, and every captured error queued, on
\* its way, recorded or known to be lost (report_exception, _dispatch_production).
THEOREM ErrorsStayReported == ApiSpec => []ErrorsAreReported
<1>1. ServicesInv => ErrorsAreReported
  BY DEF ServicesInv, ER!IInv, ErrorsAreReported
<1> QED
  BY <1>1, ServicesInvariance, PTL

\* What a trace tells of a call is what happened, and a change of a skill is marked at
\* its first call; however requests, deletions, trainers and saves interleave, a request
\* is told of the log of its own run and its post-mortem lies with it, or the other run
\* is one whose worker or removal outlived its row; and a saved canary set is replaced
\* only by one that overlapped (call_skill, diagnose_run, post_mortem, save_canary,
\* delete_run).
THEOREM SkillCallsStayTrue == ApiSpec => []SkillCallsAreTrue
<1>1. ServicesInv => SkillCallsAreTrue
  BY MarksAreCounted DEF ServicesInv, HS!IInv, HE!IInv, HS!SkillCallsTraced, SkillCallsAreTrue
<1> QED
  BY <1>1, ServicesInvariance, PTL

\* A metric stream that ends with the verdict has delivered the metrics recorded
\* before it, unless the run was deleted, and a tail that ends with "terminal" the log
\* up to its cap, unless the file was truncated (stream_run, _tail_file_sse).
THEOREM DoneStaysLast == ApiSpec => []DoneIsLast
<1>1. ServicesInv => DoneIsLast
  BY DEF ServicesInv, RS!IInv, DoneIsLast
<1> QED
  BY <1>1, ServicesInvariance, PTL

\* Whatever keys, outages and clocks did before: a published key is not refused as
\* unknown, a withdrawn one not accepted beyond the lifetime of the cache, and the
\* rows of a listing are of the tenant (verify_jwt, requires, scope_query).
THEOREM AccessStaysCurrent == ApiSpec => []AccessIsCurrent
<1>1. ServicesInv => AccessIsCurrent
  BY DEF ServicesInv, AC!IInv, AccessIsCurrent
<1> QED
  BY <1>1, ServicesInvariance, PTL

\* However previews, scans and polls interleave, the order of the scan store and its
\* entries differ in no id but one that two operations were in the middle of, and
\* settled the order is within the cap (qa_store.py).
THEOREM StoreStaysInStep == ApiSpec => []StoreInStep
<1>1. ServicesInv => StoreInStep
  BY StoreIsInStep DEF ServicesInv, StoreInStep
<1> QED
  BY <1>1, ServicesInvariance, PTL
=============================================================================
