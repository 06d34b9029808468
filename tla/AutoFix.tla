------------------------------ MODULE AutoFix ------------------------------
(***************************************************************************)
(* The development-mode repair of captured errors: reporter.py, autofix.py *)
(* and their helpers in packages/error_responder.                          *)
(*                                                                         *)
(* The API and every worker process dispatch the errors they capture.  A   *)
(* dispatch checks the shared git workspace, takes a file lock, lets an    *)
(* agent edit a new branch in place, and commits the result when a gate of *)
(* tests passes or reverts it; what was not repaired becomes an issue.     *)
(* The checks come before the lock.  An edit to a tracked file and the new *)
(* test of a repair are told apart because git treats them differently.    *)
(***************************************************************************)
EXTENDS Naturals, FiniteSets, Sequences

CONSTANTS
  Procs,        \* the processes that capture errors
  Fingerprints,
  NoProc,
  Cap,          \* AUTOFIX_MAX_ATTEMPTS_PER_FINGERPRINT_24H, in one such window
  MaxErrors,    \* bound on the errors captured
  MaxFaults     \* bound on crashes, on git commands that fail and on database errors

ASSUME AutoFixAssumption ==
  /\ NoProc \notin Procs /\ IsFiniteSet(Procs) /\ Procs # {}
  /\ Cap \in Nat /\ MaxErrors \in Nat /\ MaxFaults \in Nat

VARIABLES
  head,       \* the branch checked out: 0 is main, 1 the developer's, or a sandbox
  branches,   \* the sandboxes that exist
  edited,     \* whose uncommitted edits the tracked files carry
  untracked,  \* whose test files lie in the tree untracked
  stash,      \* whose edits git stash holds, the newest last
  commits,    \* the repairs whose edits a sandbox's commit holds
  lock,       \* the holder of the file lock
  pc, fp,     \* a process: where it stands and the error it dispatches
  orig, mine, \* the branch it started on and its sandbox
  rows,       \* AutoFixAttempt rows of a fingerprint, counted up to Cap
  errors, faults,
  (* history, read by the properties only *)
  attempts,   \* the agent runs of a fingerprint
  gated,      \* whose edits were in the tree when a sandbox's tests passed
  mishap      \* what upset the workspace: a repair "broken" off, a pop "refused"

gitVars  == <<head, branches, edited, untracked, stash, commits>>
procVars == <<fp, orig, mine>>
histVars == <<attempts, gated, mishap>>
vars == <<gitVars, lock, pc, procVars, rows, errors, faults, histVars>>

\* Repairs and their sandboxes are numbered from 2; 1 stands for the developer.
Main == 0
Developer == 1
Repairs == 2 .. MaxErrors + 1
Landed == {n \in branches : commits[n] # {}}

UsesGit == {"sandbox", "stash", "prefix", "commit", "reset", "restore"}
Phases  == {"idle", "workspace", "attempts", "lock", "sdk", "verify", "deploy", "escalate"} \cup UsesGit

Files == {Developer} \cup Repairs

TypeOK ==
  /\ head \in {Main, Developer} \cup Repairs
  /\ branches \subseteq Repairs
  /\ edited \subseteq Files /\ untracked \subseteq Repairs
  /\ stash \in Seq(Repairs)
  /\ commits \in [Repairs -> SUBSET Files]
  /\ lock \in Procs \cup {NoProc}
  /\ pc \in [Procs -> Phases] /\ fp \in [Procs -> Fingerprints]
  /\ orig \in [Procs -> {Main, Developer} \cup Repairs]
  /\ mine \in [Procs -> {Developer} \cup Repairs]
  /\ rows \in [Fingerprints -> 0 .. Cap]
  /\ errors \in 0 .. MaxErrors /\ faults \in 0 .. MaxFaults
  /\ attempts \in [Fingerprints -> 0 .. MaxErrors]
  /\ gated \in [Repairs -> SUBSET Files]
  /\ mishap \subseteq {"broken", "refused"}

Init ==
  /\ head = Developer /\ branches = {} /\ edited = {} /\ untracked = {}
  /\ stash = <<>> /\ commits = [n \in Repairs |-> {}]
  /\ lock = NoProc
  /\ pc = [p \in Procs |-> "idle"] /\ fp \in [Procs -> Fingerprints]
  /\ orig = [p \in Procs |-> Developer] /\ mine = [p \in Procs |-> Developer]
  /\ rows = [f \in Fingerprints |-> 0]
  /\ errors = 0 /\ faults = 0
  /\ attempts = [f \in Fingerprints |-> 0] /\ gated = [n \in Repairs |-> {}]
  /\ mishap = {}

Goto(p, next) == pc' = [pc EXCEPT ![p] = next]

Fault == faults < MaxFaults /\ faults' = faults + 1

\* _update_attempt and _persist_attempt insert a row each, unless the database
\* refuses, which they ignore; more than Cap rows are all the same to the only
\* reader, the count of preflight.
AddRow(p) ==
  \/ rows' = [rows EXCEPT ![fp[p]] = IF @ < Cap THEN @ + 1 ELSE Cap] /\ UNCHANGED faults
  \/ Fault /\ UNCHANGED rows

-----------------------------------------------------------------------------
(* Before the lock                                                         *)

\* An uncaught exception, captured and dispatched by the process it hit.
Capture(p) ==
  /\ pc[p] = "idle" /\ errors < MaxErrors
  /\ errors' = errors + 1
  /\ \E f \in Fingerprints : fp' = [fp EXCEPT ![p] = f]
  /\ Goto(p, "workspace")
  /\ UNCHANGED <<gitVars, lock, orig, mine, rows, faults, histVars>>

\* Auto-fix is off, or another gate of preflight refuses: settings,
\* credentials, the denylist, NO_AUTOFIX, or those below.
Refuse(p) ==
  /\ pc[p] \in {"workspace", "attempts"}
  /\ \/ AddRow(p)
     \/ pc[p] = "workspace" /\ UNCHANGED <<rows, faults>>
  /\ Goto(p, "escalate")
  /\ UNCHANGED <<gitVars, lock, procVars, errors, histVars>>

\* git status --porcelain: edits and untracked files alike.
CheckWorkspace(p) ==
  /\ pc[p] = "workspace"
  /\ head # Main /\ edited = {} /\ untracked = {}
  /\ Goto(p, "attempts")
  /\ UNCHANGED <<gitVars, lock, procVars, rows, errors, faults, histVars>>

\* The count falls back to none when the database refuses.
CountAttempts(p) ==
  /\ pc[p] = "attempts"
  /\ \/ rows[fp[p]] < Cap /\ UNCHANGED faults
     \/ 0 < Cap /\ Fault
  /\ Goto(p, "lock")
  /\ UNCHANGED <<gitVars, lock, procVars, rows, errors, histVars>>

\* flock with LOCK_NB, and the branch to come back to.
TakeLock(p) ==
  /\ pc[p] = "lock" /\ lock = NoProc
  /\ lock' = p
  /\ orig' = [orig EXCEPT ![p] = head]
  /\ Goto(p, "sandbox")
  /\ UNCHANGED <<gitVars, fp, mine, rows, errors, faults, histVars>>

LockTaken(p) ==
  /\ pc[p] = "lock" /\ lock # NoProc
  /\ AddRow(p)
  /\ Goto(p, "escalate")
  /\ UNCHANGED <<gitVars, lock, procVars, errors, histVars>>

-----------------------------------------------------------------------------
(* In the workspace                                                        *)

\* One more than the last, told by a stamp in the branch's name.
NextRepair == 2 + Cardinality({n \in Repairs : \E p \in Procs : mine[p] >= n})

\* git checkout -b, which carries whatever the tree holds.
Sandbox(p) ==
  /\ pc[p] = "sandbox"
  /\ mine' = [mine EXCEPT ![p] = NextRepair]
  /\ head' = NextRepair /\ branches' = branches \cup {NextRepair}
  /\ attempts' = [attempts EXCEPT ![fp[p]] = @ + 1]
  /\ Goto(p, "sdk")
  /\ UNCHANGED <<edited, untracked, stash, commits, lock, fp, orig, rows, errors, faults, gated, mishap>>

SandboxFails(p) ==
  /\ pc[p] = "sandbox"
  /\ AddRow(p)
  /\ lock' = NoProc
  /\ Goto(p, "escalate")
  /\ UNCHANGED <<gitVars, procVars, errors, histVars>>

\* The agent edits sources and writes a test, either or both, before it
\* returns a manifest, or times out or returns something unreadable.
RunSDK(p) ==
  /\ pc[p] = "sdk"
  /\ edited' \in {edited, edited \cup {mine[p]}}
  /\ untracked' \in {untracked, untracked \cup {mine[p]}}
  /\ \E next \in {"stash", "reset"} : Goto(p, next)
  /\ UNCHANGED <<head, branches, stash, commits, lock, procVars, rows, errors, faults, histVars>>

StashEverything(p) ==  \* mutant: the stash has no pathspec
  /\ pc[p] = "stash"
  /\ \E n \in edited : edited' = edited \ {n} /\ stash' = Append(stash, n)
  /\ Goto(p, "prefix")
  /\ UNCHANGED <<head, branches, untracked, commits, lock, procVars, rows, errors, faults, histVars>>

\* Stash the sources the manifest names, none for a vacuous fix.  Success is
\* read off the list, where an entry left by an earlier repair counts too.
StashSources(p) ==
  /\ pc[p] = "stash"
  /\ \/ /\ mine[p] \in edited
        /\ edited' = edited \ {mine[p]} /\ stash' = Append(stash, mine[p])
        /\ Goto(p, "prefix")
     \/ /\ UNCHANGED <<edited, stash>>
        /\ Goto(p, IF stash = <<>> THEN "reset" ELSE "prefix")
  /\ UNCHANGED <<head, branches, untracked, commits, lock, procVars, rows, errors, faults, histVars>>

\* git stash pop, whose end nobody looks at (_unstash).  It applies the newest
\* entry, whoever made it.
Newest == stash[Len(stash)]

PopApplies ==
  /\ edited' = edited \cup {Newest}
  /\ stash' = SubSeq(stash, 1, Len(stash) - 1)
  /\ UNCHANGED mishap

\* It is refused where an edit, the developer's say, touches a file of the entry.
PopRefused ==
  /\ edited # {}
  /\ mishap' = mishap \cup {"refused"}
  /\ UNCHANGED <<edited, stash>>

\* An entry made on another branch may conflict: it is applied and stays.
PopConflicts(p) ==
  /\ Newest # mine[p]
  /\ edited' = edited \cup {Newest}
  /\ mishap' = mishap \cup {"refused"}
  /\ UNCHANGED stash

ForgetStash(p) ==  \* mutant: a test that times out returns before the pop
  /\ pc[p] = "prefix"
  /\ \/ PopApplies /\ Goto(p, "verify")
     \/ Goto(p, "reset") /\ UNCHANGED <<edited, stash, mishap>>
  /\ UNCHANGED <<head, branches, untracked, commits, lock, procVars, rows, errors, faults,
                 attempts, gated>>

\* The new test ran without the fix and the stash is popped; the gate goes on
\* only if it failed.
TestWithoutFix(p) ==
  /\ pc[p] = "prefix"
  /\ PopApplies \/ PopRefused \/ PopConflicts(p)
  /\ \E next \in {"verify", "reset"} : Goto(p, next)
  /\ UNCHANGED <<head, branches, untracked, commits, lock, procVars, rows, errors, faults,
                 attempts, gated>>

\* The test with the fix, then the whole suite.  The test failed without the fix,
\* so that it passes takes an edit: the repair's, or the developer's since then.
TestsFail(p) ==
  /\ pc[p] = "verify"
  /\ Goto(p, "reset")
  /\ UNCHANGED <<gitVars, lock, procVars, rows, errors, faults, histVars>>

TestsPass(p) ==
  /\ pc[p] = "verify"
  /\ mine[p] \in untracked /\ edited # {}
  /\ gated' = [gated EXCEPT ![mine[p]] = edited]
  /\ Goto(p, "commit")
  /\ UNCHANGED <<gitVars, lock, procVars, rows, errors, faults, attempts, mishap>>

\* git add -A takes the whole tree.
Commit(p) ==
  /\ pc[p] = "commit"
  /\ commits' = [commits EXCEPT ![mine[p]] = edited]
  /\ edited' = {} /\ untracked' = {}
  /\ Goto(p, "deploy")
  /\ UNCHANGED <<head, branches, stash, lock, procVars, rows, errors, faults, histVars>>

\* The add has made edits of the new files.
CommitFails(p) ==
  /\ pc[p] = "commit"
  /\ edited' = edited \cup untracked /\ untracked' = {}
  /\ Goto(p, "reset")
  /\ UNCHANGED <<head, branches, stash, commits, lock, procVars, rows, errors, faults, histVars>>

\* Nothing to do, or push and open a pull request, which may fail.
Deploy(p) ==
  /\ pc[p] = "deploy"
  /\ AddRow(p)
  /\ lock' = NoProc
  /\ \E next \in {"idle", "escalate"} : Goto(p, next)
  /\ UNCHANGED <<gitVars, procVars, errors, histVars>>

SkipReset(p) ==  \* mutant: the checkout is not preceded by the reset
  /\ pc[p] = "reset"
  /\ Goto(p, "restore")
  /\ UNCHANGED <<gitVars, lock, procVars, rows, errors, faults, histVars>>

\* revert_sandbox: git reset --hard spares untracked files.
Reset(p) ==
  /\ pc[p] = "reset"
  /\ edited' = {}
  /\ Goto(p, "restore")
  /\ UNCHANGED <<head, branches, untracked, stash, commits, lock, procVars, rows, errors, faults, histVars>>

Restore(p) ==
  /\ pc[p] = "restore"
  /\ head' = orig[p] /\ branches' = branches \ {mine[p]}
  /\ AddRow(p)
  /\ lock' = NoProc
  /\ Goto(p, "escalate")
  /\ UNCHANGED <<edited, untracked, stash, commits, procVars, errors, histVars>>

\* The GitHub issue, or only its row: the storm cap, no token, an API error.
Escalate(p) ==
  /\ pc[p] = "escalate"
  /\ AddRow(p)
  /\ Goto(p, "idle")
  /\ UNCHANGED <<gitVars, lock, procVars, errors, histVars>>

-----------------------------------------------------------------------------
(* Faults and the developer                                                *)

\* A git command times out, or the process dies: either way the lock is
\* released and the workspace stays as it is.
BreakOff(p, next) ==
  /\ Fault
  /\ mishap' = IF lock = p THEN mishap \cup {"broken"} ELSE mishap
  /\ lock' = IF lock = p THEN NoProc ELSE lock
  /\ Goto(p, next)
  /\ UNCHANGED <<gitVars, procVars, rows, errors, attempts, gated>>

GitTimesOut(p) == pc[p] \in UsesGit /\ BreakOff(p, "escalate")
Crash(p)       == pc[p] # "idle" /\ BreakOff(p, "idle")

\* The reset is refused, say for another's index.lock, and revert_sandbox goes on.
ResetFails(p) ==
  /\ pc[p] = "reset" /\ Fault
  /\ mishap' = mishap \cup {"broken"}
  /\ Goto(p, "restore")
  /\ UNCHANGED <<gitVars, lock, procVars, rows, errors, attempts, gated>>

\* The developer edits at any time, and commits, discards or changes branches
\* while no repair holds the lock.
DeveloperEdits ==
  /\ edited' = edited \cup {Developer}
  /\ UNCHANGED <<head, branches, untracked, stash, commits>>

DeveloperCleans ==
  /\ lock = NoProc
  /\ edited' = {} /\ untracked' = {}
  /\ head' \in {Main, Developer} \cup branches
  /\ UNCHANGED <<branches, stash, commits>>

DeveloperStep ==
  /\ DeveloperEdits \/ DeveloperCleans
  /\ UNCHANGED <<lock, pc, procVars, rows, errors, faults, histVars>>

-----------------------------------------------------------------------------
DispatchStep(p) ==
  \/ Refuse(p) \/ CheckWorkspace(p) \/ CountAttempts(p)
  \/ TakeLock(p) \/ LockTaken(p)
  \/ Sandbox(p) \/ SandboxFails(p) \/ RunSDK(p)
  \/ StashSources(p) \/ TestWithoutFix(p) \/ TestsFail(p) \/ TestsPass(p)
  \/ Commit(p) \/ CommitFails(p) \/ Deploy(p)
  \/ Reset(p) \/ Restore(p) \/ Escalate(p)

Next ==
  \/ \E p \in Procs : Capture(p) \/ DispatchStep(p) \/ GitTimesOut(p) \/ ResetFails(p) \/ Crash(p)
  \/ DeveloperStep

Spec == Init /\ [][Next]_vars

-----------------------------------------------------------------------------
(* Properties                                                              *)

\* The workspace is the developer's or a landed repair's: no edit or sandbox of a
\* failed one is left.
TreeSettled ==
  /\ edited \subseteq {Developer}
  /\ head \in {Main, Developer} \cup Landed
  /\ branches = Landed

\* With the lock free the workspace is settled, whatever the developer edited and
\* the database lost meanwhile, unless a repair was broken off in it; and the stash
\* holds an entry only if a pop was refused, which revert_sandbox does not undo.
WorkspaceSettled ==
  lock = NoProc /\ "broken" \notin mishap =>
    TreeSettled /\ (stash # <<>> => "refused" \in mishap)

\* Of the edits the processes make, a repair's commit holds those its tests
\* passed with; without a mishap these are its own, and no failed repair's.
CommittedWasVerified ==
  \A n \in Landed :
    /\ commits[n] \ {Developer} = gated[n] \ {Developer}
    /\ mishap = {} => commits[n] \ {Developer} = {n}

\* The cap bounds the agent runs of a fingerprint but for one per process that
\* had counted the attempts before the last of them was recorded, and one per
\* row that a fault kept from being written or counted.
AttemptsBounded ==
  \A f \in Fingerprints : attempts[f] < Cap + Cardinality(Procs) + faults

\* A repair lands only behind its tests and within the attempts its error is
\* allowed (verify_with_tests, deploy_fix, the attempt cap).
RepairIsGated == CommittedWasVerified /\ AttemptsBounded

-----------------------------------------------------------------------------
(* The inductive invariant                                                 *)

Repairing == {"sdk", "stash", "prefix", "verify", "commit", "reset", "restore"}
Holding   == Repairing \cup {"sandbox", "deploy"}

\* The lock is held from TakeLock to the release, and by one process.
LockIsHeld == \A p \in Procs : pc[p] \in Holding <=> lock = p

\* The processes whose error may still be given a sandbox.
Waiting == {p \in Procs : pc[p] \in {"workspace", "attempts", "lock", "sandbox"}}

\* k sandboxes were made, numbered without a gap; nothing is known of a later one.
Numbered(k) ==
  /\ (\A p \in Procs : mine[p] <= k + 1) /\ (k = 0 \/ \E p \in Procs : mine[p] = k + 1)
  /\ k + Cardinality(Waiting) <= errors
  /\ \A n \in Repairs : commits[n] # {} => n <= k + 1
  /\ \A f \in Fingerprints : attempts[f] <= k

\* A repair under way is committed to by nobody yet, and what it is about to
\* commit is what its tests passed with.
RepairUnderWay(p) ==
  /\ pc[p] \in Repairing => mine[p] \in Repairs /\ commits[mine[p]] = {}
  /\ pc[p] = "prefix" => stash # <<>>
  /\ pc[p] = "commit" => edited # {} /\ edited \ {Developer} = gated[mine[p]] \ {Developer}

\* What the workspace holds while a process repairs, nothing having broken off.
OnlyRepair(p) ==
  /\ pc[p] \in {"sandbox", "deploy"} => TreeSettled
  /\ pc[p] \in Repairing \cup {"sandbox"} => orig[p] \in {Main, Developer} \cup Landed
  /\ pc[p] \in Repairing => head = mine[p] /\ branches = Landed \cup {mine[p]}
  /\ pc[p] = "restore" => edited \subseteq {Developer}

\* And without a pop refused, the stash and the tree hold its own edits.
OwnEdits(p) ==
  /\ pc[p] \in Holding => stash = IF pc[p] = "prefix" THEN <<mine[p]>> ELSE <<>>
  /\ pc[p] \in Repairing \ {"reset"} => edited \subseteq {Developer, mine[p]}
  /\ pc[p] \in {"verify", "commit"} => mine[p] \in edited

\* Of the runs on a fingerprint: the processes that counted its attempts and have
\* not begun, and the one whose row is to come.
Counted(f) == {p \in Procs : fp[p] = f /\ pc[p] \in {"lock", "sandbox"}}
Unrowed(f) == {p \in Procs : fp[p] = f /\ pc[p] \in Repairing \cup {"deploy"}}

AttemptsCounted(f) ==
  /\ attempts[f] + Cardinality(Counted(f)) < Cap + Cardinality(Procs) + faults
  /\ rows[f] < Cap => attempts[f] <= rows[f] + Cardinality(Unrowed(f)) + faults

IInv ==
  /\ TypeOK /\ LockIsHeld
  /\ \E k \in 0 .. MaxErrors : Numbered(k)
  /\ \A p \in Procs : RepairUnderWay(p)
  /\ "broken" \notin mishap => \A p \in Procs : OnlyRepair(p)
  /\ mishap = {} => \A p \in Procs : OwnEdits(p)
  /\ \A f \in Fingerprints : AttemptsCounted(f)
  /\ WorkspaceSettled /\ CommittedWasVerified
=============================================================================
