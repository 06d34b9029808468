----------------------------- MODULE PostMortem -----------------------------
(* Post-mortems of failed runs: apps/api/services/post_mortem.py and the    *)
(* part of patch_run and of DELETE /runs/{id} in apps/api/routers/runs.py   *)
(* that starts them or pulls the row away under them.                       *)
(*                                                                          *)
(* A post-mortem is a task of the API's event loop: it waits for the lock   *)
(* of its run, marks the row pending, waits for one of the Slots calls the  *)
(* process allows itself, calls the model for tens of seconds, and writes   *)
(* what came back, without looking at the run again.                        *)
(***************************************************************************)
EXTENDS Naturals, FiniteSets

CONSTANTS
  Runs, NoRun,
  Causes,     \* fingerprints of a failure: error message and last log line
  NoCause,
  Slots,      \* HERMES_MAX_CONCURRENT
  MaxFails,   \* bound on the transitions into failed, one task each
  MaxFaults   \* bound on restarts and deletions together

VARIABLES
  (* rows *)
  state,      \* no such row, failed, or any other status (open)
  cause,      \* what the failure of the run looks like now
  pm,         \* post_mortem_status
  hash,       \* post_mortem_input_hash
  text,       \* the failure post_mortem is about
  (* tasks, numbered in the order they were scheduled *)
  run,        \* the run of the task
  pc,
  saw,        \* the fingerprint the task has read
  tasks,      \* how many were scheduled
  faults,
  (* history, read by the properties only *)
  excused,    \* rows a restart or a repeated PATCH left to themselves
  reused      \* ids deleted under a task

rowVars  == <<state, cause, pm, hash, text>>
taskVars == <<run, pc, saw, tasks>>
vars     == <<rowVars, taskVars, faults, excused, reused>>

Tasks == 1 .. MaxFails
Busy  == {"read", "wait", "call"}     \* the lock of the run is held

TypeOK ==
  /\ state \in [Runs -> {"absent", "open", "failed"}]
  /\ cause \in [Runs -> Causes \cup {NoCause}]
  /\ pm \in [Runs -> {"skipped", "pending", "ready", "unavailable"}]
  /\ hash \in [Runs -> Causes \cup {NoCause}]
  /\ text \in [Runs -> Causes \cup {NoCause}]
  /\ run \in [Tasks -> Runs \cup {NoRun}]
  /\ pc \in [Tasks -> {"none", "queued", "done"} \cup Busy]
  /\ saw \in [Tasks -> Causes \cup {NoCause}]
  /\ tasks \in 0 .. MaxFails /\ faults \in 0 .. MaxFaults
  /\ excused \subseteq Runs /\ reused \subseteq Runs

Init ==
  /\ state = [r \in Runs |-> "open"]
  /\ cause = [r \in Runs |-> NoCause]
  /\ pm = [r \in Runs |-> "skipped"]
  /\ hash = [r \in Runs |-> NoCause] /\ text = hash
  /\ run = [t \in Tasks |-> NoRun]
  /\ pc = [t \in Tasks |-> "none"]
  /\ saw = [t \in Tasks |-> NoCause]
  /\ tasks = 0 /\ faults = 0
  /\ excused = {} /\ reused = {}

Fault == faults < MaxFaults /\ faults' = faults + 1
Goto(t, p) == pc' = [pc EXCEPT ![t] = p]

-----------------------------------------------------------------------------
(* patch_run and delete_run                                                *)

\* PATCH status=failed.  Only the transition into failed schedules a task.
FailRun(r, c) ==
  /\ state[r] = "open" /\ tasks < MaxFails
  /\ state' = [state EXCEPT ![r] = "failed"]
  /\ cause' = [cause EXCEPT ![r] = c]
  /\ tasks' = tasks + 1
  /\ run' = [run EXCEPT ![tasks + 1] = r]
  /\ Goto(tasks + 1, "queued")
  /\ UNCHANGED <<pm, hash, text, saw, faults, excused, reused>>

\* PATCH of a run that has failed already, with another error message; or the
\* sweep and the startup recovery, which fail rows without patch_run.
FailQuietly(r, c) ==
  /\ Fault /\ state[r] # "absent"
  /\ state' = [state EXCEPT ![r] = "failed"]
  /\ cause' = [cause EXCEPT ![r] = c]
  /\ excused' = excused \cup {r}
  /\ UNCHANGED <<pm, hash, text, taskVars, reused>>

\* Any other status: requeued, trained again by a late worker, cancelled.
LeaveFailed(r) ==
  /\ state[r] = "failed"
  /\ state' = [state EXCEPT ![r] = "open"]
  /\ UNCHANGED <<cause, pm, hash, text, taskVars, faults, excused, reused>>

\* The row is deleted; its id may be the next one allotted.
DeleteRun(r) ==
  /\ Fault /\ state[r] # "absent"
  /\ state' = [state EXCEPT ![r] = "absent"]
  /\ cause' = [cause EXCEPT ![r] = NoCause]
  /\ pm' = [pm EXCEPT ![r] = "skipped"]
  /\ hash' = [hash EXCEPT ![r] = NoCause]
  /\ text' = [text EXCEPT ![r] = NoCause]
  /\ reused' = IF \E t \in Tasks : run[t] = r /\ pc[t] \in Busy \cup {"queued"}
               THEN reused \cup {r} ELSE reused
  /\ excused' = excused \ {r}
  /\ UNCHANGED taskVars

CreateRun(r) ==
  /\ state[r] = "absent"
  /\ state' = [state EXCEPT ![r] = "open"]
  /\ UNCHANGED <<cause, pm, hash, text, taskVars, faults, excused, reused>>

-----------------------------------------------------------------------------
(* generate_for_run                                                        *)

LockFreeAlways(r) == TRUE  \* mutant: no lock
LockFree(r) == ~\E t \in Tasks : run[t] = r /\ pc[t] \in Busy

Lock(t) ==
  /\ pc[t] = "queued" /\ LockFree(run[t])
  /\ Goto(t, "read")
  /\ UNCHANGED <<rowVars, run, saw, tasks, faults, excused, reused>>

\* The fingerprint has been answered before.
Answered(r) == hash[r] = cause[r] /\ pm[r] \in {"ready", "unavailable"}

SkipRun(t) ==
  /\ pc[t] = "read"
  /\ state[run[t]] # "failed" \/ Answered(run[t])
  /\ Goto(t, "done")
  /\ UNCHANGED <<rowVars, run, saw, tasks, faults, excused, reused>>

MarkPending(t) ==
  /\ pc[t] = "read"
  /\ state[run[t]] = "failed" /\ ~Answered(run[t])
  /\ pm' = [pm EXCEPT ![run[t]] = "pending"]
  /\ hash' = [hash EXCEPT ![run[t]] = cause[run[t]]]
  /\ saw' = [saw EXCEPT ![t] = cause[run[t]]]
  /\ Goto(t, "wait")
  /\ UNCHANGED <<state, cause, text, run, tasks, faults, excused, reused>>

CallSkill(t) ==
  /\ pc[t] = "wait"
  /\ Cardinality({u \in Tasks : pc[u] = "call"}) < Slots
  /\ Goto(t, "call")
  /\ UNCHANGED <<rowVars, run, saw, tasks, faults, excused, reused>>

\* Every exception of the call is turned into "unavailable".
StoreResult(t) ==
  /\ pc[t] = "call" /\ state[run[t]] # "absent"
  /\ \E s \in {"ready", "unavailable"} : pm' = [pm EXCEPT ![run[t]] = s]
  /\ text' = [text EXCEPT ![run[t]] = saw[t]]
  /\ excused' = IF saw[t] = cause[run[t]] THEN excused \ {run[t]} ELSE excused
  /\ Goto(t, "done")
  /\ UNCHANGED <<state, cause, hash, run, saw, tasks, faults, reused>>

RowGone(t) ==
  /\ pc[t] = "call" /\ state[run[t]] = "absent"
  /\ Goto(t, "done")
  /\ UNCHANGED <<rowVars, run, saw, tasks, faults, excused, reused>>

\* The API process dies with its tasks; nothing looks for pending rows.
RestartAPI ==
  /\ Fault
  /\ pc' = [t \in Tasks |-> IF pc[t] \in Busy \cup {"queued"} THEN "done" ELSE pc[t]]
  /\ excused' = excused \cup {run[t] : t \in {u \in Tasks : pc[u] \in Busy \cup {"queued"}}}
  /\ UNCHANGED <<rowVars, run, saw, tasks, reused>>

-----------------------------------------------------------------------------
TaskStep(t) == Lock(t) \/ SkipRun(t) \/ MarkPending(t) \/ CallSkill(t) \/ StoreResult(t) \/ RowGone(t)

Next ==
  \/ \E r \in Runs :
       \/ LeaveFailed(r) \/ DeleteRun(r) \/ CreateRun(r)
       \/ \E c \in Causes : FailRun(r, c) \/ FailQuietly(r, c)
  \/ \E t \in Tasks : TaskStep(t)
  \/ RestartAPI

\* The loop runs its tasks and the call has a timeout.  Weak fairness is enough
\* for the lock and the slot: a task holds each of them once.
Fairness == \A t \in Tasks : WF_vars(TaskStep(t))
Spec == Init /\ [][Next]_vars /\ Fairness

-----------------------------------------------------------------------------
(* Properties                                                              *)

\* A failure is explained by its own post-mortem: when no task is left for a
\* failed run, what its row says was made for the failure it shows, however
\* failures, requeues and tasks overlapped; except where a restart took the
\* task or a failure was written past patch_run.
FailureExplained ==
  \A r \in Runs \ (excused \cup reused) :
    state[r] = "failed" /\ (\A t \in Tasks : run[t] = r => pc[t] \in {"none", "done"})
      => pm[r] \in {"ready", "unavailable"} /\ text[r] = cause[r]

\* A row shown as pending gets its answer, unless the API restarted or the id
\* was deleted: no task waits for ever on a lock, a slot or a failing call.
PendingEnds ==
  \A r \in Runs : pm[r] = "pending" ~> (pm[r] # "pending" \/ r \in excused \cup reused)

-----------------------------------------------------------------------------
(* The inductive invariant                                                 *)

\* Tasks are numbered in the order they were scheduled, each has its run, and the
\* lock of a run has one holder.
TasksInOrder ==
  /\ \A t \in Tasks : (t > tasks => pc[t] = "none") /\ (pc[t] # "none" => run[t] \in Runs)
  /\ \A t, u \in Tasks : run[t] = run[u] /\ pc[t] \in Busy /\ pc[u] \in Busy => t = u

\* While a task waits or calls, its row is pending for what the task has read.
RowIsPending(t) ==
  pc[t] \in {"wait", "call"} /\ run[t] \notin reused
    => pm[run[t]] = "pending" /\ hash[run[t]] = saw[t]

\* The hash names the failure that the text is about.
TextIsHashed(r) == r \notin reused /\ pm[r] \in {"ready", "unavailable"} => text[r] = hash[r]

\* A failure that patch_run has seen is about to be read by a task, has been read
\* by the one that calls, or is answered.
FailureIsHandled(r) ==
  r \notin excused \cup reused /\ state[r] = "failed"
    => \/ \E t \in Tasks : run[t] = r /\ pc[t] \in {"queued", "read"}
       \/ \E t \in Tasks : run[t] = r /\ pc[t] \in {"wait", "call"} /\ saw[t] = cause[r]
       \/ Answered(r)

IInv ==
  /\ TypeOK /\ TasksInOrder
  /\ \A t \in Tasks : RowIsPending(t)
  /\ \A r \in Runs : TextIsHashed(r) /\ FailureIsHandled(r)
=============================================================================
