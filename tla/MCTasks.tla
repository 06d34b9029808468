------------------------------- MODULE MCTasks -------------------------------
(* The API's background tasks that write their end to a row: the post-mortem *)
(* of a failed run and the download of a base model.  They share no data, so *)
(* a behaviour exercises one of them, the focus, and the other stays as it   *)
(* began: their product would reach nothing that one of them does not.       *)
(***************************************************************************)
EXTENDS Naturals, FiniteSets, TLC

CONSTANTS
  Runs, NoRun, Causes, NoCause, Slots, MaxFails,   \* post-mortems
  Repos, SeedRepos, SeedBackend, Backends, Jobs,   \* model registry
  MaxFaults

ASSUME TasksAssumption == MaxFails \in Nat /\ MaxFaults \in Nat /\ IsFiniteSet(Repos)

VARIABLES
  focus,
  state, cause, pm, hash, text, run, pc, saw, tasks, faults, excused, reused,
  jobs, registry, taskPc, turn, dbFaults, orphans, freedKeys

\* Both checkpoints ask for one key, and the catalog has it for the first.
Slug     == [r \in Repos |-> "slm"]
SeedKeys == {<<"slm", 1>>}

PM == INSTANCE PostMortem
MR == INSTANCE ModelRegistry

pmVars   == <<state, cause, pm, hash, text, run, pc, saw, tasks, faults, excused, reused>>
mrVars   == <<jobs, registry, taskPc, turn, dbFaults, orphans, freedKeys>>
taskVars == <<focus, pmVars, mrVars>>

TasksInit == focus \in {"post_mortem", "registry"} /\ PM!Init /\ MR!Init

TasksNext ==
  \/ focus = "post_mortem" /\ PM!Next /\ UNCHANGED <<focus, mrVars>>
  \/ focus = "registry" /\ MR!Next /\ UNCHANGED <<focus, pmVars>>

\* No task is scheduled where either begins, so the fairness of the one out of
\* focus asks for nothing.
TasksSpec == TasksInit /\ [][TasksNext]_taskVars /\ PM!Fairness /\ MR!Fairness

TasksTypeOK ==
  /\ focus = "post_mortem" => PM!TypeOK
  /\ focus = "registry" => MR!TypeOK

\* What a task leaves in its row is right: a failure is explained by its own
\* post-mortem, whatever overlapped, and a model the catalog lists is the one a
\* run asks for and is accepted for.
RowsAreRight ==
  /\ focus = "post_mortem" => PM!FailureExplained
  /\ focus = "registry" => MR!ListedIsAccepted

\* A run shown as pending gets its post-mortem, and a download comes to an end,
\* over restarts of the API.
TasksEnd == PM!PendingEnds /\ MR!DownloadEnds
=============================================================================
