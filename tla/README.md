# SLM-Forge in TLA+

SLM-Forge fine-tunes small language models: a FastAPI control plane with an
SQLite database, worker processes that poll it over HTTP, background jobs in
the API process, an object store, a set of language-model skills ("Hermes"),
and an error responder that repairs the code it runs from.  The modules here
model the parts of it that are concurrent, can fail half way or compute
something easy to get wrong, check them with TLC on small instances, and prove
the invariants of the most important of them for every value of the constants
with TLAPS.  Everything is translated from the sources under `src/`;
`PROJECT.json` maps each definition to the lines it stands for and lists, line
by line, the hazards the properties are aimed at.

## The system

| Part | State it keeps | Operations | Hard because |
|---|---|---|---|
| Run queue (`apps/api/services/claims.py`, `routers/runs.py`) | rows of `runs`: status, `claimed_by`, `claimed_at`, metrics | create, claim (sweep, select, compare-and-swap), PATCH, metric, delete | requests interleave on a thread pool; a claim is three transactions; leases |
| Trainer worker (`packages/trainer`) | the run it was handed, a training process | poll, find the dataset, train, parse, report, upload | answers get lost, workers die and come back as zombies |
| Startup recovery (`apps/api/main.py`) | none; rewrites runs and sessions | at every API start | workers and loops are still alive meanwhile |
| Ratchet worker (`packages/ratchet`) | its locals: best run and metric, streak | propose, create a run, wait, judge, record, export | each call may fail; the row is rewritten by users and by recovery |
| Ingest (`services/ingest_jobs.py`, `routers/ingest_v2.py`, `packages/dataset_ingest`) | rows, blobs, staging and dataset directories | detect, parse, clean, split, rename, mark | check-then-rename; one step of many may fail; two readers of one format |
| Exports (`routers/exports.py`, `packages/exporter`) | rows of `exports`, files | create, PATCH, delete; fuse, convert, quantize | no claim, no lease; PATCHes are best effort |
| Synthesis, research (`routers/synth.py`, `routers/research.py`, their engines) | in-memory registry, history, subscriber queues | start, report, finish, stream, snapshot | loop and threads; bounded queues; late and slow clients |
| Chat (`routers/chat.py`, `packages/chat_agent`) | stored turns, a token budget, tools | post, stream, replay, summarize, call a tool | tabs overlap; a POST of a tool may be lost after it took effect |
| Agents (`packages/agents`), traces (`services/tracing.py`, `routers/traces.py`) | a span row per run, an event list | run, stream, record, clear | a thread appends while the loop sends |
| Hermes (`packages/ratchet/hermes_bridge.py`, `routers/hermes.py`) | skill files, `hermes_traces`, canary sets, reports | list, call with retries, store | minutes pass between what is read and what is written |
| Post-mortems, QA store (`services/post_mortem.py`, `services/qa_store.py`) | columns of `runs`; a bounded cache | generate; list, scan, evict | long call between read and write; two structures kept in step by hand |
| Model registry (`routers/models.py`, `services/model_download_jobs.py`) | registry rows, download jobs | start, mark, upsert, reconcile | two transactions per registration, a race on the key |
| Object store (`services/storage`, `packages/storage_sync.py`) | buckets, files | ensure, put, sync | nothing is retried, failures are swallowed |
| Identity (`middleware/auth.py`, `services/identity.py`, `scoping.py`, OPA) | key cache | per request | cache expiry, rotation, outages |
| Workers' clients (`packages/_api_client.py`, `ratchet/heartbeat.py`), MCP server | heartbeat rows | post, call a tool | timeouts against a staleness limit |
| Error responder (`packages/error_responder`) | git workspace, file lock, `auto_fix_attempt` rows, a queue | capture, preflight, gate, commit or revert, report | several processes and a developer share one workspace |

How they interact.  Workers only ever talk to the API: they poll for queued
rows and PATCH them.  The ratchet worker creates runs that trainers execute
and waits for them by polling.  A run's verdict starts two background tasks of
the API, the post-mortem and the sync of its artifacts.  The API's startup
rewrites rows that workers still believe in.  Background jobs live on the API's
event loop, hand blocking work to threads and share directories with the
synchronous endpoints.  The chat agent and the MCP server are clients of the
same endpoints.  The error responder runs inside each of these processes.

What makes each correct: claims exclude each other and none is lost for ever;
a completed run was trained and its report is true; the ratchet only improves
and its row, runs and export agree; an acknowledged upload is never lost, is
read whole, and one dataset has one author; a completed export has its files; a
stream delivers its events in order and ends; what is stored of a conversation,
a call or a failure is that of its own; a repair commits only what its tests
passed with and leaves the workspace settled.

## Modules

One module per component.  Each says in its head which files it models; a
definition whose comment says `mutant:` is a plausible bug that some property
must catch and is not part of any specification.

### Runs

`RunClaims`: `status`, `owner`, `recent` and `fields` are the row (`owner` is
`claimed_by` with `claimed_at`, `recent` says that the last activity is within
the lease, `fields` which nullable columns are set).  A worker's claim request
is `SweepRead`, `SweepWrite` or `SweepConflict`, `SelectCandidates`, then
`TryClaim` or `TryNext` per candidate: one action per transaction of
`claims.py`, so two requests interleave between them.  `StartTraining`,
`PostMetric`, `ExitZero`, `ExitNonZero`, `FinishJob`, `RejectJob` are
`run_training_job`; every PATCH may be lost (`NoPatch`).  `CancelRun`,
`DeleteRun` are users, `RestartAPI` the recovery of runs, `LeaseLapses` the
clock, `DropJob` a crash.  SQLite uses a deleted last id again: ids deleted
under a worker are collected in `haunted` and left out of the properties,
because nothing in the code tells the two rows apart.

`LeasedQueue` is what the queue promises its users: an item is granted to one
holder in one step, reports never put it back or change its holder, and only a
release does.  `RunClaims!ImplementsQueue` is the refinement: `Class` maps a
status to queued, active or closed, `owner` is the holder, and whoever has the
run as its job believes to hold it.

`RatchetLoop`: one action per HTTP call of `_run_session_inner`; the decision
rule is the operator `EvaluateIteration`.  Calls that raise lead to `GiveUp`
and `MarkFailed`; the best-effort PATCHes are swallowed.  Trainers are the
environment (`EndRun`, and `LateReport` for a worker that lost its run); users
cancel and delete; `RestartAPI` completes or fails the session row under a loop
that is still alive.

`TrainingJob` is what one training reads and reports: how the splits become a
configuration the training program accepts (`ValBatches`, the refusals), how
the lines it prints become metrics, and the final losses with the canary
evaluation, for the MLX and the CUDA backend.  `ArtifactSync` is the way of the
artifacts into the object store, with the worker's own upload beside the API's
background task.  `RunStream` has the two streams that follow a run by polling:
its metrics and the tail of its log.  `PostMortem` has the task that a failure
starts, between its lock, its slot, its call and its write.  `WorkerClients`
has the heartbeat thread with its timeout against the readers' 30 s.

### Datasets

`IngestJobs`: all requests ask for one name, since others never meet.  Large
uploads become a task that checks the name (`RefuseTaken`), stages, renames
(`Publish`), deletes the blob and marks the row; synchronous requests write the
directory file by file.  `POST /file` writes within one turn of the event loop,
so it is the case of a synchronous request whose steps are consecutive.

`Conversion` is what an upload of any format becomes on either path: detection
by name and by content, the known formats, the tables, and the model's help
with everything else.  `CsvRows` cuts a file into rows, by quote parity over
chunks that end anywhere, beside Python's `csv` reader.  `CsvChat` chooses the
columns and cleans rows into records, of a whole file or row by row behind a
buffer; the whole file is first read by four delimiters and the best is taken
(`Picked`), while the stream knows the comma only.  `DatasetSplits` has the four splitting rules: `auto_split`, the
streaming writer, the clamp of a synthesis and the staged finalize with the
files it leaves.  `SynthEngine` has the batches of a synthesis.  `DatasetPaths`
says which directory a name means for the API, a trainer beside it and one on
another machine, and who may see it.

### Exports, models, jobs in memory

`ExportQueue`: rows and files are two stores.  Each PATCH and each tool of the
pipeline is an action; a PATCH may be lost, the process may die, users cancel
and delete (`haunted` as in RunClaims), and the exporter takes the newest
queued row.  `ModelRegistry` has the download jobs, whose one turn of the loop
is two transactions, the upsert on the registry key, and the catalog a run
request is validated against.

`JobStream`: the event loop runs one turn at a time (`turn` is the turn that
ends a job, taken apart because the threads of the snapshot endpoints may look
in between).  A job's thread only schedules calls, which the loop runs in
order.  `Publish` feeds the history and every subscriber's bounded queue; a
stream is opened, subscribes (replay and registration in one turn), delivers,
times out or disconnects.  `synth.py` and `research.py` have the same code but
for the check of the source (`SourceCanVanish`).  `ResearchEngine` is the
pipeline of a report, with the fallback of every call.  `QAStore` has the scan
store: a dictionary and an insertion order, written by pool threads and the
loop without a lock around the pair.

### Language-model callers

`ChatTurns` is one conversation: messages, replay, fitting to the token budget,
the graph and the stored turn, for streams of several tabs.  `ClientTools` has
the tools of the chat agent and of the MCP server, each by what it makes, with
requests whose answers are lost and the card the user presses to start an
experiment.  `HermesSkills` is a skill call with its retries and its trace row,
and what the Traces tab derives from the rows.  `HermesEndpoints` is what the
endpoints read before the call and store behind it, while runs are deleted and
their id is given out again: the deletion is a commit (`DeleteRow`) and a removal
of the directory some time later (`DeleteDir`), and the worker of a deleted run
still opens its log and writes its lines (`OpenLog`, `WriteLine`).  `AgentRun` has the four
agents, their event stream and the span row.

### Around them

`Access`: the key document's cache, `verify_jwt`, the policy call, identity and
the scope of a listing, while keys rotate and the provider or the policy engine
is away.

`AutoFix`: git is modelled by what the code relies on: tracked edits and
untracked files are kept apart because `reset --hard` and `checkout` treat them
differently; `edited`, `untracked`, `stash` and `commits` say whose work is
where.  A dispatch checks the workspace and counts attempts, takes the lock,
then makes its sandbox, runs the agent, stashes the sources and runs the test
without them, restores, tests, and commits or reverts.  The agent's and the
tests' outcomes are free.  A pop of the stash applies, is refused because the
developer edited meanwhile, or conflicts and leaves its entry, and the code looks
at none of it (`PopApplies`, `PopRefused`, `PopConflicts`).  A git command that
times out, or a crash, breaks off at any step; the reset may fail, and the database
may lose a row of an attempt or the count of them.  The developer edits at any time and commits, discards or switches
only while no repair holds the lock.  `ErrorReports` is what becomes of a
captured error otherwise: the queue, the storm window, the search for an open
issue, the row.

### Compositions

`MCRunClaims` instantiates `RunClaims` with the symmetry of its workers.  The other
MC modules put modules beside each other that share no data: `MCDatasets`, `MCExports`, `MCStreams`,
`MCTasks`, `MCApiTasks`.  A variable `focus`, chosen initially, names the one a
behaviour exercises; the rest keeps its initial state.  Their product would
reach no state that one of them does not, and would be far too large.  Fairness
of a part out of focus asks for nothing, because none of its fair steps is
enabled in its initial state.  A property of such a run is the conjunction of
its parts' properties, each under its focus.  `MCApiTasks` divides
`HermesEndpoints` in the same way: with the focus on runs the dataset stays as it
is and requests are about runs, with the focus on datasets the run stays.

Where components really interact they are in one module: the claim protocol,
workers, sweeps and recovery in `RunClaims`; the ratchet's loop, trainers,
users and recovery in `RatchetLoop`; jobs and synchronous requests in
`IngestJobs`; worker and background sync in `ArtifactSync`; failing, requeued
and deleted runs with their post-mortems in `PostMortem`.

## Runs

| Run | Bounds | What it shows |
|---|---|---|
| `claims` | 3 workers (symmetric), 1 id, 2 faults | Exclusion, ownership and completion under concurrent claims, sweeps, zombies, restarts, and the refinement of `LeasedQueue`. Three workers: one to hold a run, two to race for it. |
| `claims_live` | 1 worker, 2 runs, 2 faults | `NoRunIsStuck`: abandoned runs are released and queued ones served. |
| `session` | 3 rounds, patience 2, losses 0, 1, 3 with `MinDelta` 2, 1 fault | The ratchet never slips back, row, runs, export and recovery agree, the loop returns. The losses include a step too small to accept; three rounds a reject between two accepts. |
| `datasets` | see below | One author per dataset; no acknowledged upload lost; the records are those of the file; the dataset found is the one meant; jobs end. |
| `exports` | 2 exports, 1 level besides F16, 1 fault; 2 workers, 2 syncs, 1 fault; 4 sizes of dataset; 2 tool calls | Rows and files agree and a verdict stands; a training's report is true and arrives; artifacts are stored; living workers are shown; a tool call has the effect it reports. |
| `streams` | 2 jobs, registry of 1, queues of 2, 2 reports, 1 client; 3 streams of 3 posts; 2 agent runs; reports of up to 4 sections | Order, the closing event, snapshots; the context of a conversation; agents' and research answers are whole; streams end. Four events overflow a queue of two, live and in the history. |
| `tasks` | 2 runs, 3 failures, 1 slot; 2 downloads for one key; 1 fault | A row carries the post-mortem of its own failure; what the catalog lists is accepted; every task ends its row. |
| `api_tasks` | see below | Gated commits and a settled tree, beside a developer who makes pops of the stash fail; reports without storms or losses; the store in step but for ids two operations were in the middle of; "done" behind the last metric and line; true traces, and what a request reads of a run and stores with it is that run's, but for what a predecessor's worker or unremoved directory leaves; current keys. |
| `stale_sweep` | 2 workers, 1 run, 1 fault | Violation, finding 1. |
| `chat_summary` | 3 streams, 2 posts, budget 3 | Violation, finding 2. |
| `agent_skills` | as `streams` | Violation, finding 3. |
| `csv_quotes` | 5 symbols, chunks of 1 to 3 | Violation, finding 4. |

The bounds of `datasets`, one part at a time: two jobs, two synchronous uploads
and 0 to 7 records (seven is the first count with all three splits and one to
spare) with 2 faults; every file of up to 5 symbols in chunks of 1 to 3 (a
quoted field, an escaped quote and a row end fit, and every boundary between
chunks happens); every 4 rows of three columns with a sample of 2 and a buffer
of 3, so that rows arrive before and after the columns are settled, beside one
other delimiter that finds one column or two, rows of the right width or of another;
every body
of two items in every format, sent twice; up to 16 records divided with ratios
of 0 to 50 %; a synthesis of 2 records in up to 3 batches; three versions of a
dataset in the places of two tenants.

The bounds of `api_tasks`, one part at a time: 2 processes and 3 errors with a cap
of 1, a fault taking the place of an error (three errors: one to leave an entry in
the stash, one to repair beside it, one to wait for the lock; and three are what `AttemptsBounded`
forbids as long as there was no fault); 4 reports
by 2 processes with a threshold of 2; 2 ids and a store of 1; 2 trainings of a run,
3 metrics and lines; 3 skill calls and an edit; 2 symmetric requests and 2 runs
with the id, one to be deleted and one to get its id, or a dataset that goes or
comes; 3 keys and an outage.

`MaxFaults` and its kin bound crashes, lost calls and restarts together: they
bound what the environment does to a behaviour, not its length.  Other bounds
(`MaxPosts`, `MaxEdits`, `MaxTicks`, ...) limit how often users act; each is
declared with the constants of its module and guards the action it limits.
Times are counted in the unit the code's constants share (5 s in
`WorkerClients`, half a time-to-live in `Access`).

Deadlock is checked in `claims` and `claims_live`, whose users can always act.
The other models end when their users, errors or jobs are used up, so their
configurations switch it off.  The liveness properties say what must not hang
there.

Fairness, and why the code gives it:

- `RunClaims`: a worker's loop polls for ever and its training process ends
  (`WF` of its request and of its job's steps); the clock of a lease advances.
- `RatchetLoop`, `ExportQueue`: sequential processes whose calls and
  subprocesses have timeouts.
- `IngestJobs`, `PostMortem`, `ModelRegistry`: tasks of the event loop; the
  thread or call each awaits has a timeout.
- `JobStream`: the loop runs what is scheduled, a job's thread ends because its
  requests time out, a connected client reads.

Users, faults and other processes owe nothing.  `AutoFix`, `ChatTurns`,
`AgentRun`, `ArtifactSync` and the pure readers have safety properties only.

## Findings

1. `stale_sweep` (`claims.py:119`): the sweep writes back by primary key what it
   judged in an earlier read, so a run that another request has just claimed
   goes back to the queue under its new worker, against the promise of the
   module's docstring.
2. `chat_summary` (`chat.py:657`): over the token budget the head of the history
   is summarized and the summary stored, but the graph runs on the tail alone.
3. `agent_skills` (`agents/runner.py:60`): `load_skill` returns a triple, and the
   agents send it as the system prompt.  It cannot be encoded, so a step whose
   skill is installed never reaches the model; a missing skill is reported.
4. `csv_quotes` (`streaming.py:201`): a quote inside an unquoted field counts,
   so the row is joined with the rows behind it, unlike in the whole-file reader.

What the models excuse or leave open, worth knowing although no run is kept:

- Runs: a second PATCH to running revives a cancelled run without a claim, which
  no sweep looks at (`runner.py:135`).  A session cancelled during a round is set
  running and completed again (`loop.py:321`).  A completed run without a loss
  never counts towards a plateau (`decision.py:28`).  A metric-less run rejected
  by the loop and crowned by the recovery is removed by the clean-up
  (`admin.py:139`) although winners "are never touched" (`admin.py:115`).
- Trainer: the clamp of the validation batches is said never to let the program
  refuse (`mlx.py:57`), yet it does when there are fewer validation records than
  a batch.  NaN losses are dropped by the MLX pattern, and in the CUDA report
  they cannot be encoded, so the final PATCH fails.
- Datasets: the synchronous path lacks the check that a dataset can be trained
  on, which the large one has.  Five records, the smallest large upload, leave
  nothing to train on (`streaming.py:254`).  Two synchronous requests for one
  name mix their splits (`converter.py:592`), and a synthesis writes into a
  directory it looked at minutes before (`synth.py:381`).  Prose with a comma in
  every line is taken for a table.  `overwrite=true` keeps an older
  `canary.jsonl`.
- Storage: a run that had been failed before it completed is not synced, and a
  failing create of a bucket counts as success (`tenancy.py:58`).
- Synthesis: a job whose source vanished gets the status "error", which is no
  `JobStatus` (`synth.py:316`), so a snapshot of it cannot be built.
- Post-mortems: a restart during the call leaves the row pending.  The skill
  endpoint of the same name makes the directory of a deleted run anew.
- Skill endpoints: nothing keeps a run from the traces of the one that had its id
  before.  The worker of a deleted run writes its log, a post-mortem asked for before
  the deletion is stored behind it, the directory may outlive its row, and its late
  removal may take the directory of the run that got the id (`runs.py:484-490`,
  `trainer/runner.py:137`).  `ReportsAreOwn` excuses exactly these (`strays`,
  `crossed`) and says that nothing else mixes two runs.
- Large uploads: `csv_to_chat` tries `;`, tab and `|` beside the comma
  (`converter.py:239`), the streaming reader knows the comma only
  (`streaming.py:213`).  A `;` file that a small upload converts fails as a large one
  with `MappingError`, although every CSV ingest is to be converted "on **all**
  ingest paths" (`docs/specs/PHASE_INGEST_CSV_CHAT_SPEC.md:11`); where the comma finds
  two columns as well, the two paths make other records of the file.
  `StreamAgreesWithFile` is for files the comma cuts best.  Rows of the wrong width in
  the buffer may hide samples a whole file has.
- Scan store: the dictionary and the order are changed one after the other by two
  threads without a lock (`qa_store.py:73`), so an entry may stay stored although no
  list leads to it.  Neither the cap nor the time to live, which both walk the order
  and are to bound the store (`qa_store.py:4`), finds it again.  An id that is listed
  without an entry makes the next eviction raise.  `StoreInStep` excuses the ids that
  two operations were in the middle of at once (`overlapped`), and no other.
- Auto-fix: `reset --hard` spares untracked files, so the test of a failed
  repair blocks the later ones as a dirty tree (`autofix.py:188`).  A refused pop
  loses the fix to the stash while the rest of the repair goes on, and an entry
  popped by a later repair, which takes any entry on the list for the one it made
  (`autofix.py:249`), may land with it (`WorkspaceSettled` and
  `CommittedWasVerified` excuse it by `mishap`).  The cap fails open: a database error
  counts as no attempts (`autofix.py:74`), and `AttemptsBounded` allows one more run
  for each.
- Workers: two workers of one name hide each other's death, and one post given
  up beside slow ones may show a living worker down.  The token of
  `common/auth.py` is presented by no caller.
- Tools: a chat tool whose POST timed out has taken effect although the model is
  told an error.  The card of the browser forgets on a reload that it was pressed.

## Proofs

The modules named `...Proofs` prove theorems for every value of the constants:
any number of workers, runs, jobs, clients, processes, limits and faults.  They
start from nothing but the named assumptions on the constants, which say that
bounds are naturals, that a "nobody" value is none of the values it stands
beside, and else only:

| Assumption | What it asks besides |
|---|---|
| `ConstantsAssumption` (`RunClaims`) | run ids are naturals; a worker serves some of them |
| `ExportAssumption` | no quant level is named like another artifact |
| `IngestAssumption` | jobs and uploads are different things; at least one record goes into `valid` and one into `canary` (`max(1, ...)` in the splitter) |
| `RatchetAssumption` | at least one round, patience and proposal attempts of at least 1; losses are numbers |
| `StreamAssumption` | job ids are positive numbers; a queue and a registry hold at least one entry |
| `AutoFixAssumption` | finitely many processes, and at least one; `Cap` may be 0 |
| `TasksAssumption` | finitely many checkpoints |
| `ApiAssumption` | at least one key, kind of error and attempt; finitely many workers that report errors; at least one run has the id; "none" is no request |
| `ExportsAssumption` | a heartbeat times out within its interval, and two intervals and a timeout are less than the age that counts as stale; a loss is neither NaN nor `None`; finitely many calls, and a card is no call |
| `StreamsAssumption` | `KeepLastN` is positive (`chat.py:333`); `MinSections <= FallbackSections <= MaxSections`; finitely many requests, each for an agent |
| `DatasetsAssumption` | chunk sizes are naturals; columns have names, hints are of columns, texts have lengths; the buffer and the direct minimum are positive (`ingest_v2.py:60`); seeds are records; the percentages are within those of `FinalizeRequest` (`ingest.py:65`); users are not of the tenants the program keeps for itself, no tenant is named `global`, and no user like the tenant (a user id is the `sub` of the token, `identity.py:14`; `list_datasets` tells a tenant's directory by its name, `datasets.py:82`) |

The `MC...Proofs` modules reason about the compositions, and so keep the
definitions those give to some constants: checkpoints that all want one key
(`Slug`, `SeedKeys`) in `MCTasks`, the four users of `Access` with their tenants in
`MCApiTasks`, and the sizes and shapes of the datasets to train on in `MCExports`.
Everything else is arbitrary there too.

All follow one argument.  The types come first, from the actions.  The inductive
invariant `IInv` is stated in the component's own module, behind its properties,
and adds what a step needs to know of the state it starts from.  A lemma per
conjunct or per action shows that a step keeps it; `PTL` combines these with
`Init => IInv`.  TLC checked each `IInv` on the bounds of the runs before it was
proved.  What the strengthening says, and what it is for:

- `RunClaims`: `JobPhase` (a worker has a run exactly while it executes one) and
  `JobRow` (that row is there and was started; past the subprocess's exit it
  was trained).  Without `JobRow`, a `FinishJob` from an arbitrary state would
  complete an untrained run.  `JobIsOwned` and `QueuedIsUnclaimed` are what makes
  `TryClaim` safe: a claimable row is queued, hence held by nobody who was not
  swept.
- `ExportQueue`: `JobPhase`, `JobRow` (the running job's row is without a verdict)
  and `JobFiles` (the artifacts the job has made at each point of the pipeline,
  operator `Made`).  `JobFiles` at the last step gives `CompletedIsBuilt`, and
  `JobRow` gives `VerdictIsFinal`.
- `IngestJobs`: `RowPhase` and `TaskData` say what row, blob and staging
  directory are at each point of a task, so that a task that dies leaves one of
  them behind.  That a job publishes alone needs `PublishedAlone` (the directory
  of a published dataset is filled) and `FilesInDataset` (and only a filled one
  has files): the rename then refuses every later job.
- `RatchetLoop`: `RunsInOrder` (runs come one by one, and only the newest is in
  training), `VerdictIsCurrent` (what the loop read of a run is still its row),
  `LoopBest` (the loop's best run is better by `MinDelta` than every other accepted
  one) and `RowFollowsLoop` (the session's row is the loop's best, or about to be,
  or holds what a recovery derived from the run not yet judged).  The last is why
  a restart cannot make the ratchet slip; `JudgedLeavesWinner` is why a completed
  session names a winner.  Runs that a worker reported on after it had lost them
  (`late`) are left out throughout.
- `JobStream`: what a client got, what is queued for it, the history and what the
  thread has scheduled are parts of one increasing line of events: `JobLine`,
  `HistoryIsRecent`, `GotOfJob`, `QueueOfJob`, under `TurnPhase` and `JobPhase`, which
  say what the fields of a job are in the turn that ends it.  A full queue drops
  its oldest event, so the queue is always a suffix of what was published
  (`EndsWith`, with its lemmas on `Append` and `Tail`).
- `AutoFix`: `OwnEdits`, without a mishap the tree and the stash hold the developer's
  edits and those of the repair under way; `LockIsHeld`; `Numbered(k)`, sandboxes are numbered without a gap and
  there are no more than errors, so a new number is new; `RepairUnderWay` and
  `OnlyRepair`, what the workspace holds at each step of the one process that
  repairs; `AttemptsCounted`, by cardinalities: runs and processes that counted
  the attempts before the last was recorded stay below the cap, the number of
  processes and the faults together: the cap is read before the lock.
- `PostMortem`: `RowIsPending`, a task that waits or calls has its row pending and
  under the hash of what it read; `TextIsHashed`; `FailureIsHandled`, every failure
  that was seen is about to be read, read by the task that calls, or answered.
  The task that overwrites another's answer is excluded by the lock
  (`TasksInOrder`).  `ModelRegistry`: `OneEntry`, `TaskHasRow`; lemma `FreeKey` is
  the pigeonhole argument that the numbered keys do not run out.
- `RunStream`: `VerdictIsRead`, `NothingIsLost` and `TailIsCounted`; a stream reads
  the verdict before it reads the rest, so the rest is all there.  `Access`:
  `CacheIsRecent`, a fresh cache has no key that was withdrawn before it was filled.
  `QAStore`: an id is listed at most twice, and twice only while an operation is
  about to unlist it (`SecondIsUnlisted`); this needs what each operation may still
  do to the order (`ListedByPreview`, `ScanMayList`), and an order above the cap
  has an operation that is about to trim it (`TrimPending`).  `Steady`: an id that is
  stored and not listed, or listed and not stored, has an operation in the middle of
  it (`HalfDone`), unless two were so at once (`overlapped`).
- `ErrorReports`: `OneSender`, an error is sent by one process at a time, which
  opens an issue only while there is none; `SentOccurred`, at every age up to the
  window no more was sent than occurred, without which the bound would not survive
  a tick.  Captured errors are counted by the cardinality of the processes that
  are busy.  `HermesSkills`: `CallPhase`, and `TracedOnce`; that marks and changes
  agree (`ChangesAgree`) follows from the definitions for every trace.
- `HermesEndpoints`: `RequestPhase`, what a request holds at each point;
  `RunIsCurrent` and `DirIsOwn`, the run of a request has the id, and its directory
  is its own, about to be removed, or a stray's, unless a deletion came between; `SavesOverlap`, of two requests that
  can still write the canary set both are known to overlap.
- `ArtifactSync`: `TrainedIsOnDisk` (the adapter lies on the API's disk unless its
  upload failed or the run is gone), `SyncIsComing` (a completed run that misses
  nothing has its adapter stored, or a sync that is going to store it) and `VerifiedBucketExists`.
  `TrainingJob`: `ConfigIsWritten`, `LossesAreHeld`, `CanaryIsLast` and `RowIsReported`,
  which relate what the method wrote, what was printed and what the row has; a
  lemma says that the batches `_safe_val_batches` chooses fit the split.
  `WorkerClients`: `WaitsAreBounded` and `AgeIsBounded`, by the time since the last
  request was handled, and `HandledIsPosting`.  `ClientTools`: `CallIsWhole`, and
  `StartsAreCounted`, presses against starts by their cardinalities.
- `AgentRun`, `ResearchEngine` and `ChatTurns`: what a task holds at each point
  (`RunPhase`, `StagePhase`, `TurnPhase`), and whose the rows are (`RowsAreOfRuns`,
  `RowsAreOfTurns`).  For the conversation `ResultsAreOfTurns`, `QuestionIsLast` and
  `ReplayIsOfRows`: only stored rows are replayed, wherever the context was cut.
- `DatasetPaths`: `VersionsLieWhereMade` and `SamplesHaveRecords`.  `DatasetSplits`:
  `FilledInOrder`, the streaming writer fills the canary set first, then valid.  `SynthEngine`:
  `HashesAreOfRecords`.
- `CsvRows`: `RowsAreReadSoFar`.  The buffer begins a row, and what has been handed on
  is read as the `csv` module reads the file up to there.  It rests on `StaysInRow`: the
  parity of the quotes since the row began says whether the reader is in a quoted
  field, as long as none stood inside an unquoted one (`Regular`; it
  leaves out only files with such a quote, the kind `csv_quotes` is about).
- `CsvChat`: `CleanedSoFar`, rows wait untouched until the columns are known and are
  then cleaned in order; a kept pair is counted once because `seen` is the
  set of those kept.  `Conversion`: `ModelIsAsked` and `DirectIsParsed`, what is
  read directly is what the parser of the detected format makes of the body.

| Module | Theorem | Property |
|---|---|---|
| `RunClaimsProofs` | `ClaimsExclude` | `OverlapOnlyAfterSweep`: two workers hold one run only after a sweep |
| | `JobKeepsClaim` | `JobIsOwned`: an unswept job's row is nobody else's and not queued |
| | `CompletionIsEarned` | `CompletedWasTrained` |
| | `QueueIsClean`, `ClaimNeverTakesOver` | a queued row has no claim; a claim is only written on such a row |
| | `Refinement` | `ImplementsQueue`: `Spec => Queue!Spec` |
| `MCExportsProofs` | `PathsAreFiles`, `CompletionIsBuilt`, `NoSilentStall` | rows and files of exports agree; a stalled export was hit by a fault |
| | `VerdictIsFinal` | `VerdictStands`: no step takes a completed or failed export back to work |
| | `TrainingStaysTrue` | `TrainingArrives`: the report of a training is true and arrives; a completed run's adapter is in the store when nothing failed |
| | `WorkersStayShown` | `WorkersAreShown`: a living worker is shown running, a dead one is not |
| | `ToolCallsStayTrue` | `ToolCallsAreTrue`: what a call or card is said to have made is what it made, as whom and how often |
| | `ExportsTypes` | `ExportsTypeOK` |
| `MCDatasetsProofs` | `UploadsAreKept`, `UploadsStaySafe` | `UploadIsSafe`: an acknowledged upload is stored or published, alone and in the composition |
| | `OneAuthor`, `AuthorStaysOne` | `DatasetHasOneAuthor`: one job publishes, none overwrites a file |
| | `RecordsStaySound` | `RecordsAreSound`: an upload becomes its records, in any format and any chunks, as the comma cuts it; splits and synthesis lose and repeat none |
| | `DatasetStaysFound` | `DatasetIsFound`: what is listed may be opened, and a run trains on its user's data |
| | `DatasetsTypes` | `DatasetsTypeOK` |
| `RatchetLoopProofs` | `OneStory` | `RowMatchesRuns`: the session's row, its runs and its export agree |
| | `RatchetHolds` | `RatchetNeverSlips`: the best metric only improves, accepted runs are a chain |
| `MCStreamsProofs` | `JobsAreShown`, `JobsStayShown` | `ClientSeesJob`: a stream is in order and, closed, complete |
| | `ConversationStaysSound` | `ConversationIsSound`: an agent works on what the conversation is, with its question; stored results are those of the calls |
| | `AnswersStayWhole` | `AnswersAreWhole`: what a user sees of an agent run is what it did; a composed report is whole |
| | `StreamsTypes` | `StreamsTypeOK` |
| `MCTasksProofs` | `TasksAreTyped`, `RowsStayRight` | `TasksTypeOK`, `RowsAreRight` |
| `MCApiTasksProofs` | `WorkspaceIsSettled` | `WorkspaceSettled`: a free lock means no left-overs in the tree, and in the stash only what a pop was refused for |
| | `RepairsAreGated` | `RepairIsGated`: commits were tested, attempts are bounded |
| | `ApiTypes` | `ApiTypeOK` |
| | `ErrorsStayReported` | `ErrorsAreReported`: one issue, no storm, no captured error forgotten |
| | `SkillCallsStayTrue` | `SkillCallsAreTrue`: a call leaves one true trace, and changed skills are marked; logs, post-mortems and canary sets are those of what they lie with |
| | `DoneStaysLast` | `DoneIsLast`: "done" comes behind the last metric, a tail's "terminal" behind the last line |
| | `AccessStaysCurrent` | `AccessIsCurrent`: keys and rows are current and the tenant's |
| | `StoreStaysInStep` | `StoreInStep`: stored and listed are the same but where two operations overlapped; the order is injective and bounded |

Each of these modules also has its `Invariance` (`Spec => []IInv`), most of them
`TypeInvariant` (`Spec => []TypeOK`) of the component, and the composed ones the
invariance of their composition (`ServicesInvariance`, `ExportsInvariance`,
`StreamsInvariance`, `DatasetsInvariance`).  `MCUploadsProofs` has no theorem of its
own: it holds the lemmas about reading an upload (`RowsStep`, `ChatStep`,
`ConvStep` and what follows from the invariants), which `MCDatasetsProofs` extends.

`Refinement` maps each action to one of `LeasedQueue` or to a stutter: reads
and losing attempts stutter, `TryClaim` is `Grant` (which needs
`QueuedIsUnclaimed`: the abstract queue only grants what nobody holds), a
PATCH is `Report` by a believer, `SweepWrite` and `RestartAPI` are `Release` and
`GiveUp` of a set, and a deleted row leaves its believers behind.

In a composition a step is one of a single part, and the others stutter; so its
`Invariance` has a step lemma per part and nothing about their interaction.

What is computed over a sequence of any length is proved as well, although the
library's induction theorems cannot be instantiated.  `NatSet` replaces them: a
set of naturals with 0 and every successor has all of them, which follows from
the library's theorem that every non-empty set of naturals has a least element.
The folds of the community modules are unrolled by it once (`FoldFound`,
`FoldReached`, `FoldsToNext`), with the operator represented as a function; each
fold of the models then has a lemma that one more element is one more step
(`ReadGoes`, `WithTextGoes`, ...).  The models use folds where these proofs need
them, since `SelectSeq` is opaque to the prover.

Only model-checked:

- every liveness property: they need fairness and `ENABLED`, which the prover does
  not reason about;
- the four runs that show a violation, which need a behaviour and no proof.

## Not modelled

- The wording of prompts, answers, READMEs and logs; the training itself and the
  GGUF tools, which are outcomes.  The vendored converter
  (`scripts/llama_cpp`, some 11 000 lines) is the external "convert" step.
- The jobs API is a read-only union of tables that other modules have; the list
  endpoints likewise change nothing, and which of two copies of a skill the listing
  shows is not modelled.
- Creating and re-running a session insert an independent queued row: they are
  the initial state of `RatchetLoop`.
- The web UI is a client; its users are the modules' environment actions, and
  the card that starts an experiment is in `ClientTools`.
- Policies, deployment, observability, migrations and bootstrap scripts are
  configuration or run once before anything else (`seed_datasets.py` is an action
  of `DatasetPaths`).
- The event stream and downloads of exports, the staging of the legacy ingest,
  the trees and filters of the trace list, and the clean-up and disk usage of the
  admin router.  Failing database transactions are modelled where the code goes on
  after them (traces, spans, model registry, issue rows) and not elsewhere.

A good part of the repository is of this kind: vendored tables, routers that hand
a row through, and wording.  That bounds the share of the lines the map can name.

## Plan

1. A composition of `RatchetLoop` with the queue of `LeasedQueue` in place of its
   free trainers.
2. The clean-up of rejected runs beside the recovery and the exporter.
