----------------------------- MODULE JobStream -----------------------------
(***************************************************************************)
(* The in-memory jobs of routers/synth.py and routers/research.py and the  *)
(* event streams of their clients.                                         *)
(*                                                                         *)
(* A job is a coroutine on the event loop of the API that hands its work   *)
(* to a thread.  The thread reports by scheduling publish on the loop, the *)
(* loop runs what was scheduled in order, and a publish goes to the job's  *)
(* history and to a bounded queue per subscriber, whose oldest event gives *)
(* way when it is full.  Turns of the loop do not interleave; the thread   *)
(* of a job and those of the snapshot endpoints run beside them.           *)
(***************************************************************************)
EXTENDS Naturals, FiniteSets, Sequences

CONSTANTS
  Jobs,            \* numbers, in the order of creation
  Clients,         \* each opens one stream
  NoJob,
  SourceCanVanish, \* synthesis looks its source up again, research has none
  QueueMax,        \* _QUEUE_MAX, of the history and of each subscriber
  MaxJobs,         \* _MAX_JOBS, the registry
  MaxReports       \* bound on the progress reports of one thread

ASSUME StreamAssumption ==
  /\ Jobs \subseteq Nat \ {0} /\ NoJob \notin Jobs
  /\ SourceCanVanish \in BOOLEAN
  /\ QueueMax \in Nat \ {0} /\ MaxJobs \in Nat \ {0} /\ MaxReports \in Nat

VARIABLES
  registry,   \* _JOBS
  status,     \* _Job.status, "none" before the job is started
  filled,     \* which of the result and error fields of a job are set
  thread,     \* reports sent by the job's thread; Done when it has none (more)
  calls,      \* what the job's thread scheduled on the loop, oldest first
  history,    \* _Job._history
  turn,       \* the turn of the loop that ends a job: the job and what is next
  phase, of,  \* a client's stream, and its job
  queue,      \* the stream's queue
  terminal,   \* the job was finished when the stream subscribed
  snap,       \* a GET /jobs/{id} on its own thread: the job, the status it read
  (* history, read by the properties only *)
  made,       \* the events of a job
  got,        \* the events the client received
  lagged      \* streams that lost an event: pushed out, or before they began

jobVars    == <<registry, status, filled, thread, calls, history, made, turn>>
streamVars == <<phase, of, queue, terminal, got, lagged>>
vars == <<jobVars, streamVars, snap>>

JobStatus == {"queued", "running", "completed", "failed", "cancelled"}
Statuses  == JobStatus \cup {"none", "error"}
Finished  == {"completed", "failed", "cancelled"}

\* Events: 0 is the "progress" of the start, n the n-th report of the thread,
\* End the "done" or "error" that closes the stream.
End    == MaxReports + 1
Events == 0 .. End

\* What the thread schedules: its reports, then its result or its exception.
Done   == MaxReports + 1
Raised == Done + 1

NoTurn == [job |-> NoJob, next |-> "none"]
NoSnap == [job |-> NoJob, read |-> "none"]

TypeOK ==
  /\ registry \subseteq Jobs
  /\ IsFiniteSet(registry) /\ Cardinality(registry) <= MaxJobs
  /\ status \in [Jobs -> Statuses]
  /\ filled \in [Jobs -> SUBSET {"result", "error"}]
  /\ thread \in [Jobs -> 0 .. Done]
  /\ calls \in [Jobs -> Seq(1 .. Raised)] /\ made \in [Jobs -> Seq(Events)]
  /\ history \in [Jobs -> Seq(Events)] /\ \A j \in Jobs : Len(history[j]) <= QueueMax
  /\ turn \in [job : Jobs \cup {NoJob},
               next : {"none", "result", "completed", "failed", "error", "publish"}]
  /\ phase \in [Clients -> {"none", "opened", "reading", "closed", "gone"}]
  /\ of \in [Clients -> Jobs \cup {NoJob}]
  /\ queue \in [Clients -> Seq(Events)] /\ \A c \in Clients : Len(queue[c]) <= QueueMax
  /\ terminal \in [Clients -> BOOLEAN]
  /\ snap \in [job : Jobs \cup {NoJob}, read : Statuses]
  /\ got \in [Clients -> Seq(Events)]
  /\ lagged \subseteq Clients

Init ==
  /\ registry = {}
  /\ status = [j \in Jobs |-> "none"] /\ filled = [j \in Jobs |-> {}]
  /\ thread = [j \in Jobs |-> Done] /\ calls = [j \in Jobs |-> <<>>]
  /\ history = [j \in Jobs |-> <<>>] /\ made = [j \in Jobs |-> <<>>]
  /\ turn = NoTurn /\ snap = NoSnap
  /\ phase = [c \in Clients |-> "none"] /\ of = [c \in Clients |-> NoJob]
  /\ queue = [c \in Clients |-> <<>>] /\ got = [c \in Clients |-> <<>>]
  /\ terminal = [c \in Clients |-> FALSE] /\ lagged = {}

LoopFree == turn = NoTurn
Started == {j \in Jobs : status[j] # "none"}

-----------------------------------------------------------------------------
(* publish                                                                 *)

OfferDroppingNew(q, e) ==  \* mutant: a full queue drops the new event
  IF Len(q) < QueueMax THEN Append(q, e) ELSE q

OfferUnbounded(q, e) == Append(q, e)  \* mutant: asyncio.Queue without maxsize

\* deque(maxlen) and put_nowait with its QueueFull handler: the oldest goes.
Offer(q, e) == IF Len(q) < QueueMax THEN Append(q, e) ELSE Append(Tail(q), e)

Subscribers(j) == {c \in Clients : of[c] = j /\ phase[c] = "reading"}

Publish(j, e) ==
  /\ history' = [history EXCEPT ![j] = Offer(@, e)]
  /\ queue' = [c \in Clients |-> IF c \in Subscribers(j) THEN Offer(queue[c], e) ELSE queue[c]]
  /\ made' = [made EXCEPT ![j] = Append(@, e)]
  /\ lagged' = lagged \cup {c \in Subscribers(j) : Len(queue[c]) = QueueMax}

-----------------------------------------------------------------------------
(* The job                                                                 *)

Newest(jobs) == {j \in jobs : Cardinality({k \in jobs : k > j}) < MaxJobs}

\* POST /start: register, prune the oldest whatever their status, create the task.
StartJob(j) ==
  /\ LoopFree
  /\ j \notin Started /\ \A k \in Jobs : k < j => k \in Started
  /\ registry' = Newest(registry \cup {j})
  /\ status' = [status EXCEPT ![j] = "queued"]
  /\ UNCHANGED <<filled, thread, calls, history, made, turn, streamVars, snap>>

VanishSilently(j) ==  \* mutant: the early return publishes nothing
  /\ LoopFree /\ SourceCanVanish
  /\ status[j] = "queued"
  /\ status' = [status EXCEPT ![j] = "error"]
  /\ filled' = [filled EXCEPT ![j] = {"error"}]
  /\ UNCHANGED <<registry, thread, calls, turn, history, made, streamVars, snap>>

\* The source was deleted since the start: the coroutine ends at once.
SourceVanished(j) ==
  /\ LoopFree /\ SourceCanVanish
  /\ status[j] = "queued"
  /\ status' = [status EXCEPT ![j] = "error"]
  /\ filled' = [filled EXCEPT ![j] = {"error"}]
  /\ Publish(j, End)
  /\ UNCHANGED <<registry, thread, calls, turn, phase, of, terminal, got, snap>>

\* The first turn of the coroutine: running, the first event, and the thread,
\* unless the seeds cannot be read.
BeginJob(j) ==
  /\ LoopFree
  /\ status[j] = "queued"
  /\ status' = [status EXCEPT ![j] = "running"]
  /\ Publish(j, 0)
  /\ \/ thread' = [thread EXCEPT ![j] = 0] /\ UNCHANGED turn
     \/ turn' = [job |-> j, next |-> "failed"] /\ UNCHANGED thread
  /\ UNCHANGED <<registry, filled, calls, phase, of, terminal, got, snap>>

\* progress_cb on the thread: the publish is scheduled, not made.
ThreadReports(j) ==
  /\ thread[j] < MaxReports
  /\ thread' = [thread EXCEPT ![j] = @ + 1]
  /\ calls' = [calls EXCEPT ![j] = Append(@, thread'[j])]
  /\ UNCHANGED <<registry, status, filled, history, made, turn, streamVars, snap>>

ThreadReturns(j) ==
  /\ thread[j] # Done
  /\ thread' = [thread EXCEPT ![j] = Done]
  /\ \E result \in {Done, Raised} : calls' = [calls EXCEPT ![j] = Append(@, result)]
  /\ UNCHANGED <<registry, status, filled, history, made, turn, streamVars, snap>>

\* The loop runs what the thread scheduled: a report is published...
RunReport(j) ==
  /\ LoopFree
  /\ calls[j] # <<>> /\ Head(calls[j]) < Done
  /\ calls' = [calls EXCEPT ![j] = Tail(@)]
  /\ Publish(j, Head(calls[j]))
  /\ UNCHANGED <<registry, status, filled, thread, turn, phase, of, terminal, got, snap>>

\* ... and the result wakes the coroutine, which writes the files, or fails to.
WakeJob(j) ==
  /\ LoopFree
  /\ calls[j] # <<>> /\ Head(calls[j]) >= Done
  /\ calls' = [calls EXCEPT ![j] = Tail(@)]
  /\ turn' \in [job : {j}, next : IF Head(calls[j]) = Done THEN {"result", "failed"}
                                                             ELSE {"failed"}]
  /\ UNCHANGED <<registry, status, filled, thread, history, made, streamVars, snap>>

Then(next) == turn' = [turn EXCEPT !.next = next]

\* The assignments at the end of the coroutine, one at a time: the threads of
\* the snapshot endpoints may look in between.
SetField ==
  LET j == turn.job IN
  \/ /\ turn.next = "result" /\ Then("completed")
     /\ filled' = [filled EXCEPT ![j] = @ \cup {"result"}] /\ UNCHANGED status
  \/ /\ turn.next = "completed" /\ Then("publish")
     /\ status' = [status EXCEPT ![j] = "completed"] /\ UNCHANGED filled
  \/ /\ turn.next = "failed" /\ Then("error")
     /\ status' = [status EXCEPT ![j] = "failed"] /\ UNCHANGED filled
  \/ /\ turn.next = "error" /\ Then("publish")
     /\ filled' = [filled EXCEPT ![j] = @ \cup {"error"}] /\ UNCHANGED status

EndTurn ==
  \/ SetField /\ UNCHANGED <<registry, thread, calls, history, made, streamVars, snap>>
  \/ /\ turn.next = "publish"
     /\ Publish(turn.job, End)
     /\ turn' = NoTurn
     /\ UNCHANGED <<registry, status, filled, thread, calls, phase, of, terminal, got, snap>>

-----------------------------------------------------------------------------
(* Streams and snapshots                                                   *)

\* GET /jobs/{id}/stream: the job is looked up; the generator runs later.
OpenStream(c, j) ==
  /\ LoopFree
  /\ phase[c] = "none" /\ j \in registry
  /\ phase' = [phase EXCEPT ![c] = "opened"]
  /\ of' = [of EXCEPT ![c] = j]
  /\ UNCHANGED <<jobVars, queue, terminal, got, lagged, snap>>

\* subscribe: replay the history and join the subscribers.
Subscribe(c) ==
  /\ LoopFree
  /\ phase[c] = "opened"
  /\ phase' = [phase EXCEPT ![c] = "reading"]
  /\ queue' = [queue EXCEPT ![c] = history[of[c]]]
  /\ terminal' = [terminal EXCEPT ![c] = status[of[c]] \in Finished]
  /\ lagged' = IF history[of[c]] = made[of[c]] THEN lagged ELSE lagged \cup {c}
  /\ UNCHANGED <<jobVars, of, got, snap>>

Leave(c, how) ==
  /\ phase' = [phase EXCEPT ![c] = how]
  /\ queue' = [queue EXCEPT ![c] = <<>>]

Deliver(c) ==
  LET e == Head(queue[c])  rest == Tail(queue[c]) IN
  /\ LoopFree
  /\ phase[c] = "reading" /\ queue[c] # <<>>
  /\ got' = [got EXCEPT ![c] = Append(@, e)]
  /\ IF e = End \/ (terminal[c] /\ rest = <<>>)
     THEN Leave(c, "closed")
     ELSE queue' = [queue EXCEPT ![c] = rest] /\ UNCHANGED phase
  /\ UNCHANGED <<jobVars, of, terminal, lagged, snap>>

\* A second without an event: the stream ends if its job has.
GetTimesOut(c) ==
  /\ LoopFree
  /\ phase[c] = "reading" /\ queue[c] = <<>>
  /\ IF status[of[c]] \in Finished THEN Leave(c, "closed") ELSE UNCHANGED <<phase, queue>>
  /\ UNCHANGED <<jobVars, of, terminal, got, lagged, snap>>

Disconnect(c) ==
  /\ LoopFree
  /\ phase[c] \in {"opened", "reading"}
  /\ Leave(c, "gone")
  /\ UNCHANGED <<jobVars, of, terminal, got, lagged, snap>>

\* GET /jobs/{id} on a thread of its own: the status is read first,
\* the result and the error last.
ReadStatus ==
  /\ snap = NoSnap
  /\ \E j \in registry : snap' = [job |-> j, read |-> status[j]]
  /\ UNCHANGED <<jobVars, streamVars>>

ReadFields ==
  /\ snap # NoSnap
  /\ snap' = NoSnap
  /\ UNCHANGED <<jobVars, streamVars>>

-----------------------------------------------------------------------------
JobStep(j) ==
  \/ SourceVanished(j) \/ BeginJob(j)
  \/ ThreadReports(j) \/ ThreadReturns(j)
  \/ RunReport(j) \/ WakeJob(j)

StreamStep(c) == Subscribe(c) \/ Deliver(c) \/ GetTimesOut(c)

UserStep ==
  \/ \E j \in Jobs : StartJob(j)
  \/ \E c \in Clients : Disconnect(c) \/ \E j \in Jobs : OpenStream(c, j)

Next ==
  \/ UserStep
  \/ \E j \in Jobs : JobStep(j)
  \/ EndTurn
  \/ \E c \in Clients : StreamStep(c)
  \/ ReadStatus \/ ReadFields

\* The event loop runs every ready callback, the thread of a job ends (each of
\* its requests has a timeout), and a connected client goes on reading.
Fairness ==
  /\ WF_vars(EndTurn)
  /\ \A j \in Jobs : WF_vars(BeginJob(j) \/ SourceVanished(j)) /\ WF_vars(RunReport(j) \/ WakeJob(j))
  /\ \A j \in Jobs : WF_vars(ThreadReturns(j))
  /\ \A c \in Clients : WF_vars(StreamStep(c))

Spec == Init /\ [][Next]_vars /\ Fairness

-----------------------------------------------------------------------------
(* Properties                                                              *)

\* A client receives the events of its job in the order they were made, none
\* twice, whenever it attached and however slowly it reads.
StreamInOrder ==
  \A c \in Clients : \A m, n \in DOMAIN got[c] : m < n => got[c][m] < got[c][n]

\* A stream the server closes has delivered the closing event, and all the
\* reports before it unless the client fell a whole queue behind.
ClosedStreamIsWhole ==
  \A c \in Clients : phase[c] = "closed" =>
    /\ got[c] # <<>> /\ got[c][Len(got[c])] = End
    /\ c \notin lagged => got[c] = made[of[c]]

\* A snapshot that says completed carries the result, though the endpoint's
\* thread reads the fields while the loop is writing them.
CompletedSnapshotHasResult ==
  snap.read = "completed" => "result" \in filled[snap.job]

\* What a client is shown of a job, streamed or as a snapshot, is in order and
\* complete.
ClientSeesJob == StreamInOrder /\ ClosedStreamIsWhole /\ CompletedSnapshotHasResult

-----------------------------------------------------------------------------
(* The inductive invariant                                                 *)

Increasing(s) == \A m, n \in DOMAIN s : m < n => s[m] < s[n]
Below(s, t)   == \A m \in DOMAIN s, n \in DOMAIN t : s[m] < t[n]

\* s is what is left of t after some events were taken off its front.
EndsWith(s, t) ==
  Len(s) <= Len(t) /\ \A n \in 1 .. Len(s) : s[n] = t[Len(t) - Len(s) + n]

Ended(j) == made[j] # <<>> /\ made[j][Len(made[j])] = End

\* A turn under way ends a job, and a stream once opened is a job's.
HasJob ==
  /\ turn.job = NoJob <=> turn.next = "none"
  /\ \A c \in Clients : phase[c] # "none" => of[c] \in Jobs

\* Where a job stands: what its coroutine does next, and what it has set.
TurnPhase ==
  /\ turn.next \in {"result", "completed", "failed"} => status[turn.job] = "running"
  /\ turn.next = "error" => status[turn.job] = "failed"
  /\ turn.next = "publish" => status[turn.job] \in {"completed", "failed"}
  /\ turn.next = "completed" => "result" \in filled[turn.job]

JobPhase(j) ==
  /\ status[j] # "cancelled"
  /\ status[j] = "completed" => "result" \in filled[j]
  /\ status[j] # "running" \/ turn.job = j => calls[j] = <<>> /\ thread[j] = Done
  /\ status[j] \in {"none", "queued"} => made[j] = <<>>
  /\ status[j] = "running" \/ turn.job = j => ~Ended(j)
  /\ status[j] \in {"completed", "failed", "error"} /\ turn.job # j => Ended(j)

\* What a job has published and what its thread has scheduled are one increasing
\* line of events, and nothing is scheduled after the result.
JobLine(j) ==
  /\ Increasing(made[j]) /\ Increasing(calls[j]) /\ Below(made[j], calls[j])
  /\ \A n \in DOMAIN calls[j] : calls[j][n] >= Done => n = Len(calls[j]) /\ thread[j] = Done
  /\ thread[j] # Done => /\ \A n \in DOMAIN calls[j] : calls[j][n] <= thread[j]
                         /\ \A n \in DOMAIN made[j] : made[j][n] <= thread[j]

HistoryIsRecent(j) ==
  EndsWith(history[j], made[j]) /\ (made[j] # <<>> => history[j] # <<>>)

\* What a client got is of its job, and no newer than the job's newest event.
GotOfJob(c) ==
  /\ phase[c] \in {"none", "opened"} => got[c] = <<>>
  /\ got[c] # <<>> =>
       /\ of[c] \in Jobs /\ made[of[c]] # <<>>
       /\ \A n \in DOMAIN got[c] : got[c][n] <= made[of[c]][Len(made[of[c]])]
  /\ phase[c] = "closed" => Ended(of[c])

\* While it reads, what the client got comes before what is queued for it, which
\* runs up to the newest event; together they are all events, unless it lagged.
QueueOfJob(c) ==
  phase[c] = "reading" =>
    /\ EndsWith(queue[c], made[of[c]]) /\ Below(got[c], queue[c])
    /\ Ended(of[c]) => queue[c] # <<>>
    /\ terminal[c] => Ended(of[c])
    /\ c \notin lagged =>
         /\ Len(made[of[c]]) = Len(got[c]) + Len(queue[c])
         /\ \A n \in DOMAIN got[c] : got[c][n] = made[of[c]][n]

JobsAreSound    == TurnPhase /\ \A j \in Jobs : JobPhase(j) /\ JobLine(j) /\ HistoryIsRecent(j)
StreamsAreSound == \A c \in Clients : GotOfJob(c) /\ QueueOfJob(c)

SnapshotData ==
  snap.read = "completed" => snap.job \in Jobs /\ status[snap.job] = "completed"

IInv ==
  /\ TypeOK /\ HasJob /\ JobsAreSound /\ StreamsAreSound
  /\ StreamInOrder /\ ClosedStreamIsWhole /\ SnapshotData
-----------------------------------------------------------------------------

\* Every stream that stays connected is closed by the server in the end, also
\* when its job was pruned from the registry.
StreamEnds ==
  \A c \in Clients : phase[c] = "opened" ~> phase[c] \in {"closed", "gone"}

=============================================================================
