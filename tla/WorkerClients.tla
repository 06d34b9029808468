---------------------------- MODULE WorkerClients ----------------------------
(* How a worker process talks to the API and is shown there: the client of   *)
(* packages/_api_client.py, the heartbeat thread of ratchet/heartbeat.py,    *)
(* and the readers of its row in routers/hermes.py, main.py and              *)
(* routers/metrics.py.                                                       *)
(*                                                                           *)
(* A tick is 5 s.  The rows of different names never meet, so all workers    *)
(* here post under one name, as two trainers do.                             *)
(***************************************************************************)
EXTENDS Integers, FiniteSets

CONSTANTS
  Workers,
  Interval,    \* ticks between two posts: 10 s
  Timeout,     \* ticks until a post is given up: 5 s
  StaleAfter   \* ticks: WORKER_STALE_AFTER, 30 s; more than 2 * Interval + Timeout

VARIABLES
  setup,    \* [auth, server, worker]: is authentication on, the tokens of both sides
  api,      \* is it up?
  post,     \* per worker: [at, left] -- down, asleep or posting; ticks until it moves on
  handled,  \* workers whose post the API has dealt with and not answered
  age,      \* ticks since the row's last_seen, Never without a row
  (* history, read by the properties only *)
  failed,   \* posts of a worker that failed since its last good one, or 2
  slow,     \* ticks it has waited for the answer to its last good post
  idle      \* ticks since a worker was up

vars == <<setup, api, post, handled, age, failed, slow, idle>>

Never == StaleAfter + 1
Cap(n, top) == IF n < top THEN n ELSE top
Tokens == {"", "shared", "other"}

TypeOK ==
  /\ setup \in [auth : BOOLEAN, server : {"", "shared"}, worker : Tokens]
  /\ api \in BOOLEAN
  /\ post \in [Workers -> [at : {"down", "asleep", "posting"},
                           left : 0 .. (IF Interval < Timeout THEN Timeout ELSE Interval)]]
  /\ handled \subseteq Workers
  /\ age \in 0 .. Never
  /\ failed \in [Workers -> 0 .. 2] /\ slow \in [Workers -> 0 .. Timeout]
  /\ idle \in 0 .. StaleAfter

Down == [at |-> "down", left |-> 0]

Init ==
  /\ setup \in [auth : BOOLEAN, server : {"", "shared"}, worker : Tokens]
  /\ api = TRUE
  /\ post = [w \in Workers |-> Down] /\ handled = {}
  /\ age = Never
  /\ failed = [w \in Workers |-> 0] /\ slow = [w \in Workers |-> 0] /\ idle = StaleAfter

-----------------------------------------------------------------------------
(* The client                                                              *)

\* What install() puts on every request; service_headers, which would prefer the
\* token of the client secret, is called by nobody.
Headers == IF setup.worker = "" THEN "none" ELSE setup.worker

\* AuthMiddleware; an empty token of the API admits nobody.
Admitted == ~setup.auth \/ (setup.server # "" /\ Headers = setup.server)

-----------------------------------------------------------------------------
(* The worker and its heartbeat thread                                     *)

\* It has waited for the API; the first post is sent at once.
StartWorker(w) ==
  /\ post[w].at = "down" /\ api
  /\ post' = [post EXCEPT ![w] = [at |-> "posting", left |-> Timeout]]
  /\ failed' = [failed EXCEPT ![w] = 2] /\ slow' = [slow EXCEPT ![w] = 0]
  /\ idle' = 0
  /\ UNCHANGED <<setup, api, handled, age>>

Die(w) ==
  /\ post[w].at # "down"
  /\ post' = [post EXCEPT ![w] = Down] /\ handled' = handled \ {w}
  /\ UNCHANGED <<setup, api, age, failed, slow, idle>>

Send(w) ==
  /\ post[w] = [at |-> "asleep", left |-> 0]
  /\ post' = [post EXCEPT ![w] = [at |-> "posting", left |-> Timeout]]
  /\ UNCHANGED <<setup, api, handled, age, failed, slow, idle>>

Sleep(w) == post' = [post EXCEPT ![w] = [at |-> "asleep", left |-> Interval]]
Fails(w) == failed' = [failed EXCEPT ![w] = Cap(@ + 1, 2)]

\* hermes_heartbeat: the row is made or its last_seen moved.
Handle(w) ==
  /\ post[w].at = "posting" /\ w \notin handled /\ api /\ Admitted
  /\ age' = 0
  /\ handled' = handled \cup {w}
  /\ failed' = [failed EXCEPT ![w] = 0]
  /\ slow' = [slow EXCEPT ![w] = 0]
  /\ UNCHANGED <<setup, api, post, idle>>

Answer(w) ==
  /\ w \in handled /\ api
  /\ handled' = handled \ {w}
  /\ Sleep(w)
  /\ UNCHANGED <<setup, api, age, failed, slow, idle>>

\* The API turns the worker away, or is not there.
Refuse(w) ==
  /\ post[w].at = "posting" /\ w \notin handled /\ ~(api /\ Admitted)
  /\ Fails(w) /\ Sleep(w)
  /\ UNCHANGED <<setup, api, handled, age, slow, idle>>

\* The timeout of httpx; a post that was dealt with has written its row all the
\* same.
GiveUp(w) ==
  /\ post[w] = [at |-> "posting", left |-> 0]
  /\ IF w \in handled THEN UNCHANGED failed ELSE Fails(w)
  /\ handled' = handled \ {w}
  /\ Sleep(w)
  /\ UNCHANGED <<setup, api, age, slow, idle>>

\* Time passes for everybody; nobody oversleeps.
Tick ==
  /\ \A w \in Workers : post[w].at # "down" => post[w].left > 0
  /\ post' = [w \in Workers |-> IF post[w].at = "down" THEN post[w] ELSE [post[w] EXCEPT !.left = @ - 1]]
  /\ age' = IF age = Never THEN Never ELSE Cap(age + 1, StaleAfter)
  /\ slow' = [w \in Workers |-> IF w \in handled THEN slow[w] + 1 ELSE slow[w]]
  /\ idle' = IF \E w \in Workers : post[w].at # "down" THEN 0 ELSE Cap(idle + 1, StaleAfter)
  /\ UNCHANGED <<setup, api, handled, failed>>

\* The API stops, with the posts it is dealing with, and comes back; the rows stay.
StopApi ==
  /\ api /\ api' = FALSE
  /\ UNCHANGED <<setup, post, handled, age, failed, slow, idle>>
StartApi ==
  /\ ~api /\ api' = TRUE
  /\ UNCHANGED <<setup, post, handled, age, failed, slow, idle>>

Next ==
  \/ \E w \in Workers :
       \/ StartWorker(w) \/ Die(w) \/ Send(w) \/ Handle(w) \/ Answer(w) \/ Refuse(w) \/ GiveUp(w)
  \/ Tick \/ StopApi \/ StartApi

Spec == Init /\ [][Next]_vars

-----------------------------------------------------------------------------
(* What is shown                                                           *)

RunningForTwoPosts == age < 2 * Interval   \* mutant: the row is stale after 20 s

\* hermes_status, list_heartbeats and the capabilities of /health.
Running == age < StaleAfter

-----------------------------------------------------------------------------
(* Properties                                                              *)

\* A living worker the API has seen is shown running whatever its posts take, and
\* through one that failed, over a restart of the API too, if those around it
\* were prompt (heartbeat.py:25-33, hermes.py:43).
Elapsed(w) == IF post[w].at = "posting" THEN Timeout - post[w].left ELSE 0
LivingIsShown ==
  \A w \in Workers : post[w].at # "down" =>
    /\ failed[w] = 0 => Running
    /\ (failed[w] = 1 /\ 2 * Interval + Timeout + slow[w] + Elapsed(w) < StaleAfter) => Running

\* What is shown running was up not long before.
DeadIsShown == idle = StaleAfter => ~Running

\* The dashboard tells the living workers from the dead.
WorkersAreShown == LivingIsShown /\ DeadIsShown

-----------------------------------------------------------------------------
(* The inductive invariant                                                 *)

\* The API deals with one post of a worker at a time, and has since waited no
\* longer than the post itself.
HandledIsPosting ==
  \A w \in handled : post[w].at = "posting" /\ failed[w] = 0 /\ slow[w] <= Elapsed(w)

Slept(w) == IF post[w].at = "asleep" THEN Interval - post[w].left ELSE 0

\* How long ago the last good post of a worker was dealt with, at most: the wait for
\* its answer, a sleep and a post that failed, and what has passed of the next.
SinceHandled(w) ==
  IF w \in handled THEN slow[w]
  ELSE slow[w] + (IF failed[w] = 1 THEN Interval + Timeout ELSE 0)
         + (IF post[w].at = "posting" THEN Interval + Elapsed(w) ELSE Slept(w))

AgeIsBounded ==
  \A w \in Workers : (post[w].at # "down" /\ failed[w] < 2) => age <= SinceHandled(w)

\* A wait lasts no longer than it was begun with.
WaitsAreBounded ==
  \A w \in Workers :
    /\ post[w].at = "posting" => post[w].left <= Timeout
    /\ post[w].at = "asleep" => post[w].left <= Interval

\* Nobody posts where nobody is up.
IdleIsOlder ==
  /\ idle <= age
  /\ (\E w \in Workers : post[w].at # "down") => idle = 0

IInv ==
  /\ TypeOK /\ HandledIsPosting /\ WaitsAreBounded /\ AgeIsBounded /\ IdleIsOlder
=============================================================================
