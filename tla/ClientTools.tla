----------------------------- MODULE ClientTools -----------------------------
(* The tools a language model is given: those of the chat agent             *)
(* (packages/chat_agent/tools.py) and of the MCP server                     *)
(* (mcp_server/server.py).  Nearly all of them are one request to the API,   *)
(* whose answer may be lost; starting an experiment from the chat is a card  *)
(* the user presses.  What the API does with a request is in the modules of  *)
(* its parts; here it is a row that appears, or a refusal.                   *)
(***************************************************************************)
EXTENDS Naturals, Sequences, FiniteSets, TLC

CONSTANTS
  Calls,       \* of tools, by the model
  MaxClicks,   \* bound on the user's presses of Start, and on reloads
  MaxLost      \* bound on the requests whose answer is lost

VARIABLES
  auth,     \* is authentication on?
  bearer,   \* the chat's user is signed in
  token,    \* the chat agent is given a service token
  allowed,  \* the policy lets the user create things
  call,     \* [client, makes, at, as, code, result]
  card,     \* what the browser shows of a call's envelope
  effects,  \* what the API made: [kind, by, as], by a call or by its card
  presses, reloads, lost

vars == <<auth, bearer, token, allowed, call, card, effects, presses, reloads, lost>>

-----------------------------------------------------------------------------
(* The tools, by what they make                                            *)

ChatReads ==
  [list_datasets |-> "nothing", list_runs |-> "nothing", get_run_metrics |-> "nothing",
   get_run_status |-> "nothing", list_experiments |-> "nothing", get_export_status |-> "nothing",
   get_synth_job_status |-> "nothing"]
\* A card, and a search in the files of the docs: no request.
ChatLocal == [start_experiment |-> "card", search_docs |-> "answer"]
ChatWrites == [confirm_start_experiment |-> "session", synthesize_dataset |-> "synthesis"]
ChatProposal == [propose_hyperparams |-> "trace"]   \* run_skill, in this process
ChatTools == ChatReads @@ ChatLocal @@ ChatWrites

McpDatasets ==
  [list_datasets |-> "nothing", get_dataset |-> "nothing", preview_dataset_rows |-> "nothing",
   synthesize_dataset |-> "synthesis", get_synthesis_status |-> "nothing",
   ingest_dataset_from_url |-> "dataset", ingest_dataset_from_file |-> "dataset"]
McpRuns ==
  [list_runs |-> "nothing", get_run |-> "nothing", get_run_metrics |-> "nothing",
   list_models |-> "nothing", start_run |-> "run"]
McpExperiments == [list_experiments |-> "nothing", start_experiment |-> "session"]
McpExports == [list_exports |-> "nothing", start_export |-> "export"]
McpSkills ==
  [select_method |-> "trace", diagnose_run |-> "trace", analyze_drift |-> "trace",
   data_quality_review |-> "trace", propose_canary_set |-> "trace", save_canary_set |-> "canary"]
McpMoreSkills ==
  [synth_style |-> "trace", explain_anomaly |-> "trace", recommend_quants |-> "trace",
   model_selection |-> "trace", post_mortem |-> "trace", auto_label |-> "trace"]
McpAgents ==
  [run_experiment_recommender |-> "trace", run_optimization_coach |-> "trace",
   run_evaluation_designer |-> "trace", run_incident_responder |-> "trace"]
McpResearch ==
  [start_research |-> "research", list_research_reports |-> "nothing",
   get_research_report |-> "nothing"]
McpSystem ==
  [health |-> "health", hermes_status |-> "nothing", tail_logs |-> "nothing",
   get_run_logs |-> "nothing"]
McpResources == [dataset_readme |-> "nothing", run_training_log |-> "nothing"]
McpTools == McpDatasets @@ McpRuns @@ McpExperiments @@ McpExports @@ McpSkills
              @@ McpMoreSkills @@ McpAgents @@ McpResearch @@ McpSystem @@ McpResources

Image(f) == {f[x] : x \in DOMAIN f}
Tools(client) == IF client = "chat" THEN ChatTools ELSE McpTools
Makes(c) == call[c].makes
Kinds == Image(ChatTools) \cup Image(ChatProposal) \cup Image(McpTools) \cup {"nothing", "session"}

Silent == {"nothing", "health"}   \* health answers everybody
NoRequest == {"card", "answer"}

\* Of one name there is one dataset and one canary set; a second is refused.
Named == {"dataset", "canary"}
\* Those whose endpoint asks the policy (@requires).
Guarded == {"session", "synthesis"}

-----------------------------------------------------------------------------

Unused == [client |-> "none", makes |-> "nothing", at |-> "idle", as |-> "none", code |-> 0,
           result |-> "none"]

CardOf(c) == <<c>>   \* whom the API's row is by when the user pressed Start

TypeOK ==
  /\ auth \in BOOLEAN /\ bearer \in BOOLEAN /\ token \in BOOLEAN /\ allowed \in BOOLEAN
  /\ call \in [Calls -> [client : {"none", "chat", "mcp"}, makes : Kinds,
                        at : {"idle", "sent", "served", "abandoned", "done"},
                        as : {"none", "admin", "user", "service", "nobody"},
                        code : {0, 200, 401, 403, 404, 409, 422, 500},
                        result : {"none", "ok", "envelope", "error"}]]
  /\ card \in [Calls -> {"none", "shown", "posting", "failed", "started"}]
  /\ effects \in Seq([kind : Kinds, by : Calls \cup {CardOf(c) : c \in Calls},
                     as : {"admin", "user", "service", "process"}])
  /\ presses \in 0 .. MaxClicks /\ reloads \in 0 .. MaxClicks /\ lost \in 0 .. MaxLost

Init ==
  /\ auth \in BOOLEAN /\ bearer \in BOOLEAN /\ token \in BOOLEAN /\ allowed \in BOOLEAN
  /\ ~auth => ~bearer /\ ~token /\ ~allowed   \* they decide nothing then
  /\ call = [c \in Calls |-> Unused] /\ card = [c \in Calls |-> "none"]
  /\ effects = <<>> /\ presses = 0 /\ reloads = 0 /\ lost = 0

given == <<auth, bearer, token, allowed>>
Begin(c, client, makes, place, as, result) ==
  call' = [call EXCEPT ![c] = [client |-> client, makes |-> makes, at |-> place, as |-> as, code |-> 0,
                               result |-> result]]
Move(c, place, code, result) ==
  call' = [call EXCEPT ![c] = [client |-> @.client, makes |-> @.makes, at |-> place, as |-> @.as,
                               code |-> code, result |-> result]]
Make(kind, by, as) == effects' = Append(effects, [kind |-> kind, by |-> by, as |-> as])

-----------------------------------------------------------------------------
(* Who a request comes from                                                *)

ServiceFirst(client) ==   \* mutant: the service token is preferred to the user's
  IF ~auth THEN "admin" ELSE IF client = "mcp" THEN "nobody"
  ELSE IF token THEN "service" ELSE IF bearer THEN "user" ELSE "nobody"

\* _auth_headers, as the middleware reads them; the MCP server sends none.
Principal(client) ==
  IF ~auth THEN "admin"
  ELSE IF client = "mcp" THEN "nobody"
  ELSE IF bearer THEN "user" ELSE IF token THEN "service" ELSE "nobody"

Refusal(kind, as, code) ==
  \/ code = 401 /\ as = "nobody" /\ kind # "health"
  \/ code = 403 /\ as = "user" /\ kind \in Guarded /\ ~allowed
  \/ code = 409 /\ kind \in Named /\ \E i \in DOMAIN effects : effects[i].kind = kind
  \/ code \in {404, 422}     \* no such run, no such model, ...
Admitted(kind, as) == \A code \in {401, 403, 409} : ~Refusal(kind, as, code)

-----------------------------------------------------------------------------
(* A call of a tool                                                        *)

\* An argument out of bounds, a file that is not there: no request is sent.
Invoke(c, client, makes) ==
  LET at(place, result) == Begin(c, client, makes, place, Principal(client), result) IN
  /\ call[c].at = "idle"
  /\ \/ makes = "card" /\ at("done", "envelope") /\ card' = [card EXCEPT ![c] = "shown"]
     \/ makes = "answer" /\ at("done", "ok") /\ UNCHANGED card
     \/ makes \notin NoRequest /\ at("done", "error") /\ UNCHANGED card
     \/ makes \notin NoRequest /\ at("sent", "none") /\ UNCHANGED card
  /\ UNCHANGED <<given, effects, presses, reloads, lost>>

\* propose_hyperparams: Hermes is asked here, and every exception is an answer.
Propose(c) ==
  /\ call[c].at = "idle"
  /\ \E kind \in Image(ChatProposal), result \in {"ok", "error"} :
       /\ Begin(c, "chat", kind, "done", "none", result)
       /\ Make(kind, c, "process") \/ (result = "error" /\ UNCHANGED effects)
  /\ UNCHANGED <<given, card, presses, reloads, lost>>

\* The answer of the API; it finishes what it was asked though nobody waits.
Answer(c, code) ==
  IF call[c].at = "abandoned" THEN Move(c, "done", 0, call[c].result)
  ELSE Move(c, "served", code, call[c].result)

Accept(c) ==
  /\ call[c].at \in {"sent", "abandoned"} /\ Admitted(Makes(c), call[c].as)
  /\ IF Makes(c) \in Silent THEN UNCHANGED effects ELSE Make(Makes(c), c, call[c].as)
  /\ Answer(c, 200)
  /\ UNCHANGED <<given, card, presses, reloads, lost>>

Refuse(c, code) ==
  /\ call[c].at \in {"sent", "abandoned"} /\ Refusal(Makes(c), call[c].as, code)
  /\ Answer(c, code)
  /\ UNCHANGED <<given, card, effects, presses, reloads, lost>>

\* It breaks before or behind the commit.
Break(c) ==
  /\ call[c].at \in {"sent", "abandoned"} /\ Admitted(Makes(c), call[c].as)
  /\ \/ Makes(c) \notin Silent /\ Make(Makes(c), c, call[c].as)
     \/ UNCHANGED effects
  /\ Answer(c, 500)
  /\ UNCHANGED <<given, card, presses, reloads, lost>>

\* _safe_get, _safe_post, _raise_for_status.
Receive(c) ==
  /\ call[c].at = "served"
  /\ Move(c, "done", call[c].code, IF call[c].code = 200 THEN "ok" ELSE "error")
  /\ UNCHANGED <<given, card, effects, presses, reloads, lost>>

\* The client's time is over, or the connection: the request may still be served.
Lose(c) ==
  /\ call[c].at \in {"sent", "served"} /\ lost < MaxLost
  /\ lost' = lost + 1
  /\ Move(c, IF call[c].at = "sent" THEN "abandoned" ELSE "done", 0, "error")
  /\ UNCHANGED <<given, card, effects, presses, reloads>>

\* It never arrived.
Drop(c) ==
  /\ call[c].at = "abandoned"
  /\ Move(c, "done", 0, call[c].result)
  /\ UNCHANGED <<given, card, effects, presses, reloads, lost>>

-----------------------------------------------------------------------------
(* The card of start_experiment                                            *)

\* The browser posts the envelope's payload itself.
PressStart(c) ==
  /\ card[c] \in {"shown", "failed"} /\ presses < MaxClicks
  /\ presses' = presses + 1
  /\ card' = [card EXCEPT ![c] = "posting"]
  /\ UNCHANGED <<given, call, effects, reloads, lost>>

BrowserUser == IF auth THEN "user" ELSE "admin"
ServeCard(c) ==
  /\ card[c] = "posting"
  /\ \/ /\ Admitted("session", BrowserUser)
        /\ Make("session", CardOf(c), BrowserUser)
        /\ \/ card' = [card EXCEPT ![c] = "started"] /\ UNCHANGED lost
           \/ lost < MaxLost /\ lost' = lost + 1 /\ card' = [card EXCEPT ![c] = "failed"]
     \/ card' = [card EXCEPT ![c] = "failed"] /\ UNCHANGED <<effects, lost>>
  /\ UNCHANGED <<given, call, presses, reloads>>

\* The card is drawn from the stored result of the tool: it forgets its press.
Reload(c) ==
  /\ card[c] \in {"failed", "started"} /\ reloads < MaxClicks
  /\ reloads' = reloads + 1
  /\ card' = [card EXCEPT ![c] = "shown"]
  /\ UNCHANGED <<given, call, effects, presses, lost>>

Next ==
  \E c \in Calls :
    \/ \E client \in {"chat", "mcp"} : \E makes \in Image(Tools(client)) : Invoke(c, client, makes)
    \/ Propose(c)
    \/ Accept(c) \/ (\E code \in {401, 403, 404, 409, 422} : Refuse(c, code)) \/ Break(c)
    \/ Receive(c) \/ Lose(c) \/ Drop(c)
    \/ PressStart(c) \/ ServeCard(c) \/ Reload(c)

Spec == Init /\ [][Next]_vars

-----------------------------------------------------------------------------
(* Properties                                                              *)

Made(c) == {i \in DOMAIN effects : effects[i].by = c}

\* A call makes at most one thing, the one its tool is for; exactly one when the
\* model is told so, and none when the API refused.  A tool that reads makes
\* nothing, and neither does the card (tools.py:52-75, server.py:53-104).
OneCallOneEffect ==
  \A c \in Calls :
    /\ \A i, j \in Made(c) : i = j
    /\ \A i \in Made(c) : effects[i].kind = Makes(c) /\ Makes(c) \notin Silent \cup NoRequest
    /\ (call[c].result = "ok" /\ Makes(c) \notin Silent \cup NoRequest) => Made(c) # {}
    /\ call[c].code \in {401, 403, 404, 409, 422} => Made(c) = {}

\* Whoever is signed in acts as themselves; nobody acts unasked where the policy
\* decides; and no second thing of one name appears (tools.py:25-45).
ActsAsCaller ==
  \A i \in DOMAIN effects :
    LET e == effects[i] IN
    /\ (auth /\ bearer /\ e.kind # "trace") => e.as = "user"
    /\ e.as # "nobody"
    /\ (e.as = "user" /\ e.kind \in Guarded) => allowed
    /\ e.kind \in Named => \A j \in DOMAIN effects : effects[j].kind = e.kind => i = j

\* A card starts one experiment, and another only behind a lost answer or a
\* reload of the page.
Carded == {i \in DOMAIN effects : effects[i].by \notin Calls}
CardStartsOne ==
  Cardinality(Carded) <= Cardinality({c \in Calls : card[c] # "none"}) + lost + reloads

\* What the tools make is what the model and the user are told.
ToolCallsAreTrue == OneCallOneEffect /\ ActsAsCaller /\ CardStartsOne

-----------------------------------------------------------------------------
(* The inductive invariant                                                 *)

\* What a call has made by the place it is at; only a request that is on its way
\* makes something, as whom it was sent.
CallIsWhole(c) ==
  /\ call[c].at \in {"idle", "sent", "abandoned"} => Made(c) = {} /\ call[c].code = 0
  /\ call[c].at \in {"idle", "sent", "served"} => call[c].result = "none"
  /\ call[c].at = "abandoned" => call[c].result = "error"
  /\ (call[c].at = "served" /\ call[c].code = 200 /\ Makes(c) \notin Silent) => Made(c) # {}
  /\ call[c].at \in {"sent", "abandoned", "served"} =>
       Makes(c) \notin NoRequest /\ call[c].client # "none" /\ call[c].as = Principal(call[c].client)

\* A card is shown by a call that is over.
CardsAreOfCalls == \A c \in Calls : card[c] # "none" => call[c].at = "done"

\* A card that has started its experiment starts another only when it was reloaded.
StartsAreCounted ==
  Cardinality(Carded) <= Cardinality({c \in Calls : card[c] = "started"}) + lost + reloads

IInv ==
  /\ TypeOK
  /\ OneCallOneEffect /\ (\A c \in Calls : CallIsWhole(c))
  /\ ActsAsCaller /\ CardsAreOfCalls /\ StartsAreCounted
=============================================================================
