------------------------------ MODULE MCExports ------------------------------
(* What works through the API from outside: the trainer's report of a       *)
(* training (TrainingJob), the exporter (ExportQueue), the artifacts on     *)
(* their way to the object store (ArtifactSync), the heartbeats             *)
(* (WorkerClients) and the tools of the chat and of MCP (ClientTools).      *)
(* They share no variable, so a behaviour exercises one of them, the focus. *)
(***************************************************************************)
EXTENDS ExportQueue

CONSTANTS
  Workers, MaxSyncs, MaxSyncFaults,                                      \* the artifacts
  BatchSizes, Values, NotANumber, None, Iters, MaxPrinted, MaxLost,      \* the training
  Interval, Timeout, StaleAfter,                                         \* the heartbeats
  Calls, MaxClicks                                                       \* the tools

ASSUME ExportsAssumption ==
  /\ {MaxSyncs, MaxSyncFaults, MaxLost, MaxClicks, Interval, Timeout, StaleAfter} \subseteq Nat
  /\ Timeout <= Interval /\ 2 * Interval + Timeout < StaleAfter
  /\ BatchSizes \subseteq Nat /\ Values # {} /\ Iters \in Nat
  /\ NotANumber \notin Values /\ None \notin Values /\ None # NotANumber
  /\ IsFiniteSet(Calls) /\ \A c \in Calls : <<c>> \notin Calls

VARIABLES
  focus,
  verdict, runDir, wpc, remote, up, bucket, verified, stored, wstored,
  spc, pending, syncs, syncFaults, outage, missed,
  backend, data, batch, trainPc, config, finals, canary, curve, row, lost, printed,
  setup, api, post, handled, age, failed, slow, idle,
  auth, bearer, token, allowed, call, card, effects, presses, reloads, toolsLost

\* Too little to train on, a batch and no canary set worth one, no validation,
\* and enough of everything; of records of every kind.
Sizes == {<<1, 4, 0>>, <<12, 4, 1>>, <<12, 0, 0>>, <<40, 9, 12>>}
Datasets ==
  {[rows |-> [train |-> n[1], valid |-> n[2], canary |-> n[3]], canaryFile |-> n # <<1, 4, 0>>,
    shape |-> s] : n \in Sizes, s \in {"messages", "completion", "text", "other"}}

AS == INSTANCE ArtifactSync WITH MaxFaults <- MaxSyncFaults, disk <- runDir, todo <- pending
TJ == INSTANCE TrainingJob WITH pc <- trainPc, stored <- curve
WC == INSTANCE WorkerClients
CT == INSTANCE ClientTools WITH lost <- toolsLost

syncVars  == <<verdict, runDir, wpc, remote, up, bucket, verified, stored, wstored,
               spc, pending, syncs, syncFaults, outage, missed>>
trainVars == <<backend, data, batch, trainPc, config, finals, canary, curve, row, lost, printed>>
beatVars  == <<setup, api, post, handled, age, failed, slow, idle>>
toolVars  == <<auth, bearer, token, allowed, call, card, effects, presses, reloads, toolsLost>>
allVars   == <<focus, vars, syncVars, trainVars, beatVars, toolVars>>

ExportsInit ==
  /\ focus \in {"exports", "sync", "training", "heartbeats", "tools"}
  /\ focus = "training" \/ (backend = "mlx" /\ batch = 0 /\ data = CHOOSE d \in Datasets : TRUE)
  /\ focus = "heartbeats" \/ setup = [auth |-> FALSE, server |-> "", worker |-> ""]
  /\ \/ focus = "tools"
     \/ auth = FALSE /\ bearer = FALSE /\ token = FALSE /\ allowed = FALSE
  /\ Init /\ AS!Init /\ TJ!Init /\ WC!Init /\ CT!Init

ExportsNext ==
  \/ focus = "exports" /\ Next /\ UNCHANGED <<focus, syncVars, trainVars, beatVars, toolVars>>
  \/ focus = "sync" /\ AS!Next /\ UNCHANGED <<focus, vars, trainVars, beatVars, toolVars>>
  \/ focus = "training" /\ TJ!Next /\ UNCHANGED <<focus, vars, syncVars, beatVars, toolVars>>
  \/ focus = "heartbeats" /\ WC!Next /\ UNCHANGED <<focus, vars, syncVars, trainVars, toolVars>>
  \/ focus = "tools" /\ CT!Next /\ UNCHANGED <<focus, vars, syncVars, trainVars, beatVars>>

ExportsSpec == ExportsInit /\ [][ExportsNext]_allVars

ExportsTypeOK ==
  /\ TypeOK
  /\ focus = "sync" => AS!TypeOK
  /\ focus = "training" => TJ!TypeOK
  /\ focus = "heartbeats" => WC!TypeOK
  /\ focus = "tools" => CT!TypeOK

\* The report of a training is true and arrives, the training is not refused for
\* what was made of its dataset, and a completed run's adapter is in the store
\* when nothing failed on the way.
TrainingArrives ==
  /\ focus = "training" => TJ!TrainingIsReported
  /\ focus = "sync" => AS!ArtifactsStored

\* A living worker is shown running and a dead one is not.
WorkersAreShown == focus = "heartbeats" => WC!WorkersAreShown

\* What a tool call or the user's card is said to have made is what it made,
\* as whom and how often.
ToolCallsAreTrue == focus = "tools" => CT!ToolCallsAreTrue
=============================================================================
