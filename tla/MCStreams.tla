------------------------------ MODULE MCStreams ------------------------------
(* The event streams of the API beside each other: the jobs of JobStream    *)
(* with the research pipeline one of them runs (ResearchEngine), the         *)
(* conversation of ChatTurns, and the agents of AgentRun.  They share no     *)
(* data, so a behaviour exercises one of them, the focus, and the others     *)
(* stay as they began: the product would reach nothing one does not.         *)
(***************************************************************************)
EXTENDS JobStream

CONSTANTS
  ChatStreams, MaxPosts, Budget, KeepLastN, MaxFaults,             \* the conversation
  Requests, Agent,                                                 \* the agents
  Backends, MaxHits, MinSections, MaxSections, FallbackSections, MaxTitles   \* the research

VARIABLES
  focus,
  rows, titled, pc, context, toolCalls, results, faults, loaded, fitted, broken,
  agentThread, emitted, sent, stream, span, table, agentFaults, unasked, disturbed,
  depth, stage, backend, hits, outline, bodies, critique, comparison, stages

ASSUME StreamsAssumption ==
  /\ KeepLastN \in Nat \ {0}
  /\ {MaxFaults, MaxHits, MinSections, MaxSections, FallbackSections} \subseteq Nat
  /\ MinSections <= FallbackSections /\ FallbackSections <= MaxSections
  /\ Backends \in Seq(STRING)
  /\ IsFiniteSet(Requests)
  /\ Agent \in [Requests -> {"experiment_recommender", "optimization_coach",
                             "evaluation_designer", "incident_responder"}]

\* One agent of three steps that may return early, and one of a single step.
TwoAgents == <<"evaluation_designer", "incident_responder">>

SearchOrder == <<"serpapi", "tavily", "ddgs">>

Chat == INSTANCE ChatTurns WITH Streams <- ChatStreams, calls <- toolCalls
AR == INSTANCE AgentRun WITH thread <- agentThread, faults <- agentFaults
RE == INSTANCE ResearchEngine
        WITH table <- comparison, emitted <- stages

chatVars   == <<rows, titled, pc, context, toolCalls, results, faults, loaded, fitted, broken>>
agentVars  == <<agentThread, emitted, sent, stream, span, table, agentFaults, unasked, disturbed>>
reportVars == <<depth, stage, backend, hits, outline, bodies, critique, comparison, stages>>
allVars    == <<focus, vars, chatVars, agentVars, reportVars>>

StreamsInit ==
  /\ focus \in {"jobs", "chat", "agents", "research"}
  /\ focus = "research" \/ depth = "quick"
  /\ Init /\ Chat!Init /\ AR!Init /\ RE!Init

StreamsNext ==
  \/ focus = "jobs" /\ Next /\ UNCHANGED <<focus, chatVars, agentVars, reportVars>>
  \/ focus = "chat" /\ Chat!Next /\ UNCHANGED <<focus, vars, agentVars, reportVars>>
  \/ focus = "agents" /\ AR!Next /\ UNCHANGED <<focus, vars, chatVars, reportVars>>
  \/ focus = "research" /\ RE!Next /\ UNCHANGED <<focus, vars, chatVars, agentVars>>

\* The fair steps of the jobs are disabled where these start, so the fairness
\* asks for nothing while another part is in focus.
StreamsSpec == StreamsInit /\ [][StreamsNext]_allVars /\ Fairness

StreamsTypeOK ==
  /\ TypeOK
  /\ focus = "chat" => Chat!TypeOK
  /\ focus = "agents" => AR!TypeOK
  /\ focus = "research" => RE!TypeOK

\* The agent works on what the conversation is, with its question, and the
\* stored tool results are those of the calls.
ConversationIsSound == focus = "chat" => Chat!ContextIsSound /\ Chat!ResultsMatchCalls

\* What a user sees of an agent run is what it did, and a composed report is
\* whole, whatever failed on the way.
AnswersAreWhole ==
  /\ focus = "agents" => AR!AgentRunIsSeen
  /\ focus = "research" => RE!ReportIsWhole

\* The inductive invariant: those of the parts, which share nothing.
StreamsInv == IInv /\ Chat!IInv /\ AR!IInv /\ RE!IInv

\* An agent puts an installed skill to the model.
InstalledSkillIsAsked == focus = "agents" => AR!InstalledSkillIsAsked
=============================================================================
