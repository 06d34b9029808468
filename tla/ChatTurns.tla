----------------------------- MODULE ChatTurns -----------------------------
(***************************************************************************)
(* One conversation of the chat UI: apps/api/routers/chat.py (messages and *)
(* the SSE stream), packages/chat_agent/history.py (the token budget) and  *)
(* packages/chat_agent/graph.py (the agent's graph).                       *)
(*                                                                         *)
(* A turn is a POST of the user's message followed by a GET of the stream. *)
(* The stream replays the stored rows, fits them to the budget (one        *)
(* blocking call of the summarizer), runs the graph and stores one         *)
(* assistant row.  Browser tabs are independent, so streams overlap.  The  *)
(* fitting runs on the event loop and stops every other stream meanwhile;  *)
(* POSTs are served by threads and go on.                                  *)
(***************************************************************************)
EXTENDS Naturals, Sequences, FiniteSets

CONSTANTS
  Streams,    \* requests of the stream, each opened at most once
  MaxPosts,   \* bound on the user's messages
  Budget,     \* CHAT_HISTORY_MAX_TOKENS; a message counts for one token
  KeepLastN,  \* CHAT_HISTORY_KEEP_LAST_N
  MaxFaults   \* bound on failing calls of the summarizer and the graph

VARIABLES
  rows,      \* the conversation's chat_messages, by id
  titled,    \* the conversation has lost its default title
  pc,        \* where each stream stands
  context,   \* the LangChain messages of each stream
  calls,     \* the tool calls each stream has executed
  results,   \* the tool_results of the stream's final state
  faults,
  (* history, read by the properties only *)
  loaded,    \* how many rows there were when the stream replayed them
  fitted,    \* what the budget did: "whole", "summary" or "tail"
  broken     \* streams whose graph failed or whose client went away

turnVars == <<pc, context, calls, results>>
histVars == <<loaded, fitted, broken>>
vars     == <<rows, titled, turnVars, faults, histVars>>

NoTurn == 0
Turns  == Streams \cup {NoTurn}

\* A tool call is named after the stream that made it: a turn runs the tools
\* at most once.
Row     == [role : {"user", "assistant", "summary"}, turn : Turns, results : Seq(Streams)]
Message == [kind : {"system", "human", "ai"}, of : Nat] \cup [kind : {"tool"}, of : Streams]
Phases  == {"idle", "fitting", "agent", "tools", "assemble", "final", "done"}

TypeOK ==
  /\ rows \in Seq(Row)
  /\ titled \in BOOLEAN
  /\ pc \in [Streams -> Phases]
  /\ context \in [Streams -> Seq(Message)]
  /\ calls \in [Streams -> SUBSET Streams]
  /\ results \in [Streams -> Seq(Streams)]
  /\ faults \in 0 .. MaxFaults
  /\ loaded \in [Streams -> Nat]
  /\ fitted \in [Streams -> {"none", "whole", "summary", "tail"}]
  /\ broken \subseteq Streams

Init ==
  /\ rows = <<>>
  /\ titled = FALSE
  /\ pc = [s \in Streams |-> "idle"]
  /\ context = [s \in Streams |-> <<>>]
  /\ calls = [s \in Streams |-> {}]
  /\ results = [s \in Streams |-> <<>>]
  /\ faults = 0
  /\ loaded = [s \in Streams |-> 0]
  /\ fitted = [s \in Streams |-> "none"]
  /\ broken = {}

Fault == faults < MaxFaults /\ faults' = faults + 1

Rows(role) == {i \in 1 .. Len(rows) : rows[i].role = role}
Newest(S)  == CHOOSE i \in S : \A j \in S : j <= i

-----------------------------------------------------------------------------
(* The stored conversation                                                 *)

AddRow(role, turn, res) ==
  rows' = Append(rows, [role |-> role, turn |-> turn, results |-> res])

\* POST /conversations/{id}/messages; the first one gives the title.
PostMessage ==
  /\ Cardinality(Rows("user")) < MaxPosts
  /\ AddRow("user", NoTurn, <<>>)
  /\ titled' = TRUE
  /\ UNCHANGED <<turnVars, faults, histVars>>

\* What one row replays as: an assistant row is the message with its tool
\* calls and then one ToolMessage per result.
ReplayRow(i) ==
  CASE rows[i].role = "user"      -> <<[kind |-> "human", of |-> i]>>
    [] rows[i].role = "assistant" ->
         <<[kind |-> "ai", of |-> i]>>
           \o [k \in 1 .. Len(rows[i].results) |-> [kind |-> "tool", of |-> rows[i].results[k]]]
    [] rows[i].role = "summary"   -> <<>>

ReplayUpTo[n \in Nat] == IF n = 0 THEN <<>> ELSE ReplayUpTo[n - 1] \o ReplayRow(n)

\* The newest summary moves to the front and the older ones are dropped; the
\* rows it summarizes all stay.
Replay ==
  IF Rows("summary") = {} THEN ReplayUpTo[Len(rows)]
  ELSE <<[kind |-> "system", of |-> Newest(Rows("summary"))]>> \o ReplayUpTo[Len(rows)]

-----------------------------------------------------------------------------
(* Opening a stream: replay and fit to the budget                          *)

\* stream_conversation and the generators run on the event loop, which a
\* stream that waits for the summarizer does not give back.
LoopFree(s) == \A t \in Streams : pc[t] = "fitting" => t = s

Step(s, from, to) ==
  /\ pc[s] = from
  /\ LoopFree(s)
  /\ pc' = [pc EXCEPT ![s] = to]

\* Streams are numbered in the order they are opened.
Opens(s) == pc[s] = "idle" /\ \A t \in Streams : t < s => pc[t] # "idle"

\* The health check fails: an error event and nothing else.
RefuseStream(s) ==
  /\ Opens(s)
  /\ Step(s, "idle", "done")
  /\ UNCHANGED <<rows, titled, context, calls, results, faults, histVars>>

FitsBudget(messages) == Len(messages) <= Budget \/ KeepLastN >= Len(messages)

LoadHistory(s) ==
  /\ Opens(s)
  /\ Step(s, "idle", IF FitsBudget(Replay) THEN "agent" ELSE "fitting")
  /\ context' = [context EXCEPT ![s] = Replay]
  /\ loaded' = [loaded EXCEPT ![s] = Len(rows)]
  /\ fitted' = [fitted EXCEPT ![s] = "whole"]
  /\ UNCHANGED <<rows, titled, calls, results, faults, broken>>

\* messages[-n:]
LastKeepingHead(messages, n) ==  \* mutant: messages[:n]
  IF Len(messages) <= n THEN messages ELSE SubSeq(messages, 1, n)

Last(messages, n) ==
  IF Len(messages) <= n THEN messages
  ELSE SubSeq(messages, Len(messages) - n + 1, Len(messages))

\* The summary is stored as a row; the agent is given the tail alone.
Summarize(s) ==
  /\ Step(s, "fitting", "agent")
  /\ AddRow("summary", NoTurn, <<>>)
  /\ context' = [context EXCEPT ![s] = Last(@, KeepLastN)]
  /\ fitted' = [fitted EXCEPT ![s] = "summary"]
  /\ UNCHANGED <<titled, calls, results, faults, loaded, broken>>

\* The summarizer raises: a wider tail and no summary.
SummarizerFails(s) ==
  /\ Step(s, "fitting", "agent")
  /\ Fault
  /\ context' = [context EXCEPT ![s] = Last(@, 2 * KeepLastN)]
  /\ fitted' = [fitted EXCEPT ![s] = "tail"]
  /\ UNCHANGED <<rows, titled, calls, results, loaded, broken>>

-----------------------------------------------------------------------------
(* The graph                                                               *)

\* direct_reply and ask_followup; without a HumanMessage in sight
\* classify_intent can only ask back.
ReplyDirectly(s) ==
  /\ Step(s, "agent", "final")
  /\ UNCHANGED <<rows, titled, context, calls, results, faults, histVars>>

\* classify_intent takes the turn for a request of data and the model either
\* calls tools or does not.
RouteToTools(s) ==
  /\ \E m \in 1 .. Len(context[s]) : context[s][m].kind = "human"
  /\ \/ Step(s, "agent", "tools")
     \/ Step(s, "agent", "assemble")
  /\ UNCHANGED <<rows, titled, context, calls, results, faults, histVars>>

\* ToolNode executes the calls of the last message.  ChatState.messages has
\* no reducer, so the ToolMessages it returns replace the whole context.
RunTools(s) ==
  /\ Step(s, "tools", "assemble")
  /\ calls' = [calls EXCEPT ![s] = @ \cup {s}]
  /\ context' = [context EXCEPT ![s] = <<[kind |-> "tool", of |-> s]>>]
  /\ UNCHANGED <<rows, titled, results, faults, histVars>>

\* assemble_response turns every ToolMessage it finds into a tool result:
\* those of this turn or, when no tool was called, all that were replayed.
ResultOf(message) == IF message.kind = "tool" THEN <<message.of>> ELSE <<>>
ResultsIn(messages) ==
  LET upTo[n \in Nat] == IF n = 0 THEN <<>> ELSE upTo[n - 1] \o ResultOf(messages[n])
  IN  upTo[Len(messages)]

AssembleResponse(s) ==
  /\ Step(s, "assemble", "final")
  /\ results' = [results EXCEPT ![s] = ResultsIn(context[s])]
  /\ UNCHANGED <<rows, titled, context, calls, faults, histVars>>

\* stream_response answers an exception of the graph with a final event that
\* has no text and no results, and the turn is stored all the same.
GraphFails(s) ==
  /\ pc[s] \in {"agent", "tools", "assemble"}
  /\ Step(s, pc[s], "final")
  /\ Fault
  /\ broken' = broken \cup {s}
  /\ UNCHANGED <<rows, titled, context, calls, results, loaded, fitted>>

PersistTurn(s) ==
  /\ Step(s, "final", "done")
  /\ AddRow("assistant", s, results[s])
  /\ UNCHANGED <<titled, context, calls, results, faults, histVars>>

\* The client goes away at an event of the stream, or the INSERT fails and is
\* only logged: no row.
LoseTurn(s) ==
  /\ pc[s] \in {"agent", "tools", "assemble", "final"}
  /\ Step(s, pc[s], "done")
  /\ broken' = broken \cup {s}
  /\ UNCHANGED <<rows, titled, context, calls, results, faults, loaded, fitted>>

-----------------------------------------------------------------------------
StreamStep(s) ==
  \/ Summarize(s) \/ SummarizerFails(s)
  \/ ReplyDirectly(s) \/ RouteToTools(s) \/ RunTools(s) \/ AssembleResponse(s)
  \/ GraphFails(s) \/ PersistTurn(s)

Next ==
  \/ PostMessage
  \/ \E s \in Streams : RefuseStream(s) \/ LoadHistory(s) \/ StreamStep(s) \/ LoseTurn(s)

Spec == Init /\ [][Next]_vars

-----------------------------------------------------------------------------
(* Properties                                                              *)

\* The agent answers the question that was asked: the newest user message of
\* the replayed rows is in the context, whatever the budget cut away and
\* wherever summaries were stored, unless another turn was already stored
\* after it (_load_history_as_langchain, compose_working_context).
QuestionIsSeen ==
  \A s \in Streams :
    LET asked == {i \in Rows("user") : i <= loaded[s]}
    IN  pc[s] = "agent" /\ asked # {} =>
          \/ \E m \in 1 .. Len(context[s]) :
               context[s][m] = [kind |-> "human", of |-> Newest(asked)]
          \/ \E i \in Rows("assistant") : Newest(asked) < i /\ i <= loaded[s]

\* Each tool result is behind the message that called the tool, whose row is stored.
ToolsAreBehind(messages, stored) ==
  \A m \in 1 .. Len(messages) : messages[m].kind = "tool" =>
    \E k \in 1 .. m - 1 :
      /\ messages[k].kind = "ai"
      /\ \E r \in 1 .. Len(stored[messages[k].of].results) :
           stored[messages[k].of].results[r] = messages[m].of

\* There is at most one summary, the newest, and it is in front.
SummaryIsInFront(messages, summaries) ==
  \A m \in 1 .. Len(messages) :
    /\ messages[m].kind = "system" => m = 1 /\ messages[m].of = Newest(summaries)
    /\ m = 1 /\ summaries # {} => messages[m].kind = "system"

\* A replay that is not cut yet shows each tool result behind the message that
\* called the tool, and at most one summary, the newest, in front: the replay
\* keeps the conversation's structure over any mix of overlapping turns.
SummariesRead(s) == {i \in Rows("summary") : i <= loaded[s]}
ReplayIsWhole ==
  \A s \in Streams :
    pc[s] \in {"fitting", "agent"} /\ fitted[s] = "whole" =>
      ToolsAreBehind(context[s], rows) /\ SummaryIsInFront(context[s], SummariesRead(s))

\* The agent works on what the conversation is: whole, and with the question
\* it is to answer (_load_history_as_langchain, compose_working_context).
ContextIsSound == QuestionIsSeen /\ ReplayIsWhole

\* What a tool did is not forgotten: a call of a turn that ran to its end is
\* in that turn's row, so the next turn knows it was made (the mutating tools
\* start experiments and synthesis jobs).
ExecutedIsRecorded ==
  \A s \in Streams \ broken :
    pc[s] = "done" => \A c \in calls[s] :
      \E i \in Rows("assistant") :
        rows[i].turn = s /\ \E k \in 1 .. Len(rows[i].results) : rows[i].results[k] = c

\* A result is stored a second time only by a turn that called no tool: a turn
\* that did records its own calls and nothing that was replayed to it.
RepeatedOnlyByIdleTurn ==
  \A i, j \in Rows("assistant") : i < j =>
    \A k \in 1 .. Len(rows[i].results) : \A l \in 1 .. Len(rows[j].results) :
      rows[i].results[k] = rows[j].results[l] => calls[rows[j].turn] = {}

\* The stored results are those of the calls: none is missing, and none is
\* there twice because of a turn that called tools itself.
ResultsMatchCalls == ExecutedIsRecorded /\ RepeatedOnlyByIdleTurn

-----------------------------------------------------------------------------
(* The inductive invariant                                                 *)

\* A turn calls its tools at most once, and its results are theirs until it is
\* stored, if its graph did not fail.
TurnPhase(s) ==
  /\ pc[s] \notin {"assemble", "final", "done"} => calls[s] = {}
  /\ pc[s] \notin {"final", "done"} => results[s] = <<>>
  /\ calls[s] \subseteq {s}
  /\ pc[s] = "assemble" /\ calls[s] # {} => context[s] = <<[kind |-> "tool", of |-> s]>>
  /\ calls[s] # {} => \A k \in 1 .. Len(results[s]) : results[s][k] = s
  /\ pc[s] = "final" /\ s \notin broken =>
       \A c \in calls[s] : \E k \in 1 .. Len(results[s]) : results[s][k] = c

\* A stored turn is done, is stored once, and holds its own results when it
\* called tools.
RowsAreOfTurns ==
  \A i \in Rows("assistant") :
    /\ rows[i].turn \in Streams /\ pc[rows[i].turn] = "done"
    /\ \A j \in Rows("assistant") : rows[j].turn = rows[i].turn => j = i
    /\ calls[rows[i].turn] # {} =>
         \A k \in 1 .. Len(rows[i].results) : rows[i].results[k] = rows[i].turn

\* A result is a stream's own or that of a stored turn, in a row not later.
ResultsAreOfTurns ==
  /\ \A s \in Streams :
       /\ \A m \in 1 .. Len(context[s]) : context[s][m].kind = "tool" =>
            \/ context[s][m].of = s
            \/ \E i \in Rows("assistant") : rows[i].turn = context[s][m].of
       /\ \A k \in 1 .. Len(results[s]) :
            \/ results[s][k] = s
            \/ \E i \in Rows("assistant") : rows[i].turn = results[s][k]
  /\ \A i \in Rows("assistant") : \A k \in 1 .. Len(rows[i].results) :
       \E j \in Rows("assistant") : j <= i /\ rows[j].turn = rows[i].results[k]

\* The question is the last message of what is fitted, unless a turn was stored
\* after it: what the budget cuts away is in front of it.
QuestionIsLast(s) ==
  LET asked == {i \in Rows("user") : i <= loaded[s]}
  IN  pc[s] \in {"fitting", "agent"} /\ asked # {} =>
        \/ /\ context[s] # <<>>
           /\ context[s][Len(context[s])] = [kind |-> "human", of |-> Newest(asked)]
        \/ \E i \in Rows("assistant") : Newest(asked) < i /\ i <= loaded[s]

\* Only rows that are stored were replayed, and a stream waits on its whole replay.
ReplayIsOfRows(s) ==
  /\ loaded[s] <= Len(rows)
  /\ pc[s] = "fitting" => fitted[s] = "whole"
  /\ pc[s] \in {"fitting", "agent"} /\ fitted[s] = "whole" =>
       \A m \in 1 .. Len(context[s]) : context[s][m].kind = "ai" => context[s][m].of \in 1 .. loaded[s]

IInv ==
  /\ TypeOK
  /\ \A s \in Streams : TurnPhase(s) /\ QuestionIsLast(s) /\ ReplayIsOfRows(s)
  /\ ReplayIsWhole /\ RowsAreOfTurns /\ ResultsAreOfTurns /\ ExecutedIsRecorded

-----------------------------------------------------------------------------
\* "The caller is responsible for actually prepending the summary"
\* (history.py): a context whose head was summarized starts with the summary.
SummaryIsPrepended ==
  \A s \in Streams :
    pc[s] = "agent" /\ fitted[s] = "summary" =>
      \E m \in 1 .. Len(context[s]) : context[s][m].kind = "system"
=============================================================================
