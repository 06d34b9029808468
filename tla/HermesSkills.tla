---------------------------- MODULE HermesSkills ----------------------------
(* Skill calls: packages/ratchet/hermes_bridge.py, the endpoints of         *)
(* apps/api/routers/hermes.py that go through it, and what                  *)
(* apps/api/routers/traces.py derives from the rows the calls leave.        *)
(*                                                                          *)
(* A call reads a markdown file, posts to the model up to MaxAttempts       *)
(* times, leaves one row of hermes_traces and parses the answer.  Skill     *)
(* files are edited while calls run.  What a caller makes of the parsed      *)
(* answer changes no state here.                                            *)
(***************************************************************************)
EXTENDS Naturals, Sequences, FiniteSets

CONSTANTS
  Calls,        \* requests that end in a skill call
  Skills,
  Proposals,    \* the calls of propose_mutation, which has a prompt of its own
  MaxAttempts,  \* HERMES_MAX_RETRIES
  MaxEdits,     \* bound on the edits of skill files
  MaxRefused    \* bound on the rows the database refuses

VARIABLES
  file,         \* version of a skill's markdown, 0 while it is not installed
  edits,
  call,         \* [skill, phase, posts, sha, reply] of each call
  rows,         \* hermes_traces, in the order of created_at
  untraced      \* calls whose row the database refused

vars == <<file, edits, call, rows, untraced>>

Replies == {"pending", "answered", "no_skill", "unavailable", "broken"}
Phases  == {"load", "post", "done"}
Row     == [call : Calls, skill : Skills, sha : 0 .. MaxEdits + 1, ok : BOOLEAN,
            attempts : 1 .. MaxAttempts]

TypeOK ==
  /\ file \in [Skills -> 0 .. MaxEdits + 1] /\ edits \in 0 .. MaxEdits
  /\ call \in [Calls -> [skill : Skills, phase : Phases, posts : 0 .. MaxAttempts,
                         sha : 0 .. MaxEdits + 1, reply : Replies]]
  /\ rows \in Seq(Row)
  /\ untraced \subseteq Calls

Init ==
  /\ file \in [Skills -> {0, 1}] /\ edits = 0
  /\ call \in [Calls -> [skill : Skills, phase : {"load"}, posts : {0}, sha : {0}, reply : {"pending"}]]
  /\ rows = <<>> /\ untraced = {}

-----------------------------------------------------------------------------
(* Skill files                                                             *)

\* Somebody installs a skill or changes its text; hashes tell versions apart.
EditSkill(k) ==
  /\ edits < MaxEdits
  /\ edits' = edits + 1
  /\ file' = [file EXCEPT ![k] = edits + 2]
  /\ UNCHANGED <<call, rows, untraced>>

-----------------------------------------------------------------------------
(* One call                                                                *)

EndCall(c, reply) == call' = [call EXCEPT ![c].phase = "done", ![c].reply = reply]

\* load_skill reads the text and hashes what it read.  An endpoint whose run,
\* session or dataset is missing has answered 404 and never becomes a call.
LoadSkill(c) ==
  /\ call[c].phase = "load"
  /\ file[call[c].skill] # 0 \/ c \in Proposals
  /\ call' = [call EXCEPT ![c].phase = "post", ![c].sha = file[call[c].skill]]
  /\ UNCHANGED <<file, edits, rows, untraced>>

\* Without the file an endpoint answers 404 and run_skill raises; a file that is
\* there and cannot be read, or is not UTF-8, raises in all of them.
SkillMissing(c) ==
  /\ call[c].phase = "load"
  /\ file[call[c].skill] # 0 \/ c \notin Proposals
  /\ EndCall(c, "no_skill")
  /\ UNCHANGED <<file, edits, rows, untraced>>

\* _record_trace: best effort.
Record(c, ok) ==
  \/ /\ rows' = Append(rows, [call |-> c, skill |-> call[c].skill, sha |-> call[c].sha,
                              ok |-> ok, attempts |-> call[c].posts + 1])
     /\ UNCHANGED untraced
  \/ /\ Cardinality(untraced) < MaxRefused
     /\ untraced' = untraced \cup {c} /\ UNCHANGED rows

\* An HTTP answer with content: traced, whatever the caller's parser says.
ModelAnswers(c) ==
  /\ call[c].phase = "post"
  /\ Record(c, TRUE)
  /\ call' = [call EXCEPT ![c].phase = "done", ![c].posts = @ + 1, ![c].reply = "answered"]
  /\ UNCHANGED <<file, edits>>

TraceEveryAttempt(c) ==  \* mutant: the handler is inside the retry loop
  /\ call[c].phase = "post"
  /\ call' = IF call[c].posts + 1 < MaxAttempts
             THEN [call EXCEPT ![c].posts = @ + 1]
             ELSE [call EXCEPT ![c].phase = "done", ![c].posts = @ + 1,
                               ![c].reply = "unavailable"]
  /\ Record(c, FALSE)
  /\ UNCHANGED <<file, edits>>

\* A connection error, a timeout, or 429, 502, 503, 504: tried again until the
\* attempts are used up.  Only the end of the call leaves a row.
TransientError(c) ==
  /\ call[c].phase = "post"
  /\ IF call[c].posts + 1 < MaxAttempts
     THEN /\ call' = [call EXCEPT ![c].posts = @ + 1]
          /\ UNCHANGED <<rows, untraced>>
     ELSE /\ call' = [call EXCEPT ![c].phase = "done", ![c].posts = @ + 1,
                                  ![c].reply = "unavailable"]
          /\ Record(c, FALSE)
  /\ UNCHANGED <<file, edits>>

\* Any other status: not tried again.
HttpError(c) ==
  /\ call[c].phase = "post"
  /\ call' = [call EXCEPT ![c].phase = "done", ![c].posts = @ + 1, ![c].reply = "unavailable"]
  /\ Record(c, FALSE)
  /\ UNCHANGED <<file, edits>>

\* An answer that is no JSON or has no message: the exception is none of
\* httpx's, so it passes the retry and the handler that records failures.
MalformedAnswer(c) ==
  /\ call[c].phase = "post"
  /\ call' = [call EXCEPT ![c].phase = "done", ![c].posts = @ + 1, ![c].reply = "broken"]
  /\ UNCHANGED <<file, edits, rows, untraced>>

-----------------------------------------------------------------------------
(* What the Traces tab derives                                             *)

OfSkill(k) == {i \in DOMAIN rows : rows[i].skill = k}
Hashed(k)  == {i \in OfSkill(k) : rows[i].sha # 0}

\* The last row of R before row i, if there is one, has a hash, and another.
DiffersFromLast(R, i) ==
  \E j \in R : /\ j < i /\ \A l \in R : l < i => l <= j
               /\ rows[j].sha \notin {0, rows[i].sha}

\* _previous_skill_hashes and _row_to_trace: the row is marked when the row
\* before it, of the same skill, has another hash and both have one.
Marked(k) == {i \in Hashed(k) : DiffersFromLast(OfSkill(k), i)}

\* list_skill_summary: rows without a hash are passed over.
ChangeCount(k) == Cardinality({i \in Hashed(k) : DiffersFromLast(Hashed(k), i)})

-----------------------------------------------------------------------------
CallStep(c) ==
  \/ LoadSkill(c) \/ SkillMissing(c)
  \/ ModelAnswers(c) \/ TransientError(c) \/ HttpError(c) \/ MalformedAnswer(c)

Next ==
  \/ \E k \in Skills : EditSkill(k)
  \/ \E c \in Calls : CallStep(c)

Spec == Init /\ [][Next]_vars

-----------------------------------------------------------------------------
(* Properties                                                              *)

RowsOf(c) == {i \in DOMAIN rows : rows[i].call = c}

\* A call leaves one row, whatever the number of attempts, that says how it
\* ended and how often the model was asked; a call that never reached the model
\* or failed on the answer's shape leaves none, and neither does one the
\* database refused.
TracedOnce ==
  \A c \in Calls :
    IF call[c].reply \in {"answered", "unavailable"} /\ c \notin untraced
    THEN \E i \in RowsOf(c) : /\ RowsOf(c) = {i}
                              /\ rows[i].ok = (call[c].reply # "unavailable")
                              /\ rows[i].attempts = call[c].posts
    ELSE RowsOf(c) = {}

\* The marks on the rows and the count of the summary agree on how often a
\* skill changed, unless a proposal ran without the skill's file in between.
ChangesAgree ==
  \A k \in Skills :
    (\A i \in DOMAIN rows : rows[i].sha # 0) => Cardinality(Marked(k)) = ChangeCount(k)

\* What the Traces tab shows of the calls and of the skills' changes is true.
SkillCallsTraced == TracedOnce /\ ChangesAgree

-----------------------------------------------------------------------------
(* The inductive invariant                                                 *)

\* A call that has not ended has attempts left, and one whose row was not written
\* has an outcome.
CallPhase(c) ==
  /\ call[c].phase # "done" => call[c].reply = "pending" /\ call[c].posts < MaxAttempts
  /\ c \in untraced => call[c].reply \in {"answered", "unavailable"}

IInv == TypeOK /\ TracedOnce /\ \A c \in Calls : CallPhase(c)
=============================================================================
