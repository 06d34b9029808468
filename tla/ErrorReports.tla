---------------------------- MODULE ErrorReports ----------------------------
(* What becomes of a captured error behind the automatic repair:            *)
(* packages/error_responder/reporter.py (queue, storm protection, dispatch) *)
(* and github_issue.py.                                                     *)
(*                                                                          *)
(* Each process (the API with its dispatcher task, a worker in its own      *)
(* thread) sends one report at a time: it looks for an open issue with the  *)
(* error's fingerprint, comments on it or opens one, and leaves a row.      *)
(***************************************************************************)
EXTENDS Naturals, Sequences, FiniteSets

CONSTANTS
  Api, Workers,  \* processes
  Fingerprints,
  QueueCap,      \* 1024
  Threshold,     \* AUTOFIX_STORM_THRESHOLD
  Window,        \* _storm_window_s, in ticks
  MaxErrors,     \* bound on captured errors
  MaxTicks,
  MaxUpsets      \* bound on failing calls, restarts and closed issues together

VARIABLES
  queue,         \* the API's queue of captured errors
  window,        \* per process and fingerprint: ages of the occurrences
  pc,            \* [at, fp]: where a process stands with its report
  open,          \* number of open issues by fingerprint
  rows,          \* attempts recorded
  captured, ticks, upsets,
  (* history, read by the properties only *)
  sent,          \* per process and fingerprint: ages of what went to GitHub
  unrecorded,    \* reports dropped, lost with a process or refused by the database
  excused        \* fingerprints whose reports overlapped, or whose search failed

vars == <<queue, window, pc, open, rows, captured, ticks, upsets, sent, unrecorded, excused>>

Reporters == {Api} \cup Workers
Ages  == Seq(0 .. Window + 1)
Steps == {"idle", "captured", "search", "comment", "open", "record"}
Busy(p) == pc[p].at # "idle"
NoFp  == CHOOSE f \in Fingerprints : TRUE
Idle  == [at |-> "idle", fp |-> NoFp]

TypeOK ==
  /\ queue \in Seq(Fingerprints) /\ Len(queue) <= QueueCap
  /\ window \in [Reporters -> [Fingerprints -> Ages]] /\ sent \in [Reporters -> [Fingerprints -> Ages]]
  /\ pc \in [Reporters -> [at : Steps, fp : Fingerprints]]
  /\ open \in [Fingerprints -> Nat]
  /\ rows \in 0 .. MaxErrors /\ captured \in 0 .. MaxErrors
  /\ ticks \in 0 .. MaxTicks /\ upsets \in 0 .. MaxUpsets
  /\ unrecorded \in 0 .. MaxErrors /\ excused \subseteq Fingerprints

Init ==
  /\ queue = <<>> /\ pc = [p \in Reporters |-> Idle]
  /\ window = [p \in Reporters |-> [f \in Fingerprints |-> <<>>]] /\ sent = window
  /\ open = [f \in Fingerprints |-> 0]
  /\ rows = 0 /\ captured = 0 /\ ticks = 0 /\ upsets = 0 /\ unrecorded = 0 /\ excused = {}

Go(p, at) == pc' = [pc EXCEPT ![p].at = at]
Upset == upsets < MaxUpsets /\ upsets' = upsets + 1

-----------------------------------------------------------------------------
(* Capture                                                                 *)

\* report_exception on the loop: a full queue drops the error.
Enqueue(f) ==
  /\ captured < MaxErrors /\ captured' = captured + 1
  /\ IF Len(queue) < QueueCap
     THEN queue' = Append(queue, f) /\ UNCHANGED unrecorded
     ELSE unrecorded' = unrecorded + 1 /\ UNCHANGED queue
  /\ UNCHANGED <<window, pc, open, rows, ticks, upsets, sent, excused>>

\* The dispatcher takes the next one when it is through with the last.
Dequeue ==
  /\ ~Busy(Api) /\ queue # <<>>
  /\ pc' = [pc EXCEPT ![Api] = [at |-> "captured", fp |-> Head(queue)]]
  /\ queue' = Tail(queue)
  /\ UNCHANGED <<window, open, rows, captured, ticks, upsets, sent, unrecorded, excused>>

\* report_exception_sync, in a worker.
Report(w, f) ==
  /\ ~Busy(w) /\ captured < MaxErrors
  /\ captured' = captured + 1
  /\ pc' = [pc EXCEPT ![w] = [at |-> "captured", fp |-> f]]
  /\ UNCHANGED <<queue, window, open, rows, ticks, upsets, sent, unrecorded, excused>>

-----------------------------------------------------------------------------
(* _dispatch_production                                                    *)

\* The occurrences that are not older than age.
Since(s, age) == {i \in DOMAIN s : s[i] <= age}
Recent(p, f)  == Since(window[p][f], Window)

CapLate(p, f) ==  \* mutant: compared before this occurrence is counted
  Cardinality(Recent(p, f)) <= Threshold

\* _under_storm_cap: this occurrence counts, whether it is sent or not; those that
\* the code drops as too old stay in the window here and do not count.
UnderCap(p, f) == Cardinality(Recent(p, f)) + 1 <= Threshold

\* A storm is recorded here and not sent.  The repair that is tried first, and
\* a missing GitHub configuration, are left to AutoFix.
CheckStorm(p) ==
  /\ pc[p].at = "captured"
  /\ LET f == pc[p].fp
     IN  /\ window' = [window EXCEPT ![p][f] = Append(@, 0)]
         /\ IF UnderCap(p, f)
            THEN Go(p, "search") /\ sent' = [sent EXCEPT ![p][f] = Append(@, 0)]
            ELSE Go(p, "record") /\ UNCHANGED sent
  /\ UNCHANGED <<queue, open, rows, captured, ticks, upsets, unrecorded, excused>>

Overlap(p) == {pc[q].fp : q \in {q \in Reporters \ {p} : pc[q].at \in {"open", "comment"} /\ pc[q].fp = pc[p].fp}}

\* _search_existing; when it fails the report goes on as if there were none.
Search(p) ==
  /\ pc[p].at = "search"
  /\ \/ /\ Go(p, IF open[pc[p].fp] > 0 THEN "comment" ELSE "open")
        /\ excused' = excused \cup Overlap(p)
        /\ UNCHANGED upsets
     \/ /\ Upset /\ Go(p, "open")
        /\ excused' = excused \cup {pc[p].fp}
  /\ UNCHANGED <<queue, window, open, rows, captured, ticks, sent, unrecorded>>

\* _post_issue or _post_comment; a failure is an outcome like others.
Post(p) ==
  /\ pc[p].at \in {"comment", "open"}
  /\ \/ /\ open' = IF pc[p].at = "open" THEN [open EXCEPT ![pc[p].fp] = @ + 1] ELSE open
        /\ UNCHANGED upsets
     \/ Upset /\ UNCHANGED open
  /\ Go(p, "record")
  /\ UNCHANGED <<queue, window, rows, captured, ticks, sent, unrecorded, excused>>

\* _persist_attempt, best effort.
Persist(p) ==
  /\ pc[p].at = "record"
  /\ \/ rows' = rows + 1 /\ UNCHANGED <<unrecorded, upsets>>
     \/ Upset /\ unrecorded' = unrecorded + 1 /\ UNCHANGED rows
  /\ pc' = [pc EXCEPT ![p] = Idle]
  /\ UNCHANGED <<queue, window, open, captured, ticks, sent, excused>>

-----------------------------------------------------------------------------
\* Somebody closes the issue: the next report opens another one.
CloseIssue(f) ==
  /\ open[f] > 0 /\ Upset
  /\ open' = [open EXCEPT ![f] = @ - 1]
  /\ UNCHANGED <<queue, window, pc, rows, captured, ticks, sent, unrecorded, excused>>

Tick ==
  /\ ticks < MaxTicks /\ ticks' = ticks + 1
  /\ LET Older(s) == [i \in 1 .. Len(s) |-> IF s[i] > Window THEN s[i] ELSE s[i] + 1]
     IN  /\ window' = [p \in Reporters |-> [f \in Fingerprints |-> Older(window[p][f])]]
         /\ sent' = [p \in Reporters |-> [f \in Fingerprints |-> Older(sent[p][f])]]
  /\ UNCHANGED <<queue, pc, open, rows, captured, upsets, unrecorded, excused>>

\* The queue, the windows and the report in progress are the process's.
Restart(p) ==
  /\ Upset
  /\ LET lost == (IF p = Api THEN Len(queue) ELSE 0) + (IF Busy(p) THEN 1 ELSE 0)
     IN  unrecorded' = unrecorded + lost
  /\ queue' = IF p = Api THEN <<>> ELSE queue
  /\ pc' = [pc EXCEPT ![p] = Idle]
  /\ window' = [window EXCEPT ![p] = [f \in Fingerprints |-> <<>>]]
  /\ sent' = [sent EXCEPT ![p] = [f \in Fingerprints |-> <<>>]]
  /\ UNCHANGED <<open, rows, captured, ticks, excused>>

Next ==
  \/ \E f \in Fingerprints : Enqueue(f) \/ CloseIssue(f) \/ \E w \in Workers : Report(w, f)
  \/ Dequeue
  \/ \E p \in Reporters : CheckStorm(p) \/ Search(p) \/ Post(p) \/ Persist(p) \/ Restart(p)
  \/ Tick

Spec == Init /\ [][Next]_vars

-----------------------------------------------------------------------------
(* Properties                                                              *)

\* However often an error comes back, in whichever process, it has one open
\* issue; unless a search failed or two processes sent it at the same time.
OneIssuePerError == \A f \in Fingerprints \ excused : open[f] <= 1

\* A process sends no more than Threshold reports of an error within a window.
StormIsBounded ==
  \A p \in Reporters, f \in Fingerprints :
    Cardinality(Since(sent[p][f], Window)) <= Threshold

\* Every captured error is waiting, on its way or recorded, sent or not, except
\* those dropped by a full queue, lost with a process or refused by the database.
EveryErrorIsRecorded ==
  captured = Len(queue) + Cardinality({p \in Reporters : Busy(p)}) + rows + unrecorded

ErrorsAreReported == OneIssuePerError /\ StormIsBounded /\ EveryErrorIsRecorded

-----------------------------------------------------------------------------
(* The inductive invariant                                                 *)

Sending(f) == {p \in Reporters : pc[p].at \in {"open", "comment"} /\ pc[p].fp = f}

\* An error is sent by one process at a time, which opens an issue only while
\* there is none.
OneSender(f) ==
  /\ \A p, q \in Sending(f) : p = q
  /\ \A p \in Sending(f) : pc[p].at = "open" => open[f] = 0

\* Whatever the age, no more was sent since than occurred.
SentOccurred ==
  \A p \in Reporters, f \in Fingerprints, age \in 0 .. Window :
    Cardinality(Since(sent[p][f], age)) <= Cardinality(Since(window[p][f], age))

IInv ==
  /\ TypeOK /\ ErrorsAreReported /\ SentOccurred
  /\ \A f \in Fingerprints \ excused : OneSender(f)
=============================================================================
