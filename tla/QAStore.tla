------------------------------ MODULE QAStore ------------------------------
(* The in-memory store of quality scans: apps/api/services/qa_store.py, as *)
(* the preview and polling endpoints of apps/api/routers/ingest.py use it. *)
(*                                                                         *)
(* The store is two structures, a dictionary and an insertion order, kept  *)
(* in step by hand.  Previews and polls run on the server's thread pool    *)
(* and scans on its event loop, with no lock around the pair, so the two   *)
(* writes of one operation interleave with those of another.               *)
(***************************************************************************)
EXTENDS Naturals, Sequences, FiniteSets, SequencesExt

CONSTANTS
  Ids,        \* qa_ids, one minted per preview
  Polls,      \* polling requests
  Cap         \* HERMES_QA_CACHE_CAP

VARIABLES
  store,      \* _STORE: the status of an id, or "none"
  order,      \* _ORDER
  old,        \* ids whose entry is past its TTL
  pc,
  stale,      \* the ids the operation still has to drop from the store
  victim,     \* the id between its two removals
  (* history, read by the properties only *)
  overlapped  \* ids that two operations have been in the middle of at once

vars == <<store, order, old, pc, stale, victim, overlapped>>

\* One operation each: the preview that stakes the id, and its scan.
Previews == {<<"preview", i>> : i \in Ids}
Scans    == {<<"scan", i>> : i \in Ids}
Ops      == Previews \cup Scans \cup {<<"poll", p>> : p \in Polls}

Statuses == {"none", "pending", "ready", "unavailable"}
Phases   == {"idle", "drop", "unlist", "list", "write", "trim", "unstore", "scan", "done", "failed"}

TypeOK ==
  /\ store \in [Ids -> Statuses]
  /\ order \in Seq(Ids)
  /\ old \subseteq Ids
  /\ pc \in [Ops -> Phases]
  /\ stale \in [Ops -> SUBSET Ids]
  /\ victim \in [Ops -> SUBSET Ids]
  /\ overlapped \subseteq Ids

Init ==
  /\ store = [i \in Ids |-> "none"]
  /\ order = <<>>
  /\ old = {}
  /\ pc = [o \in Ops |-> "idle"]
  /\ stale = [o \in Ops |-> {}]
  /\ victim = [o \in Ops |-> {}]
  /\ overlapped = {}

Goto(o, p) == pc' = [pc EXCEPT ![o] = p]
Stored(i) == store[i] # "none"
Listed(i) == i \in ToSet(order)

\* An operation has changed one of the two structures for i and not the other.
Between(o, i) ==
  \/ pc[o] = "write" /\ o[2] = i
  \/ pc[o] \in {"unlist", "unstore"} /\ i \in victim[o]

-----------------------------------------------------------------------------
(* _evict_stale: how previews and polls begin                              *)

AfterEviction(o) == IF o \in Previews THEN "list" ELSE "done"

\* The comprehension looks every listed id up: one that is not stored raises,
\* and the request answers 500.
Snapshot(o) ==
  /\ o \notin Scans
  /\ pc[o] = "idle"
  /\ IF \E i \in Ids : Listed(i) /\ ~Stored(i)
     THEN Goto(o, "failed") /\ UNCHANGED stale
     ELSE /\ stale' = [stale EXCEPT ![o] = {i \in old : Listed(i)}]
          /\ Goto(o, IF stale'[o] = {} THEN AfterEviction(o) ELSE "drop")
  /\ UNCHANGED <<store, order, old, victim>>

DropStale(o, i) ==
  /\ pc[o] = "drop" /\ i \in stale[o]
  /\ store' = [store EXCEPT ![i] = "none"]
  /\ victim' = [victim EXCEPT ![o] = {i}]
  /\ stale' = [stale EXCEPT ![o] = @ \ {i}]
  /\ Goto(o, "unlist")
  /\ UNCHANGED <<order, old>>

\* list.remove takes the first occurrence, and none is forgiven.
Unlist(o, i) ==
  /\ pc[o] = "unlist" /\ i \in victim[o]
  /\ order' = RemoveFirst(order, i)
  /\ victim' = [victim EXCEPT ![o] = {}]
  /\ Goto(o, IF stale[o] = {} THEN AfterEviction(o) ELSE "drop")
  /\ UNCHANGED <<store, old, stale>>

-----------------------------------------------------------------------------
(* init_pending and set_result                                             *)

\* The loop runs one scan at a time: set_result does not await.
OnLoop(o) == o \in Scans => ~\E s \in Scans \ {o} : pc[s] \in {"write", "trim", "unstore"}

List(o) ==
  /\ pc[o] = "list" /\ OnLoop(o)
  /\ order' = IF Stored(o[2]) THEN order ELSE Append(order, o[2])
  /\ Goto(o, "write")
  /\ UNCHANGED <<store, old, stale, victim>>

Write(o) ==
  /\ pc[o] = "write"
  /\ \E s \in IF o \in Scans THEN {"ready", "unavailable"} ELSE {"pending"} :
       store' = [store EXCEPT ![o[2]] = s]
  /\ old' = old \ {o[2]}
  /\ Goto(o, "trim")
  /\ UNCHANGED <<order, stale, victim>>

\* _evict_overcap: here the order goes first.
TrimOrderOnly(o) ==  \* mutant: the entry behind the evicted id is forgotten
  /\ pc[o] = "trim"
  /\ IF Len(order) > Cap THEN order' = Tail(order) /\ UNCHANGED pc
     ELSE Goto(o, "done") /\ UNCHANGED order
  /\ UNCHANGED <<store, old, stale, victim>>

Trim(o) ==
  /\ pc[o] = "trim"
  /\ IF Len(order) > Cap
     THEN /\ victim' = [victim EXCEPT ![o] = {Head(order)}]
          /\ order' = Tail(order)
          /\ Goto(o, "unstore")
     ELSE Goto(o, "done") /\ UNCHANGED <<order, victim>>
  /\ UNCHANGED <<store, old, stale>>

Unstore(o, i) ==
  /\ pc[o] = "unstore" /\ i \in victim[o]
  /\ store' = [store EXCEPT ![i] = "none"]
  /\ victim' = [victim EXCEPT ![o] = {}]
  /\ Goto(o, "trim")
  /\ UNCHANGED <<order, old, stale>>

\* run_qa starts once the preview has been answered; the scan ends, fails or
\* times out, and its result is kept even if the entry is gone by then.
StartScan(i) ==
  /\ pc[<<"preview", i>>] = "done" /\ pc[<<"scan", i>>] = "idle"
  /\ Goto(<<"scan", i>>, "scan")
  /\ UNCHANGED <<store, order, old, stale, victim>>

EndScan(i) ==
  /\ pc[<<"scan", i>>] = "scan"
  /\ Goto(<<"scan", i>>, "list")
  /\ UNCHANGED <<store, order, old, stale, victim>>

\* HERMES_QA_CACHE_TTL_S passes.
Expire(i) ==
  /\ Stored(i) /\ i \notin old
  /\ old' = old \cup {i}
  /\ UNCHANGED <<store, order, pc, stale, victim>>

-----------------------------------------------------------------------------
OpStep(o) ==
  \/ Snapshot(o) \/ List(o) \/ Write(o) \/ Trim(o)
  \/ \E i \in Ids : DropStale(o, i) \/ Unlist(o, i) \/ Unstore(o, i)

Step ==
  \/ \E o \in Ops : OpStep(o)
  \/ \E i \in Ids : StartScan(i) \/ EndScan(i) \/ Expire(i)

Record ==
  overlapped' = overlapped \cup
    {i \in Ids : \E o, p \in Ops : o # p /\ Between(o, i)' /\ Between(p, i)'}

Next == Step /\ Record

Spec == Init /\ [][Next]_vars

-----------------------------------------------------------------------------
(* Properties                                                              *)

\* The dictionary and the order say the same of every id that no operation is in
\* the middle of, whatever else the operations interleave with: only two
\* operations in the middle of one id can part them for good.  When every
\* operation is through, the order lists nothing twice and is within the cap.
StoreInStep ==
  /\ \A i \in Ids \ overlapped :
       (\A o \in Ops : ~Between(o, i)) => (Listed(i) <=> Stored(i))
  /\ (\A o \in Ops : pc[o] \in {"idle", "scan", "done", "failed"})
       => IsInjective(order) /\ Len(order) <= Cap

-----------------------------------------------------------------------------
(* The inductive invariant                                                 *)

Once(i) == \A m, n \in DOMAIN order : order[m] = i /\ order[n] = i => m = n
AtMostTwice(i) ==
  \A l, m, n \in DOMAIN order :
    order[l] = i /\ order[m] = i /\ order[n] = i => l = m \/ l = n \/ m = n

Unlisting(i) == \E o \in Ops : pc[o] = "unlist" /\ i \in victim[o]
Unstoring(i) == \E o \in Ops : pc[o] = "unstore" /\ i \in victim[o]

\* A poll only evicts, a scan waits for its preview, and an operation removes one
\* entry at a time.
OpsInOrder ==
  /\ \A o \in Ops : pc[o] \in {"list", "write", "trim", "unstore"} => o \in Previews \cup Scans
  /\ \A i \in Ids : pc[<<"scan", i>>] # "idle" => pc[<<"preview", i>>] = "done"
  /\ \A o \in Ops : \A i, j \in victim[o] : i = j

\* The preview is the first to list its id.
ListedByPreview(i) ==
  pc[<<"preview", i>>] \in {"idle", "drop", "unlist", "list", "failed"}
    => ~Listed(i) /\ ~Unstoring(i)

\* Until the scan lists it again, an id is listed once, and not stored only while
\* it is being written or unlisted.
ScanMayList(i) ==
  pc[<<"scan", i>>] \in {"idle", "scan", "list"} =>
    /\ Once(i)
    /\ Unstoring(i) => ~Listed(i)
    /\ Listed(i) /\ ~Stored(i) => Unlisting(i) \/ pc[<<"preview", i>>] = "write"

\* An id listed twice is about to be unlisted.
SecondIsUnlisted(i) == AtMostTwice(i) /\ (Once(i) \/ Unlisting(i))

\* What an operation has done of an id it is in the middle of.
HalfDone(o, i) ==
  /\ pc[o] = "write" => Listed(i)
  /\ pc[o] = "unlist" => ~Stored(i)
  /\ pc[o] = "unstore" => ~Listed(i)

\* As long as no two operations were in the middle of an id, one at most is, and
\* the half it has done is all that the two structures differ in.
Steady(i) ==
  /\ Once(i)
  /\ \A o, p \in Ops : Between(o, i) /\ Between(p, i) => o = p
  /\ (\A o \in Ops : ~Between(o, i)) => (Listed(i) <=> Stored(i))
  /\ \A o \in Ops : Between(o, i) => HalfDone(o, i)

\* An order beyond the cap is about to be trimmed.
TrimPending ==
  Len(order) > Cap => \E o \in Ops : pc[o] \in {"write", "trim", "unstore"}

IInv ==
  /\ TypeOK /\ OpsInOrder /\ TrimPending
  /\ \A i \in Ids : ListedByPreview(i) /\ ScanMayList(i) /\ SecondIsUnlisted(i)
  /\ \A i \in Ids \ overlapped : Steady(i)
=============================================================================
