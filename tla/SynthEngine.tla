---------------------------- MODULE SynthEngine ----------------------------
(* The synthesis loop of packages/dataset_synth/engine.py: batches of the   *)
(* model's answers until the target or the cap on batches is reached.       *)
(* JobStream has the job around it, DatasetSplits what becomes of the       *)
(* records.                                                                 *)
(***************************************************************************)
EXTENDS Naturals, Sequences, SequencesExt, FiniteSets

CONSTANTS
  Records,      \* what a line of an answer may parse to
  Malformed,    \* those of another shape than the seeds
  Seeds,        \* the source dataset
  Target, BatchSize, MaxBatches,
  MaxLines      \* bound on the records of an answer

VARIABLES
  generated,    \* the synthesized records
  hashes,       \* seen
  batch,
  reports,      \* what progress_cb was told: [generated, dropped]
  outcome       \* running, returned, raised

vars == <<generated, hashes, batch, reports, outcome>>

Answers == UNION {[1 .. n -> Records] : n \in 0 .. MaxLines}

TypeOK ==
  /\ generated \in Seq(Records) /\ hashes \subseteq Records
  /\ batch \in 0 .. MaxBatches
  /\ reports \in Seq([generated : 0 .. Target, dropped : Nat])
  /\ outcome \in {"running", "returned", "raised"}

Init ==
  /\ generated = <<>> /\ hashes = Seeds
  /\ batch = 0 /\ reports = <<>> /\ outcome = "running"

-----------------------------------------------------------------------------
Looping == outcome = "running" /\ Len(generated) < Target /\ batch < MaxBatches

\* How many records a batch asks for: two more than it needs.
RequestSize ==
  (IF BatchSize < Target - Len(generated) THEN BatchSize ELSE Target - Len(generated)) + 2

Report(kept, dropped) == reports' = Append(reports, [generated |-> kept, dropped |-> dropped])

\* One record of an answer; behind the target they are not looked at.
Keep(st, r) ==
  IF Len(st.kept) >= Target THEN st
  ELSE IF r \in Malformed \/ r \in st.seen THEN [st EXCEPT !.dropped = @ + 1]
  ELSE [st EXCEPT !.kept = Append(@, r), !.seen = @ \cup {r}]

\* The model answers; lines that do not parse are passed over.
Batch(answer) ==
  /\ Looping
  /\ batch' = batch + 1
  /\ LET st == FoldLeft(Keep, [kept |-> generated, seen |-> hashes, dropped |-> 0], answer)
     IN  /\ generated' = st.kept /\ hashes' = st.seen
         /\ Report(Len(st.kept), st.dropped)
  /\ UNCHANGED outcome

\* An HTTP error costs its batch.
BatchFails ==
  /\ Looping
  /\ batch' = batch + 1
  /\ Report(Len(generated), RequestSize)
  /\ UNCHANGED <<generated, hashes, outcome>>

\* An answer without a message is no httpx error and ends the synthesis.
BatchRaises ==
  /\ Looping
  /\ batch' = batch + 1 /\ outcome' = "raised"
  /\ UNCHANGED <<generated, hashes, reports>>

Return ==
  /\ outcome = "running" /\ ~Looping
  /\ outcome' = "returned"
  /\ UNCHANGED <<generated, hashes, batch, reports>>

Next == (\E a \in Answers : Batch(a)) \/ BatchFails \/ BatchRaises \/ Return

Spec == Init /\ [][Next]_vars

-----------------------------------------------------------------------------
(* Properties                                                              *)

\* Whatever the model repeats, within an answer, over batches or from the
\* seeds, the new dataset holds well-formed records that are all different and
\* none of them a seed, and no more than asked for.
RecordsAreNew ==
  /\ Len(generated) <= Target
  /\ Cardinality(ToSet(generated)) = Len(generated)
  /\ ToSet(generated) \cap (Seeds \cup Malformed) = {}

\* A synthesis returns short of its target only when the batches are used up,
\* and each batch has told the job how far it is.
ShortOnlyAtCap ==
  /\ outcome = "returned" => Len(generated) = Target \/ batch = MaxBatches
  /\ outcome # "raised" => Len(reports) = batch
  /\ reports # <<>> => Last(reports).generated = Len(generated)

SynthesisIsSound == RecordsAreNew /\ ShortOnlyAtCap

\* seen has the hashes of the seeds and of what was kept.
HashesAreOfRecords == hashes = Seeds \cup ToSet(generated)

IInv == TypeOK /\ HashesAreOfRecords /\ SynthesisIsSound
=============================================================================
