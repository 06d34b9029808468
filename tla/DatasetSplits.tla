--------------------------- MODULE DatasetSplits ---------------------------
(* How the records of a dataset are divided into train, valid and canary:   *)
(* auto_split (packages/dataset_ingest/converter.py) for uploads of modest  *)
(* size, the StreamingSplitWriter for large ones, _clamp_split of           *)
(* apps/api/routers/synth.py, and the staged ingest's finalize              *)
(* (apps/api/routers/ingest.py), with the files it leaves behind.           *)
(*                                                                          *)
(* One dataset is written by the streaming writer, record by record; the    *)
(* splits of a whole list are taken of the number of records so far.        *)
(* Ratios are percentages.                                                  *)
(***************************************************************************)
EXTENDS Integers, FiniteSetsExt

CONSTANTS
  MaxTotal,     \* bound on the records of a dataset
  Requested,    \* [valid, canary]: percentages a user may ask for
  MaxFinalizes  \* bound on the times a staged dataset is written

VARIABLES
  counts,       \* the streaming writer's counts
  asked,        \* the percentages asked for
  dir,          \* per split: which finalize wrote its file, 0 if it is not there
  finalizes

vars == <<counts, asked, dir, finalizes>>

Splits == {"train", "valid", "canary"}
Total  == counts["train"] + counts["valid"] + counts["canary"]

TypeOK ==
  /\ counts \in [Splits -> 0 .. MaxTotal] /\ Total <= MaxTotal
  /\ asked \in Requested
  /\ dir \in [Splits -> 0 .. MaxFinalizes] /\ finalizes \in 0 .. MaxFinalizes

Init ==
  /\ counts = [s \in Splits |-> 0] /\ asked \in Requested
  /\ dir = [s \in Splits |-> 0] /\ finalizes = 0

MinOf(a, b) == IF a < b THEN a ELSE b
MaxOf(a, b) == IF a > b THEN a ELSE b
Sizes(t, v, c) == [train |-> t, valid |-> v, canary |-> c]

\* int(round(n * ratio)): to the nearest, a half to the even neighbour.
Rounded(n, percent) ==
  LET q == (n * percent) \div 100
      r == (n * percent) % 100
  IN  IF r > 50 \/ (r = 50 /\ q % 2 = 1) THEN q + 1 ELSE q

-----------------------------------------------------------------------------
(* The streaming writer                                                    *)

AssignByHash(band) == band  \* mutant: without the minimums

\* _assign: the minimums first, then the band the record's hash falls into.
Assign(band) ==
  IF counts["canary"] < 1 THEN "canary"
  ELSE IF counts["valid"] < 4 THEN "valid"
  ELSE band

\* write.  The hash is spread over the bands: any of them may come up.
Write(band) ==
  /\ Total < MaxTotal
  /\ counts' = [counts EXCEPT ![Assign(band)] = @ + 1]
  /\ UNCHANGED <<asked, dir, finalizes>>

-----------------------------------------------------------------------------
(* Splitting a list of n records                                           *)

\* auto_split.  The loop gives back canaries, then valid records, above the
\* minimums while nothing is left to train on.
AutoSplit(n) ==
  IF n <= 1 THEN Sizes(n, 0, 0)
  ELSE IF n < 6 THEN Sizes(n - 1, 1, 0)
  ELSE LET canary == MaxOf(1, Rounded(n, 5))
           valid  == MaxOf(4, Rounded(n, 15))
           excess == MaxOf(0, valid + canary - n + 1)
           c      == MaxOf(1, canary - excess)
           v      == MaxOf(4, valid - (excess - (canary - c)))
           v1     == IF v + c >= n THEN MinOf(v, MaxOf(1, n - c - 1)) ELSE v
       IN  Sizes(n - v1 - c, v1, c)

\* _clamp_split
ClampSplit(n, p) ==
  LET valid  == MaxOf(4, Rounded(n, p.valid))
      canary == MaxOf(1, Rounded(n, p.canary))
      v1     == IF n - 1 >= 5 THEN MaxOf(4, (n - 1) \div 2) ELSE MaxOf(0, n - 2)
  IN  IF n - valid - canary >= 1 THEN Sizes(n - valid - canary, valid, canary)
      ELSE Sizes(1, v1, MaxOf(0, n - 1 - v1))

\* finalize: percentages rounded down, and one valid record out of the train
\* records when some were asked for and there are two.
FinalizeSplit(n, p) ==
  LET canary == (n * p.canary) \div 100
      valid  == (n * p.valid) \div 100
      v1     == IF p.valid > 0 /\ valid = 0 /\ n >= 2 THEN 1 ELSE valid
  IN  Sizes(n - canary - v1, v1, canary)

-----------------------------------------------------------------------------
(* The files of a staged dataset                                           *)

\* finalize over the records so far: train and valid are written, and canary
\* when there is one.  An existing directory needs overwrite=true; the canary
\* file of an earlier finalize stays where this one has none to write.
Finalize ==
  /\ Total > 0 /\ finalizes < MaxFinalizes
  /\ finalizes' = finalizes + 1
  /\ dir' = [s \in Splits |->
       IF s = "canary" /\ FinalizeSplit(Total, asked).canary = 0 THEN dir[s] ELSE finalizes + 1]
  /\ UNCHANGED <<counts, asked>>

\* Another request names other percentages.
AskFor(p) ==
  /\ asked # p
  /\ asked' = p
  /\ UNCHANGED <<counts, dir, finalizes>>

Next ==
  \/ \E band \in Splits : Write(band)
  \/ Finalize
  \/ \E p \in Requested : AskFor(p)

Spec == Init /\ [][Next]_vars

-----------------------------------------------------------------------------
(* Properties                                                              *)

Divides(S, n) == S.train >= 0 /\ S.valid >= 0 /\ S.canary >= 0 /\ S.train + S.valid + S.canary = n

\* "Guarantees valid >= 4 and canary >= 1 for any input with >= 5 records"
\* (streaming.py), whatever the hashes.
StreamGuarantee == Total >= 5 => counts["valid"] >= 4 /\ counts["canary"] >= 1

\* Of a list of n records no split takes more than there are or forgets one,
\* and something is left to train on.  A list long enough for the minimums has
\* them; from two records on there is one to validate with, except that a
\* synthesis may leave a pair without.
ListGuarantee(n) ==
  LET A == AutoSplit(n)
      C == ClampSplit(n, asked)
      F == FinalizeSplit(n, asked)
  IN  n >= 1 =>
        /\ \A S \in {A, C, F} : Divides(S, n) /\ S.train >= 1
        /\ n >= 6 => \A S \in {A, C} : S.valid >= 4 /\ S.canary >= 1
        /\ n >= 2 => A.valid >= 1 /\ (asked.valid > 0 => F.valid >= 1)
        /\ n >= 3 => C.valid >= 1

SplitsAreSound == StreamGuarantee /\ ListGuarantee(Total)

\* The streaming writer fills canary first, then valid.
FilledInOrder ==
  /\ counts["canary"] = 0 => counts["valid"] = 0 /\ counts["train"] = 0
  /\ counts["valid"] < 4 => counts["canary"] <= 1 /\ counts["train"] = 0

IInv == TypeOK /\ FilledInOrder
=============================================================================
