---------------------------- MODULE MCRunClaims ----------------------------
(* Instances of RunClaims for TLC.                                         *)
EXTENDS RunClaims, TLC

CONSTANTS w1, w2, w3

OneRun   == {1}
TwoRuns  == 1 .. 2
OneWorker    == {w1}
TwoWorkers   == {w1, w2}
ThreeWorkers == {w1, w2, w3}

\* Every worker trains with the backend of every run.
SameBackend == [w \in Workers |-> Runs]
WorkerSymmetry == Permutations(Workers)
=============================================================================
