-------------------------- MODULE RatchetLoopProofs --------------------------
(***************************************************************************)
(* Proofs about RatchetLoop, for any number of rounds, patience,           *)
(* min_delta, losses and faults.                                           *)
(***************************************************************************)
EXTENDS RatchetLoop, FiniteSetTheorems, TLAPS

\* Every variable keeps its type.  The counters keep within their bounds because
\* of what LoopPhase says of them at each phase, so the two are shown together.
Typing == TypeOK /\ LoopPhase

-----------------------------------------------------------------------------
(* What the two steps with the most cases do                               *)

\* evaluate_iteration accepts a measured loss when it is the first or better
\* than the best by at least min_delta.
LEMMA AcceptedWhenBetter ==
  ASSUME NEW new \in Losses \cup {NoLoss}, NEW best \in Losses \cup {NoLoss}, NEW n \in Nat
  PROVE  EvaluateIteration(new, best, n).accepted
           <=> new # NoLoss /\ (best = NoLoss \/ best - new >= MinDelta)
<1>1. CASE new = NoLoss
  BY <1>1 DEF EvaluateIteration, Decision
<1>2. CASE new # NoLoss /\ best = NoLoss
  BY <1>2 DEF EvaluateIteration, Decision
<1>3. CASE new # NoLoss /\ best # NoLoss
  BY <1>3 DEF EvaluateIteration, Decision
<1> QED
  BY <1>1, <1>2, <1>3

\* Two improvements by at least m are one.
LEMMA Improvements ==
  ASSUME NEW a \in Int, NEW b \in Int, NEW c \in Int, NEW m \in Nat,
         a = b \/ a - b >= m, b - c >= m
  PROVE  a - c >= m
  OBVIOUS

\* A completed run becomes the best of the loop, or counts against the patience
\* because it has no loss or there is a best already; its verdict may be lost.
LEMMA JudgeCases ==
  ASSUME Typing, Judge
  PROVE  /\ pc = "judge" /\ rid \in Runs /\ final.status = "completed"
         /\ UNCHANGED <<sStatus, bestRun, bestMetric, rStatus, rLoss, exported, late,
                        rid, final, propFails>>
         /\ faults' \in 0 .. MaxFaults
         /\ accepted' \in [Runs -> {"null", "yes", "no"}]
         /\ \A r \in Runs \ {rid} : accepted'[r] = accepted[r]
         /\ \/ /\ final.loss \in Losses
               /\ myMetric = NoLoss \/ myMetric - final.loss >= MinDelta
               /\ myRun' = rid /\ myMetric' = final.loss /\ streak' = 0
               /\ pc' = "record" /\ UNCHANGED round
               /\ accepted'[rid] \in {accepted[rid], "yes"}
            \/ /\ final.loss = NoLoss \/ myMetric # NoLoss
               /\ UNCHANGED <<myRun, myMetric>> /\ streak' = streak + 1
               /\ (pc' = "round" /\ round' = round + 1) \/ (pc' = "finish" /\ UNCHANGED round)
               /\ accepted'[rid] \in {accepted[rid], "no"}
<1> DEFINE d == EvaluateIteration(final.loss, myMetric, streak)
<1>1. /\ pc = "judge" /\ rid \in Runs /\ streak \in Nat
      /\ final.loss \in Losses \cup {NoLoss} /\ myMetric \in Losses \cup {NoLoss}
  BY RatchetAssumption DEF Typing, TypeOK, LoopPhase, Runs, Judge
<1>2. d.accepted <=> final.loss # NoLoss /\ (myMetric = NoLoss \/ myMetric - final.loss >= MinDelta)
  BY <1>1, AcceptedWhenBetter
<1>3. \A v \in {"yes", "no"} :
        MarkRun(v) => /\ accepted' \in [Runs -> {"null", "yes", "no"}]
                      /\ \A r \in Runs \ {rid} : accepted'[r] = accepted[r]
                      /\ accepted'[rid] \in {accepted[rid], v}
  BY <1>1 DEF MarkRun, Typing, TypeOK
<1>4. \A v : MarkRun(v) => faults' \in 0 .. MaxFaults
  BY RatchetAssumption DEF MarkRun, Fault, Typing, TypeOK
<1>5. /\ final.status = "completed"
      /\ UNCHANGED <<sStatus, bestRun, bestMetric, rStatus, rLoss, exported, late,
                     rid, final, propFails>>
  BY DEF Judge, rowVars
<1> HIDE DEF d
<1>6. CASE d.accepted
  BY <1>1, <1>2, <1>3, <1>4, <1>5, <1>6 DEF Judge, d
<1>7. CASE ~d.accepted
  <2>1. final.loss = NoLoss \/ myMetric # NoLoss
    BY <1>1, <1>2, <1>7
  <2>2. MarkRun("no") /\ streak' = streak + 1 /\ UNCHANGED <<myRun, myMetric>>
    BY <1>7 DEF Judge, d, bestVars
  <2>3. (pc' = "round" /\ round' = round + 1) \/ (pc' = "finish" /\ UNCHANGED round)
    BY <1>7 DEF Judge, d, NextRound
  <2> QED
    BY <1>1, <1>3, <1>4, <1>5, <2>1, <2>2, <2>3
<1> QED
  BY <1>6, <1>7

\* A restart fails stranded open runs, and completes a running session with a
\* winner (the one it has, a measured run, or any completed one) or fails it.
LEMMA RestartCases ==
  ASSUME TypeOK, RestartAPI
  PROVE  /\ rStatus' \in [Runs -> Closed \cup {"none", "open", "deleted"}]
         /\ \A r \in Runs :
              rStatus'[r] # rStatus[r] => rStatus[r] = "open" /\ rStatus'[r] = "failed"
         /\ WithMetric(rStatus)' = WithMetric(rStatus)
         /\ bestRun # NoRun => bestRun' # NoRun
         /\ sStatus' = "completed" => sStatus = "completed" \/ bestRun' # NoRun
         /\ faults' \in 0 .. MaxFaults
         /\ UNCHANGED <<rLoss, accepted, exported, late, pc, round, rid, final, myRun, myMetric,
                        streak, propFails>>
         /\ \/ UNCHANGED <<sStatus, bestRun, bestMetric>>
            \/ /\ sStatus = "running" /\ sStatus' = "failed"
               /\ UNCHANGED <<bestRun, bestMetric>>
            \/ /\ sStatus = "running" /\ sStatus' = "completed"
               /\ bestRun # NoRun /\ UNCHANGED <<bestRun, bestMetric>>
            \/ /\ sStatus = "running" /\ sStatus' = "completed" /\ bestRun = NoRun
               /\ bestRun' \in WithMetric(rStatus)
               /\ bestMetric' = rLoss[bestRun']
            \/ /\ sStatus = "running" /\ sStatus' = "completed" /\ bestRun = NoRun
               /\ WithMetric(rStatus) = {} /\ bestRun' \in Completed(rStatus)
               /\ UNCHANGED bestMetric
<1>1. PICK stranded \in SUBSET {r \in Runs : rStatus[r] = "open"} :
        rStatus' = [r \in Runs |-> IF r \in stranded THEN "failed" ELSE rStatus[r]]
  BY DEF RestartAPI
<1>2. rStatus' \in [Runs -> Closed \cup {"none", "open", "deleted"}]
  BY <1>1 DEF TypeOK, Closed
<1>3. \A r \in Runs : rStatus'[r] # rStatus[r] => rStatus[r] = "open" /\ rStatus'[r] = "failed"
  BY <1>1
<1>4. Completed(rStatus') = Completed(rStatus) /\ WithMetric(rStatus') = WithMetric(rStatus)
  BY <1>3 DEF Completed, WithMetric
<1>5. faults' \in 0 .. MaxFaults
  BY RatchetAssumption DEF RestartAPI, Fault, TypeOK
<1>6. UNCHANGED <<rLoss, accepted, exported, late, pc, round, rid, final, myRun, myMetric,
                  streak, propFails>>
  BY DEF RestartAPI, loopVars, bestVars
<1> DEFINE Rest == /\ rStatus' \in [Runs -> Closed \cup {"none", "open", "deleted"}]
                   /\ \A r \in Runs :
                        rStatus'[r] # rStatus[r] => rStatus[r] = "open" /\ rStatus'[r] = "failed"
                   /\ WithMetric(rStatus)' = WithMetric(rStatus)
                   /\ faults' \in 0 .. MaxFaults
                   /\ UNCHANGED <<rLoss, accepted, exported, late, pc, round, rid, final, myRun,
                                  myMetric, streak, propFails>>
<1>7. Rest
  <2>1. WithMetric(rStatus)' = WithMetric(rStatus)
    BY <1>3, <1>6 DEF Completed, WithMetric
  <2> QED
    BY <2>1, <1>2, <1>3, <1>4, <1>5, <1>6
<1>8. NoRun \notin WithMetric(rStatus) \cup Completed(rStatus)
  BY RatchetAssumption DEF WithMetric, Completed, Runs
<1> HIDE DEF Rest
<1>9. CASE sStatus # "running"
  <2>1. UNCHANGED <<sStatus, bestRun, bestMetric>>
    BY <1>9 DEF RestartAPI, rowVars
  <2> QED
    BY <1>7, <2>1 DEF Rest
<1>10. CASE sStatus = "running" /\ Completed(rStatus') = {}
  <2>1. sStatus' = "failed" /\ UNCHANGED <<bestRun, bestMetric>>
    BY <1>10 DEF RestartAPI
  <2> QED
    BY <1>7, <1>10, <2>1 DEF Rest
<1>11. CASE sStatus = "running" /\ Completed(rStatus') # {}
  <2>1. sStatus' = "completed" /\ DeriveBest(rStatus')
    BY <1>11 DEF RestartAPI
  <2>2. CASE bestRun # NoRun
    BY <1>7, <1>11, <2>1, <2>2 DEF Rest, DeriveBest
  <2>3. CASE bestRun = NoRun /\ WithMetric(rStatus) # {}
    BY <1>4, <1>7, <1>8, <1>11, <2>1, <2>3 DEF Rest, DeriveBest
  <2>4. CASE bestRun = NoRun /\ WithMetric(rStatus) = {}
    BY <1>4, <1>7, <1>8, <1>11, <2>1, <2>4 DEF Rest, DeriveBest
  <2> QED
    BY <2>2, <2>3, <2>4
<1> QED
  BY <1>9, <1>10, <1>11

-----------------------------------------------------------------------------
\* The types, and where the loop stands, are kept by every step.
LEMMA TypingInvariant == Spec => []Typing
<1>1. Init => Typing
  BY RatchetAssumption DEF Init, Typing, TypeOK, LoopPhase, Closed, Phases, NoFinal, Runs
<1>2. Typing /\ [Next]_vars => Typing'
  <2> SUFFICES ASSUME Typing, [Next]_vars PROVE Typing'
    OBVIOUS
  <2> USE RatchetAssumption
      DEF Typing, TypeOK, LoopPhase, Closed, Phases, NoFinal, Runs, SessionExists, RunExists,
          rowVars, runVars, bestVars, loopVars
  <2>1. ASSUME FetchQueued
        PROVE  Typing'
    BY <2>1 DEF FetchQueued
  <2>2. ASSUME StartSession
        PROVE  Typing'
    BY <2>2 DEF StartSession, PatchStatus
  <2>3. ASSUME BeginRound
        PROVE  Typing'
    BY <2>3 DEF BeginRound
  <2>4. ASSUME EndRounds
        PROVE  Typing'
    BY <2>4 DEF EndRounds
  <2>5. ASSUME ProposalParsed
        PROVE  Typing'
    BY <2>5 DEF ProposalParsed
  <2>6. ASSUME ProposalUnparsed
        PROVE  Typing'
    BY <2>6 DEF ProposalUnparsed, PatchStatus, NextRound
  <2>7. ASSUME CreateRun
        PROVE  Typing'
    BY <2>7 DEF CreateRun
  <2>8. ASSUME RunEnded
        PROVE  Typing'
    BY <2>8 DEF RunEnded
  <2>9. ASSUME RejectUnfinished
        PROVE  Typing'
    BY <2>9 DEF RejectUnfinished, MarkRun, NextRound, Fault
  <2>10. ASSUME Judge
         PROVE  Typing'
    <3>1. accepted' \in [Runs -> {"null", "yes", "no"}] /\ myMetric' \in Losses \cup {NoLoss}
      BY <2>10, JudgeCases
    <3>2. \/ pc' = "record" /\ round' = round /\ streak' = 0 /\ myRun' = rid
          \/ pc' = "round" /\ round' = round + 1 /\ streak' = streak + 1 /\ myRun' = myRun
          \/ pc' = "finish" /\ round' = round /\ streak' = streak + 1 /\ myRun' = myRun
      BY <2>10, JudgeCases
    <3>3. /\ UNCHANGED <<sStatus, bestRun, bestMetric, rStatus, rLoss, exported, late,
                        rid, final, propFails>>
          /\ pc = "judge" /\ rid \in Runs /\ faults' \in 0 .. MaxFaults
      BY <2>10, JudgeCases
    <3>4. LoopPhase'
      BY <3>2, <3>3
    <3>5. TypeOK'
      BY <3>1, <3>2, <3>3, SMTT(20)
    <3> QED
      BY <3>4, <3>5
  <2>11. ASSUME RecordBest
         PROVE  Typing'
    BY <2>11 DEF RecordBest, NextRound
  <2>12. ASSUME Finish
         PROVE  Typing'
    BY <2>12 DEF Finish, PatchStatus
  <2>13. ASSUME QueueExport
         PROVE  Typing'
    <3>1. exported' \subseteq Runs
      BY <2>13 DEF QueueExport, Fault
    <3>2. faults' \in 0 .. MaxFaults
      BY <2>13 DEF QueueExport, Fault
    <3>3. TypeOK'
      BY <2>13, <3>1, <3>2 DEF QueueExport
    <3>4. LoopPhase'
      BY <2>13 DEF QueueExport
    <3> QED
      BY <3>3, <3>4
  <2>14. ASSUME RowMissing
         PROVE  Typing'
    BY <2>14 DEF RowMissing, Missing, MarkFailed, GiveUp
  <2>15. ASSUME WaitTimesOut
         PROVE  Typing'
    BY <2>15 DEF WaitTimesOut, MarkFailed, GiveUp
  <2>16. ASSUME CallFails
         PROVE  Typing'
    BY <2>16 DEF CallFails, MarkFailed, GiveUp, Fault
  <2>17. ASSUME Crash
         PROVE  Typing'
    BY <2>17 DEF Crash, GiveUp, Fault
  <2>18. ASSUME NEW r \in Runs, EndRun(r)
         PROVE  Typing'
    BY <2>18 DEF EndRun
  <2>19. ASSUME NEW r \in Runs, LateReport(r)
         PROVE  Typing'
    BY <2>19 DEF LateReport, Fault
  <2>20. ASSUME NEW r \in Runs, DeleteRun(r)
         PROVE  Typing'
    BY <2>20 DEF DeleteRun
  <2>21. ASSUME CancelSession
         PROVE  Typing'
    BY <2>21 DEF CancelSession
  <2>22. ASSUME DeleteSession
         PROVE  Typing'
    BY <2>22 DEF DeleteSession
  <2>23. ASSUME RestartAPI
         PROVE  Typing'
    <3>1. bestRun' \in Runs \cup {NoRun} /\ bestMetric' \in Losses \cup {NoLoss}
      BY <2>23, RestartCases, SMTT(20) DEF WithMetric, Completed
    <3>2. TypeOK'
      BY <2>23, <3>1, RestartCases, ZenonT(30)
    <3>3. LoopPhase'
      BY <2>23, RestartCases
    <3> QED
      BY <3>2, <3>3
  <2>24. CASE UNCHANGED vars
    BY <2>24 DEF vars
  <2> QED
    BY <2>1, <2>2, <2>3, <2>4, <2>5, <2>6, <2>7, <2>8, <2>9, <2>10, <2>11, <2>12, <2>13, <2>14,
       <2>15, <2>16, <2>17, <2>18, <2>19, <2>20, <2>21, <2>22, <2>23, <2>24
    DEF Next, LoopStep
<1> QED
  BY <1>1, <1>2, PTL DEF Spec

\* No call, exception, report or recovery leaves the types.
THEOREM TypeInvariant == Spec => []TypeOK
<1>1. Typing => TypeOK
  BY DEF Typing
<1> QED
  BY <1>1, TypingInvariant, PTL

-----------------------------------------------------------------------------
(* Induction steps                                                         *)

\* Runs are created in order, and judged by what their rows say.
LEMMA RunsStep ==
  Typing /\ Typing' /\ [Next]_vars
    /\ RunsInOrder /\ VerdictIsCurrent
    => RunsInOrder' /\ VerdictIsCurrent'
<1> SUFFICES ASSUME Typing, Typing', [Next]_vars,
                    RunsInOrder, VerdictIsCurrent
             PROVE  RunsInOrder' /\ VerdictIsCurrent'
  OBVIOUS
<1> USE RatchetAssumption
    DEF Typing, TypeOK, LoopPhase, Closed, Runs, SessionExists, RunExists, rowVars, runVars,
        bestVars, loopVars, RunsInOrder, VerdictIsCurrent
<1>1. ASSUME FetchQueued
      PROVE  (RunsInOrder' /\ VerdictIsCurrent')
  BY <1>1 DEF FetchQueued
<1>2. ASSUME StartSession
      PROVE  (RunsInOrder' /\ VerdictIsCurrent')
  BY <1>2 DEF StartSession, PatchStatus
<1>3. ASSUME BeginRound
      PROVE  (RunsInOrder' /\ VerdictIsCurrent')
  BY <1>3 DEF BeginRound
<1>4. ASSUME EndRounds
      PROVE  (RunsInOrder' /\ VerdictIsCurrent')
  BY <1>4 DEF EndRounds
<1>5. ASSUME ProposalParsed
      PROVE  (RunsInOrder' /\ VerdictIsCurrent')
  BY <1>5 DEF ProposalParsed
<1>6. ASSUME ProposalUnparsed
      PROVE  (RunsInOrder' /\ VerdictIsCurrent')
  BY <1>6 DEF ProposalUnparsed, PatchStatus, NextRound
<1>7. ASSUME CreateRun
      PROVE  (RunsInOrder' /\ VerdictIsCurrent')
  BY <1>7 DEF CreateRun
<1>8. ASSUME RunEnded
      PROVE  (RunsInOrder' /\ VerdictIsCurrent')
  BY <1>8 DEF RunEnded
<1>9. ASSUME RejectUnfinished
      PROVE  (RunsInOrder' /\ VerdictIsCurrent')
  BY <1>9 DEF RejectUnfinished, MarkRun, NextRound, Fault
<1>10. ASSUME Judge
       PROVE  (RunsInOrder' /\ VerdictIsCurrent')
  <2>1. /\ rid \in Runs /\ UNCHANGED <<rStatus, rLoss, late, rid>>
        /\ pc' \notin {"wait", "idle", "judge"}
    BY <1>10, JudgeCases
  <2>2. \A r \in Runs : r # rid => accepted'[r] = accepted[r]
    BY <1>10, JudgeCases
  <2>3. rid \notin late => rStatus[rid] \in {"completed", "deleted"}
    BY <1>10, JudgeCases
  <2>4. \A r \in Runs \ late : rStatus[r] # "open"
    BY <1>10, JudgeCases
  <2>5. rStatus[rid] # "none"
    BY <2>1, <2>3
  <2>6. RunsInOrder'
    BY <2>1, <2>2, <2>4, <2>5 DEF RunsInOrder
  <2> QED
    BY <2>1, <2>6
<1>11. ASSUME RecordBest
       PROVE  (RunsInOrder' /\ VerdictIsCurrent')
  BY <1>11 DEF RecordBest, NextRound
<1>12. ASSUME Finish
       PROVE  (RunsInOrder' /\ VerdictIsCurrent')
  BY <1>12 DEF Finish, PatchStatus
<1>13. ASSUME QueueExport
       PROVE  (RunsInOrder' /\ VerdictIsCurrent')
  BY <1>13 DEF QueueExport, Fault
<1>14. ASSUME RowMissing
       PROVE  (RunsInOrder' /\ VerdictIsCurrent')
  BY <1>14 DEF RowMissing, Missing, MarkFailed, GiveUp
<1>15. ASSUME WaitTimesOut
       PROVE  (RunsInOrder' /\ VerdictIsCurrent')
  BY <1>15 DEF WaitTimesOut, MarkFailed, GiveUp
<1>16. ASSUME CallFails
       PROVE  (RunsInOrder' /\ VerdictIsCurrent')
  BY <1>16 DEF CallFails, MarkFailed, GiveUp, Fault
<1>17. ASSUME Crash
       PROVE  (RunsInOrder' /\ VerdictIsCurrent')
  BY <1>17 DEF Crash, GiveUp, Fault
<1>18. ASSUME NEW r \in Runs, EndRun(r)
       PROVE  (RunsInOrder' /\ VerdictIsCurrent')
  <2>1. RunsInOrder'
    BY <1>18 DEF EndRun
  <2>2. VerdictIsCurrent'
    BY <1>18 DEF EndRun
  <2> QED
    BY <2>1, <2>2
<1>19. ASSUME NEW r \in Runs, LateReport(r)
       PROVE  (RunsInOrder' /\ VerdictIsCurrent')
  BY <1>19 DEF LateReport, Fault
<1>20. ASSUME NEW r \in Runs, DeleteRun(r)
       PROVE  (RunsInOrder' /\ VerdictIsCurrent')
  BY <1>20 DEF DeleteRun
<1>21. ASSUME CancelSession
       PROVE  (RunsInOrder' /\ VerdictIsCurrent')
  BY <1>21 DEF CancelSession
<1>22. ASSUME DeleteSession
       PROVE  (RunsInOrder' /\ VerdictIsCurrent')
  BY <1>22 DEF DeleteSession
<1>23. ASSUME RestartAPI
       PROVE  (RunsInOrder' /\ VerdictIsCurrent')
  <2>1. UNCHANGED <<rLoss, accepted, late, pc, rid, final>>
    BY <1>23, RestartCases
  <2>2. \A r \in Runs : /\ rStatus'[r] \in {rStatus[r], "failed"}
                        /\ rStatus'[r] # rStatus[r] => rStatus[r] = "open"
    BY <1>23, RestartCases
  <2>3. RunsInOrder'
    <3>1. \A r \in Runs : /\ rStatus'[r] = "none" <=> rStatus[r] = "none"
                          /\ rStatus'[r] = "open" => rStatus[r] = "open"
                          /\ rStatus[r] \in {"completed", "deleted"} => rStatus'[r] = rStatus[r]
      BY <2>2
    <3> HIDE DEF Typing, VerdictIsCurrent
    <3> QED
      BY <2>1, <3>1
  <2>4. VerdictIsCurrent'
    BY <2>1, <2>2
  <2> QED
    BY <2>3, <2>4
<1>24. CASE UNCHANGED vars
  BY <1>24 DEF vars
<1> QED
  BY <1>1, <1>2, <1>3, <1>4, <1>5, <1>6, <1>7, <1>8, <1>9, <1>10, <1>11, <1>12, <1>13, <1>14,
     <1>15, <1>16, <1>17, <1>18, <1>19, <1>20, <1>21, <1>22, <1>23, <1>24
  DEF Next, LoopStep

\* A run is accepted only when it beats the best of the loop, and its loss stays.
LEMMA BestStep ==
  Typing /\ Typing' /\ [Next]_vars
    /\ RunsInOrder /\ VerdictIsCurrent /\ LoopBest /\ AcceptedChain
    => LoopBest' /\ AcceptedChain'
<1> SUFFICES ASSUME Typing, Typing', [Next]_vars,
                    RunsInOrder, VerdictIsCurrent, LoopBest, AcceptedChain
             PROVE  LoopBest' /\ AcceptedChain'
  OBVIOUS
<1> USE RatchetAssumption
    DEF Typing, TypeOK, LoopPhase, Closed, Runs, SessionExists, RunExists, rowVars, runVars,
        bestVars, loopVars, RunsInOrder, VerdictIsCurrent, LoopBest, AcceptedChain
<1>1. ASSUME FetchQueued
      PROVE  (LoopBest' /\ AcceptedChain')
  BY <1>1 DEF FetchQueued
<1>2. ASSUME StartSession
      PROVE  (LoopBest' /\ AcceptedChain')
  BY <1>2 DEF StartSession, PatchStatus
<1>3. ASSUME BeginRound
      PROVE  (LoopBest' /\ AcceptedChain')
  BY <1>3 DEF BeginRound
<1>4. ASSUME EndRounds
      PROVE  (LoopBest' /\ AcceptedChain')
  BY <1>4 DEF EndRounds
<1>5. ASSUME ProposalParsed
      PROVE  (LoopBest' /\ AcceptedChain')
  BY <1>5 DEF ProposalParsed
<1>6. ASSUME ProposalUnparsed
      PROVE  (LoopBest' /\ AcceptedChain')
  BY <1>6 DEF ProposalUnparsed, PatchStatus, NextRound
<1>7. ASSUME CreateRun
      PROVE  (LoopBest' /\ AcceptedChain')
  BY <1>7 DEF CreateRun
<1>8. ASSUME RunEnded
      PROVE  (LoopBest' /\ AcceptedChain')
  BY <1>8 DEF RunEnded
<1>9. ASSUME RejectUnfinished
      PROVE  (LoopBest' /\ AcceptedChain')
  BY <1>9, SMTT(20) DEF RejectUnfinished, MarkRun, NextRound, Fault
<1>10. ASSUME Judge
       PROVE  (LoopBest' /\ AcceptedChain')
  <2>1. /\ UNCHANGED <<rStatus, rLoss, late, rid>>
        /\ pc = "judge" /\ rid \in Runs /\ final.status = "completed"
        /\ \A r \in Runs : r # rid => accepted'[r] = accepted[r]
    BY <1>10, JudgeCases
  <2>2. CASE myRun' = rid /\ myMetric' = final.loss /\ final.loss \in Losses
             /\ (myMetric = NoLoss \/ myMetric - final.loss >= MinDelta)
    <3>1. \A q \in Runs \ late : accepted'[q] = "yes" /\ q # rid =>
            rLoss[q] \in Losses /\ rLoss[q] - final.loss >= MinDelta
      <4> SUFFICES ASSUME NEW q \in Runs \ late, accepted[q] = "yes"
                   PROVE  rLoss[q] \in Losses /\ rLoss[q] - final.loss >= MinDelta
        BY <2>1
      <4>1. rLoss[q] \in Losses /\ myMetric \in Losses
        OBVIOUS
      <4>2. rLoss[q] = myMetric \/ rLoss[q] - myMetric >= MinDelta
        OBVIOUS
      <4>3. myMetric - final.loss >= MinDelta
        BY <2>2, <4>1
      <4>4. rLoss[q] \in Int /\ myMetric \in Int /\ final.loss \in Int /\ MinDelta \in Nat
        BY <2>2, <4>1
      <4> HIDE DEF Typing
      <4> QED
        BY <4>1, <4>2, <4>3, <4>4, Improvements
    <3>2. rid \notin late => rLoss[rid] = final.loss /\ rStatus[rid] \in {"completed", "deleted"}
      BY <2>1
    <3>3. rStatus[rid] # "none"
      BY <2>1, <3>2
    <3>4. myRun' # NoRun /\ myMetric' # NoLoss
      BY <2>1, <2>2
    <3>5. LoopBest'
      BY <2>1, <2>2, <3>1, <3>2, <3>3, <3>4
    <3>6. AcceptedChain'
      BY <2>1, <2>2, <3>1, <3>2, SMTT(20)
    <3> QED
      BY <3>5, <3>6
  <2>3. CASE UNCHANGED <<myRun, myMetric>> /\ accepted'[rid] \in {accepted[rid], "no"}
    <3>1. \A q \in Runs : accepted'[q] = "yes" => accepted[q] = "yes"
      BY <2>1, <2>3
    <3>2. LoopBest'
      BY <2>1, <2>3, <3>1
    <3>3. AcceptedChain'
      BY <2>1, <2>3, <3>1
    <3> QED
      BY <3>2, <3>3
  <2> QED
    BY <1>10, <2>2, <2>3, JudgeCases
<1>11. ASSUME RecordBest
       PROVE  (LoopBest' /\ AcceptedChain')
  BY <1>11 DEF RecordBest, NextRound
<1>12. ASSUME Finish
       PROVE  (LoopBest' /\ AcceptedChain')
  BY <1>12 DEF Finish, PatchStatus
<1>13. ASSUME QueueExport
       PROVE  (LoopBest' /\ AcceptedChain')
  BY <1>13 DEF QueueExport, Fault
<1>14. ASSUME RowMissing
       PROVE  (LoopBest' /\ AcceptedChain')
  BY <1>14 DEF RowMissing, Missing, MarkFailed, GiveUp
<1>15. ASSUME WaitTimesOut
       PROVE  (LoopBest' /\ AcceptedChain')
  BY <1>15 DEF WaitTimesOut, MarkFailed, GiveUp
<1>16. ASSUME CallFails
       PROVE  (LoopBest' /\ AcceptedChain')
  BY <1>16 DEF CallFails, MarkFailed, GiveUp, Fault
<1>17. ASSUME Crash
       PROVE  (LoopBest' /\ AcceptedChain')
  BY <1>17 DEF Crash, GiveUp, Fault
<1>18. ASSUME NEW r \in Runs, EndRun(r)
       PROVE  (LoopBest' /\ AcceptedChain')
  BY <1>18 DEF EndRun
<1>19. ASSUME NEW r \in Runs, LateReport(r)
       PROVE  (LoopBest' /\ AcceptedChain')
  BY <1>19 DEF LateReport, Fault
<1>20. ASSUME NEW r \in Runs, DeleteRun(r)
       PROVE  (LoopBest' /\ AcceptedChain')
  BY <1>20 DEF DeleteRun
<1>21. ASSUME CancelSession
       PROVE  (LoopBest' /\ AcceptedChain')
  BY <1>21 DEF CancelSession
<1>22. ASSUME DeleteSession
       PROVE  (LoopBest' /\ AcceptedChain')
  BY <1>22 DEF DeleteSession
<1>23. ASSUME RestartAPI
       PROVE  (LoopBest' /\ AcceptedChain')
  <2>1. UNCHANGED <<rLoss, accepted, late, pc, rid, myRun, myMetric>>
    BY <1>23, RestartCases
  <2>2. \A r \in Runs : /\ rStatus'[r] \in {rStatus[r], "failed"}
                        /\ rStatus'[r] # rStatus[r] => rStatus[r] = "open"
    BY <1>23, RestartCases
  <2>3. LoopBest'
    BY <2>1, <2>2
  <2>4. AcceptedChain'
    BY <2>1
  <2> QED
    BY <2>3, <2>4
<1>24. CASE UNCHANGED vars
  BY <1>24 DEF vars
<1> QED
  BY <1>1, <1>2, <1>3, <1>4, <1>5, <1>6, <1>7, <1>8, <1>9, <1>10, <1>11, <1>12, <1>13, <1>14,
     <1>15, <1>16, <1>17, <1>18, <1>19, <1>20, <1>21, <1>22, <1>23, <1>24
  DEF Next, LoopStep

\* The loop and the recovery write the same best run, or the loop a better one.
LEMMA RowStep ==
  Typing /\ Typing' /\ [Next]_vars
    /\ RunsInOrder /\ VerdictIsCurrent /\ LoopBest /\ RowFollowsLoop /\ BestMatchesRun
    /\ JudgedLeavesWinner
    => RowFollowsLoop' /\ BestMatchesRun'
<1> SUFFICES ASSUME Typing, Typing', [Next]_vars,
                    RunsInOrder, VerdictIsCurrent, LoopBest, RowFollowsLoop, BestMatchesRun,
                    JudgedLeavesWinner
             PROVE  RowFollowsLoop' /\ BestMatchesRun'
  OBVIOUS
<1> USE RatchetAssumption
    DEF Typing, TypeOK, LoopPhase, Closed, Runs, SessionExists, RunExists, rowVars, runVars,
        bestVars, loopVars, RunsInOrder, VerdictIsCurrent, LoopBest, RowFollowsLoop,
        BestMatchesRun, JudgedLeavesWinner, WithMetric, Completed
<1>1. ASSUME FetchQueued
      PROVE  (RowFollowsLoop' /\ BestMatchesRun')
  BY <1>1 DEF FetchQueued
<1>2. ASSUME StartSession
      PROVE  (RowFollowsLoop' /\ BestMatchesRun')
  BY <1>2 DEF StartSession, PatchStatus
<1>3. ASSUME BeginRound
      PROVE  (RowFollowsLoop' /\ BestMatchesRun')
  BY <1>3 DEF BeginRound
<1>4. ASSUME EndRounds
      PROVE  (RowFollowsLoop' /\ BestMatchesRun')
  BY <1>4 DEF EndRounds
<1>5. ASSUME ProposalParsed
      PROVE  (RowFollowsLoop' /\ BestMatchesRun')
  BY <1>5 DEF ProposalParsed
<1>6. ASSUME ProposalUnparsed
      PROVE  (RowFollowsLoop' /\ BestMatchesRun')
  BY <1>6 DEF ProposalUnparsed, PatchStatus, NextRound
<1>7. ASSUME CreateRun
      PROVE  (RowFollowsLoop' /\ BestMatchesRun')
  BY <1>7 DEF CreateRun
<1>8. ASSUME RunEnded
      PROVE  (RowFollowsLoop' /\ BestMatchesRun')
  BY <1>8 DEF RunEnded
<1>9. ASSUME RejectUnfinished
      PROVE  (RowFollowsLoop' /\ BestMatchesRun')
  BY <1>9 DEF RejectUnfinished, NextRound
<1>10. ASSUME Judge
       PROVE  (RowFollowsLoop' /\ BestMatchesRun')
  <2>1. /\ pc = "judge" /\ rid \in Runs /\ final.status = "completed"
        /\ UNCHANGED <<bestRun, bestMetric, rStatus, rLoss, late, rid>>
    BY <1>10, JudgeCases
  <2>2. BestMatchesRun'
    BY <2>1
  <2>3. CASE /\ pc' = "record" /\ myRun' = rid /\ myMetric' = final.loss
             /\ myMetric = NoLoss \/ myMetric - final.loss >= MinDelta
    <3>1. CASE myRun = NoRun
      BY <2>1, <2>3, <3>1
    <3>2. CASE myRun # NoRun
      BY <2>1, <2>3, <3>2
    <3> QED
      BY <3>1, <3>2
  <2>4. CASE /\ pc' \in {"round", "finish"} /\ UNCHANGED <<myRun, myMetric>>
             /\ final.loss = NoLoss \/ myMetric # NoLoss
    BY <2>1, <2>4
  <2> QED
    BY <1>10, <2>2, <2>3, <2>4, JudgeCases
<1>11. ASSUME RecordBest
       PROVE  (RowFollowsLoop' /\ BestMatchesRun')
  BY <1>11 DEF RecordBest, NextRound
<1>12. ASSUME Finish
       PROVE  (RowFollowsLoop' /\ BestMatchesRun')
  BY <1>12 DEF Finish, PatchStatus
<1>13. ASSUME QueueExport
       PROVE  (RowFollowsLoop' /\ BestMatchesRun')
  BY <1>13 DEF QueueExport, Fault
<1>14. ASSUME RowMissing
       PROVE  (RowFollowsLoop' /\ BestMatchesRun')
  BY <1>14 DEF RowMissing, Missing, MarkFailed, GiveUp
<1>15. ASSUME WaitTimesOut
       PROVE  (RowFollowsLoop' /\ BestMatchesRun')
  BY <1>15 DEF WaitTimesOut, MarkFailed, GiveUp
<1>16. ASSUME CallFails
       PROVE  (RowFollowsLoop' /\ BestMatchesRun')
  BY <1>16 DEF CallFails, MarkFailed, GiveUp, Fault
<1>17. ASSUME Crash
       PROVE  (RowFollowsLoop' /\ BestMatchesRun')
  BY <1>17 DEF Crash, GiveUp, Fault
<1>18. ASSUME NEW r \in Runs, EndRun(r)
       PROVE  (RowFollowsLoop' /\ BestMatchesRun')
  BY <1>18 DEF EndRun
<1>19. ASSUME NEW r \in Runs, LateReport(r)
       PROVE  (RowFollowsLoop' /\ BestMatchesRun')
  BY <1>19 DEF LateReport, Fault
<1>20. ASSUME NEW r \in Runs, DeleteRun(r)
       PROVE  (RowFollowsLoop' /\ BestMatchesRun')
  BY <1>20 DEF DeleteRun
<1>21. ASSUME CancelSession
       PROVE  (RowFollowsLoop' /\ BestMatchesRun')
  BY <1>21 DEF CancelSession
<1>22. ASSUME DeleteSession
       PROVE  (RowFollowsLoop' /\ BestMatchesRun')
  BY <1>22 DEF DeleteSession
<1>23. ASSUME RestartAPI
       PROVE  (RowFollowsLoop' /\ BestMatchesRun')
  <2>1. UNCHANGED <<rLoss, late, pc, rid, myRun, myMetric>>
    BY <1>23, RestartCases
  <2>2. \A r \in Runs : /\ rStatus'[r] \in {rStatus[r], "failed"}
                        /\ rStatus'[r] # rStatus[r] => rStatus[r] = "open"
    BY <1>23, RestartCases
  <2>3. CASE UNCHANGED <<bestRun, bestMetric>>
    BY <2>1, <2>2, <2>3
  <2>4. CASE /\ bestRun = NoRun /\ bestRun' \in WithMetric(rStatus)
             /\ bestMetric' = rLoss[bestRun']
    <3>1. bestRun' \in Runs /\ rStatus[bestRun'] = "completed" /\ bestRun' <= rid
      BY <2>4, SMTT(20)
    <3>2. bestRun' \notin late /\ pc # "idle" =>
            bestRun' = rid /\ pc \in {"wait", "judge", "record"}
      BY <2>4, <3>1, SMTT(20)
    <3>3. BestMatchesRun'
      BY <2>1, <2>4
    <3>4. RowFollowsLoop'
      BY <2>1, <2>2, <2>4, <3>1, <3>2, SMTT(20)
    <3> QED
      BY <3>3, <3>4
  <2>5. CASE /\ bestRun = NoRun /\ WithMetric(rStatus) = {} /\ bestRun' \in Completed(rStatus)
             /\ UNCHANGED bestMetric
    <3>1. bestRun' \in Runs /\ rStatus[bestRun'] = "completed" /\ rLoss[bestRun'] = NoLoss
      BY <2>5
    <3> QED
      BY <2>1, <2>2, <2>5, <3>1
  <2> QED
    BY <1>23, <2>3, <2>4, <2>5, RestartCases
<1>24. CASE UNCHANGED vars
  BY <1>24 DEF vars
<1> QED
  BY <1>1, <1>2, <1>3, <1>4, <1>5, <1>6, <1>7, <1>8, <1>9, <1>10, <1>11, <1>12, <1>13, <1>14,
     <1>15, <1>16, <1>17, <1>18, <1>19, <1>20, <1>21, <1>22, <1>23, <1>24
  DEF Next, LoopStep

\* No measured run is judged without leaving a winner, whoever ends the session.
LEMMA WinnerStep ==
  Typing /\ Typing' /\ [Next]_vars
    /\ RunsInOrder /\ VerdictIsCurrent /\ LoopBest /\ RowFollowsLoop /\
    JudgedLeavesWinner /\ CompletedHasWinner
    => JudgedLeavesWinner' /\ CompletedHasWinner'
<1> SUFFICES ASSUME Typing, Typing', [Next]_vars,
                    RunsInOrder, VerdictIsCurrent, LoopBest, RowFollowsLoop, JudgedLeavesWinner,
                    CompletedHasWinner
             PROVE  JudgedLeavesWinner' /\ CompletedHasWinner'
  OBVIOUS
<1> USE RatchetAssumption
    DEF Typing, TypeOK, LoopPhase, Closed, Runs, SessionExists, RunExists, rowVars, runVars,
        bestVars, loopVars, RunsInOrder, VerdictIsCurrent, LoopBest, RowFollowsLoop,
        JudgedLeavesWinner, CompletedHasWinner, WithMetric, Completed
<1>1. ASSUME FetchQueued
      PROVE  (JudgedLeavesWinner' /\ CompletedHasWinner')
  BY <1>1 DEF FetchQueued
<1>2. ASSUME StartSession
      PROVE  (JudgedLeavesWinner' /\ CompletedHasWinner')
  BY <1>2 DEF StartSession, PatchStatus
<1>3. ASSUME BeginRound
      PROVE  (JudgedLeavesWinner' /\ CompletedHasWinner')
  BY <1>3 DEF BeginRound
<1>4. ASSUME EndRounds
      PROVE  (JudgedLeavesWinner' /\ CompletedHasWinner')
  BY <1>4 DEF EndRounds
<1>5. ASSUME ProposalParsed
      PROVE  (JudgedLeavesWinner' /\ CompletedHasWinner')
  BY <1>5 DEF ProposalParsed
<1>6. ASSUME ProposalUnparsed
      PROVE  (JudgedLeavesWinner' /\ CompletedHasWinner')
  BY <1>6 DEF ProposalUnparsed, PatchStatus, NextRound
<1>7. ASSUME CreateRun
      PROVE  (JudgedLeavesWinner' /\ CompletedHasWinner')
  BY <1>7 DEF CreateRun
<1>8. ASSUME RunEnded
      PROVE  (JudgedLeavesWinner' /\ CompletedHasWinner')
  BY <1>8 DEF RunEnded
<1>9. ASSUME RejectUnfinished
      PROVE  (JudgedLeavesWinner' /\ CompletedHasWinner')
  BY <1>9 DEF RejectUnfinished, NextRound
<1>10. ASSUME Judge
       PROVE  (JudgedLeavesWinner' /\ CompletedHasWinner')
  <2>1. /\ pc = "judge" /\ rid \in Runs /\ final.status = "completed"
        /\ UNCHANGED <<sStatus, bestRun, rStatus, rLoss, late, rid>>
    BY <1>10, JudgeCases
  <2>2. CASE pc' = "record"
    BY <2>1, <2>2
  <2>3. CASE pc' \in {"round", "finish"} /\ (final.loss = NoLoss \/ myMetric # NoLoss)
    <3>1. rid \in WithMetric(rStatus) \ late => bestRun # NoRun
      BY <2>1, <2>3
    <3> QED
      BY <2>1, <2>3, <3>1, SMTT(20)
  <2> QED
    BY <1>10, <2>2, <2>3, JudgeCases
<1>11. ASSUME RecordBest
       PROVE  (JudgedLeavesWinner' /\ CompletedHasWinner')
  BY <1>11 DEF RecordBest, NextRound
<1>12. ASSUME Finish
       PROVE  (JudgedLeavesWinner' /\ CompletedHasWinner')
  BY <1>12 DEF Finish, PatchStatus
<1>13. ASSUME QueueExport
       PROVE  (JudgedLeavesWinner' /\ CompletedHasWinner')
  BY <1>13 DEF QueueExport, Fault
<1>14. ASSUME RowMissing
       PROVE  (JudgedLeavesWinner' /\ CompletedHasWinner')
  BY <1>14 DEF RowMissing, Missing, MarkFailed, GiveUp
<1>15. ASSUME WaitTimesOut
       PROVE  (JudgedLeavesWinner' /\ CompletedHasWinner')
  BY <1>15 DEF WaitTimesOut, MarkFailed, GiveUp
<1>16. ASSUME CallFails
       PROVE  (JudgedLeavesWinner' /\ CompletedHasWinner')
  BY <1>16 DEF CallFails, MarkFailed, GiveUp, Fault
<1>17. ASSUME Crash
       PROVE  (JudgedLeavesWinner' /\ CompletedHasWinner')
  BY <1>17 DEF Crash, GiveUp, Fault
<1>18. ASSUME NEW r \in Runs, EndRun(r)
       PROVE  (JudgedLeavesWinner' /\ CompletedHasWinner')
  BY <1>18 DEF EndRun
<1>19. ASSUME NEW r \in Runs, LateReport(r)
       PROVE  (JudgedLeavesWinner' /\ CompletedHasWinner')
  BY <1>19 DEF LateReport, Fault
<1>20. ASSUME NEW r \in Runs, DeleteRun(r)
       PROVE  (JudgedLeavesWinner' /\ CompletedHasWinner')
  BY <1>20 DEF DeleteRun
<1>21. ASSUME CancelSession
       PROVE  (JudgedLeavesWinner' /\ CompletedHasWinner')
  BY <1>21 DEF CancelSession
<1>22. ASSUME DeleteSession
       PROVE  (JudgedLeavesWinner' /\ CompletedHasWinner')
  BY <1>22 DEF DeleteSession
<1>23. ASSUME RestartAPI
       PROVE  (JudgedLeavesWinner' /\ CompletedHasWinner')
  <2>1. /\ UNCHANGED <<rLoss, late, pc, rid>>
        /\ WithMetric(rStatus)' = WithMetric(rStatus)
    BY <1>23, RestartCases
  <2>2. \A r \in Runs : rStatus'[r] = "open" => rStatus[r] = "open"
    BY <1>23, RestartCases
  <2>3. bestRun # NoRun => bestRun' # NoRun
    BY <1>23, RestartCases
  <2>4. sStatus' = "completed" => sStatus = "completed" \/ bestRun' # NoRun
    BY <1>23, RestartCases
  <2> HIDE DEF WithMetric, Completed
  <2>5. JudgedLeavesWinner'
    BY <2>1, <2>2, <2>3, <2>4
  <2>6. CompletedHasWinner'
    BY <2>1, <2>3, <2>4
  <2> QED
    BY <2>5, <2>6
<1>24. CASE UNCHANGED vars
  BY <1>24 DEF vars
<1> QED
  BY <1>1, <1>2, <1>3, <1>4, <1>5, <1>6, <1>7, <1>8, <1>9, <1>10, <1>11, <1>12, <1>13, <1>14,
     <1>15, <1>16, <1>17, <1>18, <1>19, <1>20, <1>21, <1>22, <1>23, <1>24
  DEF Next, LoopStep

\* Only the end of a session exports, and it exports what the row names.
LEMMA ExportStep ==
  Typing /\ Typing' /\ [Next]_vars
    /\ RowFollowsLoop /\ ExportEndsSession /\ ExportIsWinner
    => ExportEndsSession' /\ ExportIsWinner'
<1> SUFFICES ASSUME Typing, Typing', [Next]_vars,
                    RowFollowsLoop, ExportEndsSession, ExportIsWinner
             PROVE  ExportEndsSession' /\ ExportIsWinner'
  OBVIOUS
<1> USE RatchetAssumption
    DEF Typing, TypeOK, LoopPhase, Closed, Runs, SessionExists, RunExists, rowVars, runVars,
        bestVars, loopVars, RowFollowsLoop, ExportEndsSession, ExportIsWinner
<1>1. ASSUME FetchQueued
      PROVE  (ExportEndsSession' /\ ExportIsWinner')
  BY <1>1 DEF FetchQueued
<1>2. ASSUME StartSession
      PROVE  (ExportEndsSession' /\ ExportIsWinner')
  BY <1>2 DEF StartSession, PatchStatus
<1>3. ASSUME BeginRound
      PROVE  (ExportEndsSession' /\ ExportIsWinner')
  BY <1>3 DEF BeginRound
<1>4. ASSUME EndRounds
      PROVE  (ExportEndsSession' /\ ExportIsWinner')
  BY <1>4 DEF EndRounds
<1>5. ASSUME ProposalParsed
      PROVE  (ExportEndsSession' /\ ExportIsWinner')
  BY <1>5 DEF ProposalParsed
<1>6. ASSUME ProposalUnparsed
      PROVE  (ExportEndsSession' /\ ExportIsWinner')
  BY <1>6 DEF ProposalUnparsed, PatchStatus, NextRound
<1>7. ASSUME CreateRun
      PROVE  (ExportEndsSession' /\ ExportIsWinner')
  BY <1>7 DEF CreateRun
<1>8. ASSUME RunEnded
      PROVE  (ExportEndsSession' /\ ExportIsWinner')
  BY <1>8 DEF RunEnded
<1>9. ASSUME RejectUnfinished
      PROVE  (ExportEndsSession' /\ ExportIsWinner')
  BY <1>9 DEF RejectUnfinished, MarkRun, NextRound, Fault
<1>10. ASSUME Judge
       PROVE  (ExportEndsSession' /\ ExportIsWinner')
  BY <1>10, JudgeCases
<1>11. ASSUME RecordBest
       PROVE  (ExportEndsSession' /\ ExportIsWinner')
  BY <1>11 DEF RecordBest, NextRound
<1>12. ASSUME Finish
       PROVE  (ExportEndsSession' /\ ExportIsWinner')
  BY <1>12 DEF Finish, PatchStatus
<1>13. ASSUME QueueExport
       PROVE  (ExportEndsSession' /\ ExportIsWinner')
  BY <1>13 DEF QueueExport, Fault
<1>14. ASSUME RowMissing
       PROVE  (ExportEndsSession' /\ ExportIsWinner')
  BY <1>14 DEF RowMissing, Missing, MarkFailed, GiveUp
<1>15. ASSUME WaitTimesOut
       PROVE  (ExportEndsSession' /\ ExportIsWinner')
  BY <1>15 DEF WaitTimesOut, MarkFailed, GiveUp
<1>16. ASSUME CallFails
       PROVE  (ExportEndsSession' /\ ExportIsWinner')
  BY <1>16 DEF CallFails, MarkFailed, GiveUp, Fault
<1>17. ASSUME Crash
       PROVE  (ExportEndsSession' /\ ExportIsWinner')
  BY <1>17 DEF Crash, GiveUp, Fault
<1>18. ASSUME NEW r \in Runs, EndRun(r)
       PROVE  (ExportEndsSession' /\ ExportIsWinner')
  BY <1>18 DEF EndRun
<1>19. ASSUME NEW r \in Runs, LateReport(r)
       PROVE  (ExportEndsSession' /\ ExportIsWinner')
  BY <1>19 DEF LateReport, Fault
<1>20. ASSUME NEW r \in Runs, DeleteRun(r)
       PROVE  (ExportEndsSession' /\ ExportIsWinner')
  BY <1>20 DEF DeleteRun
<1>21. ASSUME CancelSession
       PROVE  (ExportEndsSession' /\ ExportIsWinner')
  BY <1>21 DEF CancelSession
<1>22. ASSUME DeleteSession
       PROVE  (ExportEndsSession' /\ ExportIsWinner')
  BY <1>22 DEF DeleteSession
<1>23. ASSUME RestartAPI
       PROVE  (ExportEndsSession' /\ ExportIsWinner')
  BY <1>23, RestartCases
<1>24. CASE UNCHANGED vars
  BY <1>24 DEF vars
<1> QED
  BY <1>1, <1>2, <1>3, <1>4, <1>5, <1>6, <1>7, <1>8, <1>9, <1>10, <1>11, <1>12, <1>13, <1>14,
     <1>15, <1>16, <1>17, <1>18, <1>19, <1>20, <1>21, <1>22, <1>23, <1>24
  DEF Next, LoopStep

-----------------------------------------------------------------------------
\* The inductive invariant holds in every reachable state.
THEOREM Invariance == Spec => []IInv
<1> USE DEF IInv
<1>1. Init => IInv
  BY RatchetAssumption
  DEF Init, TypeOK, LoopPhase, Closed, Phases, NoFinal, Runs, RunsInOrder, VerdictIsCurrent,
      LoopBest, AcceptedChain, RowFollowsLoop, BestMatchesRun, JudgedLeavesWinner,
      CompletedHasWinner, ExportEndsSession, ExportIsWinner, WithMetric, Completed
<1>2. IInv /\ Typing' /\ [Next]_vars => IInv'
  BY RunsStep, BestStep, RowStep, WinnerStep, ExportStep DEF Typing
<1> QED
  BY <1>1, <1>2, TypingInvariant, PTL DEF Spec

\* A set of which any two members are the same has at most one.
LEMMA AtMostOne == ASSUME NEW S, \A i, j \in S : i = j PROVE Cardinality(S) <= 1
<1>1. CASE S = {}
  BY <1>1, FS_EmptySet
<1>2. CASE S # {}
  <2>1. PICK i \in S : S = {i}
    BY <1>2
  <2>2. Cardinality({i}) = 1
    BY FS_Singleton
  <2> QED
    BY <2>1, <2>2
<1> QED
  BY <1>1, <1>2

\* The session's row, its runs and its export tell one story: the best metric is
\* the loss of the best run, a completed session with a measured run names a
\* winner, only the winner is exported and at most one run is in training
\* (loop.py, the session endpoints and _recover_stranded writing one row).
THEOREM OneStory == Spec => []RowMatchesRuns
<1>1. IInv => OneOpenRun
  <2> SUFFICES ASSUME IInv PROVE OneOpenRun
    OBVIOUS
  <2>1. \A q, r \in {r \in Runs \ late : rStatus[r] = "open"} : q = r
    BY DEF IInv, RunsInOrder
  <2> QED
    BY <2>1, AtMostOne DEF OneOpenRun
<1>2. IInv => RowMatchesRuns
  BY <1>1 DEF IInv, RowMatchesRuns
<1> QED
  BY <1>2, Invariance, PTL

\* Only the loop and the recovery write the best metric, the loop a better one
\* and the recovery where there was none.
LEMMA MetricStep == Typing /\ RowFollowsLoop /\ LoopBest /\ [Next]_vars => BestOnlyImproves
<1> SUFFICES ASSUME Typing, RowFollowsLoop, LoopBest, [Next]_vars PROVE BestOnlyImproves
  OBVIOUS
<1> USE RatchetAssumption
    DEF Typing, TypeOK, LoopPhase, RowFollowsLoop, LoopBest, rowVars, BestOnlyImproves
<1>1. ASSUME FetchQueued
      PROVE  BestOnlyImproves
  BY <1>1 DEF FetchQueued
<1>2. ASSUME StartSession
      PROVE  BestOnlyImproves
  BY <1>2 DEF StartSession, PatchStatus
<1>3. ASSUME BeginRound
      PROVE  BestOnlyImproves
  BY <1>3 DEF BeginRound
<1>4. ASSUME EndRounds
      PROVE  BestOnlyImproves
  BY <1>4 DEF EndRounds
<1>5. ASSUME ProposalParsed
      PROVE  BestOnlyImproves
  BY <1>5 DEF ProposalParsed
<1>6. ASSUME ProposalUnparsed
      PROVE  BestOnlyImproves
  BY <1>6 DEF ProposalUnparsed, PatchStatus, NextRound
<1>7. ASSUME CreateRun
      PROVE  BestOnlyImproves
  BY <1>7 DEF CreateRun
<1>8. ASSUME RunEnded
      PROVE  BestOnlyImproves
  BY <1>8 DEF RunEnded
<1>9. ASSUME RejectUnfinished
      PROVE  BestOnlyImproves
  BY <1>9 DEF RejectUnfinished, MarkRun, NextRound, Fault
<1>10. ASSUME Judge
       PROVE  BestOnlyImproves
  BY <1>10, JudgeCases
<1>11. ASSUME RecordBest
       PROVE  BestOnlyImproves
  <2>1. bestMetric' = myMetric /\ myMetric \in Losses /\ pc = "record"
    BY <1>11 DEF RecordBest
  <2> QED
    BY <2>1
<1>12. ASSUME Finish
       PROVE  BestOnlyImproves
  BY <1>12 DEF Finish, PatchStatus
<1>13. ASSUME QueueExport
       PROVE  BestOnlyImproves
  BY <1>13 DEF QueueExport, Fault
<1>14. ASSUME RowMissing
       PROVE  BestOnlyImproves
  BY <1>14 DEF RowMissing, Missing, MarkFailed, GiveUp
<1>15. ASSUME WaitTimesOut
       PROVE  BestOnlyImproves
  BY <1>15 DEF WaitTimesOut, MarkFailed, GiveUp
<1>16. ASSUME CallFails
       PROVE  BestOnlyImproves
  BY <1>16 DEF CallFails, MarkFailed, GiveUp, Fault
<1>17. ASSUME Crash
       PROVE  BestOnlyImproves
  BY <1>17 DEF Crash, GiveUp, Fault
<1>18. ASSUME NEW r \in Runs, EndRun(r)
       PROVE  BestOnlyImproves
  BY <1>18 DEF EndRun
<1>19. ASSUME NEW r \in Runs, LateReport(r)
       PROVE  BestOnlyImproves
  BY <1>19 DEF LateReport, Fault
<1>20. ASSUME NEW r \in Runs, DeleteRun(r)
       PROVE  BestOnlyImproves
  BY <1>20 DEF DeleteRun
<1>21. ASSUME CancelSession
       PROVE  BestOnlyImproves
  BY <1>21 DEF CancelSession
<1>22. ASSUME DeleteSession
       PROVE  BestOnlyImproves
  BY <1>22 DEF DeleteSession
<1>23. ASSUME RestartAPI
       PROVE  BestOnlyImproves
  <2>1. UNCHANGED <<bestRun, bestMetric>> \/ bestRun = NoRun
    BY <1>23, RestartCases
  <2> QED
    BY <2>1
<1>24. CASE UNCHANGED vars
  BY <1>24 DEF vars
<1> QED
  BY <1>1, <1>2, <1>3, <1>4, <1>5, <1>6, <1>7, <1>8, <1>9, <1>10, <1>11, <1>12, <1>13, <1>14,
     <1>15, <1>16, <1>17, <1>18, <1>19, <1>20, <1>21, <1>22, <1>23, <1>24
  DEF Next, LoopStep

\* The recorded best metric only ever improves by min_delta or more, and the
\* accepted runs form a chain of such improvements, also when a recovery rewrites
\* the row under the running loop (evaluate_iteration, RecordBest, DeriveBest).
THEOREM RatchetHolds == Spec => RatchetNeverSlips
<1>1. IInv /\ [Next]_vars => BestOnlyImproves
  BY MetricStep DEF IInv, Typing
<1>2. IInv => AcceptedChain
  BY DEF IInv
<1>3. IInv' => AcceptedChain'
  BY <1>2, PTL
<1>4. IInv /\ IInv' /\ [Next]_vars => [BestOnlyImproves /\ AcceptedChain']_vars
  BY <1>1, <1>3
<1> QED
  BY <1>4, Invariance, PTL DEF Spec, RatchetNeverSlips
=============================================================================
