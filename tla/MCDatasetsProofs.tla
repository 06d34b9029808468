-------------------------- MODULE MCDatasetsProofs --------------------------
(* Proofs about the way of a dataset, for any requests, thresholds, bounds   *)
(* and faults, any owners of the assumption, and any answers of the model:   *)
(* the uploads that publish it, the synthesis that extends it, the splits    *)
(* that divide it, the directories it is found in, and their composition    *)
(* with the reading of uploads, whose proofs are in MCUploadsProofs.         *)
(***************************************************************************)
EXTENDS MCUploadsProofs

-----------------------------------------------------------------------------
(* Requests that publish a dataset                                         *)

\* The types hold before the first request.
LEMMA TypesInit == Init => TypeOK
BY IngestAssumption DEF Init, TypeOK, JobPhases, UploadPhases

\* No endpoint, task, conversion or restart leaves them.
LEMMA TypesStep == TypeOK /\ [Next]_vars => TypeOK'
<1> SUFFICES ASSUME TypeOK, [Next]_vars PROVE TypeOK'
  OBVIOUS
<1> USE IngestAssumption DEF TypeOK, Terminal, JobPhases, UploadPhases, Splits, At, Goto, dirVars
<1>1. ASSUME NEW j \in Jobs, AcceptUpload(j)
      PROVE  TypeOK'
  BY <1>1 DEF AcceptUpload
<1>2. ASSUME NEW j \in Jobs, RefuseUpload(j)
      PROVE  TypeOK'
  BY <1>2 DEF RefuseUpload
<1>3. ASSUME NEW j \in Jobs, StoreRaw(j)
      PROVE  TypeOK'
  BY <1>3 DEF StoreRaw
<1>4. ASSUME NEW j \in Jobs, QueueJob(j)
      PROVE  TypeOK'
  BY <1>4 DEF QueueJob, SetRow
<1>5. ASSUME NEW j \in Jobs, MarkProcessing(j)
      PROVE  TypeOK'
  BY <1>5 DEF MarkProcessing, SetRow
<1>6. ASSUME NEW j \in Jobs, RefuseTaken(j)
      PROVE  TypeOK'
  BY <1>6 DEF RefuseTaken, Fail, SetRow
<1>7. ASSUME NEW j \in Jobs, Stage(j)
      PROVE  TypeOK'
  BY <1>7 DEF Stage
<1>8. ASSUME NEW j \in Jobs, ParseFails(j)
      PROVE  TypeOK'
  BY <1>8 DEF ParseFails, Fail, SetRow
<1>9. ASSUME NEW j \in Jobs, Publish(j)
      PROVE  TypeOK'
  BY <1>9 DEF Publish, RenameAllowed
<1>10. ASSUME NEW j \in Jobs, DeleteRaw(j)
       PROVE  TypeOK'
  BY <1>10 DEF DeleteRaw
<1>11. ASSUME NEW j \in Jobs, MarkSucceeded(j)
       PROVE  TypeOK'
  BY <1>11 DEF MarkSucceeded, SetRow
<1>12. ASSUME NEW j \in Jobs, StoreReadFails(j)
       PROVE  TypeOK'
  BY <1>12 DEF StoreReadFails, Fault, Fail, SetRow
<1>13. ASSUME NEW j \in Jobs, DeleteRawFails(j)
       PROVE  TypeOK'
  BY <1>13 DEF DeleteRawFails, Fault, Fail, SetRow
<1>14. ASSUME NEW u \in Uploads, BeginConversion(u)
       PROVE  TypeOK'
  BY <1>14 DEF BeginConversion
<1>15. ASSUME NEW u \in Uploads, ConversionFails(u)
       PROVE  TypeOK'
  BY <1>15 DEF ConversionFails
<1>16. ASSUME NEW u \in Uploads, MakeDir(u)
       PROVE  TypeOK'
  BY <1>16 DEF MakeDir
<1>17. ASSUME NEW u \in Uploads, SkipCanary(u)
       PROVE  TypeOK'
  BY <1>17 DEF SkipCanary
<1>18. ASSUME NEW u \in Uploads, NEW f \in Splits, WriteSplit(u, f)
       PROVE  TypeOK'
  BY <1>18 DEF WriteSplit, After
<1>19. ASSUME RestartAPI
       PROVE  TypeOK'
  BY <1>19 DEF RestartAPI, Fault, Reconciled
<1>20. CASE UNCHANGED vars
  BY <1>20 DEF vars
<1> QED
  BY <1>1, <1>2, <1>3, <1>4, <1>5, <1>6, <1>7, <1>8, <1>9, <1>10, <1>11, <1>12, <1>13, <1>14, <1>15, <1>16, <1>17, <1>18, <1>19, <1>20
  DEF Next, JobTask

\* The types hold in every reachable state.
THEOREM TypeInvariant == Spec => []TypeOK
BY TypesInit, TypesStep, PTL DEF Spec
-----------------------------------------------------------------------------
\* What the induction adds to the types.
Safe == RowPhase /\ TaskData /\ UploadIsSafe /\ PublishedAlone /\ FilesInDataset

\* IInv survives every action: a row and its blob change together only with the
\* phase of the task, and a rename onto a filled directory is refused.
LEMMA SafeStep == IInv /\ TypeOK' /\ [Next]_vars => Safe'
<1> SUFFICES ASSUME IInv, TypeOK', [Next]_vars PROVE Safe'
  OBVIOUS
<1> USE IngestAssumption
    DEF IInv, Safe, TypeOK, Terminal, At, Goto, dirVars, RowPhase, TaskData, UploadIsSafe,
        UploadNeverLost, SuccessIsClean, PublishedAlone, FilesInDataset
<1>1. ASSUME NEW j \in Jobs, AcceptUpload(j)
      PROVE  Safe'
  BY <1>1 DEF AcceptUpload
<1>2. ASSUME NEW j \in Jobs, RefuseUpload(j)
      PROVE  Safe'
  BY <1>2 DEF RefuseUpload
<1>3. ASSUME NEW j \in Jobs, StoreRaw(j)
      PROVE  Safe'
  BY <1>3 DEF StoreRaw
<1>4. ASSUME NEW j \in Jobs, QueueJob(j)
      PROVE  Safe'
  BY <1>4 DEF QueueJob, SetRow
<1>5. ASSUME NEW j \in Jobs, MarkProcessing(j)
      PROVE  Safe'
  BY <1>5 DEF MarkProcessing, SetRow
<1>6. ASSUME NEW j \in Jobs, RefuseTaken(j)
      PROVE  Safe'
  BY <1>6 DEF RefuseTaken, Fail, SetRow
<1>7. ASSUME NEW j \in Jobs, Stage(j)
      PROVE  Safe'
  BY <1>7 DEF Stage
<1>8. ASSUME NEW j \in Jobs, ParseFails(j)
      PROVE  Safe'
  BY <1>8 DEF ParseFails, Fail, SetRow
<1>9. ASSUME NEW j \in Jobs, Publish(j)
      PROVE  Safe'
  BY <1>9 DEF Publish, RenameAllowed
<1>10. ASSUME NEW j \in Jobs, DeleteRaw(j)
       PROVE  Safe'
  BY <1>10 DEF DeleteRaw
<1>11. ASSUME NEW j \in Jobs, MarkSucceeded(j)
       PROVE  Safe'
  BY <1>11 DEF MarkSucceeded, SetRow
<1>12. ASSUME NEW j \in Jobs, StoreReadFails(j)
       PROVE  Safe'
  BY <1>12 DEF StoreReadFails, Fault, Fail, SetRow
<1>13. ASSUME NEW j \in Jobs, DeleteRawFails(j)
       PROVE  Safe'
  BY <1>13 DEF DeleteRawFails, Fault, Fail, SetRow
<1>14. ASSUME NEW u \in Uploads, BeginConversion(u)
       PROVE  Safe'
  BY <1>14 DEF BeginConversion
<1>15. ASSUME NEW u \in Uploads, ConversionFails(u)
       PROVE  Safe'
  BY <1>15 DEF ConversionFails
<1>16. ASSUME NEW u \in Uploads, MakeDir(u)
       PROVE  Safe'
  BY <1>16 DEF MakeDir
<1>17. ASSUME NEW u \in Uploads, SkipCanary(u)
       PROVE  Safe'
  BY <1>17 DEF SkipCanary
<1>18. ASSUME NEW u \in Uploads, NEW f \in Splits, WriteSplit(u, f)
       PROVE  Safe'
  BY <1>18 DEF WriteSplit, After
<1>19. ASSUME RestartAPI
       PROVE  Safe'
  BY <1>19 DEF RestartAPI, Fault, Reconciled
<1>20. CASE UNCHANGED vars
  BY <1>20 DEF vars
<1> QED
  BY <1>1, <1>2, <1>3, <1>4, <1>5, <1>6, <1>7, <1>8, <1>9, <1>10, <1>11, <1>12, <1>13, <1>14, <1>15, <1>16, <1>17, <1>18, <1>19, <1>20
  DEF Next, JobTask

\* The inductive invariant holds before the first request, when nothing is stored.
LEMMA IngestInit == Init => IInv
BY IngestAssumption
DEF Init, IInv, TypeOK, JobPhases, UploadPhases, RowPhase, TaskData, UploadIsSafe,
    UploadNeverLost, SuccessIsClean, PublishedAlone, FilesInDataset

\* Every step of the requests, the jobs and a restart keeps it.
LEMMA IngestStep == IInv /\ [Next]_vars => IInv'
<1>1. IInv => TypeOK
  BY DEF IInv
<1> QED
  BY <1>1, TypesStep, SafeStep DEF IInv, Safe

\* It holds in every reachable state.
THEOREM Invariance == Spec => []IInv
BY IngestInit, IngestStep, PTL DEF Spec

\* An acknowledged upload is in the store or published, and a job that succeeded
\* has published its records and left nothing behind (_run_ingest_job, its
\* except clause and _reconcile_orphaned_ingest_jobs).
THEOREM UploadsAreKept == Spec => []UploadIsSafe
<1>1. IInv => UploadIsSafe
  BY DEF IInv
<1> QED
  BY <1>1, Invariance, PTL
-----------------------------------------------------------------------------
\* A set of which any two members are the same has at most one.
LEMMA AtMostOne == ASSUME NEW S, \A i, j \in S : i = j PROVE Cardinality(S) <= 1
<1>1. CASE S = {}
  BY <1>1, FS_EmptySet
<1>2. CASE S # {}
  <2>1. PICK i \in S : S = {i}
    BY <1>2
  <2>2. Cardinality({i}) = 1
    BY FS_Singleton
  <2> QED
    BY <2>1, <2>2
<1> QED
  BY <1>1, <1>2

\* A step of a background job writes files only where there are none, and one of
\* a synchronous request writes them in its own name.
LEMMA JobSparesFiles == TypeOK /\ FilesInDataset /\ [Next]_vars => JobNeverClobbers
<1> SUFFICES ASSUME TypeOK, FilesInDataset, [Next]_vars PROVE JobNeverClobbers
  OBVIOUS
<1> USE DEF TypeOK, FilesInDataset, JobNeverClobbers, dirVars
<1>1. ASSUME NEW j \in Jobs, AcceptUpload(j)
      PROVE  JobNeverClobbers
  BY <1>1 DEF AcceptUpload
<1>2. ASSUME NEW j \in Jobs, RefuseUpload(j)
      PROVE  JobNeverClobbers
  BY <1>2 DEF RefuseUpload
<1>3. ASSUME NEW j \in Jobs, StoreRaw(j)
      PROVE  JobNeverClobbers
  BY <1>3 DEF StoreRaw
<1>4. ASSUME NEW j \in Jobs, QueueJob(j)
      PROVE  JobNeverClobbers
  BY <1>4 DEF QueueJob, SetRow
<1>5. ASSUME NEW j \in Jobs, MarkProcessing(j)
      PROVE  JobNeverClobbers
  BY <1>5 DEF MarkProcessing, SetRow
<1>6. ASSUME NEW j \in Jobs, RefuseTaken(j)
      PROVE  JobNeverClobbers
  BY <1>6 DEF RefuseTaken, Fail, SetRow
<1>7. ASSUME NEW j \in Jobs, Stage(j)
      PROVE  JobNeverClobbers
  BY <1>7 DEF Stage
<1>8. ASSUME NEW j \in Jobs, ParseFails(j)
      PROVE  JobNeverClobbers
  BY <1>8 DEF ParseFails, Fail, SetRow
<1>9. ASSUME NEW j \in Jobs, Publish(j)
      PROVE  JobNeverClobbers
  BY <1>9 DEF Publish, RenameAllowed
<1>10. ASSUME NEW j \in Jobs, DeleteRaw(j)
       PROVE  JobNeverClobbers
  BY <1>10 DEF DeleteRaw
<1>11. ASSUME NEW j \in Jobs, MarkSucceeded(j)
       PROVE  JobNeverClobbers
  BY <1>11 DEF MarkSucceeded, SetRow
<1>12. ASSUME NEW j \in Jobs, StoreReadFails(j)
       PROVE  JobNeverClobbers
  BY <1>12 DEF StoreReadFails, Fault, Fail, SetRow
<1>13. ASSUME NEW j \in Jobs, DeleteRawFails(j)
       PROVE  JobNeverClobbers
  BY <1>13 DEF DeleteRawFails, Fault, Fail, SetRow
<1>14. ASSUME NEW u \in Uploads, BeginConversion(u)
       PROVE  JobNeverClobbers
  BY <1>14 DEF BeginConversion
<1>15. ASSUME NEW u \in Uploads, ConversionFails(u)
       PROVE  JobNeverClobbers
  BY <1>15 DEF ConversionFails
<1>16. ASSUME NEW u \in Uploads, MakeDir(u)
       PROVE  JobNeverClobbers
  BY <1>16 DEF MakeDir
<1>17. ASSUME NEW u \in Uploads, SkipCanary(u)
       PROVE  JobNeverClobbers
  BY <1>17 DEF SkipCanary
<1>18. ASSUME NEW u \in Uploads, NEW f \in Splits, WriteSplit(u, f)
       PROVE  JobNeverClobbers
  BY <1>18 DEF WriteSplit, After
<1>19. ASSUME RestartAPI
       PROVE  JobNeverClobbers
  BY <1>19 DEF RestartAPI, Fault, Reconciled
<1>20. CASE UNCHANGED vars
  BY <1>20 DEF vars
<1> QED
  BY <1>1, <1>2, <1>3, <1>4, <1>5, <1>6, <1>7, <1>8, <1>9, <1>10, <1>11, <1>12, <1>13, <1>14, <1>15, <1>16, <1>17, <1>18, <1>19, <1>20
  DEF Next, JobTask

\* A step publishes for one job at most, and spares what is there.
LEMMA OneAuthorStep == IInv /\ IInv' /\ [Next]_vars => [OneJobPublishes' /\ JobNeverClobbers]_vars
<1>1. IInv' => OneJobPublishes'
  BY AtMostOne DEF IInv, PublishedAlone, OneJobPublishes
<1>2. IInv /\ [Next]_vars => JobNeverClobbers
  BY JobSparesFiles DEF IInv
<1> QED
  BY <1>1, <1>2

\* At most one job for a name ever publishes, and none overwrites a file that is
\* there (RenameAllowed: os.replace refuses a directory that is not empty).
THEOREM OneAuthor == Spec => DatasetHasOneAuthor
BY OneAuthorStep, Invariance, PTL DEF Spec, DatasetHasOneAuthor

-----------------------------------------------------------------------------
(* Synthesis                                                               *)

\* The fold of an answer's records, one after the other.
LEMMA KeepFolds ==
  ASSUME NEW D, NEW R, NEW base \in D, NEW a \in Seq(R), \A d \in D, r \in R : SE!Keep(d, r) \in D
  PROVE  FoldsTo(SE!FoldLeft(SE!Keep, base, a), [p \in D \X R |-> SE!Keep(p[1], p[2])], base, a, D)
<1> DEFINE step(h) == [s \in SUBSET DOMAIN a |->
                        IF s = {} THEN base ELSE SE!Keep(h[s \ {Largest(s)}], a[Largest(s)])]
           fold == CHOOSE h : h = step(h)
<1> PICK op : op = [p \in D \X R |-> SE!Keep(p[1], p[2])]
  OBVIOUS
<1>1. op \in [D \X R -> D] /\ \A d \in D, r \in R : op[<<d, r>>] = SE!Keep(d, r)
  OBVIOUS
<1>2. DOMAIN a = 1 .. Len(a) /\ Len(a) \in Nat /\ \A i \in DOMAIN a : a[i] \in R
  OBVIOUS
<1>3. \E h : h = step(h)
  <2>0. Foldable(op, base, a, D, R)
    BY <1>1 DEF Foldable
  <2>1. PICK h : FoundFold(h, op, base, a, D)
    BY ONLY <2>0, FoldFound, Zenon
  <2>2. \A s \in SUBSET DOMAIN a :
          h[s] = IF s = {} THEN base ELSE SE!Keep(h[s \ {Largest(s)}], a[Largest(s)])
    BY <1>1, <1>2, <2>1, Zenon DEF FoundFold
  <2>3. h = step(h)
    BY <2>1, <2>2 DEF FoundFold
  <2> QED
    BY <2>3, Zenon
<1>4. fold = step(fold)
  <2> HIDE DEF step
  <2> QED
    BY <1>3, Zenon
<1>5. SE!FoldLeft(SE!Keep, base, a) = fold[DOMAIN a]
  BY Zenon DEF SE!FoldLeft, SE!MapThenFoldSet, SE!Max, Largest
<1> PICK h : h = fold
  OBVIOUS
<1>6. FoldOf(h, op, base, a, D, R)
  <2>1. h[{}] = base
    BY <1>4
  <2>2. ASSUME NEW s \in SUBSET DOMAIN a, s # {}, h[s \ {Largest(s)}] \in D
        PROVE  h[s] = op[<<h[s \ {Largest(s)}], a[Largest(s)]>>]
    <3>1. a[Largest(s)] \in R
      BY <1>2, <2>2, LargestInSet
    <3>2. h[s] = SE!Keep(h[s \ {Largest(s)}], a[Largest(s)])
      BY <1>4, <2>2
    <3> QED
      BY <1>1, <2>2, <3>1, <3>2, Zenon
  <2> QED
    BY <1>1, <2>1, <2>2, Zenon DEF FoldOf, Foldable
<1>7. FoldsTo(h[DOMAIN a], op, base, a, D)
  BY ONLY <1>6, FoldReached, Zenon
<1> QED
  BY <1>5, <1>7, Zenon

\* What a synthesis has kept: new records, all different, and no more than asked for.
Kept ==
  {st \in [kept : Seq(Answered), seen : SUBSET Answered, dropped : Nat] :
     /\ st.seen = Seeds \cup SE!ToSet(st.kept)
     /\ Len(st.kept) <= Target
     /\ IsFiniteSet(SE!ToSet(st.kept)) /\ Cardinality(SE!ToSet(st.kept)) = Len(st.kept)
     /\ SE!ToSet(st.kept) \cap (Seeds \cup Malformed) = {}}

\* The same of its parts.
LEMMA KeptOf ==
  ASSUME NEW k, NEW s, NEW d
  PROVE  [kept |-> k, seen |-> s, dropped |-> d] \in Kept <=>
           /\ k \in Seq(Answered) /\ s \in SUBSET Answered /\ d \in Nat
           /\ s = Seeds \cup SE!ToSet(k) /\ Len(k) <= Target
           /\ IsFiniteSet(SE!ToSet(k)) /\ Cardinality(SE!ToSet(k)) = Len(k)
           /\ SE!ToSet(k) \cap (Seeds \cup Malformed) = {}
<1> PICK st : st = [kept |-> k, seen |-> s, dropped |-> d]
  OBVIOUS
<1>1. st.kept = k /\ st.seen = s /\ st.dropped = d
  OBVIOUS
<1>2. st \in [kept : Seq(Answered), seen : SUBSET Answered, dropped : Nat] <=>
        k \in Seq(Answered) /\ s \in SUBSET Answered /\ d \in Nat
  BY <1>1
<1> QED
  BY <1>1, <1>2, Zenon DEF Kept

\* One more record of an answer leaves it so.
LEMMA KeepIsKept == ASSUME NEW st \in Kept, NEW r \in Answered PROVE SE!Keep(st, r) \in Kept
<1> PICK k, s, d :
      /\ k = st.kept /\ s = st.seen /\ d = st.dropped
      /\ st = [kept |-> k, seen |-> s, dropped |-> d]
  BY DEF Kept
<1>1. /\ k \in Seq(Answered) /\ s \in SUBSET Answered /\ d \in Nat
      /\ s = Seeds \cup SE!ToSet(k) /\ Len(k) <= Target
      /\ IsFiniteSet(SE!ToSet(k)) /\ Cardinality(SE!ToSet(k)) = Len(k)
      /\ SE!ToSet(k) \cap (Seeds \cup Malformed) = {}
  BY DEF Kept
<1>2. Target \in Nat /\ Len(k) \in Nat
  BY <1>1, DatasetsAssumption
<1>3. CASE Len(k) >= Target
  BY <1>3, Zenon DEF SE!Keep
<1>4. CASE ~(Len(k) >= Target) /\ (r \in Malformed \/ r \in s)
  <2>1. SE!Keep(st, r) = [st EXCEPT !.dropped = st.dropped + 1]
    BY <1>4, Zenon DEF SE!Keep
  <2>2. SE!Keep(st, r) = [kept |-> k, seen |-> s, dropped |-> d + 1]
    BY <2>1
  <2>3. d + 1 \in Nat
    BY <1>1
  <2> PICK e : e = d + 1
    OBVIOUS
  <2>4. [kept |-> k, seen |-> s, dropped |-> e] \in Kept
    BY <1>1, <2>3, KeptOf
  <2> QED
    BY <2>2, <2>4, Zenon
<1>5. CASE ~(Len(k) >= Target) /\ ~(r \in Malformed \/ r \in s)
  <2>1. SE!Keep(st, r) = [st EXCEPT !.kept = Append(st.kept, r), !.seen = st.seen \cup {r}]
    BY <1>5, Zenon DEF SE!Keep
  <2>2. SE!Keep(st, r) = [kept |-> Append(k, r), seen |-> s \cup {r}, dropped |-> d]
    BY <1>1, <2>1
  <2>3. /\ Append(k, r) \in Seq(Answered) /\ SE!ToSet(Append(k, r)) = SE!ToSet(k) \cup {r}
        /\ Len(Append(k, r)) = Len(k) + 1
    BY <1>1, Members
  <2>4. r \notin SE!ToSet(k) /\ r \notin Seeds /\ r \notin Malformed
    BY <1>1, <1>5
  <2>5. IsFiniteSet(SE!ToSet(k) \cup {r}) /\ Cardinality(SE!ToSet(k) \cup {r}) = Len(k) + 1
    BY <1>1, <2>4, FS_AddElement
  <2>6. Len(k) + 1 <= Target
    BY <1>2, <1>5
  <2>7. (SE!ToSet(k) \cup {r}) \cap (Seeds \cup Malformed) = {}
    BY <1>1, <2>4
  <2>8. s \cup {r} \in SUBSET Answered /\ s \cup {r} = Seeds \cup (SE!ToSet(k) \cup {r})
    BY <1>1
  <2>9. SE!ToSet(Append(k, r)) \cap (Seeds \cup Malformed) = {} /\ Len(Append(k, r)) <= Target
    BY <2>3, <2>6, <2>7
  <2> PICK k1, s1 : k1 = Append(k, r) /\ s1 = s \cup {r}
    OBVIOUS
  <2>10. [kept |-> k1, seen |-> s1, dropped |-> d] \in Kept
    <3>1. /\ k1 \in Seq(Answered) /\ s1 \in SUBSET Answered
          /\ s1 = Seeds \cup SE!ToSet(k1) /\ Len(k1) <= Target
          /\ IsFiniteSet(SE!ToSet(k1)) /\ Cardinality(SE!ToSet(k1)) = Len(k1)
          /\ SE!ToSet(k1) \cap (Seeds \cup Malformed) = {}
      BY <2>3, <2>5, <2>8, <2>9
    <3> QED
      BY <1>1, <3>1, KeptOf
  <2> QED
    BY <2>2, <2>10, Zenon
<1> QED
  BY <1>3, <1>4, <1>5

\* A sequence has finitely many members.
LEMMA SequenceFinite == ASSUME NEW R, NEW s \in Seq(R) PROVE IsFiniteSet(SE!ToSet(s))
<1>1. Len(s) \in Nat /\ DOMAIN s = 1 .. Len(s)
  OBVIOUS
<1>2. IsFiniteSet(1 .. Len(s))
  BY <1>1, FS_Interval
<1>3. s \in Surjection(1 .. Len(s), SE!ToSet(s))
  BY <1>1 DEF SE!ToSet, Surjection
<1> QED
  BY <1>2, <1>3, FS_Surjection

\* The instance has its own copies of these operators.
LEMMA SynthCounts == ASSUME NEW S PROVE SE!Cardinality(S) = Cardinality(S)
BY Zenon DEF SE!Cardinality, Cardinality

\* What the invariant says, as a state of the loop.
LEMMA SynthKeeps ==
  /\ SE!TypeOK /\ SE!HashesAreOfRecords /\ SE!RecordsAreNew <=>
       /\ [kept |-> generated, seen |-> hashes, dropped |-> 0] \in Kept
       /\ batch \in 0 .. MaxBatches
       /\ reports \in Seq([generated : 0 .. Target, dropped : Nat])
       /\ outcome \in {"running", "returned", "raised"}
  /\ (SE!TypeOK /\ SE!HashesAreOfRecords /\ SE!RecordsAreNew)' <=>
       /\ [kept |-> generated', seen |-> hashes', dropped |-> 0] \in Kept
       /\ batch' \in 0 .. MaxBatches
       /\ reports' \in Seq([generated : 0 .. Target, dropped : Nat])
       /\ outcome' \in {"running", "returned", "raised"}
<1> DEFINE Good(k, s, b, r, o) ==
             /\ k \in Seq(Answered) /\ s \subseteq Answered /\ s = Seeds \cup SE!ToSet(k)
             /\ Len(k) <= Target /\ Cardinality(SE!ToSet(k)) = Len(k)
             /\ SE!ToSet(k) \cap (Seeds \cup Malformed) = {}
             /\ b \in 0 .. MaxBatches
             /\ r \in Seq([generated : 0 .. Target, dropped : Nat])
             /\ o \in {"running", "returned", "raised"}
<1>1. ASSUME NEW k, NEW s, NEW b, NEW r, NEW o
      PROVE  Good(k, s, b, r, o) <=>
               /\ [kept |-> k, seen |-> s, dropped |-> 0] \in Kept
               /\ b \in 0 .. MaxBatches
               /\ r \in Seq([generated : 0 .. Target, dropped : Nat])
               /\ o \in {"running", "returned", "raised"}
  BY SequenceFinite DEF Kept
<1>2. SE!TypeOK /\ SE!HashesAreOfRecords /\ SE!RecordsAreNew <=> Good(generated, hashes, batch, reports, outcome)
  BY SynthCounts DEF SE!TypeOK, SE!HashesAreOfRecords, SE!RecordsAreNew
<1>3. (SE!TypeOK /\ SE!HashesAreOfRecords /\ SE!RecordsAreNew)' <=> Good(generated', hashes', batch', reports', outcome')
  BY SynthCounts DEF SE!TypeOK, SE!HashesAreOfRecords, SE!RecordsAreNew
<1> QED
  <2> HIDE DEF Good
  <2> QED
    BY <1>1, <1>2, <1>3

\* Nothing is kept before the first answer.
LEMMA SynthInit == SE!Init => SE!IInv
<1> SUFFICES ASSUME SE!Init PROVE SE!IInv
  OBVIOUS
<1>1. /\ generated = <<>> /\ hashes = Seeds /\ batch = 0 /\ reports = <<>> /\ outcome = "running"
  BY DEF SE!Init
<1>2. SE!ToSet(<<>>) = {}
  BY DEF SE!ToSet
<1>3. IsFiniteSet({}) /\ Cardinality({}) = 0
  BY FS_EmptySet
<1>4. [kept |-> generated, seen |-> hashes, dropped |-> 0] \in Kept
  <2>1. /\ generated \in Seq(Answered) /\ hashes \in SUBSET Answered /\ 0 \in Nat
        /\ hashes = Seeds \cup SE!ToSet(generated) /\ Len(generated) <= Target
        /\ IsFiniteSet(SE!ToSet(generated)) /\ Cardinality(SE!ToSet(generated)) = Len(generated)
        /\ SE!ToSet(generated) \cap (Seeds \cup Malformed) = {}
    <3>1. <<>> \in Seq(Answered) /\ Len(<<>>) = 0 /\ 0 <= Target
      BY DatasetsAssumption
    <3>2. Seeds \subseteq Answered
      BY DatasetsAssumption
    <3> QED
      BY <1>1, <1>2, <1>3, <3>1, <3>2
  <2> QED
    BY <2>1, KeptOf
<1>5. SE!TypeOK /\ SE!HashesAreOfRecords /\ SE!RecordsAreNew
  <2>1. batch \in 0 .. MaxBatches /\ reports \in Seq([generated : 0 .. Target, dropped : Nat])
    BY <1>1, DatasetsAssumption
  <2> QED
    BY <1>1, <1>4, <2>1, SynthKeeps
<1>6. SE!ShortOnlyAtCap
  BY <1>1 DEF SE!ShortOnlyAtCap
<1> QED
  BY <1>5, <1>6 DEF SE!IInv, SE!SynthesisIsSound

\* A report is added.
LEMMA Reported ==
  ASSUME NEW r, r \in Seq([generated : 0 .. Target, dropped : Nat]), NEW k \in 0 .. Target, NEW d \in Nat
  PROVE  /\ Append(r, [generated |-> k, dropped |-> d]) \in Seq([generated : 0 .. Target, dropped : Nat])
         /\ Len(Append(r, [generated |-> k, dropped |-> d])) = Len(r) + 1
         /\ SE!Last(Append(r, [generated |-> k, dropped |-> d])).generated = k
<1> PICK e : e = [generated |-> k, dropped |-> d]
  OBVIOUS
<1>1. e \in [generated : 0 .. Target, dropped : Nat] /\ e.generated = k
  OBVIOUS
<1> PICK R : R = [generated : 0 .. Target, dropped : Nat]
  OBVIOUS
<1>2. r \in Seq(R) /\ e \in R
  BY <1>1
<1>3. Append(r, e) \in Seq(R) /\ Len(Append(r, e)) = Len(r) + 1 /\ SE!Last(Append(r, e)) = e
  BY ONLY <1>2, Members, Zenon
<1> QED
  BY <1>1, <1>3, Zenon

\* Every step of the synthesis keeps the invariant.
LEMMA SynthStep == SE!IInv /\ [SE!Next]_(SE!vars) => SE!IInv'
<1> SUFFICES ASSUME SE!IInv, [SE!Next]_(SE!vars) PROVE SE!IInv'
  OBVIOUS
<1>1. /\ SE!TypeOK /\ SE!HashesAreOfRecords /\ SE!RecordsAreNew /\ SE!ShortOnlyAtCap
      /\ Target \in Nat /\ BatchSize \in Nat /\ MaxBatches \in Nat
  BY DatasetsAssumption DEF SE!IInv, SE!SynthesisIsSound
<1>2. /\ [kept |-> generated, seen |-> hashes, dropped |-> 0] \in Kept
      /\ batch \in 0 .. MaxBatches
      /\ reports \in Seq([generated : 0 .. Target, dropped : Nat])
      /\ outcome \in {"running", "returned", "raised"}
  BY <1>1, SynthKeeps
<1>3. generated \in Seq(Answered) /\ Len(generated) \in 0 .. Target
  <2>1. generated \in Seq(Answered) /\ Len(generated) <= Target
    BY <1>2, KeptOf
  <2> QED
    BY <1>1, <2>1
<1>4. ASSUME SE!Looping, batch' = batch + 1 PROVE batch' \in 0 .. MaxBatches
  BY <1>1, <1>2, <1>4 DEF SE!Looping
<1>5. ASSUME NEW a \in SE!Answers, SE!Batch(a) PROVE SE!IInv'
  <2>1. PICK n \in Nat : a \in [1 .. n -> Answered]
    BY DEF SE!Answers
  <2> PICK base, st :
        /\ base = [kept |-> generated, seen |-> hashes, dropped |-> 0]
        /\ st = SE!FoldLeft(SE!Keep, base, a)
    OBVIOUS
  <2>2. /\ SE!Looping /\ batch' = batch + 1 /\ outcome' = outcome
        /\ generated' = st.kept /\ hashes' = st.seen
        /\ reports' = Append(reports, [generated |-> Len(st.kept), dropped |-> st.dropped])
    BY <1>5, Zenon DEF SE!Batch, SE!Report
  <2>3. st \in Kept
    <3> PICK op : op = [p \in Kept \X Answered |-> SE!Keep(p[1], p[2])]
      OBVIOUS
    <3>1. op \in [Kept \X Answered -> Kept]
      BY KeepIsKept
    <3>2. base \in Kept /\ a \in Seq(Answered)
      BY <1>2, <2>1
    <3>4. Foldable(op, base, a, Kept, Answered)
      BY <3>1, <3>2 DEF Foldable
    <3>3. FoldsTo(st, op, base, a, Kept)
      BY <3>2, KeepIsKept, KeepFolds, Zenon
    <3> QED
      BY ONLY <3>3, <3>4, FoldsToIs, Zenon
  <2> PICK k, s, d : k = st.kept /\ s = st.seen /\ d = st.dropped
    OBVIOUS
  <2>4. st = [kept |-> k, seen |-> s, dropped |-> d]
    BY <2>3 DEF Kept
  <2>5. /\ k \in Seq(Answered) /\ s \in SUBSET Answered /\ d \in Nat
        /\ s = Seeds \cup SE!ToSet(k) /\ Len(k) <= Target
        /\ IsFiniteSet(SE!ToSet(k)) /\ Cardinality(SE!ToSet(k)) = Len(k)
        /\ SE!ToSet(k) \cap (Seeds \cup Malformed) = {}
    <3>1. [kept |-> k, seen |-> s, dropped |-> d] \in Kept
      BY <2>3, <2>4, Zenon
    <3> QED
      BY ONLY <3>1, KeptOf
  <2>6. generated' = k /\ hashes' = s /\ Len(k) \in 0 .. Target
        /\ reports' = Append(reports, [generated |-> Len(k), dropped |-> d])
    BY <1>1, <2>2, <2>5
  <2>7. [kept |-> generated', seen |-> hashes', dropped |-> 0] \in Kept
    <3>1. 0 \in Nat
      OBVIOUS
    <3> QED
      BY <2>5, <2>6, <3>1, KeptOf, Zenon
  <2>8. /\ reports' \in Seq([generated : 0 .. Target, dropped : Nat]) /\ Len(reports') = Len(reports) + 1
        /\ SE!Last(reports').generated = Len(generated')
    <3> PICK m \in 0 .. Target : m = Len(k)
      BY <2>6
    <3>1. d \in Nat /\ reports' = Append(reports, [generated |-> m, dropped |-> d]) /\ m = Len(generated')
      BY <2>5, <2>6
    <3> QED
      BY <1>2, <3>1, Reported
  <2>9. SE!TypeOK' /\ SE!HashesAreOfRecords' /\ SE!RecordsAreNew'
    BY <1>2, <1>4, <2>2, <2>7, <2>8, SynthKeeps
  <2>10. SE!ShortOnlyAtCap'
    BY <1>1, <2>2, <2>8 DEF SE!ShortOnlyAtCap, SE!Looping
  <2> QED
    BY <2>9, <2>10 DEF SE!IInv, SE!SynthesisIsSound
<1>6. CASE SE!BatchFails
  <2> PICK q : q = SE!RequestSize
    OBVIOUS
  <2>1. /\ SE!Looping /\ batch' = batch + 1 /\ outcome' = outcome /\ generated' = generated /\ hashes' = hashes
        /\ reports' = Append(reports, [generated |-> Len(generated), dropped |-> q])
    BY <1>6, Zenon DEF SE!BatchFails, SE!Report
  <2>2. q \in Nat
    BY <1>1, <1>3 DEF SE!RequestSize
  <2>3. /\ reports' \in Seq([generated : 0 .. Target, dropped : Nat]) /\ Len(reports') = Len(reports) + 1
        /\ SE!Last(reports').generated = Len(generated')
    BY <1>2, <1>3, <2>1, <2>2, Reported
  <2>4. SE!TypeOK' /\ SE!HashesAreOfRecords' /\ SE!RecordsAreNew'
    BY <1>2, <1>4, <2>1, <2>3, SynthKeeps
  <2>5. SE!ShortOnlyAtCap'
    BY <1>1, <2>1, <2>3 DEF SE!ShortOnlyAtCap, SE!Looping
  <2> QED
    BY <2>4, <2>5 DEF SE!IInv, SE!SynthesisIsSound
<1>7. CASE SE!BatchRaises
  <2>1. /\ SE!Looping /\ batch' = batch + 1 /\ outcome' = "raised"
        /\ generated' = generated /\ hashes' = hashes /\ reports' = reports
    BY <1>7 DEF SE!BatchRaises
  <2>2. SE!TypeOK' /\ SE!HashesAreOfRecords' /\ SE!RecordsAreNew'
    BY <1>2, <1>4, <2>1, SynthKeeps
  <2>3. SE!ShortOnlyAtCap'
    BY <1>1, <2>1 DEF SE!ShortOnlyAtCap
  <2> QED
    BY <2>2, <2>3 DEF SE!IInv, SE!SynthesisIsSound
<1>8. CASE SE!Return
  <2>1. /\ outcome = "running" /\ ~SE!Looping /\ outcome' = "returned" /\ batch' = batch
        /\ generated' = generated /\ hashes' = hashes /\ reports' = reports
    BY <1>8 DEF SE!Return
  <2>2. SE!TypeOK' /\ SE!HashesAreOfRecords' /\ SE!RecordsAreNew'
    BY <1>2, <2>1, SynthKeeps
  <2>3. Len(generated) = Target \/ batch = MaxBatches
    BY <1>1, <1>2, <1>3, <2>1 DEF SE!Looping
  <2>4. SE!ShortOnlyAtCap'
    BY <1>1, <2>1, <2>3 DEF SE!ShortOnlyAtCap
  <2> QED
    BY <2>2, <2>4 DEF SE!IInv, SE!SynthesisIsSound
<1>9. CASE UNCHANGED SE!vars
  <2>1. /\ outcome' = outcome /\ batch' = batch
        /\ generated' = generated /\ hashes' = hashes /\ reports' = reports
    BY <1>9 DEF SE!vars
  <2>2. SE!TypeOK' /\ SE!HashesAreOfRecords' /\ SE!RecordsAreNew'
    BY <1>2, <2>1, SynthKeeps
  <2>3. SE!ShortOnlyAtCap'
    BY <1>1, <2>1 DEF SE!ShortOnlyAtCap
  <2> QED
    BY <2>2, <2>3 DEF SE!IInv, SE!SynthesisIsSound
<1> QED
  BY <1>5, <1>6, <1>7, <1>8, <1>9 DEF SE!Next

-----------------------------------------------------------------------------
(* Splits                                                                  *)

\* The streaming writer starts with nothing.
LEMMA SplitsInit == DS!Init => DS!IInv
BY DatasetsAssumption DEF DS!Init, DS!IInv, DS!TypeOK, DS!FilledInOrder, DS!Total, DS!Splits

\* A record is written, into the split that lacks its minimum or into its band.
LEMMA SplitWritten == ASSUME DS!IInv, NEW band \in DS!Splits, DS!Write(band) PROVE DS!IInv'
<1>1. PICK s \in DS!Splits : s = DS!Assign(band)
  BY DEF DS!Assign, DS!Splits
<1>2. /\ counts \in [DS!Splits -> Nat] /\ DS!Total < MaxTotal /\ MaxTotal \in Nat
      /\ counts' = [counts EXCEPT ![s] = counts[s] + 1] /\ UNCHANGED <<asked, splitDir, finalizes>>
  BY <1>1, DatasetsAssumption DEF DS!Write, DS!IInv, DS!TypeOK
<1>3. /\ counts["train"] \in Nat /\ counts["valid"] \in Nat /\ counts["canary"] \in Nat
      /\ counts' \in [DS!Splits -> Nat]
      /\ \A x \in DS!Splits : counts'[x] = IF x = s THEN counts[x] + 1 ELSE counts[x]
  BY <1>2 DEF DS!Splits
<1>4. /\ counts'["train"] = IF s = "train" THEN counts["train"] + 1 ELSE counts["train"]
      /\ counts'["valid"] = IF s = "valid" THEN counts["valid"] + 1 ELSE counts["valid"]
      /\ counts'["canary"] = IF s = "canary" THEN counts["canary"] + 1 ELSE counts["canary"]
  BY <1>3 DEF DS!Splits
<1>5. s = "train" \/ s = "valid" \/ s = "canary"
  BY DEF DS!Splits
<1>6. DS!Total' = DS!Total + 1 /\ DS!Total \in Nat
  BY <1>3, <1>4, <1>5 DEF DS!Total
<1>7. DS!FilledInOrder'
  BY <1>1, <1>3, <1>4 DEF DS!Assign, DS!IInv, DS!FilledInOrder
<1>8. DS!TypeOK'
  <2>1. DS!Total' <= MaxTotal
    BY <1>2, <1>6
  <2>2. \A x \in DS!Splits : counts'[x] \in 0 .. MaxTotal
    BY <1>2, <1>3, <1>4, <2>1 DEF DS!Total, DS!Splits
  <2> QED
    BY <1>2, <1>3, <2>1, <2>2 DEF DS!TypeOK, DS!IInv
<1> QED
  BY <1>7, <1>8 DEF DS!IInv

\* Every step of the writer and of the staged ingest keeps it.
LEMMA SplitsStep == DS!IInv /\ [DS!Next]_(DS!vars) => DS!IInv'
<1> SUFFICES ASSUME DS!IInv, [DS!Next]_(DS!vars) PROVE DS!IInv'
  OBVIOUS
<1>1. CASE DS!Finalize
  <2>1. counts' = counts /\ asked' = asked /\ finalizes' = finalizes + 1
    BY <1>1 DEF DS!Finalize
  <2>2. DS!Total' = DS!Total /\ (DS!FilledInOrder => DS!FilledInOrder')
    BY <2>1 DEF DS!Total, DS!FilledInOrder
  <2>3. finalizes' \in 0 .. MaxFinalizes /\ finalizes + 1 \in 0 .. MaxFinalizes
    BY <1>1, <2>1, DatasetsAssumption DEF DS!Finalize, DS!IInv, DS!TypeOK
  <2>4. dir' = dir'
    OBVIOUS
  <2>5. splitDir' \in [DS!Splits -> 0 .. MaxFinalizes]
    BY <1>1, <2>3, Zenon DEF DS!Finalize, DS!IInv, DS!TypeOK
  <2> QED
    BY <2>1, <2>2, <2>3, <2>5 DEF DS!IInv, DS!TypeOK
<1>2. ASSUME NEW p \in Requested, DS!AskFor(p) PROVE DS!IInv'
  BY <1>2 DEF DS!AskFor, DS!IInv, DS!TypeOK, DS!FilledInOrder, DS!Total
<1>3. CASE UNCHANGED DS!vars
  BY <1>3 DEF DS!vars, DS!IInv, DS!TypeOK, DS!FilledInOrder, DS!Total
<1> QED
  BY <1>1, <1>2, <1>3, SplitWritten DEF DS!Next

\* Rounding a percentage of n.
LEMMA RoundedIsNat == ASSUME NEW n \in Nat, NEW p \in Nat PROVE DS!Rounded(n, p) \in Nat
<1>1. PICK m \in Nat : m = n * p
  OBVIOUS
<1> QED
  BY <1>1 DEF DS!Rounded

\* auto_split divides without loss, with enough to validate on.
LEMMA AutoSplitDivides ==
  ASSUME NEW n \in Nat, n >= 1
  PROVE  /\ DS!Divides(DS!AutoSplit(n), n) /\ DS!AutoSplit(n).train >= 1
         /\ n >= 6 => DS!AutoSplit(n).valid >= 4 /\ DS!AutoSplit(n).canary >= 1
         /\ n >= 2 => DS!AutoSplit(n).valid >= 1
<1>1. \A t, v, c : DS!Sizes(t, v, c).train = t /\ DS!Sizes(t, v, c).valid = v /\ DS!Sizes(t, v, c).canary = c
  BY DEF DS!Sizes
<1>2. CASE n <= 1
  <2>1. DS!AutoSplit(n) = DS!Sizes(n, 0, 0)
    BY <1>2 DEF DS!AutoSplit
  <2> QED
    BY <1>1, <1>2, <2>1 DEF DS!Divides
<1>3. CASE n > 1 /\ n < 6
  <2>1. DS!AutoSplit(n) = DS!Sizes(n - 1, 1, 0)
    BY <1>3 DEF DS!AutoSplit
  <2> QED
    BY <1>1, <1>3, <2>1 DEF DS!Divides
<1>4. CASE n >= 6
  <2>1. PICK valid \in Nat, canary \in Nat :
          valid = DS!MaxOf(4, DS!Rounded(n, 15)) /\ canary = DS!MaxOf(1, DS!Rounded(n, 5))
    <3>1. PICK a \in Nat, b \in Nat : a = DS!Rounded(n, 15) /\ b = DS!Rounded(n, 5)
      BY RoundedIsNat
    <3>2. DS!MaxOf(4, a) \in Nat /\ DS!MaxOf(1, b) \in Nat
      BY DEF DS!MaxOf
    <3> QED
      BY <3>1, <3>2
  <2>2. PICK excess \in Nat : excess = DS!MaxOf(0, valid + canary - n + 1)
    <3>1. \A x \in Int : DS!MaxOf(0, x) \in Nat
      BY DEF DS!MaxOf
    <3>2. valid + canary - n + 1 \in Int
      OBVIOUS
    <3> QED
      BY <3>1, <3>2
  <2>3. PICK c \in Nat : c = DS!MaxOf(1, canary - excess) /\ c >= 1 /\ c <= canary
    BY <2>1 DEF DS!MaxOf
  <2>4. PICK v \in Nat : v = DS!MaxOf(4, valid - (excess - (canary - c))) /\ v >= 4 /\ v <= valid
    BY <2>1, <2>3 DEF DS!MaxOf
  <2>5. PICK v1 \in Nat : v1 = IF v + c >= n THEN DS!MinOf(v, DS!MaxOf(1, n - c - 1)) ELSE v
    BY <2>4 DEF DS!MinOf, DS!MaxOf
  <2>6. DS!AutoSplit(n) = DS!Sizes(n - v1 - c, v1, c)
    <3>1. ~(n <= 1) /\ ~(n < 6)
      BY <1>4
    <3> QED
      BY <2>1, <2>2, <2>3, <2>4, <2>5, <3>1, ZenonT(40) DEF DS!AutoSplit
  <2>7. v + c < n
    BY <1>4, <2>1, <2>2, <2>3, <2>4 DEF DS!MaxOf
  <2> QED
    BY <1>1, <2>3, <2>4, <2>5, <2>6, <2>7 DEF DS!Divides
<1> QED
  BY <1>2, <1>3, <1>4

\* So does clamp_split, whatever the percentages,
LEMMA ClampSplitDivides ==
  ASSUME NEW n \in Nat, n >= 1, NEW p \in [valid : Nat, canary : Nat]
  PROVE  /\ DS!Divides(DS!ClampSplit(n, p), n) /\ DS!ClampSplit(n, p).train >= 1
         /\ n >= 6 => DS!ClampSplit(n, p).valid >= 4 /\ DS!ClampSplit(n, p).canary >= 1
         /\ n >= 3 => DS!ClampSplit(n, p).valid >= 1
<1>1. PICK v \in Nat, c \in Nat : v = DS!Rounded(n, p.valid) /\ c = DS!Rounded(n, p.canary)
  BY RoundedIsNat
<1> QED
  BY <1>1 DEF DS!ClampSplit, DS!Sizes, DS!Divides, DS!MaxOf, DS!MinOf

\* A percentage of n, rounded down.
LEMMA Share ==
  ASSUME NEW n \in Nat, NEW p \in Nat, NEW b \in Nat, p <= b
  PROVE  (n * p) \div 100 \in Nat /\ 100 * ((n * p) \div 100) <= n * b
<1>1. PICK m \in Nat : m = n * p
  OBVIOUS
<1>2. PICK d \in Nat : d = b - p
  OBVIOUS
<1>3. n * b = m + n * d /\ n * d \in Nat
  BY <1>1, <1>2
<1>4. m \div 100 \in Nat /\ 100 * (m \div 100) <= m
  OBVIOUS
<1> QED
  BY <1>1, <1>3, <1>4

\* and the finalizing endpoint, within the fields of its request.
LEMMA FinalizeSplitDivides ==
  ASSUME NEW n \in Nat, n >= 1, NEW p \in [valid : 0 .. 50, canary : 0 .. 30]
  PROVE  /\ DS!Divides(DS!FinalizeSplit(n, p), n) /\ DS!FinalizeSplit(n, p).train >= 1
         /\ n >= 2 /\ p.valid > 0 => DS!FinalizeSplit(n, p).valid >= 1
<1>1. p.valid \in Nat /\ p.canary \in Nat /\ p.valid <= 50 /\ p.canary <= 30
  OBVIOUS
<1>2. PICK v, c : v = (n * p.valid) \div 100 /\ c = (n * p.canary) \div 100
  OBVIOUS
<1>3. v \in Nat /\ 100 * v <= n * 50
  BY <1>1, <1>2, Share
<1>4. c \in Nat /\ 100 * c <= n * 30
  BY <1>1, <1>2, Share
<1>5. PICK v1 \in Nat : v1 = IF p.valid > 0 /\ v = 0 /\ n >= 2 THEN 1 ELSE v
  BY <1>3
<1>6. DS!FinalizeSplit(n, p) = DS!Sizes(n - c - v1, v1, c)
  BY <1>2, <1>5, Zenon DEF DS!FinalizeSplit
<1>7. n - c - v1 >= 1 /\ (n >= 2 /\ p.valid > 0 => v1 >= 1)
  BY <1>3, <1>4, <1>5
<1> QED
  BY <1>3, <1>4, <1>5, <1>6, <1>7 DEF DS!Sizes, DS!Divides

\* What the invariant says of the splits.
LEMMA SplitsSound == DS!IInv => DS!SplitsAreSound
<1> SUFFICES ASSUME DS!IInv PROVE DS!SplitsAreSound
  OBVIOUS
<1>1. DS!StreamGuarantee
  BY DEF DS!IInv, DS!TypeOK, DS!FilledInOrder, DS!StreamGuarantee, DS!Total, DS!Splits
<1>2. PICK n \in Nat : n = DS!Total
  BY DatasetsAssumption DEF DS!IInv, DS!TypeOK, DS!Total, DS!Splits
<1>3. asked \in [valid : 0 .. 50, canary : 0 .. 30] /\ asked \in [valid : Nat, canary : Nat]
  <2>1. asked \in Requested
    BY Zenon DEF DS!IInv, DS!TypeOK
  <2>2. Requested \subseteq [valid : 0 .. 50, canary : 0 .. 30]
    BY Zenon, DatasetsAssumption
  <2> QED
    BY ONLY <2>1, <2>2
<1>4. ASSUME n >= 1 PROVE DS!ListGuarantee(n)
  BY <1>3, <1>4, AutoSplitDivides, ClampSplitDivides, FinalizeSplitDivides, Zenon DEF DS!ListGuarantee
<1>5. DS!ListGuarantee(n)
  BY <1>4, Zenon DEF DS!ListGuarantee
<1> QED
  BY <1>1, <1>2, <1>5 DEF DS!SplitsAreSound

-----------------------------------------------------------------------------
(* Where a dataset is found                                                *)

\* The places of users are apart from those the program makes itself.
LEMMA PlacesApart ==
  /\ DP!Global # DP!Flat /\ DP!Service \notin {DP!Global, DP!Flat} /\ DP!Local \notin {DP!Global, DP!Flat}
  /\ DP!Global \notin Owners /\ DP!Flat \notin Owners
  /\ DP!Identities \subseteq DP!Places \ {DP!Global, DP!Flat}
  /\ DP!Asker \in DP!Identities /\ DP!IsAdmin(DP!Asker)
<1>1. \A o \in Owners : o.tenant \notin {"none", "system", "local", "global"}
  BY DatasetsAssumption
<1>2. DP!Global # DP!Flat /\ DP!Service \notin {DP!Global, DP!Flat} /\ DP!Local \notin {DP!Global, DP!Flat}
  BY DEF DP!Global, DP!Flat, DP!Service, DP!Local
<1>3. DP!Global \notin Owners /\ DP!Flat \notin Owners
  BY <1>1 DEF DP!Global, DP!Flat
<1>4. DP!Identities \subseteq DP!Places \ {DP!Global, DP!Flat}
  BY <1>2, <1>3, Zenon DEF DP!Identities, DP!Places
<1> QED
  BY <1>2, <1>3, <1>4, Zenon DEF DP!Identities, DP!Asker, DP!IsAdmin

\* Every name that the list scans, it scans right.
LEMMA ScansAreRight ==
  ASSUME NEW id \in DP!Identities
  PROVE  /\ DP!ScannedRight("global", id, FALSE)
         /\ DP!ScannedRight(IF DP!IsAdmin(id) THEN id.tenant ELSE id.user, id, DP!IsAdmin(id))
<1>1. \A o \in Owners : o.tenant \notin {"none", "system", "local", "global"} /\ o.tenant # o.user
  BY DatasetsAssumption
<1>2. id.tenant # "global" /\ id.tenant # id.user
  <2>1. DP!Service.tenant = "system" /\ DP!Service.user = "service"
    BY DEF DP!Service
  <2>2. DP!Local.tenant = "local" /\ DP!Local.user = "local-admin"
    BY DEF DP!Local
  <2> QED
    BY <1>1, <2>1, <2>2 DEF DP!Identities
<1>3. DP!IsAdmin(id) \in BOOLEAN
  BY DEF DP!IsAdmin
<1> QED
  BY <1>2, <1>3 DEF DP!ScannedRight

\* What is listed is what may be opened.
LEMMA ListIsOfDetail == ASSUME NEW id \in DP!Identities PROVE DP!Listed(id) = DP!Resolved(id)
BY ScansAreRight, Zenon DEF DP!Listed, DP!Resolved

\* The directories a caller sees are of its tenant; of a user there is one.
LEMMA VisibleIsOwn ==
  ASSUME NEW id \in DP!Identities
  PROVE  /\ DP!Visible(id) \subseteq DP!Places \ {DP!Global, DP!Flat}
         /\ \A p \in DP!Visible(id) : p.tenant = id.tenant
         /\ ~DP!IsAdmin(id) => DP!Visible(id) = {id}
BY PlacesApart, Zenon DEF DP!Visible, DP!TenantDirs, DP!OwnDirs

\* The copy that the instance has of Cardinality is the same operator.
LEMMA PathCounts == ASSUME NEW S PROVE DP!Cardinality(S) = Cardinality(S)
BY Zenon DEF DP!Cardinality, Cardinality

\* The list, the detail and the archive agree, whatever is where.
LEMMA ListsAreOpened == DP!ListedIsOpened
<1> SUFFICES ASSUME NEW id \in DP!Identities
             PROVE  /\ DP!Listed(id) = {} <=> DP!Resolved(id) = {}
                    /\ DP!Resolved(id) \subseteq DP!Listed(id)
                    /\ ~DP!IsAdmin(id) => DP!Cardinality(DP!Resolved(id)) <= 1
                    /\ \A p \in DP!Resolved(id) : p = DP!Global \/ p.tenant = id.tenant
  BY Zenon DEF DP!ListedIsOpened
<1>1. DP!Resolved(id) = {DP!Global} \/ DP!Resolved(id) \subseteq DP!Visible(id)
  BY Zenon DEF DP!Resolved
<1>2. \A p \in DP!Resolved(id) : p = DP!Global \/ p.tenant = id.tenant
  BY <1>1, VisibleIsOwn, Zenon
<1>3. ASSUME ~DP!IsAdmin(id) PROVE Cardinality(DP!Resolved(id)) <= 1
  <2>1. PICK x : DP!Resolved(id) \subseteq {x}
    BY <1>1, <1>3, VisibleIsOwn, Zenon
  <2>2. DP!Resolved(id) = {} \/ DP!Resolved(id) = {x}
    BY <2>1
  <2>3. Cardinality({}) = 0 /\ Cardinality({x}) = 1
    BY FS_EmptySet, FS_Singleton
  <2> QED
    BY <2>2, <2>3
<1> QED
  BY <1>2, <1>3, ListIsOfDetail, PathCounts

-----------------------------------------------------------------------------
\* Where versions lie, of one place.
LiesRight(h, p, v, o) ==
  v > 0 =>
    /\ v = 1 \/ o[v] # DP!Global
    /\ (p = DP!Flat \/ (p = DP!Global /\ h = "api")) => v = 1
    /\ (p = DP!Global /\ h = "remote") => o[v] \in {DP!Global, DP!Asker}
    /\ p \notin {DP!Flat, DP!Global} => h = "api" /\ o[v] = p

\* The invariant says so of every place, now and after a step.
LEMMA LieByPlace ==
  /\ DP!VersionsLieWhereMade <=> \A h \in DP!Hosts, p \in DP!Places : LiesRight(h, p, tree[h][p].train, origin)
  /\ DP!VersionsLieWhereMade' <=> \A h \in DP!Hosts, p \in DP!Places : LiesRight(h, p, tree[h][p].train, origin)'
<1>1. DP!VersionsLieWhereMade <=> \A h \in DP!Hosts, p \in DP!Places : LiesRight(h, p, tree[h][p].train, origin)
  BY Zenon DEF DP!VersionsLieWhereMade, LiesRight
<1>2. DP!VersionsLieWhereMade' <=> \A h \in DP!Hosts, p \in DP!Places : LiesRight(h, p, tree[h][p].train, origin)'
  BY Zenon DEF DP!VersionsLieWhereMade, LiesRight
<1> QED
  BY <1>1, <1>2

\* The types of what lies at a place.
LEMMA PathTypes ==
  ASSUME DP!TypeOK, NEW h \in DP!Hosts, NEW p \in DP!Places
  PROVE  /\ tree[h][p] \in [there : BOOLEAN, train : 0 .. MaxVersions]
         /\ tree[h][p].train \in 0 .. MaxVersions
         /\ origin \in [DP!Versions -> DP!Places] /\ MaxVersions \in Nat /\ 1 \in DP!Versions
BY DatasetsAssumption DEF DP!TypeOK, DP!Versions

\* The places that have a part of their own.
LEMMA KnownPlaces ==
  /\ DP!Global \in DP!Places /\ DP!Flat \in DP!Places /\ "api" \in DP!Hosts /\ "remote" \in DP!Hosts
  /\ \A id \in DP!Identities : id \in DP!Places /\ id # DP!Global /\ id # DP!Flat
BY PlacesApart DEF DP!Places, DP!Hosts

\* An old dataset may lie where it was, and else nothing.
LEMMA PathsInit == DP!Init => DP!IInv
<1> SUFFICES ASSUME DP!Init PROVE DP!IInv
  OBVIOUS
<1>1. PICK old \in {"none", "api", "both"} :
        tree = [h \in DP!Hosts |-> [p \in DP!Places |->
                  IF p = DP!Flat /\ (old = "both" \/ old = h) THEN DP!Holding(1) ELSE DP!NoDir]]
  BY Zenon DEF DP!Init
<1>2. /\ origin = [v \in DP!Versions |-> DP!Global] /\ DP!NoResult.got = 0 /\ result = DP!NoResult
      /\ auth \in BOOLEAN
  BY DEF DP!Init, DP!NoResult
<1>3. MaxVersions \in Nat /\ 1 \in DP!Versions /\ 1 \in 0 .. MaxVersions /\ 0 \in 0 .. MaxVersions
  BY DatasetsAssumption DEF DP!Versions
<1>4. DP!Holding(1) = [there |-> TRUE, train |-> 1] /\ DP!NoDir = [there |-> FALSE, train |-> 0]
  BY DEF DP!Holding, DP!NoDir
<1>5. \A h \in DP!Hosts, p \in DP!Places :
        /\ tree[h][p] = DP!NoDir \/ (p = DP!Flat /\ tree[h][p] = DP!Holding(1))
  BY <1>1, Zenon
<1>6. DP!TypeOK
  <2>1. DP!Holding(1) \in [there : BOOLEAN, train : 0 .. MaxVersions] /\ DP!NoDir \in [there : BOOLEAN, train : 0 .. MaxVersions]
    BY <1>3, Zenon DEF DP!Holding, DP!NoDir
  <2>2. tree \in [DP!Hosts -> [DP!Places -> [there : BOOLEAN, train : 0 .. MaxVersions]]]
    BY <1>1, <2>1, Zenon
  <2>3. origin \in [DP!Versions -> DP!Places]
    BY <1>2, KnownPlaces, Zenon
  <2>4. result \in [run : DP!Places, host : DP!Hosts, got : 0 .. MaxVersions]
    BY <1>2, <1>3, KnownPlaces DEF DP!NoResult, DP!Places
  <2> QED
    BY <1>2, <2>2, <2>3, <2>4, Zenon DEF DP!TypeOK
<1>7. origin[1] = DP!Global
  BY <1>2, <1>3
<1>8. DP!VersionsLieWhereMade
  <2>1. ASSUME NEW h \in DP!Hosts, NEW p \in DP!Places PROVE LiesRight(h, p, tree[h][p].train, origin)
    <3>1. tree[h][p].train = 0 \/ (p = DP!Flat /\ tree[h][p].train = 1)
      BY <1>4, <1>5
    <3> QED
      BY <3>1, PlacesApart DEF LiesRight
  <2> QED
    BY <2>1, LieByPlace
<1>9. DP!SamplesHaveRecords
  BY <1>4, <1>5, KnownPlaces, PlacesApart DEF DP!SamplesHaveRecords
<1>10. DP!RunTrainsOwnData
  BY <1>2 DEF DP!RunTrainsOwnData
<1> QED
  BY <1>6, <1>7, <1>8, <1>9, <1>10 DEF DP!IInv

\* With no training there is nothing to say of one.
LEMMA NothingTrained == result = DP!NoResult => DP!RunTrainsOwnData
BY DEF DP!NoResult, DP!RunTrainsOwnData

\* A dataset is published.
LEMMA PathPublished == ASSUME DP!IInv, NEW id \in DP!Identities, DP!Publish(id) PROVE DP!IInv'
<1>1. /\ DP!TypeOK /\ origin[1] = DP!Global /\ DP!SamplesHaveRecords
      /\ \A h \in DP!Hosts, p \in DP!Places : LiesRight(h, p, tree[h][p].train, origin)
  BY LieByPlace DEF DP!IInv
<1>2. PICK v \in DP!Versions, train \in DP!Versions \cup {0} :
        /\ DP!Fresh(v) /\ train \in {0, v}
        /\ origin' = [origin EXCEPT ![v] = id]
        /\ tree' = [tree EXCEPT !["api"][id] = DP!Holding(train)]
        /\ result' = DP!NoResult /\ auth' = auth
  BY Zenon DEF DP!Publish
<1>3. v \in Nat /\ v > 1 /\ origin[v] = DP!Global /\ train \in 0 .. MaxVersions /\ train \in Nat
  BY <1>2, DatasetsAssumption DEF DP!Fresh, DP!Versions
<1>4. /\ id \in DP!Places /\ id # DP!Global /\ id # DP!Flat
      /\ "api" \in DP!Hosts /\ DP!Global \in DP!Places /\ MaxVersions \in Nat /\ 1 \in DP!Versions
  BY KnownPlaces, DatasetsAssumption DEF DP!Versions
<1> PICK e : e = DP!Holding(train)
  OBVIOUS
<1>5. e.there = TRUE /\ e.train = train /\ e \in [there : BOOLEAN, train : 0 .. MaxVersions]
  BY <1>3 DEF DP!Holding
<1>6. \A h \in DP!Hosts, p \in DP!Places :
        tree'[h][p] = IF h = "api" /\ p = id THEN e ELSE tree[h][p]
  BY <1>1, <1>2, <1>4 DEF DP!TypeOK
<1>7. \A w \in DP!Versions : origin'[w] = IF w = v THEN id ELSE origin[w]
  BY <1>1, <1>2 DEF DP!TypeOK
<1>8. DP!TypeOK'
  <2>1. tree' \in [DP!Hosts -> [DP!Places -> [there : BOOLEAN, train : 0 .. MaxVersions]]]
    BY <1>1, <1>2, <1>4, <1>5, Zenon DEF DP!TypeOK
  <2>2. origin' \in [DP!Versions -> DP!Places]
    BY <1>1, <1>2, <1>4, Zenon DEF DP!TypeOK
  <2>3. result' \in [run : DP!Places, host : DP!Hosts, got : 0 .. MaxVersions] /\ auth' \in BOOLEAN
    <3>1. DP!Local \in DP!Places /\ 0 \in 0 .. MaxVersions
      BY <1>4 DEF DP!Places
    <3> QED
      BY <1>1, <1>2, <1>4, <3>1 DEF DP!NoResult, DP!TypeOK
  <2> QED
    BY <2>1, <2>2, <2>3, Zenon DEF DP!TypeOK
<1>9. origin'[1] = DP!Global
  BY <1>1, <1>3, <1>4, <1>7
<1>10. DP!VersionsLieWhereMade'
  <2>1. ASSUME NEW h \in DP!Hosts, NEW p \in DP!Places PROVE LiesRight(h, p, tree[h][p].train, origin)'
    <3>1. DP!Asker' = DP!Asker
      BY <1>2 DEF DP!Asker
    <3> PICK w \in 0 .. MaxVersions : w = tree'[h][p].train
      BY <1>8, PathTypes, DatasetsAssumption DEF DP!TypeOK
    <3>2. CASE h = "api" /\ p = id
      <4>1. w = train
        BY <1>5, <1>6, <3>2
      <4>2. w > 0 => w = v /\ origin'[w] = id
        BY <1>2, <1>3, <1>7, <4>1
      <4> QED
        BY <1>4, <3>2, <4>2 DEF LiesRight
    <3>3. CASE ~(h = "api" /\ p = id)
      <4>1. w = tree[h][p].train /\ LiesRight(h, p, w, origin)
        BY <1>1, <1>6, <3>3
      <4>2. w > 0 => w # v /\ w \in DP!Versions
        BY <1>3, <4>1 DEF LiesRight, DP!Versions
      <4>3. w > 0 => origin'[w] = origin[w]
        BY <1>7, <4>2
      <4> QED
        BY <3>1, <4>1, <4>3, Zenon DEF LiesRight
    <3> QED
      BY <3>2, <3>3
  <2> QED
    BY <2>1, LieByPlace
<1>11. DP!SamplesHaveRecords'
  BY <1>1, <1>4, <1>6, KnownPlaces DEF DP!SamplesHaveRecords
<1>12. DP!RunTrainsOwnData'
  BY <1>2, NothingTrained DEF DP!RunTrainsOwnData, DP!NoResult
<1> QED
  BY <1>8, <1>9, <1>10, <1>11, <1>12 DEF DP!IInv

\* Seeding moves a flat dataset to the samples, where there are none yet.
LEMMA SeedMoves == ASSUME DP!IInv, DP!Seed PROVE DP!IInv'
<1>1. /\ DP!TypeOK /\ origin[1] = DP!Global /\ DP!SamplesHaveRecords
      /\ \A h \in DP!Hosts, p \in DP!Places : LiesRight(h, p, tree[h][p].train, origin)
  BY LieByPlace DEF DP!IInv
<1>2. /\ DP!Global \in DP!Places /\ DP!Flat \in DP!Places /\ DP!Global # DP!Flat
      /\ "api" \in DP!Hosts /\ "remote" \in DP!Hosts /\ "api" # "remote" /\ MaxVersions \in Nat
  BY KnownPlaces, PlacesApart, DatasetsAssumption
<1>3. /\ tree["api"][DP!Flat].train > 0 /\ result' = DP!NoResult /\ auth' = auth /\ origin' = origin
      /\ tree' = [tree EXCEPT
           !["api"][DP!Flat] = DP!NoDir,
           !["api"][DP!Global] = IF @.there THEN @ ELSE tree["api"][DP!Flat]]
  BY Zenon DEF DP!Seed
<1> PICK e : e = IF tree["api"][DP!Global].there THEN tree["api"][DP!Global] ELSE tree["api"][DP!Flat]
  OBVIOUS
<1>4. tree' = [tree EXCEPT !["api"] = [tree["api"] EXCEPT ![DP!Flat] = DP!NoDir, ![DP!Global] = e]]
  BY <1>1, <1>2, <1>3 DEF DP!TypeOK
<1>5. /\ tree["api"][DP!Flat] \in [there : BOOLEAN, train : 0 .. MaxVersions]
      /\ tree["api"][DP!Global] \in [there : BOOLEAN, train : 0 .. MaxVersions]
  BY <1>1, <1>2, PathTypes
<1>6. /\ e \in [there : BOOLEAN, train : 0 .. MaxVersions] /\ e.there /\ e.train > 0 /\ e.train = 1
      /\ DP!NoDir \in [there : BOOLEAN, train : 0 .. MaxVersions] /\ DP!NoDir.train = 0
  <2>1. tree["api"][DP!Flat].train = 1
    BY <1>1, <1>2, <1>3, PlacesApart DEF LiesRight
  <2>2. /\ tree["api"][DP!Global].there => tree["api"][DP!Global].train > 0
        /\ tree["api"][DP!Flat].train > 0 => tree["api"][DP!Flat].there
    BY <1>1 DEF DP!SamplesHaveRecords
  <2>3. tree["api"][DP!Global].train > 0 => tree["api"][DP!Global].train = 1
    BY <1>1, <1>2, PlacesApart DEF LiesRight
  <2>4. DP!NoDir \in [there : BOOLEAN, train : 0 .. MaxVersions] /\ DP!NoDir.train = 0
    <3>1. 0 \in 0 .. MaxVersions
      BY <1>2
    <3> QED
      BY <3>1, Zenon DEF DP!NoDir
  <2> QED
    BY <1>3, <1>5, <2>1, <2>2, <2>3, <2>4
<1>7. \A h \in DP!Hosts, p \in DP!Places :
        tree'[h][p] = IF h = "api" /\ p = DP!Flat THEN DP!NoDir
                      ELSE IF h = "api" /\ p = DP!Global THEN e ELSE tree[h][p]
  BY <1>1, <1>2, <1>4 DEF DP!TypeOK
<1>8. DP!TypeOK'
  <2>1. tree' \in [DP!Hosts -> [DP!Places -> [there : BOOLEAN, train : 0 .. MaxVersions]]]
    BY <1>1, <1>2, <1>4, <1>6, Zenon DEF DP!TypeOK
  <2>2. result' \in [run : DP!Places, host : DP!Hosts, got : 0 .. MaxVersions]
    <3>1. DP!Local \in DP!Places /\ 0 \in 0 .. MaxVersions
      BY <1>2 DEF DP!Places
    <3> QED
      BY <1>2, <1>3, <3>1 DEF DP!NoResult
  <2> QED
    BY <1>1, <1>3, <2>1, <2>2, Zenon DEF DP!TypeOK
<1>9. DP!VersionsLieWhereMade'
  <2>1. ASSUME NEW h \in DP!Hosts, NEW p \in DP!Places PROVE LiesRight(h, p, tree[h][p].train, origin)'
    <3>1. DP!Asker' = DP!Asker
      BY <1>3 DEF DP!Asker
    <3>2. LiesRight(h, p, tree[h][p].train, origin)
      BY <1>1
    <3>3. CASE tree'[h][p] = tree[h][p]
      BY <1>3, <3>1, <3>2, <3>3, Zenon DEF LiesRight
    <3>4. CASE h = "api" /\ p = DP!Flat
      <4>1. ~(tree'[h][p].train > 0)
        BY <1>6, <1>7, <3>4
      <4> QED
        BY <4>1, Zenon DEF LiesRight
    <3>5. CASE h = "api" /\ p = DP!Global
      <4>1. tree'[h][p].train = 1
        BY <1>2, <1>6, <1>7, <3>5
      <4> QED
        BY <1>2, <3>5, <4>1, Zenon DEF LiesRight
    <3> QED
      BY <1>7, <3>3, <3>4, <3>5
  <2> QED
    BY <2>1, LieByPlace
<1>10. DP!SamplesHaveRecords'
  BY <1>2, <1>6, <1>7 DEF DP!SamplesHaveRecords
<1>11. DP!RunTrainsOwnData'
  BY <1>3, NothingTrained DEF DP!RunTrainsOwnData, DP!NoResult
<1> QED
  BY <1>1, <1>3, <1>8, <1>9, <1>10, <1>11 DEF DP!IInv

\* Where a run's records are looked up.
LEMMA LookedUp ==
  ASSUME NEW run \in DP!Identities, NEW host, NEW p \in DP!ResolveDatasetDir(run, host)
  PROVE  /\ p \in {DP!Global, run, DP!Flat} /\ tree[host][p].train > 0
         /\ p # DP!Global => ~(tree[host][DP!Global].train > 0)
         /\ p = DP!Flat => ~(tree[host][run].train > 0)
<1> DEFINE places == <<DP!Global, run, DP!Flat>>
<1>1. PICK i \in 1 .. 3 :
        /\ p = places[i] /\ tree[host][places[i]].train > 0
        /\ \A k \in 1 .. (i - 1) : ~(tree[host][places[k]].train > 0)
  BY DEF DP!ResolveDatasetDir, DP!FirstWith
<1>0. DP!Global # DP!Flat /\ run # DP!Flat
  BY KnownPlaces, PlacesApart
<1>2. CASE i = 1
  BY <1>0, <1>1, <1>2
<1>3. CASE i = 2
  BY <1>0, <1>1, <1>3
<1>4. CASE i = 3
  BY <1>1, <1>4
<1> QED
  BY <1>2, <1>3, <1>4

\* A run trains, on the first of its places.
LEMMA RunTrains ==
  ASSUME DP!IInv, NEW run \in DP!Identities, NEW host \in DP!Hosts, DP!TrainAt(run, host)
  PROVE  DP!IInv'
<1>1. /\ DP!TypeOK /\ origin[1] = DP!Global /\ DP!SamplesHaveRecords
      /\ \A h \in DP!Hosts, p \in DP!Places : LiesRight(h, p, tree[h][p].train, origin)
  BY LieByPlace DEF DP!IInv
<1>2. PICK p \in DP!ResolveDatasetDir(run, host) :
        result' = [run |-> run, host |-> host, got |-> tree[host][p].train]
  BY Zenon DEF DP!TrainAt, DP!Trained
<1>3. UNCHANGED <<auth, tree, origin>>
  BY DEF DP!TrainAt
<1>4. p \in DP!Places /\ run \in DP!Places /\ run # DP!Global /\ run # DP!Flat /\ DP!Global # DP!Flat
  BY LookedUp, KnownPlaces, PlacesApart
<1> PICK v \in 0 .. MaxVersions : v = tree[host][p].train
  BY <1>1, <1>4, PathTypes
<1>5. result'.run = run /\ result'.host = host /\ result'.got = v /\ v > 0
  BY <1>2, LookedUp
<1>6. DP!TypeOK'
  <2>1. result' \in [run : DP!Places, host : DP!Hosts, got : 0 .. MaxVersions]
    BY <1>2, <1>4, Zenon
  <2> QED
    BY <1>1, <1>3, <2>1, Zenon DEF DP!TypeOK
<1>7. origin'[1] = DP!Global /\ DP!VersionsLieWhereMade' /\ DP!SamplesHaveRecords'
  <2>1. DP!VersionsLieWhereMade
    BY DEF DP!IInv
  <2> QED
    BY <1>1, <1>3, <2>1, Zenon DEF DP!VersionsLieWhereMade, DP!SamplesHaveRecords, DP!Asker
<1>8. DP!RunTrainsOwnData'
  <2>1. origin[v] \in {DP!Global, run} \/ (host = "remote" /\ origin[v] = DP!Asker)
    <3>1. LiesRight(host, p, v, origin)
      BY <1>1, <1>4
    <3>2. p \in {DP!Global, run, DP!Flat}
      BY LookedUp
    <3>3. host = "api" \/ host = "remote"
      BY DEF DP!Hosts
    <3> QED
      BY <1>1, <1>4, <1>5, <3>1, <3>2, <3>3, Zenon DEF LiesRight
  <2>2. ASSUME host = "api", ~DP!IsAdmin(run), NEW q \in DP!Resolved(run)
        PROVE  tree["api"][q].train \in {0, v}
    <3>1. CASE tree["api"][DP!Global].there
      <4>1. q = DP!Global /\ tree["api"][DP!Global].train > 0
        BY <1>1, <3>1 DEF DP!Resolved, DP!SamplesHaveRecords
      <4>2. p = DP!Global
        BY <2>2, <4>1, LookedUp
      <4> QED
        BY <2>2, <4>1, <4>2
    <3>2. CASE ~tree["api"][DP!Global].there
      <4>1. q = run
        BY <2>2, <3>2, VisibleIsOwn DEF DP!Resolved
      <4>2. tree["api"][run].train \in 0 .. MaxVersions
        BY <1>1, <1>4, KnownPlaces, PathTypes
      <4>3. CASE p = run
        BY <2>2, <4>1, <4>3
      <4>4. CASE p = DP!Flat
        <5>1. ~(tree["api"][run].train > 0)
          BY <2>2, <4>4, LookedUp
        <5>2. tree["api"][run].train = 0
          BY <4>2, <5>1, DatasetsAssumption
        <5> QED
          BY <4>1, <5>2
      <4>5. CASE p = DP!Global
        BY <1>1, <1>5, <2>2, <3>2, <4>5 DEF DP!SamplesHaveRecords
      <4> QED
        BY <4>3, <4>4, <4>5, LookedUp
    <3> QED
      BY <3>1, <3>2
  <2> QED
    <3>1. origin'[v] \in {DP!Global, run} \/ (host = "remote" /\ origin'[v] = DP!Asker')
      BY <1>3, <2>1, Zenon DEF DP!Asker
    <3>2. DP!Resolved(run)' = DP!Resolved(run)
      BY <1>3, Zenon DEF DP!Resolved
    <3>3. host = "api" /\ ~DP!IsAdmin(run) => \A q \in DP!Resolved(run)' : tree'["api"][q].train \in {0, v}
      BY <1>3, <2>2, <3>2, Zenon
    <3> QED
      BY <1>5, <3>1, <3>3, Zenon DEF DP!RunTrainsOwnData
<1> QED
  BY <1>6, <1>7, <1>8 DEF DP!IInv

\* A run whose dataset is nowhere fails.
LEMMA RunMisses == ASSUME DP!IInv, NEW run \in DP!Identities, DP!Missing(run) PROVE DP!IInv'
<1>1. DP!TypeOK /\ origin[1] = DP!Global /\ DP!VersionsLieWhereMade /\ DP!SamplesHaveRecords
  BY DEF DP!IInv
<1>2. UNCHANGED <<auth, tree, origin>> /\ result' = [run |-> run, host |-> "api", got |-> 0]
  BY DEF DP!Missing, DP!Trained
<1>3. result' \in [run : DP!Places, host : DP!Hosts, got : 0 .. MaxVersions]
  <2>1. run \in DP!Places /\ "api" \in DP!Hosts /\ 0 \in 0 .. MaxVersions
    BY KnownPlaces, DatasetsAssumption
  <2> QED
    BY <1>2, <2>1, Zenon
<1>4. DP!TypeOK'
  BY <1>1, <1>2, <1>3, Zenon DEF DP!TypeOK
<1>5. origin'[1] = DP!Global /\ DP!VersionsLieWhereMade' /\ DP!SamplesHaveRecords'
  BY <1>1, <1>2, Zenon DEF DP!VersionsLieWhereMade, DP!SamplesHaveRecords, DP!Asker
<1>6. DP!RunTrainsOwnData'
  <2>1. ~(result'.got > 0)
    BY <1>2
  <2> QED
    BY <2>1, Zenon DEF DP!RunTrainsOwnData
<1> QED
  BY <1>4, <1>5, <1>6 DEF DP!IInv

\* What the API resolves for a worker is the samples or the service's own.
LEMMA AskerResolves ==
  ASSUME DP!TypeOK, DP!VersionsLieWhereMade, origin[1] = DP!Global, NEW p \in DP!Resolved(DP!Asker)
  PROVE  /\ p \in DP!Places
         /\ tree["api"][p].train > 0 => origin[tree["api"][p].train] \in {DP!Global, DP!Asker}
<1>1. p = DP!Global \/ p \in DP!TenantDirs(DP!Asker)
  BY PlacesApart, Zenon DEF DP!Resolved, DP!Visible
<1>2. p \in DP!Places
  BY <1>1, KnownPlaces DEF DP!TenantDirs
<1>3. LiesRight("api", p, tree["api"][p].train, origin)
  BY <1>2, KnownPlaces, LieByPlace
<1> PICK v : v = tree["api"][p].train
  OBVIOUS
<1>4. CASE p = DP!Global
  <2>1. DP!Global # DP!Flat
    BY PlacesApart
  <2>2. v > 0 => v = 1
    BY <1>3, <1>4, <2>1, Zenon DEF LiesRight
  <2>3. v > 0 => origin[v] = DP!Global
    BY <2>2
  <2> QED
    BY <1>2, <2>3, Zenon
<1>5. CASE p # DP!Global
  <2>1. p \notin {DP!Flat, DP!Global} /\ p.tenant = DP!Asker.tenant
    BY <1>1, <1>5 DEF DP!TenantDirs
  <2>2. DP!Asker.tenant \in {"system", "local"}
    BY DEF DP!Asker, DP!Service, DP!Local
  <2>3. p \notin Owners
    BY <2>1, <2>2, DatasetsAssumption
  <2>4. p = DP!Asker
    BY <1>2, <2>1, <2>3 DEF DP!Places, DP!Asker, DP!Service, DP!Local
  <2>5. v > 0 => origin[v] = DP!Asker
    BY <1>3, <2>1, <2>4, Zenon DEF LiesRight
  <2> QED
    BY <1>2, <2>5, Zenon
<1> QED
  BY <1>2, <1>4, <1>5

\* A remote worker fetches a copy, or finds nothing to fetch.
LEMMA CopyIsFetched == ASSUME DP!IInv, NEW run \in DP!Identities, DP!Fetch(run) PROVE DP!IInv'
<1>1. /\ DP!TypeOK /\ origin[1] = DP!Global /\ DP!SamplesHaveRecords /\ DP!VersionsLieWhereMade
      /\ \A h \in DP!Hosts, p \in DP!Places : LiesRight(h, p, tree[h][p].train, origin)
  BY LieByPlace DEF DP!IInv
<1>2. /\ DP!Global \in DP!Places /\ DP!Global # DP!Flat /\ DP!Flat \in DP!Places /\ run \in DP!Places
      /\ "api" \in DP!Hosts /\ "remote" \in DP!Hosts /\ "api" # "remote"
  BY KnownPlaces, PlacesApart
<1>3. auth' = auth /\ origin' = origin /\ DP!Asker' = DP!Asker
  BY DEF DP!Fetch, DP!Asker
<1>4. CASE DP!Resolved(DP!Asker) = {} /\ DP!Trained(run, "remote", 0) /\ UNCHANGED tree
  <2>1. result' \in [run : DP!Places, host : DP!Hosts, got : 0 .. MaxVersions] /\ ~(result'.got > 0)
    <3>1. 0 \in 0 .. MaxVersions
      BY DatasetsAssumption
    <3> QED
      BY <1>2, <1>4, <3>1 DEF DP!Trained
  <2>2. DP!TypeOK'
    BY <1>1, <1>3, <1>4, <2>1, Zenon DEF DP!TypeOK
  <2>3. DP!VersionsLieWhereMade' /\ DP!SamplesHaveRecords'
    BY <1>1, <1>3, <1>4, Zenon DEF DP!VersionsLieWhereMade, DP!SamplesHaveRecords
  <2> QED
    BY <1>1, <1>3, <2>1, <2>2, <2>3, Zenon DEF DP!IInv, DP!RunTrainsOwnData
<1>5. ASSUME NEW p \in DP!Resolved(DP!Asker),
             tree' = [tree EXCEPT !["remote"][DP!Global] = tree["api"][p]],
             DP!Trained(run, "remote", tree["api"][p].train)
      PROVE  DP!IInv'
  <2> PICK e : e = tree["api"][p]
    OBVIOUS
  <2>1. /\ p \in DP!Places /\ e \in [there : BOOLEAN, train : 0 .. MaxVersions]
        /\ e.train \in 0 .. MaxVersions
        /\ e.train > 0 => origin[e.train] \in {DP!Global, DP!Asker}
        /\ e.train > 0 => e.train = 1 \/ origin[e.train] # DP!Global
    <3>1. p \in DP!Places /\ (e.train > 0 => origin[e.train] \in {DP!Global, DP!Asker})
      BY <1>1, AskerResolves
    <3>2. LiesRight("api", p, e.train, origin)
      BY <1>1, <1>2, <3>1
    <3> QED
      BY <1>1, <1>2, <3>1, <3>2, PathTypes DEF LiesRight
  <2>2. \A h \in DP!Hosts, q \in DP!Places :
          tree'[h][q] = IF h = "remote" /\ q = DP!Global THEN e ELSE tree[h][q]
    BY <1>1, <1>2, <1>5 DEF DP!TypeOK
  <2>3. result' = [run |-> run, host |-> "remote", got |-> e.train]
    BY <1>5 DEF DP!Trained
  <2>4. DP!TypeOK'
    <3>1. tree' \in [DP!Hosts -> [DP!Places -> [there : BOOLEAN, train : 0 .. MaxVersions]]]
      BY <1>1, <1>2, <1>5, <2>1, Zenon DEF DP!TypeOK
    <3>2. result' \in [run : DP!Places, host : DP!Hosts, got : 0 .. MaxVersions]
      BY <1>2, <2>1, <2>3, Zenon
    <3> QED
      BY <1>1, <1>3, <3>1, <3>2, Zenon DEF DP!TypeOK
  <2>5. DP!VersionsLieWhereMade'
    <3>1. ASSUME NEW h \in DP!Hosts, NEW q \in DP!Places PROVE LiesRight(h, q, tree[h][q].train, origin)'
      <4>1. CASE h = "remote" /\ q = DP!Global
        <5>1. tree'[h][q] = e
          BY <2>2, <4>1
        <5> QED
          BY <1>2, <1>3, <2>1, <4>1, <5>1, Zenon DEF LiesRight
      <4>2. CASE ~(h = "remote" /\ q = DP!Global)
        <5>1. tree'[h][q] = tree[h][q] /\ LiesRight(h, q, tree[h][q].train, origin)
          BY <1>1, <2>2, <4>2
        <5> QED
          BY <1>3, <5>1, Zenon DEF LiesRight
      <4> QED
        BY <4>1, <4>2
    <3> QED
      BY <3>1, LieByPlace
  <2>6. DP!SamplesHaveRecords'
    BY <1>1, <1>2, <2>2 DEF DP!SamplesHaveRecords
  <2>7. DP!RunTrainsOwnData'
    <3>1. result'.host = "remote" /\ result'.got = e.train
      BY <2>3
    <3>2. e.train > 0 => origin'[e.train] = DP!Global \/ origin'[e.train] = DP!Asker'
      BY <1>3, <2>1
    <3> QED
      BY <1>2, <3>1, <3>2, Zenon DEF DP!RunTrainsOwnData
  <2> QED
    BY <1>1, <1>3, <2>4, <2>5, <2>6, <2>7 DEF DP!IInv
<1> QED
  BY <1>4, <1>5, Zenon DEF DP!Fetch

\* Every step of the paths keeps the invariant.
LEMMA PathsStep == DP!IInv /\ [DP!Next]_(DP!vars) => DP!IInv'
<1> SUFFICES ASSUME DP!IInv, [DP!Next]_(DP!vars) PROVE DP!IInv'
  OBVIOUS
<1>1. CASE DP!Next
  BY <1>1, PathPublished, RunMisses, CopyIsFetched, RunTrains, SeedMoves, Zenon DEF DP!Next
<1>2. CASE UNCHANGED DP!vars
  <2>1. auth' = auth /\ tree' = tree /\ origin' = origin /\ result' = result
    BY <1>2 DEF DP!vars
  <2>2. DP!TypeOK /\ origin[1] = DP!Global /\ DP!VersionsLieWhereMade /\ DP!SamplesHaveRecords /\ DP!RunTrainsOwnData
    BY DEF DP!IInv
  <2>3. DP!TypeOK' /\ origin'[1] = DP!Global /\ DP!VersionsLieWhereMade' /\ DP!SamplesHaveRecords'
    BY <2>1, <2>2, Zenon DEF DP!TypeOK, DP!VersionsLieWhereMade, DP!SamplesHaveRecords, DP!Asker
  <2>4. DP!RunTrainsOwnData'
    BY <2>1, <2>2, Zenon DEF DP!RunTrainsOwnData, DP!Resolved, DP!Asker
  <2> QED
    BY <2>3, <2>4 DEF DP!IInv
<1> QED
  BY <1>1, <1>2

\* What the invariant says of a dataset.
LEMMA PathsAreFound == DP!IInv => DP!DatasetIsFound
BY ListsAreOpened DEF DP!IInv, DP!DatasetIsFound

-----------------------------------------------------------------------------
(* Together                                                                *)

\* The inductive invariant of each part.
DatasetsInv ==
  IInv /\ CR!IInv /\ CC!IInv /\ CO!IInv /\ SE!IInv /\ DS!IInv /\ DP!IInv

\* All of them hold at first.
LEMMA DatasetsStart == DatasetsInit => DatasetsInv
BY IngestInit, RowsInit, ChatInit, ConvInit, SynthInit, SplitsInit, PathsInit DEF DatasetsInit, DatasetsInv

\* A step of the one in focus keeps them all.
LEMMA DatasetsStep == DatasetsInv /\ [DatasetsNext]_allVars => DatasetsInv' /\ [Next]_vars
<1> SUFFICES ASSUME DatasetsInv, [DatasetsNext]_allVars PROVE DatasetsInv' /\ [Next]_vars
  OBVIOUS
<1>1. IInv /\ CR!IInv /\ CC!IInv /\ CO!IInv /\ SE!IInv /\ DS!IInv /\ DP!IInv
  BY DEF DatasetsInv
<1>2. /\ UNCHANGED rowsVars => UNCHANGED CR!vars
      /\ UNCHANGED chatVars => UNCHANGED CC!vars
      /\ UNCHANGED convVars => UNCHANGED CO!vars
      /\ UNCHANGED synthVars => UNCHANGED SE!vars
      /\ UNCHANGED splitsVars => UNCHANGED DS!vars
      /\ UNCHANGED pathsVars => UNCHANGED DP!vars
  BY Zenon DEF rowsVars, chatVars, convVars, synthVars, splitsVars, pathsVars,
     CR!vars, CC!vars, CC!inputs, CO!vars, SE!vars, DS!vars, DP!vars
<1>3. /\ [Next]_vars /\ [CR!Next]_(CR!vars) /\ [CC!Next]_(CC!vars) /\ [CO!Next]_(CO!vars)
      /\ [SE!Next]_(SE!vars) /\ [DS!Next]_(DS!vars) /\ [DP!Next]_(DP!vars)
  <2>1. CASE DatasetsNext
    BY <1>2, <2>1, Zenon DEF DatasetsNext
  <2>2. CASE UNCHANGED allVars
    BY <1>2, <2>2, Zenon DEF allVars
  <2> QED
    BY <2>1, <2>2
<1> QED
  BY <1>1, <1>3, IngestStep, RowsStep, ChatStep, ConvStep, SynthStep, SplitsStep, PathsStep DEF DatasetsInv

\* The inductive invariants of the parts hold together.
THEOREM DatasetsInvariance == DatasetsSpec => []DatasetsInv
BY DatasetsStart, DatasetsStep, PTL DEF DatasetsSpec

\* No acknowledged upload is lost, whatever else is done with datasets.
THEOREM UploadsStaySafe == DatasetsSpec => []UploadIsSafe
<1>1. DatasetsInv => UploadIsSafe
  BY DEF DatasetsInv, IInv
<1> QED
  BY <1>1, DatasetsInvariance, PTL

\* One job for a name publishes, and none overwrites a file that is there.
THEOREM AuthorStaysOne == DatasetsSpec => DatasetHasOneAuthor
<1>1. DatasetsInv => IInv
  BY DEF DatasetsInv
<1>2. [Next]_vars /\ IInv /\ IInv' => [OneJobPublishes' /\ JobNeverClobbers]_vars
  BY OneAuthorStep
<1>3. DatasetsInv /\ [DatasetsNext]_allVars => [Next]_vars
  BY DatasetsStep
<1> QED
  BY <1>1, <1>2, <1>3, DatasetsInvariance, PTL DEF DatasetsSpec, DatasetHasOneAuthor

\* An upload becomes the records that a reader of the whole file would make of
\* it with the comma: the stream yields the rows of the file wherever its chunks end
\* (_find_row_end and _parse_csv_row), the chat cleaner accounts for every row, and
\* what is kept of any format was in the upload (iter_csv_chat_records and
\* ingest_v2.py).  Every way to divide the records loses none and leaves enough to
\* train and to validate on (auto_split, _clamp_split, the finalizing endpoint and the
\* streaming writer), and synthesized ones are new, well-formed and as many as
\* asked for, unless the batches are used up (packages/dataset_synth/engine.py).
THEOREM RecordsStaySound == DatasetsSpec => []RecordsAreSound
<1>1. DatasetsInv => RecordsAreSound
  BY RowsAreRead, ChatIsCleaned, ConvRead, SplitsSound DEF DatasetsInv, RecordsAreSound, SE!IInv
<1> QED
  BY <1>1, DatasetsInvariance, PTL

\* What a caller is listed it may open, and it is its tenant's or the samples; a
\* run trains on its user's dataset, the samples or, on a remote worker, what the
\* service made (DatasetPaths' list, detail and resolve_dataset_dir).
THEOREM DatasetStaysFound == DatasetsSpec => []DatasetIsFound
<1>1. DatasetsInv => DatasetIsFound
  BY PathsAreFound DEF DatasetsInv, DatasetIsFound
<1> QED
  BY <1>1, DatasetsInvariance, PTL

\* Every part keeps its types.
THEOREM DatasetsTypes == DatasetsSpec => []DatasetsTypeOK
<1>1. DatasetsInv => DatasetsTypeOK
  BY DEF DatasetsInv, DatasetsTypeOK, IInv, CR!IInv, CC!IInv, CO!IInv, SE!IInv, DS!IInv, DP!IInv
<1> QED
  BY <1>1, DatasetsInvariance, PTL
=============================================================================
