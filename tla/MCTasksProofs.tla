---------------------------- MODULE MCTasksProofs ----------------------------
(***************************************************************************)
(* Proofs about the background tasks, for any runs, causes, checkpoints,   *)
(* backends and jobs: what a post-mortem says of its run, and what the     *)
(* registry promises of the models it lists.  The keys are those of        *)
(* MCTasks, where every checkpoint asks for the same one: the worst case.  *)
(***************************************************************************)
EXTENDS MCTasks, FiniteSetTheorems, WellFoundedInduction, TLAPS

-----------------------------------------------------------------------------
(* Post-mortems                                                            *)

\* The initial states satisfy the inductive invariant of the post-mortems.
LEMMA PostMortemInit == PM!Init => PM!IInv
  BY TasksAssumption, SMT DEF PM!Init, PM!IInv, PM!TypeOK, PM!Tasks, PM!Busy, PM!TasksInOrder,
     PM!RowIsPending, PM!TextIsHashed, PM!FailureIsHandled

\* Every step keeps their types.
LEMMA PostMortemTypes ==
  ASSUME PM!TypeOK, PM!TasksInOrder, [PM!Next]_(PM!vars)
  PROVE  PM!TypeOK'
<1> USE TasksAssumption DEF PM!TypeOK, PM!Tasks, PM!Busy, PM!Fault, PM!Goto, PM!rowVars, PM!taskVars
<1>1. ASSUME NEW r \in Runs, NEW c \in Causes, PM!FailRun(r, c)
      PROVE  PM!TypeOK'
  BY <1>1 DEF PM!FailRun
<1>2. ASSUME NEW r \in Runs, NEW c \in Causes, PM!FailQuietly(r, c)
      PROVE  PM!TypeOK'
  BY <1>2 DEF PM!FailQuietly
<1>3. ASSUME NEW r \in Runs, PM!LeaveFailed(r) \/ PM!CreateRun(r)
      PROVE  PM!TypeOK'
  BY <1>3 DEF PM!LeaveFailed, PM!CreateRun
<1>4. ASSUME NEW r \in Runs, PM!DeleteRun(r)
      PROVE  PM!TypeOK'
  BY <1>4 DEF PM!DeleteRun
<1>5. ASSUME NEW t \in PM!Tasks, PM!Lock(t) \/ PM!SkipRun(t) \/ PM!CallSkill(t) \/ PM!RowGone(t)
      PROVE  PM!TypeOK'
  BY <1>5 DEF PM!Lock, PM!SkipRun, PM!CallSkill, PM!RowGone
<1>6. ASSUME NEW t \in PM!Tasks, PM!MarkPending(t)
      PROVE  PM!TypeOK'
  <2>1. run[t] \in Runs
    BY <1>6 DEF PM!MarkPending, PM!TasksInOrder
  <2> QED
    BY <1>6, <2>1 DEF PM!MarkPending
<1>9. ASSUME NEW t \in PM!Tasks, PM!StoreResult(t)
      PROVE  PM!TypeOK'
  BY <1>9, ZenonT(30) DEF PM!StoreResult
<1>7. CASE PM!RestartAPI
  <2>1. {run[t] : t \in {u \in PM!Tasks : pc[u] \in PM!Busy \cup {"queued"}}} \subseteq Runs
    BY DEF PM!TasksInOrder
  <2> QED
    BY <1>7, <2>1 DEF PM!RestartAPI
<1>8. CASE UNCHANGED PM!vars
  BY <1>8 DEF PM!vars
<1> QED
  BY <1>1, <1>2, <1>3, <1>4, <1>5, <1>6, <1>7, <1>8, <1>9 DEF PM!Next, PM!TaskStep

\* Every step keeps the tasks numbered in the order they were scheduled.
LEMMA PostMortemOrder ==
  ASSUME PM!TypeOK, PM!TasksInOrder, [PM!Next]_(PM!vars)
  PROVE  PM!TasksInOrder'
<1> USE TasksAssumption DEF PM!TypeOK, PM!TasksInOrder, PM!Tasks, PM!Busy, PM!Goto, PM!taskVars
<1>1. ASSUME NEW r \in Runs, NEW c \in Causes, PM!FailRun(r, c)
      PROVE  PM!TasksInOrder'
  BY <1>1 DEF PM!FailRun
<1>2. CASE \/ \E r \in Runs, c \in Causes : PM!FailQuietly(r, c)
           \/ \E r \in Runs : PM!LeaveFailed(r) \/ PM!CreateRun(r) \/ PM!DeleteRun(r)
           \/ UNCHANGED PM!vars
  <2>1. UNCHANGED <<run, pc, tasks>>
    BY <1>2 DEF PM!FailQuietly, PM!LeaveFailed, PM!CreateRun, PM!DeleteRun, PM!vars
  <2> QED
    BY <2>1
<1>3. ASSUME NEW t \in PM!Tasks, PM!Lock(t)
      PROVE  PM!TasksInOrder'
  BY <1>3 DEF PM!Lock, PM!LockFree
<1>4. ASSUME NEW t \in PM!Tasks,
             PM!SkipRun(t) \/ PM!MarkPending(t) \/ PM!CallSkill(t) \/ PM!StoreResult(t) \/ PM!RowGone(t)
      PROVE  PM!TasksInOrder'
  BY <1>4, SMTT(30) DEF PM!SkipRun, PM!MarkPending, PM!CallSkill, PM!StoreResult, PM!RowGone
<1>5. CASE PM!RestartAPI
  BY <1>5 DEF PM!RestartAPI
<1> QED
  BY <1>1, <1>2, <1>3, <1>4, <1>5 DEF PM!Next, PM!TaskStep

\* Every step keeps a row pending while a task writes its text.
LEMMA PendingStep ==
  ASSUME PM!IInv, [PM!Next]_(PM!vars), NEW u \in PM!Tasks
  PROVE  PM!RowIsPending(u)'
<1>t. PM!TypeOK /\ PM!TasksInOrder /\ PM!RowIsPending(u)
  BY DEF PM!IInv
<1> USE TasksAssumption DEF PM!TypeOK, PM!Tasks, PM!Goto, PM!taskVars, PM!rowVars
<1>1. ASSUME NEW r \in Runs, NEW c \in Causes, PM!FailRun(r, c)
      PROVE  PM!RowIsPending(u)'
  <2>1. pc'[u] \in {"wait", "call"} => u # tasks + 1 /\ run'[u] = run[u] /\ pc'[u] = pc[u]
    BY <1>t, <1>1 DEF PM!FailRun
  <2> QED
    BY <1>t, <1>1, <2>1 DEF PM!FailRun, PM!RowIsPending
<1>2. ASSUME NEW r \in Runs, PM!DeleteRun(r)
      PROVE  PM!RowIsPending(u)'
  BY <1>t, <1>2 DEF PM!DeleteRun, PM!RowIsPending, PM!Busy
<1>3. ASSUME NEW t \in PM!Tasks, PM!MarkPending(t) \/ PM!StoreResult(t)
      PROVE  PM!RowIsPending(u)'
  <2>1. /\ pc[t] \in PM!Busy /\ run[t] \in Runs /\ UNCHANGED <<run, reused>>
        /\ \A v \in PM!Tasks : v # t => pc'[v] = pc[v] /\ saw'[v] = saw[v]
        /\ \A q \in Runs : q # run[t] => pm'[q] = pm[q] /\ hash'[q] = hash[q]
    BY <1>t, <1>3 DEF PM!MarkPending, PM!StoreResult, PM!Busy, PM!TasksInOrder
  <2>2. CASE u = t
    BY <1>t, <1>3, <2>1, <2>2 DEF PM!MarkPending, PM!StoreResult, PM!RowIsPending
  <2>3. CASE u # t
    <3>1. pc[u] \in PM!Busy => run[u] # run[t] /\ run[u] \in Runs
      BY <1>t, <2>1, <2>3 DEF PM!TasksInOrder, PM!Busy
    <3> QED
      BY <1>t, <2>1, <2>3, <3>1 DEF PM!RowIsPending, PM!Busy
  <2> QED
    BY <2>2, <2>3
<1>4. CASE \/ \E r \in Runs, c \in Causes : PM!FailQuietly(r, c)
           \/ \E r \in Runs : PM!LeaveFailed(r) \/ PM!CreateRun(r)
           \/ \E t \in PM!Tasks : PM!Lock(t) \/ PM!SkipRun(t) \/ PM!CallSkill(t) \/ PM!RowGone(t)
           \/ PM!RestartAPI \/ UNCHANGED PM!vars
  <2>1. UNCHANGED <<pm, hash, run, saw, reused>>
    BY <1>4 DEF PM!FailQuietly, PM!LeaveFailed, PM!CreateRun, PM!Lock, PM!SkipRun, PM!CallSkill, PM!RowGone,
       PM!RestartAPI, PM!vars
  <2>2. pc'[u] \in {"wait", "call"} => pc[u] \in {"wait", "call"}
    BY <1>t, <1>4, ZenonT(30) DEF PM!FailQuietly, PM!LeaveFailed, PM!CreateRun, PM!Lock, PM!SkipRun,
       PM!CallSkill, PM!RowGone, PM!RestartAPI, PM!vars
  <2> QED
    BY <1>t, <2>1, <2>2 DEF PM!RowIsPending
<1> QED
  BY <1>1, <1>2, <1>3, <1>4 DEF PM!Next, PM!TaskStep

\* Every step keeps the text of a row the text of its fingerprint.
LEMMA HashedStep ==
  ASSUME PM!IInv, [PM!Next]_(PM!vars), NEW q \in Runs
  PROVE  PM!TextIsHashed(q)'
<1>t. PM!TypeOK /\ PM!TextIsHashed(q) /\ \A t \in PM!Tasks : PM!RowIsPending(t)
  BY DEF PM!IInv
<1> USE TasksAssumption DEF PM!TypeOK, PM!taskVars, PM!rowVars
<1>1. ASSUME NEW r \in Runs, PM!DeleteRun(r)
      PROVE  PM!TextIsHashed(q)'
  BY <1>t, <1>1 DEF PM!DeleteRun, PM!TextIsHashed
<1>2. ASSUME NEW t \in PM!Tasks, PM!MarkPending(t)
      PROVE  PM!TextIsHashed(q)'
  BY <1>t, <1>2 DEF PM!MarkPending, PM!TextIsHashed
<1>3. ASSUME NEW t \in PM!Tasks, PM!StoreResult(t)
      PROVE  PM!TextIsHashed(q)'
  <2>1. run[t] \notin reused => hash[run[t]] = saw[t]
    BY <1>t, <1>3 DEF PM!StoreResult, PM!RowIsPending
  <2>2. UNCHANGED <<hash, reused>> /\ text'[q] = IF q = run[t] THEN saw[t] ELSE text[q]
    BY <1>t, <1>3 DEF PM!StoreResult
  <2>3. q # run[t] => pm'[q] = pm[q]
    BY <1>t, <1>3 DEF PM!StoreResult
  <2> QED
    BY <1>t, <2>1, <2>2, <2>3 DEF PM!TextIsHashed
<1>4. CASE \/ \E r \in Runs, c \in Causes : PM!FailQuietly(r, c) \/ PM!FailRun(r, c)
           \/ \E r \in Runs : PM!LeaveFailed(r) \/ PM!CreateRun(r)
           \/ \E t \in PM!Tasks : PM!Lock(t) \/ PM!SkipRun(t) \/ PM!CallSkill(t) \/ PM!RowGone(t)
           \/ PM!RestartAPI \/ UNCHANGED PM!vars
  <2>1. UNCHANGED <<pm, hash, text, reused>>
    BY <1>4 DEF PM!FailQuietly, PM!FailRun, PM!LeaveFailed, PM!CreateRun, PM!Lock, PM!SkipRun, PM!CallSkill,
       PM!RowGone, PM!RestartAPI, PM!vars
  <2> QED
    BY <1>t, <2>1 DEF PM!TextIsHashed
<1> QED
  BY <1>1, <1>2, <1>3, <1>4 DEF PM!Next, PM!TaskStep

\* Every step keeps a failure explained, on its way to be, or left to itself.
LEMMA HandledStep ==
  ASSUME PM!IInv, [PM!Next]_(PM!vars), NEW q \in Runs
  PROVE  PM!FailureIsHandled(q)'
<1>t. PM!TypeOK /\ PM!TasksInOrder /\ PM!FailureIsHandled(q) /\ \A t \in PM!Tasks : PM!RowIsPending(t)
  BY DEF PM!IInv
<1> USE TasksAssumption DEF PM!TypeOK, PM!Tasks, PM!Goto, PM!taskVars, PM!rowVars
<1>1. ASSUME NEW r \in Runs, NEW c \in Causes, PM!FailRun(r, c)
      PROVE  PM!FailureIsHandled(q)'
  <2>1. /\ tasks + 1 \in PM!Tasks /\ pc[tasks + 1] = "none" /\ UNCHANGED <<pm, hash, saw, excused, reused>>
        /\ run'[tasks + 1] = r /\ pc'[tasks + 1] = "queued"
        /\ \A t \in PM!Tasks : t # tasks + 1 => run'[t] = run[t] /\ pc'[t] = pc[t]
        /\ q # r => state'[q] = state[q] /\ cause'[q] = cause[q]
    BY <1>t, <1>1 DEF PM!FailRun, PM!TasksInOrder
  <2>2. CASE q = r
    BY <2>1, <2>2 DEF PM!FailureIsHandled
  <2>3. CASE q # r
    BY <1>t, <2>1, <2>3 DEF PM!FailureIsHandled, PM!Answered
  <2> QED
    BY <2>2, <2>3
<1>2. ASSUME NEW r \in Runs, NEW c \in Causes, PM!FailQuietly(r, c)
      PROVE  PM!FailureIsHandled(q)'
  BY <1>t, <1>2 DEF PM!FailQuietly, PM!FailureIsHandled, PM!Answered
<1>3. ASSUME NEW r \in Runs, PM!LeaveFailed(r) \/ PM!CreateRun(r)
      PROVE  PM!FailureIsHandled(q)'
  BY <1>t, <1>3 DEF PM!LeaveFailed, PM!CreateRun, PM!FailureIsHandled, PM!Answered
<1>4. ASSUME NEW r \in Runs, PM!DeleteRun(r)
      PROVE  PM!FailureIsHandled(q)'
  BY <1>t, <1>4 DEF PM!DeleteRun, PM!FailureIsHandled, PM!Answered
<1>5. ASSUME NEW t \in PM!Tasks, PM!Lock(t) \/ PM!CallSkill(t)
      PROVE  PM!FailureIsHandled(q)'
  BY <1>t, <1>5 DEF PM!Lock, PM!CallSkill, PM!FailureIsHandled, PM!Answered
<1>6. ASSUME NEW t \in PM!Tasks, PM!SkipRun(t)
      PROVE  PM!FailureIsHandled(q)'
  BY <1>t, <1>6 DEF PM!SkipRun, PM!FailureIsHandled, PM!Answered
<1>7. ASSUME NEW t \in PM!Tasks, PM!RowGone(t)
      PROVE  PM!FailureIsHandled(q)'
  BY <1>t, <1>7 DEF PM!RowGone, PM!FailureIsHandled, PM!Answered
<1>8. ASSUME NEW t \in PM!Tasks, PM!MarkPending(t)
      PROVE  PM!FailureIsHandled(q)'
  <2>1. /\ pc[t] = "read" /\ pc'[t] = "wait" /\ saw'[t] = cause[run[t]]
        /\ UNCHANGED <<state, cause, run, excused, reused>>
        /\ \A u \in PM!Tasks : u # t => pc'[u] = pc[u] /\ saw'[u] = saw[u]
        /\ q # run[t] => pm'[q] = pm[q] /\ hash'[q] = hash[q]
    BY <1>t, <1>8 DEF PM!MarkPending
  <2>2. CASE q = run[t]
    BY <2>1, <2>2 DEF PM!FailureIsHandled
  <2>3. CASE q # run[t]
    BY <1>t, <2>1, <2>3 DEF PM!FailureIsHandled, PM!Answered
  <2> QED
    BY <2>2, <2>3
<1>9. ASSUME NEW t \in PM!Tasks, PM!StoreResult(t)
      PROVE  PM!FailureIsHandled(q)'
  <2>1. /\ pc[t] = "call" /\ UNCHANGED <<state, cause, hash, run, saw, reused>>
        /\ \A u \in PM!Tasks : u # t => pc'[u] = pc[u]
        /\ excused' = IF saw[t] = cause[run[t]] THEN excused \ {run[t]} ELSE excused
        /\ q # run[t] => pm'[q] = pm[q]
        /\ q = run[t] => pm'[q] \in {"ready", "unavailable"}
    BY <1>t, <1>9 DEF PM!StoreResult
  <2>2. CASE q # run[t]
    BY <1>t, <2>1, <2>2 DEF PM!FailureIsHandled, PM!Answered
  <2>3. CASE q = run[t] /\ q \notin reused
    <3>1. hash[q] = saw[t] /\ pm[q] = "pending"
      BY <1>t, <2>1, <2>3 DEF PM!RowIsPending
    <3>2. CASE saw[t] = cause[q]
      BY <2>1, <2>3, <3>1, <3>2 DEF PM!FailureIsHandled, PM!Answered
    <3>3. CASE saw[t] # cause[q]
      <4>1. \A u \in PM!Tasks : run[u] = q /\ pc[u] \in {"wait", "call"} => u = t
        BY <1>t, <2>1, <2>3 DEF PM!TasksInOrder, PM!Busy
      <4>2. excused' = excused /\ ~PM!Answered(q)
        BY <2>1, <2>3, <3>1, <3>3 DEF PM!Answered
      <4>3. q \notin excused /\ state[q] = "failed"
              => \E u \in PM!Tasks : run[u] = q /\ pc[u] \in {"queued", "read"}
        BY <1>t, <2>3, <3>3, <4>1, <4>2 DEF PM!FailureIsHandled
      <4> QED
        BY <2>1, <4>2, <4>3 DEF PM!FailureIsHandled
    <3> QED
      BY <3>2, <3>3
  <2> QED
    BY <2>1, <2>2, <2>3 DEF PM!FailureIsHandled
<1>10. CASE PM!RestartAPI
  <2>1. UNCHANGED <<state, cause, pm, hash, reused>>
    BY <1>10 DEF PM!RestartAPI
  <2>2. q \notin excused' => q \notin excused /\ \A t \in PM!Tasks : run[t] = q => pc[t] \notin PM!Busy \cup {"queued"}
    BY <1>10 DEF PM!RestartAPI
  <2> QED
    BY <1>t, <2>1, <2>2 DEF PM!FailureIsHandled, PM!Answered, PM!Busy
<1>11. CASE UNCHANGED PM!vars
  BY <1>t, <1>11 DEF PM!vars, PM!FailureIsHandled, PM!Answered
<1> QED
  BY <1>1, <1>2, <1>3, <1>4, <1>5, <1>6, <1>7, <1>8, <1>9, <1>10, <1>11 DEF PM!Next, PM!TaskStep

\* Every step keeps the inductive invariant of the post-mortems.
LEMMA PostMortemStep == PM!IInv /\ [PM!Next]_(PM!vars) => PM!IInv'
  BY PostMortemTypes, PostMortemOrder, PendingStep, HashedStep, HandledStep DEF PM!IInv

\* The inductive invariant is enough: a text is about the failure it is shown with.
LEMMA PostMortemExplains == PM!IInv => PM!FailureExplained
<1> SUFFICES ASSUME PM!IInv, NEW r \in Runs \ (excused \cup reused), state[r] = "failed",
                    \A t \in PM!Tasks : run[t] = r => pc[t] \in {"none", "done"}
             PROVE  pm[r] \in {"ready", "unavailable"} /\ text[r] = cause[r]
  BY DEF PM!FailureExplained
<1>1. PM!Answered(r)
  BY DEF PM!IInv, PM!FailureIsHandled
<1> QED
  BY <1>1 DEF PM!IInv, PM!TextIsHashed, PM!Answered

-----------------------------------------------------------------------------
(* The model registry                                                      *)

\* The Cardinality of the instance is that of FiniteSets, which the library is about.
LEMMA SameCardinality == \A S : MR!Cardinality(S) = Cardinality(S)
  BY DEF MR!Cardinality, Cardinality

\* A checkpoint that is not registered finds a free key: one of as many as there are
\* checkpoints and one more, of which the seeds and the others hold one each at most.
LEMMA FreeKey ==
  ASSUME MR!TypeOK, MR!OneEntry, NEW r \in Repos, \A e \in registry : e.repo # r
  PROVE  MR!UniqueKey(r) \in MR!Keys \ MR!Taken
<1> DEFINE N == Cardinality(Repos) + 1
           Free == {n \in 1 .. N : <<"slm", n>> \notin MR!Taken}
<1>t. /\ Cardinality(Repos) \in Nat /\ N \in Nat /\ N = Cardinality(Repos) + 1 /\ IsFiniteSet(Repos)
      /\ registry \subseteq MR!Entries /\ Slug[r] = "slm"
  BY TasksAssumption, FS_CardinalityType DEF MR!TypeOK, Slug
<1>1. Free # {}
  <2> SUFFICES ASSUME Free = {} PROVE FALSE
    OBVIOUS
  <2> DEFINE Holder(n) == CHOOSE e \in registry : e.key = <<"slm", n>>
             G == [n \in 2 .. N |-> Holder(n).repo]
  <2>1. ASSUME NEW n \in 2 .. N
        PROVE  Holder(n) \in registry /\ Holder(n).key = <<"slm", n>> /\ Holder(n).repo \in Repos \ {r}
    <3>1. n \in 1 .. N /\ n # 1
      BY <1>t, <2>1
    <3>2. <<"slm", n>> \in MR!Taken
      BY <3>1
    <3>3. <<"slm", n>> \notin SeedKeys
      BY <3>1 DEF SeedKeys
    <3>4. \E e \in registry : e.key = <<"slm", n>>
      BY <3>2, <3>3 DEF MR!Taken
    <3>5. Holder(n) \in registry /\ Holder(n).key = <<"slm", n>>
      BY <3>4
    <3>6. Holder(n).repo \in Repos /\ Holder(n).repo # r
      BY <1>t, <3>5 DEF MR!Entries
    <3> QED
      BY <3>5, <3>6
  <2>2. G \in [2 .. N -> Repos \ {r}]
    BY <2>1
  <2>3. /\ IsFiniteSet(2 .. N) /\ Cardinality(2 .. N) = Cardinality(Repos)
        /\ IsFiniteSet(Repos \ {r}) /\ Cardinality(Repos \ {r}) = Cardinality(Repos) - 1
    <3> HIDE DEF N
    <3>1. 2 \in Int /\ N \in Int
      BY <1>t
    <3>2. IsFiniteSet(2 .. N) /\ Cardinality(2 .. N) = IF 2 > N THEN 0 ELSE N - 2 + 1
      BY <3>1, FS_Interval
    <3>3. IsFiniteSet(Repos \ {r}) /\ Cardinality(Repos \ {r}) = Cardinality(Repos) - 1
      BY <1>t, FS_RemoveElement
    <3> QED
      BY <1>t, <3>2, <3>3
  <2>4. PICK m \in 2 .. N, n \in 2 .. N : m # n /\ G[m] = G[n]
    <3>1. Cardinality(Repos \ {r}) < Cardinality(2 .. N)
      BY <1>t, <2>3
    <3> DEFINE S == 2 .. N
               T == Repos \ {r}
    <3>2. IsFiniteSet(S) /\ IsFiniteSet(T) /\ Cardinality(T) < Cardinality(S) /\ G \in [S -> T]
      BY <2>2, <2>3, <3>1
    <3> HIDE DEF G, S, T
    <3>3. \E m, n \in S : m # n /\ G[m] = G[n]
      BY <3>2, FS_PigeonHole
    <3> QED
      BY <3>3 DEF S
  <2>5. Holder(m) = Holder(n)
    <3>1. Holder(m).repo = Holder(n).repo
      BY <2>4
    <3> QED
      BY <2>1, <3>1 DEF MR!OneEntry
  <2>6. <<"slm", m>> = <<"slm", n>>
    <3> HIDE DEF Holder
    <3> QED
      BY <2>1, <2>5
  <2> QED
    BY <2>4, <2>6
<1>2. PICK n \in Free : \A i \in Free : ~(i < n)
  <2> DEFINE R == {ss \in Nat \X Nat : ss[1] < ss[2]}
  <2>1. IsWellFoundedOn(R, Nat)
    BY NatLessThanWellFounded DEF OpToRel
  <2>2. Free \subseteq Nat
    BY <1>t
  <2>3. PICK n \in Free : \A i \in Free : <<i, n>> \notin R
    <3> HIDE DEF R, Free
    <3> QED
      BY <1>1, <2>1, <2>2, WFMin
  <2>4. ASSUME NEW i \in Free
        PROVE  ~(i < n)
    <3>1. i \in Nat /\ n \in Nat
      BY <2>2
    <3> QED
      BY <2>3, <3>1
  <2> QED
    BY <2>4
<1> DEFINE K == CHOOSE k \in 1 .. N : <<Slug[r], k>> \notin MR!Taken /\ \A i \in 1 .. k - 1 : <<Slug[r], i>> \in MR!Taken
<1>3. K \in 1 .. N /\ <<Slug[r], K>> \notin MR!Taken
  <2>1. n \in 1 .. N /\ <<Slug[r], n>> \notin MR!Taken
    BY <1>t
  <2>2. ASSUME NEW i \in 1 .. n - 1
        PROVE  <<Slug[r], i>> \in MR!Taken
    <3>1. i \in 1 .. N /\ i < n
      BY <1>t, <2>1
    <3> QED
      BY <1>t, <1>2, <3>1
  <2>3. \E k \in 1 .. N : <<Slug[r], k>> \notin MR!Taken /\ \A i \in 1 .. k - 1 : <<Slug[r], i>> \in MR!Taken
    BY <2>1, <2>2
  <2> HIDE DEF N
  <2> QED
    BY <2>3
<1>4. MR!UniqueKey(r) = <<Slug[r], K>>
  BY SameCardinality DEF MR!UniqueKey
<1>5. K \in 1 .. MR!Cardinality(Repos) + 1
  BY <1>3, SameCardinality
<1> HIDE DEF K, N, Free
<1> QED
  BY <1>3, <1>4, <1>5 DEF MR!Keys

\* The initial states satisfy the inductive invariant of the registry.
LEMMA RegistryInit == MR!Init => MR!IInv
<1>1. MR!Cardinality({}) = 0
  BY FS_EmptySet, SameCardinality
<1> QED
  BY <1>1, TasksAssumption DEF MR!Init, MR!IInv, MR!TypeOK, MR!OneEntry, MR!TaskHasRow

\* An upsert leaves its checkpoint one entry, under a key no other entry has.
LEMMA UpsertStep ==
  ASSUME MR!IInv, NEW j \in Jobs, taskPc[j] = "upsert", MR!Upsert(j)
  PROVE  registry' \subseteq MR!Entries /\ MR!OneEntry'
<1> DEFINE r == jobs[j].repo
           e == {x \in registry : x.repo = r}
           k == IF e = {} THEN MR!UniqueKey(r) ELSE (CHOOSE x \in e : TRUE).key
           new == [key |-> k, repo |-> r, backend |-> jobs[j].backend]
<1>t. MR!TypeOK /\ MR!OneEntry /\ registry \subseteq MR!Entries
  BY DEF MR!IInv, MR!TypeOK
<1>1. jobs[j] \in MR!JobRows
  <2>1. jobs[j] # MR!NoRow
    BY DEF MR!IInv, MR!TaskHasRow
  <2>2. jobs[j] \in MR!JobRows \cup {MR!NoRow}
    BY DEF MR!IInv, MR!TypeOK
  <2> QED
    BY <2>1, <2>2
<1>2. r \in Repos /\ jobs[j].backend \in Backends
  BY <1>1 DEF MR!JobRows
<1>3. registry' = (registry \ e) \cup {new}
  BY DEF MR!Upsert
<1>4. /\ k \in MR!Keys /\ k \notin SeedKeys
      /\ \A d \in registry \ e : d.key # k
  <2>1. CASE e = {}
    <3>1. k \in MR!Keys \ MR!Taken
      <4>1. \A x \in registry : x.repo # r
        BY <2>1
      <4>2. k = MR!UniqueKey(r)
        BY <2>1
      <4> HIDE DEF r, k, e
      <4> QED
        BY <1>t, <1>2, <4>1, <4>2, FreeKey
    <3> HIDE DEF k, e
    <3> QED
      BY <3>1 DEF MR!Taken
  <2>2. CASE e # {}
    <3>1. PICK x \in e : k = x.key
      BY <2>2
    <3>2. x \in registry /\ x.key \in MR!Keys
      BY <1>t, <3>1 DEF MR!Entries
    <3> HIDE DEF k, r
    <3> QED
      BY <1>t, <3>1, <3>2 DEF MR!OneEntry
  <2> QED
    BY <2>1, <2>2
<1>5. new \in MR!Entries /\ new.repo = r /\ new.key = k
  <2> HIDE DEF k, r
  <2> QED
    BY <1>2, <1>4 DEF MR!Entries
<1>6. \A d \in registry \ e : d.repo # r
  OBVIOUS
<1>7. MR!OneEntry'
  <2> HIDE DEF k, r, e, new
  <2> QED
    BY <1>t, <1>3, <1>4, <1>5, <1>6 DEF MR!OneEntry
<1> HIDE DEF k, r, e, new
<1> QED
  BY <1>t, <1>3, <1>5, <1>7

\* Every step keeps the inductive invariant of the registry.
LEMMA RegistryStep == MR!IInv /\ [MR!Next]_(MR!vars) => MR!IInv'
<1> SUFFICES ASSUME MR!IInv, [MR!Next]_(MR!vars) PROVE MR!IInv'
  OBVIOUS
<1> DEFINE Places == {"none", "start", "fetch", "upsert", "verdict", "done"}
<1>t. /\ jobs \in [Jobs -> MR!JobRows \cup {MR!NoRow}] /\ registry \subseteq MR!Entries
      /\ taskPc \in [Jobs -> Places] /\ turn \in SUBSET Jobs /\ MR!Cardinality(turn) <= 1
      /\ dbFaults \in 0 .. MaxFaults /\ orphans \subseteq Jobs /\ freedKeys \subseteq MR!Keys
      /\ MR!OneEntry /\ MR!TaskHasRow
  BY DEF MR!IInv, MR!TypeOK
<1>c. MR!Cardinality({}) <= 1 /\ \A j : MR!Cardinality({j}) <= 1
  <2>1. Cardinality({}) = 0 /\ \A j : Cardinality({j}) = 1
    BY FS_EmptySet, FS_Singleton
  <2>2. MR!Cardinality({}) = 0 /\ \A j : MR!Cardinality({j}) = 1
    BY <2>1, SameCardinality
  <2> QED
    BY <2>2
<1>w. MR!NoRow \notin MR!JobRows
  BY DEF MR!NoRow, MR!JobRows, MR!Active, MR!Ended
<1>s. ASSUME NEW j \in Jobs, NEW s \in MR!Active \cup MR!Ended, NEW k \in MR!Keys \cup {MR!NoKey},
             jobs[j] # MR!NoRow, MR!SetJob(j, s, k)
      PROVE  jobs' \in [Jobs -> MR!JobRows \cup {MR!NoRow}] /\ \A i \in Jobs : jobs[i] # MR!NoRow => jobs'[i] # MR!NoRow
  <2>1. jobs[j] \in MR!JobRows
    BY <1>t, <1>s
  <2>2. [jobs[j] EXCEPT !.status = s, !.key = k] \in MR!JobRows
    BY <2>1 DEF MR!JobRows
  <2>3. jobs' = [jobs EXCEPT ![j] = [jobs[j] EXCEPT !.status = s, !.key = k]]
    BY <1>t, <1>s DEF MR!SetJob
  <2> QED
    BY <1>t, <1>w, <2>2, <2>3
<1>f. MR!DbFault => dbFaults' \in 0 .. MaxFaults
  BY <1>t, TasksAssumption DEF MR!DbFault
<1>g. \A j \in Jobs, p \in Places : MR!GoTask(j, p) =>
         taskPc' \in [Jobs -> Places] /\ \A i \in Jobs : i # j => taskPc'[i] = taskPc[i]
  BY <1>t DEF MR!GoTask
<1>r. \A j \in Jobs : taskPc[j] # "none" \/ j \in turn => jobs[j] # MR!NoRow
  BY <1>t DEF MR!TaskHasRow
<1> USE DEF MR!TypeOK, MR!TaskHasRow
<1>1. ASSUME NEW j \in Jobs, NEW r \in Repos, NEW b \in Backends, MR!DownloadModel(j, r, b)
      PROVE  MR!TypeOK' /\ MR!OneEntry' /\ MR!TaskHasRow'
  <2>1. [status |-> "queued", repo |-> r, backend |-> b, key |-> MR!NoKey] \in MR!JobRows
    BY DEF MR!JobRows, MR!Active
  <2>2. jobs' \in [Jobs -> MR!JobRows \cup {MR!NoRow}] /\ jobs'[j] # MR!NoRow /\ \A i \in Jobs : i # j => jobs'[i] = jobs[i]
    BY <1>t, <1>1, <1>w, <2>1 DEF MR!DownloadModel
  <2>3. UNCHANGED <<registry, turn, dbFaults, orphans, freedKeys>> /\ MR!GoTask(j, "start")
    BY <1>1 DEF MR!DownloadModel
  <2> QED
    BY <1>t, <1>g, <1>r, <2>2, <2>3 DEF MR!OneEntry
<1>2. ASSUME NEW j \in Jobs, MR!MarkProcessing(j) \/ MR!MarkFailed(j)
      PROVE  MR!TypeOK' /\ MR!OneEntry' /\ MR!TaskHasRow'
  <2>1. /\ taskPc[j] # "none" /\ UNCHANGED <<registry, turn, dbFaults, orphans, freedKeys>>
        /\ \E s \in MR!Active \cup MR!Ended : MR!SetJob(j, s, MR!NoKey)
        /\ \E p \in Places : MR!GoTask(j, p)
    BY <1>2 DEF MR!MarkProcessing, MR!MarkFailed, MR!Active, MR!Ended
  <2> QED
    BY <1>t, <1>s, <1>g, <1>r, <2>1 DEF MR!OneEntry
<1>3. ASSUME NEW j \in Jobs, MR!MetaFetched(j)
      PROVE  MR!TypeOK' /\ MR!OneEntry' /\ MR!TaskHasRow'
  BY <1>t, <1>3, <1>g, <1>r DEF MR!MetaFetched, MR!OneEntry
<1>4. ASSUME NEW j \in Jobs, MR!UpsertRegisteredModel(j)
      PROVE  MR!TypeOK' /\ MR!OneEntry' /\ MR!TaskHasRow'
  <2>1. /\ taskPc[j] = "upsert" /\ MR!Upsert(j) /\ turn' = {j} /\ MR!GoTask(j, "verdict")
        /\ UNCHANGED <<jobs, dbFaults, orphans, freedKeys>>
    BY <1>4 DEF MR!UpsertRegisteredModel
  <2>2. registry' \subseteq MR!Entries /\ MR!OneEntry'
    BY <2>1, UpsertStep
  <2> QED
    BY <1>t, <1>c, <1>g, <1>r, <2>1, <2>2
<1>5. ASSUME NEW j \in Jobs, MR!MarkSucceeded(j)
      PROVE  MR!TypeOK' /\ MR!OneEntry' /\ MR!TaskHasRow'
  <2>1. /\ taskPc[j] # "none" /\ turn' = {} /\ UNCHANGED <<registry, dbFaults, orphans, freedKeys>>
        /\ MR!GoTask(j, "done")
    BY <1>5 DEF MR!MarkSucceeded
  <2>2. \E k \in MR!Keys : MR!SetJob(j, "succeeded", k)
    BY <1>t, <1>5 DEF MR!MarkSucceeded, MR!Entries
  <2>3. "succeeded" \in MR!Active \cup MR!Ended
    BY DEF MR!Ended
  <2> QED
    BY <1>t, <1>c, <1>s, <1>g, <1>r, <2>1, <2>2, <2>3 DEF MR!OneEntry
<1>6. ASSUME NEW j \in Jobs, MR!DatabaseFails(j)
      PROVE  MR!TypeOK' /\ MR!OneEntry' /\ MR!TaskHasRow'
  <2>1. /\ UNCHANGED <<registry, freedKeys>> /\ MR!DbFault /\ MR!GoTask(j, "done")
        /\ turn' \in {turn, {}} /\ orphans' \in {orphans, orphans \cup {j}}
        /\ UNCHANGED jobs \/ MR!SetJob(j, "failed", MR!NoKey)
    BY <1>6 DEF MR!DatabaseFails
  <2>2. taskPc[j] # "none" \/ j \in turn
    BY <1>6 DEF MR!DatabaseFails
  <2>3. "failed" \in MR!Active \cup MR!Ended
    BY DEF MR!Ended
  <2> QED
    BY <1>t, <1>c, <1>f, <1>s, <1>g, <1>r, <2>1, <2>2, <2>3 DEF MR!OneEntry
<1>7. ASSUME NEW k \in MR!Keys, MR!DeleteRegistered(k)
      PROVE  MR!TypeOK' /\ MR!OneEntry' /\ MR!TaskHasRow'
  BY <1>t, <1>7 DEF MR!DeleteRegistered, MR!OneEntry
<1> HIDE DEF MR!TypeOK, MR!TaskHasRow
<1>8. CASE MR!RestartAPI
  <2>1. jobs' \in [Jobs -> MR!JobRows \cup {MR!NoRow}] /\ \A j \in Jobs : jobs[j] # MR!NoRow => jobs'[j] # MR!NoRow
    <3>1. jobs' = MR!Reconciled
      BY <1>8 DEF MR!RestartAPI
    <3>2. ASSUME NEW j \in Jobs
          PROVE  /\ MR!Reconciled[j] \in MR!JobRows \cup {MR!NoRow}
                 /\ jobs[j] # MR!NoRow => MR!Reconciled[j] # MR!NoRow
      BY <1>t, <1>w DEF MR!Reconciled, MR!JobRows, MR!Ended, MR!Active, MR!NoRow
    <3> QED
      BY <3>1, <3>2 DEF MR!Reconciled
  <2>2. /\ taskPc' = [j \in Jobs |-> IF taskPc[j] = "none" THEN "none" ELSE "done"]
        /\ turn' = {} /\ orphans' = {} /\ UNCHANGED <<registry, freedKeys>> /\ MR!DbFault
    BY <1>8 DEF MR!RestartAPI
  <2>3. taskPc' \in [Jobs -> Places] /\ \A j \in Jobs : taskPc'[j] # "none" => taskPc[j] # "none"
    BY <1>t, <2>2
  <2>4. MR!TypeOK'
    BY <1>t, <1>c, <1>f, <2>1, <2>2, <2>3 DEF MR!TypeOK
  <2>6. MR!TaskHasRow'
    BY <1>r, <2>1, <2>2, <2>3 DEF MR!TaskHasRow
  <2>5. MR!OneEntry'
    BY <1>t, <2>2 DEF MR!OneEntry
  <2> QED
    BY <2>4, <2>5, <2>6 DEF MR!IInv
<1>9. CASE UNCHANGED MR!vars
  <2>1. UNCHANGED <<jobs, registry, taskPc, turn, dbFaults, orphans, freedKeys>>
    BY <1>9 DEF MR!vars
  <2>2. MR!TypeOK'
    BY <1>t, <2>1 DEF MR!TypeOK
  <2>3. MR!OneEntry'
    BY <1>t, <2>1 DEF MR!OneEntry
  <2>4. MR!TaskHasRow'
    BY <1>r, <2>1 DEF MR!TaskHasRow
  <2> QED
    BY <2>2, <2>3, <2>4 DEF MR!IInv
<1> QED
  <2>1. MR!TypeOK' /\ MR!OneEntry' /\ MR!TaskHasRow' => MR!IInv'
    BY DEF MR!IInv
  <2> QED
    BY <2>1, <1>1, <1>2, <1>3, <1>4, <1>5, <1>6, <1>7, <1>8, <1>9 DEF MR!Next, MR!TaskStep

\* The inductive invariant is enough: the only entry of a checkpoint is the one the
\* validation of a run finds.
LEMMA RegistryListed == MR!IInv => MR!ListedIsAccepted
<1> SUFFICES ASSUME MR!IInv, NEW m \in MR!EffectiveCatalog, m.repo \notin SeedRepos
             PROVE  MR!ValidateRunRequest(m.repo, m.backend)
  BY DEF MR!ListedIsAccepted
<1>1. PICK e \in registry : m = [repo |-> e.repo, backend |-> e.backend]
  BY DEF MR!EffectiveCatalog, MR!Seeds
<1>2. m.repo = e.repo /\ m.backend = e.backend
  BY <1>1
<1>3. {x \in registry : x.repo = m.repo} = {e}
  BY <1>2 DEF MR!IInv, MR!OneEntry
<1>4. MR!FindByModelId(m.repo) = {m.backend}
  BY <1>2, <1>3 DEF MR!FindByModelId
<1> QED
  BY <1>4 DEF MR!ValidateRunRequest

-----------------------------------------------------------------------------
(* The theorems                                                            *)

\* What the two invariants say of the composition.
LEMMA RowsFromInvariant == PM!IInv /\ MR!IInv => TasksTypeOK /\ RowsAreRight
<1>1. PM!IInv /\ MR!IInv => PM!TypeOK /\ MR!TypeOK
  BY DEF PM!IInv, MR!IInv
<1> QED
  BY <1>1, PostMortemExplains, RegistryListed DEF TasksTypeOK, RowsAreRight

\* The two inductive invariants hold in every reachable state.
THEOREM Invariance == TasksSpec => [](PM!IInv /\ MR!IInv)
<1>1. TasksInit => PM!IInv /\ MR!IInv
  BY PostMortemInit, RegistryInit DEF TasksInit
<1>2. PM!IInv /\ MR!IInv /\ [TasksNext]_taskVars => PM!IInv' /\ MR!IInv'
  <2> SUFFICES ASSUME PM!IInv, MR!IInv, [TasksNext]_taskVars
               PROVE  PM!IInv' /\ MR!IInv'
    OBVIOUS
  <2>p. UNCHANGED pmVars => UNCHANGED PM!vars
    BY DEF pmVars, PM!vars, PM!rowVars, PM!taskVars
  <2>m. UNCHANGED mrVars => UNCHANGED MR!vars
    BY DEF mrVars, MR!vars
  <2>1. CASE PM!Next /\ UNCHANGED mrVars
    BY <2>1, <2>m, PostMortemStep, RegistryStep
  <2>2. CASE MR!Next /\ UNCHANGED pmVars
    BY <2>2, <2>p, PostMortemStep, RegistryStep
  <2>3. CASE UNCHANGED taskVars
    <3>1. UNCHANGED pmVars /\ UNCHANGED mrVars
      BY <2>3 DEF taskVars
    <3> QED
      BY <3>1, <2>m, <2>p, PostMortemStep, RegistryStep
  <2> QED
    BY <2>1, <2>2, <2>3 DEF TasksNext
<1> QED
  BY <1>1, <1>2, PTL DEF TasksSpec

\* No task, restart or user leaves the types.
THEOREM TasksAreTyped == TasksSpec => []TasksTypeOK
BY Invariance, RowsFromInvariant, PTL

\* A run's post-mortem is about the failure the run shows, and a checkpoint the
\* catalog lists is accepted with its backend: whatever tasks overlapped, rows were
\* deleted or restarts came between (_post_mortem_task, run_download_job,
\* validate_run_request).
THEOREM RowsStayRight == TasksSpec => []RowsAreRight
BY Invariance, RowsFromInvariant, PTL
=============================================================================
