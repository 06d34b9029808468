-------------------------- MODULE MCStreamsProofs --------------------------
(***************************************************************************)
(* The proofs about the event streams of MCStreams: the jobs and their     *)
(* clients, the agents, the research report and the conversation, each     *)
(* with its inductive invariant, and then all of them.                     *)
(***************************************************************************)
EXTENDS MCStreams, Integers, SequenceTheorems, FiniteSetTheorems, WellFoundedInduction, TLAPS

-----------------------------------------------------------------------------
(* Sequences of events, and the registry                                   *)

\* Adding a larger element keeps a sequence increasing.
LEMMA IncreasingAppend ==
  ASSUME NEW s \in Seq(Int), Increasing(s), NEW e \in Int, \A n \in DOMAIN s : s[n] < e
  PROVE  Increasing(Append(s, e))
<1>1. Append(s, e) \in Seq(Int) /\ Len(Append(s, e)) = Len(s) + 1
  BY AppendProperties
<1>2. /\ \A n \in 1 .. Len(s) : Append(s, e)[n] = s[n]
      /\ Append(s, e)[Len(s) + 1] = e
  BY AppendProperties
<1>3. Len(s) \in Nat /\ DOMAIN s = 1 .. Len(s) /\ DOMAIN Append(s, e) = 1 .. Len(s) + 1
  BY <1>1, LenProperties
<1> QED
  BY <1>1, <1>2, <1>3 DEF Increasing

\* The head and the tail of a sequence, position by position.
LEMMA HeadIsFirst ==
  ASSUME NEW S, NEW s \in Seq(S), s # <<>>
  PROVE  /\ Len(s) \in Nat \ {0} /\ Head(s) = s[1] /\ DOMAIN s = 1 .. Len(s)
         /\ Tail(s) \in Seq(S) /\ Len(Tail(s)) = Len(s) - 1 /\ DOMAIN Tail(s) = 1 .. Len(s) - 1
         /\ \A n \in 1 .. Len(s) - 1 : Tail(s)[n] = s[n + 1]
<1>1. Len(s) \in Nat \ {0} /\ DOMAIN s = 1 .. Len(s)
  BY EmptySeq, LenProperties
<1>2. Tail(s) \in Seq(S) /\ Len(Tail(s)) = Len(s) - 1
  BY HeadTailProperties
<1>3. \A n \in 1 .. Len(s) - 1 : Tail(s)[n] = s[n + 1]
  BY <1>2, HeadTailProperties
<1>4. DOMAIN Tail(s) = 1 .. Len(s) - 1
  BY <1>2, LenProperties
<1>5. Head(s) = s[1]
  OBVIOUS
<1> QED
  BY <1>1, <1>2, <1>3, <1>4, <1>5

\* Taking the head off keeps a sequence increasing.
LEMMA IncreasingTail ==
  ASSUME NEW s \in Seq(Int), Increasing(s), s # <<>>
  PROVE  Increasing(Tail(s))
<1>1. /\ Len(s) \in Nat \ {0} /\ DOMAIN s = 1 .. Len(s) /\ DOMAIN Tail(s) = 1 .. Len(s) - 1
      /\ \A n \in 1 .. Len(s) - 1 : Tail(s)[n] = s[n + 1]
  BY HeadIsFirst
<1>2. ASSUME NEW m \in 1 .. Len(s) - 1, NEW n \in 1 .. Len(s) - 1, m < n
      PROVE  Tail(s)[m] < Tail(s)[n]
  <2>1. m + 1 \in 1 .. Len(s) /\ n + 1 \in 1 .. Len(s) /\ m + 1 < n + 1
    BY <1>1, <1>2
  <2>2. s[m + 1] < s[n + 1]
    BY <1>1, <2>1 DEF Increasing
  <2> QED
    BY <1>1, <2>2
<1> QED
  BY <1>1, <1>2 DEF Increasing

\* A suffix stays one when both sequences get the same element.
LEMMA EndsWithAppend ==
  ASSUME NEW S, NEW s \in Seq(S), NEW t \in Seq(S), NEW e \in S, EndsWith(s, t)
  PROVE  EndsWith(Append(s, e), Append(t, e))
<1>1. /\ Len(s) \in Nat /\ Len(t) \in Nat
      /\ Len(Append(s, e)) = Len(s) + 1 /\ Len(Append(t, e)) = Len(t) + 1
  BY LenProperties, AppendProperties
<1>2. /\ \A n \in 1 .. Len(s) : Append(s, e)[n] = s[n]
      /\ \A n \in 1 .. Len(t) : Append(t, e)[n] = t[n]
      /\ Append(s, e)[Len(s) + 1] = e /\ Append(t, e)[Len(t) + 1] = e
  BY AppendProperties
<1> QED
  BY <1>1, <1>2, SMTT(30) DEF EndsWith

\* A suffix without its head is a suffix.
LEMMA EndsWithTail ==
  ASSUME NEW S, NEW s \in Seq(S), NEW t \in Seq(S), s # <<>>, EndsWith(s, t)
  PROVE  EndsWith(Tail(s), t)
<1>1. /\ Len(s) \in Nat \ {0} /\ Len(t) \in Nat /\ Len(Tail(s)) = Len(s) - 1
      /\ \A n \in 1 .. Len(s) - 1 : Tail(s)[n] = s[n + 1]
  BY HeadIsFirst, LenProperties
<1> QED
  BY <1>1 DEF EndsWith

\* A bounded queue that takes an event holds at most QueueMax, still ends like
\* the sequence the event is added to, and has no event from elsewhere.
LEMMA OfferKeeps ==
  ASSUME NEW q \in Seq(Events), Len(q) <= QueueMax, NEW e \in Events
  PROVE  /\ Offer(q, e) \in Seq(Events) /\ Len(Offer(q, e)) <= QueueMax
         /\ Offer(q, e) # <<>>
         /\ \A t \in Seq(Events) : EndsWith(q, t) => EndsWith(Offer(q, e), Append(t, e))
         /\ \A n \in DOMAIN Offer(q, e) : Offer(q, e)[n] = e \/ \E m \in DOMAIN q : Offer(q, e)[n] = q[m]
<1>1. CASE Len(q) < QueueMax
  <2>1. Offer(q, e) = Append(q, e)
    BY <1>1 DEF Offer
  <2>2. /\ Append(q, e) \in Seq(Events) /\ Len(Append(q, e)) = Len(q) + 1 /\ Append(q, e) # <<>>
        /\ \A n \in 1 .. Len(q) : Append(q, e)[n] = q[n]
        /\ Append(q, e)[Len(q) + 1] = e
    BY AppendProperties
  <2>3. Len(q) \in Nat /\ DOMAIN q = 1 .. Len(q) /\ DOMAIN Append(q, e) = 1 .. Len(q) + 1
    BY <2>2, LenProperties
  <2>4. \A t \in Seq(Events) : EndsWith(q, t) => EndsWith(Append(q, e), Append(t, e))
    BY EndsWithAppend
  <2> QED
    BY <1>1, <2>1, <2>2, <2>3, <2>4, StreamAssumption
<1>2. CASE ~(Len(q) < QueueMax)
  <2>0. Len(q) \in Nat /\ Len(q) = QueueMax /\ q # <<>>
    BY <1>2, EmptySeq, LenProperties, StreamAssumption
  <2>1. Offer(q, e) = Append(Tail(q), e)
    BY <1>2 DEF Offer
  <2>2. /\ Tail(q) \in Seq(Events) /\ Len(Tail(q)) = Len(q) - 1 /\ DOMAIN q = 1 .. Len(q)
        /\ \A n \in 1 .. Len(q) - 1 : Tail(q)[n] = q[n + 1]
    BY <2>0, HeadIsFirst
  <2>3. /\ Append(Tail(q), e) \in Seq(Events) /\ Len(Append(Tail(q), e)) = Len(q)
        /\ Append(Tail(q), e) # <<>>
        /\ \A n \in 1 .. Len(q) - 1 : Append(Tail(q), e)[n] = Tail(q)[n]
        /\ Append(Tail(q), e)[Len(q)] = e
    BY <2>0, <2>2, AppendProperties
  <2>4. DOMAIN Append(Tail(q), e) = 1 .. Len(q)
    BY <2>3, LenProperties
  <2>5. \A t \in Seq(Events) : EndsWith(q, t) => EndsWith(Append(Tail(q), e), Append(t, e))
    BY <2>0, <2>2, EndsWithTail, EndsWithAppend
  <2>6. \A n \in 1 .. Len(q) - 1 : Append(Tail(q), e)[n] = q[n + 1] /\ n + 1 \in DOMAIN q
    BY <2>0, <2>2, <2>3
  <2>7. ASSUME NEW n \in 1 .. Len(q), n # Len(q)
        PROVE  \E m \in DOMAIN q : Append(Tail(q), e)[n] = q[m]
    <3>1. n \in 1 .. Len(q) - 1
      BY <2>0, <2>7
    <3>2. Append(Tail(q), e)[n] = q[n + 1] /\ n + 1 \in DOMAIN q
      BY <2>6, <3>1
    <3> QED
      BY <3>2
  <2> QED
    BY <2>0, <2>1, <2>3, <2>4, <2>5, <2>7, StreamAssumption
<1> QED
  BY <1>1, <1>2

\* A suffix of an increasing sequence is increasing and ends with its last.
LEMMA SuffixElements ==
  ASSUME NEW s \in Seq(Events), NEW t \in Seq(Events), EndsWith(s, t), Increasing(t), s # <<>>
  PROVE  /\ Increasing(s) /\ t # <<>> /\ s[Len(s)] = t[Len(t)]
         /\ \A n \in DOMAIN s : s[n] <= t[Len(t)]
<1>1. Len(s) \in Nat \ {0} /\ Len(t) \in Nat /\ DOMAIN s = 1 .. Len(s) /\ DOMAIN t = 1 .. Len(t)
  BY EmptySeq, LenProperties
<1>2. \A n \in 1 .. Len(s) : s[n] = t[Len(t) - Len(s) + n] /\ Len(t) - Len(s) + n \in 1 .. Len(t)
  BY <1>1 DEF EndsWith
<1>3. \A n \in 1 .. Len(t) : t[n] \in Int
  BY <1>1, ElementOfSeq, StreamAssumption DEF Events, End
<1>4. ASSUME NEW m \in DOMAIN s, NEW n \in DOMAIN s, m < n
      PROVE  s[m] < s[n]
  <2> DEFINE gap == Len(t) - Len(s)
  <2>1. gap + m \in DOMAIN t /\ gap + n \in DOMAIN t /\ gap + m < gap + n
    BY <1>1, <1>2, <1>4
  <2>2. t[gap + m] < t[gap + n]
    BY <2>1 DEF Increasing
  <2> QED
    BY <1>1, <1>2, <2>2
<1>5. \A n \in 1 .. Len(t) : t[n] <= t[Len(t)]
  BY <1>1, <1>3 DEF Increasing
<1> QED
  BY <1>1, <1>2, <1>4, <1>5, EmptySeq DEF Increasing

\* Pruning leaves at most MaxJobs jobs, whatever numbers they have.
LEMMA NewestBounded ==
  ASSUME NEW jobs \in SUBSET Jobs, IsFiniteSet(jobs)
  PROVE  /\ Newest(jobs) \subseteq jobs /\ IsFiniteSet(Newest(jobs))
         /\ Cardinality(Newest(jobs)) <= MaxJobs
<1>1. Newest(jobs) \subseteq jobs /\ IsFiniteSet(Newest(jobs))
  BY FS_Subset DEF Newest
<1>2. CASE Newest(jobs) = {}
  BY <1>1, <1>2, FS_EmptySet, StreamAssumption
<1>3. CASE Newest(jobs) # {}
  <2>1. PICK m \in Newest(jobs) : \A k \in Newest(jobs) : m <= k
    <3> DEFINE R == {ss \in Nat \X Nat : ss[1] < ss[2]}
    <3>1. IsWellFoundedOn(R, Nat)
      BY NatLessThanWellFounded DEF OpToRel
    <3>2. Newest(jobs) \subseteq Nat
      BY <1>1, StreamAssumption
    <3>3. PICK m \in Newest(jobs) : \A k \in Newest(jobs) : <<k, m>> \notin R
      <4> HIDE DEF R
      <4> QED
        BY <1>3, <3>1, <3>2, WFMin
    <3>4. ASSUME NEW k \in Newest(jobs)
          PROVE  m <= k
      <4>1. k \in Nat /\ m \in Nat /\ ~(k < m)
        BY <3>2, <3>3
      <4> QED
        BY <4>1
    <3> QED
      BY <3>4
  <2> DEFINE Later == {k \in jobs : k > m}
  <2>2. Newest(jobs) \subseteq Later \cup {m} /\ m \notin Later
    <3>1. ASSUME NEW k \in Newest(jobs), k # m
          PROVE  k \in jobs /\ k > m
      <4>1. k \in jobs /\ k \in Nat /\ m \in Nat /\ m <= k
        BY <1>1, <2>1, StreamAssumption
      <4> QED
        BY <3>1, <4>1
    <3>2. m \in Nat
      BY <1>1, StreamAssumption
    <3>3. Newest(jobs) \subseteq Later \cup {m}
      BY <3>1
    <3>4. m \notin Later
      BY <3>2
    <3> QED
      BY <3>3, <3>4
  <2>6. Cardinality(Later) < MaxJobs
    BY DEF Newest
  <2>3. IsFiniteSet(Later) /\ Cardinality(Later) \in Nat
    BY FS_Subset, FS_CardinalityType
  <2>4. IsFiniteSet(Later \cup {m}) /\ Cardinality(Later \cup {m}) = Cardinality(Later) + 1
    BY <2>2, <2>3, FS_AddElement
  <2>5. Cardinality(Newest(jobs)) <= Cardinality(Later \cup {m}) /\ Cardinality(Newest(jobs)) \in Nat
    BY <1>1, <2>2, <2>4, FS_Subset, FS_CardinalityType
  <2> HIDE DEF Later
  <2> QED
    BY <1>1, <2>2, <2>3, <2>4, <2>5, <2>6, StreamAssumption
<1> QED
  BY <1>2, <1>3

-----------------------------------------------------------------------------
(* Types                                                                   *)

\* What publish does to each job's events and each client's queue.
LEMMA PublishTypes ==
  ASSUME TypeOK, NEW j \in Jobs, NEW e \in Events, Publish(j, e)
  PROVE  /\ made' \in [Jobs -> Seq(Events)]
         /\ history' \in [Jobs -> Seq(Events)] /\ \A k \in Jobs : Len(history'[k]) <= QueueMax
         /\ queue' \in [Clients -> Seq(Events)] /\ \A c \in Clients : Len(queue'[c]) <= QueueMax
         /\ lagged' \subseteq Clients
         /\ made'[j] = Append(made[j], e) /\ history'[j] = Offer(history[j], e)
         /\ \A k \in Jobs : k # j => made'[k] = made[k] /\ history'[k] = history[k]
         /\ \A c \in Clients : IF c \in Subscribers(j) THEN queue'[c] = Offer(queue[c], e)
                                                       ELSE queue'[c] = queue[c]
<1>1. Append(made[j], e) \in Seq(Events)
  BY AppendProperties DEF TypeOK
<1>2. Offer(history[j], e) \in Seq(Events) /\ Len(Offer(history[j], e)) <= QueueMax
  BY OfferKeeps DEF TypeOK
<1>3. \A c \in Clients : Offer(queue[c], e) \in Seq(Events) /\ Len(Offer(queue[c], e)) <= QueueMax
  BY OfferKeeps DEF TypeOK
<1>4. made' \in [Jobs -> Seq(Events)] /\ made'[j] = Append(made[j], e)
      /\ \A k \in Jobs : k # j => made'[k] = made[k]
  BY <1>1 DEF Publish, TypeOK
<1>5. history' \in [Jobs -> Seq(Events)] /\ history'[j] = Offer(history[j], e)
      /\ \A k \in Jobs : k # j => history'[k] = history[k]
  BY <1>2 DEF Publish, TypeOK
<1>6. /\ queue' \in [Clients -> Seq(Events)]
      /\ \A c \in Clients : IF c \in Subscribers(j) THEN queue'[c] = Offer(queue[c], e)
                                                    ELSE queue'[c] = queue[c]
  BY <1>3 DEF Publish, TypeOK
<1>7. \A k \in Jobs : Len(history'[k]) <= QueueMax
  BY <1>2, <1>5 DEF TypeOK
<1>8. \A c \in Clients : Len(queue'[c]) <= QueueMax
  BY <1>3, <1>6 DEF TypeOK
<1>9. lagged' \subseteq Clients
  BY DEF Publish, TypeOK, Subscribers
<1> QED
  BY <1>4, <1>5, <1>6, <1>7, <1>8, <1>9

\* The oldest scheduled call of a job, and what is left behind it.
LEMMA HeadTyped ==
  ASSUME TypeOK, NEW j \in Jobs, calls[j] # <<>>
  PROVE  /\ Head(calls[j]) \in 1 .. Raised /\ Tail(calls[j]) \in Seq(1 .. Raised)
         /\ Head(calls[j]) < Done => Head(calls[j]) \in Events
<1>1. Head(calls[j]) \in 1 .. Raised /\ Tail(calls[j]) \in Seq(1 .. Raised)
  BY HeadTailProperties DEF TypeOK
<1> QED
  BY <1>1, StreamAssumption DEF Raised, Done, Events, End

\* TypeOK alone is not inductive: a turn publishes for the job it names, a stream
\* reads the history of its own.
Typing == TypeOK /\ HasJob

\* The initial states are typed.
LEMMA TypeInitially == Init => Typing
  BY FS_EmptySet, StreamAssumption, EmptySeq
  DEF Init, Typing, HasJob, TypeOK, NoTurn, NoSnap, Done, Statuses, JobStatus

\* Every step keeps the types.
LEMMA TypeStep ==
  ASSUME Typing, [Next]_vars
  PROVE  Typing'
<1> USE DEF Typing, HasJob, jobVars, streamVars
<1>0. 0 \in Events /\ End \in Events /\ 0 \in 0 .. Done /\ MaxReports \in Nat /\ NoJob \notin Jobs
  BY StreamAssumption DEF Events, End, Done
<1>1. ASSUME NEW j \in Jobs, StartJob(j)
      PROVE  Typing'
  <2>0. IsFiniteSet(registry) /\ registry \subseteq Jobs
    BY DEF TypeOK
  <2>1. IsFiniteSet(registry \cup {j}) /\ registry \cup {j} \in SUBSET Jobs
    BY <2>0, FS_AddElement
  <2>2. registry' \subseteq Jobs /\ IsFiniteSet(registry') /\ Cardinality(registry') <= MaxJobs
    BY <1>1, <2>1, NewestBounded DEF StartJob
  <2> QED
    BY <1>1, <2>2 DEF StartJob, TypeOK, Statuses, JobStatus
<1>2. ASSUME NEW j \in Jobs, SourceVanished(j)
      PROVE  Typing'
  <2>1. Publish(j, End)
    BY <1>2 DEF SourceVanished
  <2> QED
    BY <1>0, <1>2, <2>1, PublishTypes DEF SourceVanished, TypeOK, Statuses
<1>3. ASSUME NEW j \in Jobs, BeginJob(j)
      PROVE  Typing'
  <2>1. Publish(j, 0)
    BY <1>3 DEF BeginJob
  <2>2. status' \in [Jobs -> Statuses]
    BY <1>3 DEF BeginJob, TypeOK, Statuses, JobStatus
  <2>3. thread' \in [Jobs -> 0 .. Done]
    BY <1>0, <1>3, ZenonT(30) DEF BeginJob, TypeOK
  <2>4. /\ turn' \in [job : Jobs \cup {NoJob},
                      next : {"none", "result", "completed", "failed", "error", "publish"}]
        /\ turn'.job = NoJob <=> turn'.next = "none"
    BY <1>0, <1>3 DEF BeginJob, TypeOK
  <2> QED
    BY <1>0, <1>3, <2>1, <2>2, <2>3, <2>4, PublishTypes DEF BeginJob, TypeOK
<1>4. ASSUME NEW j \in Jobs, ThreadReports(j)
      PROVE  Typing'
  <2>1. thread[j] \in 0 .. Done /\ thread[j] < MaxReports /\ thread'[j] = thread[j] + 1
    BY <1>4 DEF ThreadReports, TypeOK
  <2>3. thread'[j] \in 0 .. Done /\ thread'[j] \in 1 .. Raised
    BY <1>0, <2>1 DEF Done, Raised
  <2>4. thread' \in [Jobs -> 0 .. Done]
    BY <1>4, <2>1, <2>3 DEF ThreadReports, TypeOK
  <2>2. Append(calls[j], thread'[j]) \in Seq(1 .. Raised)
    BY <2>3, AppendProperties DEF TypeOK
  <2> QED
    BY <1>4, <2>2, <2>4 DEF ThreadReports, TypeOK
<1>5. ASSUME NEW j \in Jobs, ThreadReturns(j)
      PROVE  Typing'
  <2>1. \A r \in {Done, Raised} : Append(calls[j], r) \in Seq(1 .. Raised)
    <3>1. Done \in 1 .. Raised /\ Raised \in 1 .. Raised
      BY <1>0 DEF Done, Raised
    <3> QED
      BY <3>1, AppendProperties DEF TypeOK
  <2>2. calls' \in [Jobs -> Seq(1 .. Raised)]
    BY <1>5, <2>1 DEF ThreadReturns, TypeOK
  <2>3. thread' \in [Jobs -> 0 .. Done]
    BY <1>0, <1>5 DEF ThreadReturns, TypeOK, Done
  <2> QED
    BY <1>5, <2>2, <2>3 DEF ThreadReturns, TypeOK
<1>6. ASSUME NEW j \in Jobs, RunReport(j)
      PROVE  Typing'
  <2>1. Publish(j, Head(calls[j])) /\ Head(calls[j]) \in Events /\ Tail(calls[j]) \in Seq(1 .. Raised)
    BY <1>6, HeadTyped DEF RunReport
  <2>2. calls' \in [Jobs -> Seq(1 .. Raised)]
    BY <1>6, <2>1 DEF RunReport, TypeOK
  <2> HIDE DEF Events
  <2> QED
    BY <1>6, <2>1, <2>2, PublishTypes DEF RunReport, TypeOK
<1>7. ASSUME NEW j \in Jobs, WakeJob(j)
      PROVE  Typing'
  <2>1. calls' \in [Jobs -> Seq(1 .. Raised)]
    BY <1>7, HeadTyped DEF WakeJob, TypeOK
  <2>2. /\ turn' \in [job : Jobs \cup {NoJob},
                      next : {"none", "result", "completed", "failed", "error", "publish"}]
        /\ turn'.job \in Jobs /\ turn'.next # "none"
    BY <1>7 DEF WakeJob
  <2> QED
    BY <1>0, <1>7, <2>1, <2>2 DEF WakeJob, TypeOK
<1>8. ASSUME EndTurn
      PROVE  Typing'
  <2>1. CASE SetField /\ UNCHANGED <<registry, thread, calls, history, made, streamVars, snap>>
    <3>1. /\ turn' \in [job : Jobs \cup {NoJob},
                        next : {"none", "result", "completed", "failed", "error", "publish"}]
          /\ turn'.job = NoJob <=> turn'.next = "none"
      BY <2>1 DEF SetField, Then, TypeOK
    <3>2. filled' \in [Jobs -> SUBSET {"result", "error"}]
      BY <2>1, SMTT(30) DEF SetField, TypeOK
    <3>3. status' \in [Jobs -> Statuses]
      BY <2>1 DEF SetField, TypeOK, Statuses, JobStatus
    <3> QED
      BY <2>1, <3>1, <3>2, <3>3 DEF TypeOK
  <2>2. CASE turn.next = "publish" /\ Publish(turn.job, End) /\ turn' = NoTurn
             /\ UNCHANGED <<registry, status, filled, thread, calls, phase, of, terminal, got, snap>>
    <3>1. turn.job \in Jobs
      BY <2>2 DEF TypeOK
    <3> QED
      BY <1>0, <2>2, <3>1, PublishTypes DEF TypeOK, NoTurn
  <2> QED
    BY <1>8, <2>1, <2>2 DEF EndTurn
<1>9. ASSUME NEW c \in Clients, NEW j \in Jobs, OpenStream(c, j)
      PROVE  Typing'
  BY <1>9 DEF OpenStream, TypeOK
<1>10. ASSUME NEW c \in Clients, Subscribe(c)
       PROVE  Typing'
  <2>1. history[of[c]] \in Seq(Events) /\ Len(history[of[c]]) <= QueueMax
    BY <1>10 DEF Subscribe, TypeOK
  <2>2. queue' \in [Clients -> Seq(Events)] /\ \A d \in Clients : Len(queue'[d]) <= QueueMax
    BY <1>10, <2>1 DEF Subscribe, TypeOK
  <2>3. /\ phase' \in [Clients -> {"none", "opened", "reading", "closed", "gone"}]
        /\ \A d \in Clients : phase'[d] # "none" => phase[d] # "none"
        /\ terminal' \in [Clients -> BOOLEAN] /\ lagged' \subseteq Clients
    BY <1>10, SMTT(30) DEF Subscribe, TypeOK
  <2> QED
    BY <1>10, <2>2, <2>3 DEF Subscribe, TypeOK
<1>11. ASSUME NEW c \in Clients, Deliver(c)
       PROVE  Typing'
  <2>1. phase[c] = "reading" /\ queue[c] # <<>> /\ queue[c] \in Seq(Events) /\ got[c] \in Seq(Events)
    BY <1>11 DEF Deliver, TypeOK
  <2>2. /\ Head(queue[c]) \in Events /\ Tail(queue[c]) \in Seq(Events)
        /\ Len(Tail(queue[c])) <= QueueMax /\ Append(got[c], Head(queue[c])) \in Seq(Events)
    BY <2>1, HeadTailProperties, AppendProperties, LenProperties, StreamAssumption DEF TypeOK
  <2>3. <<>> \in Seq(Events) /\ Len(<<>>) <= QueueMax
    BY EmptySeq, StreamAssumption
  <2>4. got' \in [Clients -> Seq(Events)]
    BY <1>11, <2>2 DEF Deliver, TypeOK
  <2>5. /\ queue' \in [Clients -> Seq(Events)] /\ \A d \in Clients : Len(queue'[d]) <= QueueMax
        /\ phase' \in [Clients -> {"none", "opened", "reading", "closed", "gone"}]
        /\ \A d \in Clients : phase'[d] # "none" => phase[d] # "none"
    <3>1. CASE Leave(c, "closed")
      BY <2>1, <2>3, <3>1 DEF Leave, TypeOK
    <3>2. CASE queue' = [queue EXCEPT ![c] = Tail(queue[c])] /\ UNCHANGED phase
      BY <2>2, <3>2 DEF TypeOK
    <3> QED
      BY <1>11, <3>1, <3>2 DEF Deliver
  <2> QED
    BY <1>11, <2>4, <2>5 DEF Deliver, TypeOK
<1>12. ASSUME NEW c \in Clients, GetTimesOut(c)
       PROVE  Typing'
  <2>1. <<>> \in Seq(Events) /\ Len(<<>>) <= QueueMax
    BY EmptySeq, StreamAssumption
  <2>2. CASE Leave(c, "closed")
    BY <1>12, <2>1, <2>2 DEF GetTimesOut, Leave, TypeOK
  <2>3. CASE UNCHANGED <<phase, queue>>
    BY <1>12, <2>3 DEF GetTimesOut, TypeOK
  <2> QED
    BY <1>12, <2>2, <2>3 DEF GetTimesOut
<1>13. ASSUME NEW c \in Clients, Disconnect(c)
       PROVE  Typing'
  <2>1. <<>> \in Seq(Events) /\ Len(<<>>) <= QueueMax
    BY EmptySeq, StreamAssumption
  <2> QED
    BY <1>13, <2>1 DEF Disconnect, Leave, TypeOK
<1>14. CASE ReadStatus
  BY <1>14, SMTT(30) DEF ReadStatus, TypeOK
<1>15. CASE ReadFields
  BY <1>15 DEF ReadFields, TypeOK, NoSnap, Statuses
<1>16. CASE UNCHANGED vars
  BY <1>16 DEF vars, TypeOK
<1> QED
  BY <1>1, <1>2, <1>3, <1>4, <1>5, <1>6, <1>7, <1>8, <1>9, <1>10, <1>11, <1>12, <1>13, <1>14,
     <1>15, <1>16 DEF Next, UserStep, JobStep, StreamStep

\* The types, and the jobs that turns and streams name.
LEMMA TypingInvariant == Spec => []Typing
  BY TypeInitially, TypeStep, PTL DEF Spec

\* Every variable keeps its type, the registry is finite and within MaxJobs, the
\* history and the queues within QueueMax (_QUEUE_MAX, _MAX_JOBS).
THEOREM TypeInvariant == Spec => []TypeOK
<1>1. Typing => TypeOK
  BY DEF Typing
<1> QED
  BY <1>1, TypingInvariant, PTL

-----------------------------------------------------------------------------
(* Jobs                                                                    *)

\* Events and calls are integers, so their sequences are sequences of integers.
LEMMA IntSeq ==
  /\ Events \subseteq Int /\ 1 .. Raised \subseteq Int
  /\ \A s : s \in Seq(Events) \/ s \in Seq(1 .. Raised) => s \in Seq(Int)
<1>1. Events \subseteq Int /\ 1 .. Raised \subseteq Int
  BY StreamAssumption DEF Events, End, Raised, Done
<1>2. ASSUME NEW S, S \subseteq Int, NEW s \in Seq(S)
      PROVE  s \in Seq(Int)
  BY <1>2, SeqMonotonic
<1> QED
  BY <1>1, <1>2

\* A published event newer than its job's others is the last of an increasing
\* sequence, and the history stays its suffix.
LEMMA NewEvent ==
  ASSUME TypeOK, NEW j \in Jobs, NEW e \in Events, Publish(j, e),
         Increasing(made[j]), HistoryIsRecent(j), \A n \in DOMAIN made[j] : made[j][n] < e
  PROVE  /\ made'[j] = Append(made[j], e) /\ Len(made[j]) \in Nat
         /\ DOMAIN made[j] = 1 .. Len(made[j])
         /\ DOMAIN made'[j] = 1 .. Len(made[j]) + 1 /\ Len(made'[j]) = Len(made[j]) + 1
         /\ \A n \in 1 .. Len(made[j]) : made'[j][n] = made[j][n]
         /\ made'[j][Len(made[j]) + 1] = e /\ made'[j] # <<>>
         /\ Increasing(made'[j]) /\ \A n \in DOMAIN made'[j] : made'[j][n] <= e
         /\ Ended(j)' <=> e = End
         /\ HistoryIsRecent(j)'
<1>1. made[j] \in Seq(Events) /\ history[j] \in Seq(Events) /\ Len(history[j]) <= QueueMax
  BY DEF TypeOK
<1>2. made'[j] = Append(made[j], e) /\ history'[j] = Offer(history[j], e)
  BY PublishTypes
<1>3. /\ Len(made[j]) \in Nat /\ DOMAIN made[j] = 1 .. Len(made[j])
      /\ made'[j] \in Seq(Events) /\ Len(made'[j]) = Len(made[j]) + 1
      /\ \A n \in 1 .. Len(made[j]) : made'[j][n] = made[j][n]
      /\ made'[j][Len(made[j]) + 1] = e
  BY <1>1, <1>2, AppendProperties, LenProperties
<1>4. DOMAIN made'[j] = 1 .. Len(made[j]) + 1 /\ made'[j] # <<>>
  BY <1>3, LenProperties, EmptySeq
<1>5. Events \subseteq Int /\ made[j] \in Seq(Int) /\ e \in Int
  BY <1>1, IntSeq
<1>6. Increasing(made'[j])
  BY <1>2, <1>5, IncreasingAppend
<1>7. \A n \in DOMAIN made'[j] : made'[j][n] <= e
  <2>1. \A n \in 1 .. Len(made[j]) : made[j][n] \in Int /\ made[j][n] < e
    BY <1>1, <1>3, <1>5, ElementOfSeq
  <2>2. ASSUME NEW n \in DOMAIN made'[j]
        PROVE  made'[j][n] <= e
    <3>1. CASE n \in 1 .. Len(made[j])
      BY <1>3, <1>5, <2>1, <3>1
    <3>2. CASE n = Len(made[j]) + 1
      BY <1>3, <1>5, <3>2
    <3> QED
      BY <1>3, <1>4, <3>1, <3>2
  <2> QED
    BY <2>2
<1>8. Ended(j)' <=> e = End
  BY <1>3, <1>4 DEF Ended
<1>9. HistoryIsRecent(j)'
  BY <1>1, <1>2, OfferKeeps DEF HistoryIsRecent
<1> QED
  BY <1>2, <1>3, <1>4, <1>6, <1>7, <1>8, <1>9

\* The events of a job that has not ended come before the closing one.
LEMMA BelowEnd ==
  ASSUME TypeOK, NEW j \in Jobs, Increasing(made[j]), ~Ended(j)
  PROVE  \A n \in DOMAIN made[j] : made[j][n] < End
<1>1. made[j] \in Seq(Events) /\ Len(made[j]) \in Nat /\ DOMAIN made[j] = 1 .. Len(made[j])
  BY LenProperties DEF TypeOK
<1>2. ASSUME NEW n \in DOMAIN made[j]
      PROVE  made[j][n] < End
  <2>1. made[j] # <<>> /\ Len(made[j]) \in DOMAIN made[j]
    BY <1>1, EmptySeq
  <2>2. made[j][Len(made[j])] \in Events /\ made[j][n] \in Events /\ made[j][Len(made[j])] # End
    BY <1>1, <2>1, ElementOfSeq DEF Ended
  <2>3. made[j][Len(made[j])] < End
    BY <2>2, StreamAssumption DEF Events, End
  <2>4. n = Len(made[j]) \/ made[j][n] < made[j][Len(made[j])]
    BY <1>1, <2>1 DEF Increasing
  <2> QED
    BY <2>2, <2>3, <2>4, StreamAssumption DEF Events, End
<1> QED
  BY <1>2

\* The invariant of one job.
JobIsSound(j) == JobPhase(j) /\ JobLine(j) /\ HistoryIsRecent(j)

\* A step that leaves a job's variables alone keeps its invariant.
LEMMA JobKept ==
  ASSUME NEW k \in Jobs, JobIsSound(k),
         status'[k] = status[k], filled'[k] = filled[k], thread'[k] = thread[k],
         calls'[k] = calls[k], made'[k] = made[k], history'[k] = history[k],
         turn'.job = k <=> turn.job = k
  PROVE  JobIsSound(k)'
<1>1. JobPhase(k)'
  BY DEF JobIsSound, JobPhase, Ended
<1>2. JobLine(k)'
  BY DEF JobIsSound, JobLine
<1>3. HistoryIsRecent(k)'
  BY DEF JobIsSound, HistoryIsRecent
<1> QED
  BY <1>1, <1>2, <1>3 DEF JobIsSound

\* The empty sequence is increasing and comes before and after every other.
LEMMA EmptyLine == /\ DOMAIN <<>> = {} /\ Len(<<>>) = 0 /\ Increasing(<<>>)
                   /\ \A s : Below(s, <<>>) /\ Below(<<>>, s)
  BY DEF Increasing, Below

\* A new event of a job that has not ended leaves the other jobs alone.
LEMMA OthersPublish ==
  ASSUME TypeOK, NEW j \in Jobs, NEW e \in Events, Publish(j, e), NEW k \in Jobs, k # j
  PROVE  made'[k] = made[k] /\ history'[k] = history[k]
  BY PublishTypes

\* What the proof about jobs needs, the streams aside.
JobsInv == Typing /\ JobsAreSound

\* Every step keeps the jobs sound: the publishes of the loop, what the thread
\* schedules, and the assignments at the end of the coroutine one at a time.
LEMMA JobsStep ==
  ASSUME JobsInv, [Next]_vars
  PROVE  JobsAreSound'
<1> USE DEF jobVars, streamVars
<1>t. /\ TypeOK /\ HasJob /\ TurnPhase /\ \A k \in Jobs : JobIsSound(k)
      /\ NoJob \notin Jobs /\ 0 \in Events /\ End \in Events /\ End = Done /\ 0 # End
      /\ 0 < Done /\ MaxReports \in Nat /\ Done = MaxReports + 1
  BY StreamAssumption DEF JobsInv, Typing, JobsAreSound, JobIsSound, Events, End, Done
<1> SUFFICES TurnPhase' /\ \A k \in Jobs : JobIsSound(k)'
  BY DEF JobsAreSound, JobIsSound
<1>1. ASSUME NEW j \in Jobs, StartJob(j)
      PROVE  TurnPhase' /\ \A k \in Jobs : JobIsSound(k)'
  <2>1. /\ turn = NoTurn /\ turn' = NoTurn /\ status[j] = "none" /\ status'[j] = "queued"
        /\ \A k \in Jobs : k # j => status'[k] = status[k]
        /\ UNCHANGED <<filled, thread, calls, history, made>>
    BY <1>t, <1>1 DEF StartJob, LoopFree, Started, TypeOK
  <2>2. TurnPhase'
    BY <2>1 DEF TurnPhase, NoTurn
  <2>3. JobIsSound(j)'
    <3>1. JobIsSound(j) /\ turn.job # j
      BY <1>t, <2>1 DEF NoTurn
    <3>2. JobPhase(j)'
      BY <2>1, <3>1, <1>t DEF JobIsSound, JobPhase, Ended, NoTurn
    <3>3. JobLine(j)' /\ HistoryIsRecent(j)'
      BY <2>1, <3>1 DEF JobIsSound, JobLine, HistoryIsRecent
    <3> QED
      BY <3>2, <3>3 DEF JobIsSound
  <2>4. \A k \in Jobs : k # j => JobIsSound(k)'
    BY <1>t, <2>1, JobKept
  <2> QED
    BY <2>2, <2>3, <2>4
<1>2. ASSUME NEW j \in Jobs, SourceVanished(j)
      PROVE  TurnPhase' /\ \A k \in Jobs : JobIsSound(k)'
  <2>1. /\ turn = NoTurn /\ turn' = NoTurn /\ status[j] = "queued" /\ status'[j] = "error"
        /\ \A k \in Jobs : k # j => status'[k] = status[k] /\ filled'[k] = filled[k]
        /\ UNCHANGED <<thread, calls>> /\ Publish(j, End)
    BY <1>t, <1>2 DEF SourceVanished, LoopFree, TypeOK
  <2>2. TurnPhase'
    BY <2>1 DEF TurnPhase, NoTurn
  <2>3. JobIsSound(j)'
    <3>1. /\ JobIsSound(j) /\ turn.job # j /\ turn'.job # j
          /\ made[j] = <<>> /\ calls[j] = <<>> /\ thread[j] = Done
      BY <1>t, <2>1 DEF NoTurn, JobIsSound, JobPhase
    <3>2. /\ Increasing(made'[j]) /\ Ended(j)' /\ HistoryIsRecent(j)'
      BY <1>t, <2>1, <3>1, NewEvent, EmptyLine DEF JobIsSound
    <3>3. JobPhase(j)'
      BY <2>1, <3>1, <3>2 DEF JobPhase
    <3>4. JobLine(j)'
      BY <2>1, <3>1, <3>2, EmptyLine DEF JobLine
    <3> QED
      BY <3>2, <3>3, <3>4 DEF JobIsSound
  <2>4. \A k \in Jobs : k # j => JobIsSound(k)'
    BY <1>t, <2>1, OthersPublish, JobKept
  <2> QED
    BY <2>2, <2>3, <2>4
<1>3. ASSUME NEW j \in Jobs, BeginJob(j)
      PROVE  TurnPhase' /\ \A k \in Jobs : JobIsSound(k)'
  <2>1. /\ turn = NoTurn /\ status[j] = "queued" /\ status'[j] = "running"
        /\ \A k \in Jobs : k # j => status'[k] = status[k] /\ thread'[k] = thread[k]
        /\ UNCHANGED <<filled, calls>> /\ Publish(j, 0)
        /\ \/ thread'[j] = 0 /\ turn' = NoTurn
           \/ thread'[j] = thread[j] /\ turn' = [job |-> j, next |-> "failed"]
    BY <1>t, <1>3 DEF BeginJob, LoopFree, TypeOK
  <2>2. TurnPhase'
    BY <2>1 DEF TurnPhase, NoTurn
  <2>3. JobIsSound(j)'
    <3>1. /\ JobIsSound(j) /\ turn.job # j
          /\ made[j] = <<>> /\ calls[j] = <<>> /\ thread[j] = Done
      BY <1>t, <2>1 DEF NoTurn, JobIsSound, JobPhase
    <3>2. /\ Increasing(made'[j]) /\ ~Ended(j)' /\ HistoryIsRecent(j)'
          /\ \A n \in DOMAIN made'[j] : made'[j][n] <= 0
      BY <1>t, <2>1, <3>1, NewEvent, EmptyLine DEF JobIsSound
    <3>3. JobPhase(j)'
      BY <1>t, <2>1, <3>1, <3>2 DEF JobPhase, NoTurn
    <3>4. JobLine(j)'
      BY <1>t, <2>1, <3>1, <3>2, EmptyLine DEF JobLine
    <3> QED
      BY <3>2, <3>3, <3>4 DEF JobIsSound
  <2>4. \A k \in Jobs : k # j => JobIsSound(k)'
    BY <1>t, <2>1, OthersPublish, JobKept DEF NoTurn
  <2> QED
    BY <2>2, <2>3, <2>4
<1>4. ASSUME NEW j \in Jobs, ThreadReports(j) \/ ThreadReturns(j)
      PROVE  TurnPhase' /\ \A k \in Jobs : JobIsSound(k)'
  <2>1. /\ thread[j] \in 0 .. MaxReports
        /\ \A k \in Jobs : k # j => calls'[k] = calls[k] /\ thread'[k] = thread[k]
        /\ UNCHANGED <<status, filled, history, made, turn>>
    BY <1>t, <1>4, SMTT(30) DEF ThreadReports, ThreadReturns, TypeOK
  <2>2. TurnPhase'
    BY <1>t, <2>1 DEF TurnPhase
  <2>3. PICK e \in 1 .. Raised :
          /\ calls'[j] = Append(calls[j], e) /\ thread[j] < e
          /\ \/ e < Done /\ thread'[j] = e
             \/ e >= Done /\ thread'[j] = Done
    <3>1. CASE ThreadReports(j)
      <4>1. thread'[j] = thread[j] + 1 /\ calls'[j] = Append(calls[j], thread'[j])
            /\ thread[j] < MaxReports
        BY <1>t, <3>1 DEF ThreadReports, TypeOK
      <4>2. thread'[j] \in 1 .. Raised /\ thread[j] < thread'[j] /\ thread'[j] < Done
        BY <1>t, <2>1, <4>1 DEF Raised
      <4> QED
        BY <4>1, <4>2, Zenon
    <3>2. CASE ThreadReturns(j)
      <4>1. PICK e \in {Done, Raised} : calls' = [calls EXCEPT ![j] = Append(@, e)]
        BY <3>2 DEF ThreadReturns
      <4>2. thread'[j] = Done /\ calls'[j] = Append(calls[j], e)
        BY <1>t, <3>2, <4>1 DEF ThreadReturns, TypeOK
      <4>3. e \in 1 .. Raised /\ e >= Done /\ thread[j] < e
        BY <1>t, <2>1, <4>1 DEF Raised
      <4> QED
        BY <4>2, <4>3
    <3> QED
      BY <1>4, <3>1, <3>2
  <2>4. JobIsSound(j)'
    <3>1. /\ JobIsSound(j) /\ status[j] = "running" /\ turn.job # j
          /\ thread[j] # Done
      BY <1>t, <2>1 DEF JobIsSound, JobPhase
    <3>2. JobPhase(j)'
      BY <2>1, <3>1 DEF JobIsSound, JobPhase, Ended
    <3>3. /\ calls[j] \in Seq(1 .. Raised) /\ Len(calls[j]) \in Nat /\ DOMAIN calls[j] = 1 .. Len(calls[j])
          /\ calls[j] \in Seq(Int) /\ e \in Int
          /\ \A n \in DOMAIN calls[j] : calls[j][n] \in Int
      BY <1>t, LenProperties, ElementOfSeq, IntSeq DEF TypeOK, Raised
    <3>4. /\ DOMAIN calls'[j] = 1 .. Len(calls[j]) + 1 /\ Len(calls'[j]) = Len(calls[j]) + 1
          /\ \A n \in DOMAIN calls[j] : calls'[j][n] = calls[j][n]
          /\ calls'[j][Len(calls[j]) + 1] = e
      BY <2>3, <3>3, AppendProperties, LenProperties
    <3>5. /\ \A n \in DOMAIN calls[j] : calls[j][n] <= thread[j] /\ calls[j][n] < e
          /\ \A n \in DOMAIN made[j] : made[j][n] <= thread[j] /\ made[j][n] \in Int
      <4>1. /\ \A n \in DOMAIN calls[j] : calls[j][n] <= thread[j]
            /\ \A n \in DOMAIN made[j] : made[j][n] <= thread[j]
        BY <3>1 DEF JobIsSound, JobLine
      <4>2. \A n \in DOMAIN made[j] : made[j][n] \in Int
        BY <1>t, ElementOfSeq, LenProperties, IntSeq DEF TypeOK
      <4> QED
        BY <2>1, <2>3, <3>3, <4>1, <4>2
    <3>6. Increasing(calls'[j])
      <4>1. Increasing(calls[j])
        BY <3>1 DEF JobIsSound, JobLine
      <4> QED
        BY <2>3, <3>3, <3>5, <4>1, IncreasingAppend
    <3>7. Below(made'[j], calls'[j])
      BY <2>1, <2>3, <3>1, <3>3, <3>4, <3>5, SMTT(30) DEF JobIsSound, JobLine, Below
    <3>8. \A n \in DOMAIN calls'[j] : calls'[j][n] >= Done => n = Len(calls'[j]) /\ thread'[j] = Done
      BY <1>t, <2>1, <2>3, <3>3, <3>4, <3>5, SMTT(30)
    <3>9. ASSUME thread'[j] # Done
          PROVE  /\ \A n \in DOMAIN calls'[j] : calls'[j][n] <= thread'[j]
                 /\ \A n \in DOMAIN made'[j] : made'[j][n] <= thread'[j]
      <4>1. thread'[j] = e /\ made'[j] = made[j] /\ thread[j] \in Int
        BY <2>1, <2>3, <3>9
      <4>2. \A n \in DOMAIN made[j] : made[j][n] <= e
        BY <2>3, <3>3, <3>5, <4>1
      <4>3. \A n \in DOMAIN calls'[j] : calls'[j][n] <= e
        BY <3>3, <3>4, <3>5, SMTT(30)
      <4> QED
        BY <4>1, <4>2, <4>3
    <3>10. JobLine(j)'
      BY <2>1, <3>1, <3>6, <3>7, <3>8, <3>9 DEF JobIsSound, JobLine
    <3> QED
      BY <2>1, <3>1, <3>2, <3>10 DEF JobIsSound, HistoryIsRecent
  <2>5. \A k \in Jobs : k # j => JobIsSound(k)'
    BY <1>t, <2>1, JobKept
  <2> QED
    BY <2>2, <2>4, <2>5
<1>5. ASSUME NEW j \in Jobs, RunReport(j)
      PROVE  TurnPhase' /\ \A k \in Jobs : JobIsSound(k)'
  <2> DEFINE e == Head(calls[j])
  <2>1. /\ turn = NoTurn /\ calls[j] # <<>> /\ e < Done /\ calls'[j] = Tail(calls[j])
        /\ \A k \in Jobs : k # j => calls'[k] = calls[k]
        /\ UNCHANGED <<status, filled, thread, turn>> /\ Publish(j, e)
    BY <1>t, <1>5 DEF RunReport, LoopFree, TypeOK
  <2>2. TurnPhase'
    BY <2>1 DEF TurnPhase, NoTurn
  <2>3. JobIsSound(j)'
    <3>1. /\ JobIsSound(j) /\ status[j] = "running" /\ turn.job # j
      BY <1>t, <2>1 DEF JobIsSound, JobPhase, NoTurn
    <3>2. /\ calls[j] \in Seq(1 .. Raised) /\ Len(calls[j]) \in Nat \ {0}
          /\ DOMAIN calls[j] = 1 .. Len(calls[j]) /\ e = calls[j][1] /\ calls[j] \in Seq(Int)
          /\ Len(Tail(calls[j])) = Len(calls[j]) - 1 /\ DOMAIN Tail(calls[j]) = 1 .. Len(calls[j]) - 1
          /\ \A n \in 1 .. Len(calls[j]) - 1 : Tail(calls[j])[n] = calls[j][n + 1]
      BY <1>t, <2>1, HeadIsFirst, IntSeq DEF TypeOK
    <3>3. \A n \in DOMAIN calls[j] : calls[j][n] \in Int
      BY <3>2, ElementOfSeq
    <3>4. e \in Events /\ e \in Int /\ e # End
      BY <1>t, <2>1, HeadTyped, <3>2, <3>3
    <3>5. \A n \in DOMAIN made[j] : made[j][n] < e
      BY <3>1, <3>2 DEF JobIsSound, JobLine, Below
    <3>6. /\ Increasing(made'[j]) /\ ~Ended(j)' /\ HistoryIsRecent(j)'
          /\ \A n \in DOMAIN made'[j] : made'[j][n] <= e /\ made'[j][n] \in Int
      <4>1. /\ Increasing(made'[j]) /\ ~Ended(j)' /\ HistoryIsRecent(j)'
            /\ \A n \in DOMAIN made'[j] : made'[j][n] <= e
        BY <1>t, <2>1, <3>1, <3>4, <3>5, NewEvent DEF JobIsSound, JobLine
      <4>2. made'[j] \in Seq(Events)
        BY <1>t, <2>1, <3>4, PublishTypes
      <4> QED
        BY <4>1, <4>2, ElementOfSeq, LenProperties, IntSeq
    <3>7. JobPhase(j)'
      BY <1>t, <2>1, <3>1, <3>6 DEF JobIsSound, JobPhase, NoTurn
    <3>8. Increasing(calls'[j])
      BY <2>1, <3>1, <3>2, IncreasingTail DEF JobIsSound, JobLine
    <3>9. ASSUME NEW n \in DOMAIN calls'[j]
          PROVE  /\ n + 1 \in DOMAIN calls[j] /\ n \in Nat /\ calls'[j][n] = calls[j][n + 1]
                 /\ calls'[j][n] \in Int /\ e < calls'[j][n]
      <4>1. n + 1 \in DOMAIN calls[j] /\ n \in Nat /\ calls'[j][n] = calls[j][n + 1] /\ 1 < n + 1
            /\ 1 \in DOMAIN calls[j]
        BY <2>1, <3>2, <3>9
      <4>2. calls[j][1] < calls[j][n + 1]
        BY <3>1, <4>1 DEF JobIsSound, JobLine, Increasing
      <4> QED
        BY <3>2, <3>3, <4>1, <4>2
    <3>10. Below(made'[j], calls'[j])
      <4>1. ASSUME NEW m \in DOMAIN made'[j], NEW n \in DOMAIN calls'[j]
            PROVE  made'[j][m] < calls'[j][n]
        <5>1. made'[j][m] <= e /\ made'[j][m] \in Int /\ e < calls'[j][n] /\ calls'[j][n] \in Int
          BY <3>6, <3>9
        <5> QED
          BY <3>4, <5>1
      <4> QED
        BY <4>1 DEF Below
    <3>11. ASSUME NEW n \in DOMAIN calls'[j], calls'[j][n] >= Done
           PROVE  n = Len(calls'[j]) /\ thread'[j] = Done
      <4>1. n + 1 = Len(calls[j]) /\ thread[j] = Done
        BY <3>1, <3>9, <3>11 DEF JobIsSound, JobLine
      <4> QED
        BY <2>1, <3>2, <3>9, <4>1
    <3>12. thread[j] \in Int /\ (thread[j] # Done => e <= thread[j])
      BY <1>t, <3>1, <3>2 DEF JobIsSound, JobLine, TypeOK
    <3>13. ASSUME thread'[j] # Done
           PROVE  /\ \A n \in DOMAIN calls'[j] : calls'[j][n] <= thread'[j]
                  /\ \A n \in DOMAIN made'[j] : made'[j][n] <= thread'[j]
      <4>1. \A n \in DOMAIN calls[j] : calls[j][n] <= thread[j]
        BY <2>1, <3>1, <3>13 DEF JobIsSound, JobLine
      <4>2. e <= thread[j] /\ thread'[j] = thread[j]
        BY <2>1, <3>12, <3>13
      <4> QED
        BY <3>4, <3>6, <3>9, <3>12, <4>1, <4>2
    <3> QED
      BY <3>6, <3>7, <3>8, <3>10, <3>11, <3>13 DEF JobIsSound, JobLine
  <2>4. \A k \in Jobs : k # j => JobIsSound(k)'
    <3>1. e \in Events
      BY <1>t, <2>1, HeadTyped
    <3> QED
      BY <1>t, <2>1, <3>1, OthersPublish, JobKept
  <2> QED
    BY <2>2, <2>3, <2>4
<1>6. ASSUME NEW j \in Jobs, WakeJob(j)
      PROVE  TurnPhase' /\ \A k \in Jobs : JobIsSound(k)'
  <2>1. /\ turn = NoTurn /\ calls[j] # <<>> /\ Head(calls[j]) >= Done /\ calls'[j] = Tail(calls[j])
        /\ \A k \in Jobs : k # j => calls'[k] = calls[k]
        /\ UNCHANGED <<status, filled, thread, history, made>>
        /\ turn'.job = j /\ turn'.next \in {"result", "failed"}
    BY <1>t, <1>6 DEF WakeJob, LoopFree, TypeOK
  <2>2. /\ JobIsSound(j) /\ status[j] = "running" /\ turn.job # j
    BY <1>t, <2>1 DEF JobIsSound, JobPhase, NoTurn
  <2>3. TurnPhase'
    BY <2>1, <2>2 DEF TurnPhase
  <2>4. JobIsSound(j)'
    <3>1. /\ calls[j] \in Seq(1 .. Raised) /\ Len(calls[j]) \in Nat \ {0}
          /\ DOMAIN calls[j] = 1 .. Len(calls[j]) /\ Head(calls[j]) = calls[j][1]
          /\ Tail(calls[j]) \in Seq(1 .. Raised) /\ Len(Tail(calls[j])) = Len(calls[j]) - 1
      BY <1>t, <2>1, HeadIsFirst DEF TypeOK
    <3>2. Len(calls[j]) = 1 /\ thread[j] = Done
      <4>1. 1 \in DOMAIN calls[j] /\ calls[j][1] >= Done
        BY <2>1, <3>1
      <4> QED
        BY <2>2, <4>1 DEF JobIsSound, JobLine
    <3>3. calls'[j] = <<>>
      <4>1. Len(Tail(calls[j])) = 0
        BY <3>1, <3>2
      <4> QED
        BY <2>1, <3>1, <4>1, EmptySeq
    <3>4. JobPhase(j)'
      BY <2>1, <2>2, <3>2, <3>3 DEF JobIsSound, JobPhase, Ended
    <3>5. JobLine(j)'
      BY <2>1, <2>2, <3>2, <3>3, EmptyLine DEF JobIsSound, JobLine
    <3> QED
      BY <2>1, <2>2, <3>4, <3>5 DEF JobIsSound, HistoryIsRecent
  <2>5. \A k \in Jobs : k # j => JobIsSound(k)'
    BY <1>t, <2>1, JobKept DEF NoTurn
  <2> QED
    BY <2>3, <2>4, <2>5
<1>7. ASSUME SetField, UNCHANGED <<thread, calls, history, made>>
      PROVE  TurnPhase' /\ \A k \in Jobs : JobIsSound(k)'
  <2>0. PICK j \in Jobs : j = turn.job
    BY <1>t, <1>7 DEF HasJob, TypeOK, SetField
  <2>1. JobIsSound(j) /\ turn'.job = j
    BY <1>t, <1>7, <2>0 DEF TypeOK, SetField, Then
  <2>2. \A k \in Jobs : k # j => status'[k] = status[k] /\ filled'[k] = filled[k]
    BY <1>t, <1>7, <2>0 DEF SetField, TypeOK
  <2>3. TurnPhase'
    BY <1>t, <1>7, <2>0, <2>1 DEF SetField, Then, TurnPhase, TypeOK
  <2>4. /\ status'[j] # "cancelled"
        /\ status'[j] = "completed" => "result" \in filled'[j]
        /\ status'[j] \in {"running", "completed", "failed"}
    BY <1>t, <1>7, <2>0, <2>1 DEF SetField, Then, TurnPhase, TypeOK, JobIsSound, JobPhase
  <2>5. JobPhase(j)'
    BY <1>7, <2>0, <2>1, <2>4 DEF JobIsSound, JobPhase, Ended
  <2>6. JobIsSound(j)'
    BY <1>7, <2>0, <2>1, <2>5 DEF JobIsSound, JobLine, HistoryIsRecent
  <2>7. \A k \in Jobs : k # j => JobIsSound(k)'
    BY <1>t, <1>7, <2>0, <2>1, <2>2, JobKept
  <2> QED
    BY <2>3, <2>6, <2>7
<1>8. ASSUME turn.next = "publish", Publish(turn.job, End), turn' = NoTurn,
             UNCHANGED <<status, filled, thread, calls>>
      PROVE  TurnPhase' /\ \A k \in Jobs : JobIsSound(k)'
  <2>0. PICK j \in Jobs : j = turn.job
    BY <1>t, <1>8 DEF HasJob, TypeOK
  <2>1. JobIsSound(j) /\ status[j] \in {"completed", "failed"}
    BY <1>t, <1>8, <2>0 DEF TurnPhase
  <2>2. TurnPhase'
    BY <1>8 DEF TurnPhase, NoTurn
  <2>3. JobIsSound(j)'
    <3>1. calls[j] = <<>> /\ thread[j] = Done /\ ~Ended(j) /\ Increasing(made[j])
      BY <2>0, <2>1 DEF JobIsSound, JobPhase, JobLine
    <3>2. \A n \in DOMAIN made[j] : made[j][n] < End
      BY <1>t, <2>0, <2>1, <3>1, BelowEnd
    <3>3. Increasing(made'[j]) /\ Ended(j)' /\ HistoryIsRecent(j)'
      BY <1>t, <1>8, <2>0, <2>1, <3>1, <3>2, NewEvent DEF JobIsSound
    <3>4. JobPhase(j)'
      BY <1>t, <1>8, <2>0, <2>1, <3>1, <3>3 DEF JobIsSound, JobPhase, NoTurn
    <3>5. JobLine(j)'
      BY <1>8, <3>1, <3>3, EmptyLine DEF JobLine
    <3> QED
      BY <3>3, <3>4, <3>5 DEF JobIsSound
  <2>4. \A k \in Jobs : k # j => JobIsSound(k)'
    BY <1>t, <1>8, <2>0, <2>1, OthersPublish, JobKept DEF NoTurn
  <2> QED
    BY <2>2, <2>3, <2>4
<1>9. ASSUME UNCHANGED jobVars
      PROVE  TurnPhase' /\ \A k \in Jobs : JobIsSound(k)'
  <2>1. TurnPhase'
    BY <1>t, <1>9 DEF TurnPhase
  <2> QED
    BY <1>t, <1>9, <2>1, JobKept
<1>10. ASSUME NEW c \in Clients, StreamStep(c)
       PROVE  UNCHANGED jobVars
  BY <1>10 DEF StreamStep, Subscribe, Deliver, GetTimesOut
<1>11. ASSUME NEW c \in Clients, Disconnect(c) \/ \E j \in Jobs : OpenStream(c, j)
       PROVE  UNCHANGED jobVars
  BY <1>11 DEF Disconnect, OpenStream
<1>12. ASSUME ReadStatus \/ ReadFields \/ UNCHANGED vars
       PROVE  UNCHANGED jobVars
  BY <1>12 DEF ReadStatus, ReadFields, vars
<1>13. ASSUME EndTurn
       PROVE  TurnPhase' /\ \A k \in Jobs : JobIsSound(k)'
  BY <1>7, <1>8, <1>13 DEF EndTurn
<1> QED
  BY <1>1, <1>2, <1>3, <1>4, <1>5, <1>6, <1>9, <1>10, <1>11, <1>12, <1>13
  DEF Next, UserStep, JobStep

-----------------------------------------------------------------------------
(* Streams                                                                 *)

\* The invariant of one client: in order, and whole once its stream is closed.
ClientIsSound(c) ==
  /\ GotOfJob(c) /\ QueueOfJob(c) /\ Increasing(got[c])
  /\ phase[c] = "closed" =>
       /\ got[c] # <<>> /\ got[c][Len(got[c])] = End
       /\ c \notin lagged => got[c] = made[of[c]]

\* The stream part of the invariant, client by client.
LEMMA ClientsAreSound ==
  StreamsAreSound /\ StreamInOrder /\ ClosedStreamIsWhole <=> \A c \in Clients : ClientIsSound(c)
  BY DEF StreamsAreSound, StreamInOrder, ClosedStreamIsWhole, ClientIsSound, Increasing

\* The arithmetic of moving one event from a queue to what was received.
LEMMA MoveOne ==
  \A g, k \in Nat : /\ g + k = (g + 1) + (k - 1) /\ (g + k) + 1 = g + (k + 1)
                    /\ \A n \in 1 .. g : n \in 1 .. g + k
  OBVIOUS

\* A step that leaves a client and its job's events alone keeps its invariant.
LEMMA ClientKept ==
  ASSUME NEW c \in Clients, Typing, ClientIsSound(c),
         phase'[c] = phase[c], of'[c] = of[c], queue'[c] = queue[c], terminal'[c] = terminal[c],
         got'[c] = got[c], c \in lagged' <=> c \in lagged,
         of[c] \in Jobs => made'[of[c]] = made[of[c]]
  PROVE  ClientIsSound(c)'
<1>1. CASE of[c] \in Jobs
  <2>1. made'[of'[c]] = made[of[c]] /\ (Ended(of[c])' <=> Ended(of[c]))
    BY <1>1 DEF Ended
  <2>2. GotOfJob(c)'
    BY <1>1, <2>1 DEF ClientIsSound, GotOfJob
  <2>3. QueueOfJob(c)'
    BY <1>1, <2>1 DEF ClientIsSound, QueueOfJob
  <2> QED
    BY <1>1, <2>1, <2>2, <2>3 DEF ClientIsSound
<1>2. CASE of[c] \notin Jobs
  <2>1. phase[c] = "none" /\ got[c] = <<>>
    BY <1>2 DEF Typing, HasJob, ClientIsSound, GotOfJob
  <2> QED
    BY <1>2, <2>1 DEF ClientIsSound, GotOfJob, QueueOfJob
<1> QED
  BY <1>1, <1>2

\* A publish keeps every stream sound: a full queue that loses its oldest makes the
\* client one that lagged, and still ends with the newest event.
LEMMA ClientPublish ==
  ASSUME Typing, NEW j \in Jobs, NEW e \in Events, Publish(j, e), JobIsSound(j), ~Ended(j),
         \A n \in DOMAIN made[j] : made[j][n] < e, UNCHANGED <<phase, of, terminal, got>>,
         NEW c \in Clients, ClientIsSound(c)
  PROVE  ClientIsSound(c)'
<1>t. TypeOK /\ HasJob /\ Increasing(made[j]) /\ HistoryIsRecent(j)
  BY DEF Typing, JobIsSound, JobLine
<1>1. CASE of[c] # j
  <2>1. c \notin Subscribers(j)
    BY <1>1 DEF Subscribers
  <2>2. queue'[c] = queue[c] /\ (c \in lagged' <=> c \in lagged)
    BY <1>t, <2>1, PublishTypes DEF Publish
  <2>3. of[c] \in Jobs => made'[of[c]] = made[of[c]]
    BY <1>1, <1>t, PublishTypes
  <2> QED
    BY <2>2, <2>3, ClientKept
<1>2. CASE of[c] = j
  <2>1. /\ made'[j] = Append(made[j], e) /\ Len(made[j]) \in Nat /\ DOMAIN made[j] = 1 .. Len(made[j])
        /\ Len(made'[j]) = Len(made[j]) + 1 /\ made'[j] # <<>>
        /\ \A n \in 1 .. Len(made[j]) : made'[j][n] = made[j][n]
        /\ made'[j][Len(made[j]) + 1] = e
    BY <1>t, NewEvent
  <2>2. phase[c] # "closed" /\ (phase[c] = "reading" => ~terminal[c])
    BY <1>2 DEF ClientIsSound, GotOfJob, QueueOfJob
  <2>3. /\ got[c] \in Seq(Events) /\ Len(got[c]) \in Nat /\ DOMAIN got[c] = 1 .. Len(got[c])
        /\ \A n \in DOMAIN got[c] : got[c][n] \in Int
        /\ \A n \in DOMAIN made[j] : made[j][n] \in Int
        /\ e \in Int
    BY <1>t, <2>1, LenProperties, ElementOfSeq, IntSeq, SMTT(30) DEF TypeOK
  <2>4. \A n \in DOMAIN got[c] : got[c][n] < e
    <3>1. ASSUME NEW n \in DOMAIN got[c]
          PROVE  got[c][n] < e
      <4>1. made[j] # <<>> /\ got[c][n] <= made[j][Len(made[j])]
        BY <1>2, <3>1 DEF ClientIsSound, GotOfJob
      <4>2. Len(made[j]) \in DOMAIN made[j]
        BY <1>t, <2>1, <4>1, EmptySeq DEF TypeOK
      <4>3. made[j][Len(made[j])] < e /\ made[j][Len(made[j])] \in Int /\ got[c][n] \in Int
        BY <2>3, <4>2
      <4> QED
        BY <2>3, <4>1, <4>3
    <3> QED
      BY <3>1
  <2>5. GotOfJob(c)'
    BY <1>2, <2>1, <2>2, <2>3, <2>4 DEF ClientIsSound, GotOfJob
  <2>6. QueueOfJob(c)'
    <3> SUFFICES ASSUME phase[c] = "reading" PROVE QueueOfJob(c)'
      BY DEF QueueOfJob
    <3>1. c \in Subscribers(j) /\ queue'[c] = Offer(queue[c], e)
      <4>1. c \in Subscribers(j)
        BY <1>2 DEF Subscribers
      <4> QED
        BY <1>t, <4>1, PublishTypes
    <3>2. queue[c] \in Seq(Events) /\ Len(queue[c]) <= QueueMax /\ made[j] \in Seq(Events)
      BY <1>t DEF TypeOK
    <3>3. /\ EndsWith(queue[c], made[j]) /\ Below(got[c], queue[c])
          /\ c \notin lagged =>
              /\ Len(made[j]) = Len(got[c]) + Len(queue[c])
              /\ \A n \in DOMAIN got[c] : got[c][n] = made[j][n]
      BY <1>2 DEF ClientIsSound, QueueOfJob
    <3>4. /\ queue'[c] # <<>> /\ EndsWith(queue'[c], made'[j])
          /\ \A n \in DOMAIN queue'[c] :
               queue'[c][n] = e \/ \E m \in DOMAIN queue[c] : queue'[c][n] = queue[c][m]
      <4>1. /\ Offer(queue[c], e) # <<>>
            /\ \A s \in Seq(Events) : EndsWith(queue[c], s) => EndsWith(Offer(queue[c], e), Append(s, e))
            /\ \A n \in DOMAIN Offer(queue[c], e) :
                 Offer(queue[c], e)[n] = e \/ \E m \in DOMAIN queue[c] : Offer(queue[c], e)[n] = queue[c][m]
        BY <3>2, OfferKeeps
      <4>2. EndsWith(Offer(queue[c], e), Append(made[j], e))
        BY <3>2, <3>3, <4>1
      <4> QED
        BY <2>1, <3>1, <4>1, <4>2
    <3>5. Below(got'[c], queue'[c])
      BY <2>4, <3>3, <3>4 DEF Below
    <3>6. ASSUME c \notin lagged'
          PROVE  /\ Len(made'[j]) = Len(got'[c]) + Len(queue'[c])
                 /\ \A n \in DOMAIN got'[c] : got'[c][n] = made'[j][n]
      <4>1. c \notin lagged /\ Len(queue[c]) # QueueMax
        BY <3>1, <3>6 DEF Publish
      <4>2. Len(queue[c]) \in Nat /\ Len(queue[c]) < QueueMax
        BY <3>2, <4>1, LenProperties, StreamAssumption
      <4>3. Len(queue'[c]) = Len(queue[c]) + 1
        BY <3>1, <3>2, <4>2, AppendProperties DEF Offer
      <4>4. Len(made[j]) = Len(got[c]) + Len(queue[c])
        BY <3>3, <4>1
      <4>5. ASSUME NEW n \in DOMAIN got[c]
            PROVE  got[c][n] = made'[j][n]
        <5>1. got[c][n] = made[j][n]
          BY <3>3, <4>1
        <5>2. n \in 1 .. Len(made[j])
          <6>1. Len(got[c]) \in Nat /\ Len(made[j]) \in Nat /\ n \in 1 .. Len(got[c])
            BY <2>1, <2>3
          <6> QED
            BY <4>2, <4>4, <6>1, MoveOne
        <5> QED
          BY <2>1, <5>1, <5>2
      <4>6. Len(made'[j]) = Len(got[c]) + Len(queue'[c])
        <5>1. Len(got[c]) \in Nat /\ Len(made[j]) \in Nat /\ Len(made'[j]) = Len(made[j]) + 1
          BY <2>1, <2>3
        <5> QED
          BY <4>2, <4>3, <4>4, <5>1, MoveOne, ZenonT(30)
      <4> QED
        BY <4>5, <4>6
    <3> QED
      BY <1>2, <2>2, <3>4, <3>5, <3>6 DEF QueueOfJob
  <2> QED
    BY <2>2, <2>5, <2>6 DEF ClientIsSound
<1> QED
  BY <1>1, <1>2

\* The event a stream has at hand is the last of its job only if nothing is
\* queued behind it, and then the job has ended if the event is the closing one.
LEMMA LastInQueue ==
  ASSUME TypeOK, NEW j \in Jobs, Increasing(made[j]), NEW q \in Seq(Events), q # <<>>,
         EndsWith(q, made[j])
  PROVE  /\ Increasing(q) /\ made[j] # <<>>
         /\ Head(q) <= made[j][Len(made[j])]
         /\ Head(q) = End => Ended(j) /\ Tail(q) = <<>>
         /\ Tail(q) = <<>> => Head(q) = made[j][Len(made[j])] /\ Len(q) = 1
         /\ Tail(q) = <<>> /\ Ended(j) => Head(q) = End
<1>1. made[j] \in Seq(Events)
  BY DEF TypeOK
<1>2. /\ Increasing(q) /\ made[j] # <<>> /\ q[Len(q)] = made[j][Len(made[j])]
      /\ \A n \in DOMAIN q : q[n] <= made[j][Len(made[j])]
  BY <1>1, SuffixElements
<1>3. /\ Len(q) \in Nat \ {0} /\ DOMAIN q = 1 .. Len(q) /\ Head(q) = q[1] /\ Len(Tail(q)) = Len(q) - 1
      /\ Tail(q) \in Seq(Events) /\ 1 \in DOMAIN q /\ Len(q) \in DOMAIN q
  BY HeadIsFirst
<1>4. \A n \in DOMAIN q : q[n] \in 0 .. End
  BY <1>3, ElementOfSeq DEF Events
<1>5. Tail(q) = <<>> <=> Len(q) = 1
  <2>1. Tail(q) = <<>> <=> Len(Tail(q)) = 0
    BY <1>3, EmptySeq
  <2> QED
    BY <1>3, <2>1
<1>6. ASSUME q[1] = End
      PROVE  Len(q) = 1
  <2>1. CASE Len(q) # 1
    <3>1. q[1] < q[Len(q)]
      BY <1>2, <1>3, <2>1 DEF Increasing
    <3> QED
      BY <1>3, <1>4, <1>6, <3>1, StreamAssumption DEF End
  <2> QED
    BY <2>1
<1>7. Head(q) = End => Ended(j) /\ Tail(q) = <<>>
  BY <1>2, <1>3, <1>5, <1>6 DEF Ended
<1>8. Tail(q) = <<>> => Head(q) = made[j][Len(made[j])] /\ Len(q) = 1
  BY <1>2, <1>3, <1>5
<1>9. Tail(q) = <<>> /\ Ended(j) => Head(q) = End
  BY <1>8 DEF Ended
<1> QED
  BY <1>2, <1>3, <1>7, <1>8, <1>9

\* A delivery keeps its stream sound: the event joins what was received, and the
\* stream is closed only behind the closing event.
LEMMA ClientDelivers ==
  ASSUME Typing, NEW c \in Clients, Deliver(c), ClientIsSound(c), JobIsSound(of[c])
  PROVE  ClientIsSound(c)'
<1>1. /\ TypeOK /\ of[c] \in Jobs /\ phase[c] = "reading" /\ queue[c] # <<>> /\ queue[c] \in Seq(Events)
      /\ got[c] \in Seq(Events)
      /\ of' = of /\ made' = made /\ terminal' = terminal /\ lagged' = lagged
      /\ got'[c] = Append(got[c], Head(queue[c]))
  BY DEF Typing, HasJob, TypeOK, Deliver, jobVars
<1> DEFINE j == of[c]
           e == Head(queue[c])
           q == Tail(queue[c])
<1>2. /\ EndsWith(queue[c], made[j]) /\ Below(got[c], queue[c])
      /\ terminal[c] => Ended(j)
      /\ c \notin lagged =>
           /\ Len(made[j]) = Len(got[c]) + Len(queue[c])
           /\ \A n \in DOMAIN got[c] : got[c][n] = made[j][n]
  BY <1>1 DEF ClientIsSound, QueueOfJob
<1>3. /\ Increasing(queue[c]) /\ made[j] # <<>>
      /\ e <= made[j][Len(made[j])]
      /\ e = End => Ended(j) /\ q = <<>>
      /\ q = <<>> => e = made[j][Len(made[j])] /\ Len(queue[c]) = 1
      /\ q = <<>> /\ Ended(j) => e = End
  BY <1>1, <1>2, LastInQueue DEF JobIsSound, JobLine
<1>4. /\ Len(queue[c]) \in Nat \ {0} /\ e = queue[c][1] /\ DOMAIN queue[c] = 1 .. Len(queue[c])
      /\ q \in Seq(Events) /\ Len(q) = Len(queue[c]) - 1 /\ DOMAIN q = 1 .. Len(queue[c]) - 1
      /\ \A n \in 1 .. Len(queue[c]) - 1 : q[n] = queue[c][n + 1]
      /\ 1 \in DOMAIN queue[c] /\ e \in Events /\ e \in Int
      /\ \A n \in DOMAIN queue[c] : queue[c][n] \in Int
  BY <1>1, HeadIsFirst, HeadTailProperties, ElementOfSeq, IntSeq
<1>5. /\ Len(got[c]) \in Nat /\ DOMAIN got[c] = 1 .. Len(got[c]) /\ got[c] \in Seq(Int)
      /\ Len(got'[c]) = Len(got[c]) + 1 /\ DOMAIN got'[c] = 1 .. Len(got[c]) + 1
      /\ got'[c] \in Seq(Events)
      /\ \A n \in 1 .. Len(got[c]) : got'[c][n] = got[c][n]
      /\ got'[c][Len(got[c]) + 1] = e
      /\ \A n \in DOMAIN got[c] : got[c][n] \in Int /\ got[c][n] < e
      /\ got'[c] # <<>>
  <2>1. /\ Len(got[c]) \in Nat /\ DOMAIN got[c] = 1 .. Len(got[c]) /\ got[c] \in Seq(Int)
        /\ Len(got'[c]) = Len(got[c]) + 1 /\ got'[c] \in Seq(Events)
        /\ \A n \in 1 .. Len(got[c]) : got'[c][n] = got[c][n]
        /\ got'[c][Len(got[c]) + 1] = e
    BY <1>1, <1>4, LenProperties, AppendProperties, IntSeq
  <2>2. DOMAIN got'[c] = 1 .. Len(got[c]) + 1 /\ got'[c] # <<>>
    BY <2>1, LenProperties, EmptySeq
  <2>3. \A n \in DOMAIN got[c] : got[c][n] \in Int
    BY <2>1, ElementOfSeq
  <2>4. \A n \in DOMAIN got[c] : got[c][n] < e
    BY <1>2, <1>4 DEF Below
  <2> QED
    BY <2>1, <2>2, <2>3, <2>4
<1>6. Increasing(got'[c])
  BY <1>1, <1>4, <1>5, IncreasingAppend DEF ClientIsSound
<1>7. \A n \in DOMAIN got'[c] : got'[c][n] <= made[j][Len(made[j])]
  <2>1. ASSUME NEW n \in 1 .. Len(got[c])
        PROVE  got[c][n] <= made[j][Len(made[j])]
    BY <1>5, EmptySeq, SMTT(30) DEF ClientIsSound, GotOfJob
  <2>2. ASSUME NEW n \in 1 .. Len(got[c]) + 1
        PROVE  got'[c][n] <= made[j][Len(made[j])]
    <3>1. CASE n \in 1 .. Len(got[c])
      BY <1>5, <2>1, <3>1
    <3>2. CASE n = Len(got[c]) + 1
      BY <1>3, <1>5, <3>2
    <3> QED
      BY <1>5, <3>1, <3>2
  <2> QED
    BY <1>5, <2>2
<1>8. CASE e = End \/ (terminal[c] /\ q = <<>>)
  <2>1. phase'[c] = "closed"
    BY <1>1, <1>8 DEF Deliver, Leave, TypeOK
  <2>2. Ended(j) /\ q = <<>> /\ e = End
    BY <1>2, <1>3, <1>8
  <2>3. GotOfJob(c)' /\ QueueOfJob(c)'
    BY <1>1, <1>3, <1>7, <2>1, <2>2 DEF GotOfJob, QueueOfJob, Ended
  <2>4. ASSUME c \notin lagged
        PROVE  got'[c] = made[j]
    <3>1. Len(made[j]) = Len(got[c]) + 1 /\ \A n \in 1 .. Len(got[c]) : got[c][n] = made[j][n]
      BY <1>2, <1>3, <1>5, <2>2, <2>4
    <3>2. ASSUME NEW n \in 1 .. Len(got'[c])
          PROVE  got'[c][n] = made[j][n]
      <4>1. CASE n \in 1 .. Len(got[c])
        BY <1>5, <3>1, <4>1
      <4>2. CASE n = Len(got[c]) + 1
        BY <1>3, <1>5, <2>2, <3>1, <4>2
      <4> QED
        BY <1>5, <4>1, <4>2
    <3>3. made[j] \in Seq(Events) /\ Len(got'[c]) = Len(made[j])
      BY <1>1, <1>5, <3>1 DEF TypeOK
    <3> QED
      BY <1>5, <3>2, <3>3, SeqEqual
  <2> QED
    BY <1>1, <1>5, <1>6, <2>2, <2>3, <2>4 DEF ClientIsSound
<1>9. CASE ~(e = End \/ (terminal[c] /\ q = <<>>))
  <2>1. phase'[c] = "reading" /\ queue'[c] = q
    BY <1>1, <1>9 DEF Deliver, TypeOK
  <2>2. GotOfJob(c)'
    BY <1>1, <1>3, <1>7, <2>1 DEF GotOfJob
  <2>3. EndsWith(q, made[j])
    BY <1>1, <1>2, EndsWithTail DEF TypeOK
  <2>4. Below(got'[c], q)
    <3>1. ASSUME NEW m \in DOMAIN got'[c], NEW n \in DOMAIN q
          PROVE  got'[c][m] < q[n]
      <4>1. n + 1 \in DOMAIN queue[c] /\ q[n] = queue[c][n + 1] /\ 1 < n + 1
        BY <1>4, <3>1
      <4>2. e < q[n] /\ q[n] \in Int
        BY <1>3, <1>4, <4>1 DEF Increasing
      <4>3. CASE m \in 1 .. Len(got[c])
        <5>1. got'[c][m] < e /\ got'[c][m] \in Int
          BY <1>5, <4>3
        <5> QED
          BY <1>4, <4>2, <5>1
      <4>4. CASE m = Len(got[c]) + 1
        BY <1>5, <4>2, <4>4
      <4> QED
        BY <1>5, <4>3, <4>4
    <3> QED
      BY <3>1 DEF Below
  <2>5. Ended(j) => q # <<>>
    BY <1>3, <1>9
  <2>6. ASSUME c \notin lagged
        PROVE  /\ Len(made[j]) = Len(got'[c]) + Len(q)
               /\ \A n \in DOMAIN got'[c] : got'[c][n] = made[j][n]
    <3>1. /\ Len(made[j]) = Len(got[c]) + Len(queue[c])
          /\ \A n \in DOMAIN got[c] : got[c][n] = made[j][n]
      BY <1>2, <2>6
    <3>2. e = made[j][Len(got[c]) + 1]
      <4>1. queue[c][1] = made[j][Len(made[j]) - Len(queue[c]) + 1]
        BY <1>2, <1>4 DEF EndsWith
      <4>2. Len(made[j]) - Len(queue[c]) + 1 = Len(got[c]) + 1
        BY <1>4, <1>5, <3>1
      <4> QED
        BY <1>4, <4>1, <4>2
    <3>3. ASSUME NEW n \in DOMAIN got'[c]
          PROVE  got'[c][n] = made[j][n]
      <4>1. CASE n \in 1 .. Len(got[c])
        BY <1>5, <3>1, <4>1
      <4>2. CASE n = Len(got[c]) + 1
        BY <1>5, <3>2, <4>2
      <4> QED
        BY <1>5, <4>1, <4>2
    <3>4. Len(made[j]) = Len(got'[c]) + Len(q)
      <4>1. /\ Len(got[c]) \in Nat /\ Len(got'[c]) = Len(got[c]) + 1
            /\ Len(queue[c]) \in Nat /\ Len(q) = Len(queue[c]) - 1
        BY <1>4, <1>5
      <4> QED
        BY <3>1, <4>1, MoveOne
    <3> QED
      BY <3>3, <3>4
  <2>7. QueueOfJob(c)'
    BY <1>1, <1>2, <2>1, <2>3, <2>4, <2>5, <2>6 DEF QueueOfJob, Ended
  <2> QED
    BY <1>6, <2>1, <2>2, <2>7 DEF ClientIsSound
<1> QED
  BY <1>8, <1>9

\* Every step keeps all streams sound.
LEMMA ClientsStep ==
  ASSUME IInv, [Next]_vars
  PROVE  StreamsAreSound' /\ StreamInOrder' /\ ClosedStreamIsWhole'
<1> USE DEF jobVars, streamVars
<1>t. /\ Typing /\ TypeOK /\ HasJob /\ TurnPhase /\ (\A j \in Jobs : JobIsSound(j))
      /\ (\A c \in Clients : ClientIsSound(c))
      /\ NoJob \notin Jobs /\ 0 \in Events /\ End \in Events /\ End = Done /\ 0 # End
  BY ClientsAreSound, StreamAssumption
  DEF IInv, Typing, JobsAreSound, JobIsSound, Events, End, Done
<1> SUFFICES \A c \in Clients : ClientIsSound(c)'
  BY DEF StreamsAreSound, StreamInOrder, ClosedStreamIsWhole, ClientIsSound, Increasing
<1>1. ASSUME UNCHANGED <<made, streamVars>>
      PROVE  \A c \in Clients : ClientIsSound(c)'
  BY <1>t, <1>1, ClientKept
<1>2. ASSUME NEW j \in Jobs, SourceVanished(j) \/ BeginJob(j)
      PROVE  \A c \in Clients : ClientIsSound(c)'
  <2>1. /\ status[j] = "queued" /\ UNCHANGED <<phase, of, terminal, got>>
        /\ \E e \in {0, End} : Publish(j, e)
    BY <1>2 DEF SourceVanished, BeginJob
  <2>2. made[j] = <<>> /\ ~Ended(j)
    BY <1>t, <2>1 DEF JobIsSound, JobPhase, Ended
  <2> QED
    BY <1>t, <2>1, <2>2, ClientPublish, EmptyLine
<1>3. ASSUME NEW j \in Jobs, RunReport(j)
      PROVE  \A c \in Clients : ClientIsSound(c)'
  <2>1. /\ turn = NoTurn /\ calls[j] # <<>> /\ Head(calls[j]) < Done /\ Publish(j, Head(calls[j]))
        /\ UNCHANGED <<phase, of, terminal, got>>
    BY <1>3 DEF RunReport, LoopFree
  <2>2. JobIsSound(j) /\ ~Ended(j)
    BY <1>t, <2>1 DEF JobIsSound, JobPhase, NoTurn
  <2>3. Head(calls[j]) \in Events
    BY <1>t, <2>1, HeadTyped
  <2>4. Head(calls[j]) = calls[j][1] /\ 1 \in DOMAIN calls[j]
    BY <1>t, <2>1, HeadIsFirst DEF TypeOK
  <2>5. \A n \in DOMAIN made[j] : made[j][n] < Head(calls[j])
    BY <2>2, <2>4 DEF JobIsSound, JobLine, Below
  <2> QED
    BY <1>t, <2>1, <2>2, <2>3, <2>5, ClientPublish
<1>4. ASSUME EndTurn
      PROVE  \A c \in Clients : ClientIsSound(c)'
  <2>1. CASE SetField /\ UNCHANGED <<registry, thread, calls, history, made, streamVars, snap>>
    BY <1>1, <2>1
  <2>2. CASE turn.next = "publish" /\ Publish(turn.job, End) /\ UNCHANGED <<phase, of, terminal, got>>
    <3>1. PICK j \in Jobs : j = turn.job
      BY <1>t, <2>2 DEF HasJob, TypeOK
    <3>2. JobIsSound(j) /\ ~Ended(j) /\ Increasing(made[j])
      BY <1>t, <3>1 DEF JobIsSound, JobPhase, JobLine
    <3>3. \A n \in DOMAIN made[j] : made[j][n] < End
      BY <1>t, <3>2, BelowEnd
    <3> QED
      BY <1>t, <2>2, <3>1, <3>2, <3>3, ClientPublish
  <2> QED
    BY <1>4, <2>1, <2>2 DEF EndTurn
<1>5. ASSUME NEW c \in Clients, NEW j \in Jobs, OpenStream(c, j)
      PROVE  \A d \in Clients : ClientIsSound(d)'
  <2>1. /\ phase[c] = "none" /\ phase'[c] = "opened" /\ of'[c] = j
        /\ \A d \in Clients : d # c => phase'[d] = phase[d] /\ of'[d] = of[d]
        /\ UNCHANGED <<jobVars, queue, terminal, got, lagged>>
    BY <1>t, <1>5 DEF OpenStream, TypeOK
  <2>2. ClientIsSound(c)'
    BY <1>t, <2>1 DEF ClientIsSound, GotOfJob, QueueOfJob
  <2>3. \A d \in Clients : d # c => ClientIsSound(d)'
    BY <1>t, <2>1, ClientKept
  <2> QED
    BY <2>2, <2>3
<1>6. ASSUME NEW c \in Clients, Subscribe(c)
      PROVE  \A d \in Clients : ClientIsSound(d)'
  <2>0. PICK j \in Jobs : j = of[c]
    BY <1>t, <1>6 DEF HasJob, Subscribe
  <2>1. /\ turn = NoTurn /\ phase[c] = "opened" /\ phase'[c] = "reading"
        /\ queue'[c] = history[j] /\ of'[c] = j
        /\ terminal'[c] <=> status[j] \in Finished
        /\ c \notin lagged' => history[j] = made[j]
        /\ \A d \in Clients : d # c => /\ phase'[d] = phase[d] /\ queue'[d] = queue[d]
                                       /\ terminal'[d] = terminal[d]
                                       /\ d \in lagged' <=> d \in lagged
        /\ UNCHANGED <<jobVars, of, got>>
    BY <1>t, <1>6, <2>0, ZenonT(30) DEF Subscribe, LoopFree, TypeOK
  <2>2. got[c] = <<>>
    BY <1>t, <2>1 DEF ClientIsSound, GotOfJob
  <2>3. JobIsSound(j) /\ (status[j] \in Finished => Ended(j))
    BY <1>t, <2>1 DEF JobIsSound, JobPhase, Finished, NoTurn
  <2>4. EndsWith(history[j], made[j]) /\ (Ended(j) => history[j] # <<>>)
    BY <2>3 DEF JobIsSound, HistoryIsRecent, Ended
  <2>5. history[j] = made[j] => Len(made[j]) = 0 + Len(history[j])
    BY <1>t, LenProperties DEF TypeOK
  <2>6. QueueOfJob(c)'
    BY <2>1, <2>2, <2>3, <2>4, <2>5, EmptyLine DEF QueueOfJob, Ended
  <2>7. ClientIsSound(c)'
    BY <2>1, <2>2, <2>6, EmptyLine DEF ClientIsSound, GotOfJob
  <2>8. \A d \in Clients : d # c => ClientIsSound(d)'
    BY <1>t, <2>1, ClientKept
  <2> QED
    BY <2>7, <2>8
<1>7. ASSUME NEW c \in Clients, Deliver(c)
      PROVE  \A d \in Clients : ClientIsSound(d)'
  <2>1. of[c] \in Jobs
    BY <1>t, <1>7 DEF HasJob, Deliver
  <2>2. ClientIsSound(c)'
    BY <1>t, <1>7, <2>1, ClientDelivers
  <2>3. /\ \A d \in Clients : d # c => phase'[d] = phase[d] /\ queue'[d] = queue[d] /\ got'[d] = got[d]
        /\ UNCHANGED <<jobVars, of, terminal, lagged>>
    BY <1>t, <1>7 DEF Deliver, Leave, TypeOK
  <2>4. \A d \in Clients : d # c => ClientIsSound(d)'
    BY <1>t, <2>3, ClientKept
  <2> QED
    BY <2>2, <2>4
<1>8. ASSUME NEW c \in Clients, GetTimesOut(c)
      PROVE  \A d \in Clients : ClientIsSound(d)'
  <2>0. PICK j \in Jobs : j = of[c]
    BY <1>t, <1>8 DEF HasJob, GetTimesOut
  <2>1. turn = NoTurn /\ phase[c] = "reading" /\ queue[c] = <<>>
    BY <1>8 DEF GetTimesOut, LoopFree
  <2>2. ~Ended(j)
    BY <1>t, <2>0, <2>1 DEF ClientIsSound, QueueOfJob
  <2>3. status[j] \notin Finished
    BY <1>t, <2>1, <2>2 DEF JobIsSound, JobPhase, Finished, NoTurn
  <2> QED
    BY <1>1, <1>8, <2>0, <2>3 DEF GetTimesOut
<1>9. ASSUME NEW c \in Clients, Disconnect(c)
      PROVE  \A d \in Clients : ClientIsSound(d)'
  <2>1. /\ phase[c] # "none" /\ phase'[c] = "gone"
        /\ \A d \in Clients : d # c => phase'[d] = phase[d] /\ queue'[d] = queue[d]
        /\ UNCHANGED <<jobVars, of, terminal, got, lagged>>
    BY <1>t, <1>9 DEF Disconnect, Leave, TypeOK
  <2>2. ClientIsSound(c)'
    BY <1>t, <2>1 DEF ClientIsSound, GotOfJob, QueueOfJob
  <2>3. \A d \in Clients : d # c => ClientIsSound(d)'
    BY <1>t, <2>1, ClientKept
  <2> QED
    BY <2>2, <2>3
<1>10. ASSUME NEW j \in Jobs, StartJob(j) \/ ThreadReports(j) \/ ThreadReturns(j) \/ WakeJob(j)
       PROVE  UNCHANGED <<made, streamVars>>
  BY <1>10 DEF StartJob, ThreadReports, ThreadReturns, WakeJob
<1>11. ASSUME ReadStatus \/ ReadFields \/ UNCHANGED vars
       PROVE  UNCHANGED <<made, streamVars>>
  BY <1>11 DEF ReadStatus, ReadFields, vars
<1> QED
  BY <1>1, <1>2, <1>3, <1>4, <1>5, <1>6, <1>7, <1>8, <1>9, <1>10, <1>11
  DEF Next, UserStep, JobStep, StreamStep

\* A status read as completed stays completed until the fields are read.
LEMMA SnapshotStep ==
  ASSUME IInv, [Next]_vars
  PROVE  SnapshotData'
<1> USE DEF jobVars, streamVars
<1>t. TypeOK /\ TurnPhase /\ SnapshotData
  BY DEF IInv, JobsAreSound
<1>1. CASE UNCHANGED <<snap, status>>
  BY <1>t, <1>1 DEF SnapshotData
<1>2. ASSUME NEW j \in Jobs, StartJob(j) \/ SourceVanished(j) \/ BeginJob(j)
      PROVE  SnapshotData'
  BY <1>t, <1>2 DEF SnapshotData, StartJob, SourceVanished, BeginJob, Started, TypeOK
<1>3. CASE EndTurn
  BY <1>t, <1>3 DEF SnapshotData, EndTurn, SetField, TurnPhase, TypeOK
<1>4. CASE ReadStatus
  BY <1>t, <1>4 DEF SnapshotData, ReadStatus, TypeOK
<1>5. CASE ReadFields
  BY <1>5 DEF SnapshotData, ReadFields, NoSnap
<1>6. ASSUME NEW j \in Jobs, ThreadReports(j) \/ ThreadReturns(j) \/ RunReport(j) \/ WakeJob(j)
      PROVE  UNCHANGED <<snap, status>>
  BY <1>6 DEF ThreadReports, ThreadReturns, RunReport, WakeJob
<1>7. ASSUME NEW c \in Clients, StreamStep(c) \/ Disconnect(c) \/ \E j \in Jobs : OpenStream(c, j)
      PROVE  UNCHANGED <<snap, status>>
  BY <1>7 DEF StreamStep, Subscribe, Deliver, GetTimesOut, Disconnect, OpenStream
<1> QED
  BY <1>1, <1>2, <1>3, <1>4, <1>5, <1>6, <1>7 DEF Next, UserStep, JobStep, vars

\* The inductive invariant holds before the first job.
LEMMA JobsInit == Init => IInv
<1> SUFFICES ASSUME Init PROVE IInv
  OBVIOUS
<1>1. Typing
  BY TypeInitially
<1>2. \A j \in Jobs : JobPhase(j) /\ JobLine(j) /\ HistoryIsRecent(j)
  BY EmptyLine DEF Init, JobPhase, JobLine, HistoryIsRecent, EndsWith, Done, Ended, NoTurn
<1>3. TurnPhase /\ SnapshotData
  BY DEF Init, TurnPhase, SnapshotData, NoTurn, NoSnap
<1>4. StreamsAreSound /\ StreamInOrder /\ ClosedStreamIsWhole
  BY EmptyLine DEF Init, StreamsAreSound, GotOfJob, QueueOfJob, StreamInOrder, ClosedStreamIsWhole
<1> QED
  BY <1>1, <1>2, <1>3, <1>4 DEF IInv, Typing, JobsAreSound

\* Every step of the jobs and of their clients keeps it.
LEMMA JobStreamStep == IInv /\ [Next]_vars => IInv'
<1> SUFFICES ASSUME IInv, [Next]_vars PROVE IInv'
  OBVIOUS
<1>1. Typing /\ JobsInv
  BY DEF IInv, Typing, JobsInv
<1>2. Typing'
  BY <1>1, TypeStep
<1>3. JobsAreSound'
  BY <1>1, JobsStep
<1> QED
  BY <1>2, <1>3, ClientsStep, SnapshotStep DEF IInv, Typing

\* The inductive invariant holds in every reachable state.
THEOREM Invariance == Spec => []IInv
BY JobsInit, JobStreamStep, PTL DEF Spec

\* What the invariant says of what a client is shown.
LEMMA JobIsShown == IInv => ClientSeesJob
<1> SUFFICES ASSUME IInv PROVE ClientSeesJob
  OBVIOUS
<1>1. CompletedSnapshotHasResult
  BY DEF IInv, JobsAreSound, JobPhase, SnapshotData, CompletedSnapshotHasResult
<1> QED
  BY <1>1 DEF IInv, ClientSeesJob

\* A client is shown its job in order and complete: the stream of publish, Deliver
\* and the close, and the snapshot whose fields are read after its status
\* (stream_job, get_job of routers/synth.py and routers/research.py).
THEOREM JobsAreShown == Spec => []ClientSeesJob
BY Invariance, JobIsShown, PTL

-----------------------------------------------------------------------------
(* Least and largest numbers, and induction over the naturals as a set     *)

\* The order of the naturals as a relation.
Less == {p \in Nat \X Nat : p[1] < p[2]}

\* A set of naturals that is not empty has a least member.
LEMMA LeastNat ==
  ASSUME NEW T, T \subseteq Nat, T # {} PROVE \E n \in T : \A m \in T : n <= m
<1>1. IsWellFoundedOn(Less, Nat)
  <2>1. Less = OpToRel(<, Nat)
    BY Zenon DEF Less, OpToRel
  <2> QED
    BY <2>1, NatLessThanWellFounded, Zenon
<1>2. PICK n \in T : \A m \in T : <<m, n>> \notin Less
  BY <1>1, WFMin, Zenon
<1>3. \A m \in T : n <= m
  <2> SUFFICES ASSUME NEW m \in T PROVE n <= m
    OBVIOUS
  <2>1. m \in Nat /\ n \in Nat
    OBVIOUS
  <2>2. m < n => <<m, n>> \in Less
    BY <2>1 DEF Less
  <2> QED
    BY <1>2, <2>1, <2>2
<1> QED
  BY <1>3

\* A bounded set of naturals that is not empty has a largest member.
LEMMA LargestNat ==
  ASSUME NEW S, S \subseteq Nat, S # {}, NEW b \in Nat, \A i \in S : i <= b
  PROVE  \E n \in S : \A i \in S : i <= n
<1> DEFINE T == {n \in Nat : \A i \in S : i <= n}
<1>1. T # {} /\ T \subseteq Nat
  OBVIOUS
<1> HIDE DEF T
<1>2. PICK n \in T : \A m \in T : n <= m
  BY <1>1, LeastNat
<1>3. n \in Nat /\ \A i \in S : i <= n
  BY DEF T
<1>4. CASE n \in S
  BY <1>3, <1>4
<1>5. CASE n \notin S
  <2>1. PICK x \in S : x \in Nat /\ x <= n /\ x # n
    BY <1>3, <1>5
  <2>2. n - 1 \in Nat /\ \A i \in S : i <= n - 1
    BY <1>3, <1>5, <2>1
  <2>3. n - 1 \in T
    BY <2>2 DEF T
  <2> QED
    BY <1>2, <1>3, <2>3
<1> QED
  BY <1>4, <1>5

\* Max gives it.
LEMMA MaxNat ==
  ASSUME NEW S, S \subseteq Nat, S # {}, NEW b \in Nat, \A i \in S : i <= b
  PROVE  AR!Max(S) \in S /\ \A i \in S : i <= AR!Max(S)
<1>1. \E x \in S : \A y \in S : x >= y
  BY LargestNat
<1>2. AR!Max(S) \in S /\ \A y \in S : AR!Max(S) >= y
  BY <1>1, Zenon DEF AR!Max
<1> QED
  BY <1>2

\* Induction over the naturals, of a set.
LEMMA NatSet ==
  ASSUME NEW T, 0 \in T, \A n \in Nat : n \in T => n + 1 \in T PROVE Nat \subseteq T
<1> SUFFICES ASSUME ~(Nat \subseteq T) PROVE FALSE
  OBVIOUS
<1>1. Nat \ T # {} /\ Nat \ T \subseteq Nat
  OBVIOUS
<1>2. PICK n \in Nat \ T : \A m \in Nat \ T : n <= m
  BY <1>1, LeastNat
<1>3. n \in Nat /\ n # 0 /\ n - 1 \in Nat
  OBVIOUS
<1>4. n - 1 \in T
  BY <1>2, <1>3
<1> QED
  BY <1>3, <1>4

-----------------------------------------------------------------------------
(* Agent runs                                                              *)

\* Every agent has steps.
LEMMA AgentSteps == \A r \in Requests : AR!Steps(r) \in 1 .. 3
BY StreamsAssumption DEF AR!Steps, AR!Plan

\* The ids, and the requests that were begun, counted.
LEMMA AgentCounts ==
  /\ AR!Ids = 1 .. Cardinality(Requests)
  /\ Cardinality(Requests) \in Nat
  /\ AR!RowsAreOfRuns <=> \A i \in AR!Ids : table[i] # "absent" => i <= Cardinality(AR!Opened)
  /\ AR!RowsAreOfRuns' <=> \A i \in AR!Ids : table'[i] # "absent" => i <= Cardinality(AR!Opened')
<1>1. \A S : AR!Cardinality(S) = Cardinality(S)
  BY DEF AR!Cardinality, Cardinality
<1> QED
  BY <1>1, StreamsAssumption, FS_CardinalityType DEF AR!Ids, AR!RowsAreOfRuns

\* The invariant holds before any request.
LEMMA AgentInit == AR!Init => AR!IInv
<1> SUFFICES ASSUME AR!Init PROVE AR!IInv
  OBVIOUS
<1>1. AR!TypeOK
  BY StreamsAssumption, AgentSteps DEF AR!Init, AR!TypeOK
<1>2. \A r \in Requests : AR!RunPhase(r)
  BY AgentSteps DEF AR!Init, AR!RunPhase
<1>3. AR!SpanTellsEnd /\ AR!RowsAreOwn /\ AR!RowsAreOfRuns
  BY DEF AR!Init, AR!SpanTellsEnd, AR!RowsAreOwn, AR!RowsAreOfRuns
<1> QED
  BY <1>1, <1>2, <1>3 DEF AR!IInv

\* Nothing of the rows and of how the streams ended.
RowVars == <<stream, span, table, disturbed>>

\* What is known of the rows stays known while they do not change.
LEMMA RowsStay ==
  ASSUME AR!IInv, UNCHANGED RowVars
  PROVE  AR!SpanTellsEnd' /\ AR!RowsAreOwn' /\ AR!RowsAreOfRuns'
<1>1. AR!SpanTellsEnd /\ AR!RowsAreOwn /\ AR!RowsAreOfRuns
  BY DEF AR!IInv
<1>2. stream' = stream /\ span' = span /\ table' = table /\ disturbed' = disturbed
  BY DEF RowVars
<1>3. AR!SpanTellsEnd'
  BY <1>1, <1>2, Zenon DEF AR!SpanTellsEnd
<1>4. AR!RowsAreOwn' /\ AR!RowsAreOfRuns'
  BY <1>1, <1>2, Zenon DEF AR!RowsAreOwn, AR!RowsAreOfRuns, AR!Opened
<1> QED
  BY <1>3, <1>4

\* A run whose thread, stream, stages and row a step leaves alone is where it was.
LEMMA OtherRunsStand ==
  ASSUME NEW q \in Requests, AR!RunPhase(q),
         agentThread'[q] = agentThread[q], stream'[q] = stream[q], span'[q] = span[q],
         emitted'[q] = emitted[q], sent'[q] = sent[q]
  PROVE  AR!RunPhase(q)'
BY Zenon DEF AR!RunPhase, AR!ReadsUnguarded, AR!Criteria, AR!Step, AR!Steps

\* An agent goes on, and its stream with what it emitted.
LEMMA AgentGoesOn ==
  ASSUME AR!IInv,
         \/ \E r \in Requests : AR!AgentStep(r) \/ AR!DeliverStage(r)
         \/ UNCHANGED AR!vars
  PROVE  AR!IInv'
<1>1. AR!TypeOK /\ \A r \in Requests : AR!RunPhase(r)
  BY DEF AR!IInv
<1>2. UNCHANGED RowVars
  BY DEF RowVars, AR!AgentStep, AR!ReadFails, AR!ReturnEarly, AR!StartStep, AR!FinishStep,
         AR!ComposeResult, AR!DeliverStage, AR!vars, AR!runVars, AR!rowVars, AR!histVars
<1>3. AR!TypeOK' /\ \A q \in Requests : AR!RunPhase(q)'
  <2>0. ASSUME NEW r \in Requests, AR!TypeOK', AR!RunPhase(r)',
               UNCHANGED <<stream, span>>,
               \A q \in Requests \ {r} : /\ agentThread'[q] = agentThread[q] /\ emitted'[q] = emitted[q]
                                        /\ sent'[q] = sent[q]
        PROVE  AR!TypeOK' /\ \A q \in Requests : AR!RunPhase(q)'
    BY <1>1, <2>0, OtherRunsStand, Zenon
  <2>1. ASSUME NEW r \in Requests, AR!ReadFails(r) PROVE AR!TypeOK' /\ \A q \in Requests : AR!RunPhase(q)'
    <3>1. AR!TypeOK'
      BY <1>1, <1>2, <2>1, AgentSteps DEF AR!TypeOK, AR!RunPhase, RowVars, AR!ReadFails, AR!Working, AR!histVars
    <3>2. AR!RunPhase(r)'
      BY <1>1, <1>2, <2>1, AgentSteps DEF AR!TypeOK, AR!RunPhase, RowVars, AR!ReadFails, AR!Working,
         AR!ReadsUnguarded, AR!Criteria, AR!Step, AR!Steps
    <3> QED
      BY <1>1, <1>2, <2>0, <2>1, <3>1, <3>2 DEF AR!TypeOK, RowVars, AR!ReadFails, AR!Working
  <2>2. ASSUME NEW r \in Requests, AR!ReturnEarly(r) PROVE AR!TypeOK' /\ \A q \in Requests : AR!RunPhase(q)'
    <3>1. AR!TypeOK'
      BY <1>1, <1>2, <2>2, AgentSteps DEF AR!TypeOK, AR!RunPhase, RowVars, AR!ReturnEarly, AR!Working, AR!histVars
    <3>2. AR!RunPhase(r)'
      BY <1>1, <1>2, <2>2, AgentSteps DEF AR!TypeOK, AR!RunPhase, RowVars, AR!ReturnEarly, AR!Working
    <3> QED
      BY <1>1, <1>2, <2>0, <2>2, <3>1, <3>2 DEF AR!TypeOK, RowVars, AR!ReturnEarly, AR!Working
  <2>3. ASSUME NEW r \in Requests, AR!StartStep(r) PROVE AR!TypeOK' /\ \A q \in Requests : AR!RunPhase(q)'
    <3>1. AR!TypeOK'
      BY <1>1, <1>2, <2>3, AgentSteps DEF AR!TypeOK, AR!RunPhase, RowVars, AR!StartStep, AR!Working, AR!Emit, AR!histVars
    <3>2. AR!RunPhase(r)'
      BY <1>1, <1>2, <2>3, AgentSteps DEF AR!TypeOK, AR!RunPhase, RowVars, AR!StartStep, AR!Working, AR!Emit
    <3> QED
      BY <1>1, <1>2, <2>0, <2>3, <3>1, <3>2 DEF AR!TypeOK, RowVars, AR!StartStep, AR!Working, AR!Emit
  <2>4. ASSUME NEW r \in Requests, AR!FinishStep(r) PROVE AR!TypeOK' /\ \A q \in Requests : AR!RunPhase(q)'
    <3>1. AR!TypeOK'
      BY <1>1, <1>2, <2>4, AgentSteps DEF AR!TypeOK, AR!RunPhase, RowVars, AR!FinishStep, AR!Working, AR!Emit, AR!histVars
    <3>2. AR!RunPhase(r)'
      BY <1>1, <1>2, <2>4, AgentSteps DEF AR!TypeOK, AR!RunPhase, RowVars, AR!FinishStep, AR!Working, AR!Emit
    <3> QED
      BY <1>1, <1>2, <2>0, <2>4, <3>1, <3>2 DEF AR!TypeOK, RowVars, AR!FinishStep, AR!Working, AR!Emit
  <2>5. ASSUME NEW r \in Requests, AR!ComposeResult(r) PROVE AR!TypeOK' /\ \A q \in Requests : AR!RunPhase(q)'
    <3>1. AR!TypeOK'
      BY <1>1, <1>2, <2>5, AgentSteps DEF AR!TypeOK, AR!RunPhase, RowVars, AR!ComposeResult, AR!Working, AR!Emit, AR!histVars
    <3>2. AR!RunPhase(r)'
      BY <1>1, <1>2, <2>5, AgentSteps DEF AR!TypeOK, AR!RunPhase, RowVars, AR!ComposeResult, AR!Working, AR!Emit
    <3> QED
      BY <1>1, <1>2, <2>0, <2>5, <3>1, <3>2 DEF AR!TypeOK, RowVars, AR!ComposeResult, AR!Working, AR!Emit
  <2>6. ASSUME NEW r \in Requests, AR!DeliverStage(r) PROVE AR!TypeOK' /\ \A q \in Requests : AR!RunPhase(q)'
    <3>1. AR!TypeOK'
      BY <1>1, <1>2, <2>6, AgentSteps DEF AR!TypeOK, AR!RunPhase, RowVars, AR!DeliverStage, AR!histVars
    <3>2. AR!RunPhase(r)'
      BY <1>1, <1>2, <2>6, AgentSteps DEF AR!TypeOK, AR!RunPhase, RowVars, AR!DeliverStage,
         AR!ReadsUnguarded, AR!Criteria, AR!Step, AR!Steps
    <3> QED
      BY <1>1, <1>2, <2>0, <2>6, <3>1, <3>2 DEF AR!TypeOK, RowVars, AR!DeliverStage
  <2>7. CASE UNCHANGED AR!vars
    <3>1. AR!TypeOK'
      BY <1>1, <2>7, Zenon DEF AR!TypeOK, AR!vars, AR!runVars, AR!rowVars, AR!histVars
    <3>2. \A q \in Requests : AR!RunPhase(q)'
      BY <1>1, <2>7, OtherRunsStand, Zenon DEF AR!vars, AR!runVars, AR!rowVars
    <3> QED
      BY <3>1, <3>2
  <2> QED
    BY <2>1, <2>2, <2>3, <2>4, <2>5, <2>6, <2>7 DEF AR!AgentStep
<1>4. AR!SpanTellsEnd' /\ AR!RowsAreOwn' /\ AR!RowsAreOfRuns'
  BY <1>2, RowsStay
<1> QED
  BY <1>3, <1>4 DEF AR!IInv

\* The next id is free, and there is one.
LEMMA NextIdIsFree ==
  ASSUME AR!IInv, NEW r \in Requests, stream[r] = "new"
  PROVE  /\ AR!NextId \in AR!Ids /\ table[AR!NextId] = "absent"
         /\ AR!NextId <= Cardinality(AR!Opened) + 1
<1>1. AR!RowsAreOfRuns /\ IsFiniteSet(Requests)
  BY StreamsAssumption DEF AR!IInv
<1>2. /\ AR!Opened \subseteq Requests /\ IsFiniteSet(AR!Opened)
      /\ Cardinality(AR!Opened) \in Nat /\ Cardinality(Requests) \in Nat
  <2>1. AR!Opened \subseteq Requests
    BY DEF AR!Opened
  <2> QED
    BY <1>1, <2>1, FS_Subset, FS_CardinalityType
<1>3. Cardinality(AR!Opened) + 1 <= Cardinality(Requests)
  <2>1. r \notin AR!Opened /\ AR!Opened \cup {r} \subseteq Requests
    BY DEF AR!Opened
  <2>2. Cardinality(AR!Opened \cup {r}) = Cardinality(AR!Opened) + 1
    BY <1>2, <2>1, FS_AddElement
  <2>3. Cardinality(AR!Opened \cup {r}) <= Cardinality(Requests)
    BY <1>1, <2>1, FS_Subset
  <2> QED
    BY <2>2, <2>3
<1> DEFINE Used == {0} \cup {i \in AR!Ids : table[i] # "absent"}
<1>4. Used \subseteq Nat /\ Used # {} /\ \A i \in Used : i <= Cardinality(AR!Opened)
  <2>1. \A i \in AR!Ids : i \in Nat
    BY AgentCounts
  <2>2. \A i \in AR!Ids : table[i] # "absent" => i <= Cardinality(AR!Opened)
    BY <1>1, AgentCounts
  <2> QED
    BY <1>2, <2>1, <2>2
<1>5. AR!Max(Used) \in Used /\ \A i \in Used : i <= AR!Max(Used)
  <2> HIDE DEF Used
  <2> QED
    BY <1>2, <1>4, MaxNat
<1>6. AR!NextId = 1 + AR!Max(Used)
  BY DEF AR!NextId
<1>7. PICK m \in Nat : m = AR!Max(Used)
  BY <1>4, <1>5
<1>8. m \in Used /\ (\A i \in Used : i <= m) /\ m <= Cardinality(AR!Opened)
  BY <1>4, <1>5, <1>7
<1>9. m + 1 \in AR!Ids
  BY <1>2, <1>3, <1>8, AgentCounts
<1>10. m + 1 \notin Used
  <2> HIDE DEF Used
  <2> QED
    BY <1>8
<1>11. AR!NextId = m + 1
  BY <1>6, <1>7
<1>12. table[m + 1] = "absent"
  BY <1>9, <1>10
<1>13. m + 1 <= Cardinality(AR!Opened) + 1
  BY <1>2, <1>8
<1> HIDE DEF Used
<1> QED
  BY <1>9, <1>11, <1>12, <1>13

\* A run begins with a row of its own or with none.
LEMMA RunBegins ==
  ASSUME AR!IInv, NEW r \in Requests, AR!OpenStream(r) PROVE AR!IInv'
<1>1. /\ AR!TypeOK /\ (\A q \in Requests : AR!RunPhase(q))
      /\ AR!SpanTellsEnd /\ AR!RowsAreOwn /\ AR!RowsAreOfRuns
  BY DEF AR!IInv
<1>2. /\ stream[r] = "new" /\ stream' = [stream EXCEPT ![r] = "open"]
      /\ agentThread' = [agentThread EXCEPT ![r] = "working"]
      /\ AR!OpenSpan(r) /\ UNCHANGED <<emitted, sent, unasked>>
  BY DEF AR!OpenStream
<1>3. PICK n \in AR!Ids : n = AR!NextId /\ table[n] = "absent" /\ n <= Cardinality(AR!Opened) + 1
  BY <1>2, NextIdIsFree
<1>4. span[r] = 0 /\ emitted[r] = 0 /\ n # 0
  BY <1>1, <1>2 DEF AR!RunPhase, AR!Ids
<1>5. \/ /\ span' = [span EXCEPT ![r] = n] /\ table' = [table EXCEPT ![n] = "open"]
         /\ disturbed' = disturbed \cup {q \in Requests : span[q] = n}
         /\ agentFaults' = agentFaults
      \/ /\ agentFaults < MaxFaults /\ agentFaults' = agentFaults + 1
         /\ disturbed' = disturbed \cup {r} /\ span' = span /\ table' = table
  BY <1>2, <1>3 DEF AR!OpenSpan, AR!Fault, AR!rowVars
<1>6. AR!TypeOK'
  <2>1. agentFaults' \in 0 .. MaxFaults
    BY <1>1, <1>5, StreamsAssumption DEF AR!TypeOK
  <2>2. span' \in [Requests -> {0} \cup AR!Ids]
    BY <1>1, <1>5 DEF AR!TypeOK
  <2>3. table' \in [AR!Ids -> {"absent", "open", "success", "failure"}] /\ disturbed' \subseteq Requests
    BY <1>1, <1>5 DEF AR!TypeOK
  <2>4. /\ agentThread' \in [Requests -> {"none", "working", "returned", "raised", "killed"}]
        /\ stream' \in [Requests -> {"new", "open", "complete", "error", "gone", "killed"}]
    BY <1>1, <1>2 DEF AR!TypeOK
  <2> QED
    BY <1>1, <1>2, <2>1, <2>2, <2>3, <2>4 DEF AR!TypeOK
<1>7. \A q \in Requests : AR!RunPhase(q)'
  <2> SUFFICES ASSUME NEW q \in Requests PROVE AR!RunPhase(q)'
    OBVIOUS
  <2>1. CASE q = r
    <3>1. stream'[q] = "open" /\ agentThread'[q] = "working" /\ emitted'[q] = 0
      BY <1>1, <1>2, <1>4, <2>1 DEF AR!TypeOK
    <3> QED
      BY <3>1, AgentSteps DEF AR!RunPhase, AR!Steps
  <2>2. CASE q # r
    <3>1. /\ stream'[q] = stream[q] /\ agentThread'[q] = agentThread[q] /\ emitted'[q] = emitted[q]
          /\ sent'[q] = sent[q] /\ span'[q] = span[q]
      BY <1>1, <1>2, <1>5, <2>2 DEF AR!TypeOK
    <3> QED
      BY <1>1, <3>1, OtherRunsStand, Zenon
  <2> QED
    BY <2>1, <2>2
<1>8. AR!SpanTellsEnd'
  <2> SUFFICES ASSUME NEW q \in Requests \ disturbed', span'[q] # 0
               PROVE  CASE stream'[q] \in {"open", "killed"}     -> table'[span'[q]] = "open"
                        [] stream'[q] \in {"complete", "error"}  -> table'[span'[q]] = "success"
                        [] stream'[q] = "gone"                   -> table'[span'[q]] = "failure"
    BY Zenon DEF AR!SpanTellsEnd
  <2>1. CASE q = r
    BY <1>1, <1>2, <1>4, <1>5, <2>1 DEF AR!TypeOK
  <2>2. CASE q # r
    <3>1. q \notin disturbed /\ span'[q] = span[q] /\ stream'[q] = stream[q]
      BY <1>1, <1>2, <1>5, <2>2 DEF AR!TypeOK
    <3>2. table'[span[q]] = table[span[q]]
      BY <1>1, <1>5, <3>1 DEF AR!TypeOK
    <3> QED
      BY <1>1, <3>1, <3>2, Zenon DEF AR!SpanTellsEnd
  <2> QED
    BY <2>1, <2>2
<1>9. AR!RowsAreOwn'
  <2> SUFFICES ASSUME NEW p \in Requests \ disturbed', NEW q \in Requests \ disturbed',
                      span'[p] = span'[q], span'[p] # 0
               PROVE  p = q
    BY Zenon DEF AR!RowsAreOwn
  <2> QED
    BY <1>1, <1>4, <1>5 DEF AR!RowsAreOwn, AR!TypeOK
<1>10. AR!RowsAreOfRuns'
  <2>1. AR!Opened' = AR!Opened \cup {r} /\ r \notin AR!Opened
    BY <1>1, <1>2 DEF AR!Opened, AR!TypeOK
  <2>2. Cardinality(AR!Opened') = Cardinality(AR!Opened) + 1 /\ Cardinality(AR!Opened) \in Nat
    <3>1. IsFiniteSet(AR!Opened)
      BY StreamsAssumption, FS_Subset DEF AR!Opened
    <3> QED
      BY <2>1, <3>1, FS_AddElement, FS_CardinalityType
  <2>3. \A i \in AR!Ids : table'[i] # "absent" => table[i] # "absent" \/ i = n
    BY <1>1, <1>5 DEF AR!TypeOK
  <2>4. \A i \in AR!Ids : table[i] # "absent" => i <= Cardinality(AR!Opened)
    BY <1>1, AgentCounts
  <2>5. \A i \in AR!Ids : i \in Nat
    BY AgentCounts
  <2>6. \A i \in AR!Ids : table'[i] # "absent" => i <= Cardinality(AR!Opened')
    BY <1>3, <2>2, <2>3, <2>4, <2>5
  <2> QED
    BY <2>6, AgentCounts
<1> QED
  BY <1>6, <1>7, <1>8, <1>9, <1>10 DEF AR!IInv

\* A stream ends, drained or because its client went away.
LEMMA RunEnds ==
  ASSUME AR!IInv, NEW r \in Requests, AR!CloseStream(r) \/ AR!Disconnect(r) PROVE AR!IInv'
<1>1. /\ AR!TypeOK /\ (\A q \in Requests : AR!RunPhase(q))
      /\ AR!SpanTellsEnd /\ AR!RowsAreOwn /\ AR!RowsAreOfRuns
  BY DEF AR!IInv
<1>2. PICK end \in {"complete", "error", "gone"}, outcome \in {"success", "failure"} :
        /\ stream[r] = "open" /\ stream' = [stream EXCEPT ![r] = end]
        /\ outcome = "failure" <=> end = "gone"
        /\ end # "gone" => sent[r] = emitted[r]
        /\ (end = "complete" => agentThread[r] = "returned") /\ (end = "error" => agentThread[r] = "raised")
        /\ AR!CloseSpan(r, outcome)
        /\ UNCHANGED <<agentThread, emitted, sent, span, unasked>>
  BY DEF AR!CloseStream, AR!Disconnect
<1>3. \/ /\ table' = IF span[r] # 0 /\ table[span[r]] # "absent"
                     THEN [table EXCEPT ![span[r]] = outcome] ELSE table
         /\ disturbed' = disturbed \cup {q \in Requests : span[q] = span[r] /\ r \in disturbed}
         /\ agentFaults' = agentFaults
      \/ /\ agentFaults < MaxFaults /\ agentFaults' = agentFaults + 1
         /\ disturbed' = disturbed \cup {r} /\ table' = table
  BY <1>2 DEF AR!CloseSpan, AR!Fault
<1>4. \A q \in Requests : stream'[q] = IF q = r THEN end ELSE stream[q]
  BY <1>1, <1>2 DEF AR!TypeOK
<1>5. AR!TypeOK'
  <2>1. agentFaults' \in 0 .. MaxFaults
    BY <1>1, <1>3, StreamsAssumption DEF AR!TypeOK
  <2>2. table' \in [AR!Ids -> {"absent", "open", "success", "failure"}] /\ disturbed' \subseteq Requests
    BY <1>1, <1>3 DEF AR!TypeOK
  <2>3. stream' \in [Requests -> {"new", "open", "complete", "error", "gone", "killed"}]
    BY <1>1, <1>2 DEF AR!TypeOK
  <2> QED
    BY <1>1, <1>2, <2>1, <2>2, <2>3 DEF AR!TypeOK
<1>6. \A q \in Requests : AR!RunPhase(q)'
  <2> SUFFICES ASSUME NEW q \in Requests PROVE AR!RunPhase(q)'
    OBVIOUS
  <2>1. CASE q = r
    <3>1. AR!RunPhase(q) /\ emitted' = emitted /\ sent' = sent /\ agentThread' = agentThread /\ span' = span
      BY <1>1, <1>2
    <3>2. AR!ReadsUnguarded(q)' = AR!ReadsUnguarded(q)
      BY <3>1 DEF AR!ReadsUnguarded, AR!Criteria, AR!Step, AR!Steps
    <3> QED
      BY <1>2, <1>4, <2>1, <3>1, <3>2 DEF AR!RunPhase, AR!Steps
  <2>2. CASE q # r
    BY <1>1, <1>2, <1>4, <2>2, OtherRunsStand, Zenon
  <2> QED
    BY <2>1, <2>2
<1>7. AR!SpanTellsEnd'
  <2> SUFFICES ASSUME NEW q \in Requests \ disturbed', span[q] # 0
               PROVE  CASE stream'[q] \in {"open", "killed"}     -> table'[span[q]] = "open"
                        [] stream'[q] \in {"complete", "error"}  -> table'[span[q]] = "success"
                        [] stream'[q] = "gone"                   -> table'[span[q]] = "failure"
    BY <1>2, Zenon DEF AR!SpanTellsEnd
  <2>1. q \notin disturbed /\ span[q] \in AR!Ids
    BY <1>1, <1>3 DEF AR!TypeOK
  <2>2. CASE q = r
    <3>1. table[span[q]] = "open"
      BY <1>1, <1>2, <2>1, <2>2, Zenon DEF AR!SpanTellsEnd
    <3>2. table'[span[q]] = outcome
      BY <1>1, <1>3, <2>1, <2>2, <3>1 DEF AR!TypeOK
    <3> QED
      BY <1>2, <1>4, <2>2, <3>2
  <2>3. CASE q # r
    <3>1. table'[span[q]] = table[span[q]]
      <4>1. CASE span[r] = span[q]
        <5>1. r \in disturbed
          BY <1>1, <2>1, <2>3, <4>1 DEF AR!RowsAreOwn
        <5> QED
          BY <1>3, <4>1, <5>1
      <4>2. CASE span[r] # span[q]
        BY <1>1, <1>3, <2>1, <4>2 DEF AR!TypeOK
      <4> QED
        BY <4>1, <4>2
    <3> QED
      BY <1>1, <1>4, <2>1, <2>3, <3>1, Zenon DEF AR!SpanTellsEnd
  <2> QED
    BY <2>2, <2>3
<1>8. AR!RowsAreOwn'
  BY <1>1, <1>2, <1>3 DEF AR!RowsAreOwn
<1>9. AR!RowsAreOfRuns'
  <2>1. AR!Opened' = AR!Opened
    BY <1>2, <1>4 DEF AR!Opened
  <2>2. \A i \in AR!Ids : table'[i] # "absent" => table[i] # "absent"
    BY <1>1, <1>3 DEF AR!TypeOK
  <2>3. \A i \in AR!Ids : table[i] # "absent" => i <= Cardinality(AR!Opened)
    BY <1>1, AgentCounts
  <2>4. \A i \in AR!Ids : table'[i] # "absent" => i <= Cardinality(AR!Opened')
    BY <2>1, <2>2, <2>3
  <2> QED
    BY <2>4, AgentCounts
<1> QED
  BY <1>5, <1>6, <1>7, <1>8, <1>9 DEF AR!IInv

\* The rows are cleared: every run that had one is disturbed.
LEMMA RowsAreCleared == ASSUME AR!IInv, AR!ClearTraces PROVE AR!IInv'
<1>1. /\ AR!TypeOK /\ (\A q \in Requests : AR!RunPhase(q))
  BY DEF AR!IInv
<1>2. /\ table' = [i \in AR!Ids |-> "absent"]
      /\ disturbed' = disturbed \cup {r \in Requests : span[r] # 0}
      /\ agentThread' = agentThread /\ emitted' = emitted /\ sent' = sent /\ stream' = stream
      /\ span' = span /\ agentFaults' = agentFaults /\ unasked' = unasked
  BY DEF AR!ClearTraces, AR!runVars
<1>3. AR!TypeOK'
  BY <1>1, <1>2 DEF AR!TypeOK
<1>4. \A q \in Requests : AR!RunPhase(q)'
  BY <1>1, <1>2, OtherRunsStand, Zenon
<1>5. \A q \in Requests \ disturbed' : span'[q] = 0
  BY <1>2
<1>6. AR!SpanTellsEnd' /\ AR!RowsAreOwn'
  BY <1>5, Zenon DEF AR!SpanTellsEnd, AR!RowsAreOwn
<1>7. AR!RowsAreOfRuns'
  BY <1>2 DEF AR!RowsAreOfRuns
<1> QED
  BY <1>3, <1>4, <1>6, <1>7 DEF AR!IInv

\* The process goes down with its threads and streams.
LEMMA ProcessEnds == ASSUME AR!IInv, AR!RestartAPI PROVE AR!IInv'
<1>1. /\ AR!TypeOK /\ (\A q \in Requests : AR!RunPhase(q))
      /\ AR!SpanTellsEnd /\ AR!RowsAreOwn /\ AR!RowsAreOfRuns
  BY DEF AR!IInv
<1>2. /\ agentFaults < MaxFaults /\ agentFaults' = agentFaults + 1
      /\ agentThread' = [r \in Requests |-> IF agentThread[r] = "working" THEN "killed" ELSE agentThread[r]]
      /\ stream' = [r \in Requests |-> IF stream[r] = "open" THEN "killed" ELSE stream[r]]
      /\ emitted' = emitted /\ sent' = sent /\ span' = span /\ table' = table
      /\ unasked' = unasked /\ disturbed' = disturbed
  BY DEF AR!RestartAPI, AR!Fault, AR!rowVars, AR!histVars
<1>3. AR!TypeOK'
  BY <1>1, <1>2, StreamsAssumption DEF AR!TypeOK
<1>4. \A q \in Requests : AR!RunPhase(q)'
  <2> SUFFICES ASSUME NEW q \in Requests PROVE AR!RunPhase(q)'
    OBVIOUS
  <2>1. /\ AR!RunPhase(q) /\ emitted' = emitted /\ sent' = sent /\ span' = span
        /\ agentThread'[q] = IF agentThread[q] = "working" THEN "killed" ELSE agentThread[q]
        /\ stream'[q] = IF stream[q] = "open" THEN "killed" ELSE stream[q]
    BY <1>1, <1>2
  <2>2. AR!ReadsUnguarded(q)' = AR!ReadsUnguarded(q)
    BY <2>1 DEF AR!ReadsUnguarded, AR!Criteria, AR!Step, AR!Steps
  <2> QED
    BY <2>1, <2>2, Zenon DEF AR!RunPhase, AR!Steps
<1>5. AR!SpanTellsEnd'
  <2> SUFFICES ASSUME NEW q \in Requests \ disturbed, span[q] # 0
               PROVE  CASE stream'[q] \in {"open", "killed"}     -> table[span[q]] = "open"
                        [] stream'[q] \in {"complete", "error"}  -> table[span[q]] = "success"
                        [] stream'[q] = "gone"                   -> table[span[q]] = "failure"
    BY <1>2, Zenon DEF AR!SpanTellsEnd
  <2>1. stream[q] = "open" => table[span[q]] = "open"
    BY <1>1, Zenon DEF AR!SpanTellsEnd
  <2>2. CASE stream[q] = "open"
    BY <1>2, <2>1, <2>2
  <2>3. CASE stream[q] # "open"
    BY <1>1, <1>2, <2>3, Zenon DEF AR!SpanTellsEnd
  <2> QED
    BY <2>2, <2>3
<1>6. AR!RowsAreOwn'
  BY <1>1, <1>2, Zenon DEF AR!RowsAreOwn
<1>7. AR!RowsAreOfRuns'
  <2>1. AR!Opened' = AR!Opened
    BY <1>2 DEF AR!Opened
  <2>2. \A i \in AR!Ids : table[i] # "absent" => i <= Cardinality(AR!Opened')
    BY <1>1, <2>1, AgentCounts
  <2> QED
    BY <1>2, <2>2, AgentCounts
<1> QED
  BY <1>3, <1>4, <1>5, <1>6, <1>7 DEF AR!IInv

\* The invariant of the agent runs survives every step.
LEMMA AgentStays == AR!IInv /\ [AR!Next]_(AR!vars) => AR!IInv'
BY AgentGoesOn, RunBegins, RunEnds, RowsAreCleared, ProcessEnds, Zenon DEF AR!Next

\* A run that ended is whole and its row tells how it ended.
LEMMA AgentsAreSeen == AR!IInv => AR!AgentRunIsSeen
<1> SUFFICES ASSUME AR!IInv PROVE AR!CompleteIsWhole /\ AR!SpanTellsEnd
  BY DEF AR!AgentRunIsSeen
<1> QED
  BY DEF AR!IInv, AR!RunPhase, AR!CompleteIsWhole

-----------------------------------------------------------------------------
(* The research report                                                     *)

\* The bounds on hits and sections, and the number of backends.
LEMMA ReportBounds ==
  /\ MaxHits \in Nat /\ MinSections \in Nat /\ MaxSections \in Nat /\ FallbackSections \in Nat
  /\ MinSections <= FallbackSections /\ FallbackSections <= MaxSections
  /\ Len(Backends) \in Nat
BY StreamsAssumption

\* The stages of a report.
Told == {"start", "done"} \X (0 .. MaxSections) \X (1 .. MaxSections)

\* No backend has been asked at first.
LEMMA ReportInit == RE!Init => RE!IInv
<1> SUFFICES ASSUME RE!Init PROVE RE!IInv
  OBVIOUS
<1>1. RE!TypeOK
  BY ReportBounds DEF RE!Init, RE!TypeOK, RE!Results
<1>2. RE!StagePhase /\ RE!ReportIsWhole
  BY DEF RE!Init, RE!StagePhase, RE!ReportIsWhole
<1> QED
  BY <1>1, <1>2 DEF RE!IInv

\* The invariant survives a step that tells of no section.
LEMMA ReportIsQuiet ==
  ASSUME RE!IInv,
         \/ RE!SearchEmpty \/ \E n \in 0 .. MaxHits + 1 : RE!SearchHits(n)
         \/ \E n \in 0 .. MaxTitles : RE!Outline(n)
         \/ \E result \in RE!Results : RE!Critique(result) \/ RE!Compare(result)
         \/ UNCHANGED RE!vars
  PROVE  RE!IInv'
<1> USE ReportBounds DEF RE!IInv, RE!TypeOK, RE!StagePhase, RE!Results
<1>1. CASE RE!SearchEmpty
  BY <1>1 DEF RE!SearchEmpty, RE!ReportIsWhole
<1>2. ASSUME NEW n \in 0 .. MaxHits + 1, RE!SearchHits(n) PROVE RE!IInv'
  BY <1>2 DEF RE!SearchHits, RE!Capped, RE!ReportIsWhole
<1>3. ASSUME NEW n \in 0 .. MaxTitles, RE!Outline(n) PROVE RE!IInv'
  <2>1. outline' \in MinSections .. MaxSections /\ outline' \in 0 .. MaxSections
    BY <1>3 DEF RE!Outline, RE!ParseOutline
  <2> QED
    BY <1>3, <2>1 DEF RE!Outline, RE!ReportIsWhole, RE!Started
<1>4. ASSUME NEW result \in RE!Results, RE!Critique(result) PROVE RE!IInv'
  BY <1>4 DEF RE!Critique, RE!ReportIsWhole
<1>5. ASSUME NEW result \in RE!Results, RE!Compare(result) PROVE RE!IInv'
  BY <1>5 DEF RE!Compare, RE!ReportIsWhole
<1>6. CASE UNCHANGED RE!vars
  BY <1>6, ZenonT(40) DEF RE!vars, RE!ReportIsWhole, RE!Started
<1> QED
  BY <1>1, <1>2, <1>3, <1>4, <1>5, <1>6

\* A section begins.
LEMMA SectionStarts ==
  ASSUME RE!IInv, RE!StartSection PROVE RE!IInv'
<1>1. /\ stage = "sections" /\ Len(bodies) < outline /\ ~RE!Started
      /\ stages' = Append(stages, <<"start", Len(bodies), outline>>)
      /\ UNCHANGED <<depth, stage, backend, hits, outline, bodies, critique, comparison>>
  BY DEF RE!StartSection
<1>2. /\ RE!TypeOK /\ RE!StagePhase /\ RE!ReportIsWhole /\ stages \in Seq(Told) /\ bodies \in Seq(RE!Results)
      /\ outline \in 0 .. MaxSections
  BY DEF RE!IInv, RE!TypeOK, Told
<1>3. Len(bodies) \in Nat /\ Len(stages) = 2 * Len(bodies)
  BY <1>1, <1>2 DEF RE!StagePhase
<1> PICK n \in Nat : n = Len(bodies)
  BY <1>3
<1>4. <<"start", n, outline>> \in Told
  BY <1>1, <1>2, ReportBounds DEF Told
<1>5. /\ stages' \in Seq(Told) /\ Len(stages') = 2 * n + 1 /\ \A i \in 1 .. 2 * n : stages'[i] = stages[i]
      /\ stages'[2 * n + 1] = <<"start", n, outline>>
  <2> PICK e \in Told, s \in Seq(Told) : e = <<"start", n, outline>> /\ s = stages
    BY <1>2, <1>4
  <2>1. stages' = Append(s, e) /\ Len(s) = 2 * n
    BY <1>1, <1>3
  <2>2. /\ Append(s, e) \in Seq(Told) /\ Len(Append(s, e)) = Len(s) + 1
        /\ \A i \in 1 .. Len(s) : Append(s, e)[i] = s[i]
        /\ Append(s, e)[Len(s) + 1] = e
    BY AppendProperties
  <2> QED
    BY <2>1, <2>2
<1>6. RE!TypeOK'
  BY <1>1, <1>2, <1>5, Zenon DEF RE!TypeOK, Told
<1>7. RE!Started'
  <2>1. RE!Last(stages') = <<"start", n, outline>>
    BY <1>5 DEF RE!Last
  <2> QED
    BY <1>5, <2>1 DEF RE!Started
<1>8. RE!StagePhase'
  BY <1>1, <1>2, <1>5, <1>7 DEF RE!StagePhase
<1>9. RE!ReportIsWhole'
  <2>1. (2 * n + 1) % 2 = 1 /\ (2 * n + 1) \div 2 = n
    OBVIOUS
  <2>2. \A i \in 1 .. 2 * n :
          stages[i] = IF i % 2 = 1 THEN <<"start", i \div 2, outline>> ELSE <<"done", i \div 2, outline>>
    BY <1>2, <1>3 DEF RE!ReportIsWhole
  <2>3. \A i \in 1 .. Len(stages') : i \in 1 .. 2 * n \/ i = 2 * n + 1
    BY <1>5
  <2>4. \A i \in 1 .. Len(stages') :
          stages'[i] = IF i % 2 = 1 THEN <<"start", i \div 2, outline>> ELSE <<"done", i \div 2, outline>>
    BY <1>5, <2>1, <2>2, <2>3
  <2> QED
    BY <1>1, <2>4 DEF RE!ReportIsWhole
<1> QED
  BY <1>6, <1>8, <1>9 DEF RE!IInv

\* A section is written, or its placeholder.
LEMMA SectionEnds ==
  ASSUME RE!IInv, NEW result \in RE!Results, RE!WriteSection(result) PROVE RE!IInv'
<1>1. /\ stage = "sections" /\ RE!Started
      /\ bodies' = Append(bodies, result)
      /\ stages' = Append(stages, <<"done", Len(bodies) + 1, outline>>)
      /\ stage' = IF Len(bodies) + 1 < outline THEN stage
                  ELSE IF depth = "deep" THEN "critique" ELSE "comparison"
      /\ UNCHANGED <<depth, backend, hits, outline, critique, comparison>>
  BY DEF RE!WriteSection
<1>2. /\ RE!TypeOK /\ RE!StagePhase /\ RE!ReportIsWhole /\ stages \in Seq(Told) /\ bodies \in Seq(RE!Results)
      /\ outline \in 0 .. MaxSections
  BY DEF RE!IInv, RE!TypeOK, Told
<1>3. Len(bodies) \in Nat /\ Len(stages) = 2 * Len(bodies) + 1
  BY <1>1, <1>2 DEF RE!StagePhase
<1> PICK n \in Nat : n = Len(bodies)
  BY <1>3
<1>a. n < outline
  <2>1. stages[2 * n + 1] = <<"start", n, outline>>
    <3>1. (2 * n + 1) % 2 = 1 /\ (2 * n + 1) \div 2 = n /\ 2 * n + 1 \in 1 .. Len(stages)
      BY <1>3
    <3> QED
      BY <1>2, <3>1 DEF RE!ReportIsWhole
  <2>2. stages[2 * n + 1] \in Told
    BY <1>2, <1>3
  <2>3. outline # 0
    BY <2>1, <2>2 DEF Told
  <2> QED
    BY <1>1, <1>2, <2>3 DEF RE!StagePhase
<1>4. <<"done", n + 1, outline>> \in Told
  BY <1>2, <1>a, ReportBounds DEF Told
<1>5. /\ stages' \in Seq(Told) /\ Len(stages') = 2 * n + 2 /\ \A i \in 1 .. 2 * n + 1 : stages'[i] = stages[i]
      /\ stages'[2 * n + 2] = <<"done", n + 1, outline>>
      /\ bodies' \in Seq(RE!Results) /\ Len(bodies') = n + 1
  <2> PICK e \in Told, s \in Seq(Told), b \in Seq(RE!Results) :
        e = <<"done", n + 1, outline>> /\ s = stages /\ b = bodies
    BY <1>2, <1>4
  <2>1. stages' = Append(s, e) /\ Len(s) = 2 * n + 1 /\ bodies' = Append(b, result) /\ Len(b) = n
    BY <1>1, <1>3
  <2>2. Append(b, result) \in Seq(RE!Results) /\ Len(Append(b, result)) = n + 1
    BY <2>1
  <2>3. /\ Append(s, e) \in Seq(Told) /\ Len(Append(s, e)) = Len(s) + 1
        /\ \A i \in 1 .. Len(s) : Append(s, e)[i] = s[i]
        /\ Append(s, e)[Len(s) + 1] = e
    BY AppendProperties
  <2> QED
    BY <2>1, <2>2, <2>3
<1>6. RE!TypeOK'
  BY <1>1, <1>2, <1>5, Zenon DEF RE!TypeOK, Told
<1>7. ~RE!Started'
  <2>1. RE!Last(stages') = <<"done", n + 1, outline>>
    BY <1>5 DEF RE!Last
  <2> QED
    BY <1>5, <2>1 DEF RE!Started
<1>8. RE!StagePhase'
  <2>1. outline \in MinSections .. MaxSections /\ outline # 0 /\ critique = "none" /\ comparison = "none"
    BY <1>1, <1>2, <1>a DEF RE!StagePhase
  <2>2. CASE n + 1 < outline
    BY <1>1, <1>5, <1>7, <2>1, <2>2 DEF RE!StagePhase
  <2>3. CASE n + 1 = outline
    <3>1. stage' = IF depth = "deep" THEN "critique" ELSE "comparison"
      BY <1>1, <2>3
    <3>2. Len(bodies') = outline' /\ Len(stages') = 2 * outline'
      BY <1>1, <1>5, <2>3
    <3> QED
      BY <1>1, <2>1, <3>1, <3>2 DEF RE!StagePhase
  <2> QED
    BY <1>2, <1>a, <2>2, <2>3
<1>9. RE!ReportIsWhole'
  <2>1. (2 * n + 2) % 2 = 0 /\ (2 * n + 2) \div 2 = n + 1
    OBVIOUS
  <2>2. \A i \in 1 .. 2 * n + 1 :
          stages[i] = IF i % 2 = 1 THEN <<"start", i \div 2, outline>> ELSE <<"done", i \div 2, outline>>
    BY <1>2, <1>3 DEF RE!ReportIsWhole
  <2>3. \A i \in 1 .. Len(stages') : i \in 1 .. 2 * n + 1 \/ i = 2 * n + 2
    BY <1>5
  <2>4. \A i \in 1 .. Len(stages') :
          stages'[i] = IF i % 2 = 1 THEN <<"start", i \div 2, outline>> ELSE <<"done", i \div 2, outline>>
    BY <1>5, <2>1, <2>2, <2>3
  <2> QED
    BY <1>1, <2>4 DEF RE!ReportIsWhole
<1> QED
  BY <1>6, <1>8, <1>9 DEF RE!IInv

\* The invariant of a report survives every step of the pipeline.
LEMMA ReportStep == RE!IInv /\ [RE!Next]_(RE!vars) => RE!IInv'
BY ReportIsQuiet, SectionStarts, SectionEnds, Zenon DEF RE!Next

-----------------------------------------------------------------------------
(* Sequences that a recursive function joins, and the replay of the rows   *)

\* The parts g[1], g[2], ... joined, as far as n.
Joins(f, g, n) == f = [i \in 0 .. n |-> IF i = 0 THEN <<>> ELSE f[i - 1] \o g[i]]

\* The parts can be joined as far as any n,
LEMMA JoinsExist == ASSUME NEW g PROVE \A n \in Nat : \E f : Joins(f, g, n)
<1> DEFINE T == {n \in Nat : \E f : Joins(f, g, n)}
<1>1. 0 \in T
  <2>1. Joins([i \in 0 .. 0 |-> <<>>], g, 0)
    BY DEF Joins
  <2> QED
    BY <2>1
<1>2. \A n \in Nat : n \in T => n + 1 \in T
  <2> SUFFICES ASSUME NEW n \in Nat, NEW f, Joins(f, g, n) PROVE \E h : Joins(h, g, n + 1)
    OBVIOUS
  <2> DEFINE h == [i \in 0 .. n + 1 |-> IF i = n + 1 THEN f[n] \o g[n + 1] ELSE f[i]]
  <2>1. ASSUME NEW i \in 0 .. n + 1 PROVE h[i] = IF i = 0 THEN <<>> ELSE h[i - 1] \o g[i]
    <3>1. CASE i = 0
      <4>1. f[0] = <<>>
        BY DEF Joins
      <4> QED
        BY <3>1, <4>1
    <3>2. CASE i \in 1 .. n
      <4>0. i \in 0 .. n /\ i # 0
        BY <3>2
      <4>1. f[i] = f[i - 1] \o g[i]
        BY <4>0, Zenon DEF Joins
      <4>2. h[i] = f[i] /\ h[i - 1] = f[i - 1] /\ i # 0
        BY <3>2
      <4> QED
        BY <4>1, <4>2
    <3>3. CASE i = n + 1
      <4>1. h[i] = f[n] \o g[n + 1] /\ h[i - 1] = f[n] /\ i # 0
        BY <3>3
      <4> QED
        BY <3>3, <4>1
    <3> QED
      BY <3>1, <3>2, <3>3
  <2> DEFINE e == [i \in 0 .. n + 1 |-> IF i = 0 THEN <<>> ELSE h[i - 1] \o g[i]]
  <2>2. h = e
    <3>1. \A i \in 0 .. n + 1 : h[i] = e[i]
      BY <2>1
    <3> QED
      BY <3>1
  <2>3. Joins(h, g, n + 1)
    BY <2>2 DEF Joins
  <2> QED
    BY <2>3
<1>3. Nat \subseteq T
  <2> HIDE DEF T
  <2> QED
    BY <1>1, <1>2, NatSet
<1> QED
  BY <1>3

\* in one way,
LEMMA JoinsAgree ==
  ASSUME NEW g, NEW n \in Nat, NEW m \in Nat, n <= m, NEW f, NEW h, Joins(f, g, n), Joins(h, g, m)
  PROVE  \A i \in 0 .. n : f[i] = h[i]
<1> DEFINE T == {i \in Nat : i <= n => f[i] = h[i]}
<1>1. 0 \in T
  BY DEF Joins
<1>2. \A i \in Nat : i \in T => i + 1 \in T
  <2> SUFFICES ASSUME NEW i \in Nat, f[i] = h[i], i + 1 <= n PROVE f[i + 1] = h[i + 1]
    OBVIOUS
  <2> DEFINE j == i + 1
  <2>1. j \in 0 .. n /\ j \in 0 .. m /\ j # 0 /\ j - 1 = i
    OBVIOUS
  <2> HIDE DEF j
  <2>2. f[j] = f[i] \o g[j] /\ h[j] = h[i] \o g[j]
    BY <2>1, Zenon DEF Joins
  <2> QED
    BY <2>2 DEF j
<1>3. Nat \subseteq T
  <2> HIDE DEF T
  <2> QED
    BY <1>1, <1>2, NatSet
<1> QED
  BY <1>3

\* The recursive function that joins them without end.
JoinsAll(f, g) == f = [n \in Nat |-> IF n = 0 THEN <<>> ELSE f[n - 1] \o g[n]]

\* There is one.
LEMMA JoinOfAll == ASSUME NEW g PROVE \E f : JoinsAll(f, g)
<1> DEFINE part(n) == CHOOSE f : Joins(f, g, n)
           all == [n \in Nat |-> part(n)[n]]
<1>1. \A n \in Nat : Joins(part(n), g, n)
  BY JoinsExist, Zenon
<1>2. ASSUME NEW n \in Nat PROVE all[n] = IF n = 0 THEN <<>> ELSE all[n - 1] \o g[n]
  <2>1. CASE n = 0
    <3>1. Joins(part(0), g, 0)
      BY <1>1
    <3>2. part(0)[0] = <<>>
      BY <3>1 DEF Joins
    <3> QED
      BY <2>1, <3>2
  <2>2. CASE n # 0
    <3>1. n - 1 \in Nat /\ n - 1 <= n /\ n - 1 \in 0 .. n - 1 /\ n \in 0 .. n
      BY <2>2
    <3>2. Joins(part(n), g, n) /\ Joins(part(n - 1), g, n - 1)
      BY <1>1, <3>1
    <3>3. part(n - 1)[n - 1] = part(n)[n - 1]
      <4> HIDE DEF part
      <4> QED
        BY <3>1, <3>2, JoinsAgree
    <3>4. part(n)[n] = part(n)[n - 1] \o g[n]
      <4> HIDE DEF part
      <4> QED
        BY <2>2, <3>1, <3>2, Zenon DEF Joins
    <3> HIDE DEF part
    <3>5. all[n] = part(n)[n] /\ all[n - 1] = part(n - 1)[n - 1]
      BY <3>1
    <3> QED
      BY <2>2, <3>3, <3>4, <3>5
  <2> QED
    BY <2>1, <2>2
<1> DEFINE e == [n \in Nat |-> IF n = 0 THEN <<>> ELSE all[n - 1] \o g[n]]
<1>3. all = e
  <2> HIDE DEF part
  <2>1. \A n \in Nat : all[n] = e[n]
    BY <1>2
  <2> QED
    BY <2>1
<1>4. JoinsAll(all, g)
  <2> HIDE DEF all
  <2> QED
    BY <1>3, Zenon DEF JoinsAll
<1> QED
  BY <1>4

-----------------------------------------------------------------------------
\* How the replay goes from row to row.
LEMMA ReplayGoesOn ==
  /\ Chat!ReplayUpTo[0] = <<>>
  /\ \A n \in Nat : Chat!ReplayUpTo[n + 1] = Chat!ReplayUpTo[n] \o Chat!ReplayRow(n + 1)
<1> PICK g : g = [i \in Nat |-> Chat!ReplayRow(i)]
  OBVIOUS
<1> DEFINE step(f) == [n \in Nat |-> IF n = 0 THEN <<>> ELSE f[n - 1] \o Chat!ReplayRow(n)]
<1>1. \E f : f = step(f)
  <2>1. PICK f : JoinsAll(f, g)
    BY JoinOfAll
  <2>2. \A n \in Nat : g[n] = Chat!ReplayRow(n)
    OBVIOUS
  <2>3. f = step(f)
    BY <2>1, <2>2 DEF JoinsAll
  <2> QED
    BY <2>3
<1>2. Chat!ReplayUpTo = CHOOSE f : f = step(f)
  BY DEF Chat!ReplayUpTo
<1>3. Chat!ReplayUpTo = step(Chat!ReplayUpTo)
  <2> HIDE DEF step
  <2> QED
    BY <1>1, <1>2, Zenon
<1>4. \A n \in Nat : n + 1 \in Nat /\ n + 1 # 0 /\ (n + 1) - 1 = n
  OBVIOUS
<1>5. Chat!ReplayUpTo[0] = <<>>
  BY <1>3
<1>6. ASSUME NEW n \in Nat PROVE Chat!ReplayUpTo[n + 1] = Chat!ReplayUpTo[n] \o Chat!ReplayRow(n + 1)
  <2> PICK m \in Nat : m = n + 1 /\ m # 0 /\ m - 1 = n
    BY <1>4
  <2>1. Chat!ReplayUpTo[m] = Chat!ReplayUpTo[m - 1] \o Chat!ReplayRow(m)
    BY <1>3, Zenon
  <2> QED
    BY <2>1
<1> QED
  BY <1>5, <1>6

\* How the results are read off message by message.
LEMMA ResultsGoOn ==
  ASSUME NEW messages
  PROVE  \E f : /\ Chat!ResultsIn(messages) = f[Len(messages)] /\ f[0] = <<>>
                /\ \A n \in Nat : f[n + 1] = f[n] \o Chat!ResultOf(messages[n + 1])
<1> PICK g : g = [i \in Nat |-> Chat!ResultOf(messages[i])]
  OBVIOUS
<1> DEFINE step(f) == [n \in Nat |-> IF n = 0 THEN <<>> ELSE f[n - 1] \o Chat!ResultOf(messages[n])]
           upTo == CHOOSE f : f = step(f)
<1>1. \E f : f = step(f)
  <2>1. PICK f : JoinsAll(f, g)
    BY JoinOfAll
  <2>2. \A n \in Nat : g[n] = Chat!ResultOf(messages[n])
    OBVIOUS
  <2>3. f = step(f)
    BY <2>1, <2>2 DEF JoinsAll
  <2> QED
    BY <2>3
<1>2. Chat!ResultsIn(messages) = upTo[Len(messages)]
  BY DEF Chat!ResultsIn
<1>3. upTo = step(upTo)
  <2> HIDE DEF step
  <2> QED
    BY <1>1, Zenon
<1> HIDE DEF upTo
<1>4. upTo[0] = <<>>
  BY <1>3
<1>5. ASSUME NEW n \in Nat PROVE upTo[n + 1] = upTo[n] \o Chat!ResultOf(messages[n + 1])
  <2> PICK m \in Nat : m = n + 1 /\ m # 0 /\ m - 1 = n
    OBVIOUS
  <2>1. upTo[m] = upTo[m - 1] \o Chat!ResultOf(messages[m])
    BY <1>3, Zenon
  <2> QED
    BY <2>1
<1> QED
  BY <1>2, <1>4, <1>5

\* Where a member of two joined sequences comes from.
From(a, b, i) ==
  \/ i \in 1 .. Len(a) /\ (a \o b)[i] = a[i]
  \/ i - Len(a) \in 1 .. Len(b) /\ (a \o b)[i] = b[i - Len(a)]

\* A member is from one or the other.
LEMMA Joined ==
  ASSUME NEW S, NEW a \in Seq(S), NEW b \in Seq(S), NEW i \in 1 .. Len(a \o b)
  PROVE  From(a, b, i)
BY DEF From

\* The members of two joined sequences.
AreJoined(c, a, b) ==
  /\ Len(c) = Len(a) + Len(b) /\ Len(a) \in Nat /\ Len(b) \in Nat
  /\ \A k \in 1 .. Len(a) : c[k] = a[k]
  /\ \A k \in 1 .. Len(b) : c[Len(a) + k] = b[k]

\* Joining gives such a sequence.
LEMMA JoinedMembers ==
  ASSUME NEW S, NEW a \in Seq(S), NEW b \in Seq(S) PROVE AreJoined(a \o b, a, b)
BY DEF AreJoined

\* Every member is what a tool message is of.
OfTools(s, messages) ==
  \A k \in 1 .. Len(s) : \E m \in 1 .. Len(messages) :
    messages[m].kind = "tool" /\ messages[m].of = s[k]

\* The results are those of the tool messages.
LEMMA ResultsAreOfMessages ==
  ASSUME NEW messages \in Seq(Chat!Message)
  PROVE  /\ Chat!ResultsIn(messages) \in Seq(ChatStreams)
         /\ OfTools(Chat!ResultsIn(messages), messages)
<1> PICK f : /\ Chat!ResultsIn(messages) = f[Len(messages)] /\ f[0] = <<>>
             /\ \A n \in Nat : f[n + 1] = f[n] \o Chat!ResultOf(messages[n + 1])
  BY ResultsGoOn
<1> DEFINE T == {n \in Nat : n <= Len(messages) => f[n] \in Seq(ChatStreams) /\ OfTools(f[n], messages)}
<1>1. 0 \in T
  <2>1. f[0] \in Seq(ChatStreams) /\ Len(f[0]) = 0
    OBVIOUS
  <2>2. OfTools(f[0], messages)
    BY <2>1 DEF OfTools
  <2> QED
    BY <2>1, <2>2
<1>2. \A n \in Nat : n \in T => n + 1 \in T
  <2> SUFFICES ASSUME NEW n \in Nat, n + 1 <= Len(messages), f[n] \in Seq(ChatStreams), OfTools(f[n], messages)
               PROVE  f[n + 1] \in Seq(ChatStreams) /\ OfTools(f[n + 1], messages)
    <3>1. \A n \in Nat : n + 1 <= Len(messages) => n <= Len(messages)
      OBVIOUS
    <3> QED
      BY <3>1
  <2> PICK b : b = Chat!ResultOf(messages[n + 1])
    OBVIOUS
  <2> PICK a \in Seq(ChatStreams) : a = f[n]
    OBVIOUS
  <2>1. f[n + 1] = a \o b
    OBVIOUS
  <2>2. n + 1 \in 1 .. Len(messages) /\ messages[n + 1] \in Chat!Message
    OBVIOUS
  <2>3. b \in Seq(ChatStreams) /\ OfTools(b, messages)
    <3>1. CASE messages[n + 1].kind = "tool"
      <4>1. messages[n + 1].of \in ChatStreams
        BY <2>2, <3>1 DEF Chat!Message
      <4>2. b = <<messages[n + 1].of>>
        BY <3>1 DEF Chat!ResultOf
      <4> QED
        BY <2>2, <3>1, <4>1, <4>2 DEF OfTools
    <3>2. CASE messages[n + 1].kind # "tool"
      BY <3>2 DEF Chat!ResultOf, OfTools
    <3> QED
      BY <3>1, <3>2
  <2>4. OfTools(a, messages)
    OBVIOUS
  <2>5. a \o b \in Seq(ChatStreams)
    BY <2>3
  <2>6. OfTools(a \o b, messages)
    <3> SUFFICES ASSUME NEW i \in 1 .. Len(a \o b)
                 PROVE  \E m \in 1 .. Len(messages) :
                          messages[m].kind = "tool" /\ messages[m].of = (a \o b)[i]
      BY DEF OfTools
    <3>1. CASE i \in 1 .. Len(a) /\ (a \o b)[i] = a[i]
      BY <2>4, <3>1 DEF OfTools
    <3>2. CASE i - Len(a) \in 1 .. Len(b) /\ (a \o b)[i] = b[i - Len(a)]
      BY <2>3, <3>2 DEF OfTools
    <3>3. From(a, b, i)
      BY <2>3, Joined
    <3> QED
      BY <3>1, <3>2, <3>3 DEF From
  <2> QED
    BY <2>1, <2>5, <2>6, Zenon
<1>3. Nat \subseteq T
  <2> HIDE DEF T
  <2> QED
    BY <1>1, <1>2, NatSet
<1>4. Len(messages) \in T
  BY <1>3
<1> QED
  BY <1>4

\* The results of a turn that called its tool.
LEMMA ResultOfTool ==
  ASSUME NEW s \in ChatStreams PROVE Chat!ResultsIn(<<[kind |-> "tool", of |-> s]>>) = <<s>>
<1> PICK messages : messages = <<[kind |-> "tool", of |-> s]>>
  OBVIOUS
<1>1. Len(messages) = 1 /\ messages[1].kind = "tool" /\ messages[1].of = s
  OBVIOUS
<1> PICK f : /\ Chat!ResultsIn(messages) = f[Len(messages)] /\ f[0] = <<>>
             /\ \A n \in Nat : f[n + 1] = f[n] \o Chat!ResultOf(messages[n + 1])
  BY ResultsGoOn
<1>2. f[1] = f[0] \o Chat!ResultOf(messages[1])
  <2>1. f[0 + 1] = f[0] \o Chat!ResultOf(messages[0 + 1])
    OBVIOUS
  <2> QED
    BY <2>1
<1>3. Chat!ResultOf(messages[1]) = <<s>>
  BY <1>1 DEF Chat!ResultOf
<1>4. f[1] = <<s>>
  BY <1>2, <1>3
<1> QED
  BY <1>1, <1>4

-----------------------------------------------------------------------------
(* The replay                                                              *)

\* What a replay of the first n rows shows: each result behind the message of
\* its row.
Shown(p, n) ==
  \A m \in 1 .. Len(p) :
    /\ p[m].kind # "system"
    /\ p[m].kind = "ai" => p[m].of \in Chat!Rows("assistant") /\ p[m].of <= n
    /\ p[m].kind = "tool" =>
         \E k \in 1 .. m - 1 :
           /\ p[k].kind = "ai"
           /\ \E r \in 1 .. Len(rows[p[k].of].results) : rows[p[k].of].results[r] = p[m].of

\* The question is its last message unless a turn came after.
EndsWithQuestion(p, n) ==
  \A i \in Chat!Rows("user") :
    i <= n /\ (\A j \in i + 1 .. n : rows[j].role = "summary") =>
      p # <<>> /\ p[Len(p)] = [kind |-> "human", of |-> i]

\* The messages of one row.
LEMMA RowIsShown ==
  ASSUME rows \in Seq(Chat!Row), NEW n \in 1 .. Len(rows)
  PROVE  /\ Chat!ReplayRow(n) \in Seq(Chat!Message) /\ Shown(Chat!ReplayRow(n), n)
         /\ rows[n].role = "user" => Chat!ReplayRow(n) = <<[kind |-> "human", of |-> n]>>
         /\ rows[n].role = "summary" => Chat!ReplayRow(n) = <<>>
<1>1. /\ rows[n] \in Chat!Row /\ rows[n].role \in {"user", "assistant", "summary"}
      /\ rows[n].results \in Seq(ChatStreams) /\ n \in Nat
  <2>1. rows[n] \in Chat!Row /\ n \in Nat
    OBVIOUS
  <2>2. \A e \in Chat!Row : e.role \in {"user", "assistant", "summary"} /\ e.results \in Seq(ChatStreams)
    BY Zenon DEF Chat!Row
  <2> QED
    BY <2>1, <2>2, Zenon
<1>2. CASE rows[n].role = "user"
  <2>1. Chat!ReplayRow(n) = <<[kind |-> "human", of |-> n]>>
    BY <1>2 DEF Chat!ReplayRow
  <2>2. [kind |-> "human", of |-> n] \in Chat!Message
    BY <1>1 DEF Chat!Message
  <2> PICK e \in Chat!Message : e = [kind |-> "human", of |-> n]
    BY <2>2
  <2>3. <<e>> \in Seq(Chat!Message) /\ Len(<<e>>) = 1 /\ <<e>>[1] = e /\ e.kind = "human"
    OBVIOUS
  <2>4. Shown(<<e>>, n)
    BY <2>3 DEF Shown
  <2> QED
    BY <1>2, <2>1, <2>3, <2>4
<1>3. CASE rows[n].role = "summary"
  <2>1. Chat!ReplayRow(n) = <<>>
    BY <1>3 DEF Chat!ReplayRow
  <2> QED
    BY <1>3, <2>1 DEF Shown
<1>4. CASE rows[n].role = "assistant"
  <2> DEFINE e == [kind |-> "ai", of |-> n]
             q == rows[n].results
             t == [k \in 1 .. Len(q) |-> [kind |-> "tool", of |-> q[k]]]
  <2>1. Chat!ReplayRow(n) = <<e>> \o t
    BY <1>4 DEF Chat!ReplayRow
  <2>2. e \in Chat!Message /\ e.kind = "ai" /\ e.of = n
    BY <1>1 DEF Chat!Message
  <2>3. Len(q) \in Nat /\ \A k \in 1 .. Len(q) : q[k] \in ChatStreams
    BY <1>1
  <2>4. \A k \in 1 .. Len(q) : [kind |-> "tool", of |-> q[k]] \in Chat!Message
    BY <2>3 DEF Chat!Message
  <2>5. /\ t \in Seq(Chat!Message) /\ Len(t) = Len(q)
        /\ \A k \in 1 .. Len(t) : t[k].kind = "tool" /\ t[k].of = q[k]
    <3>1. t \in [1 .. Len(q) -> Chat!Message]
      BY <2>4, Zenon
    <3>2. \A k \in 1 .. Len(q) : t[k].kind = "tool" /\ t[k].of = q[k]
      OBVIOUS
    <3> HIDE DEF t, q
    <3>3. t \in Seq(Chat!Message) /\ Len(t) = Len(q)
      BY <2>3, <3>1, LenProperties
    <3> QED
      BY <3>2, <3>3
  <2> HIDE DEF e, t
  <2>a. <<e>> \in Seq(Chat!Message)
    BY <2>2
  <2> PICK a \in Seq(Chat!Message), b \in Seq(Chat!Message) : a = <<e>> /\ b = t
    BY <2>5, <2>a, Zenon
  <2>6. Len(a) = 1 /\ a[1] = e
    OBVIOUS
  <2>7. a \o b \in Seq(Chat!Message) /\ (a \o b)[1] = e
    BY <2>6
  <2>8. Shown(a \o b, n)
    <3> SUFFICES ASSUME NEW m \in 1 .. Len(a \o b)
                 PROVE  /\ (a \o b)[m].kind # "system"
                        /\ (a \o b)[m].kind = "ai" =>
                             (a \o b)[m].of \in Chat!Rows("assistant") /\ (a \o b)[m].of <= n
                        /\ (a \o b)[m].kind = "tool" =>
                             \E k \in 1 .. m - 1 :
                               /\ (a \o b)[k].kind = "ai"
                               /\ \E r \in 1 .. Len(rows[(a \o b)[k].of].results) :
                                    rows[(a \o b)[k].of].results[r] = (a \o b)[m].of
      BY Zenon DEF Shown
    <3>1. From(a, b, m)
      BY Joined
    <3>2. CASE m = 1
      BY <1>1, <1>4, <2>2, <2>7, <3>2 DEF Chat!Rows
    <3>3. CASE m - 1 \in 1 .. Len(q) /\ (a \o b)[m].kind = "tool" /\ (a \o b)[m].of = q[m - 1]
      <4>1. 1 \in 1 .. m - 1
        BY <3>3
      <4> QED
        BY <2>2, <2>7, <3>3, <4>1
    <3>4. CASE m \in 1 .. Len(a)
      BY <2>6, <3>2, <3>4
    <3>5. CASE m - Len(a) \in 1 .. Len(b) /\ (a \o b)[m] = b[m - Len(a)]
      <4>1. m - Len(a) = m - 1
        BY <2>6
      <4> QED
        BY <2>5, <3>3, <3>5, <4>1
    <3> QED
      BY <3>1, <3>4, <3>5 DEF From
  <2> QED
    BY <1>4, <2>1, <2>7, <2>8
<1> QED
  BY <1>1, <1>2, <1>3, <1>4

\* The messages of the first rows.
LEMMA ReplayIsShown ==
  ASSUME rows \in Seq(Chat!Row)
  PROVE  \A n \in 0 .. Len(rows) :
           /\ Chat!ReplayUpTo[n] \in Seq(Chat!Message)
           /\ Shown(Chat!ReplayUpTo[n], n) /\ EndsWithQuestion(Chat!ReplayUpTo[n], n)
<1> DEFINE Good(p, n) == p \in Seq(Chat!Message) /\ Shown(p, n) /\ EndsWithQuestion(p, n)
           T == {n \in Nat : n <= Len(rows) => Good(Chat!ReplayUpTo[n], n)}
<1>1. 0 \in T
  <2>1. Shown(<<>>, 0)
    BY DEF Shown
  <2>2. EndsWithQuestion(<<>>, 0)
    BY DEF EndsWithQuestion, Chat!Rows
  <2>3. Chat!ReplayUpTo[0] = <<>> /\ <<>> \in Seq(Chat!Message)
    BY ReplayGoesOn
  <2>4. Good(Chat!ReplayUpTo[0], 0)
    BY <2>1, <2>2, <2>3, Zenon
  <2> HIDE DEF Good
  <2> QED
    BY <2>4
<1>2. \A n \in Nat : n \in T => n + 1 \in T
  <2> SUFFICES ASSUME NEW n \in Nat, n + 1 <= Len(rows), Good(Chat!ReplayUpTo[n], n)
               PROVE  Good(Chat!ReplayUpTo[n + 1], n + 1)
    <3>1. \A m \in Nat : m + 1 <= Len(rows) => m <= Len(rows)
      OBVIOUS
    <3> HIDE DEF Good
    <3> QED
      BY <3>1
  <2>1. n + 1 \in 1 .. Len(rows)
    OBVIOUS
  <2>2. Chat!ReplayRow(n + 1) \in Seq(Chat!Message)
    BY <2>1, RowIsShown
  <2> PICK a \in Seq(Chat!Message), b \in Seq(Chat!Message) :
        a = Chat!ReplayUpTo[n] /\ b = Chat!ReplayRow(n + 1)
    BY <2>2
  <2>3. Chat!ReplayUpTo[n + 1] = a \o b /\ a \o b \in Seq(Chat!Message)
    <3>1. Chat!ReplayUpTo[n + 1] = Chat!ReplayUpTo[n] \o Chat!ReplayRow(n + 1)
      BY ReplayGoesOn
    <3> QED
      BY <3>1
  <2>a. /\ Len(a \o b) = Len(a) + Len(b) /\ Len(a) \in Nat /\ Len(b) \in Nat
        /\ \A k \in 1 .. Len(a) : (a \o b)[k] = a[k]
        /\ \A k \in 1 .. Len(b) : (a \o b)[Len(a) + k] = b[k]
    <3>1. AreJoined(a \o b, a, b)
      BY JoinedMembers
    <3> QED
      BY <3>1, Zenon DEF AreJoined
  <2>4. /\ Shown(a, n) /\ EndsWithQuestion(a, n) /\ Shown(b, n + 1)
        /\ rows[n + 1].role = "user" => b = <<[kind |-> "human", of |-> n + 1]>>
        /\ rows[n + 1].role = "summary" => b = <<>>
    BY <2>1, RowIsShown
  <2>5. Shown(a \o b, n + 1)
    <3> SUFFICES ASSUME NEW m \in 1 .. Len(a \o b)
                 PROVE  /\ (a \o b)[m].kind # "system"
                        /\ (a \o b)[m].kind = "ai" =>
                             (a \o b)[m].of \in Chat!Rows("assistant") /\ (a \o b)[m].of <= n + 1
                        /\ (a \o b)[m].kind = "tool" =>
                             \E k \in 1 .. m - 1 :
                               /\ (a \o b)[k].kind = "ai"
                               /\ \E r \in 1 .. Len(rows[(a \o b)[k].of].results) :
                                    rows[(a \o b)[k].of].results[r] = (a \o b)[m].of
      BY Zenon DEF Shown
    <3>1. From(a, b, m)
      BY Joined
    <3>2. CASE m \in 1 .. Len(a) /\ (a \o b)[m] = a[m]
      <4>1. ASSUME NEW k \in 1 .. m - 1 PROVE (a \o b)[k] = a[k]
        <5>1. k \in 1 .. Len(a)
          BY <3>2
        <5> QED
          BY <5>1, <2>a
      <4>2. /\ a[m].kind # "system"
            /\ a[m].kind = "ai" => a[m].of \in Chat!Rows("assistant") /\ a[m].of <= n
            /\ a[m].kind = "tool" =>
                 \E k \in 1 .. m - 1 :
                   /\ a[k].kind = "ai"
                   /\ \E r \in 1 .. Len(rows[a[k].of].results) : rows[a[k].of].results[r] = a[m].of
        BY <2>4, <3>2, Zenon DEF Shown
      <4>3. a[m].of \in Chat!Rows("assistant") /\ a[m].of <= n => a[m].of <= n + 1
        BY DEF Chat!Rows
      <4> PICK c : c = a \o b
        OBVIOUS
      <4>4. c[m] = a[m] /\ \A k \in 1 .. m - 1 : c[k] = a[k]
        BY <3>2, <4>1
      <4>5. c[m].kind = "tool" =>
              \E k \in 1 .. m - 1 :
                c[k].kind = "ai" /\ \E r \in 1 .. Len(rows[c[k].of].results) : rows[c[k].of].results[r] = c[m].of
        <5> SUFFICES ASSUME a[m].kind = "tool"
                     PROVE  \E k \in 1 .. m - 1 :
                       /\ c[k].kind = "ai"
                       /\ \E r \in 1 .. Len(rows[c[k].of].results) : rows[c[k].of].results[r] = c[m].of
          BY <4>4, Zenon
        <5>1. PICK k \in 1 .. m - 1 :
                /\ a[k].kind = "ai"
                /\ \E r \in 1 .. Len(rows[a[k].of].results) : rows[a[k].of].results[r] = a[m].of
          BY <4>2, Zenon
        <5>2. c[k] = a[k] /\ c[m] = a[m]
          BY <4>4, Zenon
        <5> QED
          BY <5>1, <5>2, Zenon
      <4> QED
        BY <4>2, <4>3, <4>4, <4>5, Zenon
    <3>3. CASE m - Len(a) \in 1 .. Len(b) /\ (a \o b)[m] = b[m - Len(a)]
      <4> PICK l \in 1 .. Len(b) : l = m - Len(a)
        BY <3>3
      <4>1. ASSUME NEW k \in 1 .. l - 1
            PROVE  Len(a) + k \in 1 .. m - 1 /\ (a \o b)[Len(a) + k] = b[k]
        <5>1. k \in 1 .. Len(b) /\ Len(a) \in Nat /\ m \in Nat
          OBVIOUS
        <5>2. Len(a) + k \in 1 .. m - 1
          BY <3>3, <5>1
        <5>3. (a \o b)[Len(a) + k] = b[k]
          BY <5>1, <2>a
        <5> QED
          BY <5>2, <5>3
      <4>2. /\ b[l].kind # "system"
            /\ b[l].kind = "ai" => b[l].of \in Chat!Rows("assistant") /\ b[l].of <= n + 1
            /\ b[l].kind = "tool" =>
                 \E k \in 1 .. l - 1 :
                   /\ b[k].kind = "ai"
                   /\ \E r \in 1 .. Len(rows[b[k].of].results) : rows[b[k].of].results[r] = b[l].of
        BY <2>4, Zenon DEF Shown
      <4> PICK c : c = a \o b
        OBVIOUS
      <4>3. c[m] = b[l] /\ \A k \in 1 .. l - 1 : Len(a) + k \in 1 .. m - 1 /\ c[Len(a) + k] = b[k]
        BY <3>3, <4>1
      <4>4. c[m].kind = "tool" =>
              \E k \in 1 .. m - 1 :
                c[k].kind = "ai" /\ \E r \in 1 .. Len(rows[c[k].of].results) : rows[c[k].of].results[r] = c[m].of
        <5> SUFFICES ASSUME b[l].kind = "tool"
                     PROVE  \E k \in 1 .. m - 1 :
                       /\ c[k].kind = "ai"
                       /\ \E r \in 1 .. Len(rows[c[k].of].results) : rows[c[k].of].results[r] = c[m].of
          BY <4>3, Zenon
        <5>1. PICK k \in 1 .. l - 1 :
                /\ b[k].kind = "ai"
                /\ \E r \in 1 .. Len(rows[b[k].of].results) : rows[b[k].of].results[r] = b[l].of
          BY <4>2, Zenon
        <5>2. PICK j \in 1 .. m - 1 : c[j] = b[k] /\ c[m] = b[l]
          BY <4>3, Zenon
        <5> QED
          BY <5>1, <5>2, ZenonT(40)
      <4> QED
        BY <4>2, <4>3, <4>4, Zenon
    <3> QED
      BY <3>1, <3>2, <3>3 DEF From
  <2>6. EndsWithQuestion(a \o b, n + 1)
    <3> SUFFICES ASSUME NEW i \in Chat!Rows("user"), i <= n + 1,
                        \A j \in i + 1 .. n + 1 : rows[j].role = "summary"
                 PROVE  a \o b # <<>> /\ (a \o b)[Len(a \o b)] = [kind |-> "human", of |-> i]
      BY Zenon DEF EndsWithQuestion
    <3>1. i \in Nat /\ rows[i].role = "user"
      BY DEF Chat!Rows
    <3>2. CASE i = n + 1
      <4>1. b = <<[kind |-> "human", of |-> i]>>
        BY <2>4, <3>1, <3>2
      <4>2. Len(b) = 1 /\ b[1] = [kind |-> "human", of |-> i]
        BY <4>1
      <4> PICK c : c = a \o b
        OBVIOUS
      <4>3. Len(c) = Len(a) + 1 /\ Len(a) \in Nat
        BY <4>2, <2>a
      <4>4. c[Len(a) + 1] = b[1]
        <5>1. 1 \in 1 .. Len(b)
          BY <4>2
        <5> QED
          BY <2>a, <5>1, Zenon
      <4>5. c # <<>>
        <5>1. \A x \in Nat : x + 1 # 0
          OBVIOUS
        <5>2. Len(<<>>) = 0
          OBVIOUS
        <5> QED
          BY <4>3, <5>1, <5>2, Zenon
      <4> QED
        BY <4>2, <4>3, <4>4, <4>5
    <3>3. CASE i <= n
      <4>1. rows[n + 1].role = "summary" /\ \A j \in i + 1 .. n : rows[j].role = "summary"
        BY <3>1, <3>3
      <4>2. b = <<>> /\ a # <<>> /\ a[Len(a)] = [kind |-> "human", of |-> i]
        BY <2>4, <3>3, <4>1 DEF EndsWithQuestion
      <4>3. a \o b = a
        BY <4>2, ConcatEmptySeq
      <4> QED
        BY <4>2, <4>3
    <3>4. i = n + 1 \/ i <= n
      BY <3>1
    <3> QED
      BY <3>2, <3>3, <3>4, Zenon
  <2> QED
    BY <2>3, <2>5, <2>6
<1>3. Nat \subseteq T
  <2> HIDE DEF T
  <2> QED
    BY <1>1, <1>2, NatSet
<1> QED
  BY <1>3

-----------------------------------------------------------------------------
\* The newest of some rows.
LEMMA NewestOf ==
  ASSUME NEW n \in Nat, NEW S, S \subseteq 1 .. n, S # {}
  PROVE  Chat!Newest(S) \in S /\ \A j \in S : j <= Chat!Newest(S)
<1>1. \E i \in S : \A j \in S : j <= i
  <2>1. S \subseteq Nat /\ \A i \in S : i <= n
    OBVIOUS
  <2> QED
    BY <2>1, LargestNat
<1> QED
  BY <1>1, Zenon DEF Chat!Newest

\* The roles of rows.
LEMMA RowRole ==
  ASSUME rows \in Seq(Chat!Row), NEW n \in 1 .. Len(rows)
  PROVE  /\ rows[n].role \in {"user", "assistant", "summary"}
         /\ rows[n].results \in Seq(ChatStreams) /\ rows[n].turn \in Chat!Turns
<1>1. rows[n] \in Chat!Row
  OBVIOUS
<1>2. \A e \in Chat!Row : /\ e.role \in {"user", "assistant", "summary"}
                          /\ e.results \in Seq(ChatStreams) /\ e.turn \in Chat!Turns
  BY Zenon DEF Chat!Row
<1> QED
  BY <1>1, <1>2, Zenon

\* The assistant messages are of the rows R.
TurnsAreOf(c, R) == \A m \in 1 .. Len(c) : c[m].kind = "ai" => c[m].of \in R

\* The context c shows the rows as they are.
ShowsRows(c) ==
  /\ TurnsAreOf(c, Chat!Rows("assistant")) /\ Chat!ToolsAreBehind(c, rows)
  /\ Chat!SummaryIsInFront(c, Chat!Rows("summary"))

\* The question is its last message unless a turn came after.
ShowsQuestion(c) ==
  Chat!Rows("user") # {} =>
    \/ c # <<>> /\ c[Len(c)] = [kind |-> "human", of |-> Chat!Newest(Chat!Rows("user"))]
    \/ \E i \in Chat!Rows("assistant") : Chat!Newest(Chat!Rows("user")) < i

\* What the stream is given of the stored conversation.
LEMMA Replayed ==
  ASSUME rows \in Seq(Chat!Row)
  PROVE  Chat!Replay \in Seq(Chat!Message) /\ ShowsRows(Chat!Replay) /\ ShowsQuestion(Chat!Replay)
<1>1. PICK n \in Nat : n = Len(rows)
  OBVIOUS
<1>2. PICK p \in Seq(Chat!Message) :
        p = Chat!ReplayUpTo[n] /\ Shown(p, n) /\ EndsWithQuestion(p, n)
  <2>1. n \in 0 .. Len(rows)
    BY <1>1
  <2> QED
    BY <2>1, ReplayIsShown, Zenon
<1>3. \A role : Chat!Rows(role) \subseteq 1 .. n
  BY <1>1 DEF Chat!Rows
<1>4. ShowsQuestion(p)
  <2> SUFFICES ASSUME Chat!Rows("user") # {}
               PROVE  \/ p # <<>> /\ p[Len(p)] = [kind |-> "human", of |-> Chat!Newest(Chat!Rows("user"))]
                      \/ \E i \in Chat!Rows("assistant") : Chat!Newest(Chat!Rows("user")) < i
    BY DEF ShowsQuestion
  <2>1. PICK q \in Chat!Rows("user") :
          q = Chat!Newest(Chat!Rows("user")) /\ \A j \in Chat!Rows("user") : j <= q
    BY <1>3, NewestOf, Zenon
  <2>2. q \in 1 .. n
    BY <1>3
  <2>3. ASSUME ~ \E i \in Chat!Rows("assistant") : q < i PROVE \A j \in q + 1 .. n : rows[j].role = "summary"
    <3> SUFFICES ASSUME NEW j \in q + 1 .. n PROVE rows[j].role = "summary"
      OBVIOUS
    <3>1. j \in 1 .. Len(rows) /\ ~(j <= q) /\ q < j
      BY <1>1, <2>2
    <3>2. rows[j].role \in {"user", "assistant", "summary"}
      BY <3>1, RowRole
    <3>3. rows[j].role # "user"
      BY <2>1, <3>1 DEF Chat!Rows
    <3>4. rows[j].role # "assistant"
      BY <2>3, <3>1 DEF Chat!Rows
    <3> QED
      BY <3>2, <3>3, <3>4
  <2>4. CASE ~ \E i \in Chat!Rows("assistant") : q < i
    <3>1. q <= n
      BY <2>2
    <3> QED
      BY <1>2, <2>1, <2>3, <2>4, <3>1, Zenon DEF EndsWithQuestion
  <2> QED
    BY <2>1, <2>4
<1>5. CASE Chat!Rows("summary") = {}
  <2>1. Chat!Replay = p
    BY <1>1, <1>2, <1>5 DEF Chat!Replay
  <2>2. ShowsRows(p)
    <3>1. TurnsAreOf(p, Chat!Rows("assistant")) /\ Chat!ToolsAreBehind(p, rows)
      BY <1>2, Zenon DEF Shown, TurnsAreOf, Chat!ToolsAreBehind
    <3>2. Chat!SummaryIsInFront(p, {})
      BY <1>2, Zenon DEF Shown, Chat!SummaryIsInFront
    <3> QED
      BY <1>5, <3>1, <3>2, Zenon DEF ShowsRows
  <2> QED
    BY <1>4, <2>1, <2>2
<1>6. CASE Chat!Rows("summary") # {}
  <2>1. PICK w \in Chat!Rows("summary") : w = Chat!Newest(Chat!Rows("summary"))
    BY <1>3, <1>6, NewestOf, Zenon
  <2>2. w \in Nat
    BY <1>3
  <2>3. PICK e \in Chat!Message : e = [kind |-> "system", of |-> w]
    BY <2>2 DEF Chat!Message
  <2>4. PICK a \in Seq(Chat!Message) : a = <<e>> /\ Len(a) = 1 /\ a[1] = e
    <3>1. <<e>> \in Seq(Chat!Message) /\ Len(<<e>>) = 1 /\ <<e>>[1] = e
      OBVIOUS
    <3> QED
      BY <3>1, Zenon
  <2>5. Chat!Replay = a \o p
    BY <1>1, <1>2, <1>6, <2>1, <2>3, <2>4, Zenon DEF Chat!Replay
  <2>6. a \o p \in Seq(Chat!Message) /\ AreJoined(a \o p, a, p)
    BY JoinedMembers
  <2> PICK c \in Seq(Chat!Message) : c = a \o p
    BY <2>6
  <2>7. /\ Len(c) = 1 + Len(p) /\ Len(p) \in Nat /\ c[1] = e
        /\ \A k \in 1 .. Len(p) : c[k + 1] = p[k]
    <3>1. Len(c) = Len(a) + Len(p) /\ Len(p) \in Nat /\ \A k \in 1 .. Len(a) : c[k] = a[k]
      BY <2>6, Zenon DEF AreJoined
    <3>2. \A k \in 1 .. Len(p) : c[Len(a) + k] = p[k]
      BY <2>6, Zenon DEF AreJoined
    <3> QED
      BY <2>4, <3>1, <3>2
  <2>8. ShowsRows(c)
    <3> SUFFICES ASSUME NEW m \in 1 .. Len(c)
                 PROVE  /\ c[m].kind = "ai" => c[m].of \in Chat!Rows("assistant")
                        /\ c[m].kind = "tool" =>
                             \E k \in 1 .. m - 1 :
                               /\ c[k].kind = "ai"
                               /\ \E r \in 1 .. Len(rows[c[k].of].results) : rows[c[k].of].results[r] = c[m].of
                        /\ c[m].kind = "system" => m = 1 /\ c[m].of = w
                        /\ m = 1 => c[m].kind = "system"
      BY <2>1, ZenonT(40) DEF ShowsRows, TurnsAreOf, Chat!ToolsAreBehind, Chat!SummaryIsInFront
    <3>1. CASE m = 1
      <4>1. c[m] = e /\ e.kind = "system" /\ e.of = w
        BY <2>3, <2>7, <3>1
      <4> QED
        BY <3>1, <4>1
    <3>2. CASE m # 1
      <4>1. PICK l \in 1 .. Len(p) : m = l + 1 /\ c[m] = p[l]
        <5>1. m - 1 \in 1 .. Len(p) /\ m = (m - 1) + 1
          BY <2>7, <3>2
        <5> QED
          BY <2>7, <5>1
      <4>2. /\ p[l].kind # "system"
            /\ p[l].kind = "ai" => p[l].of \in Chat!Rows("assistant")
        BY <1>2, Zenon DEF Shown
      <4>3. ASSUME p[l].kind = "tool"
            PROVE  \E k \in 1 .. m - 1 :
                     /\ c[k].kind = "ai"
                     /\ \E r \in 1 .. Len(rows[c[k].of].results) : rows[c[k].of].results[r] = c[m].of
        <5>1. PICK k \in 1 .. l - 1 :
                /\ p[k].kind = "ai"
                /\ \E r \in 1 .. Len(rows[p[k].of].results) : rows[p[k].of].results[r] = p[l].of
          BY <1>2, <4>3, Zenon DEF Shown
        <5>2. PICK j \in 1 .. m - 1 : c[j] = p[k]
          <6>1. k + 1 \in 1 .. m - 1 /\ k \in 1 .. Len(p)
            BY <4>1, <2>7
          <6> QED
            BY <2>7, <6>1
        <5> QED
          BY <4>1, <5>1, <5>2, ZenonT(40)
      <4> QED
        BY <3>2, <4>1, <4>2, <4>3, Zenon
    <3> QED
      BY <3>1, <3>2
  <2>9. ShowsQuestion(c)
    <3>1. p # <<>> => c # <<>> /\ c[Len(c)] = p[Len(p)]
      <4> SUFFICES ASSUME p # <<>> PROVE c # <<>> /\ c[Len(c)] = p[Len(p)]
        OBVIOUS
      <4>1. Len(p) # 0
        OBVIOUS
      <4>2. Len(p) \in 1 .. Len(p) /\ Len(c) = Len(p) + 1
        BY <2>7, <4>1
      <4>3. c[Len(p) + 1] = p[Len(p)]
        BY <2>7, <4>2, Zenon
      <4> QED
        BY <2>7, <4>2, <4>3
    <3> QED
      BY <1>4, <3>1, Zenon DEF ShowsQuestion
  <2> QED
    BY <2>5, <2>8, <2>9
<1> QED
  BY <1>5, <1>6

-----------------------------------------------------------------------------
(* The conversation goes on                                                *)

\* The rows there are stay as they are.
Kept ==
  /\ Len(rows) \in Nat /\ Len(rows') \in Nat /\ Len(rows) <= Len(rows')
  /\ \A i \in 1 .. Len(rows) : rows'[i] = rows[i]

\* A row is added behind them.
LEMMA RowIsAdded ==
  ASSUME rows \in Seq(Chat!Row), NEW role \in {"user", "assistant", "summary"},
         NEW turn_ \in Chat!Turns, NEW res \in Seq(ChatStreams), Chat!AddRow(role, turn_, res)
  PROVE  /\ Kept /\ rows' \in Seq(Chat!Row) /\ Len(rows') = Len(rows) + 1
         /\ rows'[Len(rows) + 1] = [role |-> role, turn |-> turn_, results |-> res]
         /\ \A i \in 1 .. Len(rows') : i \in 1 .. Len(rows) \/ i = Len(rows) + 1
<1>1. [role |-> role, turn |-> turn_, results |-> res] \in Chat!Row
  BY Zenon DEF Chat!Row
<1> PICK e \in Chat!Row, s \in Seq(Chat!Row) : e = [role |-> role, turn |-> turn_, results |-> res] /\ s = rows
  BY <1>1
<1>2. rows' = Append(s, e)
  BY DEF Chat!AddRow
<1>3. /\ Append(s, e) \in Seq(Chat!Row) /\ Len(Append(s, e)) = Len(s) + 1 /\ Len(s) \in Nat
      /\ \A i \in 1 .. Len(s) : Append(s, e)[i] = s[i]
      /\ Append(s, e)[Len(s) + 1] = e
  BY AppendProperties
<1> PICK n \in Nat : n = Len(s)
  BY <1>3
<1>4. n <= n + 1 /\ n + 1 \in Nat /\ \A i \in 1 .. n + 1 : i \in 1 .. n \/ i = n + 1
  OBVIOUS
<1>5. rows' \in Seq(Chat!Row) /\ Len(rows') = n + 1 /\ rows'[n + 1] = e /\ Len(rows) = n
      /\ \A i \in 1 .. n : rows'[i] = rows[i]
  BY <1>2, <1>3, Zenon
<1> QED
  BY <1>4, <1>5, Zenon DEF Kept

\* The rows of a role that were there.
LEMMA RolesAreKept ==
  ASSUME Kept, NEW role
  PROVE  /\ Chat!Rows(role) \subseteq 1 .. Len(rows)
         /\ Chat!Rows(role) \subseteq Chat!Rows(role)'
         /\ \A l \in Nat : l <= Len(rows) =>
              {i \in Chat!Rows(role)' : i <= l} = {i \in Chat!Rows(role) : i <= l}
<1>1. Chat!Rows(role) \subseteq 1 .. Len(rows)
  BY DEF Chat!Rows
<1>2. Chat!Rows(role) \subseteq Chat!Rows(role)'
  BY DEF Chat!Rows, Kept
<1>3. ASSUME NEW l \in Nat, l <= Len(rows), NEW i \in Chat!Rows(role)', i <= l
      PROVE  i \in Chat!Rows(role)
  <2>1. i \in 1 .. Len(rows') /\ rows'[i].role = role
    BY DEF Chat!Rows
  <2>2. i \in 1 .. Len(rows)
    BY <1>3, <2>1 DEF Kept
  <2> QED
    BY <2>1, <2>2 DEF Chat!Rows, Kept
<1> QED
  BY <1>1, <1>2, <1>3

\* What of ReplayIsWhole is about one stream.
WholeFor(s) ==
  pc[s] \in {"fitting", "agent"} /\ fitted[s] = "whole" =>
    Chat!ToolsAreBehind(context[s], rows) /\ Chat!SummaryIsInFront(context[s], Chat!SummariesRead(s))

\* A stream's context is what the rows were when it read them.
ContextFits(s) == Chat!QuestionIsLast(s) /\ Chat!ReplayIsOfRows(s) /\ WholeFor(s)

\* It stays so while the stream leaves its context alone.
LEMMA ContextStays ==
  ASSUME Kept, NEW s \in ChatStreams, ContextFits(s), loaded[s] \in Nat, loaded'[s] = loaded[s],
         \/ pc'[s] \notin {"fitting", "agent"}
         \/ pc'[s] = pc[s] /\ context'[s] = context[s] /\ fitted'[s] = fitted[s]
  PROVE  ContextFits(s)'
<1>1. Chat!QuestionIsLast(s) /\ Chat!ReplayIsOfRows(s) /\ WholeFor(s)
  BY DEF ContextFits
<1>2. PICK l \in Nat : l = loaded[s] /\ l <= Len(rows)
  BY <1>1 DEF Chat!ReplayIsOfRows
<1>3. l <= Len(rows')
  BY <1>2 DEF Kept
<1>4. CASE pc'[s] \notin {"fitting", "agent"}
  <2>1. Chat!QuestionIsLast(s)' /\ WholeFor(s)'
    BY <1>4, Zenon DEF Chat!QuestionIsLast, WholeFor
  <2>2. Chat!ReplayIsOfRows(s)'
    BY <1>2, <1>3, <1>4 DEF Chat!ReplayIsOfRows
  <2> QED
    BY <2>1, <2>2 DEF ContextFits
<1>5. CASE /\ pc'[s] \in {"fitting", "agent"}
           /\ pc'[s] = pc[s] /\ context'[s] = context[s] /\ fitted'[s] = fitted[s]
  <2>1. /\ {i \in Chat!Rows("user")' : i <= l} = {i \in Chat!Rows("user") : i <= l}
        /\ {i \in Chat!Rows("summary")' : i <= l} = {i \in Chat!Rows("summary") : i <= l}
        /\ Chat!Rows("assistant") \subseteq Chat!Rows("assistant")'
    BY <1>2, RolesAreKept, Zenon
  <2>2. Chat!QuestionIsLast(s)'
    BY <1>1, <1>2, <1>5, <2>1, Zenon DEF Chat!QuestionIsLast, Chat!Newest
  <2>3. Chat!ReplayIsOfRows(s)'
    BY <1>1, <1>2, <1>3, <1>5 DEF Chat!ReplayIsOfRows
  <2>4. ASSUME fitted[s] = "whole" PROVE Chat!ToolsAreBehind(context[s], rows')
    <3> PICK c : c = context[s]
      OBVIOUS
    <3>0. Chat!ToolsAreBehind(c, rows) /\ TurnsAreOf(c, 1 .. l)
      BY <1>1, <1>2, <1>5, <2>4, Zenon DEF WholeFor, Chat!ReplayIsOfRows, TurnsAreOf
    <3> SUFFICES ASSUME NEW m \in 1 .. Len(c), c[m].kind = "tool"
                 PROVE  \E k \in 1 .. m - 1 :
                          /\ c[k].kind = "ai"
                          /\ \E r \in 1 .. Len(rows'[c[k].of].results) : rows'[c[k].of].results[r] = c[m].of
      BY Zenon DEF Chat!ToolsAreBehind
    <3>1. PICK k \in 1 .. m - 1 :
            /\ c[k].kind = "ai"
            /\ \E r \in 1 .. Len(rows[c[k].of].results) : rows[c[k].of].results[r] = c[m].of
      BY <3>0, Zenon DEF Chat!ToolsAreBehind
    <3>2. k \in 1 .. Len(c)
      OBVIOUS
    <3>3. PICK o \in 1 .. l : o = c[k].of
      BY <3>0, <3>1, <3>2, Zenon DEF TurnsAreOf
    <3>4. o \in 1 .. Len(rows)
      BY <1>2 DEF Kept
    <3>5. rows'[o] = rows[o]
      BY <3>4, Zenon DEF Kept
    <3> QED
      BY <3>1, <3>3, <3>5, Zenon
  <2>5. Chat!SummariesRead(s)' = Chat!SummariesRead(s)
    BY <1>2, <2>1, Zenon DEF Chat!SummariesRead
  <2>6. WholeFor(s)'
    BY <1>1, <1>5, <2>4, <2>5, Zenon DEF WholeFor
  <2> QED
    BY <2>2, <2>3, <2>6 DEF ContextFits
<1> QED
  BY <1>4, <1>5

\* The tail that is kept ends as the whole does.
LEMMA TailEnds ==
  ASSUME NEW c \in Seq(Chat!Message), NEW n \in Nat, n # 0
  PROVE  /\ Chat!Last(c, n) \in Seq(Chat!Message)
         /\ c # <<>> => Chat!Last(c, n) # <<>> /\ Chat!Last(c, n)[Len(Chat!Last(c, n))] = c[Len(c)]
<1>1. CASE Len(c) <= n
  BY <1>1 DEF Chat!Last
<1>2. CASE ~(Len(c) <= n)
  <2>0. Len(c) - n + 1 \in Nat /\ Len(c) - n + 1 >= 1 /\ Len(c) - n + 1 <= Len(c)
    BY <1>2
  <2> PICK l \in Nat : l = Len(c) - n + 1 /\ l >= 1 /\ l <= Len(c)
    BY <2>0
  <2>1. Chat!Last(c, n) = SubSeq(c, l, Len(c))
    BY <1>2 DEF Chat!Last
  <2>2. /\ SubSeq(c, l, Len(c)) \in Seq(Chat!Message) /\ Len(SubSeq(c, l, Len(c))) = n
        /\ \A i \in 1 .. n : SubSeq(c, l, Len(c))[i] = c[l + i - 1]
    OBVIOUS
  <2>3. l + n - 1 = Len(c) /\ n \in 1 .. n
    OBVIOUS
  <2> PICK t \in Seq(Chat!Message) : t = SubSeq(c, l, Len(c))
    BY <2>2
  <2>4. Len(t) = n /\ t[n] = c[Len(c)]
    BY <2>2, <2>3
  <2>5. t # <<>>
    BY <2>4
  <2> QED
    BY <2>1, <2>4, <2>5
<1> QED
  BY <1>1, <1>2

\* It stays so when the budget cuts the context.
LEMMA ContextIsCut ==
  ASSUME Kept, NEW s \in ChatStreams, ContextFits(s), loaded[s] \in Nat, loaded'[s] = loaded[s],
         context[s] \in Seq(Chat!Message), NEW n \in Nat, n # 0,
         pc[s] = "fitting", pc'[s] = "agent", context'[s] = Chat!Last(context[s], n),
         fitted'[s] # "whole"
  PROVE  ContextFits(s)'
<1>1. Chat!QuestionIsLast(s) /\ Chat!ReplayIsOfRows(s)
  BY DEF ContextFits
<1>2. PICK l \in Nat : l = loaded[s] /\ l <= Len(rows)
  BY <1>1 DEF Chat!ReplayIsOfRows
<1>3. l <= Len(rows')
  BY <1>2 DEF Kept
<1>4. /\ {i \in Chat!Rows("user")' : i <= l} = {i \in Chat!Rows("user") : i <= l}
      /\ Chat!Rows("assistant") \subseteq Chat!Rows("assistant")'
  BY <1>2, RolesAreKept, Zenon
<1>5. context[s] # <<>> => context'[s] # <<>> /\ context'[s][Len(context'[s])] = context[s][Len(context[s])]
  BY TailEnds
<1>6. Chat!QuestionIsLast(s)'
  BY <1>1, <1>2, <1>4, <1>5, Zenon DEF Chat!QuestionIsLast, Chat!Newest
<1>7. Chat!ReplayIsOfRows(s)'
  BY <1>2, <1>3 DEF Chat!ReplayIsOfRows
<1>8. WholeFor(s)'
  BY Zenon DEF WholeFor
<1> QED
  BY <1>6, <1>7, <1>8 DEF ContextFits

\* It is so when the stream has read the rows.
LEMMA ContextIsLoaded ==
  ASSUME rows \in Seq(Chat!Row), rows' = rows, NEW s \in ChatStreams,
         context'[s] = Chat!Replay, loaded'[s] = Len(rows), fitted'[s] = "whole"
  PROVE  ContextFits(s)'
<1> PICK c \in Seq(Chat!Message) : c = Chat!Replay /\ ShowsRows(c) /\ ShowsQuestion(c)
  BY Replayed
<1> PICK l \in Nat : l = Len(rows)
  OBVIOUS
<1>1. \A role : Chat!Rows(role) \subseteq 1 .. l
  BY DEF Chat!Rows
<1>2. \A role : {i \in Chat!Rows(role) : i <= l} = Chat!Rows(role) /\ Chat!Rows(role)' = Chat!Rows(role)
  BY <1>1 DEF Chat!Rows
<1>3. Chat!QuestionIsLast(s)'
  <2>1. \A i \in Chat!Rows("assistant") : i <= l
    BY <1>1
  <2> QED
    BY <1>2, <2>1, Zenon DEF Chat!QuestionIsLast, Chat!Newest, ShowsQuestion
<1>4. Chat!ReplayIsOfRows(s)'
  <2>0. Chat!Rows("assistant") \subseteq 1 .. l
    BY <1>1
  <2>1. TurnsAreOf(c, 1 .. l)
    BY <2>0, Zenon DEF ShowsRows, TurnsAreOf
  <2> QED
    BY <2>1 DEF Chat!ReplayIsOfRows, TurnsAreOf
<1>5. WholeFor(s)'
  <2>1. Chat!SummariesRead(s)' = Chat!Rows("summary")
    BY <1>2 DEF Chat!SummariesRead
  <2> QED
    BY <2>1, Zenon DEF WholeFor, ShowsRows
<1> QED
  BY <1>3, <1>4, <1>5 DEF ContextFits

-----------------------------------------------------------------------------
(* Turns and their rows                                                    *)

\* The turns that have a row.
Stored == {rows[i].turn : i \in Chat!Rows("assistant")}

\* A stored turn stays stored.
LEMMA StoredIsKept == ASSUME Kept PROVE Stored \subseteq Stored'
<1> SUFFICES ASSUME NEW i \in Chat!Rows("assistant") PROVE rows[i].turn \in Stored'
  BY Zenon DEF Stored
<1>1. i \in 1 .. Len(rows) /\ i \in Chat!Rows("assistant")'
  BY RolesAreKept
<1>2. rows'[i] = rows[i]
  BY <1>1 DEF Kept
<1> QED
  BY <1>1, <1>2, Zenon DEF Stored

\* The tool messages of a context, and some results, are of the turns T.
ToolsOf(c, T) == \A m \in 1 .. Len(c) : c[m].kind = "tool" => c[m].of \in T
ResultsOf(q, T) == \A k \in 1 .. Len(q) : q[k] \in T

\* What a stream works with is its own or that of stored turns.
OwnOrStored(s) ==
  ToolsOf(context[s], {s} \cup Stored) /\ ResultsOf(results[s], {s} \cup Stored)

\* A stored result is that of a turn stored no later.
RowsAreInOrder ==
  \A i \in Chat!Rows("assistant") : \A k \in 1 .. Len(rows[i].results) :
    \E j \in Chat!Rows("assistant") : j <= i /\ rows[j].turn = rows[i].results[k]

\* ResultsAreOfTurns in its parts.
LEMMA ResultsByPart ==
  /\ Chat!ResultsAreOfTurns <=> (\A s \in ChatStreams : OwnOrStored(s)) /\ RowsAreInOrder
  /\ Chat!ResultsAreOfTurns' <=> (\A s \in ChatStreams : OwnOrStored(s)') /\ RowsAreInOrder'
<1>1. Chat!ResultsAreOfTurns <=> (\A s \in ChatStreams : OwnOrStored(s)) /\ RowsAreInOrder
  <2>1. \A t : t \in Stored <=> \E i \in Chat!Rows("assistant") : rows[i].turn = t
    BY Zenon DEF Stored
  <2> QED
    BY <2>1, ZenonT(40) DEF Chat!ResultsAreOfTurns, OwnOrStored, RowsAreInOrder, ToolsOf, ResultsOf
<1>2. Chat!ResultsAreOfTurns' <=> (\A s \in ChatStreams : OwnOrStored(s)') /\ RowsAreInOrder'
  <2>1. \A t : t \in Stored' <=> \E i \in Chat!Rows("assistant")' : rows'[i].turn = t
    BY Zenon DEF Stored
  <2> QED
    BY <2>1, ZenonT(40) DEF Chat!ResultsAreOfTurns, OwnOrStored, RowsAreInOrder, ToolsOf, ResultsOf
<1> QED
  BY <1>1, <1>2

\* A stream's part stays while it leaves its context and results alone,
LEMMA OwnStays ==
  ASSUME Kept, NEW s, OwnOrStored(s), context'[s] = context[s], results'[s] = results[s]
  PROVE  OwnOrStored(s)'
BY StoredIsKept, Zenon DEF OwnOrStored, ToolsOf, ResultsOf

\* No assistant row is added.
NoTurnIsAdded == Kept /\ Chat!Rows("assistant")' = Chat!Rows("assistant")

\* What is known of the rows stays while no turn is added and none that is done changes.
LEMMA TurnsStay ==
  ASSUME NoTurnIsAdded, Chat!RowsAreOfTurns, RowsAreInOrder,
         \A t \in ChatStreams : pc[t] = "done" => pc'[t] = "done" /\ toolCalls'[t] = toolCalls[t]
  PROVE  Chat!RowsAreOfTurns' /\ RowsAreInOrder'
<1>1. \A i \in Chat!Rows("assistant") : rows'[i] = rows[i]
  <2>1. Chat!Rows("assistant") \subseteq 1 .. Len(rows)
    BY RolesAreKept DEF NoTurnIsAdded
  <2> QED
    BY <2>1 DEF NoTurnIsAdded, Kept
<1>2. Chat!RowsAreOfTurns'
  <2> SUFFICES ASSUME NEW i \in Chat!Rows("assistant")'
               PROVE  /\ rows'[i].turn \in ChatStreams /\ pc'[rows'[i].turn] = "done"
                      /\ \A j \in Chat!Rows("assistant")' : rows'[j].turn = rows'[i].turn => j = i
                      /\ toolCalls'[rows'[i].turn] # {} =>
                           \A k \in 1 .. Len(rows'[i].results) : rows'[i].results[k] = rows'[i].turn
    BY Zenon DEF Chat!RowsAreOfTurns
  <2>1. i \in Chat!Rows("assistant") /\ rows'[i] = rows[i]
    BY <1>1, Zenon DEF NoTurnIsAdded
  <2>2. /\ rows[i].turn \in ChatStreams /\ pc[rows[i].turn] = "done"
        /\ \A j \in Chat!Rows("assistant") : rows[j].turn = rows[i].turn => j = i
        /\ toolCalls[rows[i].turn] # {} =>
             \A k \in 1 .. Len(rows[i].results) : rows[i].results[k] = rows[i].turn
    BY <2>1, Zenon DEF Chat!RowsAreOfTurns
  <2>3. pc'[rows[i].turn] = "done" /\ toolCalls'[rows[i].turn] = toolCalls[rows[i].turn]
    BY <2>2, Zenon
  <2>4. \A j \in Chat!Rows("assistant")' : rows'[j].turn = rows[i].turn => j = i
    BY <1>1, <2>2, Zenon DEF NoTurnIsAdded
  <2> QED
    BY <2>1, <2>2, <2>3, <2>4, Zenon
<1>3. RowsAreInOrder'
  <2> SUFFICES ASSUME NEW i \in Chat!Rows("assistant")', NEW k \in 1 .. Len(rows'[i].results)
               PROVE  \E j \in Chat!Rows("assistant")' : j <= i /\ rows'[j].turn = rows'[i].results[k]
    BY Zenon DEF RowsAreInOrder
  <2>1. i \in Chat!Rows("assistant") /\ rows'[i] = rows[i]
    BY <1>1, Zenon DEF NoTurnIsAdded
  <2>2. PICK j \in Chat!Rows("assistant") : j <= i /\ rows[j].turn = rows[i].results[k]
    BY <2>1, Zenon DEF RowsAreInOrder
  <2>3. j \in Chat!Rows("assistant")' /\ rows'[j] = rows[j]
    BY <1>1, Zenon DEF NoTurnIsAdded
  <2> QED
    BY <2>1, <2>2, <2>3, Zenon
<1> QED
  BY <1>2, <1>3

\* What was executed stays recorded, when who is done now was done or called nothing.
LEMMA RecordsStay ==
  ASSUME Kept, Chat!ExecutedIsRecorded, broken \subseteq broken',
         \A t \in ChatStreams : t \notin broken' /\ pc'[t] = "done" =>
            \/ pc[t] = "done" /\ toolCalls'[t] = toolCalls[t]
            \/ toolCalls'[t] = {}
  PROVE  Chat!ExecutedIsRecorded'
<1> SUFFICES ASSUME NEW t \in ChatStreams \ broken', pc'[t] = "done", NEW c \in toolCalls'[t]
             PROVE  \E i \in Chat!Rows("assistant")' :
                      rows'[i].turn = t /\ \E k \in 1 .. Len(rows'[i].results) : rows'[i].results[k] = c
  BY Zenon DEF Chat!ExecutedIsRecorded
<1>1. t \in ChatStreams \ broken /\ pc[t] = "done" /\ c \in toolCalls[t]
  BY Zenon
<1>2. PICK i \in Chat!Rows("assistant") :
        rows[i].turn = t /\ \E k \in 1 .. Len(rows[i].results) : rows[i].results[k] = c
  <2>1. \A s \in ChatStreams \ broken : pc[s] = "done" => \A d \in toolCalls[s] :
          \E i \in Chat!Rows("assistant") :
            rows[i].turn = s /\ \E k \in 1 .. Len(rows[i].results) : rows[i].results[k] = d
    BY Zenon DEF Chat!ExecutedIsRecorded
  <2>2. \A d \in toolCalls[t] :
          \E i \in Chat!Rows("assistant") :
            rows[i].turn = t /\ \E k \in 1 .. Len(rows[i].results) : rows[i].results[k] = d
    BY <1>1, <2>1, Zenon
  <2>3. c \in toolCalls[t]
    BY <1>1
  <2> QED
    BY <2>2, <2>3, Zenon
<1>3. i \in Chat!Rows("assistant")' /\ rows'[i] = rows[i]
  <2>1. i \in 1 .. Len(rows) /\ i \in Chat!Rows("assistant")'
    BY RolesAreKept
  <2> QED
    BY <2>1 DEF Kept
<1> PICK e : e = rows[i]
  OBVIOUS
<1>4. i \in Chat!Rows("assistant")' /\ e = rows'[i]
  BY <1>3
<1>5. e.turn = t /\ \E k \in 1 .. Len(e.results) : e.results[k] = c
  BY <1>2, Zenon
<1>6. rows'[i].turn = t /\ \E k \in 1 .. Len(rows'[i].results) : rows'[i].results[k] = c
  BY <1>4, <1>5, Zenon
<1> QED
  BY <1>4, <1>6, Zenon

\* The parts of the invariant.
LEMMA ChatParts ==
  /\ Chat!IInv <=>
       /\ Chat!TypeOK /\ Chat!RowsAreOfTurns /\ RowsAreInOrder /\ Chat!ExecutedIsRecorded
       /\ \A t \in ChatStreams : Chat!TurnPhase(t) /\ ContextFits(t) /\ OwnOrStored(t)
  /\ Chat!IInv' <=>
       /\ Chat!TypeOK' /\ Chat!RowsAreOfTurns' /\ RowsAreInOrder' /\ Chat!ExecutedIsRecorded'
       /\ \A t \in ChatStreams : Chat!TurnPhase(t)' /\ ContextFits(t)' /\ OwnOrStored(t)'
<1>1. Chat!ReplayIsWhole <=> \A s \in ChatStreams : WholeFor(s)
  BY Zenon DEF Chat!ReplayIsWhole, WholeFor
<1>2. Chat!ReplayIsWhole' <=> \A s \in ChatStreams : WholeFor(s)'
  BY Zenon DEF Chat!ReplayIsWhole, WholeFor
<1> QED
  BY <1>1, <1>2, ResultsByPart, ZenonT(40) DEF Chat!IInv, ContextFits

-----------------------------------------------------------------------------
(* The steps                                                               *)

\* What a step of one stream leaves of the others.
OthersStay(s) ==
  \A t \in ChatStreams \ {s} :
    /\ pc'[t] = pc[t] /\ context'[t] = context[t] /\ toolCalls'[t] = toolCalls[t]
    /\ results'[t] = results[t] /\ loaded'[t] = loaded[t] /\ fitted'[t] = fitted[t]
    /\ (t \in broken' <=> t \in broken)

\* The turn of a stream that is left alone.
LEMMA TurnStays ==
  ASSUME NEW t, Chat!TurnPhase(t), pc'[t] = pc[t], context'[t] = context[t],
         toolCalls'[t] = toolCalls[t], results'[t] = results[t], t \in broken' <=> t \in broken
  PROVE  Chat!TurnPhase(t)'
<1> DEFINE Phase(p, c, o, q, b) ==
      /\ p \notin {"assemble", "final", "done"} => o = {}
      /\ p \notin {"final", "done"} => q = <<>>
      /\ o \subseteq {t}
      /\ p = "assemble" /\ o # {} => c = <<[kind |-> "tool", of |-> t]>>
      /\ o # {} => \A k \in 1 .. Len(q) : q[k] = t
      /\ p = "final" /\ t \notin b => \A d \in o : \E k \in 1 .. Len(q) : q[k] = d
<1>1. Phase(pc[t], context[t], toolCalls[t], results[t], broken)
  BY Zenon DEF Chat!TurnPhase
<1>2. ASSUME NEW p, NEW c, NEW o, NEW q, NEW b, NEW d, t \in b <=> t \in d, Phase(p, c, o, q, b)
      PROVE  Phase(p, c, o, q, d)
  BY <1>2, Zenon
<1>3. Phase(pc[t], context[t], toolCalls[t], results[t], broken')
  <2> HIDE DEF Phase
  <2> QED
    BY <1>1, <1>2
<1>4. Phase(pc'[t], context'[t], toolCalls'[t], results'[t], broken')
  <2> HIDE DEF Phase
  <2> QED
    BY <1>3, Zenon
<1> QED
  BY <1>4, Zenon DEF Chat!TurnPhase

\* A step that adds no turn and leaves the others alone keeps the invariant when it
\* keeps the stream's own part.
LEMMA OneStream ==
  ASSUME Chat!IInv, NEW s \in ChatStreams, NoTurnIsAdded, OthersStay(s), pc[s] # "done",
         broken \subseteq broken', pc'[s] = "done" => s \in broken' \/ toolCalls'[s] = {},
         Chat!TypeOK', Chat!TurnPhase(s)', ContextFits(s)', OwnOrStored(s)'
  PROVE  Chat!IInv'
<1>1. /\ Chat!TypeOK /\ Chat!RowsAreOfTurns /\ RowsAreInOrder /\ Chat!ExecutedIsRecorded
      /\ \A t \in ChatStreams : Chat!TurnPhase(t) /\ ContextFits(t) /\ OwnOrStored(t)
  BY ChatParts
<1>2. Kept
  BY DEF NoTurnIsAdded
<1>3. ASSUME NEW t \in ChatStreams \ {s} PROVE Chat!TurnPhase(t)' /\ ContextFits(t)' /\ OwnOrStored(t)'
  <2>1. /\ pc'[t] = pc[t] /\ context'[t] = context[t] /\ toolCalls'[t] = toolCalls[t]
        /\ results'[t] = results[t] /\ loaded'[t] = loaded[t] /\ fitted'[t] = fitted[t]
        /\ (t \in broken' <=> t \in broken)
    BY DEF OthersStay
  <2>2. Chat!TurnPhase(t)'
    BY <1>1, <2>1, TurnStays
  <2>3. ContextFits(t)'
    <3>1. loaded[t] \in Nat
      BY <1>1 DEF Chat!TypeOK
    <3> QED
      BY <1>1, <1>2, <2>1, <3>1, ContextStays, Zenon
  <2>4. OwnOrStored(t)'
    BY <1>1, <1>2, <2>1, OwnStays, Zenon
  <2> QED
    BY <2>2, <2>3, <2>4
<1>4. \A t \in ChatStreams : pc[t] = "done" => pc'[t] = "done" /\ toolCalls'[t] = toolCalls[t]
  BY Zenon DEF OthersStay
<1>5. Chat!RowsAreOfTurns' /\ RowsAreInOrder'
  BY <1>1, <1>4, TurnsStay, Zenon
<1>6. Chat!ExecutedIsRecorded'
  <2>1. \A t \in ChatStreams : t \notin broken' /\ pc'[t] = "done" =>
            \/ pc[t] = "done" /\ toolCalls'[t] = toolCalls[t]
            \/ toolCalls'[t] = {}
    BY Zenon DEF OthersStay
  <2> QED
    BY <1>1, <1>2, <2>1, RecordsStay, Zenon
<1> QED
  BY <1>1, <1>3, <1>5, <1>6, ChatParts

\* The types of one stream's part.
LEMMA ChatTypes ==
  ASSUME Chat!TypeOK, NEW s \in ChatStreams
  PROVE  /\ rows \in Seq(Chat!Row) /\ pc[s] \in Chat!Phases /\ context[s] \in Seq(Chat!Message)
         /\ results[s] \in Seq(ChatStreams) /\ loaded[s] \in Nat /\ Len(rows) \in Nat
BY DEF Chat!TypeOK

\* The invariant holds before the first message.
LEMMA ChatInit == Chat!Init => Chat!IInv
<1> SUFFICES ASSUME Chat!Init PROVE Chat!IInv
  OBVIOUS
<1>1. Chat!TypeOK
  <2>1. MaxFaults \in Nat
    BY StreamsAssumption
  <2>2. rows = <<>> /\ <<>> \in Seq(Chat!Row) /\ <<>> \in Seq(Chat!Message) /\ <<>> \in Seq(ChatStreams)
    BY DEF Chat!Init
  <2>3. /\ pc \in [ChatStreams -> Chat!Phases] /\ context \in [ChatStreams -> Seq(Chat!Message)]
        /\ toolCalls \in [ChatStreams -> SUBSET ChatStreams] /\ results \in [ChatStreams -> Seq(ChatStreams)]
    BY <2>2, Zenon DEF Chat!Init, Chat!Phases
  <2>4. /\ loaded \in [ChatStreams -> Nat] /\ fitted \in [ChatStreams -> {"none", "whole", "summary", "tail"}]
        /\ faults \in 0 .. MaxFaults /\ broken \subseteq ChatStreams
    BY <2>1 DEF Chat!Init
  <2>5. titled \in BOOLEAN
    BY Zenon DEF Chat!Init
  <2> QED
    BY <2>2, <2>3, <2>4, <2>5 DEF Chat!TypeOK
<1>2. \A role : Chat!Rows(role) = {}
  BY DEF Chat!Init, Chat!Rows
<1>3. Chat!RowsAreOfTurns /\ RowsAreInOrder
  BY <1>2, Zenon DEF Chat!RowsAreOfTurns, RowsAreInOrder
<1>4. Chat!ExecutedIsRecorded
  BY DEF Chat!Init, Chat!ExecutedIsRecorded
<1>5. ASSUME NEW t \in ChatStreams PROVE Chat!TurnPhase(t) /\ ContextFits(t) /\ OwnOrStored(t)
  <2>1. pc[t] = "idle" /\ context[t] = <<>> /\ toolCalls[t] = {} /\ results[t] = <<>> /\ loaded[t] = 0 /\ rows = <<>>
    BY DEF Chat!Init
  <2>2. Chat!TurnPhase(t)
    BY <2>1, Zenon DEF Chat!TurnPhase
  <2>3. ContextFits(t)
    BY <2>1 DEF ContextFits, Chat!QuestionIsLast, Chat!ReplayIsOfRows, WholeFor
  <2>4. OwnOrStored(t)
    BY <2>1 DEF OwnOrStored, ToolsOf, ResultsOf
  <2> QED
    BY <2>2, <2>3, <2>4
<1> QED
  BY <1>1, <1>3, <1>4, <1>5, ChatParts

\* Nothing of the rows changes.
LEMMA RowsUnchanged == ASSUME rows \in Seq(Chat!Row), rows' = rows PROVE NoTurnIsAdded /\ Kept
BY DEF NoTurnIsAdded, Kept, Chat!Rows

\* The steps that only move a stream, and may break it.
MovesOnly(s, to) ==
  /\ pc[s] # "done" /\ pc' = [pc EXCEPT ![s] = to] /\ to \in {"tools", "assemble", "final", "done"}
  /\ UNCHANGED <<rows, titled, context, toolCalls, results, loaded, fitted>>
  /\ faults' \in 0 .. MaxFaults
  /\ broken' = broken \/ broken' = broken \cup {s}
  /\ to \in {"tools", "assemble"} => pc[s] = "agent"
  /\ to = "final" => pc[s] = "agent" \/ s \in broken'
  /\ to = "done" => pc[s] = "idle" \/ s \in broken'

\* Such a step keeps the invariant.
LEMMA StreamMoves ==
  ASSUME Chat!IInv, NEW s \in ChatStreams, NEW to, MovesOnly(s, to) PROVE Chat!IInv'
<1>1. /\ Chat!TypeOK /\ Chat!TurnPhase(s) /\ ContextFits(s) /\ OwnOrStored(s)
  BY ChatParts
<1>2. /\ pc[s] # "done" /\ pc' = [pc EXCEPT ![s] = to] /\ to \in {"tools", "assemble", "final", "done"}
      /\ rows' = rows /\ titled' = titled /\ context' = context /\ toolCalls' = toolCalls
      /\ results' = results /\ loaded' = loaded /\ fitted' = fitted
      /\ faults' \in 0 .. MaxFaults
      /\ broken' = broken \/ broken' = broken \cup {s}
      /\ to \in {"tools", "assemble"} => pc[s] = "agent"
      /\ to = "final" => pc[s] = "agent" \/ s \in broken'
      /\ to = "done" => pc[s] = "idle" \/ s \in broken'
  BY Zenon DEF MovesOnly
<1>3. pc'[s] = to /\ OthersStay(s) /\ broken \subseteq broken'
  BY <1>1, <1>2 DEF Chat!TypeOK, OthersStay
<1>4. NoTurnIsAdded /\ Kept /\ loaded[s] \in Nat
  BY <1>1, <1>2, RowsUnchanged, ChatTypes
<1>5. Chat!TypeOK'
  <2>1. pc' \in [ChatStreams -> Chat!Phases]
    BY <1>1, <1>2 DEF Chat!TypeOK, Chat!Phases
  <2>2. broken' \subseteq ChatStreams
    BY <1>1, <1>2 DEF Chat!TypeOK
  <2> QED
    BY <1>1, <1>2, <2>1, <2>2, Zenon DEF Chat!TypeOK
<1>6. Chat!TurnPhase(s)'
  <2>1. /\ pc[s] \notin {"assemble", "final", "done"} => toolCalls[s] = {}
        /\ pc[s] \notin {"final", "done"} => results[s] = <<>>
        /\ toolCalls[s] \subseteq {s}
        /\ toolCalls[s] # {} => \A k \in 1 .. Len(results[s]) : results[s][k] = s
    BY <1>1, Zenon DEF Chat!TurnPhase
  <2>2. to \in {"tools", "assemble"} => toolCalls[s] = {} /\ results[s] = <<>>
    BY <1>2, <2>1
  <2>3. to = "final" /\ s \notin broken' => toolCalls[s] = {}
    BY <1>2, <2>1
  <2> QED
    BY <1>2, <1>3, <2>1, <2>2, <2>3, ZenonT(40) DEF Chat!TurnPhase
<1>7. ContextFits(s)'
  BY <1>1, <1>2, <1>3, <1>4, ContextStays
<1>8. OwnOrStored(s)'
  BY <1>1, <1>2, <1>4, OwnStays
<1>9. pc'[s] = "done" => s \in broken' \/ toolCalls'[s] = {}
  BY <1>1, <1>2, <1>3 DEF Chat!TurnPhase
<1> QED
  BY <1>2, <1>3, <1>4, <1>5, <1>6, <1>7, <1>8, <1>9, OneStream

\* A refused stream, a direct reply, a routed question, a failing graph and a lost turn.
LEMMA QuietMoves ==
  ASSUME Chat!IInv, NEW s \in ChatStreams,
         Chat!RefuseStream(s) \/ Chat!ReplyDirectly(s) \/ Chat!RouteToTools(s) \/ Chat!GraphFails(s) \/ Chat!LoseTurn(s)
  PROVE  Chat!IInv'
<1>1. faults \in 0 .. MaxFaults /\ MaxFaults \in Nat
  BY StreamsAssumption, ChatParts DEF Chat!TypeOK
<1>2. ASSUME Chat!RefuseStream(s) PROVE MovesOnly(s, "done")
  BY <1>1, <1>2 DEF Chat!RefuseStream, Chat!Step, Chat!histVars, MovesOnly
<1>3. ASSUME Chat!ReplyDirectly(s) PROVE MovesOnly(s, "final")
  BY <1>1, <1>3 DEF Chat!ReplyDirectly, Chat!Step, Chat!histVars, MovesOnly
<1>4. ASSUME Chat!RouteToTools(s) PROVE MovesOnly(s, "tools") \/ MovesOnly(s, "assemble")
  BY <1>1, <1>4 DEF Chat!RouteToTools, Chat!Step, Chat!histVars, MovesOnly
<1>5. ASSUME Chat!GraphFails(s) PROVE MovesOnly(s, "final")
  BY <1>1, <1>5 DEF Chat!GraphFails, Chat!Step, Chat!Fault, MovesOnly
<1>6. ASSUME Chat!LoseTurn(s) PROVE MovesOnly(s, "done")
  BY <1>1, <1>6 DEF Chat!LoseTurn, Chat!Step, MovesOnly
<1> QED
  BY <1>2, <1>3, <1>4, <1>5, <1>6, StreamMoves

\* A stream reads the rows.
LEMMA HistoryIsLoaded ==
  ASSUME Chat!IInv, NEW s \in ChatStreams, Chat!LoadHistory(s) PROVE Chat!IInv'
<1>1. /\ Chat!TypeOK /\ Chat!TurnPhase(s) /\ OwnOrStored(s) /\ RowsAreInOrder
  BY ChatParts
<1>2. PICK to \in {"agent", "fitting"} :
      /\ pc[s] = "idle" /\ pc' = [pc EXCEPT ![s] = to]
      /\ context' = [context EXCEPT ![s] = Chat!Replay]
      /\ loaded' = [loaded EXCEPT ![s] = Len(rows)] /\ fitted' = [fitted EXCEPT ![s] = "whole"]
      /\ rows' = rows /\ titled' = titled /\ toolCalls' = toolCalls /\ results' = results
      /\ faults' = faults /\ broken' = broken
  BY Zenon DEF Chat!LoadHistory, Chat!Step
<1>3. rows \in Seq(Chat!Row) /\ Len(rows) \in Nat /\ Chat!Replay \in Seq(Chat!Message) /\ ShowsRows(Chat!Replay)
  BY <1>1, ChatTypes, Replayed
<1>4. pc'[s] = to /\ context'[s] = Chat!Replay /\ loaded'[s] = Len(rows) /\ fitted'[s] = "whole"
  BY <1>1, <1>2 DEF Chat!TypeOK
<1>5. OthersStay(s)
  BY <1>1, <1>2 DEF Chat!TypeOK, OthersStay
<1>6. NoTurnIsAdded /\ Kept
  BY <1>2, <1>3, RowsUnchanged
<1>7. Chat!TypeOK'
  <2>1. pc' \in [ChatStreams -> Chat!Phases]
    BY <1>1, <1>2 DEF Chat!TypeOK, Chat!Phases
  <2>2. context' \in [ChatStreams -> Seq(Chat!Message)]
    BY <1>1, <1>2, <1>3, Zenon DEF Chat!TypeOK
  <2>3. loaded' \in [ChatStreams -> Nat] /\ fitted' \in [ChatStreams -> {"none", "whole", "summary", "tail"}]
    BY <1>1, <1>2, <1>3 DEF Chat!TypeOK
  <2> QED
    BY <1>1, <1>2, <2>1, <2>2, <2>3, Zenon DEF Chat!TypeOK
<1>8. Chat!TurnPhase(s)'
  <2>1. toolCalls[s] = {} /\ results[s] = <<>>
    BY <1>1, <1>2 DEF Chat!TurnPhase
  <2> QED
    BY <1>2, <1>4, <2>1 DEF Chat!TurnPhase
<1>9. ContextFits(s)'
  BY <1>2, <1>3, <1>4, ContextIsLoaded
<1>10. OwnOrStored(s)'
  <2> PICK c \in Seq(Chat!Message) : c = Chat!Replay
    BY <1>3
  <2>1. ASSUME NEW m \in 1 .. Len(c), c[m].kind = "tool" PROVE c[m].of \in Stored
    <3>1. Chat!ToolsAreBehind(c, rows) /\ TurnsAreOf(c, Chat!Rows("assistant"))
      BY <1>3, Zenon DEF ShowsRows
    <3>2. PICK k \in 1 .. m - 1 :
            /\ c[k].kind = "ai"
            /\ \E r \in 1 .. Len(rows[c[k].of].results) : rows[c[k].of].results[r] = c[m].of
      BY <2>1, <3>1, Zenon DEF Chat!ToolsAreBehind
    <3>3. k \in 1 .. Len(c)
      OBVIOUS
    <3>4. c[k].of \in Chat!Rows("assistant")
      BY <3>1, <3>2, <3>3, Zenon DEF TurnsAreOf
    <3>5. \E j \in Chat!Rows("assistant") : rows[j].turn = c[m].of
      BY <1>1, <3>2, <3>4, Zenon DEF RowsAreInOrder
    <3> QED
      BY <3>5, Zenon DEF Stored
  <2>2. ToolsOf(c, {s} \cup Stored')
    BY <1>6, <2>1, StoredIsKept, Zenon DEF ToolsOf
  <2>3. ResultsOf(results[s], {s} \cup Stored')
    BY <1>1, <1>6, StoredIsKept, Zenon DEF OwnOrStored, ResultsOf
  <2> QED
    BY <1>2, <1>4, <2>2, <2>3, Zenon DEF OwnOrStored
<1>11. pc[s] # "done" /\ pc'[s] # "done" /\ broken \subseteq broken'
  BY <1>2, <1>4
<1> QED
  BY <1>5, <1>6, <1>7, <1>8, <1>9, <1>10, <1>11, OneStream

\* A row that is no turn is added.
LEMMA OtherRow ==
  ASSUME rows \in Seq(Chat!Row), NEW role \in {"user", "summary"}, Chat!AddRow(role, Chat!NoTurn, <<>>)
  PROVE  NoTurnIsAdded /\ Kept /\ rows' \in Seq(Chat!Row)
<1>1. Chat!NoTurn \in Chat!Turns /\ <<>> \in Seq(ChatStreams) /\ role \in {"user", "assistant", "summary"}
  BY DEF Chat!Turns
<1>2. /\ Kept /\ rows' \in Seq(Chat!Row) /\ Len(rows') = Len(rows) + 1
      /\ rows'[Len(rows) + 1] = [role |-> role, turn |-> Chat!NoTurn, results |-> <<>>]
      /\ \A i \in 1 .. Len(rows') : i \in 1 .. Len(rows) \/ i = Len(rows) + 1
  BY <1>1, RowIsAdded
<1>3. ASSUME NEW i \in Chat!Rows("assistant")' PROVE i \in Chat!Rows("assistant")
  <2>1. i \in 1 .. Len(rows') /\ rows'[i].role = "assistant"
    BY DEF Chat!Rows
  <2>2. rows'[Len(rows) + 1].role = role
    BY <1>2
  <2>3. i \in 1 .. Len(rows)
    BY <1>2, <2>1, <2>2
  <2> QED
    BY <1>2, <2>1, <2>3 DEF Chat!Rows, Kept
<1>4. Chat!Rows("assistant")' = Chat!Rows("assistant")
  BY <1>2, <1>3, RolesAreKept
<1> QED
  BY <1>2, <1>4 DEF NoTurnIsAdded

\* The user writes.
LEMMA MessageIsPosted == ASSUME Chat!IInv, Chat!PostMessage PROVE Chat!IInv'
<1>1. /\ Chat!TypeOK /\ Chat!RowsAreOfTurns /\ RowsAreInOrder /\ Chat!ExecutedIsRecorded
      /\ \A t \in ChatStreams : Chat!TurnPhase(t) /\ ContextFits(t) /\ OwnOrStored(t)
  BY ChatParts
<1>2. /\ Chat!AddRow("user", Chat!NoTurn, <<>>) /\ titled' = TRUE
      /\ pc' = pc /\ context' = context /\ toolCalls' = toolCalls /\ results' = results
      /\ faults' = faults /\ loaded' = loaded /\ fitted' = fitted /\ broken' = broken
  BY Zenon DEF Chat!PostMessage, Chat!turnVars, Chat!histVars
<1>3. NoTurnIsAdded /\ Kept /\ rows' \in Seq(Chat!Row)
  BY <1>1, <1>2, OtherRow DEF Chat!TypeOK
<1>4. Chat!TypeOK'
  BY <1>1, <1>2, <1>3, Zenon DEF Chat!TypeOK
<1>5. ASSUME NEW t \in ChatStreams PROVE Chat!TurnPhase(t)' /\ ContextFits(t)' /\ OwnOrStored(t)'
  <2>1. Chat!TurnPhase(t)'
    BY <1>1, <1>2, TurnStays
  <2>2. ContextFits(t)'
    BY <1>1, <1>2, <1>3, ContextStays, ChatTypes
  <2>3. OwnOrStored(t)'
    BY <1>1, <1>2, <1>3, OwnStays
  <2> QED
    BY <2>1, <2>2, <2>3
<1>6. Chat!RowsAreOfTurns' /\ RowsAreInOrder'
  BY <1>1, <1>2, <1>3, TurnsStay
<1>7. Chat!ExecutedIsRecorded'
  BY <1>1, <1>2, <1>3, RecordsStay
<1> QED
  BY <1>4, <1>5, <1>6, <1>7, ChatParts

\* A context that is cut has no other tools than it had.
LEMMA TailTools ==
  ASSUME NEW c \in Seq(Chat!Message), NEW n \in Nat, n # 0, NEW T, ToolsOf(c, T)
  PROVE  ToolsOf(Chat!Last(c, n), T)
<1>1. CASE Len(c) <= n
  BY <1>1 DEF Chat!Last
<1>2. CASE ~(Len(c) <= n)
  <2>0. Len(c) - n + 1 \in Nat /\ Len(c) - n + 1 >= 1 /\ Len(c) - n + 1 <= Len(c)
    BY <1>2
  <2> PICK l \in Nat : l = Len(c) - n + 1 /\ l >= 1 /\ l <= Len(c)
    BY <2>0
  <2>1. Chat!Last(c, n) = SubSeq(c, l, Len(c))
    BY <1>2 DEF Chat!Last
  <2>2. /\ Len(SubSeq(c, l, Len(c))) = n
        /\ \A i \in 1 .. n : SubSeq(c, l, Len(c))[i] = c[l + i - 1]
    OBVIOUS
  <2>3. \A i \in 1 .. n : l + i - 1 \in 1 .. Len(c)
    OBVIOUS
  <2> QED
    BY <2>1, <2>2, <2>3, Zenon DEF ToolsOf
<1> QED
  BY <1>1, <1>2

\* The budget cuts a context, with a summary or without.
LEMMA ContextIsFitted ==
  ASSUME Chat!IInv, NEW s \in ChatStreams, Chat!Summarize(s) \/ Chat!SummarizerFails(s)
  PROVE  Chat!IInv'
<1>1. Chat!TypeOK /\ Chat!TurnPhase(s) /\ ContextFits(s) /\ OwnOrStored(s)
  BY ChatParts
<1>2. KeepLastN \in Nat /\ KeepLastN # 0 /\ 2 * KeepLastN \in Nat /\ 2 * KeepLastN # 0 /\ MaxFaults \in Nat
  BY StreamsAssumption
<1>3. PICK n \in Nat, f \in {"summary", "tail"} :
        /\ n # 0 /\ pc[s] = "fitting" /\ pc' = [pc EXCEPT ![s] = "agent"]
        /\ context' = [context EXCEPT ![s] = Chat!Last(context[s], n)]
        /\ fitted' = [fitted EXCEPT ![s] = f]
        /\ titled' = titled /\ toolCalls' = toolCalls /\ results' = results
        /\ loaded' = loaded /\ broken' = broken
        /\ rows' = rows \/ Chat!AddRow("summary", Chat!NoTurn, <<>>)
        /\ faults' \in 0 .. MaxFaults
  <2>1. CASE Chat!Summarize(s)
    <3>1. faults' \in 0 .. MaxFaults
      BY <1>1, <2>1 DEF Chat!TypeOK, Chat!Summarize
    <3> QED
      BY <1>2, <2>1, <3>1, Zenon DEF Chat!Summarize, Chat!Step
  <2>2. CASE Chat!SummarizerFails(s)
    <3>1. faults' \in 0 .. MaxFaults
      BY <1>1, <1>2, <2>2 DEF Chat!TypeOK, Chat!SummarizerFails, Chat!Fault
    <3> QED
      BY <1>2, <2>2, <3>1, Zenon DEF Chat!SummarizerFails, Chat!Step
  <2> QED
    BY <2>1, <2>2
<1>4. NoTurnIsAdded /\ Kept /\ rows' \in Seq(Chat!Row)
  BY <1>1, <1>3, OtherRow, RowsUnchanged DEF Chat!TypeOK
<1>5. context[s] \in Seq(Chat!Message) /\ Chat!Last(context[s], n) \in Seq(Chat!Message) /\ loaded[s] \in Nat
  BY <1>1, <1>3, ChatTypes, TailEnds
<1>6. /\ pc'[s] = "agent" /\ context'[s] = Chat!Last(context[s], n) /\ fitted'[s] = f
      /\ toolCalls'[s] = toolCalls[s] /\ results'[s] = results[s] /\ loaded'[s] = loaded[s]
  BY <1>1, <1>3 DEF Chat!TypeOK
<1>7. OthersStay(s)
  BY <1>1, <1>3 DEF Chat!TypeOK, OthersStay
<1>8. Chat!TypeOK'
  <2>1. pc' \in [ChatStreams -> Chat!Phases]
    BY <1>1, <1>3 DEF Chat!TypeOK, Chat!Phases
  <2>2. context' \in [ChatStreams -> Seq(Chat!Message)]
    BY <1>1, <1>3, <1>5, Zenon DEF Chat!TypeOK
  <2>3. fitted' \in [ChatStreams -> {"none", "whole", "summary", "tail"}]
    BY <1>1, <1>3 DEF Chat!TypeOK
  <2> QED
    BY <1>1, <1>3, <1>4, <2>1, <2>2, <2>3, Zenon DEF Chat!TypeOK
<1>9. Chat!TurnPhase(s)'
  BY <1>1, <1>3, <1>6, Zenon DEF Chat!TurnPhase
<1>10. ContextFits(s)'
  BY <1>1, <1>3, <1>4, <1>5, <1>6, ContextIsCut
<1>11. OwnOrStored(s)'
  <2>1. ToolsOf(context[s], {s} \cup Stored') /\ ResultsOf(results[s], {s} \cup Stored')
    BY <1>1, <1>4, StoredIsKept, Zenon DEF OwnOrStored, ToolsOf, ResultsOf
  <2>2. ToolsOf(Chat!Last(context[s], n), {s} \cup Stored')
    BY <1>3, <1>5, <2>1, TailTools
  <2> QED
    BY <1>6, <2>1, <2>2, Zenon DEF OwnOrStored
<1>12. pc[s] # "done" /\ pc'[s] # "done" /\ broken \subseteq broken'
  BY <1>3, <1>6
<1> QED
  BY <1>4, <1>7, <1>8, <1>9, <1>10, <1>11, <1>12, OneStream

\* The tools run.
LEMMA ToolsRun == ASSUME Chat!IInv, NEW s \in ChatStreams, Chat!RunTools(s) PROVE Chat!IInv'
<1>1. Chat!TypeOK /\ Chat!TurnPhase(s) /\ ContextFits(s) /\ OwnOrStored(s)
  BY ChatParts
<1>2. PICK e : e = [kind |-> "tool", of |-> s]
  OBVIOUS
<1>3. e \in Chat!Message /\ e.kind = "tool" /\ e.of = s
  BY <1>2 DEF Chat!Message
<1>4. PICK c \in Seq(Chat!Message) : c = <<e>> /\ Len(c) = 1 /\ c[1] = e
  <2>1. <<e>> \in Seq(Chat!Message) /\ Len(<<e>>) = 1 /\ <<e>>[1] = e
    BY <1>3
  <2> QED
    BY <2>1
<1>5. /\ pc[s] = "tools" /\ pc' = [pc EXCEPT ![s] = "assemble"]
      /\ toolCalls' = [toolCalls EXCEPT ![s] = toolCalls[s] \cup {s}]
      /\ context' = [context EXCEPT ![s] = c]
      /\ rows' = rows /\ titled' = titled /\ results' = results /\ faults' = faults
      /\ loaded' = loaded /\ fitted' = fitted /\ broken' = broken
  BY <1>2, <1>4, Zenon DEF Chat!RunTools, Chat!Step, Chat!histVars
<1>6. toolCalls[s] = {} /\ results[s] = <<>>
  BY <1>1, <1>5 DEF Chat!TurnPhase
<1>7. pc'[s] = "assemble" /\ toolCalls'[s] = {s} /\ context'[s] = c /\ results'[s] = <<>>
  BY <1>1, <1>5, <1>6 DEF Chat!TypeOK
<1>8. OthersStay(s)
  BY <1>1, <1>5 DEF Chat!TypeOK, OthersStay
<1>9. NoTurnIsAdded /\ Kept /\ loaded[s] \in Nat
  BY <1>1, <1>5, RowsUnchanged, ChatTypes
<1>10. Chat!TypeOK'
  <2>1. pc' \in [ChatStreams -> Chat!Phases]
    BY <1>1, <1>5 DEF Chat!TypeOK, Chat!Phases
  <2>2. context' \in [ChatStreams -> Seq(Chat!Message)]
    BY <1>1, <1>5, <1>4, Zenon DEF Chat!TypeOK
  <2>3. toolCalls' \in [ChatStreams -> SUBSET ChatStreams]
    BY <1>1, <1>5 DEF Chat!TypeOK
  <2> QED
    BY <1>1, <1>5, <2>1, <2>2, <2>3, Zenon DEF Chat!TypeOK
<1>11. Chat!TurnPhase(s)'
  <2>1. context'[s] = <<[kind |-> "tool", of |-> s]>>
    BY <1>2, <1>4, <1>7, Zenon
  <2>2. Len(results'[s]) = 0
    BY <1>7
  <2>3. \A k \in 1 .. Len(results'[s]) : results'[s][k] = s
    BY <2>2
  <2> QED
    BY <1>7, <2>1, <2>3, Zenon DEF Chat!TurnPhase
<1>12. ContextFits(s)'
  BY <1>1, <1>5, <1>7, <1>9, ContextStays
<1>13. OwnOrStored(s)'
  <2>1. ToolsOf(c, {s} \cup Stored')
    BY <1>3, <1>4 DEF ToolsOf
  <2>2. ResultsOf(<<>>, {s} \cup Stored')
    BY DEF ResultsOf
  <2> QED
    BY <1>7, <2>1, <2>2, Zenon DEF OwnOrStored
<1>14. pc[s] # "done" /\ pc'[s] # "done" /\ broken \subseteq broken'
  BY <1>5, <1>7
<1> QED
  BY <1>8, <1>9, <1>10, <1>11, <1>12, <1>13, <1>14, OneStream

\* The results are assembled.
LEMMA ResponseIsAssembled ==
  ASSUME Chat!IInv, NEW s \in ChatStreams, Chat!AssembleResponse(s) PROVE Chat!IInv'
<1>1. Chat!TypeOK /\ Chat!TurnPhase(s) /\ ContextFits(s) /\ OwnOrStored(s)
  BY ChatParts
<1>2. /\ context[s] \in Seq(Chat!Message) /\ loaded[s] \in Nat
      /\ Chat!ResultsIn(context[s]) \in Seq(ChatStreams) /\ OfTools(Chat!ResultsIn(context[s]), context[s])
  BY <1>1, ChatTypes, ResultsAreOfMessages
<1>3. PICK q \in Seq(ChatStreams) : q = Chat!ResultsIn(context[s]) /\ OfTools(q, context[s])
  BY <1>2
<1>4. /\ pc[s] = "assemble" /\ pc' = [pc EXCEPT ![s] = "final"]
      /\ results' = [results EXCEPT ![s] = q]
      /\ rows' = rows /\ titled' = titled /\ context' = context /\ toolCalls' = toolCalls
      /\ faults' = faults /\ loaded' = loaded /\ fitted' = fitted /\ broken' = broken
  BY <1>3, Zenon DEF Chat!AssembleResponse, Chat!Step, Chat!histVars
<1>5. pc'[s] = "final" /\ results'[s] = q /\ toolCalls'[s] = toolCalls[s] /\ context'[s] = context[s]
  BY <1>1, <1>4 DEF Chat!TypeOK
<1>6. OthersStay(s)
  BY <1>1, <1>4 DEF Chat!TypeOK, OthersStay
<1>7. NoTurnIsAdded /\ Kept
  BY <1>1, <1>4, RowsUnchanged, ChatTypes
<1>8. Chat!TypeOK'
  <2>1. pc' \in [ChatStreams -> Chat!Phases]
    BY <1>1, <1>4 DEF Chat!TypeOK, Chat!Phases
  <2>2. results' \in [ChatStreams -> Seq(ChatStreams)]
    BY <1>1, <1>4, Zenon DEF Chat!TypeOK
  <2> QED
    BY <1>1, <1>4, <2>1, <2>2, Zenon DEF Chat!TypeOK
<1>9. Chat!TurnPhase(s)'
  <2>1. toolCalls[s] \subseteq {s} /\ (toolCalls[s] # {} => context[s] = <<[kind |-> "tool", of |-> s]>>)
    BY <1>1, <1>4, Zenon DEF Chat!TurnPhase
  <2>2. toolCalls[s] # {} => q = <<s>>
    BY <1>3, <2>1, ResultOfTool
  <2>3. toolCalls[s] # {} => Len(q) = 1 /\ q[1] = s
    BY <2>2
  <2>4. toolCalls[s] # {} => \A k \in 1 .. Len(q) : q[k] = s
    BY <2>3
  <2>5. \A d \in toolCalls[s] : \E k \in 1 .. Len(q) : q[k] = d
    BY <2>1, <2>3
  <2> QED
    BY <1>5, <2>1, <2>4, <2>5, Zenon DEF Chat!TurnPhase
<1>10. ContextFits(s)'
  BY <1>1, <1>2, <1>4, <1>5, <1>7, ContextStays
<1>11. OwnOrStored(s)'
  <2>1. ToolsOf(context[s], {s} \cup Stored')
    BY <1>1, <1>7, StoredIsKept, Zenon DEF OwnOrStored, ToolsOf
  <2>2. ResultsOf(q, {s} \cup Stored')
    BY <1>3, <2>1, Zenon DEF ToolsOf, ResultsOf, OfTools
  <2> QED
    BY <1>5, <2>1, <2>2, Zenon DEF OwnOrStored
<1>12. pc[s] # "done" /\ pc'[s] # "done" /\ broken \subseteq broken'
  BY <1>4, <1>5
<1> QED
  BY <1>6, <1>7, <1>8, <1>9, <1>10, <1>11, <1>12, OneStream

\* A stored turn ends.
LEMMA TurnIsPersisted ==
  ASSUME Chat!IInv, NEW s \in ChatStreams, Chat!PersistTurn(s) PROVE Chat!IInv'
<1>1. /\ Chat!TypeOK /\ Chat!RowsAreOfTurns /\ RowsAreInOrder /\ Chat!ExecutedIsRecorded
      /\ \A t \in ChatStreams : Chat!TurnPhase(t) /\ ContextFits(t) /\ OwnOrStored(t)
  BY ChatParts
<1>2. /\ pc[s] = "final" /\ pc' = [pc EXCEPT ![s] = "done"]
      /\ Chat!AddRow("assistant", s, results[s])
      /\ titled' = titled /\ context' = context /\ toolCalls' = toolCalls /\ results' = results
      /\ faults' = faults /\ loaded' = loaded /\ fitted' = fitted /\ broken' = broken
  BY Zenon DEF Chat!PersistTurn, Chat!Step, Chat!histVars
<1> PICK q \in Seq(ChatStreams) : q = results[s]
  BY <1>1, ChatTypes
<1> PICK n \in Nat : n = Len(rows) + 1
  BY <1>1, ChatTypes
<1> PICK e : e = [role |-> "assistant", turn |-> s, results |-> q]
  OBVIOUS
<1>3. /\ Kept /\ rows' \in Seq(Chat!Row) /\ Len(rows') = n /\ rows'[n] = e
      /\ \A i \in 1 .. n : i \in 1 .. Len(rows) \/ i = n
  <2>1. s \in Chat!Turns /\ rows \in Seq(Chat!Row) /\ Chat!AddRow("assistant", s, q)
    BY <1>1, <1>2, ChatTypes DEF Chat!Turns
  <2>2. /\ Kept /\ rows' \in Seq(Chat!Row) /\ Len(rows') = Len(rows) + 1
        /\ rows'[Len(rows) + 1] = e
        /\ \A i \in 1 .. Len(rows') : i \in 1 .. Len(rows) \/ i = Len(rows) + 1
    BY <2>1, RowIsAdded, Zenon
  <2> QED
    BY <2>2
<1>4. e.role = "assistant" /\ e.turn = s /\ e.results = q
  OBVIOUS
<1>5. n \in Chat!Rows("assistant")' /\ n \notin Chat!Rows("assistant") /\ n \in Nat
  <2>1. n \in 1 .. Len(rows') /\ n \notin 1 .. Len(rows)
    BY <1>1, <1>3, ChatTypes
  <2> QED
    BY <1>3, <1>4, <2>1, Zenon DEF Chat!Rows
<1>6. \A i \in Chat!Rows("assistant") : i \in Nat /\ i < n /\ i \in Chat!Rows("assistant")' /\ rows'[i] = rows[i]
  <2>1. Chat!Rows("assistant") \subseteq 1 .. Len(rows) /\ Chat!Rows("assistant") \subseteq Chat!Rows("assistant")'
    BY <1>3, RolesAreKept
  <2>2. \A i \in 1 .. Len(rows) : i \in Nat /\ i < n /\ rows'[i] = rows[i]
    BY <1>3 DEF Kept
  <2> QED
    BY <2>1, <2>2
<1>7. ASSUME NEW i \in Chat!Rows("assistant")' PROVE i = n \/ i \in Chat!Rows("assistant")
  <2>1. i \in 1 .. n /\ rows'[i].role = "assistant"
    BY <1>3 DEF Chat!Rows
  <2>2. CASE i \in 1 .. Len(rows)
    BY <1>3, <2>1, <2>2 DEF Kept, Chat!Rows
  <2> QED
    BY <1>3, <2>1, <2>2
<1>8. Chat!TypeOK'
  <2>1. pc' \in [ChatStreams -> Chat!Phases]
    BY <1>1, <1>2 DEF Chat!TypeOK, Chat!Phases
  <2> QED
    BY <1>1, <1>2, <1>3, <2>1, Zenon DEF Chat!TypeOK
<1>9. pc'[s] = "done" /\ \A t \in ChatStreams : t # s => pc'[t] = pc[t]
  BY <1>1, <1>2 DEF Chat!TypeOK
<1>10. \A i \in Chat!Rows("assistant") :
         /\ rows[i].turn \in ChatStreams /\ rows[i].turn # s /\ pc'[rows[i].turn] = "done"
         /\ \A j \in Chat!Rows("assistant") : rows[j].turn = rows[i].turn => j = i
         /\ toolCalls[rows[i].turn] # {} =>
              \A k \in 1 .. Len(rows[i].results) : rows[i].results[k] = rows[i].turn
  <2> TAKE i \in Chat!Rows("assistant")
  <2>1. /\ rows[i].turn \in ChatStreams /\ pc[rows[i].turn] = "done"
        /\ \A j \in Chat!Rows("assistant") : rows[j].turn = rows[i].turn => j = i
        /\ toolCalls[rows[i].turn] # {} =>
             \A k \in 1 .. Len(rows[i].results) : rows[i].results[k] = rows[i].turn
    BY <1>1, Zenon DEF Chat!RowsAreOfTurns
  <2>2. rows[i].turn # s
    BY <1>2, <2>1
  <2> QED
    BY <1>9, <2>1, <2>2
<1>11. /\ toolCalls[s] \subseteq {s}
       /\ toolCalls[s] # {} => \A k \in 1 .. Len(q) : q[k] = s
       /\ s \notin broken => \A c \in toolCalls[s] : \E k \in 1 .. Len(q) : q[k] = c
  BY <1>1, <1>2, Zenon DEF Chat!TurnPhase
<1>12. Chat!RowsAreOfTurns'
  <2>1. ASSUME NEW i \in Chat!Rows("assistant")'
        PROVE  /\ rows'[i].turn \in ChatStreams /\ pc'[rows'[i].turn] = "done"
               /\ \A j \in Chat!Rows("assistant")' : rows'[j].turn = rows'[i].turn => j = i
               /\ toolCalls'[rows'[i].turn] # {} =>
                    \A k \in 1 .. Len(rows'[i].results) : rows'[i].results[k] = rows'[i].turn
    <3>1. CASE i = n
      <4>1. \A j \in Chat!Rows("assistant")' : rows'[j].turn = s => j = n
        BY <1>6, <1>7, <1>10, Zenon
      <4>2. rows'[i].turn = s /\ rows'[i].results = q /\ toolCalls'[s] = toolCalls[s]
        BY <1>2, <1>3, <1>4, <3>1
      <4>3. toolCalls'[s] # {} => \A k \in 1 .. Len(q) : q[k] = s
        BY <1>11, <4>2
      <4>4. \A j \in Chat!Rows("assistant")' : rows'[j].turn = s => j = i
        BY <3>1, <4>1, Zenon
      <4> QED
        BY <1>9, <4>2, <4>3, <4>4, Zenon
    <3>2. CASE i \in Chat!Rows("assistant")
      <4>1. \A j \in Chat!Rows("assistant")' : rows'[j].turn = rows[i].turn => j = i
        BY <1>3, <1>4, <1>6, <1>7, <1>10, <3>2, Zenon
      <4>2. rows'[i] = rows[i] /\ toolCalls' = toolCalls
        BY <1>2, <1>6, <3>2
      <4> QED
        BY <1>10, <3>2, <4>1, <4>2, Zenon
    <3> QED
      BY <1>7, <3>1, <3>2
  <2> QED
    BY <2>1, Zenon DEF Chat!RowsAreOfTurns
<1>13. RowsAreInOrder'
  <2>1. ASSUME NEW i \in Chat!Rows("assistant")', NEW k \in 1 .. Len(rows'[i].results)
        PROVE  \E j \in Chat!Rows("assistant")' : j <= i /\ rows'[j].turn = rows'[i].results[k]
    <3>1. CASE i = n
      <4>1. rows'[i] = e /\ k \in 1 .. Len(q)
        BY <1>3, <1>4, <3>1
      <4>2. q[k] = s \/ q[k] \in Stored
        BY <1>1, <4>1, Zenon DEF OwnOrStored, ResultsOf
      <4>3. CASE q[k] = s
        <5>1. n <= i
          BY <3>1
        <5> QED
          BY <1>3, <1>4, <1>5, <4>1, <4>3, <5>1, Zenon
      <4>4. CASE q[k] \in Stored
        <5>1. PICK j \in Chat!Rows("assistant") : rows[j].turn = q[k]
          BY <4>4, Zenon DEF Stored
        <5>2. j <= i /\ j \in Chat!Rows("assistant")' /\ rows'[j] = rows[j]
          BY <1>6, <3>1
        <5> QED
          BY <1>4, <4>1, <5>1, <5>2, Zenon
      <4> QED
        BY <4>2, <4>3, <4>4
    <3>2. CASE i \in Chat!Rows("assistant")
      <4>1. rows'[i] = rows[i]
        BY <1>6, <3>2
      <4>2. PICK j \in Chat!Rows("assistant") : j <= i /\ rows[j].turn = rows[i].results[k]
        BY <1>1, <3>2, <4>1, Zenon DEF RowsAreInOrder
      <4>3. j \in Chat!Rows("assistant")' /\ rows'[j] = rows[j]
        BY <1>6
      <4> QED
        BY <4>1, <4>2, <4>3, Zenon
    <3> QED
      BY <1>7, <3>1, <3>2
  <2> QED
    BY <2>1, Zenon DEF RowsAreInOrder
<1>14. Chat!ExecutedIsRecorded'
  <2>1. ASSUME NEW t \in ChatStreams \ broken', pc'[t] = "done", NEW c \in toolCalls'[t]
        PROVE  \E i \in Chat!Rows("assistant")' :
                 rows'[i].turn = t /\ \E k \in 1 .. Len(rows'[i].results) : rows'[i].results[k] = c
    <3>1. CASE t = s
      <4>1. \E k \in 1 .. Len(q) : q[k] = c
        BY <1>2, <1>11, <2>1, <3>1
      <4>2. rows'[n].turn = t /\ \E k \in 1 .. Len(rows'[n].results) : rows'[n].results[k] = c
        BY <1>3, <1>4, <3>1, <4>1, Zenon
      <4> QED
        BY <1>5, <4>2, Zenon
    <3>2. CASE t # s
      <4>1. t \in ChatStreams \ broken /\ pc[t] = "done" /\ c \in toolCalls[t]
        BY <1>2, <1>9, <2>1, <3>2
      <4>2. PICK i \in Chat!Rows("assistant") :
              rows[i].turn = t /\ \E k \in 1 .. Len(rows[i].results) : rows[i].results[k] = c
        <5>1. \A d \in toolCalls[t] : \E i \in Chat!Rows("assistant") :
                rows[i].turn = t /\ \E k \in 1 .. Len(rows[i].results) : rows[i].results[k] = d
          BY <1>1, <4>1, Zenon DEF Chat!ExecutedIsRecorded
        <5>2. c \in toolCalls[t]
          BY <4>1
        <5> QED
          BY <5>1, <5>2, Zenon
      <4> PICK g : g = rows[i]
        OBVIOUS
      <4>3. i \in Chat!Rows("assistant")' /\ g = rows'[i]
        BY <1>6, Zenon
      <4>4. g.turn = t /\ \E k \in 1 .. Len(g.results) : g.results[k] = c
        BY <4>2, Zenon
      <4>5. rows'[i].turn = t /\ \E k \in 1 .. Len(rows'[i].results) : rows'[i].results[k] = c
        BY <4>3, <4>4, Zenon
      <4> QED
        BY <4>3, <4>5, Zenon
    <3> QED
      BY <3>1, <3>2
  <2> QED
    BY <2>1, Zenon DEF Chat!ExecutedIsRecorded
<1>15. ASSUME NEW t \in ChatStreams PROVE Chat!TurnPhase(t)' /\ ContextFits(t)' /\ OwnOrStored(t)'
  <2>1. ContextFits(t)' /\ OwnOrStored(t)'
    <3>1. loaded[t] \in Nat /\ (pc'[t] \notin {"fitting", "agent"} \/ pc'[t] = pc[t])
      BY <1>1, <1>9, ChatTypes
    <3> QED
      BY <1>1, <1>2, <1>3, <3>1, ContextStays, OwnStays, Zenon
  <2>2. CASE t # s
    <3>1. pc'[t] = pc[t]
      BY <1>9, <2>2
    <3>2. Chat!TurnPhase(t)'
      BY <1>1, <1>2, <3>1, TurnStays, Zenon
    <3> QED
      BY <2>1, <3>2
  <2>3. CASE t = s
    <3>1. Chat!TurnPhase(s)'
      <4>1. context'[s] = context[s] /\ toolCalls'[s] = toolCalls[s] /\ results'[s] = q
        BY <1>2
      <4> QED
        BY <1>9, <1>11, <4>1, Zenon DEF Chat!TurnPhase
    <3> QED
      BY <2>1, <2>3, <3>1
  <2> QED
    BY <2>2, <2>3
<1> QED
  BY <1>8, <1>12, <1>13, <1>14, <1>15, ChatParts

\* The invariant stays when nothing of the conversation changes.
LEMMA ChatUnchanged == ASSUME Chat!IInv, UNCHANGED Chat!vars PROVE Chat!IInv'
<1>1. /\ Chat!TypeOK /\ Chat!RowsAreOfTurns /\ RowsAreInOrder /\ Chat!ExecutedIsRecorded
      /\ \A t \in ChatStreams : Chat!TurnPhase(t) /\ ContextFits(t) /\ OwnOrStored(t)
  BY ChatParts
<1>2. /\ rows' = rows /\ titled' = titled /\ pc' = pc /\ context' = context /\ toolCalls' = toolCalls
      /\ results' = results /\ faults' = faults /\ loaded' = loaded /\ fitted' = fitted /\ broken' = broken
  BY Zenon DEF Chat!vars, Chat!turnVars, Chat!histVars
<1>3. NoTurnIsAdded /\ Kept
  BY <1>1, <1>2, RowsUnchanged DEF Chat!TypeOK
<1>4. Chat!TypeOK'
  BY <1>1, <1>2, Zenon DEF Chat!TypeOK
<1>5. ASSUME NEW t \in ChatStreams PROVE Chat!TurnPhase(t)' /\ ContextFits(t)' /\ OwnOrStored(t)'
  <2>1. Chat!TurnPhase(t)'
    BY <1>1, <1>2, TurnStays
  <2>2. ContextFits(t)'
    BY <1>1, <1>2, <1>3, ContextStays, ChatTypes
  <2>3. OwnOrStored(t)'
    BY <1>1, <1>2, <1>3, OwnStays
  <2> QED
    BY <2>1, <2>2, <2>3
<1>6. Chat!RowsAreOfTurns' /\ RowsAreInOrder'
  BY <1>1, <1>2, <1>3, TurnsStay
<1>7. Chat!ExecutedIsRecorded'
  BY <1>1, <1>2, <1>3, RecordsStay
<1> QED
  BY <1>4, <1>5, <1>6, <1>7, ChatParts

\* Every step of the conversation keeps the invariant.
LEMMA ChatStep == Chat!IInv /\ [Chat!Next]_(Chat!vars) => Chat!IInv'
<1> SUFFICES ASSUME Chat!IInv, [Chat!Next]_(Chat!vars) PROVE Chat!IInv'
  OBVIOUS
<1>1. ASSUME NEW s \in ChatStreams, Chat!StreamStep(s) PROVE Chat!IInv'
  BY <1>1, ContextIsFitted, QuietMoves, ToolsRun, ResponseIsAssembled, TurnIsPersisted, Zenon
     DEF Chat!StreamStep
<1>2. CASE Chat!Next
  BY <1>1, <1>2, MessageIsPosted, QuietMoves, HistoryIsLoaded, Zenon DEF Chat!Next
<1>3. CASE UNCHANGED Chat!vars
  BY <1>3, ChatUnchanged
<1> QED
  BY <1>2, <1>3

\* What the invariant says of the conversation.
LEMMA ChatIsSound ==
  ASSUME Chat!IInv PROVE Chat!ContextIsSound /\ Chat!ResultsMatchCalls
<1>1. /\ Chat!TypeOK /\ Chat!RowsAreOfTurns /\ RowsAreInOrder /\ Chat!ExecutedIsRecorded
      /\ \A t \in ChatStreams : ContextFits(t)
  BY ChatParts
<1>2. Chat!ReplayIsWhole
  BY DEF Chat!IInv
<1>3. Chat!QuestionIsSeen
  <2> SUFFICES ASSUME NEW s \in ChatStreams, NEW asked, asked = {i \in Chat!Rows("user") : i <= loaded[s]},
                      pc[s] = "agent", asked # {}
               PROVE  \/ \E m \in 1 .. Len(context[s]) :
                           context[s][m] = [kind |-> "human", of |-> Chat!Newest(asked)]
                      \/ \E i \in Chat!Rows("assistant") : Chat!Newest(asked) < i /\ i <= loaded[s]
    BY Zenon DEF Chat!QuestionIsSeen
  <2> PICK c \in Seq(Chat!Message) : c = context[s]
    BY <1>1, ChatTypes
  <2> PICK h : h = [kind |-> "human", of |-> Chat!Newest(asked)]
    OBVIOUS
  <2>1. \/ c # <<>> /\ c[Len(c)] = h
        \/ \E i \in Chat!Rows("assistant") : Chat!Newest(asked) < i /\ i <= loaded[s]
    <3>1. Chat!QuestionIsLast(s)
      BY <1>1 DEF ContextFits
    <3> QED
      BY <3>1, Zenon DEF Chat!QuestionIsLast
  <2>2. c # <<>> => Len(c) \in 1 .. Len(c)
    OBVIOUS
  <2> QED
    BY <2>1, <2>2, Zenon
<1>4. Chat!RepeatedOnlyByIdleTurn
  <2> SUFFICES ASSUME NEW i \in Chat!Rows("assistant"), NEW j \in Chat!Rows("assistant"), i < j,
                      NEW k \in 1 .. Len(rows[i].results), NEW l \in 1 .. Len(rows[j].results),
                      rows[i].results[k] = rows[j].results[l], toolCalls[rows[j].turn] # {}
               PROVE  FALSE
    BY Zenon DEF Chat!RepeatedOnlyByIdleTurn
  <2>1. /\ \A g \in Chat!Rows("assistant") : rows[g].turn = rows[j].turn => g = j
        /\ \A m \in 1 .. Len(rows[j].results) : rows[j].results[m] = rows[j].turn
    BY <1>1, Zenon DEF Chat!RowsAreOfTurns
  <2>2. PICK g \in Chat!Rows("assistant") : g <= i /\ rows[g].turn = rows[i].results[k]
    BY <1>1, Zenon DEF RowsAreInOrder
  <2>3. rows[g].turn = rows[j].turn
    BY <2>1, <2>2, Zenon
  <2>4. g = j
    BY <2>1, <2>3, Zenon
  <2>5. i \in Nat /\ j \in Nat
    <3>1. Len(rows) \in Nat
      BY <1>1 DEF Chat!TypeOK
    <3> QED
      BY <3>1 DEF Chat!Rows
  <2> QED
    BY <2>2, <2>4, <2>5
<1> QED
  BY <1>1, <1>2, <1>3, <1>4 DEF Chat!ContextIsSound, Chat!ResultsMatchCalls

-----------------------------------------------------------------------------
(* The streams beside each other                                           *)

\* All of them are sound at first.
LEMMA StreamsStart == StreamsInit => StreamsInv
BY JobsInit, ChatInit, AgentInit, ReportInit DEF StreamsInit, StreamsInv

\* A step of one keeps the invariants of all.
LEMMA StreamsStep == StreamsInv /\ [StreamsNext]_allVars => StreamsInv'
<1> SUFFICES ASSUME StreamsInv, [StreamsNext]_allVars PROVE StreamsInv'
  OBVIOUS
<1>1. IInv /\ Chat!IInv /\ AR!IInv /\ RE!IInv
  BY DEF StreamsInv
<1>2. /\ UNCHANGED chatVars => UNCHANGED Chat!vars
      /\ UNCHANGED agentVars => UNCHANGED AR!vars
      /\ UNCHANGED reportVars => UNCHANGED RE!vars
  BY Zenon DEF chatVars, agentVars, reportVars, Chat!vars, Chat!turnVars, Chat!histVars,
               AR!vars, AR!runVars, AR!rowVars, AR!histVars, RE!vars
<1>3. [Next]_vars /\ [Chat!Next]_(Chat!vars) /\ [AR!Next]_(AR!vars) /\ [RE!Next]_(RE!vars)
  <2>1. CASE StreamsNext
    BY <1>2, <2>1, Zenon DEF StreamsNext
  <2>2. CASE UNCHANGED allVars
    BY <1>2, <2>2, Zenon DEF allVars
  <2> QED
    BY <2>1, <2>2
<1> QED
  BY <1>1, <1>3, JobStreamStep, ChatStep, AgentStays, ReportStep DEF StreamsInv

\* The inductive invariants of the streams hold together.
THEOREM StreamsInvariance == StreamsSpec => []StreamsInv
BY StreamsStart, StreamsStep, PTL DEF StreamsSpec

\* Every stream, agent, report and conversation keeps its types.
THEOREM StreamsTypes == StreamsSpec => []StreamsTypeOK
<1>1. StreamsInv => StreamsTypeOK
  BY DEF StreamsInv, StreamsTypeOK, IInv, Chat!IInv, AR!IInv, RE!IInv
<1> QED
  BY <1>1, StreamsInvariance, PTL

\* A client is shown its job in order and complete, whatever else is streamed.
THEOREM JobsStayShown == StreamsSpec => []ClientSeesJob
<1>1. StreamsInv => ClientSeesJob
  BY JobIsShown DEF StreamsInv
<1> QED
  BY <1>1, StreamsInvariance, PTL

\* A turn is answered on what the conversation is, with its question last or a
\* later turn stored, and the stored results are those of the calls
\* (_load_history_as_langchain, compose_working_context and assemble_response).
THEOREM ConversationStaysSound == StreamsSpec => []ConversationIsSound
<1>1. StreamsInv => ConversationIsSound
  BY ChatIsSound DEF StreamsInv, ConversationIsSound
<1> QED
  BY <1>1, StreamsInvariance, PTL

\* What a user sees of an agent is what it did, and a composed report is whole
\* (the events and rows of an agent run, the stages of a research report).
THEOREM AnswersStayWhole == StreamsSpec => []AnswersAreWhole
<1>1. StreamsInv => AnswersAreWhole
  BY AgentsAreSeen DEF StreamsInv, AnswersAreWhole, RE!IInv
<1> QED
  BY <1>1, StreamsInvariance, PTL
=============================================================================
