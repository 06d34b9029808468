---------------------------- MODULE LeasedQueue ----------------------------
(* What the run queue promises: items are submitted, granted to one holder *)
(* in a single step, reported on by whoever believes to hold them, and     *)
(* taken back into the queue.  RunClaims, where a grant is three database  *)
(* transactions of an HTTP request, implements it.                         *)
(***************************************************************************)
CONSTANTS Items, Holders, Nobody

VARIABLES
  state,      \* absent, queued, active or closed
  holder,     \* the holder on record
  believers   \* who works on the item, on record or not

vars == <<state, holder, believers>>

Init ==
  /\ state = [i \in Items |-> "absent"]
  /\ holder = [i \in Items |-> Nobody]
  /\ believers = [i \in Items |-> {}]

Present(i) == state[i] # "absent"

Submit(i) ==
  /\ ~Present(i)
  /\ state' = [state EXCEPT ![i] = "queued"]
  /\ UNCHANGED <<holder, believers>>

Cancel(i) ==
  /\ Present(i)
  /\ state' = [state EXCEPT ![i] = "closed"]
  /\ UNCHANGED <<holder, believers>>

Remove(i) ==
  /\ Present(i)
  /\ state' = [state EXCEPT ![i] = "absent"]
  /\ holder' = [holder EXCEPT ![i] = Nobody]
  /\ UNCHANGED believers

\* Only a queued item nobody holds is granted.  The holder learns of it, or
\* the news is lost.
Grant(i, h) ==
  /\ state[i] = "queued" /\ holder[i] = Nobody
  /\ state' = [state EXCEPT ![i] = "active"]
  /\ holder' = [holder EXCEPT ![i] = h]
  /\ believers' \in {believers, [believers EXCEPT ![i] = @ \cup {h}]}

\* A report comes from someone who was granted the item, perhaps long ago; it
\* never puts the item back in the queue and never changes the holder.
Report(i, h) ==
  /\ h \in believers[i] /\ Present(i)
  /\ \E s \in {"active", "closed"} : state' = [state EXCEPT ![i] = s]
  /\ believers' \in {believers, [believers EXCEPT ![i] = @ \ {h}]}
  /\ UNCHANGED holder

Leave(i, h) ==
  /\ h \in believers[i]
  /\ believers' = [believers EXCEPT ![i] = @ \ {h}]
  /\ UNCHANGED <<state, holder>>

\* Items go back to the queue, or are given up, together with their holders.
TakeBack(S, s) ==
  /\ state' = [i \in Items |-> IF i \in S THEN s ELSE state[i]]
  /\ holder' = [i \in Items |-> IF i \in S THEN Nobody ELSE holder[i]]
  /\ UNCHANGED believers

Release(S) == (\A i \in S : Present(i)) /\ TakeBack(S, "queued")
GiveUp(S) == (\A i \in S : state[i] = "active") /\ TakeBack(S, "closed")

Next ==
  \/ \E i \in Items :
       \/ Submit(i) \/ Cancel(i) \/ Remove(i)
       \/ \E h \in Holders : Grant(i, h) \/ Report(i, h) \/ Leave(i, h)
  \/ \E S \in SUBSET Items : Release(S) \/ GiveUp(S)

Spec == Init /\ [][Next]_vars
=============================================================================
