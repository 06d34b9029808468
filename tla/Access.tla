------------------------------- MODULE Access -------------------------------
(* Who is let in and what a listing shows: apps/api/middleware/auth.py       *)
(* (JWKS cache, verify_jwt, the dispatch of AuthMiddleware, requires),      *)
(* services/identity.py and services/scoping.py.                            *)
(*                                                                          *)
(* verify_jwt runs on the event loop without an await, so a request's       *)
(* authentication is one step.  The identity provider rotates its keys.     *)
(***************************************************************************)
EXTENDS Naturals, Sequences

CONSTANTS
  Users,
  Granted,      \* realm roles of a user
  Tenant,       \* tenant of a user's first group, NoTenant without a group
  NoTenant,
  Rows,         \* rows of a table: [tenant, owner]
  Allowed,      \* roles the policies allow to list
  TTL,          \* _JWKS_TTL_SECONDS, in ticks
  MaxKeys,      \* bound on the keys the provider ever signs with
  MaxOutages    \* bound on the outages of the provider and the policy engine

VARIABLES
  published,    \* keys in the provider's document
  signer,       \* the newest key, which it signs with
  gone,         \* ticks since a key was withdrawn, capped
  idp, opa,     \* they answer
  cached,       \* the cached keys: [keys, age], or NoKeys
  answer,       \* the response given just now, if any: [user, key, what, rows]
  outages

vars == <<published, signer, gone, idp, opa, cached, answer, outages>>

Keys   == 1 .. MaxKeys
NoKeys == [keys |-> {}, age |-> TTL]   \* as good as an expired one
Nobody == CHOOSE u \in Users : TRUE
NoAnswer == [user |-> Nobody, key |-> 1, what |-> "none", rows |-> {}]
Outcomes == {"none", "not_signed_in", "unreachable", "unknown_key", "expired", "no_tenant",
             "forbidden", "rows"}

TypeOK ==
  /\ published \subseteq Keys /\ signer \in published
  /\ gone \in [Keys -> 0 .. TTL + 1]
  /\ idp \in BOOLEAN /\ opa \in BOOLEAN
  /\ cached \in [keys : SUBSET Keys, age : 0 .. TTL]
  /\ answer \in [user : Users, key : Keys, what : Outcomes, rows : SUBSET Rows]
  /\ outages \in 0 .. MaxOutages

Init ==
  /\ published = {1} /\ signer = 1 /\ gone = [k \in Keys |-> 0]
  /\ idp = TRUE /\ opa = TRUE /\ outages = 0
  /\ cached = NoKeys
  /\ answer = NoAnswer

-----------------------------------------------------------------------------
(* The identity provider and the clock                                     *)

RotateKey ==
  /\ signer < MaxKeys
  /\ signer' = signer + 1 /\ published' = published \cup {signer + 1}
  /\ answer' = NoAnswer
  /\ UNCHANGED <<gone, idp, opa, cached, outages>>

WithdrawKey(k) ==
  /\ k \in published /\ k # signer
  /\ published' = published \ {k}
  /\ answer' = NoAnswer
  /\ UNCHANGED <<signer, gone, idp, opa, cached, outages>>

Tick ==
  /\ cached' = [cached EXCEPT !.age = IF @ < TTL THEN @ + 1 ELSE TTL]
  /\ gone' = [k \in Keys |-> IF k <= signer /\ k \notin published /\ gone[k] <= TTL
                             THEN gone[k] + 1 ELSE gone[k]]
  /\ answer' = NoAnswer
  /\ UNCHANGED <<published, signer, idp, opa, outages>>

Outage ==
  /\ outages < MaxOutages /\ outages' = outages + 1
  /\ \/ idp /\ idp' = FALSE /\ UNCHANGED opa
     \/ opa /\ opa' = FALSE /\ UNCHANGED idp
  /\ answer' = NoAnswer
  /\ UNCHANGED <<published, signer, gone, cached>>

Recover ==
  /\ ~idp \/ ~opa
  /\ idp' = TRUE /\ opa' = TRUE
  /\ answer' = NoAnswer
  /\ UNCHANGED <<published, signer, gone, cached, outages>>

-----------------------------------------------------------------------------
(* verify_jwt                                                              *)

FreshForEver(c) == c.keys # {}  \* mutant: the cache does not expire

\* _fetch_jwks: a document younger than the TTL is not fetched again.
Fresh(c) == c.age < TTL

\* The document the request reads, and what the cache holds then; a failing
\* fetch leaves the cache as it is.
Fetched(c) ==
  IF Fresh(c) THEN [ok |-> TRUE, cache |-> c]
  ELSE IF idp THEN [ok |-> TRUE, cache |-> [keys |-> published, age |-> 0]]
  ELSE [ok |-> FALSE, cache |-> c]

\* A key the document lacks: the cache is emptied and fetched once more.
Lookup(k) ==
  LET first == Fetched(cached)
  IN  IF ~first.ok \/ k \in first.cache.keys THEN first ELSE Fetched(NoKeys)

-----------------------------------------------------------------------------
(* Identity and scope                                                      *)

\* _ROLE_PRECEDENCE; a user without a known role is a viewer.
Precedence == <<"admin", "devops", "data_engineer", "domain_expert", "operations",
                "support", "viewer", "worker">>
Role(u) ==
  LET known == {i \in DOMAIN Precedence : Precedence[i] \in Granted[u]}
  IN  IF known = {} THEN "viewer" ELSE Precedence[CHOOSE i \in known : \A j \in known : i <= j]

\* scope_query: everything for the administrator of the system tenant, nothing
\* for a worker, the tenant's rows for its administrator, else one's own.
Scope(u) ==
  IF Tenant[u] = "system" /\ Role(u) = "admin" THEN Rows
  ELSE IF Role(u) = "worker" THEN {}
  ELSE {r \in Rows : r.tenant = Tenant[u] /\ (Role(u) = "admin" \/ r.owner = u)}

\* policy_check fails closed.
Permitted(u) == opa /\ (Granted[u] \cap Allowed # {})

-----------------------------------------------------------------------------
(* Requests                                                                *)

Respond(u, k, what, seen) == answer' = [user |-> u, key |-> k, what |-> what, rows |-> seen]

\* A listing, guarded by @requires, with a token of u signed with k.
ListRows(u, k, expired) ==
  /\ k <= signer
  /\ LET jwks == Lookup(k)
     IN  /\ cached' = jwks.cache
         /\ IF ~jwks.ok THEN Respond(u, k, "unreachable", {})
            ELSE IF k \notin jwks.cache.keys THEN Respond(u, k, "unknown_key", {})
            ELSE IF expired THEN Respond(u, k, "expired", {})
            ELSE IF ~Permitted(u) THEN Respond(u, k, "forbidden", {})
            ELSE IF Tenant[u] = NoTenant THEN Respond(u, k, "no_tenant", {})
            ELSE Respond(u, k, "rows", Scope(u))
  /\ UNCHANGED <<published, signer, gone, idp, opa, outages>>

\* Without a token, or with one that is none, nothing is looked up.
NotSignedIn(u) ==
  /\ Respond(u, signer, "not_signed_in", {})
  /\ UNCHANGED <<published, signer, gone, idp, opa, cached, outages>>

Next ==
  \/ RotateKey \/ Tick \/ Outage \/ Recover
  \/ \E k \in Keys : WithdrawKey(k)
  \/ \E u \in Users : NotSignedIn(u) \/ \E k \in Keys, e \in BOOLEAN : ListRows(u, k, e)

Spec == Init /\ [][Next]_vars

-----------------------------------------------------------------------------
(* Properties                                                              *)

\* Key rotation does not sign anybody out: a token of a key the provider
\* publishes is never refused as unknown, and while the provider is away only
\* one whose key is not in a fresh cache is refused.
SessionsSurvive ==
  /\ answer.what = "unknown_key" => answer.key \notin published
  /\ answer.what = "unreachable" => ~idp /\ cached.age = TTL

\* A withdrawn key is refused within the lifetime of the cache, and with the
\* policy engine away nobody is let in.
AccessEnds ==
  answer.what = "rows" => opa /\ (answer.key \in published \/ gone[answer.key] < TTL)

\* Rows come from the caller's tenant, or the caller administers the system.
RowsAreTheTenants ==
  \A r \in answer.rows :
    \/ r.tenant = Tenant[answer.user]
    \/ Tenant[answer.user] = "system" /\ "admin" \in Granted[answer.user]

\* What every listing keeps to, whatever keys, clocks and outages did before.
AccessIsCurrent == SessionsSurvive /\ AccessEnds /\ RowsAreTheTenants

-----------------------------------------------------------------------------
(* The inductive invariant                                                 *)

\* The clock of a key starts when it is withdrawn.
ClocksStart ==
  /\ published \subseteq 1 .. signer
  /\ \A k \in Keys : k \in published \/ k > signer => gone[k] = 0

\* A fresh cache holds no key that was withdrawn before the cache was filled.
CacheIsRecent ==
  Fresh(cached) => \A k \in cached.keys : k \in published \/ gone[k] <= cached.age

IInv == TypeOK /\ ClocksStart /\ CacheIsRecent /\ AccessIsCurrent
=============================================================================
