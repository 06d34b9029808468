---------------------------- MODULE DatasetPaths ----------------------------
(* Where a dataset lies and who finds it there: services/identity_paths.py,  *)
(* the listing and the archive of routers/datasets.py, _dataset_dir of       *)
(* routers/datasets_detail.py, _resolve_dataset_dir of the trainer and its   *)
(* transfer.py, scripts/seed_datasets.py and the seeding at startup.         *)
(*                                                                           *)
(* Datasets of different names never meet, so all of them have one name.     *)
(* Identities and directories share their form, [tenant, user].              *)
(***************************************************************************)
EXTENDS Naturals, FiniteSets

CONSTANTS
  People,       \* the users, [tenant, user]
  Admins,       \* those of them that administer their tenant
  MaxVersions   \* bound on the versions ever published

\* The service token of the workers and, with authentication off, everybody.
Service == [tenant |-> "system", user |-> "service"]
Local   == [tenant |-> "local", user |-> "local-admin"]
Global  == [tenant |-> "none", user |-> "global"]   \* bundled samples
Flat    == [tenant |-> "none", user |-> "none"]     \* the layout before Phase D
Hosts   == {"api", "remote"}
Places  == People \cup {Service, Local, Global, Flat}

VARIABLES
  auth,         \* is authentication on?
  tree,         \* per host and place: is the directory there, the version in its train.jsonl
  origin,       \* history: the place each version was published at
  result        \* the training just now, if any: [run, host, got]

vars == <<auth, tree, origin, result>>

Versions == 1 .. MaxVersions
NoDir    == [there |-> FALSE, train |-> 0]
Holding(version) == [there |-> TRUE, train |-> version]
NoResult == [run |-> Local, host |-> "api", got |-> 0]

TypeOK ==
  /\ auth \in BOOLEAN
  /\ tree \in [Hosts -> [Places -> [there : BOOLEAN, train : 0 .. MaxVersions]]]
  /\ origin \in [Versions -> Places]
  /\ result \in [run : Places, host : Hosts, got : 0 .. MaxVersions]

\* A dataset of the old layout may wait to be seeded, and a remote worker may
\* hold a copy from then.
Init ==
  /\ auth \in BOOLEAN
  /\ origin = [v \in Versions |-> Global]
  /\ \E old \in {"none", "api", "both"} :
       tree = [h \in Hosts |-> [p \in Places |->
         IF p = Flat /\ (old = "both" \/ old = h) THEN Holding(1) ELSE NoDir]]
  /\ result = NoResult

\* Version 1 is the old one, the others are published in their order.
Fresh(v) == v > 1 /\ origin[v] = Global /\ \A w \in 2 .. (v - 1) : origin[w] # Global

-----------------------------------------------------------------------------
(* identity_paths.py                                                       *)

Identities  == IF auth THEN People \cup {Service} ELSE {Local}
IsAdmin(id) == id \in Admins \cup {Service, Local}

OwnDirs(id)    == {id}                                             \* user_datasets_dir
TenantDirs(id) == {p \in Places \ {Global, Flat} : p.tenant = id.tenant}
EveryDir(id)   == Places \ {Global, Flat}   \* mutant: the tenant is forgotten

\* The directories behind the samples that visible_dataset_dirs gives a caller.
Visible(id) == IF IsAdmin(id) THEN TenantDirs(id) ELSE OwnDirs(id)

\* resolve_dataset: the directories it may come to.  The users of a tenant are
\* walked in the order of the file system.
Resolved(id) ==
  IF tree["api"][Global].there THEN {Global}
  ELSE {p \in Visible(id) : tree["api"][p].there}

\* list_datasets: it lists one of these.  A visible directory that is named like
\* the caller's tenant is scanned one level deeper, which is right for the
\* directory of a tenant and finds nothing in that of the samples or of a user.
ScannedRight(name, id, isTenantDir) == (name = id.tenant) <=> isTenantDir
Listed(id) ==
  IF tree["api"][Global].there /\ ScannedRight("global", id, FALSE) THEN {Global}
  ELSE {p \in Visible(id) :
          /\ tree["api"][p].there
          /\ ScannedRight(IF IsAdmin(id) THEN id.tenant ELSE id.user, id, IsAdmin(id))}

-----------------------------------------------------------------------------
(* Publishing and seeding                                                  *)

\* A dataset is made where nothing lies, or made again when it is to be
\* overwritten (IngestJobs), with or without records to train on.
Publish(id) ==
  /\ id \in Identities
  /\ \E v \in Versions :
       /\ Fresh(v)
       /\ origin' = [origin EXCEPT ![v] = id]
       /\ \E train \in {0, v} : tree' = [tree EXCEPT !["api"][id] = Holding(train)]
  /\ result' = NoResult /\ UNCHANGED auth

\* seed_datasets.py, run by hand or by a start of the API that misses the
\* samples: a dataset of the old layout is moved, or removed when the samples
\* have one of its name.
Seed ==
  /\ tree["api"][Flat].train > 0
  /\ tree' = [tree EXCEPT
       !["api"][Flat] = NoDir,
       !["api"][Global] = IF @.there THEN @ ELSE tree["api"][Flat]]
  /\ result' = NoResult /\ UNCHANGED <<auth, origin>>

-----------------------------------------------------------------------------
(* The trainer                                                             *)

\* The run of a user as its worker looks it up: the first place with records
\* to train on, or none.  A remote worker has no other users' directories.
FirstWith(places, host) ==
  LET trains(i) == tree[host][places[i]].train > 0
  IN  {places[i] : i \in {j \in DOMAIN places : trains(j) /\ \A k \in 1 .. (j - 1) : ~trains(k)}}

OldLayoutFirst(run, host) == FirstWith(<<Flat, Global, run>>, host)   \* mutant
ResolveDatasetDir(run, host) == FirstWith(<<Global, run, Flat>>, host)

\* A remote worker asks with the service token.
Asker == IF auth THEN Service ELSE Local

Trained(run, host, got) == result' = [run |-> run, host |-> host, got |-> got]

TrainAt(run, host) ==
  /\ run \in Identities
  /\ \E p \in ResolveDatasetDir(run, host) : Trained(run, host, tree[host][p].train)
  /\ UNCHANGED <<auth, tree, origin>>

\* No worker that shares the disk finds it: the run fails.
Missing(run) ==
  /\ run \in Identities /\ ResolveDatasetDir(run, "api") = {}
  /\ Trained(run, "api", 0)
  /\ UNCHANGED <<auth, tree, origin>>

\* ensure_dataset_local: a copy of what the API resolves for the worker lands
\* with its samples.  Without records to train on, or when the API has nothing
\* to show the worker, the run fails.
Fetch(run) ==
  /\ run \in Identities /\ ResolveDatasetDir(run, "remote") = {}
  /\ \/ \E p \in Resolved(Asker) :
          /\ tree' = [tree EXCEPT !["remote"][Global] = tree["api"][p]]
          /\ Trained(run, "remote", tree["api"][p].train)
     \/ Resolved(Asker) = {} /\ Trained(run, "remote", 0) /\ UNCHANGED tree
  /\ UNCHANGED <<auth, origin>>

Next ==
  \/ \E id \in Identities : Publish(id) \/ Missing(id) \/ Fetch(id)
  \/ \E id \in Identities, host \in Hosts : TrainAt(id, host)
  \/ Seed

Spec == Init /\ [][Next]_vars

-----------------------------------------------------------------------------
(* Properties                                                              *)

\* A caller's list, detail and archive are of one dataset, and of one the
\* caller may see; only an administrator, whose tenant has several of the name,
\* may open another one than the list counted.
ListedIsOpened ==
  \A id \in Identities :
    /\ (Listed(id) = {}) <=> (Resolved(id) = {})
    /\ Resolved(id) \subseteq Listed(id)
    /\ ~IsAdmin(id) => Cardinality(Resolved(id)) <= 1
    /\ \A p \in Resolved(id) : p = Global \/ p.tenant = id.tenant

\* A run trains on the samples, on a dataset of its own user, or, on a remote
\* worker, on one the service made; and beside the API on the very version its
\* user is shown, as long as that one has records to train on.
RunTrainsOwnData ==
  result.got > 0 =>
    /\ origin[result.got] \in {Global, result.run} \/ (result.host = "remote" /\ origin[result.got] = Asker)
    /\ (result.host = "api" /\ ~IsAdmin(result.run)) =>
         \A p \in Resolved(result.run) : tree["api"][p].train \in {0, result.got}

\* A dataset is found by those who see it, and is the one a run trains on.
DatasetIsFound == ListedIsOpened /\ RunTrainsOwnData

-----------------------------------------------------------------------------
(* The inductive invariant                                                 *)

\* What lies in the old layout, and moves to the samples, is version 1; a user's
\* directory holds what was published there, and only beside the API; a worker's
\* copy under the samples was the service's or was seeded.
VersionsLieWhereMade ==
  \A h \in Hosts, p \in Places :
    LET v == tree[h][p].train IN
    v > 0 =>
      /\ v = 1 \/ origin[v] # Global
      /\ (p = Flat \/ (p = Global /\ h = "api")) => v = 1
      /\ (p = Global /\ h = "remote") => origin[v] \in {Global, Asker}
      /\ p \notin {Flat, Global} => h = "api" /\ origin[v] = p

\* The samples are there with records, which the old layout brought.
SamplesHaveRecords ==
  /\ tree["api"][Global].there <=> tree["api"][Global].train > 0
  /\ tree["api"][Flat].train > 0 => tree["api"][Flat].there

IInv ==
  /\ TypeOK /\ origin[1] = Global
  /\ VersionsLieWhereMade /\ SamplesHaveRecords /\ RunTrainsOwnData
=============================================================================
