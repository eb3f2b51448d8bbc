--------------------------- MODULE ExternalSecret ---------------------------
(***************************************************************************)
(* The ExternalSecret controller (pkg/controllers/externalsecret): one     *)
(* reconcile loop per ExternalSecret, cut at its API and provider calls,   *)
(* against an API server that users and other controllers also write to.   *)
(*                                                                         *)
(* Abstractions.  A payload is a total function from secret keys to values *)
(* (Absent where the key is missing), so a data hash is the payload it was *)
(* computed from.  "rev" is getResourceVersion: one number per             *)
(* (generation, hash of labels and annotations).  A resourceVersion is not *)
(* counted: `behind' holds the reconciles whose copy of the Secret has     *)
(* been overtaken by another write.  refreshTime is "never", "recent"      *)
(* (inside the refresh interval) or "due"; `once' is refreshInterval 0.    *)
(***************************************************************************)
EXTENDS Naturals, Sequences, FiniteSets

CONSTANTS
  ES,          \* names of the ExternalSecrets
  Secrets,     \* names of the target Secrets
  Target,      \* Target[e]: spec.target.name, or the name of e itself
  Keys, Vals,  \* secret keys and the values a provider can hold
  Absent,      \* the value of a missing key
  NoValue,     \* what a template renders for a missing reference
  NoOwner,     \* a Secret without controller owner reference
  Other,       \* field manager of every writer that does not server-side apply
  SpecsOf,     \* SpecsOf[e]: the specs users give e
  Accesses,    \* the states the store of the refs may be in
  Workers,     \* --concurrent: reconciles in flight at one time
  MaxRev,      \* bound on spec edits
  MaxEnv,      \* bound on user, provider and restart steps
  MaxFaults    \* bound on failing API calls

Values == Vals \cup {Absent, NoValue}
Payload == [Keys -> Values]
Empty == [k \in Keys |-> Absent]

\* A reference and the keys it can yield: one, or all those a find matches.
RefType == [kind : {"get", "generate"}, keys : {{k} : k \in Keys}]
             \cup [kind : {"find"}, keys : SUBSET Keys]
SpecType == [creation  : {"Owner", "Orphan", "Merge", "None"},
             deletion  : {"Delete", "Merge", "Retain"},
             immutable : BOOLEAN,
             once      : BOOLEAN,
             tpl       : SUBSET Keys,
             refs      : Seq(RefType)]
StatusType == [ready   : {"none", "synced", "error", "deleted"},
               synced  : Nat,
               refresh : {"never", "recent", "due", "now"}]
ESType == [exists : BOOLEAN, rev : Nat, spec : SpecType, status : StatusType]
SecretType == [exists : BOOLEAN, owner : ES \cup {NoOwner},
               creator : ES \cup {NoOwner}, data : Payload,
               hash : Payload \cup {Absent}, immutable : BOOLEAN,
               mgrs : [Keys -> SUBSET (ES \cup {Other})]]

ASSUME ConstantsAssumption ==
  /\ Target \in [ES -> Secrets]
  /\ SpecsOf \in [ES -> SUBSET SpecType]
  /\ \A e \in ES : SpecsOf[e] # {}
  /\ NoOwner \notin ES /\ Other \notin ES
  /\ Absent \notin Vals \cup {NoValue} /\ Absent \notin Payload
  /\ Accesses \subseteq {"ok", "failing", "foreign"}
  /\ Workers \in Nat /\ MaxRev \in Nat \ {0}
  /\ MaxEnv \in Nat /\ MaxFaults \in Nat

VARIABLES
  es,        \* the ExternalSecrets at the API server
  cache,     \* the informer's copy of them, which Reconcile reads
  secret,    \* the Secrets at the API server (read live)
  provider,  \* what the provider holds
  access,    \* the refs' store: "ok", "failing" (missing, not ready behind
             \* the floodgate, provider error) or "foreign" controllerClass
  pc, job,   \* the reconcile of each ExternalSecret
  behind,    \* reconciles whose read of the Secret was overtaken
  queue,     \* the workqueue
  timer,     \* keys waiting for their RequeueAfter
  env, faults,
  absent     \* history: keys seen absent at the provider since e's
             \* reconcile began

vars == <<es, cache, secret, provider, access, pc, job, behind, queue, timer,
          env, faults, absent>>
outside == <<provider, access, env>>

NoStatus == [ready |-> "none", synced |-> 0, refresh |-> "never"]
Gone == [exists |-> FALSE, owner |-> NoOwner, creator |-> NoOwner, data |-> Empty,
         hash |-> Absent, immutable |-> FALSE, mgrs |-> [k \in Keys |-> {}]]
Blank(e) == [exists |-> FALSE, rev |-> 0, status |-> NoStatus,
             spec |-> CHOOSE s \in SpecsOf[e] : TRUE]
NoJob(e) == [es |-> Blank(e), data |-> Empty, next |-> 1, got |-> Gone,
             new |-> NoStatus, result |-> "none"]
JobType == [es : ESType, data : Payload, next : Nat \ {0}, got : SecretType,
            new : StatusType, result : {"none", "after", "error"}]

Init ==
  /\ \E s \in [ES -> UNION {SpecsOf[e] : e \in ES}] :
       /\ \A e \in ES : s[e] \in SpecsOf[e]
       /\ es = [e \in ES |-> [exists |-> TRUE, rev |-> 1, spec |-> s[e], status |-> NoStatus]]
  /\ cache = es
  /\ secret = [s \in Secrets |-> Gone]
  /\ provider \in [Keys -> Vals \cup {Absent}]
  /\ access = "ok"
  /\ pc = [e \in ES |-> "idle"]
  /\ job = [e \in ES |-> NoJob(e)]
  /\ behind = {} /\ queue = ES /\ timer = {}
  /\ env = 0 /\ faults = 0
  /\ absent = [e \in ES |-> {}]

-----------------------------------------------------------------------------
(* The decisions of Reconcile before it fetches. *)

shouldRefresh(o) ==
  \/ o.status.synced # o.rev
  \/ ~o.spec.once /\ o.status.refresh \in {"never", "due"}

hasSyncedCondition(o) == o.status.ready = "synced"
shouldReconcile(o) == ~(o.spec.immutable /\ hasSyncedCondition(o))
isSecretValid(s) == s.exists /\ s.hash = s.data

\* ctrl.Result{RequeueAfter: refreshInt}: with interval 0 no requeue at all.
RequeueAfter_Never(e, spec) == UNCHANGED timer
RequeueAfter(e, spec) == timer' = IF spec.once THEN timer ELSE timer \cup {e}

Dequeued(e) ==
  /\ e \in queue /\ pc[e] = "idle"
  /\ Cardinality({x \in ES : pc[x] # "idle"}) < Workers
  /\ queue' = queue \ {e}

\* Reconcile returns before the Secret is looked at: the ExternalSecret is
\* gone, or one of its stores belongs to another controllerClass (or is a
\* ClusterSecretStore while these are disabled).
SkipReconcile(e) ==
  /\ Dequeued(e)
  /\ ~cache[e].exists \/ access = "foreign"
  /\ UNCHANGED <<es, cache, secret, outside, pc, job, behind, timer, faults, absent>>

Reconciles_Deleted(e) == Dequeued(e) /\ access # "foreign"
Reconciles(e) == Dequeued(e) /\ cache[e].exists /\ access # "foreign"
IsFresh(e) == ~shouldRefresh(cache[e]) /\ isSecretValid(secret[Target[e]])

SkipRefresh(e) ==
  /\ Reconciles(e)
  /\ IsFresh(e)
  /\ RequeueAfter(e, cache[e].spec)
  /\ UNCHANGED <<es, cache, secret, outside, pc, job, behind, faults, absent>>

ApiFault == faults < MaxFaults /\ faults' = faults + 1

\* A Secret that could not be read counts as one that is not valid.
MustRefresh(e) == (~IsFresh(e) /\ UNCHANGED faults) \/ ApiFault

StopReconciling(e) ==
  /\ Reconciles(e)
  /\ MustRefresh(e) /\ ~shouldReconcile(cache[e])
  /\ UNCHANGED <<es, cache, secret, outside, pc, job, behind, timer, absent>>

StartFetch(e) ==
  /\ Reconciles(e)
  /\ MustRefresh(e) /\ shouldReconcile(cache[e])
  /\ pc' = [pc EXCEPT ![e] = "fetch"]
  /\ job' = [job EXCEPT ![e] = [NoJob(e) EXCEPT !.es = cache[e]]]
  /\ absent' = [absent EXCEPT ![e] = {k \in Keys : provider[k] = Absent}]
  /\ UNCHANGED <<es, cache, secret, outside, behind, timer>>

-----------------------------------------------------------------------------
(* How a reconcile ends: the deferred status patch still has to run. *)

Ends(e, new, result) ==
  /\ pc' = [pc EXCEPT ![e] = "finish"]
  /\ job' = [job EXCEPT ![e].new = new, ![e].result = result]

WithReady(e, ready) == [job[e].es.status EXCEPT !.ready = ready]
Fail(e) == Ends(e, WithReady(e, "error"), "error")
Succeed_ServerRev(e) ==
  Ends(e, [ready |-> "synced", synced |-> es[e].rev, refresh |-> "now"], "after")
Succeed(e) ==
  Ends(e, [ready |-> "synced", synced |-> job[e].es.rev, refresh |-> "now"], "after")

-----------------------------------------------------------------------------
(* getProviderSecretData: one ref after the other, each its own call.      *)
(* "get" stands for spec.data and dataFrom.extract, which report a missing *)
(* secret with NoSecretErr.  A "find" yields what it matches, or NoSecretErr *)
(* when something it matches is missing (a listed secret that is gone when *)
(* it is read, or all of them): the controller treats both alike.          *)
(* "generate" is a generator, new data at every call.                      *)

JobSpec(e) == job[e].es.spec
Fetched(e) == pc[e] = "fetch" /\ job[e].next > Len(JobSpec(e).refs)
Ref(e) == JobSpec(e).refs[job[e].next]

HasNext(e) == pc[e] = "fetch" /\ job[e].next <= Len(JobSpec(e).refs)
NoSecretErr(e) ==
  Ref(e).kind \in {"get", "find"} /\ \E k \in Ref(e).keys : provider[k] = Absent

Collect(e, data) ==
  /\ job' = [job EXCEPT ![e].data = data, ![e].next = @ + 1]
  /\ UNCHANGED <<es, cache, secret, outside, pc, behind, queue, timer, faults, absent>>

\* MergeByteMap of what the reference yields into what was collected so far.
Merged(e, new) ==
  [k \in Keys |-> IF k \in Ref(e).keys /\ new[k] # Absent THEN new[k] ELSE job[e].data[k]]

FetchRef(e) ==
  /\ HasNext(e) /\ access = "ok"
  /\ \/ Ref(e).kind = "get" /\ ~NoSecretErr(e) /\ Collect(e, Merged(e, provider))
     \/ Ref(e).kind = "find" /\ Collect(e, Merged(e, provider))
     \/ /\ Ref(e).kind = "generate"
        /\ \E v \in Vals : Collect(e, Merged(e, [k \in Keys |-> v]))

\* A missing secret is passed over unless the policy is Retain.
SkipMissing_AnyError(e) ==
  /\ HasNext(e) /\ JobSpec(e).deletion # "Retain"
  /\ NoSecretErr(e) \/ access = "failing"
  /\ Collect(e, job[e].data)
SkipMissing(e) ==
  /\ HasNext(e) /\ access = "ok"
  /\ NoSecretErr(e) /\ JobSpec(e).deletion # "Retain"
  /\ Collect(e, job[e].data)

FetchFails(e) ==
  /\ HasNext(e)
  /\ access # "ok" \/ (NoSecretErr(e) /\ JobSpec(e).deletion = "Retain")
  /\ Fail(e)
  /\ UNCHANGED <<es, cache, secret, outside, behind, queue, timer, faults, absent>>

-----------------------------------------------------------------------------
(* Writing Secrets: every write overtakes the copies other reconciles hold *)
(* and, through Owns(&v1.Secret{}), enqueues the controlling owner.        *)

Put(s, v) ==
  /\ secret' = [secret EXCEPT ![s] = v]
  /\ behind' = behind \cup {e \in ES : Target[e] = s /\ pc[e] = "write"}
Owners_NotWatched(s, v) == {}
Owners(s, v) == ES \cap {secret[s].owner, v.owner}
PutByController(s, v) ==
  /\ Put(s, v)
  /\ queue' = queue \cup Owners(s, v)

(* No data at all: the deletion policy decides. *)

NoData(e) == Fetched(e) /\ job[e].data = Empty

DeleteRefused(e) ==
  /\ NoData(e) /\ JobSpec(e).deletion = "Delete" /\ JobSpec(e).creation # "Owner"
  /\ Fail(e)
  /\ UNCHANGED <<es, cache, secret, outside, behind, queue, timer, faults, absent>>

DeletesTarget(e) ==
  NoData(e) /\ JobSpec(e).deletion = "Delete" /\ JobSpec(e).creation = "Owner"

\* r.Delete names the Secret only: no UID, version or owner precondition.  Its
\* answer may be lost.
DeleteSecret(e) ==
  /\ DeletesTarget(e) /\ secret[Target[e]].exists
  /\ PutByController(Target[e], Gone)
  /\ \/ Ends(e, WithReady(e, "deleted"), "after") /\ UNCHANGED faults
     \/ Ends(e, WithReady(e, "deleted"), "error") /\ ApiFault
  /\ UNCHANGED <<es, cache, outside, timer, absent>>

\* NotFound and any other error reach the caller after the condition is set
\* to SecretDeleted.
DeleteErrs(e) ==
  /\ DeletesTarget(e)
  /\ \/ ~secret[Target[e]].exists /\ UNCHANGED faults
     \/ secret[Target[e]].exists /\ ApiFault
  /\ Ends(e, WithReady(e, "deleted"), "error")
  /\ UNCHANGED <<es, cache, secret, outside, behind, queue, timer, absent>>

RetainSecret(e) ==
  /\ NoData(e) /\ JobSpec(e).deletion = "Retain"
  /\ Ends(e, job[e].es.status, "after")
  /\ UNCHANGED <<es, cache, secret, outside, behind, queue, timer, faults, absent>>

-----------------------------------------------------------------------------
(* mutationFunc and the write of the target Secret.                        *)

Applies(e) ==
  Fetched(e) /\ (job[e].data = Empty => JobSpec(e).deletion = "Merge")

\* applyTemplate on top of the data the Secret already has.
applyTemplate(e, base) ==
  IF JobSpec(e).tpl = {} THEN job[e].data
  ELSE [k \in Keys |->
          IF k \notin JobSpec(e).tpl THEN base[k]
          ELSE IF job[e].data[k] = Absent THEN NoValue ELSE job[e].data[k]]

\* The type assertion in getManagedKeys never succeeds on unmarshalled JSON,
\* so DeletionPolicy=Merge finds no key to remove.
getManagedKeys(e) == {}

mutationFunc(e, s) ==
  LET data == [k \in Keys |-> IF k \in getManagedKeys(e) /\ job[e].data[k] = Absent
                              THEN Absent ELSE applyTemplate(e, s.data)[k]]
  IN [s EXCEPT !.owner = IF JobSpec(e).creation = "Owner" THEN e ELSE @,
               !.data = data,
               !.hash = applyTemplate(e, s.data)]

\* SetControllerReference refuses a Secret another controller owns.
OwnedByOther_Unchecked(e, s) == FALSE
OwnedByOther(e, s) == JobSpec(e).creation = "Owner" /\ s.owner \notin {e, NoOwner}

SkipCreation(e) ==
  /\ Applies(e) /\ JobSpec(e).creation = "None"
  /\ Succeed(e)
  /\ UNCHANGED <<es, cache, secret, outside, behind, queue, timer, faults, absent>>

GetTarget_MergesIntoNothing(e) ==
  LET s == secret[Target[e]] IN
  /\ Applies(e) /\ JobSpec(e).creation # "None"
  /\ ~OwnedByOther(e, s)
  /\ ~(JobSpec(e).creation # "Merge" /\ s.exists /\ mutationFunc(e, s) = s)
  /\ pc' = [pc EXCEPT ![e] = "write"]
  /\ job' = [job EXCEPT ![e].got = s]
  /\ behind' = behind \ {e}
  /\ UNCHANGED <<es, cache, secret, outside, queue, timer, faults, absent>>

\* The Get of CreateOrUpdate or patchSecret, and the mutation of its result.
GetTarget(e) ==
  LET s == secret[Target[e]] IN
  /\ Applies(e) /\ JobSpec(e).creation # "None"
  /\ JobSpec(e).creation = "Merge" => s.exists
  /\ ~OwnedByOther(e, s)
  /\ ~(JobSpec(e).creation # "Merge" /\ s.exists /\ mutationFunc(e, s) = s)
  /\ pc' = [pc EXCEPT ![e] = "write"]
  /\ job' = [job EXCEPT ![e].got = s]
  /\ behind' = behind \ {e}
  /\ UNCHANGED <<es, cache, secret, outside, queue, timer, faults, absent>>

\* CreateOrUpdate finds nothing to change.
TargetUpToDate(e) ==
  LET s == secret[Target[e]] IN
  /\ Applies(e) /\ JobSpec(e).creation \in {"Owner", "Orphan"}
  /\ s.exists /\ ~OwnedByOther(e, s) /\ mutationFunc(e, s) = s
  /\ Succeed(e)
  /\ UNCHANGED <<es, cache, secret, outside, behind, queue, timer, faults, absent>>

\* No Secret to merge into, another owner, or a failing read (of the Secret
\* or of a templateFrom source).
TargetRefused(e) ==
  LET s == secret[Target[e]] IN
  /\ Applies(e) /\ JobSpec(e).creation # "None"
  /\ \/ JobSpec(e).creation = "Merge" /\ ~s.exists /\ UNCHANGED faults
     \/ OwnedByOther(e, s) /\ UNCHANGED faults
     \/ ApiFault
  /\ Fail(e)
  /\ UNCHANGED <<es, cache, secret, outside, behind, queue, timer, absent>>

\* What the API server stores for a Create or Update by this client.
Stored(old, new) ==
  [new EXCEPT !.exists = TRUE,
              !.mgrs = [k \in Keys |-> IF new.data[k] = Absent THEN {}
                                       ELSE IF new.data[k] = old.data[k] THEN old.mgrs[k]
                                       ELSE {Other}]]

\* What server-side apply with ForceOwnership makes of s: the applied keys
\* are taken over, keys only this manager had applied before are dropped.
ServerSideApply_Replace(e, s) ==
  [s EXCEPT !.exists = TRUE, !.hash = mutationFunc(e, Gone).hash,
            !.data = mutationFunc(e, Gone).data]
ServerSideApply(e, s) ==
  LET applied == mutationFunc(e, Gone) IN
  [s EXCEPT
     !.exists = TRUE, !.hash = applied.hash, !.immutable = JobSpec(e).immutable,
     !.data = [k \in Keys |-> IF applied.data[k] # Absent THEN applied.data[k]
                              ELSE IF s.mgrs[k] \subseteq {e} THEN Absent
                              ELSE s.data[k]],
     !.mgrs = [k \in Keys |-> IF applied.data[k] = Absent THEN s.mgrs[k] \ {e}
                              ELSE IF applied.data[k] = s.data[k] THEN s.mgrs[k] \cup {e}
                              ELSE {e}]]

\* The API server keeps the data of an immutable Secret.
Rejected(old, new) ==
  old.exists /\ old.immutable /\ (new.data # old.data \/ ~new.immutable)

Writing(e, creation) == pc[e] = "write" /\ JobSpec(e).creation \in creation

Written(e) ==
  LET got == job[e].got
  IN IF got.exists THEN Stored(got, mutationFunc(e, got))
     ELSE Stored(Gone, [mutationFunc(e, Gone) EXCEPT !.immutable = JobSpec(e).immutable,
                                                     !.creator = e])

\* CreateOrUpdate's write is refused: AlreadyExists, Conflict or NotFound.
Overtaken(e) ==
  IF job[e].got.exists THEN e \in behind ELSE secret[Target[e]].exists

\* The server has stored the write; its answer may still be lost.
Replied(e) == (Succeed(e) /\ UNCHANGED faults) \/ (Fail(e) /\ ApiFault)

CreateOrUpdate(e) ==
  /\ Writing(e, {"Owner", "Orphan"})
  /\ ~Overtaken(e) /\ ~Rejected(job[e].got, Written(e))
  /\ PutByController(Target[e], Written(e))
  /\ Replied(e)
  /\ UNCHANGED <<es, cache, outside, timer, absent>>

patchSecret(e) ==
  LET s == secret[Target[e]] IN
  /\ Writing(e, {"Merge"})
  /\ ~Rejected(s, ServerSideApply(e, s))
  /\ PutByController(Target[e], ServerSideApply(e, s))
  /\ Replied(e)
  /\ UNCHANGED <<es, cache, outside, timer, absent>>

WriteFails(e) ==
  LET s == secret[Target[e]] IN
  /\ pc[e] = "write"
  /\ \/ Writing(e, {"Owner", "Orphan"}) /\ Overtaken(e) /\ UNCHANGED faults
     \/ Writing(e, {"Owner", "Orphan"}) /\ Rejected(job[e].got, Written(e)) /\ UNCHANGED faults
     \/ Writing(e, {"Merge"}) /\ Rejected(s, ServerSideApply(e, s)) /\ UNCHANGED faults
     \/ ApiFault
  /\ Fail(e)
  /\ UNCHANGED <<es, cache, secret, outside, behind, queue, timer, absent>>

-----------------------------------------------------------------------------
(* The deferred Status().Patch, then the Result or error is acted on.      *)

\* A JSON merge patch carries only what differs from the copy that was read.
MergePatch(server, read, new) ==
  [ready   |-> IF new.ready = read.ready THEN server.ready ELSE new.ready,
   synced  |-> IF new.synced = read.synced THEN server.synced ELSE new.synced,
   refresh |-> IF new.refresh = "now" THEN "recent" ELSE server.refresh]

Returns(e) ==
  /\ pc' = [pc EXCEPT ![e] = "idle"]
  /\ job' = [job EXCEPT ![e] = NoJob(e)]
  /\ behind' = behind \ {e}
  /\ absent' = [absent EXCEPT ![e] = {}]
  /\ \/ /\ job[e].result = "error"
        /\ queue' = queue \cup {e} /\ UNCHANGED timer
     \/ /\ job[e].result = "after"
        /\ RequeueAfter(e, JobSpec(e)) /\ UNCHANGED queue

PatchStatus(e) ==
  /\ pc[e] = "finish" /\ es[e].exists
  /\ es' = [es EXCEPT ![e].status = MergePatch(@, job[e].es.status, job[e].new)]
  /\ Returns(e)
  /\ UNCHANGED <<cache, secret, outside, faults>>

\* A failing patch is logged; the reconcile returns what it returned anyway.
PatchStatusFails(e) ==
  /\ pc[e] = "finish"
  /\ \/ ~es[e].exists /\ UNCHANGED faults
     \/ es[e].exists /\ ApiFault
  /\ Returns(e)
  /\ UNCHANGED <<es, cache, secret, outside>>

-----------------------------------------------------------------------------
(* The runtime around Reconcile. *)

InformerSync(e) ==
  /\ cache[e] # es[e]
  /\ cache' = [cache EXCEPT ![e] = es[e]]
  /\ queue' = queue \cup {e}
  /\ UNCHANGED <<es, secret, outside, pc, job, behind, timer, faults, absent>>

TimerFires(e) ==
  /\ e \in timer
  /\ timer' = timer \ {e} /\ queue' = queue \cup {e}
  /\ UNCHANGED <<es, cache, secret, outside, pc, job, behind, faults, absent>>

\* refreshTime grows old; with interval 0 nobody looks at it.
Age(o) == [o EXCEPT !.status.refresh = IF @ = "recent" THEN "due" ELSE @]

IntervalElapses(e) ==
  /\ "recent" \in {es[e].status.refresh, cache[e].status.refresh}
  /\ ~(es[e].spec.once /\ cache[e].spec.once)
  /\ es' = [es EXCEPT ![e] = Age(@)]
  /\ cache' = [cache EXCEPT ![e] = Age(@)]
  /\ UNCHANGED <<secret, outside, pc, job, behind, queue, timer, faults, absent>>

\* Kubernetes collects a Secret whose controlling owner is gone.
GarbageCollect(s) ==
  /\ secret[s].owner \in ES /\ ~es[secret[s].owner].exists
  /\ PutByController(s, Gone)
  /\ UNCHANGED <<es, cache, outside, pc, job, timer, faults, absent>>

-----------------------------------------------------------------------------
(* Users, the provider, crashes. *)

Outside == env < MaxEnv /\ env' = env + 1

\* A periodic resync, or a late or repeated watch event.
Resync(e) ==
  /\ Outside /\ e \notin queue
  /\ queue' = queue \cup {e}
  /\ UNCHANGED <<es, cache, secret, provider, access, pc, job, behind, timer, faults, absent>>

EditSpec(e) ==
  /\ Outside /\ es[e].exists /\ es[e].rev < MaxRev
  /\ \E s \in SpecsOf[e] : es' = [es EXCEPT ![e].spec = s, ![e].rev = @ + 1]
  /\ UNCHANGED <<cache, secret, provider, access, pc, job, behind, queue, timer, faults, absent>>

DeleteES(e) ==
  /\ Outside /\ es[e].exists
  /\ es' = [es EXCEPT ![e].exists = FALSE]
  /\ UNCHANGED <<cache, secret, provider, access, pc, job, behind, queue, timer, faults, absent>>

UserWrites(s, v) ==
  /\ Outside
  /\ PutByController(s, v)
  /\ UNCHANGED <<es, cache, provider, access, pc, job, timer, faults, absent>>

\* A user creates the Secret, changes one key of it, or deletes it.
UserCreates(s) ==
  /\ ~secret[s].exists
  /\ \E k \in Keys, v \in Vals :
       UserWrites(s, Stored(Gone, [Gone EXCEPT !.data[k] = v]))

UserTampers(s) ==
  /\ secret[s].exists /\ ~secret[s].immutable
  /\ \E k \in Keys, v \in Vals \cup {Absent} :
       /\ v # secret[s].data[k]
       /\ UserWrites(s, Stored(secret[s], [secret[s] EXCEPT !.data[k] = v]))

UserDeletes(s) == secret[s].exists /\ UserWrites(s, Gone)

ProviderChanges ==
  /\ Outside
  /\ \E k \in Keys, v \in Vals \cup {Absent} :
       /\ v # provider[k]
       /\ provider' = [provider EXCEPT ![k] = v]
       /\ absent' = [e \in ES |-> IF v = Absent /\ pc[e] # "idle"
                                  THEN absent[e] \cup {k} ELSE absent[e]]
  /\ UNCHANGED <<es, cache, secret, access, pc, job, behind, queue, timer, faults>>

AccessChanges ==
  /\ Outside
  /\ access' \in Accesses \ {access}
  /\ UNCHANGED <<es, cache, secret, provider, pc, job, behind, queue, timer, faults, absent>>

\* The controller process dies and another one lists everything again.
Restart ==
  /\ Outside
  /\ pc' = [e \in ES |-> "idle"]
  /\ job' = [e \in ES |-> NoJob(e)]
  /\ behind' = {} /\ timer' = {}
  /\ absent' = [e \in ES |-> {}]
  /\ queue' = {e \in ES : es[e].exists}
  /\ cache' = es
  /\ UNCHANGED <<es, secret, provider, access, faults>>

-----------------------------------------------------------------------------
Begin(e) == SkipReconcile(e) \/ SkipRefresh(e) \/ StopReconciling(e) \/ StartFetch(e)
Fetch(e) == FetchRef(e) \/ SkipMissing(e) \/ FetchFails(e)
Delete(e) == DeleteRefused(e) \/ DeleteSecret(e) \/ DeleteErrs(e) \/ RetainSecret(e)
Apply(e) == SkipCreation(e) \/ GetTarget(e) \/ TargetUpToDate(e) \/ TargetRefused(e)
Write(e) == CreateOrUpdate(e) \/ patchSecret(e) \/ WriteFails(e)
Finish(e) == PatchStatus(e) \/ PatchStatusFails(e)
InFlight(e) == Fetch(e) \/ Delete(e) \/ Apply(e) \/ Write(e) \/ Finish(e)
Reconcile(e) == Begin(e) \/ InFlight(e)
Runtime(e) == InformerSync(e) \/ TimerFires(e) \/ IntervalElapses(e)
User(s) == UserCreates(s) \/ UserTampers(s) \/ UserDeletes(s)

Next ==
  \/ \E e \in ES : Reconcile(e) \/ Runtime(e) \/ Resync(e) \/ EditSpec(e) \/ DeleteES(e)
  \/ \E s \in Secrets : GarbageCollect(s) \/ User(s)
  \/ ProviderChanges \/ AccessChanges \/ Restart

\* The workqueue hands out keys first in first out (strong fairness: with fewer
\* workers than keys a key has to wait), the informer delivers, timers fire and time
\* passes; users, the provider, faults and resyncs owe nothing.
Fairness ==
  /\ \A e \in ES : /\ SF_vars(Begin(e))
                   /\ WF_vars(InFlight(e))
                   /\ WF_vars(InformerSync(e))
                   /\ WF_vars(TimerFires(e))
                   /\ WF_vars(IntervalElapses(e))
  /\ \A s \in Secrets : WF_vars(GarbageCollect(s))

Spec == Init /\ [][Next]_vars
FairSpec == Spec /\ Fairness
-----------------------------------------------------------------------------
(* Properties. *)

Types ==
  /\ es \in [ES -> ESType] /\ cache \in [ES -> ESType]
  /\ secret \in [Secrets -> SecretType]
  /\ provider \in [Keys -> Vals \cup {Absent}]
  /\ access \in {"ok", "failing", "foreign"}
  /\ pc \in [ES -> {"idle", "fetch", "write", "finish"}]
  /\ job \in [ES -> JobType]
  /\ behind \subseteq {e \in ES : pc[e] # "idle"} /\ queue \subseteq ES /\ timer \subseteq ES
  /\ env \in 0..MaxEnv /\ faults \in 0..MaxFaults
  /\ absent \in [ES -> SUBSET Keys]

\* Types of the variables; a reconcile that has returned holds no copy of a
\* Secret that a later write could overtake, and one about to patch a Secret
\* (creationPolicy=Merge, which creates none) has found one.
TypeOK ==
  /\ Types
  /\ \A e \in ES : (pc[e] = "write" /\ JobSpec(e).creation = "Merge") => job[e].got.exists

\* With creationPolicy=Owner a reconcile never changes a Secret that another
\* ExternalSecret controls, although the owner was checked on a copy read one
\* API call earlier: SetControllerReference and the optimistic lock of Update
\* have to close the gap together.
OwnerRespected ==
  [][\A e \in ES :
       (pc[e] = "write" /\ pc'[e] = "finish" /\ JobSpec(e).creation = "Owner"
          /\ secret' # secret)
       => secret[Target[e]].owner \in {e, NoOwner}]_vars

RefKeys(spec) == UNION {spec.refs[i].keys : i \in DOMAIN spec.refs}

\* All that a reference names was absent at some moment of e's reconcile, or it
\* is a find and at least one secret it matches was.
SeenMissing(e, ref) ==
  \/ ref.keys \subseteq absent[e]
  \/ ref.kind = "find" /\ ref.keys \cap absent[e] # {}

\* deletionPolicy=Delete only acts on what the provider reported missing: when a
\* reconcile is about to delete, every secret it gets by name, and all or at
\* least one of those each find matches, was really absent at some moment since
\* it began.  An outage is never "no data".  (That one missing secret of a find
\* is enough to delete the Secret with all the others is what the code does.)
DeleteJustified ==
  \A e \in ES : DeletesTarget(e) =>
    \A i \in DOMAIN JobSpec(e).refs : SeenMissing(e, JobSpec(e).refs[i])

\* No other ExternalSecret writes the Secret of e without owning it.
Undisturbed(e) ==
  \A f \in ES \ {e} : Target[f] = Target[e] =>
    \A spec \in SpecsOf[f] : spec.creation \in {"Owner", "None"}

\* status.syncedResourceVersion = the current one stops refreshes, so it must
\* mean that the Secret was written from the current spec: keys of an earlier
\* spec are gone, however edits, reconciles and stale reads interleave.  (One
\* that merges into the Secret of another, or adopts it as an Orphan, replaces
\* data and hash, and isSecretValid cannot tell.)
SyncedRevisionApplied ==
  \A e \in ES :
    LET o == es[e]
        s == secret[Target[e]]
    IN (/\ o.exists /\ o.status.synced = o.rev /\ Undisturbed(e)
        /\ o.spec.creation = "Owner" /\ o.spec.tpl = {}
        /\ s.owner = e /\ isSecretValid(s))
       => \A k \in Keys : s.data[k] # Absent => k \in RefKeys(o.spec)

Desired(spec) == [k \in Keys |-> IF k \in RefKeys(spec) THEN provider[k] ELSE Absent]

\* The provider can serve the current spec of e, and no find of it may answer
\* NoSecretErr.
Servable(e) ==
  /\ es[e].exists /\ access = "ok"
  /\ Desired(es[e].spec) # Empty
  /\ \A i \in DOMAIN es[e].spec.refs :
       es[e].spec.deletion = "Retain" \/ es[e].spec.refs[i].kind = "find" =>
         \A k \in es[e].spec.refs[i].keys : provider[k] # Absent

\* The Secret of e is e's to make: there is none, or e created the one there is.
\* (Whether a Secret somebody else created is claimed, as the code does, or
\* refused, as the guide says, is left open by the properties below.)
OursToMake(e) == secret[Target[e]].exists => secret[Target[e]].creator = e

\* With a refresh interval and creationPolicy=Owner, once users and provider
\* are quiet the Secret ends up, for good, with exactly the provider's data,
\* controlled by e and reported Ready, whatever conflicts, crashes, lost
\* replies and stale reads came before.
Converges ==
  \A e \in ES :
    <>[](Servable(e) /\ ~es[e].spec.once /\ OursToMake(e) =>
           /\ secret[Target[e]].exists /\ secret[Target[e]].owner = e
           /\ secret[Target[e]].data = Desired(es[e].spec)
           /\ es[e].status.ready = "synced" /\ es[e].status.synced = es[e].rev)

\* creationPolicy=Merge: ExternalSecrets that merge different keys into one
\* Secret all get their keys in for good, although each of them stamps its own
\* data hash on the Secret and so never finds it valid.
AllMerge(t) == \A e \in ES : Target[e] = t => es[e].spec.creation = "Merge"
MergeConverges ==
  \A e \in ES :
    <>[](Servable(e) /\ secret[Target[e]].exists /\ AllMerge(Target[e]) =>
           \A k \in RefKeys(es[e].spec) : secret[Target[e]].data[k] = provider[k])

\* With refreshInterval 0 nothing is polled, yet a Secret that was changed or
\* deleted behind the controller's back is restored (isSecretValid, and the
\* watch on owned Secrets).
Repaired ==
  \A e \in ES :
    <>[](Servable(e) /\ OursToMake(e) => /\ isSecretValid(secret[Target[e]])
                                         /\ secret[Target[e]].owner = e)

\* The comment in front of r.Delete: "safeguard that we only can delete secrets
\* we own".
DeletesOnlyOwned ==
  [][\A e \in ES :
       (DeletesTarget(e) /\ pc'[e] = "finish" /\ ~secret'[Target[e]].exists)
       => (secret[Target[e]].exists => secret[Target[e]].owner = e)]_vars

\* A reconcile in flight while its ExternalSecret is deleted may re-create the
\* Secret; in the end none is left that a deleted ExternalSecret controls.
NoDanglingSecret ==
  \A e \in ES : <>[](~es[e].exists => \A s \in Secrets : secret[s].owner # e)
=============================================================================
