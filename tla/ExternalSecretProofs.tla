------------------------ MODULE ExternalSecretProofs ------------------------
(***************************************************************************)
(* For any ExternalSecrets, Secrets, keys, specs, workers and bounds: the  *)
(* types, that a reconcile with creationPolicy=Owner never changes a       *)
(* Secret another ExternalSecret controls, and that deletionPolicy=Delete  *)
(* acts only when each reference was really seen missing.                  *)
(***************************************************************************)
EXTENDS ExternalSecret, TLAPS

\* A Secret that does not exist has no owner.
GoneUnowned ==
  \A s \in Secrets : ~secret[s].exists => secret[s].owner = NoOwner

\* A reconcile about to write holds the current Secret, unless it is overtaken.
Snapshot ==
  \A e \in ES : (pc[e] = "write" /\ e \notin behind) => job[e].got = secret[Target[e]]

\* A reconcile that merges has found the Secret.
FoundToMerge ==
  \A e \in ES : (pc[e] = "write" /\ JobSpec(e).creation = "Merge") => job[e].got.exists

\* The copy it holds passed SetControllerReference.
OwnerChecked ==
  \A e \in ES : (pc[e] = "write" /\ JobSpec(e).creation = "Owner")
                => job[e].got.owner \in {e, NoOwner}

\* What is absent at the provider now was seen absent by every reconcile.
AbsentSeen ==
  \A e \in ES, k \in Keys : (pc[e] # "idle" /\ provider[k] = Absent) => k \in absent[e]

\* A reference passed over without data was seen missing when it was asked for.
MissingWasAbsent ==
  \A e \in ES : pc[e] = "fetch" =>
    \A i \in DOMAIN JobSpec(e).refs :
      (i < job[e].next /\ \A k \in JobSpec(e).refs[i].keys : job[e].data[k] = Absent)
      => SeenMissing(e, JobSpec(e).refs[i])

OwnerInv == GoneUnowned /\ Snapshot /\ OwnerChecked /\ FoundToMerge
FetchInv == AbsentSeen /\ MissingWasAbsent
IInv == Types /\ OwnerInv /\ FetchInv

\* A Secret that e controls and stamped holds no key outside the refs of spec.
AppliedTo(s, e, spec) ==
  (Undisturbed(e) /\ spec.creation = "Owner" /\ spec.tpl = {} /\ s.owner = e /\ s.hash # Absent)
  => \A k \in Keys : s.hash[k] # Absent => k \in RefKeys(spec)

\* Every spec in use is one users give.
SpecsKnown ==
  \A e \in ES : {es[e].spec, cache[e].spec, JobSpec(e)} \subseteq SpecsOf[e]

\* The informer's copy is never ahead of the API server and never behind the
\* synced revision; equal revisions mean equal specs.
CacheOrdered ==
  \A e \in ES :
    /\ es[e].status.synced <= cache[e].rev /\ cache[e].rev <= es[e].rev
    /\ cache[e].rev = es[e].rev => cache[e].spec = es[e].spec

\* The same of the copy a reconcile works on.
JobOrdered ==
  \A e \in ES : pc[e] # "idle" =>
    /\ es[e].status.synced <= job[e].es.rev /\ job[e].es.rev <= cache[e].rev
    /\ job[e].es.rev = es[e].rev => JobSpec(e) = es[e].spec

\* A reconcile collects only keys of its refs.
FetchedKeys ==
  \A e \in ES : pc[e] \in {"fetch", "write"} =>
    \A k \in Keys : job[e].data[k] # Absent => k \in RefKeys(JobSpec(e))

\* The revision a status patch is about to claim has been applied.
Pending ==
  \A e \in ES : pc[e] = "finish" =>
    \/ job[e].new.synced = job[e].es.status.synced
    \/ job[e].new.synced = job[e].es.rev /\ AppliedTo(secret[Target[e]], e, JobSpec(e))

\* So has the one the status claims.
SyncedApplied ==
  \A e \in ES :
    es[e].status.synced = es[e].rev => AppliedTo(secret[Target[e]], e, es[e].spec)

OrderInv == SpecsKnown /\ CacheOrdered /\ JobOrdered
SInv == OrderInv /\ FetchedKeys /\ Pending /\ SyncedApplied

Labels == {"idle", "fetch", "write", "finish"}
-----------------------------------------------------------------------------
(* The records the actions build have their types.                         *)

(* No Secret, and the Secret a user creates.                               *)
LEMMA GoneType == Gone \in SecretType
BY ConstantsAssumption DEF ConstantsAssumption, Gone, SecretType, Empty, Payload, Values

(* The work record of a reconcile that has not read anything.              *)
LEMMA NoJobType ==
  ASSUME NEW e \in ES
  PROVE  NoJob(e) \in JobType
<1>1. Blank(e).spec \in SpecType
  <2>1. SpecsOf[e] # {} /\ SpecsOf[e] \subseteq SpecType
    BY ConstantsAssumption DEF ConstantsAssumption
  <2>2. (CHOOSE s \in SpecsOf[e] : TRUE) \in SpecsOf[e] BY <2>1
  <2> QED BY <2>1, <2>2 DEF Blank
<1>2. NoStatus \in StatusType BY DEF NoStatus, StatusType
<1>3. Blank(e) \in ESType BY <1>1, <1>2 DEF Blank, ESType
<1>4. Empty \in Payload BY DEF Empty, Payload, Values
<1> QED BY <1>2, <1>3, <1>4, GoneType DEF NoJob, JobType

(* applyTemplate and mutationFunc.                                         *)
LEMMA TemplateType ==
  ASSUME Types, NEW e \in ES, NEW base \in Payload
  PROVE  applyTemplate(e, base) \in Payload
<1>1. job[e].data \in Payload BY DEF Types, JobType
<1> QED BY <1>1 DEF applyTemplate, Payload, Values

(* mutationFunc leaves a Secret.                                           *)
LEMMA MutationType ==
  ASSUME Types, NEW e \in ES, NEW s \in SecretType
  PROVE  mutationFunc(e, s) \in SecretType
<1> DEFINE t == applyTemplate(e, s.data)
           data == [k \in Keys |-> IF k \in getManagedKeys(e) /\ job[e].data[k] = Absent
                                   THEN Absent ELSE t[k]]
           owner == IF JobSpec(e).creation = "Owner" THEN e ELSE s.owner
<1>1. s.data \in Payload BY DEF SecretType
<1>2. t \in Payload BY <1>1, TemplateType
<1>3. data \in Payload BY <1>2 DEF Payload, Values
<1>4. owner \in ES \cup {NoOwner} BY DEF SecretType
<1>5. mutationFunc(e, s) = [s EXCEPT !.owner = owner, !.data = data, !.hash = t]
  BY Zenon DEF mutationFunc
<1> HIDE DEF t, data, owner
<1> QED BY <1>2, <1>3, <1>4, <1>5 DEF SecretType

(* What the API server stores.                                             *)
LEMMA StoredType ==
  ASSUME NEW old \in SecretType, NEW new \in SecretType
  PROVE  Stored(old, new) \in SecretType /\ Stored(old, new).exists
<1> DEFINE m == [k \in Keys |-> IF new.data[k] = Absent THEN {}
                                ELSE IF new.data[k] = old.data[k] THEN old.mgrs[k]
                                ELSE {Other}]
<1>1. m \in [Keys -> SUBSET (ES \cup {Other})] BY DEF SecretType
<1>2. Stored(old, new) = [new EXCEPT !.exists = TRUE, !.mgrs = m] BY Zenon DEF Stored
<1> HIDE DEF m
<1> QED BY <1>1, <1>2 DEF SecretType

(* Server-side apply leaves a Secret.                                      *)
LEMMA ApplyType ==
  ASSUME Types, NEW e \in ES, NEW s \in SecretType
  PROVE  ServerSideApply(e, s) \in SecretType /\ ServerSideApply(e, s).exists
<1> DEFINE a == mutationFunc(e, Gone)
           d == [k \in Keys |-> IF a.data[k] # Absent THEN a.data[k]
                                ELSE IF s.mgrs[k] \subseteq {e} THEN Absent
                                ELSE s.data[k]]
           m == [k \in Keys |-> IF a.data[k] = Absent THEN s.mgrs[k] \ {e}
                                ELSE IF a.data[k] = s.data[k] THEN s.mgrs[k] \cup {e}
                                ELSE {e}]
<1>1. a \in SecretType BY GoneType, MutationType
<1>2. d \in Payload
  <2>1. a.data \in Payload /\ s.data \in Payload BY <1>1 DEF SecretType
  <2> HIDE DEF a
  <2> QED BY <2>1 DEF Payload, Values
<1>3. m \in [Keys -> SUBSET (ES \cup {Other})]
  <2>1. s.mgrs \in [Keys -> SUBSET (ES \cup {Other})] BY DEF SecretType
  <2> HIDE DEF a
  <2> QED BY <2>1
<1>4. JobSpec(e).immutable \in BOOLEAN BY DEF Types, JobType, ESType, SpecType, JobSpec
<1>5. ServerSideApply(e, s) =
        [s EXCEPT !.exists = TRUE, !.hash = a.hash, !.immutable = JobSpec(e).immutable,
                  !.data = d, !.mgrs = m]
  BY Zenon DEF ServerSideApply
<1>6. a.hash \in Payload \cup {Absent} BY <1>1 DEF SecretType
<1> HIDE DEF a, d, m
<1> QED BY <1>2, <1>3, <1>4, <1>5, <1>6 DEF SecretType

(* What CreateOrUpdate sends is a Secret.                                  *)
LEMMA WrittenType ==
  ASSUME Types, NEW e \in ES
  PROVE  Written(e) \in SecretType /\ Written(e).exists
<1> DEFINE got == job[e].got
           new == [mutationFunc(e, Gone) EXCEPT !.immutable = JobSpec(e).immutable, !.creator = e]
<1>1. got \in SecretType BY DEF Types, JobType
<1>2. mutationFunc(e, got) \in SecretType BY <1>1, MutationType
<1>3. JobSpec(e).immutable \in BOOLEAN BY DEF Types, JobType, ESType, SpecType, JobSpec
<1>4. mutationFunc(e, Gone) \in SecretType BY GoneType, MutationType
<1>5. new \in SecretType BY <1>3, <1>4 DEF SecretType
<1>6. Written(e) = (IF got.exists THEN Stored(got, mutationFunc(e, got)) ELSE Stored(Gone, new))
  BY Zenon DEF Written
<1>7. Stored(got, mutationFunc(e, got)) \in SecretType /\ Stored(got, mutationFunc(e, got)).exists
  BY <1>1, <1>2, StoredType
<1>8. Stored(Gone, new) \in SecretType /\ Stored(Gone, new).exists
  BY <1>5, GoneType, StoredType
<1> HIDE DEF got, new
<1> QED BY <1>6, <1>7, <1>8

-----------------------------------------------------------------------------
(* What the parts of an action leave alone.                                *)

(* The initial states satisfy the inductive invariant.                     *)
LEMMA InitInv == Init => IInv
<1> SUFFICES ASSUME Init PROVE IInv
  OBVIOUS
<1> USE ConstantsAssumption DEF ConstantsAssumption
<1> PICK s \in [ES -> UNION {SpecsOf[e] : e \in ES}] :
      /\ \A e \in ES : s[e] \in SpecsOf[e]
      /\ es = [e \in ES |-> [exists |-> TRUE, rev |-> 1, spec |-> s[e], status |-> NoStatus]]
  BY DEF Init
<1>1. es \in [ES -> ESType]
  <2>1. \A e \in ES : s[e] \in SpecType OBVIOUS
  <2>2. NoStatus \in StatusType BY DEF NoStatus, StatusType
  <2> QED BY <2>1, <2>2 DEF ESType
<1>2. pc = [e \in ES |-> "idle"] /\ job = [e \in ES |-> NoJob(e)] /\ secret = [x \in Secrets |-> Gone]
  BY DEF Init
<1>3. job \in [ES -> JobType] BY <1>2, NoJobType
<1>4. secret \in [Secrets -> SecretType] BY <1>2, GoneType
<1>5. Types BY <1>1, <1>2, <1>3, <1>4 DEF Init, Types
<1>6. OwnerInv BY <1>2 DEF OwnerInv, GoneUnowned, Snapshot, OwnerChecked, FoundToMerge, Gone
<1>7. FetchInv BY <1>2 DEF FetchInv, AbsentSeen, MissingWasAbsent
<1> QED BY <1>5, <1>6, <1>7 DEF IInv

(* OwnerInv survives a step in which nobody reads a Secret and every       *)
(* reconcile whose copy is overtaken learns of it.                         *)
LEMMA OwnerKept ==
  ASSUME IInv, GoneUnowned',
         \A x \in ES : pc'[x] = "write" => pc[x] = "write" /\ job'[x] = job[x],
         \A x \in ES : (pc'[x] = "write" /\ x \notin behind')
                       => x \notin behind /\ secret'[Target[x]] = secret[Target[x]]
  PROVE  OwnerInv'
<1> USE DEF IInv, OwnerInv
<1>1. Snapshot' BY DEF Snapshot
<1>2. OwnerChecked' BY DEF OwnerChecked, JobSpec
<1>3. FoundToMerge' BY DEF FoundToMerge, JobSpec
<1> QED BY <1>1, <1>2, <1>3

(* FetchInv survives a step that fetches nothing and leaves the provider   *)
(* alone.                                                                  *)
LEMMA FetchKept ==
  ASSUME IInv, UNCHANGED provider,
         \A x \in ES : pc'[x] # "idle" => pc[x] # "idle" /\ absent'[x] = absent[x],
         \A x \in ES : pc'[x] = "fetch" => pc[x] = "fetch" /\ job'[x] = job[x]
  PROVE  FetchInv'
<1> USE DEF IInv, FetchInv
<1>1. AbsentSeen' BY DEF AbsentSeen
<1>2. MissingWasAbsent'
  <2> SUFFICES ASSUME NEW x \in ES, pc'[x] = "fetch",
                      NEW i \in DOMAIN JobSpec(x)'.refs,
                      i < job'[x].next, \A k \in JobSpec(x)'.refs[i].keys : job'[x].data[k] = Absent
               PROVE  SeenMissing(x, JobSpec(x).refs[i])'
    BY DEF MissingWasAbsent
  <2>1. pc[x] = "fetch" /\ job'[x] = job[x] /\ absent'[x] = absent[x]
    OBVIOUS
  <2>2. JobSpec(x)' = JobSpec(x) BY <2>1 DEF JobSpec
  <2> QED BY <2>1, <2>2 DEF MissingWasAbsent, SeenMissing
<1> QED BY <1>1, <1>2

(* A write of a Secret.                                                    *)
LEMMA PutKept ==
  ASSUME IInv, NEW s \in Secrets, NEW v \in SecretType,
         ~v.exists => v.owner = NoOwner, Put(s, v)
  PROVE  /\ secret' \in [Secrets -> SecretType] /\ GoneUnowned'
         /\ behind' \subseteq {x \in ES : pc[x] # "idle"}
         /\ \A x \in ES : (pc[x] = "write" /\ x \notin behind')
                          => x \notin behind /\ secret'[Target[x]] = secret[Target[x]]
<1> USE ConstantsAssumption DEF ConstantsAssumption, IInv, OwnerInv
<1>1. secret' = [secret EXCEPT ![s] = v] BY DEF Put
<1>2. behind' = behind \cup {e \in ES : Target[e] = s /\ pc[e] = "write"} BY DEF Put
<1>3. secret' \in [Secrets -> SecretType] BY <1>1 DEF Types
<1>4. GoneUnowned' BY <1>1 DEF GoneUnowned, Types
<1>5. behind' \subseteq {x \in ES : pc[x] # "idle"} BY <1>2 DEF Types
<1>6. \A x \in ES : (pc[x] = "write" /\ x \notin behind')
                    => x \notin behind /\ secret'[Target[x]] = secret[Target[x]]
  BY <1>1, <1>2 DEF Types
<1> QED BY <1>3, <1>4, <1>5, <1>6

(* The end of a reconcile, before the deferred patch.                      *)
LEMMA EndsKept ==
  ASSUME IInv, NEW e \in ES, NEW new \in StatusType, NEW r \in {"none", "after", "error"},
         Ends(e, new, r)
  PROVE  /\ pc' \in [ES -> Labels] /\ job' \in [ES -> JobType]
         /\ pc'[e] = "finish"
         /\ \A x \in ES : x # e => pc'[x] = pc[x] /\ job'[x] = job[x]
<1> USE DEF IInv
<1>1. pc' = [pc EXCEPT ![e] = "finish"] BY DEF Ends
<1>2. job' = [job EXCEPT ![e] = [job[e] EXCEPT !.new = new, !.result = r]]
  BY DEF Ends, Types
<1>3. [job[e] EXCEPT !.new = new, !.result = r] \in JobType BY DEF Types, JobType
<1>4. job' \in [ES -> JobType] BY <1>2, <1>3 DEF Types
<1>5. pc' \in [ES -> Labels] BY <1>1 DEF Types, Labels
<1> QED BY <1>1, <1>2, <1>4, <1>5 DEF Types

(* A whole step that ends a reconcile, with or without writing a Secret.   *)
LEMMA EndsStep ==
  ASSUME IInv, NEW e \in ES, NEW new \in StatusType, NEW r \in {"none", "after", "error"},
         Ends(e, new, r), pc[e] \in {"fetch", "write"},
         UNCHANGED <<es, cache, outside, timer, absent>>,
         faults' \in 0..MaxFaults, queue' \subseteq ES,
         \/ UNCHANGED <<secret, behind>>
         \/ \E s \in Secrets, v \in SecretType :
              (~v.exists => v.owner = NoOwner) /\ Put(s, v)
  PROVE  IInv'
<1>1. /\ pc' \in [ES -> Labels] /\ job' \in [ES -> JobType]
      /\ pc'[e] = "finish"
      /\ \A x \in ES : x # e => pc'[x] = pc[x] /\ job'[x] = job[x]
  BY EndsKept
<1>2. UNCHANGED <<es, cache, provider, access, env, timer, absent>> BY DEF outside
<1>3. /\ secret' \in [Secrets -> SecretType] /\ GoneUnowned'
      /\ behind' \subseteq {x \in ES : pc[x] # "idle"}
      /\ \A x \in ES : (pc[x] = "write" /\ x \notin behind')
                       => x \notin behind /\ secret'[Target[x]] = secret[Target[x]]
  <2>1. CASE UNCHANGED <<secret, behind>>
    BY <2>1 DEF IInv, Types, OwnerInv, GoneUnowned
  <2>2. CASE \E s \in Secrets, v \in SecretType :
               (~v.exists => v.owner = NoOwner) /\ Put(s, v)
    BY <2>2, PutKept
  <2> QED BY <2>1, <2>2
<1>4. behind' \subseteq {x \in ES : pc'[x] # "idle"} BY <1>1, <1>3
<1>5. Types' BY <1>1, <1>2, <1>3, <1>4 DEF IInv, Types, Labels
<1>6. OwnerInv' BY <1>1, <1>3, OwnerKept
<1>7. FetchInv' BY <1>1, <1>2, FetchKept
<1> QED BY <1>5, <1>6, <1>7 DEF IInv

(* A step outside the reconciles that writes a Secret.                     *)
LEMMA PutStep ==
  ASSUME IInv, NEW s \in Secrets, NEW v \in SecretType,
         ~v.exists => v.owner = NoOwner, PutByController(s, v),
         UNCHANGED <<es, cache, provider, access, pc, job, timer, faults, absent>>,
         env' \in 0..MaxEnv
  PROVE  IInv'
<1>1. /\ secret' \in [Secrets -> SecretType] /\ GoneUnowned'
      /\ behind' \subseteq {x \in ES : pc[x] # "idle"}
      /\ \A x \in ES : (pc[x] = "write" /\ x \notin behind')
                       => x \notin behind /\ secret'[Target[x]] = secret[Target[x]]
  BY PutKept DEF PutByController
<1>2. queue' \subseteq ES BY DEF PutByController, Owners, IInv, Types
<1>3. Types' BY <1>1, <1>2 DEF IInv, Types
<1>4. OwnerInv' BY <1>1, OwnerKept
<1>5. FetchInv' BY FetchKept
<1> QED BY <1>3, <1>4, <1>5 DEF IInv

(* A step that touches neither Secrets, provider nor reconciles.           *)
LEMMA QuietStep ==
  ASSUME IInv, UNCHANGED <<secret, provider, pc, job, behind, absent>>,
         es' \in [ES -> ESType], cache' \in [ES -> ESType],
         access' \in {"ok", "failing", "foreign"},
         queue' \subseteq ES, timer' \subseteq ES, env' \in 0..MaxEnv, faults' \in 0..MaxFaults
  PROVE  IInv'
<1>1. Types' BY DEF IInv, Types
<1>2. GoneUnowned' BY DEF IInv, OwnerInv, GoneUnowned
<1>3. OwnerInv' BY <1>2, OwnerKept
<1>4. FetchInv' BY FetchKept
<1> QED BY <1>1, <1>3, <1>4 DEF IInv

-----------------------------------------------------------------------------
(* One lemma per group of actions.                                         *)

(* The status a reconcile is about to patch.                               *)
LEMMA StatusTypes ==
  ASSUME Types, NEW e \in ES
  PROVE  /\ job[e].es.status \in StatusType
         /\ \A r \in {"none", "synced", "error", "deleted"} : WithReady(e, r) \in StatusType
         /\ [ready |-> "synced", synced |-> job[e].es.rev, refresh |-> "now"] \in StatusType
<1>1. job[e].es.status \in StatusType /\ job[e].es.rev \in Nat
  BY DEF Types, JobType, ESType
<1>2. \A r \in {"none", "synced", "error", "deleted"} : WithReady(e, r) \in StatusType
  BY <1>1 DEF WithReady, StatusType
<1>3. [ready |-> "synced", synced |-> job[e].es.rev, refresh |-> "now"] \in StatusType
  BY <1>1 DEF StatusType
<1> QED BY <1>1, <1>2, <1>3

(* The count of failing calls stays in its bound.                          *)
LEMMA FaultType ==
  ASSUME Types, ApiFault \/ UNCHANGED faults
  PROVE  faults' \in 0..MaxFaults
BY ConstantsAssumption DEF ConstantsAssumption, ApiFault, Types

(* A key leaves the workqueue; the reconcile returns early or starts to fetch. *)
LEMMA BeginStep == ASSUME IInv, NEW e \in ES, Begin(e) PROVE IInv'
<1>1. CASE SkipReconcile(e)
  BY <1>1, QuietStep DEF SkipReconcile, Dequeued, outside, IInv, Types
<1>2. CASE SkipRefresh(e)
  BY <1>2, QuietStep DEF SkipRefresh, Reconciles, Dequeued, RequeueAfter, outside, IInv, Types
<1>3. CASE StopReconciling(e)
  <2>1. faults' \in 0..MaxFaults BY <1>3, FaultType DEF StopReconciling, MustRefresh, IInv
  <2> QED BY <1>3, <2>1, QuietStep DEF StopReconciling, Reconciles, Dequeued, outside, IInv, Types
<1>4. CASE StartFetch(e)
  <2> DEFINE j == [NoJob(e) EXCEPT !.es = cache[e]]
             a == {k \in Keys : provider[k] = Absent}
  <2>1. /\ pc' = [pc EXCEPT ![e] = "fetch"] /\ job' = [job EXCEPT ![e] = j]
        /\ absent' = [absent EXCEPT ![e] = a]
        /\ queue' = queue \ {e} /\ pc[e] = "idle"
        /\ UNCHANGED <<es, cache, secret, provider, access, env, behind, timer>>
    BY <1>4 DEF StartFetch, Reconciles, Dequeued, outside
  <2>0. faults' \in 0..MaxFaults BY <1>4, FaultType DEF StartFetch, MustRefresh, IInv
  <2>2. j \in JobType /\ j.next = 1
    <3>1. NoJob(e) \in JobType /\ NoJob(e).next = 1 BY NoJobType DEF NoJob
    <3>2. cache[e] \in ESType BY DEF IInv, Types
    <3> QED BY <3>1, <3>2 DEF JobType
  <2> HIDE DEF j
  <2>3. Types' BY <2>0, <2>1, <2>2 DEF IInv, Types
  <2>4. GoneUnowned' BY <2>1 DEF IInv, OwnerInv, GoneUnowned
  <2>5. OwnerInv' BY <2>1, <2>4, OwnerKept DEF IInv, Types
  <2>6. AbsentSeen' BY <2>1 DEF IInv, Types, FetchInv, AbsentSeen
  <2>7. ASSUME NEW x \in ES, pc'[x] = "fetch",
               NEW i \in DOMAIN JobSpec(x)'.refs,
               i < job'[x].next, \A k \in JobSpec(x)'.refs[i].keys : job'[x].data[k] = Absent
        PROVE  SeenMissing(x, JobSpec(x).refs[i])'
    <3>1. CASE x = e
      <4>1. job'[x].es.spec.refs \in Seq(RefType)
        BY <2>3 DEF Types, JobType, ESType, SpecType
      <4>2. i \in 1..Len(job'[x].es.spec.refs) BY <2>7, <4>1 DEF JobSpec
      <4>3. job'[x].next = 1 BY <2>1, <2>2, <3>1 DEF IInv, Types
      <4> QED BY <2>7, <4>2, <4>3
    <3>2. CASE x # e
      <4>1. pc[x] = "fetch" /\ job'[x] = job[x] /\ absent'[x] = absent[x]
        BY <2>1, <2>7, <3>2 DEF IInv, Types
      <4>2. JobSpec(x)' = JobSpec(x) BY <4>1 DEF JobSpec
      <4> QED BY <2>7, <4>1, <4>2 DEF IInv, FetchInv, MissingWasAbsent, SeenMissing
    <3> QED BY <3>1, <3>2
  <2>8. MissingWasAbsent' BY <2>7 DEF MissingWasAbsent
  <2> QED BY <2>3, <2>5, <2>6, <2>8 DEF IInv, FetchInv
<1> QED BY <1>1, <1>2, <1>3, <1>4 DEF Begin

(* One ref was asked for: what is collected keeps the data already there,  *)
(* and has nothing of the ref only if the ref was seen missing.            *)
LEMMA CollectStep ==
  ASSUME IInv, NEW e \in ES, NEW data \in Payload, HasNext(e), Collect(e, data),
         \A k \in Keys : data[k] = Absent => job[e].data[k] = Absent,
         (\A k \in Ref(e).keys : data[k] = Absent) => SeenMissing(e, Ref(e))
  PROVE  IInv'
<1> DEFINE j == [job[e] EXCEPT !.data = data, !.next = job[e].next + 1]
<1>1. /\ job' = [job EXCEPT ![e] = j] /\ pc[e] = "fetch"
      /\ UNCHANGED <<es, cache, secret, provider, access, env, pc, behind, queue, timer,
                     faults, absent>>
  BY DEF Collect, HasNext, outside, IInv, Types
<1>2. job[e] \in JobType /\ job[e].next \in Nat \ {0} BY DEF IInv, Types, JobType
<1>3. /\ j \in JobType /\ j.es = job[e].es /\ j.data = data /\ j.next = job[e].next + 1
  <2>1. job[e].next + 1 \in Nat \ {0} BY <1>2
  <2>2. \A n \in Nat \ {0} :
          LET y == [job[e] EXCEPT !.data = data, !.next = n]
          IN  y \in JobType /\ y.es = job[e].es /\ y.data = data /\ y.next = n
    BY <1>2 DEF JobType
  <2> QED BY <2>1, <2>2
<1> HIDE DEF j
<1>4. Types' BY <1>1, <1>3 DEF IInv, Types
<1>5. GoneUnowned' BY <1>1 DEF IInv, OwnerInv, GoneUnowned
<1>6. OwnerInv' BY <1>1, <1>5, OwnerKept DEF IInv, Types
<1>7. AbsentSeen' BY <1>1 DEF IInv, FetchInv, AbsentSeen
<1>8. ASSUME NEW x \in ES, pc'[x] = "fetch",
             NEW i \in DOMAIN JobSpec(x)'.refs,
             i < job'[x].next, \A k \in JobSpec(x)'.refs[i].keys : job'[x].data[k] = Absent
      PROVE  SeenMissing(x, JobSpec(x).refs[i])'
  <2>1. JobSpec(x)' = JobSpec(x) /\ absent'[x] = absent[x] /\ pc[x] = "fetch"
    BY <1>1, <1>3, <1>8 DEF JobSpec, IInv, Types
  <2>2. CASE x # e
    <3>1. job'[x] = job[x] BY <1>1, <2>2 DEF IInv, Types
    <3> QED BY <1>8, <2>1, <3>1 DEF IInv, FetchInv, MissingWasAbsent, SeenMissing
  <2>3. CASE x = e
    <3>1. job'[e].data = data /\ job'[e].next = job[e].next + 1
      BY <1>1, <1>3 DEF IInv, Types
    <3>2. JobSpec(e).refs \in Seq(RefType)
      BY DEF JobSpec, IInv, Types, JobType, ESType, SpecType
    <3>3. i \in 1..Len(JobSpec(e).refs) /\ JobSpec(e).refs[i] \in RefType
      BY <1>8, <2>1, <2>3, <3>2
    <3>4. JobSpec(e).refs[i].keys \subseteq Keys BY <3>3 DEF RefType
    <3>8. SeenMissing(e, JobSpec(e).refs[i]) => SeenMissing(e, JobSpec(e).refs[i])'
      BY <1>1, <2>1, <2>3 DEF SeenMissing
    <3>5. CASE i < job[e].next
      <4>1. \A k \in JobSpec(e).refs[i].keys : job[e].data[k] = Absent
        BY <1>8, <2>1, <2>3, <3>1, <3>4
      <4> QED BY <1>8, <2>1, <2>3, <3>5, <3>8, <4>1 DEF IInv, FetchInv, MissingWasAbsent
    <3>6. CASE i = job[e].next
      <4>1. JobSpec(e).refs[i] = Ref(e) BY <3>6 DEF Ref
      <4>2. \A k \in Ref(e).keys : data[k] = Absent
        BY <1>8, <2>1, <2>3, <3>1, <4>1
      <4> QED BY <2>3, <3>8, <4>1, <4>2
    <3>7. i < job[e].next \/ i = job[e].next BY <1>2, <1>8, <2>3, <3>1, <3>3
    <3> QED BY <3>5, <3>6, <3>7
  <2> QED BY <2>2, <2>3
<1>9. MissingWasAbsent' BY <1>8 DEF MissingWasAbsent
<1> QED BY <1>4, <1>6, <1>7, <1>9 DEF IInv, FetchInv

(* One ref is fetched, passed over or fails.                               *)
LEMMA FetchStep == ASSUME IInv, NEW e \in ES, Fetch(e) PROVE IInv'
<1> USE ConstantsAssumption DEF ConstantsAssumption
<1>1. ASSUME HasNext(e)
      PROVE  /\ Ref(e) \in RefType /\ Ref(e).keys \subseteq Keys
             /\ job[e].data \in Payload /\ provider \in [Keys -> Vals \cup {Absent}]
             /\ pc[e] = "fetch"
  <2>1. JobSpec(e).refs \in Seq(RefType) /\ job[e].next \in Nat \ {0}
    BY DEF JobSpec, IInv, Types, JobType, ESType, SpecType
  <2>2. job[e].next \in 1..Len(JobSpec(e).refs) BY <1>1, <2>1 DEF HasNext
  <2>3. Ref(e) \in RefType BY <2>1, <2>2 DEF Ref
  <2>4. Ref(e).keys \subseteq Keys BY <2>3 DEF RefType
  <2> QED BY <1>1, <2>3, <2>4 DEF IInv, Types, JobType, HasNext
<1>7. ASSUME HasNext(e), NEW k \in Keys, provider[k] = Absent PROVE k \in absent[e]
  BY <1>1, <1>7 DEF IInv, FetchInv, AbsentSeen
<1>2. ASSUME HasNext(e), NEW new \in [Keys -> Vals \cup {Absent}], Collect(e, Merged(e, new)),
             (\A k \in Ref(e).keys : new[k] = Absent) => SeenMissing(e, Ref(e))
      PROVE  IInv'
  <2> DEFINE d == Merged(e, new)
  <2>1. d \in Payload BY <1>1, <1>2 DEF Merged, Payload, Values
  <2>2. \A k \in Keys : d[k] = (IF k \in Ref(e).keys /\ new[k] # Absent THEN new[k]
                               ELSE job[e].data[k])
    BY DEF Merged
  <2> HIDE DEF d
  <2>3. \A k \in Keys : d[k] = Absent => job[e].data[k] = Absent BY <2>2
  <2>4. (\A k \in Ref(e).keys : d[k] = Absent) => SeenMissing(e, Ref(e))
    BY <1>1, <1>2, <2>2
  <2> QED BY <1>2, <2>1, <2>3, <2>4, CollectStep DEF d
<1>3. ASSUME HasNext(e), Collect(e, Merged(e, provider)) PROVE IInv'
  <2>1. (\A k \in Ref(e).keys : provider[k] = Absent) => SeenMissing(e, Ref(e))
    BY <1>1, <1>3, <1>7 DEF SeenMissing
  <2> QED BY <1>1, <1>2, <1>3, <2>1
<1>4. CASE FetchRef(e)
  <2>1. HasNext(e) BY <1>4 DEF FetchRef
  <2>2. ASSUME Ref(e).kind = "generate", NEW v \in Vals, Collect(e, Merged(e, [k \in Keys |-> v]))
        PROVE  IInv'
    <3> DEFINE new == [k \in Keys |-> v]
    <3>1. v # Absent /\ new \in [Keys -> Vals \cup {Absent}] OBVIOUS
    <3>2. PICK k \in Keys : Ref(e).keys = {k} BY <1>1, <2>1, <2>2 DEF RefType
    <3>3. k \in Ref(e).keys /\ new[k] # Absent BY <3>1, <3>2
    <3> HIDE DEF new
    <3> QED BY <1>2, <2>1, <2>2, <3>1, <3>3 DEF new
  <2> QED BY <1>4, <1>3, <2>1, <2>2 DEF FetchRef
<1>5. CASE SkipMissing(e)
  <2>1. HasNext(e) /\ Collect(e, job[e].data) /\ NoSecretErr(e) BY <1>5 DEF SkipMissing
  <2>2. PICK k \in Ref(e).keys : provider[k] = Absent BY <2>1 DEF NoSecretErr
  <2>3. k \in absent[e] BY <1>1, <1>7, <2>1, <2>2
  <2>4. SeenMissing(e, Ref(e))
    <3>1. CASE Ref(e).kind = "find" BY <2>2, <2>3, <3>1 DEF SeenMissing
    <3>2. CASE Ref(e).kind = "get"
      <4>1. Ref(e).keys = {k} BY <1>1, <2>1, <2>2, <3>2 DEF RefType
      <4> QED BY <2>3, <4>1 DEF SeenMissing
    <3> QED BY <2>1, <3>1, <3>2 DEF NoSecretErr
  <2> QED BY <1>1, <2>1, <2>4, CollectStep
<1>6. CASE FetchFails(e)
  <2>1. Ends(e, WithReady(e, "error"), "error") BY <1>6 DEF FetchFails, Fail
  <2>2. WithReady(e, "error") \in StatusType BY StatusTypes DEF IInv
  <2>3. /\ pc[e] = "fetch"
        /\ UNCHANGED <<es, cache, outside, timer, absent, secret, behind, faults, queue>>
    BY <1>6 DEF FetchFails, HasNext
  <2> QED BY <2>1, <2>2, <2>3, EndsStep DEF IInv, Types
<1> QED BY <1>4, <1>5, <1>6 DEF Fetch

(* The reconcile found no data: the deletion policy acts.                  *)
LEMMA DeleteStep == ASSUME IInv, NEW e \in ES, Delete(e) PROVE IInv'
<1> USE ConstantsAssumption DEF ConstantsAssumption
<1>1. /\ job[e].es.status \in StatusType
      /\ WithReady(e, "error") \in StatusType /\ WithReady(e, "deleted") \in StatusType
  BY StatusTypes DEF IInv
<1>2. pc[e] = "fetch"
  BY DEF Delete, DeleteRefused, DeleteSecret, DeleteErrs, RetainSecret, DeletesTarget,
         NoData, Fetched
<1>3. CASE DeleteRefused(e)
  BY <1>1, <1>2, <1>3, EndsStep DEF DeleteRefused, Fail, IInv, Types
<1>4. CASE DeleteSecret(e)
  <2>1. Put(Target[e], Gone) /\ queue' = queue \cup Owners(Target[e], Gone)
    BY <1>4 DEF DeleteSecret, PutByController
  <2>2. Target[e] \in Secrets /\ queue' \subseteq ES BY <2>1 DEF Owners, IInv, Types
  <2>3. Gone.owner = NoOwner BY DEF Gone
  <2>4. faults' \in 0..MaxFaults BY <1>4, FaultType DEF DeleteSecret, IInv
  <2>5. \E s \in Secrets, v \in SecretType : (~v.exists => v.owner = NoOwner) /\ Put(s, v)
    BY <2>1, <2>2, <2>3, GoneType
  <2> QED BY <1>1, <1>2, <1>4, <2>2, <2>4, <2>5, EndsStep DEF DeleteSecret
<1>5. CASE DeleteErrs(e)
  <2>1. faults' \in 0..MaxFaults BY <1>5, FaultType DEF DeleteErrs, IInv
  <2> QED BY <1>1, <1>2, <1>5, <2>1, EndsStep DEF DeleteErrs, IInv, Types
<1>6. CASE RetainSecret(e)
  BY <1>1, <1>2, <1>6, EndsStep DEF RetainSecret, IInv, Types
<1> QED BY <1>3, <1>4, <1>5, <1>6 DEF Delete

(* The target Secret is read and mutated; nothing is written yet.          *)
LEMMA ApplyStep == ASSUME IInv, NEW e \in ES, Apply(e) PROVE IInv'
<1> USE ConstantsAssumption DEF ConstantsAssumption
<1>1. /\ WithReady(e, "error") \in StatusType
      /\ [ready |-> "synced", synced |-> job[e].es.rev, refresh |-> "now"] \in StatusType
  BY StatusTypes DEF IInv
<1>2. pc[e] = "fetch"
  BY DEF Apply, SkipCreation, GetTarget, TargetUpToDate, TargetRefused, Applies, Fetched
<1>3. CASE SkipCreation(e)
  BY <1>1, <1>2, <1>3, EndsStep DEF SkipCreation, Succeed, IInv, Types
<1>4. CASE TargetUpToDate(e)
  BY <1>1, <1>2, <1>4, EndsStep DEF TargetUpToDate, Succeed, IInv, Types
<1>5. CASE TargetRefused(e)
  <2>1. faults' \in 0..MaxFaults BY <1>5, FaultType DEF TargetRefused, IInv
  <2> QED BY <1>1, <1>2, <1>5, <2>1, EndsStep DEF TargetRefused, Fail, IInv, Types
<1>6. CASE GetTarget(e)
  <2> DEFINE s == secret[Target[e]]
             j == [job[e] EXCEPT !.got = s]
  <2>1. /\ pc' = [pc EXCEPT ![e] = "write"] /\ job' = [job EXCEPT ![e] = j]
        /\ behind' = behind \ {e}
        /\ UNCHANGED <<es, cache, secret, provider, access, env, queue, timer, faults, absent>>
    BY <1>6 DEF GetTarget, outside, IInv, Types
  <2>2. s \in SecretType BY DEF IInv, Types
  <2>3. j \in JobType /\ j.got = s /\ j.es = job[e].es BY <2>2 DEF IInv, Types, JobType
  <2>4. JobSpec(e).creation = "Owner" => s.owner \in {e, NoOwner}
    BY <1>6 DEF GetTarget, OwnedByOther
  <2> HIDE DEF s, j
  <2>5. Types' BY <2>1, <2>3 DEF IInv, Types
  <2>6. GoneUnowned' BY <2>1 DEF IInv, OwnerInv, GoneUnowned
  <2>7. Snapshot' BY <2>1, <2>3 DEF IInv, Types, OwnerInv, Snapshot, s
  <2>8. OwnerChecked'
    BY <2>1, <2>3, <2>4 DEF IInv, Types, OwnerInv, OwnerChecked, JobSpec
  <2>9. FetchInv' BY <1>2, <2>1, FetchKept DEF IInv, Types
  <2>10. JobSpec(e).creation = "Merge" => s.exists BY <1>6 DEF GetTarget, s
  <2>11. FoundToMerge'
    BY <2>1, <2>3, <2>10 DEF IInv, Types, OwnerInv, FoundToMerge, JobSpec
  <2> QED BY <2>5, <2>6, <2>7, <2>8, <2>9, <2>11 DEF IInv, OwnerInv
<1> QED BY <1>3, <1>4, <1>5, <1>6 DEF Apply

(* The write of the target Secret is stored or refused.                    *)
LEMMA WriteStep == ASSUME IInv, NEW e \in ES, Write(e) PROVE IInv'
<1> USE ConstantsAssumption DEF ConstantsAssumption
<1>1. /\ WithReady(e, "error") \in StatusType
      /\ [ready |-> "synced", synced |-> job[e].es.rev, refresh |-> "now"] \in StatusType
  BY StatusTypes DEF IInv
<1>2. pc[e] = "write"
  BY DEF Write, CreateOrUpdate, patchSecret, WriteFails, Writing
<1>3. Target[e] \in Secrets /\ secret[Target[e]] \in SecretType BY DEF IInv, Types
<1>4. ASSUME NEW v \in SecretType, v.exists, PutByController(Target[e], v), Replied(e),
             UNCHANGED <<es, cache, outside, timer, absent>>
      PROVE  IInv'
  <2>1. faults' \in 0..MaxFaults BY <1>4, FaultType DEF Replied, IInv
  <2>2. queue' \subseteq ES BY <1>4 DEF PutByController, Owners, IInv, Types
  <2>3. \E s \in Secrets, w \in SecretType : (~w.exists => w.owner = NoOwner) /\ Put(s, w)
    BY <1>3, <1>4 DEF PutByController
  <2>4. CASE Succeed(e) BY <1>1, <1>2, <1>4, <2>1, <2>2, <2>3, <2>4, EndsStep DEF Succeed
  <2>5. CASE Fail(e) BY <1>1, <1>2, <1>4, <2>1, <2>2, <2>3, <2>5, EndsStep DEF Fail
  <2> QED BY <1>4, <2>4, <2>5 DEF Replied
<1>5. CASE CreateOrUpdate(e)
  <2>1. Written(e) \in SecretType /\ Written(e).exists BY WrittenType DEF IInv
  <2> QED BY <1>4, <1>5, <2>1 DEF CreateOrUpdate
<1>6. CASE patchSecret(e)
  <2> DEFINE v == ServerSideApply(e, secret[Target[e]])
  <2>1. v \in SecretType /\ v.exists BY <1>3, ApplyType DEF IInv
  <2>2. /\ PutByController(Target[e], v) /\ Replied(e)
        /\ UNCHANGED <<es, cache, outside, timer, absent>>
    BY <1>6 DEF patchSecret
  <2> HIDE DEF v
  <2> QED BY <1>4, <2>1, <2>2
<1>7. CASE WriteFails(e)
  <2>1. faults' \in 0..MaxFaults BY <1>7, FaultType DEF WriteFails, IInv
  <2> QED BY <1>1, <1>2, <1>7, <2>1, EndsStep DEF WriteFails, Fail, IInv, Types
<1> QED BY <1>5, <1>6, <1>7 DEF Write

(* The reconcile returns, with or without its status patch.                *)
LEMMA FinishStep == ASSUME IInv, NEW e \in ES, Finish(e) PROVE IInv'
<1>1. /\ pc' = [pc EXCEPT ![e] = "idle"] /\ job' = [job EXCEPT ![e] = NoJob(e)]
      /\ behind' = behind \ {e} /\ absent' = [absent EXCEPT ![e] = {}]
      /\ queue' \subseteq ES /\ timer' \subseteq ES
      /\ UNCHANGED <<cache, secret, provider, access, env>>
  BY DEF Finish, PatchStatus, PatchStatusFails, Returns, RequeueAfter, outside, IInv, Types
<1>2. faults' \in 0..MaxFaults
  BY FaultType DEF Finish, PatchStatus, PatchStatusFails, IInv
<1>3. es' \in [ES -> ESType]
  <2>1. CASE PatchStatus(e)
    <3> DEFINE p == MergePatch(es[e].status, job[e].es.status, job[e].new)
    <3>1. p \in StatusType
      <4>1. es[e].status \in StatusType /\ job[e].es.status \in StatusType
            /\ job[e].new \in StatusType
        BY DEF IInv, Types, ESType, JobType
      <4> QED BY <4>1 DEF MergePatch, StatusType
    <3>2. es' = [es EXCEPT ![e] = [es[e] EXCEPT !.status = p]]
      BY <2>1 DEF PatchStatus, IInv, Types
    <3> HIDE DEF p
    <3>3. [es[e] EXCEPT !.status = p] \in ESType BY <3>1 DEF IInv, Types, ESType
    <3> QED BY <3>2, <3>3 DEF IInv, Types
  <2>2. CASE PatchStatusFails(e) BY <2>2 DEF PatchStatusFails, IInv, Types
  <2> QED BY <2>1, <2>2 DEF Finish
<1>4. NoJob(e) \in JobType BY NoJobType
<1>5. Types' BY <1>1, <1>2, <1>3, <1>4 DEF IInv, Types
<1>6. GoneUnowned' BY <1>1 DEF IInv, OwnerInv, GoneUnowned
<1>7. OwnerInv' BY <1>1, <1>6, OwnerKept DEF IInv, Types
<1>8. FetchInv' BY <1>1, FetchKept DEF IInv, Types
<1> QED BY <1>5, <1>7, <1>8 DEF IInv

(* The informer, the timers and the passing of time.                       *)
LEMMA RuntimeStep == ASSUME IInv, NEW e \in ES, Runtime(e) PROVE IInv'
<1>1. CASE InformerSync(e)
  BY <1>1, QuietStep DEF InformerSync, outside, IInv, Types
<1>2. CASE TimerFires(e)
  BY <1>2, QuietStep DEF TimerFires, outside, IInv, Types
<1>3. CASE IntervalElapses(e)
  <2>1. \A o \in ESType : Age(o) \in ESType
    <3> SUFFICES ASSUME NEW o \in ESType PROVE Age(o) \in ESType OBVIOUS
    <3> DEFINE st == [o.status EXCEPT !.refresh = IF o.status.refresh = "recent" THEN "due"
                                                  ELSE o.status.refresh]
    <3>1. o.status \in StatusType BY DEF ESType
    <3>2. st \in StatusType BY <3>1 DEF StatusType
    <3>3. Age(o) = [o EXCEPT !.status = st] BY Zenon DEF Age
    <3> HIDE DEF st
    <3> QED BY <3>2, <3>3 DEF ESType
  <2>2. es' = [es EXCEPT ![e] = Age(es[e])] /\ cache' = [cache EXCEPT ![e] = Age(cache[e])]
    BY <1>3 DEF IntervalElapses
  <2>3. es' \in [ES -> ESType] /\ cache' \in [ES -> ESType] BY <2>1, <2>2 DEF IInv, Types
  <2> QED BY <1>3, <2>3, QuietStep DEF IntervalElapses, outside, IInv, Types
<1> QED BY <1>1, <1>2, <1>3 DEF Runtime

(* The count of outside steps stays in its bound.                          *)
LEMMA OutsideType == ASSUME Types, Outside PROVE env' \in 0..MaxEnv
BY ConstantsAssumption DEF ConstantsAssumption, Outside, Types

(* Users edit and delete ExternalSecrets; resyncs.                         *)
LEMMA UserStep ==
  ASSUME IInv, NEW e \in ES, Resync(e) \/ EditSpec(e) \/ DeleteES(e)
  PROVE  IInv'
<1>1. env' \in 0..MaxEnv BY OutsideType DEF Resync, EditSpec, DeleteES, IInv
<1>2. CASE Resync(e)
  BY <1>1, <1>2, QuietStep DEF Resync, IInv, Types
<1>3. CASE EditSpec(e)
  <2>1. PICK s \in SpecsOf[e] : es' = [es EXCEPT ![e].spec = s, ![e].rev = @ + 1]
    BY <1>3 DEF EditSpec
  <2>2. s \in SpecType BY ConstantsAssumption DEF ConstantsAssumption
  <2>3. es' = [es EXCEPT ![e] = [es[e] EXCEPT !.spec = s, !.rev = es[e].rev + 1]]
    BY <2>1 DEF IInv, Types
  <2>4. es[e] \in ESType /\ es[e].rev + 1 \in Nat BY DEF IInv, Types, ESType
  <2>5. \A n \in Nat : [es[e] EXCEPT !.spec = s, !.rev = n] \in ESType
    BY <2>2, <2>4 DEF ESType
  <2>6. es' \in [ES -> ESType] BY <2>3, <2>4, <2>5 DEF IInv, Types
  <2> QED BY <1>1, <1>3, <2>6, QuietStep DEF EditSpec, IInv, Types
<1>4. CASE DeleteES(e)
  <2>1. es' = [es EXCEPT ![e] = [es[e] EXCEPT !.exists = FALSE]]
    BY <1>4 DEF DeleteES, IInv, Types
  <2>2. [es[e] EXCEPT !.exists = FALSE] \in ESType
    <3>1. es[e] \in ESType BY DEF IInv, Types
    <3>2. \A b \in BOOLEAN : [es[e] EXCEPT !.exists = b] \in ESType BY <3>1 DEF ESType
    <3> QED BY <3>2
  <2>3. es' \in [ES -> ESType] BY <2>1, <2>2 DEF IInv, Types
  <2> QED BY <1>1, <1>4, <2>3, QuietStep DEF DeleteES, IInv, Types
<1> QED BY <1>2, <1>3, <1>4

(* Users write, and the garbage collector removes, Secrets.                *)
LEMMA SecretStep ==
  ASSUME IInv, NEW s \in Secrets, GarbageCollect(s) \/ User(s)
  PROVE  IInv'
<1> USE ConstantsAssumption DEF ConstantsAssumption
<1>1. secret[s] \in SecretType BY DEF IInv, Types
<1>2. Gone \in SecretType /\ Gone.owner = NoOwner BY GoneType DEF Gone
<1>3. ASSUME NEW v \in SecretType, ~v.exists => v.owner = NoOwner, UserWrites(s, v)
      PROVE  IInv'
  <2>1. env' \in 0..MaxEnv BY <1>3, OutsideType DEF UserWrites, IInv
  <2> QED BY <1>3, <2>1, PutStep DEF UserWrites
<1>4. ASSUME NEW o \in SecretType, NEW k \in Keys, NEW v \in Vals \cup {Absent}
      PROVE  [o EXCEPT !.data[k] = v] \in SecretType
  <2>1. [o.data EXCEPT ![k] = v] \in Payload BY DEF SecretType, Payload, Values
  <2>2. \A d \in Payload : [o EXCEPT !.data = d] \in SecretType BY DEF SecretType
  <2>3. [o EXCEPT !.data[k] = v] = [o EXCEPT !.data = [o.data EXCEPT ![k] = v]] BY Zenon
  <2> QED BY <2>1, <2>2, <2>3
<1>5. CASE GarbageCollect(s)
  <2>1. env' \in 0..MaxEnv BY <1>5 DEF GarbageCollect, outside, IInv, Types
  <2> QED BY <1>2, <1>5, <2>1, PutStep DEF GarbageCollect, outside
<1>6. CASE UserCreates(s)
  <2>1. PICK k \in Keys, v \in Vals :
          UserWrites(s, Stored(Gone, [Gone EXCEPT !.data[k] = v]))
    BY <1>6 DEF UserCreates
  <2> DEFINE w == Stored(Gone, [Gone EXCEPT !.data[k] = v])
  <2>2. w \in SecretType /\ w.exists BY <1>2, <1>4, StoredType
  <2> HIDE DEF w
  <2> QED BY <1>3, <2>1, <2>2 DEF w
<1>7. CASE UserTampers(s)
  <2>1. PICK k \in Keys, v \in Vals \cup {Absent} :
          UserWrites(s, Stored(secret[s], [secret[s] EXCEPT !.data[k] = v]))
    BY <1>7 DEF UserTampers
  <2> DEFINE w == Stored(secret[s], [secret[s] EXCEPT !.data[k] = v])
  <2>2. w \in SecretType /\ w.exists BY <1>1, <1>4, StoredType
  <2> HIDE DEF w
  <2> QED BY <1>3, <2>1, <2>2 DEF w
<1>8. CASE UserDeletes(s) BY <1>2, <1>3, <1>8 DEF UserDeletes
<1> QED BY <1>5, <1>6, <1>7, <1>8 DEF User

(* The provider changes a secret; the history notes a disappearance.       *)
LEMMA ProviderStep == ASSUME IInv, ProviderChanges PROVE IInv'
<1>1. PICK k \in Keys, v \in Vals \cup {Absent} :
        /\ provider' = [provider EXCEPT ![k] = v]
        /\ absent' = [e \in ES |-> IF v = Absent /\ pc[e] # "idle"
                                   THEN absent[e] \cup {k} ELSE absent[e]]
  BY DEF ProviderChanges
<1>2. UNCHANGED <<es, cache, secret, access, pc, job, behind, queue, timer, faults>>
      /\ env' \in 0..MaxEnv
  BY OutsideType DEF ProviderChanges, IInv
<1>3. provider' \in [Keys -> Vals \cup {Absent}] BY <1>1 DEF IInv, Types
<1>4. absent' \in [ES -> SUBSET Keys] /\ \A e \in ES : absent[e] \subseteq absent'[e]
  BY <1>1 DEF IInv, Types
<1>5. Types' BY <1>2, <1>3, <1>4 DEF IInv, Types
<1>6. GoneUnowned' BY <1>2 DEF IInv, OwnerInv, GoneUnowned
<1>7. OwnerInv' BY <1>2, <1>6, OwnerKept
<1>8. AbsentSeen' BY <1>1, <1>2, <1>4 DEF IInv, Types, FetchInv, AbsentSeen
<1>9. MissingWasAbsent'
  <2>1. \A e \in ES : JobSpec(e)' = JobSpec(e) BY <1>2 DEF JobSpec
  <2>3. ASSUME NEW e \in ES, NEW i \in DOMAIN JobSpec(e).refs, SeenMissing(e, JobSpec(e).refs[i])
        PROVE  SeenMissing(e, JobSpec(e).refs[i])'
    BY <1>4, <2>1, <2>3 DEF SeenMissing
  <2> QED BY <1>2, <2>1, <2>3 DEF IInv, FetchInv, MissingWasAbsent
<1> QED BY <1>5, <1>7, <1>8, <1>9 DEF IInv, FetchInv

(* After a restart no reconcile is in flight.                              *)
LEMMA RestartStep == ASSUME IInv, Restart PROVE IInv'
<1>1. /\ pc' = [e \in ES |-> "idle"] /\ job' = [e \in ES |-> NoJob(e)]
      /\ behind' = {} /\ timer' = {} /\ absent' = [e \in ES |-> {}]
      /\ queue' \subseteq ES /\ cache' = es /\ env' \in 0..MaxEnv
      /\ UNCHANGED <<es, secret, provider, access, faults>>
  BY OutsideType DEF Restart, IInv
<1>2. job' \in [ES -> JobType] BY <1>1, NoJobType
<1>3. Types' BY <1>1, <1>2 DEF IInv, Types
<1>4. OwnerInv' BY <1>1 DEF IInv, OwnerInv, GoneUnowned, Snapshot, OwnerChecked, FoundToMerge
<1>5. FetchInv' BY <1>1 DEF FetchInv, AbsentSeen, MissingWasAbsent
<1> QED BY <1>3, <1>4, <1>5 DEF IInv

(* Every step preserves the inductive invariant.                           *)
LEMMA StepInv == ASSUME IInv, [Next]_vars PROVE IInv'
<1>1. CASE UNCHANGED vars BY <1>1, QuietStep DEF vars, IInv, Types
<1>2. ASSUME NEW e \in ES, Reconcile(e) PROVE IInv'
  BY <1>2, BeginStep, FetchStep, DeleteStep, ApplyStep, WriteStep, FinishStep
     DEF Reconcile, InFlight
<1>3. CASE AccessChanges
  <2>1. access' \in {"ok", "failing", "foreign"} /\ env' \in 0..MaxEnv
    BY <1>3, ConstantsAssumption, OutsideType DEF ConstantsAssumption, AccessChanges, IInv
  <2> QED BY <1>3, <2>1, QuietStep DEF AccessChanges, IInv, Types
<1> QED BY <1>1, <1>2, <1>3, RuntimeStep, UserStep, SecretStep, ProviderStep, RestartStep DEF Next

-----------------------------------------------------------------------------
(* The inductive invariant holds in every reachable state.                 *)
THEOREM Invariance == Spec => []IInv
<1>1. Init => IInv BY InitInv
<1>2. IInv /\ [Next]_vars => IInv' BY StepInv
<1> QED BY <1>1, <1>2, PTL DEF Spec

(* Types of the ExternalSecret controller's variables, and that a          *)
(* reconcile that has returned holds no copy of a Secret and one that      *)
(* merges has found the Secret.                                            *)
THEOREM TypeCorrect == Spec => []TypeOK
<1>1. IInv => TypeOK BY DEF IInv, OwnerInv, FoundToMerge, TypeOK
<1> QED BY <1>1, Invariance, PTL

(* Reconcile's empty-data branch with deletionPolicy=Delete: whatever      *)
(* outages and changes happen between the fetches of its refs, it is       *)
(* reached only if each remote secret it gets, and all or at least one of  *)
(* those each find matches, was absent at some moment of this reconcile.   *)
THEOREM DeletionsAreJustified == Spec => []DeleteJustified
<1>1. ASSUME IInv PROVE DeleteJustified
  <2> SUFFICES ASSUME NEW e \in ES, DeletesTarget(e), NEW i \in DOMAIN JobSpec(e).refs
               PROVE  SeenMissing(e, JobSpec(e).refs[i])
    BY DEF DeleteJustified
  <2>1. pc[e] = "fetch" /\ job[e].next > Len(JobSpec(e).refs) /\ job[e].data = Empty
    BY DEF DeletesTarget, NoData, Fetched
  <2>2. JobSpec(e).refs \in Seq(RefType) /\ job[e].next \in Nat
    BY <1>1 DEF JobSpec, IInv, Types, JobType, ESType, SpecType
  <2>3. i \in 1..Len(JobSpec(e).refs) /\ JobSpec(e).refs[i] \in RefType BY <2>2
  <2>4. i < job[e].next BY <2>1, <2>2, <2>3
  <2>5. \A k \in JobSpec(e).refs[i].keys : job[e].data[k] = Absent
    BY <2>1, <2>3 DEF RefType, Empty
  <2> QED BY <1>1, <2>1, <2>4, <2>5 DEF IInv, FetchInv, MissingWasAbsent
<1> QED BY <1>1, Invariance, PTL

(* A step takes a reconcile from its write to its end only if it is that   *)
(* reconcile's write.                                                      *)
LEMMA OnlyItsWriteEnds ==
  ASSUME IInv, Next, NEW e \in ES, pc[e] = "write", pc'[e] = "finish"
  PROVE  Write(e)
<1>1. ASSUME NEW x \in ES, Reconcile(x), x # e PROVE FALSE
  <2>1. pc' = pc \/ \E l \in Labels : pc' = [pc EXCEPT ![x] = l]
    BY <1>1 DEF Labels, Reconcile, Begin, SkipReconcile, SkipRefresh, StopReconciling, StartFetch,
                InFlight, Fetch, FetchRef, SkipMissing, FetchFails, Collect,
                Delete, DeleteRefused, DeleteSecret, DeleteErrs, RetainSecret,
                Apply, SkipCreation, GetTarget, TargetUpToDate, TargetRefused,
                Write, CreateOrUpdate, patchSecret, WriteFails, Replied,
                Finish, PatchStatus, PatchStatusFails, Returns, Ends, Fail, Succeed
  <2>2. pc'[e] = pc[e] BY <1>1, <2>1 DEF IInv, Types
  <2> QED BY <2>2
<1>2. CASE Reconcile(e)
  <2>1. ~Begin(e) /\ ~Fetch(e) /\ ~Delete(e) /\ ~Apply(e) /\ ~Finish(e)
    BY DEF Begin, SkipReconcile, SkipRefresh, StopReconciling, StartFetch, Reconciles, Dequeued,
           Fetch, FetchRef, SkipMissing, FetchFails, HasNext,
           Delete, DeleteRefused, DeleteSecret, DeleteErrs, RetainSecret, DeletesTarget,
           NoData, Fetched, Apply, SkipCreation, GetTarget, TargetUpToDate, TargetRefused,
           Applies, Finish, PatchStatus, PatchStatusFails
  <2> QED BY <1>2, <2>1 DEF Reconcile, InFlight
<1>3. ASSUME NEW x \in ES, Runtime(x) \/ Resync(x) \/ EditSpec(x) \/ DeleteES(x) PROVE FALSE
  <2>1. pc' = pc
    BY <1>3 DEF Runtime, InformerSync, TimerFires, IntervalElapses, Resync, EditSpec, DeleteES
  <2> QED BY <2>1
<1>4. ASSUME NEW s \in Secrets, GarbageCollect(s) \/ User(s) PROVE FALSE
  <2>1. pc' = pc
    BY <1>4 DEF GarbageCollect, User, UserCreates, UserTampers, UserDeletes, UserWrites
  <2> QED BY <2>1
<1>5. ~ProviderChanges /\ ~AccessChanges BY DEF ProviderChanges, AccessChanges
<1>6. ~Restart BY DEF Restart
<1> QED BY <1>1, <1>2, <1>3, <1>4, <1>5, <1>6 DEF Next

(* CreateOrUpdate with SetControllerReference: a reconcile with            *)
(* creationPolicy=Owner changes only Secrets that are free or its own at   *)
(* the moment of the write.                                                *)
THEOREM OwnersAreRespected == Spec => OwnerRespected
<1> DEFINE A == \A e \in ES :
                  (pc[e] = "write" /\ pc'[e] = "finish" /\ JobSpec(e).creation = "Owner"
                     /\ secret' # secret)
                  => secret[Target[e]].owner \in {e, NoOwner}
<1>1. ASSUME IInv, [Next]_vars PROVE [A]_vars
  <2> SUFFICES ASSUME Next, NEW e \in ES, pc[e] = "write", pc'[e] = "finish",
                      JobSpec(e).creation = "Owner", secret' # secret
               PROVE  secret[Target[e]].owner \in {e, NoOwner}
    BY <1>1
  <2>1. Write(e) BY <1>1, OnlyItsWriteEnds
  <2>2. CreateOrUpdate(e) BY <2>1 DEF Write, WriteFails, patchSecret, Writing
  <2>3. ~Overtaken(e) BY <2>2 DEF CreateOrUpdate
  <2>4. CASE job[e].got.exists
    <3>1. e \notin behind BY <2>3, <2>4 DEF Overtaken
    <3> QED BY <1>1, <3>1 DEF IInv, OwnerInv, Snapshot, OwnerChecked
  <2>5. CASE ~job[e].got.exists
    <3>1. ~secret[Target[e]].exists BY <2>3, <2>5 DEF Overtaken
    <3>2. Target[e] \in Secrets BY ConstantsAssumption DEF ConstantsAssumption
    <3> QED BY <1>1, <3>1, <3>2 DEF IInv, OwnerInv, GoneUnowned
  <2> QED BY <2>4, <2>5
<1>2. OwnerRespected <=> [][A]_vars BY DEF OwnerRespected
<1> HIDE DEF A
<1> QED BY <1>1, <1>2, Invariance, PTL DEF Spec

-----------------------------------------------------------------------------
(* SyncedRevisionApplied: what keeps AppliedTo.                            *)

(* AppliedTo says nothing of a Secret that x does not control.             *)
LEMMA OthersApplied ==
  ASSUME NEW x \in ES, NEW spec, NEW s, s.owner # x
  PROVE  AppliedTo(s, x, spec)
BY DEF AppliedTo

(* Nor of one without data hash.                                           *)
LEMMA GoneApplied ==
  ASSUME NEW x \in ES, NEW spec
  PROVE  AppliedTo(Gone, x, spec)
BY DEF AppliedTo, Gone

(* Nor with another creationPolicy, nor when others disturb the Secret.    *)
LEMMA VacuouslyApplied ==
  ASSUME NEW x \in ES, NEW spec, NEW s, spec.creation # "Owner" \/ ~Undisturbed(x)
  PROVE  AppliedTo(s, x, spec)
BY DEF AppliedTo

(* It looks at owner and hash only.                                        *)
LEMMA SameApplied ==
  ASSUME NEW x \in ES, NEW spec, NEW s, NEW t, s.owner = t.owner, s.hash = t.hash,
         AppliedTo(s, x, spec)
  PROVE  AppliedTo(t, x, spec)
BY DEF AppliedTo

(* What mutationFunc leaves was applied from the job's spec.               *)
LEMMA MutationApplied ==
  ASSUME Types, NEW e \in ES, NEW s \in SecretType, FetchedKeys, pc[e] \in {"fetch", "write"},
         NEW t, t.hash = applyTemplate(e, s.data)
  PROVE  AppliedTo(t, e, JobSpec(e))
<1>1. CASE JobSpec(e).tpl = {}
  <2>1. t.hash = job[e].data BY <1>1 DEF applyTemplate
  <2>2. \A k \in Keys : job[e].data[k] # Absent => k \in RefKeys(JobSpec(e))
    BY DEF FetchedKeys
  <2> QED BY <2>1, <2>2 DEF AppliedTo
<1>2. CASE JobSpec(e).tpl # {} BY <1>2 DEF AppliedTo
<1> QED BY <1>1, <1>2

(* The fields of a mutated Secret that AppliedTo looks at.                 *)
LEMMA MutationFields ==
  ASSUME NEW e \in ES, NEW s \in SecretType
  PROVE  /\ mutationFunc(e, s).hash = applyTemplate(e, s.data)
         /\ mutationFunc(e, s).owner = IF JobSpec(e).creation = "Owner" THEN e ELSE s.owner
BY DEF mutationFunc, SecretType

(* The fields of what CreateOrUpdate stores.                               *)
LEMMA WrittenFields ==
  ASSUME Types, NEW e \in ES
  PROVE  /\ \E s \in SecretType : Written(e).hash = applyTemplate(e, s.data)
         /\ JobSpec(e).creation = "Owner" => Written(e).owner = e
<1> DEFINE got == job[e].got
           new == [mutationFunc(e, Gone) EXCEPT !.immutable = JobSpec(e).immutable, !.creator = e]
<1>1. got \in SecretType BY DEF Types, JobType
<1>2. ASSUME NEW s \in SecretType, NEW t \in SecretType
      PROVE  Stored(s, t).hash = t.hash /\ Stored(s, t).owner = t.owner
  BY DEF Stored, SecretType
<1>3. Written(e) = (IF got.exists THEN Stored(got, mutationFunc(e, got)) ELSE Stored(Gone, new))
  BY Zenon DEF Written
<1>4. mutationFunc(e, got) \in SecretType /\ mutationFunc(e, Gone) \in SecretType
  BY <1>1, GoneType, MutationType
<1>5. JobSpec(e).immutable \in BOOLEAN BY DEF Types, JobType, ESType, SpecType, JobSpec
<1>6. /\ new \in SecretType /\ new.hash = mutationFunc(e, Gone).hash
      /\ new.owner = mutationFunc(e, Gone).owner
  BY <1>4, <1>5 DEF SecretType
<1>7. mutationFunc(e, Gone).hash = applyTemplate(e, Gone.data)
      /\ (JobSpec(e).creation = "Owner" => mutationFunc(e, Gone).owner = e)
  BY GoneType, MutationFields
<1>8. mutationFunc(e, got).hash = applyTemplate(e, got.data)
      /\ (JobSpec(e).creation = "Owner" => mutationFunc(e, got).owner = e)
  BY <1>1, MutationFields
<1> HIDE DEF got, new
<1>9. CASE got.exists
  <2>1. Written(e).hash = mutationFunc(e, got).hash /\ Written(e).owner = mutationFunc(e, got).owner
    BY <1>1, <1>2, <1>3, <1>4, <1>9
  <2> QED BY <1>1, <1>8, <2>1
<1>10. CASE ~got.exists
  <2>1. Written(e).hash = new.hash /\ Written(e).owner = new.owner
    BY <1>2, <1>3, <1>6, <1>10, GoneType
  <2> QED BY <1>6, <1>7, <2>1, GoneType
<1> QED BY <1>9, <1>10

-----------------------------------------------------------------------------
(* SyncedRevisionApplied: one lemma per kind of step.                      *)

(* Every ExternalSecret's copies stay in order if nobody's spec, revision  *)
(* or synced revision changes and no reconcile starts.                     *)
LEMMA OrderKept ==
  ASSUME OrderInv,
         \A x \in ES : /\ es'[x].spec = es[x].spec /\ es'[x].rev = es[x].rev
                       /\ es'[x].status.synced = es[x].status.synced
                       /\ cache'[x].spec = cache[x].spec /\ cache'[x].rev = cache[x].rev,
         \A x \in ES : /\ JobSpec(x)' \in SpecsOf[x]
                       /\ pc'[x] # "idle" => pc[x] # "idle" /\ job'[x].es = job[x].es
  PROVE  OrderInv'
<1> USE DEF OrderInv
<1>1. SpecsKnown' BY DEF SpecsKnown
<1>2. CacheOrdered' BY DEF CacheOrdered
<1>3. JobOrdered' BY DEF JobOrdered, JobSpec
<1> QED BY <1>1, <1>2, <1>3

(* What is claimed stays applied if the Secrets of all reconciles keep     *)
(* what was applied to them.                                               *)
LEMMA ClaimsKept ==
  ASSUME SInv,
         \A x \in ES : /\ es'[x].spec = es[x].spec /\ es'[x].rev = es[x].rev
                       /\ es'[x].status.synced = es[x].status.synced,
         \A x \in ES : \A spec : AppliedTo(secret[Target[x]], x, spec)
                                 => AppliedTo(secret'[Target[x]], x, spec)
  PROVE  SyncedApplied'
<1> SUFFICES ASSUME NEW x \in ES, es'[x].status.synced = es'[x].rev
             PROVE  AppliedTo(secret'[Target[x]], x, es'[x].spec)
  BY DEF SyncedApplied
<1>1. AppliedTo(secret[Target[x]], x, es[x].spec) BY DEF SInv, SyncedApplied
<1> QED BY <1>1

(* A step that changes Secrets only in ways that keep what was applied,    *)
(* and no ExternalSecret, copy or reconcile.                               *)
LEMMA StillStep ==
  ASSUME SInv, UNCHANGED <<pc, job>>,
         \A x \in ES : /\ es'[x].spec = es[x].spec /\ es'[x].rev = es[x].rev
                       /\ es'[x].status.synced = es[x].status.synced
                       /\ cache'[x].spec = cache[x].spec /\ cache'[x].rev = cache[x].rev,
         \A x \in ES : \A spec : AppliedTo(secret[Target[x]], x, spec)
                                 => AppliedTo(secret'[Target[x]], x, spec)
  PROVE  SInv'
<1>1. OrderInv'
  <2>1. \A x \in ES : JobSpec(x)' = JobSpec(x) BY DEF JobSpec
  <2> QED BY <2>1, OrderKept DEF SInv, OrderInv, SpecsKnown
<1>2. FetchedKeys' BY DEF SInv, FetchedKeys, JobSpec
<1>3. Pending'
  <2> SUFFICES ASSUME NEW x \in ES, pc'[x] = "finish",
                      job'[x].new.synced # job'[x].es.status.synced
               PROVE  /\ job'[x].new.synced = job'[x].es.rev
                      /\ AppliedTo(secret'[Target[x]], x, JobSpec(x)')
    BY DEF Pending
  <2>1. JobSpec(x)' = JobSpec(x) BY DEF JobSpec
  <2> QED BY <2>1 DEF SInv, Pending
<1>4. SyncedApplied' BY ClaimsKept
<1> QED BY <1>1, <1>2, <1>3, <1>4 DEF SInv

(* A reconcile ends: its writes keep what was applied for the others, and  *)
(* what it is about to claim has been applied.                             *)
LEMMA EndsClaims ==
  ASSUME IInv, SInv, NEW e \in ES, NEW new, NEW r, Ends(e, new, r),
         pc[e] \in {"fetch", "write"}, UNCHANGED <<es, cache>>,
         \A x \in ES \ {e} : \A spec \in SpecsOf[x] : AppliedTo(secret[Target[x]], x, spec)
                                       => AppliedTo(secret'[Target[x]], x, spec),
         \/ secret'[Target[e]] = secret[Target[e]]
         \/ AppliedTo(secret'[Target[e]], e, JobSpec(e)),
         \/ new.synced = job[e].es.status.synced
         \/ new.synced = job[e].es.rev /\ AppliedTo(secret'[Target[e]], e, JobSpec(e))
  PROVE  SInv'
<1>1. /\ pc' = [pc EXCEPT ![e] = "finish"]
      /\ job' = [job EXCEPT ![e] = [job[e] EXCEPT !.new = new, !.result = r]]
  BY DEF Ends, IInv, Types
<1>2. pc'[e] = "finish" /\ job'[e].es = job[e].es /\ job'[e].new = new
  BY <1>1 DEF IInv, Types, JobType
<1>3. \A x \in ES : x # e => pc'[x] = pc[x] /\ job'[x] = job[x]
  BY <1>1 DEF IInv, Types
<1>4. \A x \in ES : JobSpec(x)' = JobSpec(x) BY <1>2, <1>3 DEF JobSpec
<1>5. OrderInv'
  <2>1. \A x \in ES : job'[x].es = job[x].es BY <1>2, <1>3
  <2>2. \A x \in ES : pc'[x] # "idle" => pc[x] # "idle" BY <1>3
  <2>3. \A x \in ES : JobSpec(x)' \in SpecsOf[x] BY <1>4 DEF SInv, OrderInv, SpecsKnown
  <2> QED BY <2>1, <2>2, <2>3, OrderKept DEF SInv
<1>6. FetchedKeys'
  <2> SUFFICES ASSUME NEW x \in ES, pc'[x] \in {"fetch", "write"}, NEW k \in Keys,
                      job'[x].data[k] # Absent
               PROVE  k \in RefKeys(JobSpec(x)')
    BY DEF FetchedKeys
  <2>1. x # e BY <1>2
  <2> QED BY <1>3, <1>4, <2>1 DEF SInv, FetchedKeys
<1>7. \A x \in ES : JobSpec(x) \in SpecsOf[x] /\ es[x].spec \in SpecsOf[x]
  BY DEF SInv, OrderInv, SpecsKnown
<1>8. Pending'
  <2> SUFFICES ASSUME NEW x \in ES, pc'[x] = "finish",
                      job'[x].new.synced # job'[x].es.status.synced
               PROVE  /\ job'[x].new.synced = job'[x].es.rev
                      /\ AppliedTo(secret'[Target[x]], x, JobSpec(x)')
    BY DEF Pending
  <2>1. CASE x = e BY <1>2, <1>4, <2>1
  <2>2. CASE x # e
    <3>1. /\ job[x].new.synced = job[x].es.rev
          /\ AppliedTo(secret[Target[x]], x, JobSpec(x))
      BY <1>3, <2>2 DEF SInv, Pending
    <3> QED BY <1>3, <1>4, <1>7, <2>2, <3>1
  <2> QED BY <2>1, <2>2
<1>9. SyncedApplied'
  <2> SUFFICES ASSUME NEW x \in ES, es[x].status.synced = es[x].rev
               PROVE  AppliedTo(secret'[Target[x]], x, es[x].spec)
    BY DEF SyncedApplied
  <2>1. AppliedTo(secret[Target[x]], x, es[x].spec) BY DEF SInv, SyncedApplied
  <2>2. CASE x # e BY <1>7, <2>1, <2>2
  <2>3. CASE x = e
    <3>1. /\ es[e].status.synced <= job[e].es.rev /\ job[e].es.rev <= cache[e].rev
          /\ cache[e].rev <= es[e].rev
      BY DEF SInv, OrderInv, JobOrdered, CacheOrdered
    <3>2. /\ es[e].rev \in Nat /\ job[e].es.rev \in Nat /\ cache[e].rev \in Nat
      BY DEF IInv, Types, ESType, JobType
    <3>3. job[e].es.rev = es[e].rev BY <2>3, <3>1, <3>2
    <3>4. JobSpec(e) = es[e].spec BY <3>3 DEF SInv, OrderInv, JobOrdered
    <3> QED BY <2>1, <2>3, <3>4
  <2> QED BY <2>2, <2>3
<1> QED BY <1>5, <1>6, <1>8, <1>9 DEF SInv

(* A reconcile that ends without writing a Secret and claims no new revision. *)
LEMMA EndsQuietly ==
  ASSUME IInv, SInv, NEW e \in ES, NEW new, NEW r, Ends(e, new, r),
         pc[e] \in {"fetch", "write"}, UNCHANGED <<es, cache, secret>>,
         new.synced = job[e].es.status.synced
  PROVE  SInv'
BY EndsClaims

(* An error or a deletion leaves the synced revision alone.                *)
LEMMA ReadyKeepsSynced ==
  ASSUME Types, NEW e \in ES, NEW r \in {"none", "synced", "error", "deleted"}
  PROVE  WithReady(e, r).synced = job[e].es.status.synced
<1>1. job[e].es.status \in StatusType BY StatusTypes
<1> QED BY <1>1 DEF WithReady, StatusType

(* A reconcile returns early or starts from the informer's copy.           *)
LEMMA BeginClaims == ASSUME IInv, SInv, NEW e \in ES, Begin(e) PROVE SInv'
<1>1. CASE SkipReconcile(e) \/ SkipRefresh(e) \/ StopReconciling(e)
  <2>1. UNCHANGED <<es, cache, secret, pc, job>>
    BY <1>1 DEF SkipReconcile, SkipRefresh, StopReconciling
  <2> QED BY <2>1, StillStep
<1>2. CASE StartFetch(e)
  <2> DEFINE j == [NoJob(e) EXCEPT !.es = cache[e]]
  <2>1. /\ pc' = [pc EXCEPT ![e] = "fetch"] /\ job' = [job EXCEPT ![e] = j]
        /\ UNCHANGED <<es, cache, secret>>
    BY <1>2 DEF StartFetch
  <2>2. j.es = cache[e] /\ j.data = Empty BY DEF NoJob
  <2> HIDE DEF j
  <2>3. pc'[e] = "fetch" /\ job'[e].es = cache[e] /\ job'[e].data = Empty
    BY <2>1, <2>2 DEF IInv, Types
  <2>4. \A x \in ES : x # e => pc'[x] = pc[x] /\ job'[x] = job[x] /\ JobSpec(x)' = JobSpec(x)
    BY <2>1 DEF IInv, Types, JobSpec
  <2>5. JobSpec(e)' = cache[e].spec BY <2>3 DEF JobSpec
  <2>6. SpecsKnown' BY <2>1, <2>4, <2>5 DEF SInv, OrderInv, SpecsKnown
  <2>7. CacheOrdered' BY <2>1 DEF SInv, OrderInv, CacheOrdered
  <2>8. JobOrdered'
    <3> SUFFICES ASSUME NEW x \in ES, pc'[x] # "idle"
                 PROVE  /\ es[x].status.synced <= job'[x].es.rev
                        /\ job'[x].es.rev <= cache[x].rev
                        /\ job'[x].es.rev = es[x].rev => JobSpec(x)' = es[x].spec
      BY <2>1 DEF JobOrdered
    <3>1. CASE x = e
      <4>1. cache[e].rev \in Nat BY DEF IInv, Types, ESType
      <4> QED BY <2>3, <2>5, <3>1, <4>1 DEF SInv, OrderInv, CacheOrdered
    <3>2. CASE x # e BY <2>4, <3>2 DEF SInv, OrderInv, JobOrdered
    <3> QED BY <3>1, <3>2
  <2>9. FetchedKeys'
    <3> SUFFICES ASSUME NEW x \in ES, pc'[x] \in {"fetch", "write"}, NEW k \in Keys,
                        job'[x].data[k] # Absent
                 PROVE  k \in RefKeys(JobSpec(x)')
      BY DEF FetchedKeys
    <3>1. x # e BY <2>3 DEF Empty
    <3> QED BY <2>4, <3>1 DEF SInv, FetchedKeys
  <2>10. Pending'
    <3> SUFFICES ASSUME NEW x \in ES, pc'[x] = "finish"
                 PROVE  \/ job'[x].new.synced = job'[x].es.status.synced
                        \/ /\ job'[x].new.synced = job'[x].es.rev
                           /\ AppliedTo(secret'[Target[x]], x, JobSpec(x)')
      BY DEF Pending
    <3>1. x # e BY <2>3
    <3>2. pc[x] = "finish" /\ job'[x] = job[x] /\ JobSpec(x)' = JobSpec(x) BY <2>4, <3>1
    <3> QED BY <2>1, <3>2 DEF SInv, Pending
  <2>11. SyncedApplied' BY <2>1 DEF SInv, SyncedApplied
  <2> QED BY <2>6, <2>7, <2>8, <2>9, <2>10, <2>11 DEF SInv, OrderInv
<1> QED BY <1>1, <1>2 DEF Begin

(* The work of one reconcile changes, with nothing to claim yet.           *)
LEMMA WorkStep ==
  ASSUME IInv, SInv, NEW e \in ES, UNCHANGED <<es, cache, secret>>,
         pc[e] \in {"fetch", "write"}, pc'[e] \in {"fetch", "write"}, job'[e].es = job[e].es,
         \A k \in Keys : job'[e].data[k] # Absent => k \in RefKeys(JobSpec(e)),
         \A x \in ES : x # e => pc'[x] = pc[x] /\ job'[x] = job[x]
  PROVE  SInv'
<1>1. \A x \in ES : JobSpec(x)' = JobSpec(x) /\ job'[x].es = job[x].es BY DEF JobSpec
<1>2. OrderInv'
  <2>1. \A x \in ES : pc'[x] # "idle" => pc[x] # "idle" OBVIOUS
  <2>2. \A x \in ES : JobSpec(x)' \in SpecsOf[x] BY <1>1 DEF SInv, OrderInv, SpecsKnown
  <2> QED BY <1>1, <2>1, <2>2, OrderKept DEF SInv
<1>3. FetchedKeys'
  <2> SUFFICES ASSUME NEW x \in ES, pc'[x] \in {"fetch", "write"}, NEW k \in Keys,
                      job'[x].data[k] # Absent
               PROVE  k \in RefKeys(JobSpec(x)')
    BY DEF FetchedKeys
  <2>1. CASE x = e BY <1>1, <2>1
  <2>2. CASE x # e BY <1>1, <2>2 DEF SInv, FetchedKeys
  <2> QED BY <2>1, <2>2
<1>4. Pending'
  <2> SUFFICES ASSUME NEW x \in ES, pc'[x] = "finish"
               PROVE  \/ job'[x].new.synced = job'[x].es.status.synced
                      \/ /\ job'[x].new.synced = job'[x].es.rev
                         /\ AppliedTo(secret'[Target[x]], x, JobSpec(x)')
    BY DEF Pending
  <2>1. x # e OBVIOUS
  <2>2. pc[x] = "finish" /\ job'[x] = job[x] /\ JobSpec(x)' = JobSpec(x) BY <1>1, <2>1
  <2> QED BY <2>2 DEF SInv, Pending
<1>5. SyncedApplied' BY DEF SInv, SyncedApplied
<1> QED BY <1>2, <1>3, <1>4, <1>5 DEF SInv

(* The ref that is asked for next is one of the spec's.                    *)
LEMMA RefOfSpec ==
  ASSUME Types, NEW e \in ES, HasNext(e)
  PROVE  Ref(e).keys \subseteq RefKeys(JobSpec(e))
<1>1. JobSpec(e).refs \in Seq(RefType) /\ job[e].next \in Nat \ {0}
  BY DEF JobSpec, Types, JobType, ESType, SpecType
<1>2. job[e].next \in DOMAIN JobSpec(e).refs BY <1>1 DEF HasNext
<1>3. Ref(e) \in RefType BY <1>1, <1>2 DEF Ref
<1> QED BY <1>2, <1>3 DEF Ref, RefKeys, RefType

(* A fetched value goes to the key of its ref.                             *)
LEMMA FetchClaims == ASSUME IInv, SInv, NEW e \in ES, Fetch(e) PROVE SInv'
<1>0. HasNext(e) /\ pc[e] = "fetch" BY DEF Fetch, FetchRef, SkipMissing, FetchFails, HasNext
<1>1. job[e].data \in Payload BY DEF IInv, Types, JobType
<1>2. \A k \in Keys : job[e].data[k] # Absent => k \in RefKeys(JobSpec(e))
  BY <1>0 DEF SInv, FetchedKeys
<1>3. Ref(e).keys \subseteq RefKeys(JobSpec(e))
  BY <1>0, RefOfSpec DEF IInv
<1>4. ASSUME NEW d, Collect(e, d),
             \A k \in Keys : d[k] # Absent => k \in RefKeys(JobSpec(e))
      PROVE  SInv'
  <2>1. /\ job' = [job EXCEPT ![e] = [job[e] EXCEPT !.data = d, !.next = job[e].next + 1]]
        /\ UNCHANGED <<es, cache, secret, pc>>
    BY <1>4 DEF Collect, IInv, Types
  <2>2. job'[e].es = job[e].es /\ job'[e].data = d BY <2>1 DEF IInv, Types, JobType
  <2>3. \A x \in ES : x # e => pc'[x] = pc[x] /\ job'[x] = job[x] BY <2>1 DEF IInv, Types
  <2> QED BY <1>0, <1>4, <2>1, <2>2, <2>3, WorkStep
<1>5. ASSUME NEW new, Collect(e, Merged(e, new)) PROVE SInv'
  <2> DEFINE d == Merged(e, new)
  <2>1. \A k \in Keys : d[k] # Absent => k \in RefKeys(JobSpec(e))
    BY <1>2, <1>3 DEF Merged
  <2>2. Collect(e, d) BY <1>5
  <2> HIDE DEF d
  <2> QED BY <1>4, <2>1, <2>2
<1>6. ASSUME Collect(e, job[e].data) PROVE SInv' BY <1>2, <1>4, <1>6
<1>7. CASE FetchRef(e) BY <1>5, <1>6, <1>7 DEF FetchRef
<1>8. CASE SkipMissing(e) BY <1>6, <1>8 DEF SkipMissing
<1>9. CASE FetchFails(e)
  <2>1. Ends(e, WithReady(e, "error"), "error") /\ UNCHANGED <<es, cache, secret>>
    BY <1>9 DEF FetchFails, Fail
  <2>2. WithReady(e, "error").synced = job[e].es.status.synced BY ReadyKeepsSynced DEF IInv
  <2> QED BY <1>0, <2>1, <2>2, EndsQuietly
<1> QED BY <1>7, <1>8, <1>9 DEF Fetch

(* No data: the Secret is deleted or left alone, and no revision claimed.  *)
LEMMA DeleteClaims == ASSUME IInv, SInv, NEW e \in ES, Delete(e) PROVE SInv'
<1>1. pc[e] = "fetch"
  BY DEF Delete, DeleteRefused, DeleteSecret, DeleteErrs, RetainSecret, DeletesTarget,
         NoData, Fetched
<1>2. /\ WithReady(e, "error").synced = job[e].es.status.synced
      /\ WithReady(e, "deleted").synced = job[e].es.status.synced
  BY ReadyKeepsSynced DEF IInv
<1>3. CASE DeleteRefused(e)
  BY <1>1, <1>2, <1>3, EndsQuietly DEF DeleteRefused, Fail
<1>4. CASE DeleteSecret(e)
  <2>1. secret' = [secret EXCEPT ![Target[e]] = Gone] /\ UNCHANGED <<es, cache>>
    BY <1>4 DEF DeleteSecret, PutByController, Put
  <2>2. Target \in [ES -> Secrets] BY ConstantsAssumption DEF ConstantsAssumption
  <2>3. \A x \in ES : secret'[Target[x]] = secret[Target[x]] \/ secret'[Target[x]] = Gone
    BY <2>1, <2>2 DEF IInv, Types
  <2>4. \A x \in ES : \A spec \in SpecsOf[x] : AppliedTo(secret[Target[x]], x, spec)
                                 => AppliedTo(secret'[Target[x]], x, spec)
    BY <2>3, GoneApplied
  <2>5. secret'[Target[e]] = secret[Target[e]] \/ AppliedTo(secret'[Target[e]], e, JobSpec(e))
    BY <2>3, GoneApplied
  <2>6. \E r \in {"after", "error"} : Ends(e, WithReady(e, "deleted"), r)
    BY <1>4 DEF DeleteSecret
  <2> QED BY <1>1, <1>2, <2>1, <2>4, <2>5, <2>6, EndsClaims
<1>5. CASE DeleteErrs(e)
  BY <1>1, <1>2, <1>5, EndsQuietly DEF DeleteErrs
<1>6. CASE RetainSecret(e)
  BY <1>1, <1>6, EndsQuietly DEF RetainSecret
<1> QED BY <1>3, <1>4, <1>5, <1>6 DEF Delete

(* The target is read; if it is claimed up to date it was applied.         *)
LEMMA ApplyClaims == ASSUME IInv, SInv, NEW e \in ES, Apply(e) PROVE SInv'
<1> DEFINE new == [ready |-> "synced", synced |-> job[e].es.rev, refresh |-> "now"]
<1>1. pc[e] = "fetch"
  BY DEF Apply, SkipCreation, GetTarget, TargetUpToDate, TargetRefused, Applies, Fetched
<1>2. new.synced = job[e].es.rev OBVIOUS
<1> HIDE DEF new
<1>3. ASSUME Ends(e, new, "after"), UNCHANGED <<es, cache, secret>>,
             AppliedTo(secret[Target[e]], e, JobSpec(e))
      PROVE  SInv'
  BY <1>1, <1>2, <1>3, EndsClaims
<1>4. CASE SkipCreation(e)
  <2>1. AppliedTo(secret[Target[e]], e, JobSpec(e))
    BY <1>4, VacuouslyApplied DEF SkipCreation
  <2> QED BY <1>3, <1>4, <2>1 DEF SkipCreation, Succeed, new
<1>5. CASE TargetUpToDate(e)
  <2> DEFINE s == secret[Target[e]]
  <2>1. s \in SecretType BY ConstantsAssumption DEF ConstantsAssumption, IInv, Types
  <2>2. mutationFunc(e, s) = s BY <1>5 DEF TargetUpToDate
  <2> HIDE DEF s
  <2>3. s.hash = applyTemplate(e, s.data) BY <2>1, <2>2, MutationFields
  <2>4. AppliedTo(s, e, JobSpec(e)) BY <1>1, <2>1, <2>3, MutationApplied DEF IInv, SInv
  <2>5. Ends(e, new, "after") /\ UNCHANGED <<es, cache, secret>>
    BY <1>5 DEF TargetUpToDate, Succeed, new
  <2> QED BY <1>3, <2>4, <2>5 DEF s
<1>6. CASE TargetRefused(e)
  <2>1. WithReady(e, "error").synced = job[e].es.status.synced BY ReadyKeepsSynced DEF IInv
  <2> QED BY <1>1, <1>6, <2>1, EndsQuietly DEF TargetRefused, Fail
<1>7. CASE GetTarget(e)
  <2>1. /\ pc' = [pc EXCEPT ![e] = "write"]
        /\ job' = [job EXCEPT ![e] = [job[e] EXCEPT !.got = secret[Target[e]]]]
        /\ UNCHANGED <<es, cache, secret>>
    BY <1>7 DEF GetTarget, IInv, Types
  <2>2. pc'[e] = "write" /\ job'[e].es = job[e].es /\ job'[e].data = job[e].data
    BY <2>1 DEF IInv, Types, JobType
  <2>3. \A x \in ES : x # e => pc'[x] = pc[x] /\ job'[x] = job[x] BY <2>1 DEF IInv, Types
  <2>4. \A k \in Keys : job'[e].data[k] # Absent => k \in RefKeys(JobSpec(e))
    BY <1>1, <2>2 DEF SInv, FetchedKeys
  <2> QED BY <1>1, <2>1, <2>2, <2>3, <2>4, WorkStep
<1> QED BY <1>4, <1>5, <1>6, <1>7 DEF Apply

(* A write by e: the Secret is e's own afterwards, or e is one of those    *)
(* that disturb the others.                                                *)
LEMMA PutClaims ==
  ASSUME IInv, SInv, NEW e \in ES, NEW v, pc[e] = "write", UNCHANGED <<es, cache>>,
         PutByController(Target[e], v), Replied(e),
         JobSpec(e).creation # "None", JobSpec(e).creation = "Owner" => v.owner = e,
         AppliedTo(v, e, JobSpec(e))
  PROVE  SInv'
<1>1. secret' = [secret EXCEPT ![Target[e]] = v] BY DEF PutByController, Put
<1>2. Target \in [ES -> Secrets] BY ConstantsAssumption DEF ConstantsAssumption
<1>3. \A x \in ES : secret'[Target[x]] = IF Target[x] = Target[e] THEN v ELSE secret[Target[x]]
  BY <1>1, <1>2 DEF IInv, Types
<1>4. JobSpec(e) \in SpecsOf[e] BY DEF SInv, OrderInv, SpecsKnown
<1>5. ASSUME NEW x \in ES \ {e}, NEW spec \in SpecsOf[x], AppliedTo(secret[Target[x]], x, spec)
      PROVE  AppliedTo(secret'[Target[x]], x, spec)
  <2>1. CASE Target[x] # Target[e] BY <1>3, <1>5, <2>1
  <2>2. CASE Target[x] = Target[e] /\ JobSpec(e).creation = "Owner"
    <3>1. secret'[Target[x]] = v /\ v.owner # x BY <1>3, <2>2
    <3> QED BY <3>1, OthersApplied
  <2>3. CASE Target[x] = Target[e] /\ JobSpec(e).creation # "Owner"
    <3>1. ~Undisturbed(x) BY <1>4, <2>3 DEF Undisturbed
    <3> QED BY <3>1, VacuouslyApplied
  <2> QED BY <2>1, <2>2, <2>3
<1>6. AppliedTo(secret'[Target[e]], e, JobSpec(e)) BY <1>3
<1>7. CASE Succeed(e)
  <2> DEFINE new == [ready |-> "synced", synced |-> job[e].es.rev, refresh |-> "now"]
  <2>1. Ends(e, new, "after") /\ new.synced = job[e].es.rev BY <1>7 DEF Succeed
  <2> HIDE DEF new
  <2> QED BY <1>5, <1>6, <2>1, EndsClaims
<1>8. CASE Fail(e)
  <2>1. WithReady(e, "error").synced = job[e].es.status.synced BY ReadyKeepsSynced DEF IInv
  <2>2. Ends(e, WithReady(e, "error"), "error") BY <1>8 DEF Fail
  <2> QED BY <1>5, <1>6, <2>1, <2>2, EndsClaims
<1> QED BY <1>7, <1>8 DEF Replied

(* The write of the target Secret.                                         *)
LEMMA WriteClaims == ASSUME IInv, SInv, NEW e \in ES, Write(e) PROVE SInv'
<1>1. pc[e] = "write" BY DEF Write, CreateOrUpdate, patchSecret, WriteFails, Writing
<1>2. CASE CreateOrUpdate(e)
  <2>1. PICK s \in SecretType : Written(e).hash = applyTemplate(e, s.data)
    BY WrittenFields DEF IInv
  <2>2. JobSpec(e).creation = "Owner" => Written(e).owner = e BY WrittenFields DEF IInv
  <2>3. AppliedTo(Written(e), e, JobSpec(e))
    BY <1>1, <2>1, MutationApplied DEF IInv, SInv
  <2>4. /\ PutByController(Target[e], Written(e)) /\ Replied(e) /\ UNCHANGED <<es, cache>>
        /\ JobSpec(e).creation \in {"Owner", "Orphan"}
    BY <1>2 DEF CreateOrUpdate, Writing
  <2> QED BY <1>1, <2>2, <2>3, <2>4, PutClaims
<1>3. CASE patchSecret(e)
  <2> DEFINE v == ServerSideApply(e, secret[Target[e]])
  <2>1. /\ PutByController(Target[e], v) /\ Replied(e) /\ UNCHANGED <<es, cache>>
        /\ JobSpec(e).creation = "Merge"
    BY <1>3 DEF patchSecret, Writing
  <2> HIDE DEF v
  <2>2. AppliedTo(v, e, JobSpec(e)) BY <2>1, VacuouslyApplied
  <2> QED BY <1>1, <2>1, <2>2, PutClaims
<1>4. CASE WriteFails(e)
  <2>1. WithReady(e, "error").synced = job[e].es.status.synced BY ReadyKeepsSynced DEF IInv
  <2> QED BY <1>1, <1>4, <2>1, EndsQuietly DEF WriteFails, Fail
<1> QED BY <1>2, <1>3, <1>4 DEF Write

(* The spec in an empty work record is one users give.                     *)
LEMMA NoJobSpec == ASSUME NEW e \in ES PROVE NoJob(e).es.spec \in SpecsOf[e]
<1>1. SpecsOf[e] # {} BY ConstantsAssumption DEF ConstantsAssumption
<1>2. (CHOOSE s \in SpecsOf[e] : TRUE) \in SpecsOf[e] BY <1>1
<1> QED BY <1>2 DEF NoJob, Blank

(* The deferred patch: the synced revision of the server, or the one this  *)
(* reconcile applied.                                                      *)
LEMMA FinishClaims == ASSUME IInv, SInv, NEW e \in ES, Finish(e) PROVE SInv'
<1>1. /\ pc' = [pc EXCEPT ![e] = "idle"] /\ job' = [job EXCEPT ![e] = NoJob(e)]
      /\ UNCHANGED <<cache, secret>> /\ pc[e] = "finish"
  BY DEF Finish, PatchStatus, PatchStatusFails, Returns
<1>2. pc'[e] = "idle" /\ JobSpec(e)' \in SpecsOf[e]
  BY <1>1, NoJobSpec DEF JobSpec, IInv, Types
<1>3. \A x \in ES : x # e => pc'[x] = pc[x] /\ job'[x] = job[x] /\ JobSpec(x)' = JobSpec(x)
  BY <1>1 DEF IInv, Types, JobSpec
<1>4. /\ \A x \in ES : es'[x].spec = es[x].spec /\ es'[x].rev = es[x].rev
      /\ \A x \in ES : x # e => es'[x] = es[x]
      /\ \/ es'[e].status.synced = es[e].status.synced
         \/ /\ es'[e].status.synced = job[e].es.rev
            /\ AppliedTo(secret[Target[e]], e, JobSpec(e))
  <2>1. CASE PatchStatus(e)
    <3> DEFINE p == MergePatch(es[e].status, job[e].es.status, job[e].new)
    <3>1. es' = [es EXCEPT ![e] = [es[e] EXCEPT !.status = p]]
      BY <2>1 DEF PatchStatus, IInv, Types
    <3>2. p.synced = IF job[e].new.synced = job[e].es.status.synced
                     THEN es[e].status.synced ELSE job[e].new.synced
      BY DEF MergePatch
    <3> HIDE DEF p
    <3>3. /\ es'[e].spec = es[e].spec /\ es'[e].rev = es[e].rev /\ es'[e].status = p
          /\ \A x \in ES : x # e => es'[x] = es[x]
      BY <3>1 DEF IInv, Types, ESType
    <3>4. \/ job[e].new.synced = job[e].es.status.synced
          \/ /\ job[e].new.synced = job[e].es.rev
             /\ AppliedTo(secret[Target[e]], e, JobSpec(e))
      BY <1>1 DEF SInv, Pending
    <3> QED BY <3>2, <3>3, <3>4
  <2>2. CASE PatchStatusFails(e) BY <2>2 DEF PatchStatusFails
  <2> QED BY <2>1, <2>2 DEF Finish
<1>5. /\ es[e].status.synced <= job[e].es.rev /\ job[e].es.rev <= cache[e].rev
      /\ cache[e].rev <= es[e].rev /\ (job[e].es.rev = es[e].rev => JobSpec(e) = es[e].spec)
  BY <1>1 DEF SInv, OrderInv, JobOrdered, CacheOrdered
<1>6. /\ es[e].rev \in Nat /\ job[e].es.rev \in Nat /\ cache[e].rev \in Nat
      /\ es[e].status.synced \in Nat
  BY DEF IInv, Types, ESType, JobType, StatusType
<1>7. SpecsKnown' BY <1>1, <1>2, <1>3, <1>4 DEF SInv, OrderInv, SpecsKnown
<1>8. CacheOrdered'
  <2> SUFFICES ASSUME NEW x \in ES
               PROVE  /\ es'[x].status.synced <= cache[x].rev /\ cache[x].rev <= es[x].rev
                      /\ cache[x].rev = es[x].rev => cache[x].spec = es[x].spec
    BY <1>1, <1>4 DEF CacheOrdered
  <2>1. /\ es[x].status.synced <= cache[x].rev /\ cache[x].rev <= es[x].rev
        /\ cache[x].rev = es[x].rev => cache[x].spec = es[x].spec
    BY DEF SInv, OrderInv, CacheOrdered
  <2>2. es'[x].status.synced <= cache[x].rev BY <1>4, <1>5, <2>1
  <2> QED BY <2>1, <2>2
<1>9. JobOrdered'
  <2> SUFFICES ASSUME NEW x \in ES, pc'[x] # "idle"
               PROVE  /\ es'[x].status.synced <= job'[x].es.rev /\ job'[x].es.rev <= cache'[x].rev
                      /\ job'[x].es.rev = es'[x].rev => JobSpec(x)' = es'[x].spec
    BY DEF JobOrdered
  <2>1. x # e BY <1>2
  <2> QED BY <1>1, <1>3, <1>4, <2>1 DEF SInv, OrderInv, JobOrdered
<1>10. FetchedKeys'
  <2> SUFFICES ASSUME NEW x \in ES, pc'[x] \in {"fetch", "write"}, NEW k \in Keys,
                      job'[x].data[k] # Absent
               PROVE  k \in RefKeys(JobSpec(x)')
    BY DEF FetchedKeys
  <2>1. x # e BY <1>2
  <2> QED BY <1>3, <2>1 DEF SInv, FetchedKeys
<1>11. Pending'
  <2> SUFFICES ASSUME NEW x \in ES, pc'[x] = "finish"
               PROVE  \/ job'[x].new.synced = job'[x].es.status.synced
                      \/ /\ job'[x].new.synced = job'[x].es.rev
                         /\ AppliedTo(secret'[Target[x]], x, JobSpec(x)')
    BY DEF Pending
  <2>1. x # e BY <1>2
  <2>2. pc[x] = "finish" /\ job'[x] = job[x] /\ JobSpec(x)' = JobSpec(x) BY <1>3, <2>1
  <2> QED BY <1>1, <2>2 DEF SInv, Pending
<1>12. SyncedApplied'
  <2> SUFFICES ASSUME NEW x \in ES, es'[x].status.synced = es'[x].rev
               PROVE  AppliedTo(secret[Target[x]], x, es'[x].spec)
    BY <1>1 DEF SyncedApplied
  <2>1. CASE es'[x].status.synced = es[x].status.synced
    BY <1>4, <2>1 DEF SInv, SyncedApplied
  <2>2. CASE es'[x].status.synced # es[x].status.synced
    <3>1. x = e BY <1>4, <2>2
    <3>2. JobSpec(e) = es[e].spec BY <1>4, <1>5, <1>6, <2>2, <3>1
    <3> QED BY <1>4, <2>2, <3>1, <3>2
  <2> QED BY <2>1, <2>2
<1> QED BY <1>7, <1>8, <1>9, <1>10, <1>11, <1>12 DEF SInv, OrderInv

(* The informer catches up with the server.                                *)
LEMMA SyncClaims ==
  ASSUME IInv, SInv, UNCHANGED <<es, secret, pc, job>>,
         \A x \in ES : cache'[x] = cache[x] \/ cache'[x] = es[x]
  PROVE  SInv'
<1>1. \A x \in ES : JobSpec(x)' = JobSpec(x) BY DEF JobSpec
<1>2. \A x \in ES : /\ es[x].rev \in Nat /\ cache[x].rev \in Nat /\ job[x].es.rev \in Nat
                    /\ es[x].status.synced \in Nat
  BY DEF IInv, Types, ESType, JobType, StatusType
<1>3. SpecsKnown' BY <1>1 DEF SInv, OrderInv, SpecsKnown
<1>4. \A x \in ES : es[x].status.synced <= cache[x].rev /\ cache[x].rev <= es[x].rev
  BY DEF SInv, OrderInv, CacheOrdered
<1>5. CacheOrdered'
  <2> SUFFICES ASSUME NEW x \in ES
               PROVE  /\ es[x].status.synced <= cache'[x].rev /\ cache'[x].rev <= es[x].rev
                      /\ cache'[x].rev = es[x].rev => cache'[x].spec = es[x].spec
    BY DEF CacheOrdered
  <2>1. CASE cache'[x] = es[x] BY <1>2, <1>4, <2>1
  <2>2. CASE cache'[x] = cache[x] BY <2>2 DEF SInv, OrderInv, CacheOrdered
  <2> QED BY <2>1, <2>2
<1>6. JobOrdered'
  <2> SUFFICES ASSUME NEW x \in ES, pc[x] # "idle"
               PROVE  /\ es[x].status.synced <= job[x].es.rev /\ job[x].es.rev <= cache'[x].rev
                      /\ job[x].es.rev = es[x].rev => JobSpec(x) = es[x].spec
    BY <1>1 DEF JobOrdered
  <2>1. /\ es[x].status.synced <= job[x].es.rev /\ job[x].es.rev <= cache[x].rev
        /\ job[x].es.rev = es[x].rev => JobSpec(x) = es[x].spec
    BY DEF SInv, OrderInv, JobOrdered
  <2>2. job[x].es.rev <= cache'[x].rev
    <3>1. job[x].es.rev <= es[x].rev BY <1>2, <1>4, <2>1
    <3> QED BY <2>1, <3>1
  <2> QED BY <2>1, <2>2
<1>7. FetchedKeys' BY <1>1 DEF SInv, FetchedKeys
<1>8. Pending'
  <2> SUFFICES ASSUME NEW x \in ES, pc[x] = "finish"
               PROVE  \/ job[x].new.synced = job[x].es.status.synced
                      \/ /\ job[x].new.synced = job[x].es.rev
                         /\ AppliedTo(secret[Target[x]], x, JobSpec(x))
    BY <1>1 DEF Pending
  <2> QED BY DEF SInv, Pending
<1>9. SyncedApplied' BY DEF SInv, SyncedApplied
<1> QED BY <1>3, <1>5, <1>6, <1>7, <1>8, <1>9 DEF SInv, OrderInv

(* The informer, the timers and the passing of time.                       *)
LEMMA RuntimeClaims == ASSUME IInv, SInv, NEW e \in ES, Runtime(e) PROVE SInv'
<1>1. CASE InformerSync(e)
  <2>1. UNCHANGED <<es, secret, pc, job>> /\ cache' = [cache EXCEPT ![e] = es[e]]
    BY <1>1 DEF InformerSync
  <2>2. \A x \in ES : cache'[x] = cache[x] \/ cache'[x] = es[x] BY <2>1 DEF IInv, Types
  <2> QED BY <2>1, <2>2, SyncClaims
<1>2. CASE TimerFires(e)
  <2>1. UNCHANGED <<es, cache, secret, pc, job>> BY <1>2 DEF TimerFires
  <2> QED BY <2>1, StillStep
<1>3. CASE IntervalElapses(e)
  <2>1. /\ es' = [es EXCEPT ![e] = Age(es[e])] /\ cache' = [cache EXCEPT ![e] = Age(cache[e])]
        /\ UNCHANGED <<secret, pc, job>>
    BY <1>3 DEF IntervalElapses
  <2>2. ASSUME NEW o \in ESType
        PROVE  Age(o).spec = o.spec /\ Age(o).rev = o.rev /\ Age(o).status.synced = o.status.synced
    BY DEF Age, ESType, StatusType
  <2>3. \A x \in ES : es[x] \in ESType /\ cache[x] \in ESType BY DEF IInv, Types
  <2>4. \A x \in ES : /\ es'[x] = es[x] \/ es'[x] = Age(es[x])
                      /\ cache'[x] = cache[x] \/ cache'[x] = Age(cache[x])
    BY <2>1 DEF IInv, Types
  <2>5. \A x \in ES : /\ es'[x].spec = es[x].spec /\ es'[x].rev = es[x].rev
                      /\ es'[x].status.synced = es[x].status.synced
                      /\ cache'[x].spec = cache[x].spec /\ cache'[x].rev = cache[x].rev
    BY <2>2, <2>3, <2>4
  <2> QED BY <2>1, <2>5, StillStep
<1> QED BY <1>1, <1>2, <1>3 DEF Runtime

(* An edit gives a revision nobody has seen, and so claims nothing.        *)
LEMMA EditClaims == ASSUME IInv, SInv, NEW e \in ES, EditSpec(e) PROVE SInv'
<1>1. PICK s \in SpecsOf[e] : es' = [es EXCEPT ![e].spec = s, ![e].rev = @ + 1]
  BY DEF EditSpec
<1>2. UNCHANGED <<cache, secret, pc, job>> BY DEF EditSpec
<1>3. es' = [es EXCEPT ![e] = [es[e] EXCEPT !.spec = s, !.rev = es[e].rev + 1]]
  BY <1>1 DEF IInv, Types
<1>4. /\ es'[e].spec = s /\ es'[e].rev = es[e].rev + 1 /\ es'[e].status = es[e].status
      /\ \A x \in ES : x # e => es'[x] = es[x]
  BY <1>3 DEF IInv, Types, ESType
<1>5. /\ es[e].rev \in Nat /\ cache[e].rev \in Nat /\ job[e].es.rev \in Nat
      /\ es[e].status.synced \in Nat
  BY DEF IInv, Types, ESType, JobType, StatusType
<1>6. es[e].status.synced <= cache[e].rev /\ cache[e].rev <= es[e].rev
  BY DEF SInv, OrderInv, CacheOrdered
<1>7. \A x \in ES : JobSpec(x)' = JobSpec(x) BY <1>2 DEF JobSpec
<1>8. SpecsKnown' BY <1>2, <1>4, <1>7 DEF SInv, OrderInv, SpecsKnown
<1>9. CacheOrdered'
  <2> SUFFICES ASSUME NEW x \in ES
               PROVE  /\ es'[x].status.synced <= cache[x].rev /\ cache[x].rev <= es'[x].rev
                      /\ cache[x].rev = es'[x].rev => cache[x].spec = es'[x].spec
    BY <1>2 DEF CacheOrdered
  <2>1. CASE x = e BY <1>4, <1>5, <1>6, <2>1
  <2>2. CASE x # e BY <1>4, <2>2 DEF SInv, OrderInv, CacheOrdered
  <2> QED BY <2>1, <2>2
<1>10. JobOrdered'
  <2> SUFFICES ASSUME NEW x \in ES, pc[x] # "idle"
               PROVE  /\ es'[x].status.synced <= job[x].es.rev /\ job[x].es.rev <= cache[x].rev
                      /\ job[x].es.rev = es'[x].rev => JobSpec(x) = es'[x].spec
    BY <1>2, <1>7 DEF JobOrdered
  <2>1. /\ es[x].status.synced <= job[x].es.rev /\ job[x].es.rev <= cache[x].rev
        /\ job[x].es.rev = es[x].rev => JobSpec(x) = es[x].spec
    BY DEF SInv, OrderInv, JobOrdered
  <2>2. CASE x = e
    <3>1. job[e].es.rev # es'[e].rev BY <1>4, <1>5, <1>6, <2>1, <2>2
    <3> QED BY <1>4, <2>1, <2>2, <3>1
  <2>3. CASE x # e BY <1>4, <2>1, <2>3
  <2> QED BY <2>2, <2>3
<1>11. FetchedKeys' BY <1>2, <1>7 DEF SInv, FetchedKeys
<1>12. Pending'
  <2> SUFFICES ASSUME NEW x \in ES, pc[x] = "finish"
               PROVE  \/ job[x].new.synced = job[x].es.status.synced
                      \/ /\ job[x].new.synced = job[x].es.rev
                         /\ AppliedTo(secret[Target[x]], x, JobSpec(x))
    BY <1>2, <1>7 DEF Pending
  <2> QED BY DEF SInv, Pending
<1>13. SyncedApplied'
  <2> SUFFICES ASSUME NEW x \in ES, es'[x].status.synced = es'[x].rev
               PROVE  AppliedTo(secret[Target[x]], x, es'[x].spec)
    BY <1>2 DEF SyncedApplied
  <2>1. x # e BY <1>4, <1>5, <1>6
  <2> QED BY <1>4, <2>1 DEF SInv, SyncedApplied
<1> QED BY <1>8, <1>9, <1>10, <1>11, <1>12, <1>13 DEF SInv, OrderInv

(* Users delete ExternalSecrets; resyncs.                                  *)
LEMMA UserClaims ==
  ASSUME IInv, SInv, NEW e \in ES, Resync(e) \/ DeleteES(e)
  PROVE  SInv'
<1>1. CASE Resync(e)
  <2>1. UNCHANGED <<es, cache, secret, pc, job>> BY <1>1 DEF Resync
  <2> QED BY <2>1, StillStep
<1>2. CASE DeleteES(e)
  <2>1. /\ es' = [es EXCEPT ![e] = [es[e] EXCEPT !.exists = FALSE]]
        /\ UNCHANGED <<cache, secret, pc, job>>
    BY <1>2 DEF DeleteES, IInv, Types
  <2>2. \A x \in ES : /\ es'[x].spec = es[x].spec /\ es'[x].rev = es[x].rev
                      /\ es'[x].status.synced = es[x].status.synced
    BY <2>1 DEF IInv, Types, ESType
  <2> QED BY <2>1, <2>2, StillStep
<1> QED BY <1>1, <1>2

(* Users and the garbage collector leave a Secret without owner, or with   *)
(* the owner and the hash it had.                                          *)
LEMMA SecretClaims ==
  ASSUME IInv, SInv, NEW s \in Secrets, GarbageCollect(s) \/ User(s)
  PROVE  SInv'
<1> USE ConstantsAssumption DEF ConstantsAssumption
<1>1. secret[s] \in SecretType BY DEF IInv, Types
<1>2. Gone \in SecretType /\ Gone.owner = NoOwner BY GoneType DEF Gone
<1>3. ASSUME NEW v, PutByController(s, v), UNCHANGED <<es, cache, pc, job>>,
             v.owner = NoOwner \/ (v.owner = secret[s].owner /\ v.hash = secret[s].hash)
      PROVE  SInv'
  <2>1. secret' = [secret EXCEPT ![s] = v] BY <1>3 DEF PutByController, Put
  <2>2. ASSUME NEW x \in ES, NEW spec, AppliedTo(secret[Target[x]], x, spec)
        PROVE  AppliedTo(secret'[Target[x]], x, spec)
    <3>1. CASE Target[x] # s
      <4>1. secret'[Target[x]] = secret[Target[x]] BY <2>1, <3>1 DEF IInv, Types
      <4> QED BY <2>2, <4>1
    <3>2. CASE Target[x] = s
      <4>1. secret'[Target[x]] = v BY <2>1, <3>2 DEF IInv, Types
      <4>2. CASE v.owner = NoOwner BY <4>1, <4>2, OthersApplied
      <4>3. CASE v.owner = secret[s].owner /\ v.hash = secret[s].hash
        BY <2>2, <3>2, <4>1, <4>3, SameApplied
      <4> QED BY <1>3, <4>2, <4>3
    <3> QED BY <3>1, <3>2
  <2> QED BY <1>3, <2>2, StillStep
<1>4. ASSUME NEW o \in SecretType, NEW k \in Keys, NEW v \in Vals \cup {Absent}
      PROVE  LET n == Stored(o, [o EXCEPT !.data[k] = v])
             IN  n.owner = o.owner /\ n.hash = o.hash
  BY DEF Stored, SecretType
<1>5. CASE GarbageCollect(s)
  BY <1>2, <1>3, <1>5 DEF GarbageCollect
<1>6. CASE UserCreates(s)
  <2>1. PICK k \in Keys, v \in Vals :
          UserWrites(s, Stored(Gone, [Gone EXCEPT !.data[k] = v]))
    BY <1>6 DEF UserCreates
  <2> DEFINE w == Stored(Gone, [Gone EXCEPT !.data[k] = v])
  <2>2. w.owner = NoOwner BY <1>2, <1>4
  <2> HIDE DEF w
  <2> QED BY <1>3, <2>1, <2>2 DEF w, UserWrites
<1>7. CASE UserTampers(s)
  <2>1. PICK k \in Keys, v \in Vals \cup {Absent} :
          UserWrites(s, Stored(secret[s], [secret[s] EXCEPT !.data[k] = v]))
    BY <1>7 DEF UserTampers
  <2> DEFINE w == Stored(secret[s], [secret[s] EXCEPT !.data[k] = v])
  <2>2. w.owner = secret[s].owner /\ w.hash = secret[s].hash BY <1>1, <1>4
  <2>3. UserWrites(s, w) BY <2>1
  <2> HIDE DEF w
  <2>4. PutByController(s, w) /\ UNCHANGED <<es, cache, pc, job>> BY <2>3 DEF UserWrites
  <2> QED BY <1>3, <2>2, <2>4
<1>8. CASE UserDeletes(s) BY <1>2, <1>3, <1>8 DEF UserDeletes, UserWrites
<1> QED BY <1>5, <1>6, <1>7, <1>8 DEF User

(* A restart forgets the reconciles in flight and lists everything anew.   *)
LEMMA RestartClaims == ASSUME IInv, SInv, Restart PROVE SInv'
<1>1. /\ pc' = [e \in ES |-> "idle"] /\ job' = [e \in ES |-> NoJob(e)]
      /\ cache' = es /\ UNCHANGED <<es, secret>>
  BY DEF Restart
<1>2. \A x \in ES : JobSpec(x)' \in SpecsOf[x] BY <1>1, NoJobSpec DEF JobSpec
<1>3. SpecsKnown' BY <1>1, <1>2 DEF SInv, OrderInv, SpecsKnown
<1>4. CacheOrdered'
  <2>1. \A x \in ES : es[x].rev \in Nat /\ cache[x].rev \in Nat /\ es[x].status.synced \in Nat
    BY DEF IInv, Types, ESType, StatusType
  <2>2. \A x \in ES : es[x].status.synced <= cache[x].rev /\ cache[x].rev <= es[x].rev
    BY DEF SInv, OrderInv, CacheOrdered
  <2>3. \A x \in ES : es[x].status.synced <= es[x].rev /\ es[x].rev <= es[x].rev
    BY <2>1, <2>2
  <2> QED BY <1>1, <2>3 DEF CacheOrdered
<1>5. JobOrdered' BY <1>1 DEF JobOrdered
<1>6. FetchedKeys' BY <1>1 DEF FetchedKeys
<1>7. Pending' BY <1>1 DEF Pending
<1>8. SyncedApplied' BY <1>1 DEF SInv, SyncedApplied
<1> QED BY <1>3, <1>4, <1>5, <1>6, <1>7, <1>8 DEF SInv, OrderInv

(* Nothing is claimed initially.                                           *)
LEMMA InitClaims == Init => SInv
<1> SUFFICES ASSUME Init PROVE SInv
  OBVIOUS
<1>1. PICK s \in [ES -> UNION {SpecsOf[e] : e \in ES}] :
      /\ \A e \in ES : s[e] \in SpecsOf[e]
      /\ es = [e \in ES |-> [exists |-> TRUE, rev |-> 1, spec |-> s[e], status |-> NoStatus]]
  BY DEF Init
<1>2. /\ cache = es /\ secret = [x \in Secrets |-> Gone]
      /\ pc = [e \in ES |-> "idle"] /\ job = [e \in ES |-> NoJob(e)]
  BY DEF Init
<1>3. \A e \in ES : es[e].rev = 1 /\ es[e].spec \in SpecsOf[e] /\ es[e].status.synced = 0
  BY <1>1 DEF NoStatus
<1>4. \A e \in ES : JobSpec(e) \in SpecsOf[e] BY <1>2, NoJobSpec DEF JobSpec
<1>5. SpecsKnown BY <1>2, <1>3, <1>4 DEF SpecsKnown
<1>6. CacheOrdered BY <1>2, <1>3 DEF CacheOrdered
<1>7. JobOrdered /\ FetchedKeys /\ Pending BY <1>2 DEF JobOrdered, FetchedKeys, Pending
<1>8. SyncedApplied BY <1>3 DEF SyncedApplied
<1> QED BY <1>5, <1>6, <1>7, <1>8 DEF SInv, OrderInv

(* Every step preserves what is claimed and applied.                       *)
LEMMA StepClaims == ASSUME IInv, SInv, [Next]_vars PROVE SInv'
<1>1. CASE UNCHANGED vars
  <2>1. UNCHANGED <<es, cache, secret, pc, job>> BY <1>1 DEF vars
  <2> QED BY <2>1, StillStep
<1>2. ASSUME NEW e \in ES, Reconcile(e) PROVE SInv'
  BY <1>2, BeginClaims, FetchClaims, DeleteClaims, ApplyClaims, WriteClaims, FinishClaims
     DEF Reconcile, InFlight
<1>3. CASE AccessChanges \/ ProviderChanges
  <2>1. UNCHANGED <<es, cache, secret, pc, job>>
    BY <1>3 DEF AccessChanges, ProviderChanges
  <2> QED BY <2>1, StillStep
<1> QED BY <1>1, <1>2, <1>3, RuntimeClaims, EditClaims, UserClaims, SecretClaims, RestartClaims
        DEF Next

(* status.syncedResourceVersion: whatever edits, stale informer copies,    *)
(* overtaken writes, lost replies, merge patches of the status, garbage    *)
(* collection and restarts come in between, a Secret that e controls and   *)
(* that isSecretValid accepts at the current revision holds no key of an   *)
(* earlier spec.                                                           *)
THEOREM SyncedMeansApplied == Spec => []SyncedRevisionApplied
<1>1. Init => SInv BY InitClaims
<1>2. IInv /\ SInv /\ [Next]_vars => SInv' BY StepClaims
<1>3. ASSUME IInv, SInv PROVE SyncedRevisionApplied
  <2> SUFFICES ASSUME NEW e \in ES, es[e].status.synced = es[e].rev, Undisturbed(e),
                      es[e].spec.creation = "Owner", es[e].spec.tpl = {},
                      secret[Target[e]].owner = e, isSecretValid(secret[Target[e]]),
                      NEW k \in Keys, secret[Target[e]].data[k] # Absent
               PROVE  k \in RefKeys(es[e].spec)
    BY DEF SyncedRevisionApplied
  <2>1. AppliedTo(secret[Target[e]], e, es[e].spec) BY <1>3 DEF SInv, SyncedApplied
  <2>2. secret[Target[e]] \in SecretType
    BY <1>3, ConstantsAssumption DEF ConstantsAssumption, IInv, Types
  <2>3. secret[Target[e]].hash = secret[Target[e]].data /\ secret[Target[e]].data \in Payload
    BY <2>2 DEF isSecretValid, SecretType
  <2>4. secret[Target[e]].hash # Absent
    BY <2>3, ConstantsAssumption DEF ConstantsAssumption
  <2> QED BY <2>1, <2>3, <2>4 DEF AppliedTo
<1> QED BY <1>1, <1>2, <1>3, Invariance, PTL DEF Spec
=============================================================================
