--------------------- MODULE ClusterExternalSecretProofs --------------------
(***************************************************************************)
(* For any ClusterExternalSecrets, namespaces, names and templates: the    *)
(* types of the ClusterExternalSecret controller, and that no              *)
(* ExternalSecret changes its owner while it exists.                       *)
(***************************************************************************)
EXTENDS ClusterExternalSecret, TLAPS

\* While a reconcile is busy with an ExternalSecret it knows the namespace, so
\* that what it lists as provisioned is one.
AtNamespace == \A c \in CES : pc[c] \in {"delete", "get", "write"} => job[c].at \in NS

IInv == TypeOK /\ AtNamespace

Steps == {"idle", "remove", "delete", "provision", "get", "write"}

\* What a reconcile step leaves well-typed besides its own record.
WorldType ==
  /\ ces \in [CES -> CESType] /\ cesCache \in [CES -> CESType]
  /\ es \in [Places -> ESType] /\ esCache \in [Places -> ESType]
  /\ labels \in [NS -> SUBSET Labels]
  /\ queue \subseteq CES /\ timer \subseteq CES
  /\ env \in 0..MaxEnv /\ faults \in 0..MaxFaults
-----------------------------------------------------------------------------
(* The work record of a reconcile that has not begun.                      *)
LEMMA NoJobType == ASSUME NEW c \in CES PROVE NoJob(c) \in JobType
<1>1. (CHOOSE s \in SpecsOf[c] : TRUE) \in SpecType BY ClusterAssumption DEF ClusterAssumption
<1>2. Gone \in ESType BY DEF Gone, ESType
<1>3. NoJob(c).ces \in CESType BY <1>1 DEF NoJob, CESType
<1> QED BY <1>2, <1>3 DEF NoJob, JobType

(* Types of what is written over a variable at one place.                  *)
LEMMA PutType ==
  ASSUME IInv, NEW x, NEW v \in ESType, Put(x, v)
  PROVE  es' \in [Places -> ESType] /\ queue' \subseteq CES
BY DEF IInv, TypeOK, Put

(* The count of failing calls stays in its bound.                          *)
LEMMA FaultType == ASSUME IInv, Fault \/ UNCHANGED faults PROVE faults' \in 0..MaxFaults
BY ClusterAssumption DEF ClusterAssumption, Fault, IInv, TypeOK

(* The count of outside steps stays in its bound.                          *)
LEMMA OutsideType == ASSUME IInv, Outside PROVE env' \in 0..MaxEnv
BY ClusterAssumption DEF ClusterAssumption, Outside, IInv, TypeOK

(* The initial states satisfy the inductive invariant.                     *)
LEMMA InitInv == Init => IInv
<1> SUFFICES ASSUME Init PROVE IInv
  OBVIOUS
<1>1. ces \in [CES -> CESType]
  <2>1. PICK s \in [CES -> UNION {SpecsOf[c] : c \in CES}] :
          /\ \A c \in CES : s[c] \in SpecsOf[c]
          /\ ces = [c \in CES |-> [exists |-> TRUE, spec |-> s[c], prov |-> {}]]
    BY DEF Init
  <2>2. \A c \in CES : s[c] \in SpecType
    BY <2>1, ClusterAssumption DEF ClusterAssumption
  <2> QED BY <2>1, <2>2 DEF CESType
<1>2. Gone \in ESType BY DEF Gone, ESType
<1>3. pc = [c \in CES |-> "idle"] /\ job = [c \in CES |-> NoJob(c)] BY DEF Init
<1>4. job \in [CES -> JobType] BY <1>3, NoJobType
<1>5. env \in 0..MaxEnv /\ faults \in 0..MaxFaults
  BY ClusterAssumption DEF ClusterAssumption, Init
<1>6. TypeOK
  BY <1>1, <1>2, <1>3, <1>4, <1>5 DEF Init, TypeOK
<1>7. AtNamespace BY <1>3 DEF AtNamespace
<1> QED BY <1>6, <1>7 DEF IInv

(* A step that leaves every reconcile where it is.                         *)
LEMMA QuietStep == ASSUME IInv, UNCHANGED <<pc, job>>, WorldType' PROVE IInv'
BY DEF IInv, TypeOK, AtNamespace, WorldType

(* A step of the reconcile of c, which goes on with the record j.          *)
LEMMA JobStep ==
  ASSUME IInv, NEW c \in CES, NEW j \in JobType, NEW label \in Steps \ {"idle"},
         job' = [job EXCEPT ![c] = j], Goto(c, label),
         label \in {"delete", "get", "write"} => j.at \in NS, WorldType'
  PROVE  IInv'
<1>1. pc' = [pc EXCEPT ![c] = label] BY DEF Goto
<1>2. pc \in [CES -> Steps] /\ job \in [CES -> JobType] BY DEF IInv, TypeOK, Steps
<1>3. pc' \in [CES -> Steps] /\ job' \in [CES -> JobType] BY <1>1, <1>2
<1>4. \A d \in CES : pc'[d] = "idle" => job'[d] = NoJob(d)
  BY <1>1, <1>2 DEF IInv, TypeOK
<1>5. TypeOK' BY <1>3, <1>4 DEF TypeOK, WorldType, Steps, NoJob
<1>6. AtNamespace' BY <1>1, <1>2 DEF IInv, AtNamespace
<1> QED BY <1>5, <1>6 DEF IInv

(* A reconcile that returns leaves nothing behind.                         *)
LEMMA ReturnsStep == ASSUME IInv, NEW c \in CES, Returns(c), WorldType' PROVE IInv'
<1>1. pc' = [pc EXCEPT ![c] = "idle"] /\ job' = [job EXCEPT ![c] = NoJob(c)]
  BY DEF Returns, Goto
<1>2. pc \in [CES -> Steps] /\ job \in [CES -> JobType] BY DEF IInv, TypeOK, Steps
<1>3. pc' \in [CES -> Steps] /\ job' \in [CES -> JobType] BY <1>1, <1>2, NoJobType DEF Steps
<1>4. \A d \in CES : pc'[d] = "idle" => job'[d] = NoJob(d)
  BY <1>1, <1>2 DEF IInv, TypeOK
<1>5. TypeOK' BY <1>3, <1>4 DEF TypeOK, WorldType, Steps, NoJob
<1>6. AtNamespace' BY <1>1, <1>2 DEF IInv, AtNamespace
<1> QED BY <1>5, <1>6 DEF IInv

-----------------------------------------------------------------------------
(* A reconcile starts.                                                     *)
LEMMA BeginStep == ASSUME IInv, NEW c \in CES, Begin(c) PROVE IInv'
<1>1. CASE SkipGone(c)
  BY <1>1, QuietStep DEF SkipGone, Dequeued, IInv, TypeOK, WorldType
<1>2. CASE ListFails(c)
  <2>1. faults' \in 0..MaxFaults BY <1>2, FaultType DEF ListFails
  <2> QED BY <1>2, <2>1, QuietStep DEF ListFails, IInv, TypeOK, WorldType
<1>3. CASE List(c)
  <2> DEFINE o == cesCache[c]
             l == Matching(o.spec)
             j == [NoJob(c) EXCEPT !.ces = o, !.list = l, !.todo = getRemovedNamespaces(l, o.prov)]
  <2>1. o \in CESType /\ o.prov \subseteq NS BY DEF IInv, TypeOK, CESType
  <2>2. l \subseteq NS BY DEF Matching
  <2>3. NoJob(c) \in JobType BY NoJobType
  <2>4. j \in JobType BY <2>1, <2>2, <2>3 DEF JobType, getRemovedNamespaces
  <2>5. job' = [job EXCEPT ![c] = j] /\ Goto(c, "remove") BY <1>3 DEF List
  <2>6. WorldType' BY <1>3 DEF List, Dequeued, IInv, TypeOK, WorldType
  <2> HIDE DEF j
  <2> QED BY <2>4, <2>5, <2>6, JobStep DEF Steps
<1> QED BY <1>1, <1>2, <1>3 DEF Begin

(* The namespaces that stopped matching are worked off.                    *)
LEMMA RemoveStep == ASSUME IInv, NEW c \in CES, Remove(c) PROVE IInv'
<1>0. job[c] \in JobType /\ job \in [CES -> JobType] /\ pc \in [CES -> Steps]
  BY DEF IInv, TypeOK, Steps
<1>a. \A n \in NS : /\ [job[c] EXCEPT !.todo = @ \ {n}] \in JobType
                    /\ [job[c] EXCEPT !.todo = @ \ {n}, !.at = n] \in JobType
                    /\ [job[c] EXCEPT !.todo = @ \ {n}, !.at = n].at = n
  BY <1>0 DEF JobType
<1>b. [job[c] EXCEPT !.at = NoNS] \in JobType BY <1>0 DEF JobType
<1>1. ASSUME NEW n \in NS, NotRemoved(c, n) PROVE IInv'
  <2>1. job' = [job EXCEPT ![c] = [job[c] EXCEPT !.todo = @ \ {n}]]
    BY <1>1, <1>0 DEF NotRemoved
  <2>2. Goto(c, "remove") BY <1>1, <1>0 DEF NotRemoved, Removing, Goto
  <2>3. WorldType' BY <1>1 DEF NotRemoved, IInv, TypeOK, WorldType
  <2> QED BY <1>a, <2>1, <2>2, <2>3, JobStep DEF Steps
<1>2. ASSUME NEW n \in NS, FoundToRemove(c, n) PROVE IInv'
  <2>1. job' = [job EXCEPT ![c] = [job[c] EXCEPT !.todo = @ \ {n}, !.at = n]]
    BY <1>2, <1>0 DEF FoundToRemove
  <2>2. Goto(c, "delete") BY <1>2 DEF FoundToRemove
  <2>3. WorldType' BY <1>2 DEF FoundToRemove, IInv, TypeOK, WorldType
  <2> QED BY <1>a, <2>1, <2>2, <2>3, JobStep DEF Steps
<1>3. CASE DeleteES(c)
  <2>1. job' = [job EXCEPT ![c] = [job[c] EXCEPT !.at = NoNS]] /\ Goto(c, "remove")
    BY <1>3, <1>0 DEF DeleteES, BackToRemoving
  <2>2. es' \in [Places -> ESType] /\ queue' \subseteq CES
    <3>1. Gone \in ESType BY DEF Gone, ESType
    <3> QED BY <1>3, <3>1, PutType DEF DeleteES
  <2>3. WorldType' BY <1>3, <2>2 DEF DeleteES, IInv, TypeOK, WorldType
  <2> QED BY <1>b, <2>1, <2>3, JobStep DEF Steps
<1>4. CASE DeleteESFails(c)
  <2>1. job' = [job EXCEPT ![c] = [job[c] EXCEPT !.at = NoNS]] /\ Goto(c, "remove")
    BY <1>4, <1>0 DEF DeleteESFails, BackToRemoving
  <2>2. faults' \in 0..MaxFaults BY <1>4, FaultType DEF DeleteESFails
  <2>3. WorldType' BY <1>4, <2>2 DEF DeleteESFails, IInv, TypeOK, WorldType
  <2> QED BY <1>b, <2>1, <2>3, JobStep DEF Steps
<1>5. CASE RemoveDone(c)
  <2>1. job' = [job EXCEPT ![c] = [job[c] EXCEPT !.todo = job[c].list]]
    BY <1>5, <1>0 DEF RemoveDone
  <2>2. [job[c] EXCEPT !.todo = job[c].list] \in JobType BY <1>0 DEF JobType
  <2>3. Goto(c, "provision") BY <1>5 DEF RemoveDone
  <2>4. WorldType' BY <1>5 DEF RemoveDone, IInv, TypeOK, WorldType
  <2> QED BY <2>1, <2>2, <2>3, <2>4, JobStep DEF Steps
<1> QED BY <1>1, <1>2, <1>3, <1>4, <1>5 DEF Remove

(* The namespace that was worked on counts as provisioned, or does not.    *)
LEMMA ProvisionedStep ==
  ASSUME IInv, NEW c \in CES, pc[c] \in {"get", "write"},
         Provisioned(c) \/ ProvisionFailed(c), WorldType'
  PROVE  IInv'
<1>0. job[c] \in JobType /\ job \in [CES -> JobType] BY DEF IInv, TypeOK
<1>1. job[c].at \in NS BY DEF IInv, AtNamespace
<1>2. Gone \in ESType BY DEF Gone, ESType
<1> DEFINE p == [job[c] EXCEPT !.prov = @ \cup {job[c].at}, !.got = Gone, !.at = NoNS]
           f == [job[c] EXCEPT !.got = Gone, !.at = NoNS]
<1>3. p \in JobType /\ f \in JobType BY <1>0, <1>1, <1>2 DEF JobType
<1>4. job' = [job EXCEPT ![c] = p] \/ job' = [job EXCEPT ![c] = f]
  BY <1>0 DEF Provisioned, ProvisionFailed
<1>5. Goto(c, "provision") BY DEF Provisioned, ProvisionFailed
<1> HIDE DEF p, f
<1> QED BY <1>3, <1>4, <1>5, JobStep DEF Steps

(* The matching namespaces are worked off.                                 *)
LEMMA ProvisionStep == ASSUME IInv, NEW c \in CES, Provision(c) PROVE IInv'
<1>0. job[c] \in JobType /\ job \in [CES -> JobType] /\ pc \in [CES -> Steps]
  BY DEF IInv, TypeOK, Steps
<1>a. \A n \in NS : /\ [job[c] EXCEPT !.todo = @ \ {n}] \in JobType
                    /\ [job[c] EXCEPT !.todo = @ \ {n}, !.at = n] \in JobType
                    /\ [job[c] EXCEPT !.todo = @ \ {n}, !.at = n].at = n
  BY <1>0 DEF JobType
<1>1. ASSUME NEW n \in NS, Conflicting(c, n) PROVE IInv'
  <2>1. job' = [job EXCEPT ![c] = [job[c] EXCEPT !.todo = @ \ {n}]]
    BY <1>1, <1>0 DEF Conflicting
  <2>2. Goto(c, "provision") BY <1>1, <1>0 DEF Conflicting, Goto
  <2>3. WorldType' BY <1>1 DEF Conflicting, IInv, TypeOK, WorldType
  <2> QED BY <1>a, <2>1, <2>2, <2>3, JobStep DEF Steps
<1>2. ASSUME NEW n \in NS, Resolve(c, n) PROVE IInv'
  <2>1. job' = [job EXCEPT ![c] = [job[c] EXCEPT !.todo = @ \ {n}, !.at = n]]
    BY <1>2, <1>0 DEF Resolve
  <2>2. Goto(c, "get") BY <1>2 DEF Resolve
  <2>3. WorldType' BY <1>2 DEF Resolve, IInv, TypeOK, WorldType
  <2> QED BY <1>a, <2>1, <2>2, <2>3, JobStep DEF Steps
<1>3. CASE GetES(c)
  <2>1. WorldType' BY <1>3 DEF GetES, IInv, TypeOK, WorldType
  <2>2. CASE Provisioned(c) BY <1>3, <2>1, <2>2, ProvisionedStep DEF GetES
  <2>3. CASE /\ job' = [job EXCEPT ![c].got = esCache[Here(c)]] /\ Goto(c, "write")
    <3> DEFINE j == [job[c] EXCEPT !.got = esCache[Here(c)]]
    <3>1. job[c].at \in NS BY <1>3 DEF GetES, IInv, AtNamespace
    <3>2. Here(c) \in Places
      BY <1>0, <3>1 DEF Here, Place, Places, JobType, CESType, SpecType
    <3>3. j \in JobType /\ j.at = job[c].at BY <1>0, <3>2 DEF IInv, TypeOK, JobType
    <3>4. job' = [job EXCEPT ![c] = j] BY <2>3, <1>0
    <3> HIDE DEF j
    <3> QED BY <2>1, <2>3, <3>1, <3>3, <3>4, JobStep DEF Steps
  <2> QED BY <1>3, <2>2, <2>3 DEF GetES
<1>4. CASE CreateOrUpdate(c)
  <2>1. Written(c) \in ESType
    <3>1. job[c].got \in ESType /\ Template(c) \in Templates
      BY <1>0 DEF JobType, CESType, SpecType, Template
    <3> QED BY <3>1 DEF Written, ESType
  <2>2. es' \in [Places -> ESType] /\ queue' \subseteq CES
    BY <1>4, <2>1, PutType DEF CreateOrUpdate
  <2>3. faults' \in 0..MaxFaults BY <1>4, FaultType DEF CreateOrUpdate
  <2>4. WorldType' BY <1>4, <2>2, <2>3 DEF CreateOrUpdate, IInv, TypeOK, WorldType
  <2> QED BY <1>4, <2>4, ProvisionedStep DEF CreateOrUpdate
<1>5. CASE CreateOrUpdateFails(c)
  <2>1. faults' \in 0..MaxFaults BY <1>5, FaultType DEF CreateOrUpdateFails
  <2>2. WorldType' BY <1>5, <2>1 DEF CreateOrUpdateFails, IInv, TypeOK, WorldType
  <2> QED BY <1>5, <2>2, ProvisionedStep DEF CreateOrUpdateFails
<1> QED BY <1>1, <1>2, <1>3, <1>4, <1>5 DEF Provision

(* The status is written.                                                  *)
LEMMA FinishStep == ASSUME IInv, NEW c \in CES, Finish(c) PROVE IInv'
<1>1. CASE PatchStatus(c)
  <2>1. job[c] \in JobType /\ ces[c] \in CESType BY DEF IInv, TypeOK
  <2>2. MergePatch(ces[c].prov, job[c].ces.prov, NewProvisioned(c)) \subseteq NS
    BY <2>1 DEF MergePatch, NewProvisioned, JobType, CESType
  <2>3. ces' = [ces EXCEPT ![c] = [ces[c] EXCEPT !.prov =
                  MergePatch(ces[c].prov, job[c].ces.prov, NewProvisioned(c))]]
    BY <1>1 DEF PatchStatus, IInv, TypeOK
  <2>4. ces' \in [CES -> CESType] BY <2>1, <2>2, <2>3 DEF IInv, TypeOK, CESType
  <2>5. WorldType' BY <1>1, <2>4 DEF PatchStatus, Returns, IInv, TypeOK, WorldType
  <2> QED BY <1>1, <2>5, ReturnsStep DEF PatchStatus
<1>2. CASE PatchStatusFails(c)
  <2>1. faults' \in 0..MaxFaults BY <1>2, FaultType DEF PatchStatusFails
  <2>2. WorldType' BY <1>2, <2>1 DEF PatchStatusFails, Returns, IInv, TypeOK, WorldType
  <2> QED BY <1>2, <2>2, ReturnsStep DEF PatchStatusFails
<1> QED BY <1>1, <1>2 DEF Finish

(* Informers, timers and edits of a ClusterExternalSecret.                 *)
LEMMA CESStep ==
  ASSUME IInv, NEW c \in CES,
         InformerSync(c) \/ TimerFires(c) \/ EditSpec(c) \/ DeleteCES(c)
  PROVE  IInv'
<1>1. CASE InformerSync(c) BY <1>1, QuietStep DEF InformerSync, IInv, TypeOK, WorldType
<1>2. CASE TimerFires(c) BY <1>2, QuietStep DEF TimerFires, IInv, TypeOK, WorldType
<1>3. CASE EditSpec(c)
  <2>1. PICK s \in SpecsOf[c] : ces' = [ces EXCEPT ![c] = [ces[c] EXCEPT !.spec = s]]
    BY <1>3 DEF EditSpec, IInv, TypeOK
  <2>2. s \in SpecType BY ClusterAssumption DEF ClusterAssumption
  <2>3. ces' \in [CES -> CESType] BY <2>1, <2>2 DEF IInv, TypeOK, CESType
  <2>4. env' \in 0..MaxEnv BY <1>3, OutsideType DEF EditSpec
  <2>5. WorldType' BY <1>3, <2>3, <2>4 DEF EditSpec, IInv, TypeOK, WorldType
  <2> QED BY <1>3, <2>5, QuietStep DEF EditSpec
<1>4. CASE DeleteCES(c)
  <2>1. ces' = [ces EXCEPT ![c] = [ces[c] EXCEPT !.exists = FALSE]]
    BY <1>4 DEF DeleteCES, IInv, TypeOK
  <2>2. ces' \in [CES -> CESType] BY <2>1 DEF IInv, TypeOK, CESType
  <2>3. env' \in 0..MaxEnv BY <1>4, OutsideType DEF DeleteCES
  <2>4. WorldType' BY <1>4, <2>2, <2>3 DEF DeleteCES, IInv, TypeOK, WorldType
  <2> QED BY <1>4, <2>4, QuietStep DEF DeleteCES
<1> QED BY <1>1, <1>2, <1>3, <1>4

(* An ExternalSecret is delivered, collected or changed by a user.         *)
LEMMA ESStep ==
  ASSUME IInv, NEW x \in Places, CacheES(x) \/ GarbageCollect(x) \/ User(x)
  PROVE  IInv'
<1>0. Gone \in ESType /\ es[x] \in ESType BY DEF Gone, ESType, IInv, TypeOK
<1>1. CASE CacheES(x) BY <1>1, QuietStep DEF CacheES, IInv, TypeOK, WorldType
<1>2. CASE GarbageCollect(x)
  <2>1. es' \in [Places -> ESType] /\ queue' \subseteq CES
    BY <1>2, <1>0, PutType DEF GarbageCollect
  <2>2. WorldType' BY <1>2, <2>1 DEF GarbageCollect, IInv, TypeOK, WorldType
  <2> QED BY <1>2, <2>2, QuietStep DEF GarbageCollect
<1>3. ASSUME NEW v \in ESType, UserWrites(x, v) PROVE IInv'
  <2>1. es' \in [Places -> ESType] /\ queue' \subseteq CES
    BY <1>3, PutType DEF UserWrites
  <2>2. env' \in 0..MaxEnv BY <1>3, OutsideType DEF UserWrites
  <2>3. WorldType' BY <1>3, <2>1, <2>2 DEF UserWrites, IInv, TypeOK, WorldType
  <2> QED BY <1>3, <2>3, QuietStep DEF UserWrites
<1>4. CASE UserCreates(x)
  <2>1. \A w \in UserOwners : [exists |-> TRUE, owner |-> w, spec |-> UserSpec] \in ESType
    BY ClusterAssumption DEF ClusterAssumption, ESType
  <2> QED BY <1>3, <1>4, <2>1 DEF UserCreates
<1>5. CASE UserEdits(x)
  <2>1. [es[x] EXCEPT !.spec = UserSpec] \in ESType BY <1>0 DEF ESType
  <2> QED BY <1>3, <1>5, <2>1 DEF UserEdits
<1>6. CASE UserDeletes(x) BY <1>0, <1>3, <1>6 DEF UserDeletes
<1> QED BY <1>1, <1>2, <1>4, <1>5, <1>6 DEF User

(* Namespaces are relabelled, the process restarts.                        *)
LEMMA OtherStep ==
  ASSUME IInv, (\E n \in NS : Relabel(n)) \/ Restart PROVE IInv'
<1>1. ASSUME NEW n \in NS, Relabel(n) PROVE IInv'
  <2>1. env' \in 0..MaxEnv BY <1>1, OutsideType DEF Relabel
  <2>2. labels' \in [NS -> SUBSET Labels] BY <1>1 DEF Relabel, IInv, TypeOK
  <2>3. WorldType' BY <1>1, <2>1, <2>2 DEF Relabel, IInv, TypeOK, WorldType
  <2> QED BY <1>1, <2>3, QuietStep DEF Relabel
<1>2. CASE Restart
  <2>1. env' \in 0..MaxEnv BY <1>2, OutsideType DEF Restart
  <2>2. WorldType' BY <1>2, <2>1 DEF Restart, IInv, TypeOK, WorldType
  <2>3. pc' = [c \in CES |-> "idle"] /\ job' = [c \in CES |-> NoJob(c)] BY <1>2 DEF Restart
  <2>4. job' \in [CES -> JobType] BY <2>3, NoJobType
  <2>5. TypeOK' BY <2>2, <2>3, <2>4 DEF TypeOK, WorldType, NoJob
  <2>6. AtNamespace' BY <2>3 DEF AtNamespace
  <2> QED BY <2>5, <2>6 DEF IInv
<1> QED BY <1>1, <1>2

(* Every step preserves the inductive invariant.                           *)
LEMMA NextInv == IInv /\ [Next]_vars => IInv'
<1> SUFFICES ASSUME IInv, [Next]_vars PROVE IInv'
  OBVIOUS
<1>1. CASE UNCHANGED vars BY <1>1, QuietStep DEF vars, IInv, TypeOK, WorldType
<1>2. CASE Next
  BY <1>2, BeginStep, RemoveStep, ProvisionStep, FinishStep, CESStep, ESStep, OtherStep
     DEF Next, InFlight
<1> QED BY <1>1, <1>2

(* The inductive invariant holds in every reachable state.                 *)
THEOREM Invariance == Spec => []IInv
BY InitInv, NextInv, PTL DEF Spec

(* The variables of the ClusterExternalSecret controller keep their types, *)
(* and a reconcile that has returned leaves nothing of its work behind.    *)
THEOREM TypeCorrect == Spec => []TypeOK
<1>1. IInv => TypeOK BY DEF IInv
<1> QED BY <1>1, Invariance, PTL

-----------------------------------------------------------------------------
(* A write over x that keeps the owner of what is there.                   *)
LEMMA PutKeeps ==
  ASSUME IInv, NEW x, NEW v, Put(x, v),
         x \in Places /\ es[x].exists /\ v.exists => v.owner = es[x].owner
  PROVE  \A y \in Places : es[y].exists /\ es'[y].exists => es'[y].owner = es[y].owner
BY DEF IInv, TypeOK, Put

(* No step gives an existing ExternalSecret to somebody else: a Create     *)
(* needs a free name, an Update the copy the server has.                   *)
LEMMA OwnerStep ==
  ASSUME IInv, [Next]_vars
  PROVE  \A x \in Places : es[x].exists /\ es'[x].exists => es'[x].owner = es[x].owner
<1> DEFINE Kept == \A x \in Places : es[x].exists /\ es'[x].exists => es'[x].owner = es[x].owner
<1>1. ASSUME UNCHANGED es PROVE Kept BY <1>1
<1>2. ASSUME NEW c \in CES, CreateOrUpdate(c) PROVE Kept
  <2>1. Put(Here(c), Written(c)) /\ Accepted(c) BY <1>2 DEF CreateOrUpdate
  <2>2. job[c].got \in ESType BY DEF IInv, TypeOK, JobType
  <2>3. es[Here(c)].exists => Written(c).owner = es[Here(c)].owner
    BY <2>1, <2>2 DEF Accepted, Written, ESType
  <2> QED BY <2>1, <2>3, PutKeeps
<1>3. ASSUME NEW c \in CES, DeleteES(c) PROVE Kept
  BY <1>3, PutKeeps DEF DeleteES, Gone
<1>4. ASSUME NEW x \in Places, GarbageCollect(x) PROVE Kept
  BY <1>4, PutKeeps DEF GarbageCollect, Gone
<1>5. ASSUME NEW x \in Places, User(x) PROVE Kept
  <2>1. CASE UserCreates(x) BY <2>1, PutKeeps DEF UserCreates, UserWrites
  <2>2. CASE UserEdits(x)
    <3>1. [es[x] EXCEPT !.spec = UserSpec].owner = es[x].owner BY DEF IInv, TypeOK, ESType
    <3> QED BY <2>2, <3>1, PutKeeps DEF UserEdits, UserWrites
  <2>3. CASE UserDeletes(x) BY <2>3, PutKeeps DEF UserDeletes, UserWrites, Gone
  <2> QED BY <1>5, <2>1, <2>2, <2>3 DEF User
<1>6. ASSUME NEW c \in CES, Begin(c) \/ Finish(c) PROVE UNCHANGED es
  BY <1>6 DEF Begin, SkipGone, ListFails, List, Finish, PatchStatus, PatchStatusFails
<1>7. ASSUME NEW c \in CES, Remove(c), ~DeleteES(c) PROVE UNCHANGED es
  BY <1>7 DEF Remove, NotRemoved, FoundToRemove, DeleteESFails, RemoveDone
<1>8. ASSUME NEW c \in CES, Provision(c), ~CreateOrUpdate(c) PROVE UNCHANGED es
  BY <1>8 DEF Provision, Conflicting, Resolve, GetES, CreateOrUpdateFails
<1>9. ASSUME NEW c \in CES, InformerSync(c) \/ TimerFires(c) \/ EditSpec(c) \/ DeleteCES(c)
      PROVE UNCHANGED es
  BY <1>9 DEF InformerSync, TimerFires, EditSpec, DeleteCES
<1>10. ASSUME (\E x \in Places : CacheES(x)) \/ (\E n \in NS : Relabel(n)) \/ Restart
       PROVE UNCHANGED es
  BY <1>10 DEF CacheES, Relabel, Restart
<1>11. ASSUME Next PROVE Kept
  <2> HIDE DEF Kept
  <2>1. ASSUME NEW c \in CES, InFlight(c) PROVE Kept
    BY <2>1, <1>1, <1>2, <1>3, <1>6, <1>7, <1>8 DEF InFlight
  <2>2. ASSUME NEW c \in CES, Begin(c) \/ InformerSync(c) \/ TimerFires(c) \/ EditSpec(c)
                              \/ DeleteCES(c)
        PROVE Kept
    BY <2>2, <1>1, <1>6, <1>9
  <2>3. ASSUME NEW x \in Places, CacheES(x) \/ GarbageCollect(x) \/ User(x) PROVE Kept
    BY <2>3, <1>1, <1>4, <1>5, <1>10
  <2> QED BY <1>11, <1>1, <1>10, <2>1, <2>2, <2>3 DEF Next
<1>12. CASE UNCHANGED vars BY <1>12, <1>1 DEF vars
<1> QED BY <1>11, <1>12

(* An ExternalSecret never changes hands while it exists, whatever stale   *)
(* copies the reconciles of any number of ClusterExternalSecrets work on.  *)
THEOREM OwnersNeverChange == Spec => OwnerNeverChanges
<1>1. IInv /\ [Next]_vars
      => [\A x \in Places : es[x].exists /\ es'[x].exists => es'[x].owner = es[x].owner]_vars
  BY OwnerStep
<1> QED BY <1>1, Invariance, PTL DEF Spec, OwnerNeverChanges
=============================================================================
