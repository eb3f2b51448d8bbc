------------------------ MODULE ClusterExternalSecret -----------------------
(***************************************************************************)
(* The ClusterExternalSecret controller                                    *)
(* (pkg/controllers/clusterexternalsecret): it keeps an ExternalSecret in  *)
(* every namespace its selector matches and removes it from those that     *)
(* stop matching, as far as status.provisionedNamespaces remembers them.   *)
(*                                                                         *)
(* ExternalSecrets are read through an informer of their own, the events   *)
(* that wake the owner come through another one (OnlyMetadata).  An Update *)
(* is refused unless the copy it is based on is the server's: the copies   *)
(* are compared instead of a resourceVersion; the conflicts that status    *)
(* patches of the ExternalSecret controller cause are among the faults.    *)
(* status.failedNamespaces and the conditions are written and never read:  *)
(* they are left out (the wake-ups that writing them causes are among      *)
(* those of the timer).  refreshTime is not 0.                             *)
(***************************************************************************)
EXTENDS Naturals, FiniteSets

CONSTANTS
  CES,         \* names of the ClusterExternalSecrets
  NS, Labels,  \* namespaces, and the labels selectors ask for
  Names,       \* names of ExternalSecrets
  Templates,   \* the ExternalSecret specs that CES hold
  UserSpec,    \* the spec of an ExternalSecret that a user wrote
  NoNS,        \* no namespace
  NoOwner,     \* an ExternalSecret without owner reference
  Stranger,    \* an owner reference that is not a controller reference
  UserOwners,  \* which of these two users give their ExternalSecrets
  SpecsOf,     \* SpecsOf[c]: the specs users give c
  Workers,     \* --concurrent
  CanRestart,  \* whether the controller process may die
  MaxEnv,      \* bound on user and restart steps
  MaxFaults    \* bound on failing API calls

SpecType == [name : Names, sel : Labels, tmpl : Templates]
CESType == [exists : BOOLEAN, spec : SpecType, prov : SUBSET NS]
Places == Names \X NS
ESType == [exists : BOOLEAN, owner : CES \cup {NoOwner, Stranger},
           spec : Templates \cup {UserSpec}]

ASSUME ClusterAssumption ==
  /\ SpecsOf \in [CES -> SUBSET SpecType]
  /\ \A c \in CES : SpecsOf[c] # {}
  /\ UserSpec \notin Templates /\ NoNS \notin NS
  /\ NoOwner \notin CES /\ Stranger \notin CES /\ NoOwner # Stranger
  /\ UserOwners \subseteq {NoOwner, Stranger}
  /\ Workers \in Nat /\ CanRestart \in BOOLEAN
  /\ MaxEnv \in Nat /\ MaxFaults \in Nat

VARIABLES
  ces, cesCache,  \* ClusterExternalSecrets: at the server, in the informer
  es, esCache,    \* ExternalSecrets: at the server, in the informer
  labels,         \* the labels of the namespaces
  pc, job,        \* the reconcile of each ClusterExternalSecret
  queue, timer,
  env, faults

vars == <<ces, cesCache, es, esCache, labels, pc, job, queue, timer, env, faults>>

Gone == [exists |-> FALSE, owner |-> NoOwner, spec |-> UserSpec]
NoJob(c) == [ces |-> [exists |-> FALSE, spec |-> CHOOSE s \in SpecsOf[c] : TRUE, prov |-> {}],
             list |-> {}, todo |-> {}, at |-> NoNS, got |-> Gone,
             prov |-> {}]
JobType == [ces : CESType, list : SUBSET NS, todo : SUBSET NS, at : NS \cup {NoNS},
            got : ESType, prov : SUBSET NS]

Init ==
  /\ \E s \in [CES -> UNION {SpecsOf[c] : c \in CES}] :
       /\ \A c \in CES : s[c] \in SpecsOf[c]
       /\ ces = [c \in CES |-> [exists |-> TRUE, spec |-> s[c], prov |-> {}]]
  /\ cesCache = ces
  /\ es = [x \in Places |-> Gone] /\ esCache = es
  /\ labels \in [NS -> SUBSET Labels]
  /\ pc = [c \in CES |-> "idle"]
  /\ job = [c \in CES |-> NoJob(c)]
  /\ queue = CES /\ timer = {}
  /\ env = 0 /\ faults = 0

Matching(spec) == {n \in NS : spec.sel \in labels[n]}
Place(c, n) == <<job[c].ces.spec.name, n>>
Here(c) == Place(c, job[c].at)
Fault == faults < MaxFaults /\ faults' = faults + 1

Goto(c, label) == pc' = [pc EXCEPT ![c] = label]

-----------------------------------------------------------------------------
Ready(c) ==
  /\ c \in queue /\ pc[c] = "idle"
  /\ Cardinality({d \in CES : pc[d] # "idle"}) < Workers
Dequeued(c) == Ready(c) /\ queue' = queue \ {c}

SkipGone(c) ==
  /\ Dequeued(c) /\ ~cesCache[c].exists
  /\ UNCHANGED <<ces, cesCache, es, esCache, labels, pc, job, timer, env, faults>>

\* The namespaces that were provisioned and match no more.
getRemovedNamespaces(nsList, provisionedNs) == provisionedNs \ nsList

\* An invalid selector or a failing List: the key comes back at once.
ListFails(c) ==
  /\ Ready(c) /\ cesCache[c].exists
  /\ Fault
  /\ UNCHANGED <<ces, cesCache, es, esCache, labels, pc, job, queue, timer, env>>

\* The namespaces are listed; removeOldNamespaces comes first.
List(c) ==
  LET o == cesCache[c]
      list == Matching(o.spec)
  IN /\ Dequeued(c) /\ o.exists
     /\ job' = [job EXCEPT ![c] = [NoJob(c) EXCEPT !.ces = o, !.list = list,
                                                   !.todo = getRemovedNamespaces(list, o.prov)]]
     /\ Goto(c, "remove")
     /\ UNCHANGED <<ces, cesCache, es, esCache, labels, timer, env, faults>>

-----------------------------------------------------------------------------
(* removeExternalSecret, one namespace after the other. *)

Removing(c, n) == pc[c] = "remove" /\ n \in job[c].todo

\* checkForError: nobody owns it.  Any owner reference will do otherwise.
Unowned(o) == o.exists /\ o.owner = NoOwner

\* Nothing there, or refused because nobody owns it (the namespace fails).
NotRemoved(c, n) ==
  /\ Removing(c, n)
  /\ ~esCache[Place(c, n)].exists \/ Unowned(esCache[Place(c, n)])
  /\ job' = [job EXCEPT ![c].todo = @ \ {n}]
  /\ UNCHANGED <<ces, cesCache, es, esCache, labels, pc, queue, timer, env, faults>>

FoundToRemove(c, n) ==
  /\ Removing(c, n)
  /\ esCache[Place(c, n)].exists /\ ~Unowned(esCache[Place(c, n)])
  /\ job' = [job EXCEPT ![c].todo = @ \ {n}, ![c].at = n]
  /\ Goto(c, "delete")
  /\ UNCHANGED <<ces, cesCache, es, esCache, labels, queue, timer, env, faults>>

\* A write of an ExternalSecret wakes the controlling owner: Owns.
Put(x, v) ==
  /\ es' = [es EXCEPT ![x] = v]
  /\ queue' = queue \cup (CES \cap {es[x].owner, v.owner})

BackToRemoving(c) ==
  /\ job' = [job EXCEPT ![c].at = NoNS]
  /\ Goto(c, "remove")

\* Whatever has the name now is deleted, without precondition.
DeleteES(c) ==
  /\ pc[c] = "delete" /\ es[Here(c)].exists
  /\ Put(Here(c), Gone)
  /\ BackToRemoving(c)
  /\ UNCHANGED <<ces, cesCache, esCache, labels, timer, env, faults>>

\* The failure is reported; the namespace is not kept for another try.
DeleteESFails(c) ==
  /\ pc[c] = "delete"
  /\ (~es[Here(c)].exists /\ UNCHANGED faults) \/ Fault
  /\ BackToRemoving(c)
  /\ UNCHANGED <<ces, cesCache, es, esCache, labels, queue, timer, env>>

RemoveDone(c) ==
  /\ pc[c] = "remove" /\ job[c].todo = {}
  /\ job' = [job EXCEPT ![c].todo = job[c].list]
  /\ Goto(c, "provision")
  /\ UNCHANGED <<ces, cesCache, es, esCache, labels, queue, timer, env, faults>>

-----------------------------------------------------------------------------
(* resolveExternalSecret for every matching namespace. *)

\* checkForError, then SetControllerReference on the copy that was read.
BelongsToOther(c, o) == Unowned(o) \/ (o.exists /\ o.owner \in CES \ {c})

Conflicting(c, n) ==
  /\ pc[c] = "provision" /\ n \in job[c].todo
  /\ BelongsToOther(c, esCache[Place(c, n)])
  /\ job' = [job EXCEPT ![c].todo = @ \ {n}]
  /\ UNCHANGED <<ces, cesCache, es, esCache, labels, pc, queue, timer, env, faults>>

Resolve(c, n) ==
  /\ pc[c] = "provision" /\ n \in job[c].todo
  /\ ~BelongsToOther(c, esCache[Place(c, n)])
  /\ job' = [job EXCEPT ![c].todo = @ \ {n}, ![c].at = n]
  /\ Goto(c, "get")
  /\ UNCHANGED <<ces, cesCache, es, esCache, labels, queue, timer, env, faults>>

Template(c) == job[c].ces.spec.tmpl
Provisioned(c) ==
  /\ job' = [job EXCEPT ![c].prov = @ \cup {job[c].at}, ![c].got = Gone, ![c].at = NoNS]
  /\ Goto(c, "provision")
ProvisionFailed(c) ==
  /\ job' = [job EXCEPT ![c].got = Gone, ![c].at = NoNS]
  /\ Goto(c, "provision")

\* CreateOrUpdate reads again, this time without looking at the owner.
GetES(c) ==
  /\ pc[c] = "get"
  /\ LET o == esCache[Here(c)] IN
       \/ o.exists /\ o.spec = Template(c) /\ Provisioned(c)
       \/ /\ ~(o.exists /\ o.spec = Template(c))
          /\ job' = [job EXCEPT ![c].got = o] /\ Goto(c, "write")
  /\ UNCHANGED <<ces, cesCache, es, esCache, labels, queue, timer, env, faults>>

\* A Create that finds the name free, an Update of the copy the server has.
Accepted(c) == IF job[c].got.exists THEN es[Here(c)] = job[c].got ELSE ~es[Here(c)].exists

Written_TakesOver(c) == [exists |-> TRUE, owner |-> c, spec |-> Template(c)]

\* The mutate function sets the spec; what is created is controlled by c.
Written(c) ==
  IF job[c].got.exists THEN [job[c].got EXCEPT !.spec = Template(c)]
  ELSE [exists |-> TRUE, owner |-> c, spec |-> Template(c)]

CreateOrUpdate(c) ==
  /\ pc[c] = "write" /\ Accepted(c)
  /\ Put(Here(c), Written(c))
  /\ (Provisioned(c) /\ UNCHANGED faults) \/ (ProvisionFailed(c) /\ Fault)
  /\ UNCHANGED <<ces, cesCache, esCache, labels, timer, env>>

CreateOrUpdateFails(c) ==
  /\ pc[c] = "write"
  /\ (~Accepted(c) /\ UNCHANGED faults) \/ Fault
  /\ ProvisionFailed(c)
  /\ UNCHANGED <<ces, cesCache, es, esCache, labels, queue, timer, env>>

-----------------------------------------------------------------------------
(* The status. *)

\* An empty list is not written over the one of an earlier reconcile.
NewProvisioned(c) == IF job[c].prov = {} THEN job[c].ces.prov ELSE job[c].prov

\* The merge patch carries the list if it differs from the copy that was read.
MergePatch(server, read, new) == IF new = read THEN server ELSE new

Returns_NoRequeue(c) ==
  /\ Goto(c, "idle")
  /\ job' = [job EXCEPT ![c] = NoJob(c)]
  /\ UNCHANGED timer

Returns_KeepsJob(c) ==
  /\ Goto(c, "idle")
  /\ UNCHANGED job
  /\ timer' = timer \cup {c}

Returns(c) ==
  /\ Goto(c, "idle")
  /\ job' = [job EXCEPT ![c] = NoJob(c)]
  /\ timer' = timer \cup {c}

Finishing(c) == pc[c] = "provision" /\ job[c].todo = {}

PatchStatus(c) ==
  /\ Finishing(c) /\ ces[c].exists
  /\ ces' = [ces EXCEPT ![c].prov = MergePatch(@, job[c].ces.prov, NewProvisioned(c))]
  /\ Returns(c)
  /\ UNCHANGED <<cesCache, es, esCache, labels, queue, env, faults>>

\* A failing patch is logged.
PatchStatusFails(c) ==
  /\ Finishing(c)
  /\ (~ces[c].exists /\ UNCHANGED faults) \/ Fault
  /\ Returns(c)
  /\ UNCHANGED <<ces, cesCache, es, esCache, labels, queue, env>>

-----------------------------------------------------------------------------
(* The runtime. *)

InformerSync(c) ==
  /\ cesCache[c] # ces[c]
  /\ cesCache' = [cesCache EXCEPT ![c] = ces[c]]
  /\ queue' = queue \cup {c}
  /\ UNCHANGED <<ces, es, esCache, labels, pc, job, timer, env, faults>>

CacheES(x) ==
  /\ esCache[x] # es[x]
  /\ esCache' = [esCache EXCEPT ![x] = es[x]]
  /\ UNCHANGED <<ces, cesCache, es, labels, pc, job, queue, timer, env, faults>>

TimerFires(c) ==
  /\ c \in timer
  /\ timer' = timer \ {c} /\ queue' = queue \cup {c}
  /\ UNCHANGED <<ces, cesCache, es, esCache, labels, pc, job, env, faults>>

GarbageCollect(x) ==
  /\ es[x].owner \in CES /\ ~ces[es[x].owner].exists
  /\ Put(x, Gone)
  /\ UNCHANGED <<ces, cesCache, esCache, labels, pc, job, timer, env, faults>>

(* Users, crashes. *)

Outside == env < MaxEnv /\ env' = env + 1

EditSpec(c) ==
  /\ Outside /\ ces[c].exists
  /\ \E s \in SpecsOf[c] \ {ces[c].spec} : ces' = [ces EXCEPT ![c].spec = s]
  /\ UNCHANGED <<cesCache, es, esCache, labels, pc, job, queue, timer, faults>>

DeleteCES(c) ==
  /\ Outside /\ ces[c].exists
  /\ ces' = [ces EXCEPT ![c].exists = FALSE]
  /\ UNCHANGED <<cesCache, es, esCache, labels, pc, job, queue, timer, faults>>

Relabel(n) ==
  /\ Outside
  /\ \E l \in SUBSET Labels \ {labels[n]} : labels' = [labels EXCEPT ![n] = l]
  /\ UNCHANGED <<ces, cesCache, es, esCache, pc, job, queue, timer, faults>>

UserWrites(x, v) ==
  /\ Outside
  /\ Put(x, v)
  /\ UNCHANGED <<ces, cesCache, esCache, labels, pc, job, timer, faults>>

UserCreates(x) ==
  /\ ~es[x].exists
  /\ \E w \in UserOwners : UserWrites(x, [exists |-> TRUE, owner |-> w, spec |-> UserSpec])
UserEdits(x) ==
  /\ es[x].exists /\ es[x].spec # UserSpec
  /\ UserWrites(x, [es[x] EXCEPT !.spec = UserSpec])
UserDeletes(x) == es[x].exists /\ UserWrites(x, Gone)

Restart ==
  /\ CanRestart /\ Outside
  /\ pc' = [c \in CES |-> "idle"] /\ job' = [c \in CES |-> NoJob(c)]
  /\ queue' = {c \in CES : ces[c].exists} /\ timer' = {}
  /\ cesCache' = ces /\ esCache' = es
  /\ UNCHANGED <<ces, es, labels, faults>>

-----------------------------------------------------------------------------
Begin(c) == SkipGone(c) \/ ListFails(c) \/ List(c)
Remove(c) ==
  \/ \E n \in NS : NotRemoved(c, n) \/ FoundToRemove(c, n)
  \/ DeleteES(c) \/ DeleteESFails(c) \/ RemoveDone(c)
Provision(c) ==
  \/ \E n \in NS : Conflicting(c, n) \/ Resolve(c, n)
  \/ GetES(c) \/ CreateOrUpdate(c) \/ CreateOrUpdateFails(c)
Finish(c) == PatchStatus(c) \/ PatchStatusFails(c)
InFlight(c) == Remove(c) \/ Provision(c) \/ Finish(c)
User(x) == UserCreates(x) \/ UserEdits(x) \/ UserDeletes(x)

Next ==
  \/ \E c \in CES : \/ Begin(c) \/ InFlight(c) \/ InformerSync(c) \/ TimerFires(c)
                    \/ EditSpec(c) \/ DeleteCES(c)
  \/ \E x \in Places : CacheES(x) \/ GarbageCollect(x) \/ User(x)
  \/ \E n \in NS : Relabel(n)
  \/ Restart

\* As for ExternalSecrets: the workqueue is served in order, reconciles run on,
\* informers deliver, timers fire and the garbage collector collects.
Fairness ==
  /\ \A c \in CES : /\ SF_vars(Begin(c)) /\ WF_vars(InFlight(c))
                    /\ WF_vars(InformerSync(c)) /\ WF_vars(TimerFires(c))
  /\ \A x \in Places : WF_vars(CacheES(x)) /\ WF_vars(GarbageCollect(x))

Spec == Init /\ [][Next]_vars
FairSpec == Spec /\ Fairness

-----------------------------------------------------------------------------
(* Properties. *)

\* Types of the variables; a reconcile that has returned leaves nothing behind.
TypeOK ==
  /\ ces \in [CES -> CESType] /\ cesCache \in [CES -> CESType]
  /\ es \in [Places -> ESType] /\ esCache \in [Places -> ESType]
  /\ labels \in [NS -> SUBSET Labels]
  /\ pc \in [CES -> {"idle", "remove", "delete", "provision", "get", "write"}]
  /\ job \in [CES -> JobType]
  /\ \A c \in CES : pc[c] = "idle" => job[c] = NoJob(c)
  /\ queue \subseteq CES /\ timer \subseteq CES
  /\ env \in 0..MaxEnv /\ faults \in 0..MaxFaults

\* An ExternalSecret never changes hands while it exists: whatever copy a
\* reconcile works on, stale or of a namesake that is gone, its write cannot
\* make the ExternalSecret of a user or of another ClusterExternalSecret its own,
\* nor give its own away.
OwnerNeverChanges ==
  [][\A x \in Places : es[x].exists /\ es'[x].exists => es'[x].owner = es[x].owner]_vars

\* Nobody else has an ExternalSecret of that name there.
Free(c, x) == es[x].exists => es[x].owner = c

\* "This will decide how often to check and make sure that the ExternalSecrets
\* exist in the matching namespaces": once users are quiet every matching
\* namespace has the ExternalSecret, with the current spec and listed as
\* provisioned, for good; and a deleted ClusterExternalSecret takes its
\* ExternalSecrets along, also the one a reconcile creates while it is deleted.
InPlace(c, n) ==
  LET x == <<ces[c].spec.name, n>> IN
  (n \in Matching(ces[c].spec) /\ Free(c, x))
  => es[x].exists /\ es[x].spec = ces[c].spec.tmpl /\ n \in ces[c].prov
AllProvisioned ==
  \A c \in CES :
    <>[](IF ces[c].exists THEN \A n \in NS : InPlace(c, n)
         ELSE \A x \in Places : es[x].owner # c)

=============================================================================
