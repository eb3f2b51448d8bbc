----------------------------- MODULE PushSecret -----------------------------
(***************************************************************************)
(* The PushSecret controller (pkg/controllers/pushsecret): it pushes keys  *)
(* of a Secret to stores, remembers what it pushed in                      *)
(* status.syncedPushSecrets and, with deletionPolicy=Delete, removes what  *)
(* is no longer wanted, guarded by a finalizer.                            *)
(*                                                                         *)
(* One PushSecret.  A pushed secret is a <<store, remote key>>; a store    *)
(* entry of syncedPushSecrets is the set of its pairs.  Pairs are visited   *)
(* in any order: the code ranges over Go maps of stores and of keys, and   *)
(* that it finishes one store before the next is not used.  An Update is   *)
(* refused unless the copy it is based on is the server's: the copies are  *)
(* compared instead of a resourceVersion.  The refresh interval is not 0.  *)
(***************************************************************************)
EXTENDS Naturals, FiniteSets

CONSTANTS
  Stores, Keys, Vals,
  Absent,      \* no such key, no such remote secret
  Foreign,     \* a remote secret that is not managed by external-secrets
  Specs,       \* the specs users give: [policy, stores, data]
  CanRestart,  \* whether the controller process may die
  MaxEnv,      \* bound on user, provider and restart steps
  MaxFaults    \* bound on failing API and provider calls

Pairs == Stores \X Keys
SpecType == [policy : {"Delete", "None"}, stores : SUBSET Stores, data : SUBSET Keys]
PSType == [exists : BOOLEAN, deleting : BOOLEAN, fin : BOOLEAN, spec : SpecType,
           synced : SUBSET Pairs]

ASSUME PushAssumption ==
  /\ Specs \subseteq SpecType /\ Specs # {}
  /\ Absent \notin Vals /\ Foreign \notin Vals /\ Absent # Foreign
  /\ CanRestart \in BOOLEAN /\ MaxEnv \in Nat /\ MaxFaults \in Nat

VARIABLES
  ps, cache,   \* the PushSecret at the API server, and the informer's copy
  source,      \* data of the Secret to push; all keys Absent: no such Secret
  up,          \* stores that exist and give a client; of the others some are
               \* missing and some exist but give no client
  remote,      \* what the stores hold
  pc, job,     \* the reconcile
  queue, timer,
  env, faults

vars == <<ps, cache, source, up, remote, pc, job, queue, timer, env, faults>>
outside == <<source, up, env>>

StoresOf(pairs) == {p[1] : p \in pairs}
Wanted(spec) == spec.stores \X spec.data
NoSecret == [k \in Keys |-> Absent]

Idle == [ps |-> [exists |-> FALSE, deleting |-> FALSE, fin |-> FALSE,
                 spec |-> CHOOSE s \in Specs : TRUE, synced |-> {}],
         data |-> NoSecret, todo |-> {}, done |-> {}, out |-> {},
         new |-> {}, result |-> "none"]
JobType == [ps : PSType, data : [Keys -> Vals \cup {Absent}], todo : SUBSET Pairs,
            done : SUBSET Pairs, out : SUBSET Pairs, new : SUBSET Pairs,
            result : {"none", "after", "error"}]

Init ==
  /\ \E s \in Specs : ps = [exists |-> TRUE, deleting |-> FALSE, fin |-> FALSE,
                            spec |-> s, synced |-> {}]
  /\ cache = ps
  /\ source \in [Keys -> Vals \cup {Absent}]
  /\ up = Stores
  /\ remote = [p \in Pairs |-> Absent]
  /\ pc = "idle" /\ job = Idle
  /\ queue = TRUE /\ timer = FALSE
  /\ env = 0 /\ faults = 0

Fault == faults < MaxFaults /\ faults' = faults + 1
Dequeued == queue /\ pc = "idle" /\ queue' = FALSE

\* The reconcile is over but for the deferred Status().Patch.
Ends(new, result) ==
  /\ pc' = "finish"
  /\ job' = [job EXCEPT !.new = new, !.result = result]

\* An error before anything was pushed: the synced secrets stay as they are.
EndsAtOnce ==
  /\ pc' = "finish"
  /\ job' = [Idle EXCEPT !.ps = cache, !.new = cache.synced, !.result = "error"]

-----------------------------------------------------------------------------
(* Reconcile up to the first provider call. *)

SkipGone ==
  /\ Dequeued /\ ~cache.exists
  /\ UNCHANGED <<ps, cache, outside, remote, pc, job, timer, faults>>

NeedsFinalizer == cache.exists /\ cache.spec.policy = "Delete" /\ ~cache.deleting /\ ~cache.fin
NeedsCleanup == cache.exists /\ cache.spec.policy = "Delete" /\ cache.deleting /\ cache.fin

\* The update event will bring the PushSecret back.
AddFinalizer ==
  /\ Dequeued /\ NeedsFinalizer /\ ps = cache
  /\ ps' = [ps EXCEPT !.fin = TRUE]
  /\ UNCHANGED <<cache, outside, remote, pc, job, timer, faults>>

AddFinalizerFails ==
  /\ Dequeued /\ NeedsFinalizer
  /\ \/ ps # cache /\ UNCHANGED faults
     \/ ps = cache /\ Fault
  /\ EndsAtOnce
  /\ UNCHANGED <<ps, cache, outside, remote, timer>>

\* DeleteSecretFromProviders with an empty map of new secrets.
StartCleanup ==
  /\ Dequeued /\ NeedsCleanup
  /\ pc' = "clean"
  /\ job' = [Idle EXCEPT !.ps = cache, !.todo = cache.synced, !.out = cache.synced]
  /\ UNCHANGED <<ps, cache, outside, remote, timer, faults>>

\* Anything else pushes: deletionPolicy=None does so even while deleting.
Pushes == cache.exists /\ ~NeedsFinalizer /\ ~NeedsCleanup

StartPush ==
  /\ Dequeued /\ Pushes /\ source # NoSecret
  /\ pc' = "push"
  /\ job' = [Idle EXCEPT !.ps = cache, !.data = source, !.todo = Wanted(cache.spec)]
  /\ UNCHANGED <<ps, cache, outside, remote, timer, faults>>

\* No source Secret, a store that does not exist (of those that are not up), or
\* a failing read: only the condition changes.
StartFails ==
  /\ Dequeued /\ Pushes
  /\ \/ (source = NoSecret \/ ~(cache.spec.stores \subseteq up)) /\ UNCHANGED faults
     \/ Fault
  /\ EndsAtOnce
  /\ UNCHANGED <<ps, cache, outside, remote, timer>>

-----------------------------------------------------------------------------
(* PushSecretToProviders. *)

\* A provider refuses to overwrite a secret it does not manage.
PushSecretToStore(p) ==
  /\ pc = "push" /\ p \in job.todo /\ p[1] \in up
  /\ job.data[p[2]] # Absent /\ remote[p] # Foreign
  /\ remote' = [remote EXCEPT ![p] = job.data[p[2]]]
  /\ job' = [job EXCEPT !.todo = @ \ {p}, !.done = @ \cup {p}]
  /\ UNCHANGED <<ps, cache, outside, pc, queue, timer, faults>>

mergeSecretState_New(new, old) == new

mergeSecretState(new, old) == new \cup old

\* What was pushed before the failure is added to what was known.
PushFails ==
  /\ pc = "push"
  /\ \/ /\ \E p \in job.todo : p[1] \notin up \/ job.data[p[2]] = Absent \/ remote[p] = Foreign
        /\ UNCHANGED faults
     \/ job.todo # {} /\ Fault
  /\ Ends(mergeSecretState(job.done, job.ps.synced), "error")
  /\ UNCHANGED <<ps, cache, outside, remote, queue, timer>>

\* A provider call that succeeded remotely and failed locally.
PushReplyLost(p) ==
  /\ pc = "push" /\ p \in job.todo /\ p[1] \in up
  /\ job.data[p[2]] # Absent /\ remote[p] # Foreign
  /\ Fault
  /\ remote' = [remote EXCEPT ![p] = job.data[p[2]]]
  /\ Ends(mergeSecretState(job.done, job.ps.synced), "error")
  /\ UNCHANGED <<ps, cache, outside, queue, timer>>

PushDone ==
  /\ pc = "push" /\ job.todo = {}
  /\ \/ /\ job.ps.spec.policy = "Delete"
        /\ pc' = "clean"
        /\ job' = [job EXCEPT !.todo = job.ps.synced \ job.done,
                              !.out = mergeSecretState(job.done, job.ps.synced)]
     \/ /\ job.ps.spec.policy = "None"
        /\ Ends(job.done, "after")
  /\ UNCHANGED <<ps, cache, outside, remote, queue, timer, faults>>

-----------------------------------------------------------------------------
(* DeleteSecretFromProviders. *)

\* The pairs that leave the map when p has been deleted: p alone if its store
\* is still pushed to, else the whole store once its last secret is gone.
Forgotten(p) ==
  IF p[1] \in StoresOf(job.done) THEN {p}
  ELSE IF \E q \in job.todo : q[1] = p[1] /\ q # p THEN {}
  ELSE {q \in job.out : q[1] = p[1]}

\* A provider leaves alone what it does not manage, without an error.
DeleteSecretFromStore(p) ==
  /\ pc = "clean" /\ p \in job.todo /\ p[1] \in up
  /\ remote' = [remote EXCEPT ![p] = IF @ = Foreign THEN @ ELSE Absent]
  /\ job' = [job EXCEPT !.todo = @ \ {p}, !.out = @ \ Forgotten(p)]
  /\ UNCHANGED <<ps, cache, outside, pc, queue, timer, faults>>

\* Every store of the old map needs a client, with or without secrets to delete.
DeleteFails ==
  /\ pc = "clean"
  /\ \/ ~(StoresOf(job.ps.synced) \subseteq up) /\ UNCHANGED faults
     \/ job.todo # {} /\ Fault
  /\ Ends(job.out, "error")
  /\ UNCHANGED <<ps, cache, outside, remote, queue, timer>>

DeleteDone ==
  /\ pc = "clean" /\ job.todo = {} /\ StoresOf(job.ps.synced) \subseteq up
  /\ \/ /\ job.ps.deleting /\ job.ps.fin
        /\ pc' = "release" /\ UNCHANGED job
     \/ /\ ~(job.ps.deleting /\ job.ps.fin)
        /\ Ends(job.done, "after")
  /\ UNCHANGED <<ps, cache, outside, remote, queue, timer, faults>>

Returns_KeepsJob == pc' = "idle" /\ UNCHANGED job

Returns == pc' = "idle" /\ job' = Idle

RemoveFinalizer_NoLock ==
  /\ pc = "release"
  /\ ps' = [ps EXCEPT !.fin = FALSE, !.exists = FALSE]
  /\ Returns
  /\ UNCHANGED <<cache, outside, remote, queue, timer, faults>>

\* The last finalizer gone, the API server drops the PushSecret.
RemoveFinalizer ==
  /\ pc = "release" /\ ps = job.ps
  /\ ps' = [ps EXCEPT !.fin = FALSE, !.exists = FALSE]
  /\ Returns
  /\ UNCHANGED <<cache, outside, remote, queue, timer, faults>>

RemoveFinalizerFails_NoRetry ==
  /\ pc = "release"
  /\ \/ ps # job.ps /\ UNCHANGED faults
     \/ ps = job.ps /\ Fault
  /\ Returns
  /\ UNCHANGED <<ps, cache, outside, remote, queue, timer>>

RemoveFinalizerFails ==
  /\ pc = "release"
  /\ \/ ps # job.ps /\ UNCHANGED faults
     \/ ps = job.ps /\ Fault
  /\ Returns /\ queue' = TRUE
  /\ UNCHANGED <<ps, cache, outside, remote, timer>>

-----------------------------------------------------------------------------
(* The deferred status patch and the end of the reconcile. *)

\* The merge patch adds the entries that are new against the copy that was read
\* and removes those that are missing.  A store that is missing altogether, or
\* the whole list when it becomes empty (omitempty), is removed with all that
\* the server has there, the entries that the copy did not show included;
\* elsewhere the server keeps what it has.
DroppedStores(read, new) ==
  IF new = {} /\ read # {} THEN Stores ELSE StoresOf(read) \ StoresOf(new)
MergePatch(server, read, new) ==
  ({p \in server : p[1] \notin DroppedStores(read, new)} \cup (new \ read)) \ (read \ new)

Requeue_Never == UNCHANGED <<queue, timer>>

Requeue ==
  \/ job.result = "error" /\ queue' = TRUE /\ UNCHANGED timer
  \/ job.result = "after" /\ timer' = TRUE /\ UNCHANGED queue

PatchStatus ==
  /\ pc = "finish" /\ ps.exists
  /\ ps' = [ps EXCEPT !.synced = MergePatch(@, job.ps.synced, job.new)]
  /\ Requeue /\ Returns
  /\ UNCHANGED <<cache, outside, remote, faults>>

\* A failing patch is logged and what was pushed is forgotten.
PatchStatusFails ==
  /\ pc = "finish"
  /\ \/ ~ps.exists /\ UNCHANGED faults
     \/ ps.exists /\ Fault
  /\ Requeue /\ Returns
  /\ UNCHANGED <<ps, cache, outside, remote>>

-----------------------------------------------------------------------------
(* The runtime, users, the provider. *)

InformerSync ==
  /\ cache # ps
  /\ cache' = ps /\ queue' = TRUE
  /\ UNCHANGED <<ps, outside, remote, pc, job, timer, faults>>

TimerFires ==
  /\ timer
  /\ timer' = FALSE /\ queue' = TRUE
  /\ UNCHANGED <<ps, cache, outside, remote, pc, job, faults>>

Outside == env < MaxEnv /\ env' = env + 1

EditSpec ==
  /\ Outside /\ ps.exists
  /\ \E s \in Specs \ {ps.spec} : ps' = [ps EXCEPT !.spec = s]
  /\ UNCHANGED <<cache, source, up, remote, pc, job, queue, timer, faults>>

\* With a finalizer the PushSecret stays, marked for deletion.
DeletePS ==
  /\ Outside /\ ps.exists /\ ~ps.deleting
  /\ ps' = IF ps.fin THEN [ps EXCEPT !.deleting = TRUE] ELSE [ps EXCEPT !.exists = FALSE]
  /\ UNCHANGED <<cache, source, up, remote, pc, job, queue, timer, faults>>

SourceChanges ==
  /\ Outside
  /\ \E k \in Keys, v \in Vals \cup {Absent} :
       v # source[k] /\ source' = [source EXCEPT ![k] = v]
  /\ UNCHANGED <<ps, cache, up, remote, pc, job, queue, timer, faults>>

StoreChanges ==
  /\ Outside
  /\ \E s \in Stores : up' = IF s \in up THEN up \ {s} ELSE up \cup {s}
  /\ UNCHANGED <<ps, cache, source, remote, pc, job, queue, timer, faults>>

\* Somebody creates a remote secret under one of the names.
ForeignAppears ==
  /\ Outside
  /\ \E p \in Pairs : remote[p] = Absent /\ remote' = [remote EXCEPT ![p] = Foreign]
  /\ UNCHANGED <<ps, cache, source, up, pc, job, queue, timer, faults>>

Restart ==
  /\ CanRestart /\ Outside
  /\ Returns
  /\ queue' = ps.exists /\ timer' = FALSE /\ cache' = ps
  /\ UNCHANGED <<ps, source, up, remote, faults>>

-----------------------------------------------------------------------------
Begin == SkipGone \/ AddFinalizer \/ AddFinalizerFails \/ StartCleanup \/ StartPush \/ StartFails
Push == PushFails \/ PushDone \/ \E p \in Pairs : PushSecretToStore(p) \/ PushReplyLost(p)
Clean == DeleteFails \/ DeleteDone \/ \E p \in Pairs : DeleteSecretFromStore(p)
Finish == RemoveFinalizer \/ RemoveFinalizerFails \/ PatchStatus \/ PatchStatusFails
Reconcile == Begin \/ Push \/ Clean \/ Finish
Next ==
  \/ Reconcile \/ InformerSync \/ TimerFires
  \/ EditSpec \/ DeletePS \/ SourceChanges \/ StoreChanges \/ ForeignAppears \/ Restart

\* The controller keeps working, its informer delivers and its timer fires.
Fairness == WF_vars(Reconcile) /\ WF_vars(InformerSync) /\ WF_vars(TimerFires)

Spec == Init /\ [][Next]_vars
FairSpec == Spec /\ Fairness

-----------------------------------------------------------------------------
(* Properties. *)

Ours(p) == remote[p] \in Vals

\* Types of the variables; a reconcile that has returned leaves nothing of its
\* work behind for the next one.
TypeOK ==
  /\ ps \in PSType /\ cache \in PSType
  /\ source \in [Keys -> Vals \cup {Absent}] /\ up \subseteq Stores
  /\ remote \in [Pairs -> Vals \cup {Absent, Foreign}]
  /\ pc \in {"idle", "push", "clean", "release", "finish"} /\ job \in JobType
  /\ pc = "idle" => job = Idle
  /\ queue \in BOOLEAN /\ timer \in BOOLEAN
  /\ env \in 0..MaxEnv /\ faults \in 0..MaxFaults

\* The finalizer is taken off only when every secret the server's status lists
\* is gone from its store, although the list that was worked through is a copy
\* that edits and the previous reconcile's status patch may have overtaken.
FinalizerHolds ==
  [][(ps.exists /\ ps.fin /\ ~ps'.exists) => \A p \in ps.synced : ~Ours(p)]_vars

\* A reconcile that fails half-way does not lose track: what it has pushed is in
\* the status it is about to write, and nothing is dropped from it that is still
\* in a store.
PartialPushTracked ==
  pc = "finish" =>
    /\ \A p \in job.done : p \in job.new
    /\ job.ps.spec.policy = "Delete" =>
         \A p \in job.ps.synced \ job.new : ~Ours(p)

Servable ==
  /\ ps.exists /\ ~ps.deleting
  /\ ps.spec.stores \cup StoresOf(ps.synced) \subseteq up
  /\ \A p \in Wanted(ps.spec) : source[p[2]] # Absent /\ remote[p] # Foreign
  /\ source # NoSecret

\* Once users are quiet every wanted secret ends up, for good, in its store with
\* the current value, and with deletionPolicy=Delete the status lists exactly the
\* wanted ones: what it listed beyond them has been deleted.
Converges ==
  <>[](Servable =>
         /\ \A p \in Wanted(ps.spec) : remote[p] = source[p[2]]
         /\ ps.spec.policy = "Delete" => ps.synced = Wanted(ps.spec))

\* A PushSecret that is being deleted with deletionPolicy=Delete goes away as
\* long as its stores can be reached.
DeletionCompletes ==
  <>[](ps.spec.policy = "Delete" /\ StoresOf(ps.synced) \subseteq up
         => ~(ps.exists /\ ps.deleting))

=============================================================================
