---------------------------- MODULE ClientManager ---------------------------
(***************************************************************************)
(* secretstore.Manager, which every reconcile creates to hand out provider *)
(* clients and closes when it returns, together with the process-wide      *)
(* mutex of the GCP provider: NewClient locks it and Close unlocks it, so  *)
(* a client that stays open blocks every other reconcile that needs GCP.   *)
(*                                                                         *)
(* A store is its name with a generation and an incarnation: deleting and  *)
(* re-creating it gives a new incarnation whose generation starts at 1.    *)
(***************************************************************************)
EXTENDS Naturals, FiniteSets

CONSTANTS
  Procs,            \* concurrent reconciles (ExternalSecret, PushSecret, stores)
  Stores, Types,    \* store names and provider types
  TypeOf,           \* TypeOf[s]: the provider a store is configured for
  GCP,              \* the provider type that is guarded by useMu
  None,             \* no client, no holder
  MaxRefs,          \* refs one reconcile resolves
  MaxEdits,         \* store edits and re-creations
  Referent          \* those Procs that validate a ClusterSecretStore whose
                    \* credentials are looked up in the referring namespace

Version == [name : Stores, gen : Nat, inc : Nat]

ASSUME ManagerAssumption ==
  /\ TypeOf \in [Stores -> Types]
  /\ GCP \in Types /\ None \notin Procs /\ None \notin Version
  /\ MaxRefs \in Nat \ {0} /\ MaxEdits \in Nat
  /\ Referent \subseteq Procs

VARIABLES
  store,      \* generation and incarnation of every store
  pc,         \* where each reconcile is
  want,       \* the store version its current ref resolved to
  clientMap,  \* its Manager.clientMap: the store version a client was built for
  opened,     \* clients of each type it has constructed and not closed
  useMu,      \* holder of the GCP mutex
  fatal,      \* what ended the process: a second Unlock, a panic, or nothing yet
  nilClient,  \* reconciles whose GCP client wraps a nil *secretmanager.Client
  refs, edits

vars == <<nilClient, store, pc, want, clientMap, opened, useMu, fatal, refs, edits>>

Init ==
  /\ store = [s \in Stores |-> [gen |-> 1, inc |-> 1]]
  /\ pc = [p \in Procs |-> "idle"]
  /\ want = [p \in Procs |-> None]
  /\ clientMap = [p \in Procs |-> [t \in Types |-> None]]
  /\ opened = [p \in Procs |-> [t \in Types |-> 0]]
  /\ useMu = None /\ fatal = "no" /\ nilClient = {}
  /\ refs = [p \in Procs |-> 0] /\ edits = 0

Goto(p, label) == pc' = [pc EXCEPT ![p] = label]
At(p, label) == pc[p] = label /\ fatal = "no"
storeKey(p) == TypeOf[want[p].name]
Stored(p) == clientMap[p][storeKey(p)]

-----------------------------------------------------------------------------
NewManager(p) ==
  /\ At(p, "idle")
  /\ Goto(p, "ready")
  /\ refs' = [refs EXCEPT ![p] = 0]
  /\ UNCHANGED <<nilClient, store, want, clientMap, opened, useMu, fatal, edits>>

\* Get resolves a ref to a store that may be used; validateStore asks for the
\* one store it validates.
Get(p) ==
  /\ At(p, "ready") /\ refs[p] < (IF p \in Referent THEN 1 ELSE MaxRefs)
  /\ \E s \in Stores :
       want' = [want EXCEPT ![p] = [name |-> s, gen |-> store[s].gen, inc |-> store[s].inc]]
  /\ refs' = [refs EXCEPT ![p] = @ + 1]
  /\ Goto(p, "lookup")
  /\ UNCHANGED <<nilClient, store, clientMap, opened, useMu, fatal, edits>>

\* The reconcile returns, because a store is missing, unmanaged, denied by its
\* conditions or not ready, or because it has all it needs: the deferred Close.
Done(p) ==
  /\ At(p, "ready")
  /\ Goto(p, "closing")
  /\ UNCHANGED <<nilClient, store, want, clientMap, opened, useMu, fatal, refs, edits>>

\* getStoredClient compares generation, kind, name and namespace.
VerySameStore(p) ==
  Stored(p).name = want[p].name /\ Stored(p).gen = want[p].gen

Reuse(p) ==
  /\ At(p, "lookup") /\ Stored(p) # None /\ VerySameStore(p)
  /\ Goto(p, "use")
  /\ UNCHANGED <<nilClient, store, want, clientMap, opened, useMu, fatal, refs, edits>>

NoStoredClient(p) ==
  /\ At(p, "lookup") /\ Stored(p) = None
  /\ Goto(p, "new")
  /\ UNCHANGED <<nilClient, store, want, clientMap, opened, useMu, fatal, refs, edits>>

\* Unlock does not ask who locked; on an unlocked mutex it is fatal.
Unlock(t) ==
  IF t = GCP
  THEN useMu' = None /\ fatal' = IF useMu = None THEN "unlock" ELSE fatal
  ELSE UNCHANGED <<useMu, fatal>>

\* client.Close, and the entry leaves the map.  A typed nil is not nil: Close of
\* the client calls it, panics before useMu.Unlock and, as no reconciler has
\* RecoverPanic set, ends the process.
CloseClient(p, t) ==
  IF t = GCP /\ p \in nilClient
  THEN fatal' = "panic" /\ UNCHANGED <<clientMap, opened, useMu>>
  ELSE /\ clientMap' = [clientMap EXCEPT ![p][t] = None]
       /\ opened' = [opened EXCEPT ![p][t] = @ - 1]
       /\ Unlock(t)

CleanUp_KeepsOld(p) ==
  /\ At(p, "lookup") /\ Stored(p) # None /\ ~VerySameStore(p)
  /\ clientMap' = [clientMap EXCEPT ![p][storeKey(p)] = None]
  /\ Goto(p, "new")
  /\ UNCHANGED <<nilClient, store, want, opened, useMu, fatal, refs, edits>>

CleanUp(p) ==
  /\ At(p, "lookup") /\ Stored(p) # None /\ ~VerySameStore(p)
  /\ CloseClient(p, storeKey(p))
  /\ Goto(p, "new")
  /\ UNCHANGED <<nilClient, store, want, refs, edits>>

-----------------------------------------------------------------------------
(* NewClient of the provider. *)

Lock_NoWait(p) ==
  /\ At(p, "new")
  /\ useMu' = IF storeKey(p) = GCP THEN p ELSE useMu
  /\ Goto(p, "build")
  /\ UNCHANGED <<nilClient, store, want, clientMap, opened, fatal, refs, edits>>

\* useMu.Lock() for GCP; the other providers have no lock.
Lock(p) ==
  /\ At(p, "new")
  /\ storeKey(p) = GCP => useMu = None
  /\ useMu' = IF storeKey(p) = GCP THEN p ELSE useMu
  /\ Goto(p, "build")
  /\ UNCHANGED <<nilClient, store, want, clientMap, opened, fatal, refs, edits>>

\* GetFromStore puts the constructed client into the map.
Keep(p) ==
  /\ clientMap' = [clientMap EXCEPT ![p][storeKey(p)] = want[p]]
  /\ opened' = [opened EXCEPT ![p][storeKey(p)] = @ + 1]
  /\ Goto(p, "use")

NewClient(p) ==
  /\ At(p, "build")
  /\ Keep(p)
  /\ UNCHANGED <<nilClient, store, want, useMu, fatal, refs, edits>>

NewClientFails_StaysLocked(p) ==
  /\ At(p, "build")
  /\ Goto(p, "closing")
  /\ UNCHANGED <<nilClient, store, want, clientMap, opened, useMu, fatal, refs, edits>>

NewClientFails_Keeps(p) ==
  /\ At(p, "build")
  /\ Unlock(storeKey(p))
  /\ Keep(p)
  /\ UNCHANGED <<nilClient, store, want, refs, edits>>

\* No credentials, no token, no connection: the deferred Close runs because
\* smClient is still nil.
NewClientFails(p) ==
  /\ At(p, "build")
  /\ Unlock(storeKey(p))
  /\ Goto(p, "closing")
  /\ UNCHANGED <<nilClient, store, want, clientMap, opened, refs, edits>>

\* A referent store is validated with a placeholder client.  If constructing it
\* fails the error is dropped and smClient is an interface holding a nil pointer:
\* the nil test of the deferred Close is false, the mutex stays locked, and the
\* client is returned without an error.
NewPlaceholderFails(p) ==
  /\ p \in Referent
  /\ At(p, "build") /\ storeKey(p) = GCP
  /\ Keep(p)
  /\ nilClient' = nilClient \cup {p}
  /\ UNCHANGED <<store, want, useMu, fatal, refs, edits>>

\* GetSecret, GetSecretMap, GetAllSecrets, PushSecret, DeleteSecret, Validate.
Use(p) ==
  /\ At(p, "use")
  /\ \E label \in {"ready", "closing"} : Goto(p, label)
  /\ UNCHANGED <<nilClient, store, want, clientMap, opened, useMu, fatal, refs, edits>>

-----------------------------------------------------------------------------
\* Manager.Close: one client after the other, in map order (any).
Close(p) ==
  /\ At(p, "closing")
  /\ \E t \in Types : clientMap[p][t] # None /\ CloseClient(p, t)
  /\ UNCHANGED <<nilClient, store, pc, want, refs, edits>>

Closed(p) ==
  /\ At(p, "closing")
  /\ \A t \in Types : clientMap[p][t] = None
  /\ Goto(p, "idle")
  /\ want' = [want EXCEPT ![p] = None]
  /\ UNCHANGED <<nilClient, store, clientMap, opened, useMu, fatal, refs, edits>>

\* Users edit a store, or delete and re-create it.
EditStore(s) ==
  /\ edits < MaxEdits /\ edits' = edits + 1
  /\ store' = [store EXCEPT ![s].gen = @ + 1]
  /\ UNCHANGED <<nilClient, pc, want, clientMap, opened, useMu, fatal, refs>>

RecreateStore(s) ==
  /\ edits < MaxEdits /\ edits' = edits + 1
  /\ store' = [store EXCEPT ![s] = [gen |-> 1, inc |-> @.inc + 1]]
  /\ UNCHANGED <<nilClient, pc, want, clientMap, opened, useMu, fatal, refs>>

Construct(p) == NewClient(p) \/ NewClientFails(p) \/ NewPlaceholderFails(p)
Lookup(p) == Reuse(p) \/ NoStoredClient(p) \/ CleanUp(p)
Step(p) == Lookup(p) \/ Construct(p) \/ Use(p) \/ Close(p) \/ Closed(p)

Next ==
  \/ \E p \in Procs : NewManager(p) \/ Get(p) \/ Done(p) \/ Lock(p) \/ Step(p)
  \/ \E s \in Stores : EditStore(s) \/ RecreateStore(s)

\* Reconciles run on; sync.Mutex hands the lock to the longest waiter once one
\* has waited for a millisecond, so nobody who waits is passed over for ever.
Fairness ==
  \A p \in Procs : /\ WF_vars(Step(p)) /\ WF_vars(Done(p)) /\ SF_vars(Lock(p))

Spec == Init /\ [][Next]_vars
FairSpec == Spec /\ Fairness

-----------------------------------------------------------------------------
(* Properties. *)

\* Types of the variables; a reconcile never has two clients of one type open.
TypeOK ==
  /\ store \in [Stores -> [gen : Nat, inc : Nat]]
  /\ pc \in [Procs -> {"idle", "ready", "lookup", "new", "build", "use", "closing"}]
  /\ want \in [Procs -> Version \cup {None}]
  /\ clientMap \in [Procs -> [Types -> Version \cup {None}]]
  /\ opened \in [Procs -> [Types -> {0, 1}]]
  /\ useMu \in Procs \cup {None} /\ fatal \in {"no", "unlock", "panic"} /\ nilClient \subseteq Referent
  /\ refs \in [Procs -> 0..MaxRefs] /\ edits \in 0..MaxEdits

\* "A Mutex was implemented to make sure only one connection can be in place at
\* a time": over all reconciles at most one GCP client is open, and whoever has
\* it holds the mutex.
OneConnection ==
  \A p \in Procs : opened[p][GCP] > 0 => useMu = p

\* A reconcile that has returned left no client open and does not hold the mutex,
\* whichever refs failed on the way.  (A reconcile whose placeholder could not be
\* built keeps the mutex and never returns: its Close panics.)
NothingLeftOpen ==
  \A p \in Procs : pc[p] = "idle" =>
    /\ \A t \in Types : opened[p][t] = 0
    /\ useMu # p

\* Every client is closed once, by whichever of the deferred Close of NewClient,
\* getStoredClient and Manager.Close comes first: no reconcile unlocks a mutex
\* that is free, which would end the process for all of them.
ClosedOnce == fatal # "unlock"

\* Nobody waits for the mutex for ever: every reconcile ends, unless the process
\* itself ended in the Close of a placeholder that could not be built.  A
\* reconcile that kept its old client while it asks for another one would wait
\* for itself.
EveryReconcileEnds ==
  \A p \in Procs : pc[p] # "idle" ~> (pc[p] = "idle" \/ fatal = "panic")
=============================================================================
