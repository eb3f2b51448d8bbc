------------------------- MODULE ClientManagerProofs ------------------------
(***************************************************************************)
(* For any number of reconciles, stores and provider types: at most one    *)
(* GCP client is open, a reconcile that has returned has closed everything *)
(* and the mutex is never unlocked while it is free, also when the         *)
(* placeholder client of a referent ClusterSecretStore cannot be built     *)
(* (that reconcile keeps the mutex until its Close ends the process).      *)
(***************************************************************************)
EXTENDS ClientManager, TLAPS

\* The process holding the mutex is the one whose GCP client is open or being
\* built.
HolderIsClient ==
  \A p \in Procs : useMu = p <=> (opened[p][GCP] = 1 \/ (pc[p] = "build" /\ storeKey(p) = GCP))

\* The map lists exactly the open clients.
MapIsOpened ==
  \A p \in Procs, t \in Types : clientMap[p][t] # None <=> opened[p][t] = 1

\* From lookup to use the ref is resolved.
Resolved ==
  \A p \in Procs : pc[p] \in {"lookup", "new", "build", "use"} => want[p] \in Version

\* A client is built only into an empty slot.
SlotEmpty ==
  \A p \in Procs : pc[p] \in {"new", "build"} => clientMap[p][storeKey(p)] = None

IdleIsClosed ==
  \A p \in Procs : pc[p] = "idle" => \A t \in Types : clientMap[p][t] = None

OneRef ==
  \A p \in Referent : pc[p] \in {"lookup", "new", "build", "use"} => refs[p] = 1

\* validateStore asks for one client and uses nothing after it, so a nil client
\* is met again in Manager.Close only, never in getStoredClient.
NilIsLast ==
  \A p \in nilClient : /\ refs[p] = 1 /\ clientMap[p][GCP] # None
                       /\ pc[p] \in {"use", "ready", "closing"}

IInv == /\ TypeOK /\ HolderIsClient /\ MapIsOpened
        /\ Resolved /\ SlotEmpty /\ IdleIsClosed /\ OneRef /\ NilIsLast /\ ClosedOnce
-----------------------------------------------------------------------------
(* A reconcile that asks for a store asks for a provider type.             *)
LEMMA KeyIsType ==
  ASSUME IInv, NEW p \in Procs, pc[p] \in {"lookup", "new", "build", "use"}
  PROVE  want[p] \in Version /\ storeKey(p) \in Types
BY ManagerAssumption DEF ManagerAssumption, IInv, Resolved, storeKey, Version

(* The initial states satisfy the inductive invariant.                     *)
LEMMA InitInv == Init => IInv
<1> SUFFICES ASSUME Init PROVE IInv
  OBVIOUS
<1> USE ManagerAssumption DEF ManagerAssumption, Init
<1>1. TypeOK
  <2>1. store \in [Stores -> [gen : Nat, inc : Nat]] OBVIOUS
  <2>2. refs \in [Procs -> 0..MaxRefs] /\ edits \in 0..MaxEdits OBVIOUS
  <2>3. opened \in [Procs -> [Types -> {0, 1}]] OBVIOUS
  <2> QED BY <2>1, <2>2, <2>3 DEF TypeOK
<1>2. HolderIsClient BY DEF HolderIsClient
<1>3. MapIsOpened BY DEF MapIsOpened
<1>4. Resolved /\ SlotEmpty /\ IdleIsClosed /\ OneRef /\ NilIsLast /\ ClosedOnce
  BY DEF Resolved, SlotEmpty, IdleIsClosed, OneRef, NilIsLast, ClosedOnce
<1> QED BY <1>1, <1>2, <1>3, <1>4 DEF IInv

(* The steps that touch neither a client nor the mutex.                    *)
LEMMA QuietSteps ==
  ASSUME IInv, NEW p \in Procs,
         NewManager(p) \/ Get(p) \/ Done(p) \/ Reuse(p) \/ NoStoredClient(p) \/ Use(p) \/ Closed(p)
  PROVE  IInv'
<1> USE ManagerAssumption DEF ManagerAssumption, IInv, ClosedOnce, At, Goto
<1>1. CASE NewManager(p)
  BY <1>1 DEF NewManager, TypeOK, HolderIsClient, MapIsOpened, Resolved, SlotEmpty,
              IdleIsClosed, OneRef, NilIsLast, storeKey
<1>2. CASE Get(p)
  <2> PICK s \in Stores :
        want' = [want EXCEPT ![p] = [name |-> s, gen |-> store[s].gen, inc |-> store[s].inc]]
    BY <1>2 DEF Get
  <2>1. want'[p] \in Version /\ \A q \in Procs : q # p => want'[q] = want[q]
    BY DEF TypeOK, Version
  <2>2. pc' = [pc EXCEPT ![p] = "lookup"] /\ pc[p] = "ready"
    BY <1>2 DEF Get
  <2>3. UNCHANGED <<nilClient, store, clientMap, opened, useMu, fatal, edits>>
    BY <1>2 DEF Get
  <2>4. refs' \in [Procs -> 0..MaxRefs]
    <3>1. refs[p] \in 0..MaxRefs /\ refs[p] < MaxRefs
      BY <1>2 DEF Get, TypeOK
    <3> QED BY <3>1, <1>2 DEF Get, TypeOK
  <2>5. TypeOK' BY <2>1, <2>2, <2>3, <2>4 DEF TypeOK
  <2>6. HolderIsClient' BY <2>1, <2>2, <2>3 DEF HolderIsClient, TypeOK, storeKey
  <2>7. (Resolved /\ SlotEmpty)'
    BY <2>1, <2>2, <2>3 DEF Resolved, SlotEmpty, TypeOK, storeKey
  <2>8. (MapIsOpened /\ IdleIsClosed)'
    BY <2>2, <2>3 DEF MapIsOpened, IdleIsClosed, TypeOK
  <2>10. OneRef'
    <3>1. p \in Referent => refs'[p] = 1 BY <1>2 DEF Get, TypeOK
    <3>2. \A q \in Procs : q # p => refs'[q] = refs[q] /\ pc'[q] = pc[q]
      BY <1>2 DEF Get, TypeOK
    <3> QED BY <3>1, <3>2 DEF OneRef
  <2>9. NilIsLast'
    <3>1. p \notin nilClient BY <1>2 DEF Get, NilIsLast, TypeOK
    <3>2. \A q \in Procs : q # p => refs'[q] = refs[q] /\ pc'[q] = pc[q]
      BY <1>2 DEF Get, TypeOK
    <3> QED BY <2>3, <3>1, <3>2 DEF NilIsLast, TypeOK
  <2> QED BY <2>3, <2>5, <2>6, <2>7, <2>8, <2>9, <2>10
<1>3. CASE Done(p)
  BY <1>3 DEF Done, TypeOK, HolderIsClient, MapIsOpened, Resolved, SlotEmpty,
              IdleIsClosed, OneRef, NilIsLast, storeKey
<1>4. CASE Reuse(p)
  BY <1>4 DEF Reuse, TypeOK, HolderIsClient, MapIsOpened, Resolved, SlotEmpty,
              IdleIsClosed, OneRef, NilIsLast, storeKey
<1>5. CASE NoStoredClient(p)
  BY <1>5 DEF NoStoredClient, Stored, TypeOK, HolderIsClient, MapIsOpened, Resolved,
              SlotEmpty, IdleIsClosed, OneRef, NilIsLast, storeKey
<1>6. CASE Use(p)
  BY <1>6 DEF Use, TypeOK, HolderIsClient, MapIsOpened, Resolved, SlotEmpty,
              IdleIsClosed, OneRef, NilIsLast, storeKey
<1>7. CASE Closed(p)
  BY <1>7 DEF Closed, TypeOK, HolderIsClient, MapIsOpened, Resolved, SlotEmpty,
              IdleIsClosed, OneRef, NilIsLast, storeKey
<1> QED BY <1>1, <1>2, <1>3, <1>4, <1>5, <1>6, <1>7

(* Unlock frees the mutex; it is fatal only if the mutex was free.         *)
LEMMA UnlockFrees ==
  ASSUME TypeOK, ClosedOnce, NEW t, Unlock(t), t = GCP => useMu # None
  PROVE  useMu' = (IF t = GCP THEN None ELSE useMu) /\ fatal' = fatal
BY DEF Unlock

(* Closing a client that is in the map and wraps a connection frees its    *)
(* slot and, for GCP, the mutex, which the closing reconcile holds: it is  *)
(* not fatal.                                                              *)
LEMMA CloseFrees ==
  ASSUME IInv, NEW p \in Procs, NEW t \in Types, t # GCP \/ p \notin nilClient,
         clientMap[p][t] # None, CloseClient(p, t), pc[p] \in {"lookup", "closing"}
  PROVE  /\ fatal' = fatal
         /\ clientMap' \in [Procs -> [Types -> Version \cup {None}]]
         /\ opened' \in [Procs -> [Types -> {0, 1}]]
         /\ MapIsOpened'
         /\ useMu' = (IF t = GCP THEN None ELSE useMu)
         /\ t = GCP => useMu = p
         /\ clientMap'[p][t] = None /\ opened'[p][t] = 0
         /\ \A q \in Procs, u \in Types :
              (q # p \/ u # t) => /\ clientMap'[q][u] = clientMap[q][u]
                                  /\ opened'[q][u] = opened[q][u]
<1> USE ManagerAssumption DEF ManagerAssumption, IInv
<1>0. /\ clientMap' = [clientMap EXCEPT ![p][t] = None]
      /\ opened' = [opened EXCEPT ![p][t] = @ - 1]
      /\ Unlock(t)
  BY DEF CloseClient
<1>1. opened[p][t] = 1 BY DEF MapIsOpened
<1>2. t = GCP => useMu = p BY <1>1 DEF HolderIsClient
<1>3. t = GCP => useMu # None BY <1>2
<1>4. fatal' = fatal /\ useMu' = (IF t = GCP THEN None ELSE useMu)
  BY <1>0, <1>3, UnlockFrees
<1>5. /\ clientMap'[p][t] = None /\ opened'[p][t] = 0
      /\ \A q \in Procs, u \in Types :
           (q # p \/ u # t) => /\ clientMap'[q][u] = clientMap[q][u]
                               /\ opened'[q][u] = opened[q][u]
  BY <1>0, <1>1 DEF TypeOK
<1>6. clientMap' \in [Procs -> [Types -> Version \cup {None}]]
  BY <1>0 DEF TypeOK
<1>7. opened' \in [Procs -> [Types -> {0, 1}]]
  BY <1>0, <1>1 DEF TypeOK
<1>8. MapIsOpened' BY <1>5 DEF MapIsOpened
<1> QED BY <1>2, <1>4, <1>5, <1>6, <1>7, <1>8

(* Manager.Close on one client of the map.                                 *)
LEMMA CloseStep == ASSUME IInv, NEW p \in Procs, Close(p) PROVE IInv'
<1> USE ManagerAssumption DEF ManagerAssumption, IInv
<1> PICK t \in Types : clientMap[p][t] # None /\ CloseClient(p, t)
  BY DEF Close
<1>1. pc[p] = "closing" /\ UNCHANGED <<nilClient, store, pc, want, refs, edits>>
  BY DEF Close, At
<1>p. CASE t = GCP /\ p \in nilClient
  <2>1. fatal' = "panic" /\ UNCHANGED <<clientMap, opened, useMu>>
    BY <1>p DEF CloseClient
  <2>2. TypeOK' BY <1>1, <2>1 DEF TypeOK
  <2>3. (HolderIsClient /\ MapIsOpened /\ Resolved /\ SlotEmpty /\ IdleIsClosed
           /\ OneRef /\ NilIsLast /\ ClosedOnce)'
    BY <1>1, <2>1 DEF HolderIsClient, MapIsOpened, Resolved, SlotEmpty, IdleIsClosed,
                      OneRef, NilIsLast, ClosedOnce, storeKey
  <2> QED BY <2>2, <2>3
<1> SUFFICES ASSUME t # GCP \/ p \notin nilClient PROVE IInv'
  BY <1>p
<1>2. /\ fatal' = fatal /\ MapIsOpened'
      /\ clientMap' \in [Procs -> [Types -> Version \cup {None}]]
      /\ opened' \in [Procs -> [Types -> {0, 1}]]
      /\ useMu' = (IF t = GCP THEN None ELSE useMu)
      /\ t = GCP => useMu = p
      /\ clientMap'[p][t] = None /\ opened'[p][t] = 0
      /\ \A q \in Procs, u \in Types :
           (q # p \/ u # t) => /\ clientMap'[q][u] = clientMap[q][u]
                               /\ opened'[q][u] = opened[q][u]
  BY <1>1, CloseFrees
<1>3. TypeOK' BY <1>1, <1>2 DEF TypeOK
<1>4. HolderIsClient' BY <1>1, <1>2 DEF HolderIsClient, TypeOK, storeKey
<1>5. (Resolved /\ SlotEmpty /\ IdleIsClosed)'
  <2>1. Resolved' BY <1>1 DEF Resolved
  <2>2. IdleIsClosed' BY <1>1, <1>2 DEF IdleIsClosed
  <2>3. ASSUME NEW q \in Procs, pc'[q] \in {"new", "build"}
        PROVE  clientMap'[q][storeKey(q)'] = None
    <3>1. storeKey(q)' = storeKey(q) /\ q # p /\ pc[q] \in {"new", "build"}
      BY <1>1, <2>3 DEF storeKey
    <3>2. storeKey(q) \in Types BY <3>1, KeyIsType
    <3> QED BY <1>2, <3>1, <3>2 DEF SlotEmpty
  <2> QED BY <2>1, <2>2, <2>3 DEF SlotEmpty
<1>6. ClosedOnce' BY <1>1, <1>2 DEF ClosedOnce
<1>7. (OneRef /\ NilIsLast)' BY <1>1, <1>2 DEF OneRef, NilIsLast, TypeOK
<1> QED BY <1>2, <1>3, <1>4, <1>5, <1>6, <1>7

(* getStoredClient closes a client of another store version before the new one is built. *)
LEMMA CleanUpStep == ASSUME IInv, NEW p \in Procs, CleanUp(p) PROVE IInv'
<1> USE ManagerAssumption DEF ManagerAssumption, IInv
<1> DEFINE t == storeKey(p)
<1>0. pc[p] = "lookup" /\ pc' = [pc EXCEPT ![p] = "new"]
      /\ UNCHANGED <<nilClient, store, want, refs, edits>>
  BY DEF CleanUp, At, Goto
<1>1. t \in Types /\ clientMap[p][t] # None /\ CloseClient(p, t)
  BY <1>0, KeyIsType DEF CleanUp, Stored
<1>2. /\ fatal' = fatal /\ MapIsOpened'
      /\ clientMap' \in [Procs -> [Types -> Version \cup {None}]]
      /\ opened' \in [Procs -> [Types -> {0, 1}]]
      /\ useMu' = (IF t = GCP THEN None ELSE useMu)
      /\ t = GCP => useMu = p
      /\ clientMap'[p][t] = None /\ opened'[p][t] = 0
      /\ \A q \in Procs, u \in Types :
           (q # p \/ u # t) => /\ clientMap'[q][u] = clientMap[q][u]
                               /\ opened'[q][u] = opened[q][u]
  <2>1. p \notin nilClient BY <1>0 DEF NilIsLast
  <2> QED BY <1>0, <1>1, <2>1, CloseFrees
<1>k. \A q \in Procs : storeKey(q)' = storeKey(q)
  BY <1>0 DEF storeKey
<1>3. TypeOK' BY <1>0, <1>2 DEF TypeOK
<1>4. HolderIsClient' BY <1>0, <1>2, <1>k DEF HolderIsClient, TypeOK
<1>5. Resolved' BY <1>0 DEF Resolved, TypeOK
<1>6. IdleIsClosed' BY <1>0, <1>2 DEF IdleIsClosed, TypeOK
<1>7. ASSUME NEW q \in Procs, pc'[q] \in {"new", "build"}
      PROVE  clientMap'[q][storeKey(q)'] = None
  <2>1. CASE q = p BY <2>1, <1>k, <1>2
  <2>2. CASE q # p
    <3>1. pc[q] \in {"new", "build"} BY <1>0, <1>7, <2>2 DEF TypeOK
    <3>2. storeKey(q) \in Types BY <3>1, KeyIsType
    <3> QED BY <1>2, <1>k, <3>1, <3>2, <2>2 DEF SlotEmpty
  <2> QED BY <2>1, <2>2
<1>8. SlotEmpty' BY <1>7 DEF SlotEmpty
<1>9. ClosedOnce' BY <1>0, <1>2 DEF ClosedOnce
<1>10. NilIsLast'
  <2>1. p \notin nilClient BY <1>0 DEF NilIsLast
  <2> QED BY <1>0, <1>2, <2>1 DEF NilIsLast, TypeOK
<1>11. OneRef' BY <1>0 DEF OneRef, TypeOK
<1> QED BY <1>10, <1>11, <1>2, <1>3, <1>4, <1>5, <1>6, <1>8, <1>9

(* useMu.Lock succeeds on a free mutex only.                               *)
LEMMA LockStep == ASSUME IInv, NEW p \in Procs, Lock(p) PROVE IInv'
<1> USE ManagerAssumption DEF ManagerAssumption, IInv
<1>0. /\ pc[p] = "new" /\ pc' = [pc EXCEPT ![p] = "build"]
      /\ storeKey(p) = GCP => useMu = None
      /\ useMu' = (IF storeKey(p) = GCP THEN p ELSE useMu)
      /\ UNCHANGED <<nilClient, store, want, clientMap, opened, fatal, refs, edits>>
  BY DEF Lock, At, Goto
<1>k. \A q \in Procs : storeKey(q)' = storeKey(q)
  BY <1>0 DEF storeKey
<1>1. TypeOK' BY <1>0 DEF TypeOK
<1>2. HolderIsClient' BY <1>0, <1>k DEF HolderIsClient, TypeOK
<1>3. MapIsOpened' BY <1>0 DEF MapIsOpened
<1>4. (Resolved /\ IdleIsClosed)' BY <1>0 DEF Resolved, IdleIsClosed, TypeOK
<1>5. SlotEmpty' BY <1>0, <1>k DEF SlotEmpty, TypeOK
<1>6. ClosedOnce' BY <1>0 DEF ClosedOnce
<1>7. (OneRef /\ NilIsLast)' BY <1>0 DEF OneRef, NilIsLast, TypeOK
<1> QED BY <1>7, <1>0, <1>1, <1>2, <1>3, <1>4, <1>5, <1>6

(* The provider returns a client, which Manager keeps; the placeholder     *)
(* that could not be built is kept as well.                                *)
LEMMA NewClientStep ==
  ASSUME IInv, NEW p \in Procs, NewClient(p) \/ NewPlaceholderFails(p)
  PROVE  IInv'
<1> USE ManagerAssumption DEF ManagerAssumption, IInv
<1> DEFINE t == storeKey(p)
<1>0. /\ pc[p] = "build" /\ pc' = [pc EXCEPT ![p] = "use"]
      /\ clientMap' = [clientMap EXCEPT ![p][t] = want[p]]
      /\ opened' = [opened EXCEPT ![p][t] = @ + 1]
      /\ UNCHANGED <<store, want, refs, edits>>
  BY DEF NewClient, NewPlaceholderFails, Keep, At, Goto
<1>m. /\ UNCHANGED <<useMu, fatal>>
      /\ nilClient' = nilClient \/ (nilClient' = nilClient \cup {p} /\ p \in Referent /\ t = GCP)
  BY DEF NewClient, NewPlaceholderFails
<1>1. t \in Types /\ want[p] \in Version BY <1>0, KeyIsType
<1>2. clientMap[p][t] = None BY <1>0 DEF SlotEmpty
<1>3. opened[p][t] = 0 BY <1>1, <1>2 DEF MapIsOpened, TypeOK
<1>4. /\ clientMap'[p][t] = want[p] /\ opened'[p][t] = 1
      /\ \A q \in Procs, u \in Types :
           (q # p \/ u # t) => /\ clientMap'[q][u] = clientMap[q][u]
                               /\ opened'[q][u] = opened[q][u]
  BY <1>0, <1>1, <1>3 DEF TypeOK
<1>k. \A q \in Procs : storeKey(q)' = storeKey(q)
  BY <1>0 DEF storeKey
<1>5. opened' \in [Procs -> [Types -> {0, 1}]] BY <1>0, <1>1, <1>3 DEF TypeOK
<1>6. clientMap' \in [Procs -> [Types -> Version \cup {None}]] BY <1>0, <1>1 DEF TypeOK
<1>7. TypeOK' BY <1>0, <1>m, <1>5, <1>6 DEF TypeOK
<1>8. HolderIsClient' BY <1>0, <1>m, <1>1, <1>4, <1>k DEF HolderIsClient, TypeOK
<1>9. MapIsOpened'
  <2>1. want[p] # None BY <1>1
  <2> QED BY <1>1, <1>4, <2>1 DEF MapIsOpened
<1>10. Resolved' BY <1>0, <1>1 DEF Resolved, TypeOK
<1>11. IdleIsClosed' BY <1>0, <1>4 DEF IdleIsClosed, TypeOK
<1>12. ASSUME NEW q \in Procs, pc'[q] \in {"new", "build"}
       PROVE  clientMap'[q][storeKey(q)'] = None
  <2>1. q # p /\ pc[q] \in {"new", "build"} BY <1>0, <1>12 DEF TypeOK
  <2>2. storeKey(q) \in Types BY <2>1, KeyIsType
  <2> QED BY <1>4, <1>k, <2>1, <2>2 DEF SlotEmpty
<1>13. SlotEmpty' BY <1>12 DEF SlotEmpty
<1>14. ClosedOnce' BY <1>m DEF ClosedOnce
<1>15. NilIsLast'
  <2>1. p \notin nilClient BY <1>0 DEF NilIsLast
  <2>2. ASSUME NEW q \in nilClient
        PROVE  q # p /\ pc'[q] = pc[q] /\ refs'[q] = refs[q] /\ clientMap'[q][GCP] = clientMap[q][GCP]
    BY <1>0, <1>4, <2>1 DEF TypeOK
  <2>3. ASSUME p \in nilClient'
        PROVE  refs'[p] = 1 /\ clientMap'[p][GCP] # None /\ pc'[p] = "use"
    <3>1. p \in Referent /\ t = GCP BY <1>m, <2>1, <2>3
    <3>2. clientMap'[p][GCP] # None BY <3>1, <1>1, <1>4
    <3>3. refs[p] = 1 BY <1>0, <3>1 DEF OneRef
    <3> QED BY <1>0, <3>2, <3>3 DEF TypeOK
  <2> QED BY <1>m, <2>2, <2>3 DEF NilIsLast
<1>16. OneRef' BY <1>0 DEF OneRef, TypeOK
<1> QED BY <1>15, <1>16, <1>0, <1>7, <1>8, <1>9, <1>10, <1>11, <1>13, <1>14

(* The provider fails: the deferred Close gives the mutex back.            *)
LEMMA NewClientFailsStep == ASSUME IInv, NEW p \in Procs, NewClientFails(p) PROVE IInv'
<1> USE ManagerAssumption DEF ManagerAssumption, IInv
<1>0. /\ pc[p] = "build" /\ pc' = [pc EXCEPT ![p] = "closing"]
      /\ UNCHANGED <<nilClient, store, want, clientMap, opened, refs, edits>>
      /\ Unlock(storeKey(p))
  BY DEF NewClientFails, At, Goto
<1>1. storeKey(p) = GCP => useMu = p BY <1>0 DEF HolderIsClient
<1>2. storeKey(p) = GCP => useMu # None BY <1>1
<1>3. fatal' = fatal /\ useMu' = (IF storeKey(p) = GCP THEN None ELSE useMu)
  BY <1>0, <1>2, UnlockFrees
<1>4. storeKey(p) = GCP => opened[p][GCP] # 1
  BY <1>0 DEF SlotEmpty, MapIsOpened
<1>k. \A q \in Procs : storeKey(q)' = storeKey(q)
  BY <1>0 DEF storeKey
<1>5. TypeOK' BY <1>0, <1>3 DEF TypeOK
<1>6. HolderIsClient' BY <1>0, <1>1, <1>3, <1>4, <1>k DEF HolderIsClient, TypeOK
<1>7. (MapIsOpened /\ Resolved /\ IdleIsClosed)'
  BY <1>0 DEF MapIsOpened, Resolved, IdleIsClosed, TypeOK
<1>8. SlotEmpty' BY <1>0, <1>k DEF SlotEmpty, TypeOK
<1>9. ClosedOnce' BY <1>0, <1>3 DEF ClosedOnce
<1>10. (OneRef /\ NilIsLast)' BY <1>0 DEF OneRef, NilIsLast, TypeOK
<1> QED BY <1>10, <1>3, <1>5, <1>6, <1>7, <1>8, <1>9

(* Users edit and re-create stores; no reconcile is touched.               *)
LEMMA StoreSteps ==
  ASSUME IInv, NEW s \in Stores, EditStore(s) \/ RecreateStore(s)
  PROVE  IInv'
<1> USE ManagerAssumption DEF ManagerAssumption, IInv
<1>1. /\ UNCHANGED <<nilClient, pc, want, clientMap, opened, useMu, fatal, refs>>
      /\ edits < MaxEdits /\ edits' = edits + 1
  BY DEF EditStore, RecreateStore
<1>2. store' \in [Stores -> [gen : Nat, inc : Nat]]
  <2>1. store[s].gen \in Nat /\ store[s].inc \in Nat BY DEF TypeOK
  <2>2. CASE EditStore(s)
    <3>1. store' = [store EXCEPT ![s] = [store[s] EXCEPT !.gen = store[s].gen + 1]]
      BY <2>2, Zenon DEF EditStore
    <3>2. [store[s] EXCEPT !.gen = store[s].gen + 1] \in [gen : Nat, inc : Nat]
      BY <2>1 DEF TypeOK
    <3> QED BY <3>1, <3>2 DEF TypeOK
  <2>3. CASE RecreateStore(s)
    <3>1. store' = [store EXCEPT ![s] = [gen |-> 1, inc |-> store[s].inc + 1]]
      BY <2>3 DEF RecreateStore
    <3> QED BY <2>1, <3>1 DEF TypeOK
  <2> QED BY <2>2, <2>3
<1>3. TypeOK' BY <1>1, <1>2 DEF TypeOK
<1>4. (HolderIsClient /\ MapIsOpened /\ Resolved /\ SlotEmpty /\ IdleIsClosed
         /\ OneRef /\ NilIsLast /\ ClosedOnce)'
  BY <1>1 DEF HolderIsClient, MapIsOpened, Resolved, SlotEmpty, IdleIsClosed, OneRef, NilIsLast, ClosedOnce,
              storeKey
<1> QED BY <1>1, <1>3, <1>4

(* Every step preserves the inductive invariant.                           *)
LEMMA StepInv == ASSUME IInv, [Next]_vars PROVE IInv'
<1>1. CASE UNCHANGED vars
  BY <1>1 DEF vars, IInv, TypeOK, HolderIsClient, MapIsOpened, Resolved, SlotEmpty,
              IdleIsClosed, OneRef, NilIsLast, ClosedOnce, storeKey
<1>2. ASSUME NEW p \in Procs, NewManager(p) \/ Get(p) \/ Done(p) \/ Lock(p) \/ Step(p)
      PROVE  IInv'
  BY <1>2, QuietSteps, CloseStep, CleanUpStep, LockStep, NewClientStep,
     NewClientFailsStep DEF Step, Lookup, Construct
<1>3. ASSUME NEW s \in Stores, EditStore(s) \/ RecreateStore(s) PROVE IInv'
  BY <1>3, StoreSteps
<1> QED BY <1>1, <1>2, <1>3 DEF Next

-----------------------------------------------------------------------------
(* The inductive invariant holds in every reachable state.                 *)
THEOREM Invariance == Spec => []IInv
<1>1. Init => IInv BY InitInv
<1>2. IInv /\ [Next]_vars => IInv' BY StepInv
<1> QED BY <1>1, <1>2, PTL DEF Spec

(* Types of the client manager's variables: in particular no provider type *)
(* ever has two clients open in one reconcile.                             *)
THEOREM TypeCorrect == Spec => []TypeOK
<1>1. IInv => TypeOK BY DEF IInv
<1> QED BY <1>1, Invariance, PTL

(* useMu in the GCP provider: over all reconciles at most one client is    *)
(* open, and its reconcile holds the mutex.                                *)
THEOREM AtMostOneConnection == Spec => []OneConnection
<1>1. IInv => OneConnection
  BY ManagerAssumption DEF ManagerAssumption, IInv, TypeOK, HolderIsClient, OneConnection
<1> QED BY <1>1, Invariance, PTL

(* Manager.Close and the deferred Close of NewClient: a reconcile that has *)
(* returned holds neither a client nor the mutex.                          *)
THEOREM AllClosed == Spec => []NothingLeftOpen
<1>1. ASSUME IInv PROVE NothingLeftOpen
  <2> SUFFICES ASSUME NEW p \in Procs, pc[p] = "idle"
               PROVE  (\A t \in Types : opened[p][t] = 0) /\ useMu # p
    BY DEF NothingLeftOpen
  <2>1. \A t \in Types : opened[p][t] = 0
    BY <1>1 DEF IInv, TypeOK, MapIsOpened, IdleIsClosed
  <2> QED BY <1>1, <2>1, ManagerAssumption DEF ManagerAssumption, IInv, HolderIsClient
<1> QED BY <1>1, Invariance, PTL

(* No error path of NewClient, getStoredClient or Manager.Close unlocks the *)
(* mutex while it is free.                                                 *)
THEOREM UnlockedOnce == Spec => []ClosedOnce
<1>1. IInv => ClosedOnce BY DEF IInv
<1> QED BY <1>1, Invariance, PTL

=============================================================================
