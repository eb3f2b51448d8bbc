-------------------------- MODULE PushSecretProofs --------------------------
(***************************************************************************)
(* For any stores, keys, values and specs: the types of the PushSecret     *)
(* controller, that a failing reconcile never loses track of what it       *)
(* pushed, and that the finalizer guards what the status lists.            *)
(***************************************************************************)
EXTENDS PushSecret, TLAPS

\* A reconcile that pushes for deletionPolicy=Delete is not the final cleanup.
PushIsNoCleanup ==
  (pc = "push" /\ job.ps.spec.policy = "Delete") => ~(job.ps.deleting /\ job.ps.fin)

\* While it deletes: what it has worked off is gone from the stores, only gone
\* secrets have left the list, and what was pushed is still on it.
CleanIsSound ==
  pc = "clean" =>
    /\ job.ps.spec.policy = "Delete"
    /\ job.ps.deleting /\ job.ps.fin => job.done = {}
    /\ \A p \in job.ps.synced : (p \notin job.todo /\ p \notin job.done) => ~Ours(p)
    /\ job.done \subseteq job.out
    /\ job.out \subseteq job.done \cup job.ps.synced
    /\ \A p \in job.ps.synced \ job.out : ~Ours(p)
    /\ job.todo \subseteq job.ps.synced /\ job.todo \cap job.done = {}

\* Before it takes the finalizer off, everything it knew of is gone.
ReleaseIsSound == pc = "release" => \A p \in job.ps.synced : ~Ours(p)

IInv == TypeOK /\ PushIsNoCleanup /\ CleanIsSound /\ ReleaseIsSound /\ PartialPushTracked
Labels == {"idle", "push", "clean", "release", "finish"}
-----------------------------------------------------------------------------
(* The work record of a reconcile that has not begun.                      *)
LEMMA IdleType == Idle \in JobType
<1>1. (CHOOSE s \in Specs : TRUE) \in SpecType BY PushAssumption DEF PushAssumption
<1>2. Idle.ps \in PSType BY <1>1 DEF Idle, PSType
<1>3. NoSecret \in [Keys -> Vals \cup {Absent}] BY DEF NoSecret
<1> QED BY <1>2, <1>3 DEF Idle, JobType

(* The initial states satisfy the inductive invariant.                     *)
LEMMA InitInv == Init => IInv
<1> SUFFICES ASSUME Init PROVE IInv
  OBVIOUS
<1>1. ps \in PSType /\ cache = ps
  <2>1. PICK s \in Specs : ps = [exists |-> TRUE, deleting |-> FALSE, fin |-> FALSE,
                                 spec |-> s, synced |-> {}]
    BY DEF Init
  <2>2. s \in SpecType BY PushAssumption DEF PushAssumption
  <2> QED BY <2>1, <2>2 DEF Init, PSType
<1>2. pc = "idle" BY DEF Init
<1>3. queue \in BOOLEAN /\ timer \in BOOLEAN BY DEF Init
<1>4. env \in 0..MaxEnv /\ faults \in 0..MaxFaults BY PushAssumption DEF PushAssumption, Init
<1>5. TypeOK BY <1>1, <1>2, <1>3, <1>4, IdleType DEF Init, TypeOK
<1> QED BY <1>2, <1>5 DEF IInv, PushIsNoCleanup, CleanIsSound, ReleaseIsSound, PartialPushTracked

(* The count of failing calls stays in its bound.                          *)
LEMMA FaultType == ASSUME TypeOK, Fault \/ UNCHANGED faults PROVE faults' \in 0..MaxFaults
BY PushAssumption DEF PushAssumption, Fault, TypeOK

(* The count of outside steps stays in its bound.                          *)
LEMMA OutsideType == ASSUME TypeOK, Outside PROVE env' \in 0..MaxEnv
BY PushAssumption DEF PushAssumption, Outside, TypeOK

(* A reconcile that returns owes nothing any more.                         *)
LEMMA ReturnsStep ==
  ASSUME IInv, Returns, ps' \in PSType, cache' \in PSType,
         UNCHANGED <<source, up, remote>>, queue' \in BOOLEAN, timer' \in BOOLEAN,
         env' \in 0..MaxEnv, faults' \in 0..MaxFaults
  PROVE  IInv'
<1>1. pc' = "idle" /\ job' = Idle BY DEF Returns
<1>2. TypeOK' BY <1>1, IdleType DEF IInv, TypeOK
<1> QED BY <1>1, <1>2
     DEF IInv, PushIsNoCleanup, CleanIsSound, ReleaseIsSound, PartialPushTracked

(* A step outside the reconcile: it puts nothing of ours into a store.     *)
LEMMA QuietStep ==
  ASSUME IInv, UNCHANGED <<pc, job>>, ps' \in PSType, cache' \in PSType,
         source' \in [Keys -> Vals \cup {Absent}], up' \subseteq Stores,
         remote' \in [Pairs -> Vals \cup {Absent, Foreign}],
         \A p \in Pairs : remote'[p] \in Vals => remote[p] \in Vals,
         queue' \in BOOLEAN, timer' \in BOOLEAN,
         env' \in 0..MaxEnv, faults' \in 0..MaxFaults
  PROVE  IInv'
<1>1. TypeOK' BY DEF IInv, TypeOK
<1>2. job.ps.synced \subseteq Pairs BY DEF IInv, TypeOK, JobType, PSType
<1>3. \A p \in Pairs : Ours(p)' => Ours(p) BY DEF Ours
<1>4. PushIsNoCleanup' BY DEF IInv, PushIsNoCleanup
<1>5. CleanIsSound' BY <1>2, <1>3 DEF IInv, CleanIsSound
<1>6. ReleaseIsSound' BY <1>2, <1>3 DEF IInv, ReleaseIsSound
<1>7. PartialPushTracked' BY <1>2, <1>3 DEF IInv, PartialPushTracked
<1> QED BY <1>1, <1>4, <1>5, <1>6, <1>7 DEF IInv

(* A reconcile that ends with a sound list of synced secrets.              *)
LEMMA EndsStep ==
  ASSUME IInv, pc' = "finish", job' \in JobType,
         UNCHANGED <<ps, cache, outside, timer>>,
         remote' \in [Pairs -> Vals \cup {Absent, Foreign}],
         queue' \in BOOLEAN, faults' \in 0..MaxFaults,
         job'.done \subseteq job'.new,
         job'.ps.spec.policy = "Delete" =>
           \A p \in job'.ps.synced \ job'.new : remote'[p] \notin Vals
  PROVE  IInv'
<1>1. TypeOK' BY DEF IInv, TypeOK, outside
<1>2. PartialPushTracked' BY DEF PartialPushTracked, Ours
<1> QED BY <1>1, <1>2 DEF IInv, PushIsNoCleanup, CleanIsSound, ReleaseIsSound

(* An early error keeps the list it read.                                  *)
LEMMA EndsAtOnceStep ==
  ASSUME IInv, EndsAtOnce, UNCHANGED <<ps, cache, outside, remote, timer>>,
         queue' \in BOOLEAN, faults' \in 0..MaxFaults
  PROVE  IInv'
<1> DEFINE j == [Idle EXCEPT !.ps = cache, !.new = cache.synced, !.result = "error"]
<1>1. pc' = "finish" /\ job' = j BY DEF EndsAtOnce
<1>2. cache \in PSType /\ cache.synced \subseteq Pairs BY DEF IInv, TypeOK, PSType
<1>3. /\ j \in JobType /\ j.done = {} /\ j.new = cache.synced /\ j.ps = cache
  BY <1>2, IdleType DEF JobType, Idle
<1> HIDE DEF j
<1>4. remote' \in [Pairs -> Vals \cup {Absent, Foreign}] BY DEF IInv, TypeOK
<1> QED BY <1>1, <1>3, <1>4, EndsStep

-----------------------------------------------------------------------------
(* A reconcile starts: finalizer, cleanup, push or an early error.         *)
LEMMA BeginStep == ASSUME IInv, Begin PROVE IInv'
<1> USE DEF Dequeued
<1>1. CASE SkipGone BY <1>1, QuietStep DEF SkipGone, outside, IInv, TypeOK
<1>2. CASE AddFinalizer
  <2>1. ps' \in PSType
    <3>1. \A b \in BOOLEAN : [ps EXCEPT !.fin = b] \in PSType BY DEF IInv, TypeOK, PSType
    <3>2. ps' = [ps EXCEPT !.fin = TRUE] BY <1>2 DEF AddFinalizer
    <3> QED BY <3>1, <3>2
  <2> QED BY <1>2, <2>1, QuietStep DEF AddFinalizer, outside, IInv, TypeOK
<1>3. CASE AddFinalizerFails
  <2>1. faults' \in 0..MaxFaults BY <1>3, FaultType DEF AddFinalizerFails, IInv
  <2> QED BY <1>3, <2>1, EndsAtOnceStep DEF AddFinalizerFails
<1>4. CASE StartFails
  <2>1. faults' \in 0..MaxFaults BY <1>4, FaultType DEF StartFails, IInv
  <2> QED BY <1>4, <2>1, EndsAtOnceStep DEF StartFails
<1>5. CASE StartCleanup
  <2> DEFINE j == [Idle EXCEPT !.ps = cache, !.todo = cache.synced, !.out = cache.synced]
  <2>1. /\ pc' = "clean" /\ job' = j /\ queue' = FALSE
        /\ UNCHANGED <<ps, cache, source, up, env, remote, timer, faults>>
        /\ cache.spec.policy = "Delete"
    BY <1>5 DEF StartCleanup, NeedsCleanup, outside
  <2>2. cache \in PSType /\ cache.synced \subseteq Pairs BY DEF IInv, TypeOK, PSType
  <2>3. /\ j \in JobType /\ j.done = {} /\ j.ps = cache
        /\ j.todo = cache.synced /\ j.out = cache.synced
    BY <2>2, IdleType DEF JobType, Idle
  <2> HIDE DEF j
  <2>4. TypeOK' BY <2>1, <2>3 DEF IInv, TypeOK
  <2>5. CleanIsSound' BY <2>1, <2>3 DEF CleanIsSound
  <2> QED BY <2>1, <2>4, <2>5 DEF IInv, PushIsNoCleanup, ReleaseIsSound, PartialPushTracked
<1>6. CASE StartPush
  <2> DEFINE j == [Idle EXCEPT !.ps = cache, !.data = source, !.todo = Wanted(cache.spec)]
  <2>1. /\ pc' = "push" /\ job' = j /\ queue' = FALSE
        /\ UNCHANGED <<ps, cache, source, up, env, remote, timer, faults>>
        /\ ~(cache.spec.policy = "Delete" /\ cache.deleting /\ cache.fin)
    BY <1>6 DEF StartPush, Pushes, NeedsCleanup, outside
  <2>2. cache \in PSType /\ Wanted(cache.spec) \subseteq Pairs
    BY DEF IInv, TypeOK, PSType, SpecType, Wanted, Pairs
  <2>3. source \in [Keys -> Vals \cup {Absent}] BY DEF IInv, TypeOK
  <2>4. j \in JobType /\ j.ps = cache BY <2>2, <2>3, IdleType DEF JobType
  <2> HIDE DEF j
  <2>5. TypeOK' BY <2>1, <2>4 DEF IInv, TypeOK
  <2> QED BY <2>1, <2>4, <2>5
       DEF IInv, PushIsNoCleanup, CleanIsSound, ReleaseIsSound, PartialPushTracked
<1> QED BY <1>1, <1>2, <1>3, <1>4, <1>5, <1>6 DEF Begin

(* The fields of the work record.                                          *)
LEMMA JobFields ==
  ASSUME TypeOK
  PROVE  /\ job \in JobType /\ job.ps \in PSType /\ job.ps.synced \subseteq Pairs
         /\ job.todo \subseteq Pairs /\ job.done \subseteq Pairs /\ job.out \subseteq Pairs
         /\ job.ps.spec.policy \in {"Delete", "None"}
BY DEF TypeOK, JobType, PSType, SpecType

(* Ends leaves what was read and what was pushed alone.                    *)
LEMMA EndsType ==
  ASSUME TypeOK, NEW new \in SUBSET Pairs, NEW r \in {"after", "error"}, Ends(new, r)
  PROVE  /\ pc' = "finish" /\ job' \in JobType
         /\ job'.ps = job.ps /\ job'.done = job.done /\ job'.new = new
<1>1. job \in JobType BY JobFields
<1>2. job' = [job EXCEPT !.new = new, !.result = r] /\ pc' = "finish" BY DEF Ends
<1> QED BY <1>1, <1>2 DEF JobType

(* The value a push leaves in a store.                                     *)
LEMMA PushedType ==
  ASSUME TypeOK, NEW p \in Pairs, job.data[p[2]] # Absent
  PROVE  [remote EXCEPT ![p] = job.data[p[2]]] \in [Pairs -> Vals \cup {Absent, Foreign}]
<1>1. p[2] \in Keys BY DEF Pairs
<1>2. job.data[p[2]] \in Vals BY <1>1 DEF TypeOK, JobType
<1> QED BY <1>2 DEF TypeOK

(* One push, or the end of pushing.                                        *)
LEMMA PushStep == ASSUME IInv, Push PROVE IInv'
<1> USE JobFields DEF IInv
<1>1. mergeSecretState(job.done, job.ps.synced) \in SUBSET Pairs
  BY DEF mergeSecretState
<1>2. CASE PushFails
  <2>1. faults' \in 0..MaxFaults BY <1>2, FaultType DEF PushFails
  <2>2. Ends(mergeSecretState(job.done, job.ps.synced), "error")
        /\ UNCHANGED <<ps, cache, outside, remote, queue, timer>>
    BY <1>2 DEF PushFails
  <2>3. /\ pc' = "finish" /\ job' \in JobType /\ job'.ps = job.ps /\ job'.done = job.done
        /\ job'.new = job.done \cup job.ps.synced
    BY <1>1, <2>2, EndsType DEF mergeSecretState
  <2>4. remote' \in [Pairs -> Vals \cup {Absent, Foreign}] /\ queue' \in BOOLEAN
    BY <2>2 DEF TypeOK
  <2> QED BY <2>1, <2>2, <2>3, <2>4, EndsStep
<1>3. ASSUME NEW p \in Pairs, PushReplyLost(p) PROVE IInv'
  <2>1. faults' \in 0..MaxFaults BY <1>3, FaultType DEF PushReplyLost
  <2>2. Ends(mergeSecretState(job.done, job.ps.synced), "error")
        /\ UNCHANGED <<ps, cache, outside, queue, timer>>
    BY <1>3 DEF PushReplyLost
  <2>3. /\ pc' = "finish" /\ job' \in JobType /\ job'.ps = job.ps /\ job'.done = job.done
        /\ job'.new = job.done \cup job.ps.synced
    BY <1>1, <2>2, EndsType DEF mergeSecretState
  <2>4. remote' \in [Pairs -> Vals \cup {Absent, Foreign}] /\ queue' \in BOOLEAN
    BY <1>3, <2>2, PushedType DEF PushReplyLost, TypeOK
  <2> QED BY <2>1, <2>2, <2>3, <2>4, EndsStep
<1>4. ASSUME NEW p \in Pairs, PushSecretToStore(p) PROVE IInv'
  <2> DEFINE j == [job EXCEPT !.todo = @ \ {p}, !.done = @ \cup {p}]
  <2>1. /\ job' = j /\ pc = "push"
        /\ UNCHANGED <<ps, cache, source, up, env, pc, queue, timer, faults>>
    BY <1>4 DEF PushSecretToStore, outside
  <2>2. remote' \in [Pairs -> Vals \cup {Absent, Foreign}]
    BY <1>4, PushedType DEF PushSecretToStore
  <2>3. j \in JobType /\ j.ps = job.ps BY DEF JobType
  <2> HIDE DEF j
  <2>4. TypeOK' BY <2>1, <2>2, <2>3 DEF TypeOK
  <2> QED BY <2>1, <2>3, <2>4
       DEF PushIsNoCleanup, CleanIsSound, ReleaseIsSound, PartialPushTracked
<1>5. CASE PushDone /\ job.ps.spec.policy = "None"
  <2>1. Ends(job.done, "after") /\ UNCHANGED <<ps, cache, outside, remote, queue, timer, faults>>
    BY <1>5 DEF PushDone
  <2>2. /\ pc' = "finish" /\ job' \in JobType /\ job'.ps = job.ps /\ job'.done = job.done
        /\ job'.new = job.done
    BY <2>1, EndsType
  <2>3. /\ remote' \in [Pairs -> Vals \cup {Absent, Foreign}] /\ queue' \in BOOLEAN
        /\ faults' \in 0..MaxFaults
    BY <2>1 DEF TypeOK
  <2> QED BY <1>5, <2>1, <2>2, <2>3, EndsStep
<1>6. CASE PushDone /\ job.ps.spec.policy = "Delete"
  <2> DEFINE j == [job EXCEPT !.todo = job.ps.synced \ job.done,
                              !.out = mergeSecretState(job.done, job.ps.synced)]
  <2>1. /\ job' = j /\ pc = "push" /\ pc' = "clean"
        /\ UNCHANGED <<ps, cache, source, up, env, remote, queue, timer, faults>>
    BY <1>6 DEF PushDone, outside
  <2>2. /\ j \in JobType /\ j.ps = job.ps /\ j.done = job.done
        /\ j.todo = job.ps.synced \ job.done /\ j.out = job.done \cup job.ps.synced
    BY <1>1 DEF JobType, mergeSecretState
  <2> HIDE DEF j
  <2>3. TypeOK' BY <2>1, <2>2 DEF TypeOK
  <2>4. ~(job.ps.deleting /\ job.ps.fin) BY <1>6, <2>1 DEF PushIsNoCleanup
  <2>5. CleanIsSound' BY <1>6, <2>1, <2>2, <2>4 DEF CleanIsSound
  <2> QED BY <2>1, <2>3, <2>5 DEF PushIsNoCleanup, ReleaseIsSound, PartialPushTracked
<1> QED BY <1>2, <1>3, <1>4, <1>5, <1>6 DEF Push, PushDone

(* One remote deletion, or the end of deleting.                            *)
LEMMA CleanStep == ASSUME IInv, Clean PROVE IInv'
<1> USE JobFields DEF IInv
<1>0. pc = "clean" BY DEF Clean, DeleteFails, DeleteDone, DeleteSecretFromStore
<1>1. CASE DeleteFails
  <2>1. faults' \in 0..MaxFaults BY <1>1, FaultType DEF DeleteFails
  <2>2. Ends(job.out, "error") /\ UNCHANGED <<ps, cache, outside, remote, queue, timer>>
    BY <1>1 DEF DeleteFails
  <2>3. /\ pc' = "finish" /\ job' \in JobType /\ job'.ps = job.ps /\ job'.done = job.done
        /\ job'.new = job.out
    BY <2>2, EndsType
  <2>4. remote' \in [Pairs -> Vals \cup {Absent, Foreign}] /\ queue' \in BOOLEAN
    BY <2>2 DEF TypeOK
  <2>5. job.done \subseteq job.out /\ \A p \in job.ps.synced \ job.out : remote[p] \notin Vals
    BY <1>0 DEF CleanIsSound, Ours
  <2> QED BY <2>1, <2>2, <2>3, <2>4, <2>5, EndsStep
<1>2. CASE DeleteDone /\ job.ps.deleting /\ job.ps.fin
  <2>1. /\ pc' = "release" /\ job.todo = {} /\ job.done = {}
        /\ UNCHANGED <<job, ps, cache, source, up, env, remote, queue, timer, faults>>
    BY <1>0, <1>2 DEF DeleteDone, outside, CleanIsSound
  <2>2. TypeOK' BY <2>1 DEF TypeOK
  <2>3. ReleaseIsSound' BY <1>0, <2>1 DEF ReleaseIsSound, CleanIsSound, Ours
  <2> QED BY <2>1, <2>2, <2>3 DEF PushIsNoCleanup, CleanIsSound, PartialPushTracked
<1>3. CASE DeleteDone /\ ~(job.ps.deleting /\ job.ps.fin)
  <2>1. /\ Ends(job.done, "after") /\ job.todo = {}
        /\ UNCHANGED <<ps, cache, outside, remote, queue, timer, faults>>
    BY <1>3 DEF DeleteDone
  <2>2. /\ pc' = "finish" /\ job' \in JobType /\ job'.ps = job.ps /\ job'.done = job.done
        /\ job'.new = job.done
    BY <2>1, EndsType
  <2>3. /\ remote' \in [Pairs -> Vals \cup {Absent, Foreign}] /\ queue' \in BOOLEAN
        /\ faults' \in 0..MaxFaults
    BY <2>1 DEF TypeOK
  <2>4. \A p \in job.ps.synced \ job.done : remote[p] \notin Vals
    BY <1>0, <2>1 DEF CleanIsSound, Ours
  <2> QED BY <2>1, <2>2, <2>3, <2>4, EndsStep
<1>4. ASSUME NEW p \in Pairs, DeleteSecretFromStore(p) PROVE IInv'
  <2> DEFINE j == [job EXCEPT !.todo = @ \ {p}, !.out = @ \ Forgotten(p)]
  <2>1. /\ job' = j /\ p \in job.todo /\ pc' = "clean"
        /\ remote' = [remote EXCEPT ![p] = IF @ = Foreign THEN @ ELSE Absent]
        /\ UNCHANGED <<ps, cache, source, up, env, queue, timer, faults>>
    BY <1>0, <1>4 DEF DeleteSecretFromStore, outside
  <2>2. /\ j \in JobType /\ j.ps = job.ps /\ j.done = job.done
        /\ j.todo = job.todo \ {p} /\ j.out = job.out \ Forgotten(p)
    BY DEF JobType
  <2> HIDE DEF j
  <2>3. /\ remote' \in [Pairs -> Vals \cup {Absent, Foreign}]
        /\ \A q \in Pairs : remote'[q] \in Vals => remote[q] \in Vals
        /\ remote'[p] \notin Vals
    BY <2>1, PushAssumption DEF PushAssumption, TypeOK
  <2>4. TypeOK' BY <1>0, <2>1, <2>2, <2>3 DEF TypeOK
  <2>5. Forgotten(p) \cap job.done = {}
    BY <1>0, <2>1 DEF Forgotten, StoresOf, CleanIsSound
  <2>6. \A q \in Forgotten(p) : q # p => q \in job.out /\ q[1] = p[1] /\ q \notin job.todo
    BY DEF Forgotten
  <2>7. \A q \in job.ps.synced : (q \notin job'.todo /\ q \notin job.done) => ~Ours(q)'
    BY <1>0, <2>1, <2>2, <2>3 DEF CleanIsSound, Ours
  <2>8. \A q \in job.ps.synced \ (job.out \ Forgotten(p)) : ~Ours(q)'
    <3> SUFFICES ASSUME NEW q \in job.ps.synced, q \notin job.out \/ q \in Forgotten(p)
                 PROVE  remote'[q] \notin Vals
      BY DEF Ours
    <3>1. CASE q \notin job.out BY <1>0, <2>3, <3>1 DEF CleanIsSound, Ours
    <3>2. CASE q \in Forgotten(p)
      <4>1. q = p \/ q \notin job.todo BY <2>6, <3>2
      <4>2. q \notin job.done BY <2>5, <3>2
      <4> QED BY <2>1, <2>2, <2>7, <4>1, <4>2 DEF Ours
    <3> QED BY <3>1, <3>2
  <2>9. CleanIsSound'
    BY <1>0, <2>1, <2>2, <2>5, <2>7, <2>8 DEF CleanIsSound
  <2> QED BY <2>1, <2>4, <2>9 DEF PushIsNoCleanup, ReleaseIsSound, PartialPushTracked
<1> QED BY <1>1, <1>2, <1>3, <1>4 DEF Clean

(* The finalizer update or the deferred status patch.                      *)
LEMMA FinishStep == ASSUME IInv, Finish PROVE IInv'
<1>1. ASSUME NEW x \in BOOLEAN, NEW y \in BOOLEAN
      PROVE  [ps EXCEPT !.fin = x, !.exists = y] \in PSType
  BY DEF IInv, TypeOK, PSType
<1>2. CASE RemoveFinalizer
  <2>1. ps' \in PSType BY <1>1, <1>2 DEF RemoveFinalizer
  <2> QED BY <1>2, <2>1, ReturnsStep DEF RemoveFinalizer, outside, IInv, TypeOK
<1>3. CASE RemoveFinalizerFails
  <2>1. faults' \in 0..MaxFaults BY <1>3, FaultType DEF RemoveFinalizerFails, IInv
  <2> QED BY <1>3, <2>1, ReturnsStep DEF RemoveFinalizerFails, outside, IInv, TypeOK
<1>4. CASE PatchStatus
  <2> DEFINE m == MergePatch(ps.synced, job.ps.synced, job.new)
  <2>1. m \subseteq Pairs BY DEF MergePatch, IInv, TypeOK, PSType, JobType
  <2>2. ps' = [ps EXCEPT !.synced = m] BY <1>4 DEF PatchStatus
  <2> HIDE DEF m
  <2>3. ps' \in PSType BY <2>1, <2>2 DEF IInv, TypeOK, PSType
  <2>4. queue' \in BOOLEAN /\ timer' \in BOOLEAN BY <1>4 DEF PatchStatus, Requeue, IInv, TypeOK
  <2> QED BY <1>4, <2>3, <2>4, ReturnsStep DEF PatchStatus, outside, IInv, TypeOK
<1>5. CASE PatchStatusFails
  <2>1. faults' \in 0..MaxFaults BY <1>5, FaultType DEF PatchStatusFails, IInv
  <2>2. queue' \in BOOLEAN /\ timer' \in BOOLEAN
    BY <1>5 DEF PatchStatusFails, Requeue, IInv, TypeOK
  <2> QED BY <1>5, <2>1, <2>2, ReturnsStep DEF PatchStatusFails, outside, IInv, TypeOK
<1> QED BY <1>2, <1>3, <1>4, <1>5 DEF Finish

(* The informer, the timer, users, stores and restarts.                    *)
LEMMA OutsideStep ==
  ASSUME IInv,
         EditSpec \/ DeletePS \/ SourceChanges \/ StoreChanges \/ ForeignAppears \/ Restart
  PROVE  IInv'
<1> USE PushAssumption DEF PushAssumption
<1>1. env' \in 0..MaxEnv
  BY OutsideType DEF EditSpec, DeletePS, SourceChanges, StoreChanges, ForeignAppears, Restart, IInv
<1>2. CASE EditSpec
  <2>1. PICK s \in Specs : ps' = [ps EXCEPT !.spec = s] BY <1>2 DEF EditSpec
  <2>2. ps' \in PSType BY <2>1 DEF IInv, TypeOK, PSType
  <2> QED BY <1>1, <1>2, <2>2, QuietStep DEF EditSpec, IInv, TypeOK
<1>3. CASE DeletePS
  <2>1. \A b \in BOOLEAN : [ps EXCEPT !.deleting = b] \in PSType /\ [ps EXCEPT !.exists = b] \in PSType
    BY DEF IInv, TypeOK, PSType
  <2>2. ps' \in PSType BY <1>3, <2>1 DEF DeletePS
  <2> QED BY <1>1, <1>3, <2>2, QuietStep DEF DeletePS, IInv, TypeOK
<1>4. CASE SourceChanges
  <2>1. source' \in [Keys -> Vals \cup {Absent}] BY <1>4 DEF SourceChanges, IInv, TypeOK
  <2> QED BY <1>1, <1>4, <2>1, QuietStep DEF SourceChanges, IInv, TypeOK
<1>5. CASE StoreChanges
  <2>1. up' \subseteq Stores BY <1>5 DEF StoreChanges, IInv, TypeOK
  <2> QED BY <1>1, <1>5, <2>1, QuietStep DEF StoreChanges, IInv, TypeOK
<1>6. CASE ForeignAppears
  <2>1. PICK p \in Pairs : remote' = [remote EXCEPT ![p] = Foreign] BY <1>6 DEF ForeignAppears
  <2>2. remote' \in [Pairs -> Vals \cup {Absent, Foreign}] BY <2>1 DEF IInv, TypeOK
  <2>3. \A q \in Pairs : remote'[q] \in Vals => remote[q] \in Vals BY <2>1 DEF IInv, TypeOK
  <2> QED BY <1>1, <1>6, <2>2, <2>3, QuietStep DEF ForeignAppears, IInv, TypeOK
<1>7. CASE Restart
  <2>1. queue' \in BOOLEAN /\ timer' \in BOOLEAN BY <1>7 DEF Restart, IInv, TypeOK, PSType
  <2> QED BY <1>1, <1>7, <2>1, ReturnsStep DEF Restart, IInv, TypeOK
<1> QED BY <1>2, <1>3, <1>4, <1>5, <1>6, <1>7

(* Every step preserves the inductive invariant.                           *)
LEMMA StepInv == ASSUME IInv, [Next]_vars PROVE IInv'
<1>1. CASE UNCHANGED vars BY <1>1, QuietStep DEF vars, IInv, TypeOK
<1>2. CASE Reconcile BY <1>2, BeginStep, PushStep, CleanStep, FinishStep DEF Reconcile
<1>3. CASE InformerSync BY <1>3, QuietStep DEF InformerSync, outside, IInv, TypeOK
<1>4. CASE TimerFires BY <1>4, QuietStep DEF TimerFires, outside, IInv, TypeOK
<1> QED BY <1>1, <1>2, <1>3, <1>4, OutsideStep DEF Next

-----------------------------------------------------------------------------
(* The inductive invariant holds in every reachable state.                 *)
THEOREM Invariance == Spec => []IInv
<1>1. Init => IInv BY InitInv
<1>2. IInv /\ [Next]_vars => IInv' BY StepInv
<1> QED BY <1>1, <1>2, PTL DEF Spec

(* Types of the PushSecret controller's variables.                         *)
THEOREM TypeCorrect == Spec => []TypeOK
<1>1. IInv => TypeOK BY DEF IInv
<1> QED BY <1>1, Invariance, PTL

(* mergeSecretState and DeleteSecretFromProviders: wherever a reconcile    *)
(* fails, the status it is about to write lists all it has pushed and all  *)
(* that is still in a store.                                               *)
THEOREM NothingLosesTrack == Spec => []PartialPushTracked
<1>1. IInv => PartialPushTracked BY DEF IInv
<1> QED BY <1>1, Invariance, PTL

(* The finalizer of deletionPolicy=Delete: the PushSecret goes away only   *)
(* when all that its status lists is gone from the stores.                 *)
THEOREM FinalizerGuards == Spec => FinalizerHolds
<1> DEFINE A == (ps.exists /\ ps.fin /\ ~ps'.exists) => \A p \in ps.synced : ~Ours(p)
<1>1. ASSUME IInv, [Next]_vars PROVE [A]_vars
  <2> SUFFICES ASSUME Next, ps.exists, ps.fin, ~ps'.exists
               PROVE  \A p \in ps.synced : ~Ours(p)
    BY <1>1
  <2>1. ps \in PSType BY <1>1 DEF IInv, TypeOK
  <2>2. ps' # ps OBVIOUS
  <2>3. ~AddFinalizer /\ ~PatchStatus /\ ~EditSpec
    BY <2>1 DEF AddFinalizer, PatchStatus, EditSpec, PSType
  <2>4. ~DeletePS BY <2>1 DEF DeletePS, PSType
  <2>5. RemoveFinalizer
    BY <2>2, <2>3, <2>4 DEF Next, Reconcile, Begin, SkipGone, AddFinalizerFails, StartCleanup,
         StartPush, StartFails, Push, PushFails, PushDone, PushSecretToStore, PushReplyLost,
         Clean, DeleteFails, DeleteDone, DeleteSecretFromStore, Finish, RemoveFinalizerFails,
         PatchStatusFails, InformerSync, TimerFires, SourceChanges, StoreChanges,
         ForeignAppears, Restart
  <2>6. pc = "release" /\ ps = job.ps BY <2>5 DEF RemoveFinalizer
  <2> QED BY <1>1, <2>6 DEF IInv, ReleaseIsSound
<1>2. FinalizerHolds <=> [][A]_vars BY DEF FinalizerHolds
<1> HIDE DEF A
<1> QED BY <1>1, <1>2, Invariance, PTL DEF Spec
=============================================================================
