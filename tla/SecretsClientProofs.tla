------------------------ MODULE SecretsClientProofs ------------------------
(***************************************************************************)
(* For any remote secrets, any number of failing calls and of edits by     *)
(* others: every provider that writes keeps the promise of ManagedSecrets  *)
(* (it writes its target only, and only if that was free), what a push or  *)
(* a delete reports as done has been done, and what a failed one wrote can *)
(* be pushed or deleted again. A read or a find returns only what it was   *)
(* asked for, a find all of it, and what either reports as absent was.     *)
(***************************************************************************)
EXTENDS SecretsClient, TLAPS

ItemType == [shape : Shapes \cup {"absent"}, v : Nat, tagged : BOOLEAN, place : {"own", "shared"}]
OpFields == {"method", "pc", "kind", "ref", "val", "got", "gotId", "todo", "page", "found", "out", "wrote"}

ReadPcs == {"idle", "call", "again", "read", "wildcard", "groups", "group", "second", "list",
            "shared", "project", "fetch", "match", "done"}
WritePcs == {"lookup", "describe", "access", "create", "put", "label", "remove", "removeData", "done"}

Types ==
    /\ remote \in [Keys -> ItemType] /\ seen \in [Keys -> SUBSET ItemType]
    /\ ids \in [Keys -> Nat] /\ dups \in Nat
    /\ count \in [faults : Nat, edits : Nat, ops : Nat]
    /\ op = [f \in OpFields |-> op[f]]
    /\ op.got \in ItemType /\ op.wrote \subseteq ItemType /\ op.val \in {"text", "flat"}

\* Where an operation can be; a push or a delete is about the secret Main.
Labels ==
    /\ op.pc = "idle" => op.method = "none"
    /\ ~Running => op.pc \in ReadPcs
    /\ Running => op.pc \in IF prov \in Writers THEN WritePcs ELSE {"call", "done"}
    /\ Running => op.ref.key = Main
    /\ Running /\ op.pc \in {"access", "create", "put", "label"} => op.method = "push"
    /\ Running /\ op.pc \in {"remove", "removeData"} => op.method = "delete"
    /\ Running => /\ op.pc = "describe" => prov \in {"awssm", "awsps", "vault"}
                  /\ op.pc = "access" => prov = "gcp"
                  /\ op.pc = "create" => prov \in {"awssm", "awsps", "gcp", "keeper"}
                  /\ op.pc \in {"label", "removeData"} => prov = "vault"
                  /\ op.pc = "remove" => prov # "fake"

\* Nobody refills a client that writes, or one that has not begun.
Bound ==
    /\ Running \/ op.pc = "idle" => bound = "own"
    /\ bound # "own" => prov \in Singletons

\* Everything a secret is has been noticed.
Seen ==
    /\ \A k \in Keys : remote[k] \in seen[k]
    /\ count.ops = 0 => op.pc = "idle" /\ seen = [k \in Keys |-> {remote[k]}]

\* A secret without a version has no value; a disabled one of Azure has.
Valueless == \A k \in Keys : \A it \in seen[k] : it.shape = "bare" => it.v = 0 \/ prov = "azure"

\* Before a write the secret was free at some moment, unless Keeper creates a
\* record.
Licence ==
    Running /\ op.pc \in {"access", "create", "put", "label", "remove", "removeData"} =>
        \/ \E it \in seen[Main] : Unclaimed(it)
        \/ prov = "keeper" /\ op.pc = "create"

\* While nobody interferes, what was found is still there, with its mark.
Undisturbed ==
    Running /\ count.edits = 0 =>
        /\ op.pc = "describe" => op.got = remote[Main]
        /\ op.pc \in {"access", "put", "removeData"} /\ prov \notin {"azure", "fake"} => remote[Main].tagged
        /\ \A it \in op.wrote : Free(it)
Looked == Running /\ op.pc = "describe" => op.got \in seen[Main]

\* What has been reported has been done.
Done ==
    Running /\ op.pc = "done" /\ op.out = "ok" =>
        /\ op.method = "push" /\ dups = 0 =>
              \E it \in seen[Main] : Same(it, op.val) /\ (it.tagged \/ count.edits > 0)
        /\ op.method = "delete" /\ prov \notin {"fake", "keeper"} =>
              \E it \in seen[Main] : Gone(it) \/ ~it.tagged

Inv == /\ Types /\ Labels /\ Bound /\ Seen /\ Valueless /\ Licence /\ Undisturbed /\ Looked /\ Done

-----------------------------------------------------------------------------
(* A step of a read or a find.                                             *)
Reading ==
    /\ ~Running /\ op.pc # "idle"
    /\ op' = [f \in OpFields |-> op'[f]] /\ op'.method = op.method /\ op'.pc \in ReadPcs \ {"idle"}
    /\ op'.got = op.got /\ op'.wrote = op.wrote /\ op'.val = op.val
    /\ UNCHANGED <<prov, remote, ids, bound, seen, dups>>
    /\ count' \in [faults : Nat, edits : Nat, ops : Nat] /\ count'.ops = count.ops

(* One call counts as a fault or not.                                      *)
LEMMA CallCounts ==
    ASSUME Types, NEW st, Call(st)
    PROVE  /\ UNCHANGED <<prov, remote, ids, bound, seen, dups>>
           /\ count' \in [faults : Nat, edits : Nat, ops : Nat]
           /\ count'.ops = count.ops /\ count'.edits = count.edits
<1>1. count' = [count EXCEPT !.faults = @ + IF Faulty(st) THEN 1 ELSE 0] BY DEF Call
<1>2. (IF Faulty(st) THEN 1 ELSE 0) \in Nat BY DEF Faulty
<1> QED BY <1>1, <1>2 DEF Call, Types, world

(* The end of a read, and a change of its place.                           *)
LEMMA ReadEnds ==
    ASSUME Types, ~Running, op.pc # "idle", NEW st, Call(st), NEW res,
           Finish(res) \/ \E pc \in ReadPcs \ {"idle"} : Next1(pc)
    PROVE  Reading
<1>1. op' = [f \in OpFields |-> op'[f]] /\ op'.method = op.method /\ op'.pc \in ReadPcs \ {"idle"}
      /\ op'.got = op.got /\ op'.wrote = op.wrote /\ op'.val = op.val
  BY DEF Finish, Next1, Types, OpFields, ReadPcs
<1> QED BY <1>1, CallCounts DEF Reading

(* The reads of one secret.                                                *)
LEMMA SingleReads ==
    ASSUME Types, Labels, Read \/ Describe \/ ReadByType
    PROVE  Reading
<1>1. CASE Read
  <2>1. ~Running /\ op.pc # "idle" BY <1>1 DEF Read, Running
  <2>2. PICK ans : Call(ans.st) /\ (Next1("again") \/ \E res : Finish(res)) BY <1>1 DEF Read
  <2> QED BY <2>1, <2>2, ReadEnds DEF ReadPcs
<1>2. CASE Describe
  <2>1. ~Running /\ op.pc # "idle" BY <1>2 DEF Describe, Running
  <2>2. PICK ans : Call(ans.st) /\ (Next1("read") \/ \E res : Finish(res)) BY <1>2 DEF Describe
  <2> QED BY <2>1, <2>2, ReadEnds DEF ReadPcs
<1>3. CASE ReadByType
  <2>1. ~Running /\ op.pc # "idle" BY <1>3 DEF ReadByType, Running, Labels, WritePcs
  <2>2. PICK ans : Call(ans.st) /\ \E res : Finish(res) BY <1>3 DEF ReadByType
  <2> QED BY <2>1, <2>2, ReadEnds DEF ReadPcs
<1> QED BY <1>1, <1>2, <1>3

(* The project is asked, once or twice.                                    *)
LEMMA ProjectReads ==
    ASSUME Types, NEW pc, pc # "idle", NEW scope, ReadProject(pc, scope)
    PROVE  Reading
<1>1. ~Running /\ op.pc # "idle" BY DEF ReadProject, Running
<1>2. PICK ans, res : Call(ans.st) /\ (\/ Finish(res) \/ Next1("wildcard")
                                      \/ op' = [op EXCEPT !.pc = "groups", !.found = res])
  BY DEF ReadProject
<1>3. CASE Finish(res) \/ Next1("wildcard") BY <1>1, <1>2, <1>3, ReadEnds DEF ReadPcs
<1>4. CASE op' = [op EXCEPT !.pc = "groups", !.found = res]
  BY <1>1, <1>2, <1>4, CallCounts DEF Reading, Types, OpFields, ReadPcs
<1> QED BY <1>2, <1>3, <1>4

(* The reads of GitLab and 1Password, which look in two places.            *)
LEMMA TwoPlaceReads ==
    ASSUME Types, Labels,
           \/ ReadProject("call", op.kind) \/ ReadProject("wildcard", "*") \/ ListGroups \/ ReadGroup
           \/ ReadVault("own", "call") \/ ReadVault("shared", "second")
    PROVE  Reading
<1>1. CASE ReadProject("call", op.kind) \/ ReadProject("wildcard", "*") BY <1>1, ProjectReads
<1>2. CASE ListGroups
  <2>1. ~Running /\ op.pc # "idle" BY <1>2 DEF ListGroups, Running, Labels, WritePcs
  <2>2. PICK st : Call(st) /\ (Next1("group") \/ \E res : Finish(res))
    BY <1>2 DEF ListGroups, FinishVariable
  <2> QED BY <2>1, <2>2, ReadEnds DEF ReadPcs
<1>3. CASE ReadGroup
  <2>1. ~Running /\ op.pc # "idle" BY <1>3 DEF ReadGroup, Running, Labels, WritePcs
  <2>2. PICK ans : Call(ans.st) /\ \E res : Finish(res) BY <1>3 DEF ReadGroup, FinishVariable
  <2> QED BY <2>1, <2>2, ReadEnds DEF ReadPcs
<1>4. ASSUME NEW vault, NEW pc, pc # "idle", ReadVault(vault, pc) PROVE Reading
  <2>1. ~Running /\ op.pc # "idle" BY <1>4 DEF ReadVault, Running
  <2>2. PICK ans : Call(ans.st) /\ (Next1("second") \/ \E res : Finish(res)) BY <1>4 DEF ReadVault
  <2> QED BY <2>1, <2>2, ReadEnds DEF ReadPcs
<1> QED BY <1>1, <1>2, <1>3, <1>4

(* The finds.                                                              *)
LEMMA Finds ==
    ASSUME Types, Labels,
           \/ ListAll \/ ListNames \/ NextPage
           \/ FindEnvironment \/ ListForFind \/ ListGitlab
           \/ \E k \in Keys : Fetch(k) \/ FetchMetadata(k)
    PROVE  Reading
<1>1. CASE ListAll
  <2>1. ~Running /\ op.pc # "idle" BY <1>1 DEF ListAll, At1, Running
  <2>2. PICK st : Call(st) /\ \E res : Finish(res) BY <1>1 DEF ListAll
  <2> QED BY <2>1, <2>2, ReadEnds DEF ReadPcs
<1>2. CASE ListGitlab
  <2>1. ~Running /\ op.pc # "idle" BY <1>2 DEF ListGitlab, Running, Labels, WritePcs
  <2>2. PICK st, res : Call(st) /\ (Finish(res) \/ op' = [op EXCEPT !.pc = "project", !.found = res])
    BY <1>2 DEF ListGitlab
  <2>3. CASE Finish(res) BY <2>1, <2>2, <2>3, ReadEnds
  <2>4. CASE op' = [op EXCEPT !.pc = "project", !.found = res]
    BY <2>1, <2>2, <2>4, CallCounts DEF Reading, Types, OpFields, ReadPcs
  <2> QED BY <2>2, <2>3, <2>4
<1>3. CASE ListNames
  <2>1. ~Running /\ op.pc # "idle" BY <1>3 DEF ListNames, At1, Running
  <2>2. PICK st, todo : Call(st) /\ (Finish(Error) \/ op' = [op EXCEPT !.pc = "fetch", !.todo = todo])
    BY <1>3 DEF ListNames
  <2>3. CASE Finish(Error) BY <2>1, <2>2, <2>3, ReadEnds
  <2>4. CASE op' = [op EXCEPT !.pc = "fetch", !.todo = todo]
    BY <2>1, <2>2, <2>4, CallCounts DEF Reading, Types, OpFields, ReadPcs
  <2> QED BY <2>2, <2>3, <2>4
<1>4. CASE NextPage
  <2>1. ~Running /\ op.pc # "idle" BY <1>4 DEF NextPage, Running, Labels, WritePcs
  <2>2. PICK res : Finish(res) \/ op' = [op EXCEPT !.pc = "call", !.page = 2] BY <1>4 DEF NextPage
  <2>3. op' = [f \in OpFields |-> op'[f]] /\ op'.method = op.method /\ op'.pc \in ReadPcs \ {"idle"}
        /\ op'.got = op.got /\ op'.wrote = op.wrote /\ op'.val = op.val
    BY <2>2 DEF Finish, Types, OpFields, ReadPcs
  <2> QED BY <1>4, <2>1, <2>3 DEF NextPage, Reading, Types, world
<1>5. ASSUME NEW k \in Keys, Fetch(k) PROVE Reading
  <2>1. ~Running /\ op.pc # "idle" BY <1>5 DEF Fetch, Running
  <2>2. PICK ans : /\ Call(ans.st)
                   /\ op' = Collect(k, Fetched(ans)) \/ Finish(Fetched(ans))
    BY <1>5 DEF Fetch
  <2>3. CASE Finish(Fetched(ans)) BY <2>1, <2>2, <2>3, ReadEnds
  <2>4. CASE op' = Collect(k, Fetched(ans))
    <3>1. \E todo, found : op' = [op EXCEPT !.todo = todo, !.pc = "fetch", !.found = found]
      BY <2>4 DEF Collect
    <3> QED BY <2>1, <2>2, <3>1, CallCounts DEF Reading, Types, OpFields, ReadPcs
  <2> QED BY <2>2, <2>3, <2>4
<1>6. ASSUME NEW k \in Keys, FetchMetadata(k) PROVE Reading
  <2>1. ~Running /\ op.pc # "idle" BY <1>6 DEF FetchMetadata, Running, Labels, WritePcs
  <2>2. PICK ans, todo : Call(ans.st) /\ (\/ Finish(Error)
                                          \/ op' = [op EXCEPT !.pc = "match", !.ref.key = k]
                                          \/ op' = [op EXCEPT !.todo = todo])
    BY <1>6 DEF FetchMetadata
  <2>3. CASE Finish(Error) BY <2>1, <2>2, <2>3, ReadEnds
  <2>4. CASE op' = [op EXCEPT !.pc = "match", !.ref.key = k]
    BY <2>1, <2>2, <2>4, CallCounts DEF Reading, Types, OpFields, ReadPcs
  <2>5. CASE op' = [op EXCEPT !.todo = todo]
    BY <2>1, <2>2, <2>5, CallCounts DEF Reading, Types, Labels, OpFields, ReadPcs
  <2> QED BY <2>2, <2>3, <2>4, <2>5
<1>7. CASE FindEnvironment
  <2>1. ~Running /\ op.pc # "idle" BY <1>7 DEF FindEnvironment, At1, Running
  <2>2. PICK res, kd : Finish(res) \/ op' = [op EXCEPT !.pc = "list", !.kind = kd]
    BY <1>7 DEF FindEnvironment
  <2>3. op' = [f \in OpFields |-> op'[f]] /\ op'.method = op.method /\ op'.pc \in ReadPcs \ {"idle"}
        /\ op'.got = op.got /\ op'.wrote = op.wrote /\ op'.val = op.val
    BY <2>2 DEF Finish, Types, OpFields, ReadPcs
  <2> QED BY <1>7, <2>1, <2>3 DEF FindEnvironment, Reading, Types, world
<1>8. CASE ListForFind
  <2>1. ~Running /\ op.pc # "idle" BY <1>8 DEF ListForFind, Running, Labels, WritePcs
  <2>2. PICK st : Call(st) /\ (Next1("project") \/ Next1("shared") \/ \E res : Finish(res))
    BY <1>8 DEF ListForFind
  <2> QED BY <2>1, <2>2, ReadEnds DEF ReadPcs
<1> QED BY <1>1, <1>2, <1>3, <1>4, <1>5, <1>6, <1>7, <1>8

(* A read leaves all that is about writes alone.                           *)
LEMMA ReadStep == ASSUME Inv, Reading PROVE Inv'
<1>1. ~Running' /\ op'.pc # "idle" BY DEF Reading, Running
<1>2. Types' BY DEF Inv, Types, Reading
<1>3. Labels' BY <1>1 DEF Labels, Reading
<1>4. Bound' BY <1>1 DEF Inv, Bound, Reading
<1>5. Seen' BY DEF Inv, Seen, Reading
<1>6. Valueless' BY DEF Inv, Valueless, Reading
<1> QED BY <1>1, <1>2, <1>3, <1>4, <1>5, <1>6 DEF Inv, Licence, Undisturbed, Looked, Done

-----------------------------------------------------------------------------
(* The calls of a push or a delete that read.                              *)

\* What a provider that writes can learn from a call about the secret.
Learns(ans) ==
    \/ ans.st = "ok" /\ ans.item = remote[Main] /\ ans.item # Absent
    \/ ans.st = "notfound" /\ ans.item = Absent /\ remote[Main] = Absent
    \/ ans.st \in {"fail", "lost"} /\ ans.item = Absent /\ prov # "fake"

(* An answer tells what the secret is now, or nothing.                     *)
LEMMA Answered ==
    ASSUME Types, bound = "own", NEW ans \in Answers(Main), ans.st # "garbled"
    PROVE  Learns(ans) /\ ans.item \in ItemType
<1>1. remote[Main] \in ItemType /\ Absent \in ItemType
  BY ClientAssumption DEF Types, Absent, Item, ItemType, Shapes
<1>2. CASE ans = AnswerFor(remote[Main])
  BY <1>1, <1>2 DEF AnswerFor, Answer, Learns
<1>3. CASE ans \in MayFail
  BY <1>1, <1>3 DEF MayFail, Faults, Answer, Learns
<1> QED BY <1>2, <1>3 DEF Answers, There

\* What a push makes of an answer ...
PushGoesOn(ans, s) ==
    /\ s.pc \in {"describe", "access", "create", "put", "label", "done"} /\ s.out \in {"go", "ok", "error", "panic"}
    /\ s.pc = "describe" => op.pc = "lookup" /\ ans.st = "ok" /\ prov \in {"awssm", "awsps", "vault"}
    /\ s.pc = "access" => ans.st = "ok" /\ ans.item.tagged /\ prov = "gcp"
    /\ s.pc = "create" => \/ ans.st = "notfound" /\ prov \in {"awssm", "awsps", "gcp"}
                          \/ prov = "keeper"
    /\ s.pc = "put" => \/ ans.st = "ok" /\ ans.item.tagged
                       \/ ans.st = "notfound" /\ prov \in {"azure", "fake"}
                       \/ op.pc = "access"
    /\ s.pc = "label" => /\ prov = "vault"
                         /\ ans.st = "notfound" \/ ans.item.shape = "bare" \/ (ans.st = "ok" /\ ans.item.tagged)
    /\ s.pc = "done" /\ s.out = "ok" =>
          /\ ans.st = "ok"
          /\ \/ Same(ans.item, op.val) /\ (ans.item.tagged \/ op.pc = "access")
             \/ Same(op.got, op.val) /\ ans.item.tagged /\ op.pc = "describe"
\* ... and a delete.
DeleteGoesOn(ans, s) ==
    /\ s.pc \in {"describe", "remove", "removeData", "done"} /\ s.out \in {"go", "ok", "error"}
    /\ s.pc = "describe" => op.pc = "lookup" /\ ans.st = "ok" /\ prov \in {"awssm", "awsps", "vault"}
    /\ s.pc \in {"remove", "removeData"} => ans.st = "ok" /\ ans.item.tagged
    /\ s.pc = "removeData" => prov = "vault"
    /\ s.pc = "remove" => prov # "fake"
    /\ s.pc = "done" /\ s.out = "ok" /\ prov # "fake" =>
          ans.st = "notfound" \/ ans.item.shape = "bare" \/ (ans.st = "ok" /\ ~ans.item.tagged)

(* Every provider's PushSecret.                                            *)
LEMMA PushLooks ==
    ASSUME Types, Labels, op.method = "push", prov \in Writers, op.pc \in {"lookup", "describe", "access"},
           NEW ans, Learns(ans), ans.item \in ItemType
    PROVE  PushGoesOn(ans, PushStep(ans))
<1> DEFINE s == PushStep(ans)
<1>0. Running BY DEF Running
<1>1. CASE prov = "awssm"
  <2>1. s = SMPushSecret(op.pc, ans, op.got, op.val) BY <1>1 DEF PushStep
  <2>2. op.pc \in {"lookup", "describe"} BY <1>0, <1>1 DEF Labels
  <2> QED BY <1>1, <2>1, <2>2 DEF SMPushSecret, Goto, Return, PushGoesOn, Learns, isManagedByESO
<1>2. CASE prov = "awsps"
  <2>1. s = PSPushSecret(op.pc, ans, op.got, op.val) BY <1>2 DEF PushStep
  <2>2. op.pc \in {"lookup", "describe"} BY <1>0, <1>2 DEF Labels
  <2> QED BY <1>2, <2>1, <2>2
      DEF PSPushSecret, setManagedRemoteParameter, getTagsByName, Goto, Return, PushGoesOn, Learns, isManagedByESO
<1>3. CASE prov = "gcp"
  <2>1. s = GCPPushSecret(op.pc, ans, op.got, op.val) BY <1>3 DEF PushStep
  <2>2. op.pc \in {"lookup", "access"} BY <1>0, <1>3 DEF Labels
  <2> QED BY <1>3, <2>1, <2>2 DEF GCPPushSecret, Goto, Return, PushGoesOn, Learns, Bad
<1>4. CASE prov = "azure"
  <2>1. s = AzurePushSecret(op.kind, ans, op.val) BY <1>4 DEF PushStep
  <2>2. op.pc = "lookup" BY <1>0, <1>4 DEF Labels
  <2> QED BY <1>4, <2>1, <2>2
      DEF AzurePushSecret, setKeyVaultSecret, setKeyVaultCertificate, setKeyVaultKey, canCreate, equalKeys,
          getObjType, Enabled,
          getCertificateFromValue, getKeyFromValue, Goto, Return, PushGoesOn, Learns
<1>5. CASE prov = "vault"
  <2>1. s = VaultPushSecret(op.pc, ans, op.got, op.val) BY <1>5 DEF PushStep
  <2>2. op.pc \in {"lookup", "describe"} BY <1>0, <1>5 DEF Labels
  <2>3. readSecret(ans).out = "ok" => ans.st = "ok"
    BY DEF readSecret, NoSecretErr, Error, Learns
  <2>4. readSecret(ans) = NoSecretErr => ans.st = "notfound" \/ ans.item.shape = "bare"
    BY DEF readSecret, NoSecretErr, Error, NilData, Single, Ok, Learns
  <2>5. readSecretMetadata(ans).out = "ok" => ans.st = "ok"
    BY DEF readSecretMetadata, Error, Learns
  <2> QED BY <1>5, <2>1, <2>2, <2>3, <2>4, <2>5 DEF VaultPushSecret, Goto, Return, PushGoesOn
<1>6. CASE prov = "keeper"
  <2>1. s = KeeperPushSecret(ans, op.ref.prop) BY <1>6 DEF PushStep
  <2>2. op.pc = "lookup" BY <1>0, <1>6 DEF Labels
  <2> QED BY <1>6, <2>1, <2>2 DEF KeeperPushSecret, createSecret, updateSecret, Goto, Return, PushGoesOn, Learns
<1>7. CASE prov = "fake"
  <2>1. s = FakePushSecret(ans.item) BY <1>7 DEF PushStep
  <2>2. op.pc = "lookup" BY <1>0, <1>7 DEF Labels
  <2> QED BY <1>7, <2>1, <2>2 DEF FakePushSecret, Goto, Return, PushGoesOn, Learns
<1> QED BY <1>1, <1>2, <1>3, <1>4, <1>5, <1>6, <1>7 DEF Writers

(* Every provider's DeleteSecret.                                          *)
LEMMA DeleteLooks ==
    ASSUME Types, Labels, op.method = "delete", prov \in Writers, op.pc \in {"lookup", "describe", "access"},
           NEW ans, Learns(ans), ans.item \in ItemType
    PROVE  DeleteGoesOn(ans, DeleteStep(ans))
<1> DEFINE s == DeleteStep(ans)
<1>0. Running BY DEF Running
<1>1. CASE prov = "awssm"
  <2>1. s = SMDeleteSecret(op.pc, ans) BY <1>1 DEF DeleteStep
  <2>2. op.pc \in {"lookup", "describe"} BY <1>0, <1>1 DEF Labels
  <2> QED BY <1>1, <2>1, <2>2 DEF SMDeleteSecret, Goto, Return, DeleteGoesOn, Learns, isManagedByESO
<1>2. CASE prov = "awsps"
  <2>1. s = PSDeleteSecret(op.pc, ans) BY <1>2 DEF DeleteStep
  <2>2. op.pc \in {"lookup", "describe"} BY <1>0, <1>2 DEF Labels
  <2> QED BY <1>2, <2>1, <2>2 DEF PSDeleteSecret, getTagsByName, Goto, Return, DeleteGoesOn, Learns, isManagedByESO
<1>3. CASE prov = "gcp"
  <2>1. s = GCPDeleteSecret(op.pc, ans) BY <1>3 DEF DeleteStep
  <2> QED BY <1>3, <2>1 DEF GCPDeleteSecret, Goto, Return, DeleteGoesOn, Learns, Bad
<1>4. CASE prov = "azure"
  <2>1. s = AzureDeleteSecret(op.kind, ans) BY <1>4 DEF DeleteStep
  <2> QED BY <1>4, <2>1 DEF AzureDeleteSecret, getObjType, Enabled, deleteKeyVault, canDelete, Goto, Return, DeleteGoesOn, Learns
<1>5. CASE prov = "vault"
  <2>1. s = VaultDeleteSecret(op.pc, ans) BY <1>5 DEF DeleteStep
  <2>2. op.pc \in {"lookup", "describe"} BY <1>0, <1>5 DEF Labels
  <2>3. readSecret(ans).out = "ok" => ans.st = "ok"
    BY DEF readSecret, NoSecretErr, Error, Learns
  <2>4. readSecret(ans) = NoSecretErr => ans.st = "notfound" \/ ans.item.shape = "bare"
    BY DEF readSecret, NoSecretErr, Error, NilData, Single, Ok, Learns
  <2>5. readSecretMetadata(ans).out = "ok" => ans.st = "ok"
    BY DEF readSecretMetadata, Error, Learns
  <2> QED BY <1>5, <2>1, <2>2, <2>3, <2>4, <2>5 DEF VaultDeleteSecret, Goto, Return, DeleteGoesOn
<1>6. CASE prov = "keeper"
  <2>1. s = KeeperDeleteSecret(ans, op.ref.prop) BY <1>6 DEF DeleteStep
  <2> QED BY <1>6, <2>1 DEF KeeperDeleteSecret, Goto, Return, DeleteGoesOn, Learns
<1>7. CASE prov = "fake"
  <2>1. s = FakeDeleteSecret BY <1>7 DEF DeleteStep
  <2> QED BY <1>7, <2>1 DEF FakeDeleteSecret, Goto, Return, DeleteGoesOn, Learns
<1> QED BY <1>1, <1>2, <1>3, <1>4, <1>5, <1>6, <1>7 DEF Writers

(* A call that reads keeps the invariant.                                  *)
LEMMA LookupStep == ASSUME Inv, Lookup PROVE Inv'
<1> USE DEF Inv
<1>1. Running /\ bound = "own" /\ op.ref.key = Main /\ prov \in Writers
      /\ op.pc \in {"lookup", "describe", "access"}
  BY DEF Lookup, Running, Bound, Labels
<1>2. PICK ans, s :
        /\ ans \in Answers(Main) /\ ans.st # "garbled" /\ Call(ans.st)
        /\ s = IF op.method = "push" THEN PushStep(ans) ELSE DeleteStep(ans)
        /\ op' = [op EXCEPT !.pc = s.pc, !.out = s.out,
                            !.got = IF op.pc = "lookup" THEN ans.item ELSE @,
                            !.gotId = IF op.pc = "lookup" THEN ids[Main] ELSE @]
  BY <1>1 DEF Lookup
<1>3. Learns(ans) /\ ans.item \in ItemType BY <1>1, <1>2, Answered
<1>4. /\ op.method = "push" => PushGoesOn(ans, s)
      /\ op.method = "delete" => DeleteGoesOn(ans, s)
  BY <1>1, <1>2, <1>3, PushLooks, DeleteLooks
<1>5. /\ op' = [f \in OpFields |-> op'[f]] /\ op'.method = op.method /\ op'.pc = s.pc /\ op'.out = s.out
      /\ op'.got = (IF op.pc = "lookup" THEN ans.item ELSE op.got)
      /\ op'.wrote = op.wrote /\ op'.val = op.val /\ op'.ref = op.ref
  BY <1>2 DEF Types, OpFields
<1>6. /\ UNCHANGED <<prov, remote, ids, bound, seen, dups>>
      /\ count' \in [faults : Nat, edits : Nat, ops : Nat]
      /\ count'.ops = count.ops /\ count'.edits = count.edits
  BY <1>2, CallCounts
<1>7. Running' /\ (op.method = "push" \/ op.method = "delete") BY <1>1, <1>5 DEF Running
<1>8. ans.st = "ok" \/ ans.st = "notfound" => ans.item = remote[Main] BY <1>3 DEF Learns
<1>9. Main \in Keys /\ remote[Main] \in seen[Main] BY ClientAssumption DEF Seen
<1>10. Types' BY <1>3, <1>5, <1>6 DEF Types
<1>11. Labels'
  BY <1>1, <1>4, <1>5, <1>6, <1>7 DEF Labels, PushGoesOn, DeleteGoesOn, WritePcs
<1>12. Bound' BY <1>1, <1>6 DEF Bound
<1>13. Seen' BY <1>1, <1>5, <1>6 DEF Seen
<1>14. Valueless' BY <1>6 DEF Valueless
<1>15. ans.item.shape = "bare" => ans.item = remote[Main] /\ (ans.item.v = 0 \/ prov = "azure")
  BY <1>3, <1>9 DEF Valueless, Learns, Absent, Item
<1>16. Licence'
  <2> SUFFICES ASSUME op'.pc \in {"access", "create", "put", "label", "remove", "removeData"},
                      ~(prov = "keeper" /\ op'.pc = "create")
               PROVE  \E it \in seen[Main] : Unclaimed(it)
    BY <1>6 DEF Licence
  <2>1. CASE op.pc = "access" BY <2>1, <1>1 DEF Licence
  <2>2. CASE op.pc # "access"
    <3>1. Unclaimed(ans.item) /\ ans.item = remote[Main]
      BY <1>3, <1>4, <1>5, <1>7, <1>8, <1>15, <2>2 DEF PushGoesOn, DeleteGoesOn, Unclaimed, Free, Learns
    <3> QED BY <3>1, <1>9
  <2> QED BY <2>1, <2>2
<1>17. Undisturbed'
  <2> SUFFICES ASSUME count.edits = 0
               PROVE  /\ op'.pc = "describe" => op'.got = remote[Main]
                      /\ op'.pc \in {"access", "put", "removeData"} /\ prov \notin {"azure", "fake"}
                           => remote[Main].tagged
                      /\ \A it \in op'.wrote : Free(it)
    BY <1>6 DEF Undisturbed
  <2>1. op'.pc = "describe" => op'.got = remote[Main]
    BY <1>4, <1>5, <1>7, <1>8 DEF PushGoesOn, DeleteGoesOn
  <2>2. ASSUME op'.pc \in {"access", "put", "removeData"}, prov \notin {"azure", "fake"}
        PROVE  remote[Main].tagged
    <3>1. CASE op.pc = "access" BY <3>1, <1>1, <2>2 DEF Undisturbed
    <3>2. CASE op.pc # "access" BY <3>2, <2>2, <1>4, <1>5, <1>7, <1>8 DEF PushGoesOn, DeleteGoesOn
    <3> QED BY <3>1, <3>2
  <2>3. \A it \in op'.wrote : Free(it) BY <1>1, <1>5 DEF Undisturbed
  <2> QED BY <2>1, <2>2, <2>3
<1>18. Looked'
  BY <1>4, <1>5, <1>6, <1>7, <1>8, <1>9 DEF Looked, PushGoesOn, DeleteGoesOn
<1>19. Done'
  <2> SUFFICES ASSUME op'.pc = "done", op'.out = "ok"
               PROVE  /\ op.method = "push" /\ dups = 0 =>
                           \E it \in seen[Main] : Same(it, op.val) /\ (it.tagged \/ count.edits > 0)
                      /\ op.method = "delete" /\ prov \notin {"fake", "keeper"} =>
                           \E it \in seen[Main] : Gone(it) \/ ~it.tagged
    BY <1>5, <1>6 DEF Done
  <2>1. ASSUME op.method = "push"
        PROVE  \E it \in seen[Main] : Same(it, op.val) /\ (it.tagged \/ count.edits > 0)
    <3>1. ans.item = remote[Main] BY <2>1, <1>4, <1>5, <1>8 DEF PushGoesOn
    <3>2. count.edits \in Nat BY DEF Types
    <3>3. CASE Same(ans.item, op.val) /\ ans.item.tagged BY <3>1, <3>3, <1>9
    <3>4. CASE Same(ans.item, op.val) /\ op.pc = "access"
      <4>1. prov \notin {"azure", "fake"} BY <1>1, <3>4 DEF Labels
      <4> QED BY <3>1, <3>2, <3>4, <4>1, <1>1, <1>9 DEF Undisturbed
    <3>5. CASE Same(op.got, op.val) /\ ans.item.tagged /\ op.pc = "describe"
      BY <3>1, <3>2, <3>5, <1>1 DEF Undisturbed, Looked
    <3> QED BY <2>1, <1>4, <1>5, <3>3, <3>4, <3>5 DEF PushGoesOn
  <2>2. ASSUME op.method = "delete", prov \notin {"fake", "keeper"}
        PROVE  \E it \in seen[Main] : Gone(it) \/ ~it.tagged
    BY <2>2, <1>3, <1>4, <1>5, <1>8, <1>9, <1>15 DEF DeleteGoesOn, Gone, Learns
  <2> QED BY <2>1, <2>2
<1> QED BY <1>10, <1>11, <1>12, <1>13, <1>14, <1>16, <1>17, <1>18, <1>19

-----------------------------------------------------------------------------
(* The calls that write.                                                   *)

\* What a write leaves.
Leaves(it) ==
    /\ it \in ItemType
    /\ it.shape = "bare" => it.v = 0 \/ prov = "azure"
    /\ Duplicate => it = remote[Main]
    /\ op.pc = "create" /\ ~Duplicate => it.tagged /\ (prov = "gcp" \/ Same(it, op.val))
    /\ op.pc = "put" => Same(it, op.val) /\ (it.tagged \/ (prov \notin {"azure", "fake"} /\ ~remote[Main].tagged))
    /\ op.pc = "label" => it.tagged
    /\ op.pc = "removeData" => it = Absent \/ it.tagged \/ ~remote[Main].tagged
    /\ op.pc = "remove" => it = Absent

(* A value with the mark of the secret it replaces.                        *)
LEMMA Overwritten ==
    ASSUME NEW val \in {"text", "flat"}, NEW cur \in ItemType
    PROVE  /\ Pushed(val) \in ItemType /\ Pushed(val).tagged /\ Same(Pushed(val), val) /\ Pushed(val).shape # "bare"
           /\ [Pushed(val) EXCEPT !.tagged = cur.tagged] \in ItemType
           /\ Same([Pushed(val) EXCEPT !.tagged = cur.tagged], val)
           /\ [Pushed(val) EXCEPT !.tagged = cur.tagged].shape # "bare"
           /\ cur.tagged => [Pushed(val) EXCEPT !.tagged = cur.tagged].tagged
BY DEF Pushed, Item, ItemType, Shapes, Same

(* The items a provider makes.                                             *)
LEMMA MadeItems ==
    /\ Absent \in ItemType /\ Absent.shape # "bare"
    /\ \A v \in {0, 1}, t \in BOOLEAN :
         /\ Item("bare", v, t, "own") \in ItemType /\ Item("bare", v, t, "own").tagged = t
         /\ Item("bare", v, t, "own").v = v
BY DEF Absent, Item, ItemType, Shapes

(* A label or the removal of the data leaves the rest.                     *)
LEMMA Relabelled ==
    ASSUME NEW cur \in ItemType
    PROVE  /\ [cur EXCEPT !.tagged = TRUE] \in ItemType /\ [cur EXCEPT !.tagged = TRUE].tagged
           /\ [cur EXCEPT !.tagged = TRUE].shape = cur.shape /\ [cur EXCEPT !.tagged = TRUE].v = cur.v
           /\ [cur EXCEPT !.shape = "empty"] \in ItemType /\ [cur EXCEPT !.shape = "empty"].shape = "empty"
           /\ cur.tagged => [cur EXCEPT !.shape = "empty"].tagged
BY DEF ItemType, Shapes

(* The writes of every provider.                                           *)
LEMMA Effects ==
    ASSUME Types, Labels, Seen, Valueless, Running, prov \in Writers, Writing, NEW it \in Effect
    PROVE  Leaves(it)
<1> DEFINE cur == remote[Main]
           put == [Pushed(op.val) EXCEPT !.tagged = cur.tagged]
<1>1. op.ref.key = Main /\ op.pc \in {"create", "put", "label", "remove", "removeData"}
  BY DEF Labels, Writing
<1>2. cur \in ItemType /\ op.val \in {"text", "flat"} BY ClientAssumption DEF Types
<1>3. cur.shape = "bare" => cur.v = 0 \/ prov = "azure" BY ClientAssumption DEF Seen, Valueless
<1>4. /\ Pushed(op.val) \in ItemType /\ Pushed(op.val).tagged /\ Same(Pushed(op.val), op.val)
      /\ Pushed(op.val).shape # "bare" /\ put \in ItemType /\ Same(put, op.val) /\ put.shape # "bare"
      /\ cur.tagged => put.tagged
  BY <1>2, Overwritten
<1>5. prov # "keeper" => ~Duplicate BY DEF Duplicate
<1> HIDE DEF cur, put
<1> USE MadeItems DEF Leaves
<1>6. ASSUME NEW same, prov = "awssm", it \in SMWrite(op.pc, cur, same, op.val) PROVE Leaves(it)
  <2>1. op.pc \in {"create", "put", "remove"} BY <1>1, <1>6 DEF Labels
  <2>2. CASE op.pc = "create" BY <1>4, <1>5, <1>6, <2>2 DEF SMWrite
  <2>3. CASE op.pc = "put" BY <1>4, <1>5, <1>6, <2>3 DEF SMWrite, put, cur
  <2>4. CASE op.pc = "remove" BY <1>5, <1>6, <2>4 DEF SMWrite
  <2> QED BY <2>1, <2>2, <2>3, <2>4
<1>7. ASSUME prov = "awsps", it \in PSWrite(op.pc, cur, op.val) PROVE Leaves(it)
  <2>1. op.pc \in {"create", "put", "remove"} BY <1>1, <1>7 DEF Labels
  <2>2. CASE op.pc = "create" BY <1>4, <1>5, <1>7, <2>2 DEF PSWrite
  <2>3. CASE op.pc = "put" BY <1>4, <1>5, <1>7, <2>3 DEF PSWrite, put, cur
  <2>4. CASE op.pc = "remove" BY <1>5, <1>7, <2>4 DEF PSWrite
  <2> QED BY <2>1, <2>2, <2>3, <2>4
<1>8. ASSUME prov = "gcp", it \in GCPWrite(op.pc, cur, op.val) PROVE Leaves(it)
  <2>1. op.pc \in {"create", "put", "remove"} BY <1>1, <1>8 DEF Labels
  <2>2. CASE op.pc = "create" BY <1>5, <1>8, <2>2 DEF GCPWrite
  <2>3. CASE op.pc = "put" BY <1>4, <1>5, <1>8, <2>3 DEF GCPWrite, put, cur
  <2>4. CASE op.pc = "remove" BY <1>5, <1>8, <2>4 DEF GCPWrite
  <2> QED BY <2>1, <2>2, <2>3, <2>4
<1>9. ASSUME prov = "azure", it \in AzureWrite(op.pc, cur, op.val) PROVE Leaves(it)
  <2>1. op.pc \in {"put", "remove"} BY <1>1, <1>9 DEF Labels
  <2>2. CASE op.pc = "put" BY <1>4, <1>5, <1>9, <2>2 DEF AzureWrite
  <2>3. CASE op.pc = "remove" BY <1>5, <1>9, <2>3 DEF AzureWrite
  <2> QED BY <2>1, <2>2, <2>3
<1>10. ASSUME prov = "vault", it \in VaultWrite(op.pc, cur, op.val) PROVE Leaves(it)
  <2>1. op.pc \in {"label", "put", "remove", "removeData"} BY <1>1, <1>10 DEF Labels
  <2>2. CASE op.pc = "label"
    <3>1. it = Item("bare", 0, TRUE, "own") \/ it = [cur EXCEPT !.tagged = TRUE] BY <1>10, <2>2 DEF VaultWrite
    <3>2. it \in ItemType /\ it.tagged /\ (it.shape = "bare" => it.v = 0 \/ (cur.shape = "bare" /\ it.v = cur.v))
      BY <1>2, <3>1, Relabelled
    <3> QED BY <1>3, <1>5, <1>10, <2>2, <3>2
  <2>3. CASE op.pc = "put" BY <1>4, <1>5, <1>10, <2>3 DEF VaultWrite, put, cur
  <2>4. CASE op.pc = "remove" BY <1>5, <1>10, <2>4 DEF VaultWrite
  <2>5. CASE op.pc = "removeData"
    <3>1. it = Absent \/ (it = cur /\ cur.shape = "bare") \/ it = [cur EXCEPT !.shape = "empty"]
      BY <1>10, <2>5 DEF VaultWrite
    <3>3. CASE it = cur /\ cur.shape = "bare" BY <1>2, <1>3, <1>5, <1>10, <2>5, <3>3 DEF cur
    <3>2. CASE it = [cur EXCEPT !.shape = "empty"]
      <4>1. it \in ItemType /\ it.shape = "empty" /\ (cur.tagged => it.tagged) BY <1>2, <3>2, Relabelled
      <4> QED BY <1>5, <1>10, <2>5, <4>1 DEF cur
    <3>4. CASE it = Absent BY <1>5, <1>10, <2>5, <3>4
    <3> QED BY <3>1, <3>2, <3>3, <3>4
  <2> QED BY <2>1, <2>2, <2>3, <2>4, <2>5
<1>11. ASSUME NEW same, prov = "keeper", it \in KeeperWrite(op.pc, cur, same, op.val) PROVE Leaves(it)
  <2>1. op.pc \in {"create", "put", "remove"} BY <1>1, <1>11 DEF Labels
  <2>2. CASE op.pc = "create"
    <3>1. Duplicate <=> cur # Absent BY <1>1, <1>11, <2>2 DEF Duplicate, cur
    <3>2. it = IF cur = Absent THEN Pushed(op.val) ELSE cur BY <1>11, <2>2 DEF KeeperWrite
    <3> QED BY <1>2, <1>3, <1>4, <2>2, <3>1, <3>2 DEF cur
  <2>3. CASE op.pc = "put"
    <3>1. ~Duplicate /\ it = put BY <1>11, <2>3 DEF KeeperWrite, Duplicate, put
    <3> QED BY <1>4, <1>11, <2>3, <3>1 DEF cur
  <2>4. CASE op.pc = "remove"
    <3>1. ~Duplicate /\ it = Absent BY <1>11, <2>4 DEF KeeperWrite, Duplicate
    <3> QED BY <2>4, <3>1
  <2> QED BY <2>1, <2>2, <2>3, <2>4
<1>12. ASSUME prov = "fake", it = Pushed(op.val) PROVE Leaves(it)
  <2>1. op.pc = "put" BY <1>1, <1>12 DEF Labels
  <2> QED BY <1>4, <1>5, <1>12, <2>1
<1>13. \E same :
         \/ prov = "awssm" /\ it \in SMWrite(op.pc, cur, same, op.val)
         \/ prov = "awsps" /\ it \in PSWrite(op.pc, cur, op.val)
         \/ prov = "gcp" /\ it \in GCPWrite(op.pc, cur, op.val)
         \/ prov = "azure" /\ it \in AzureWrite(op.pc, cur, op.val)
         \/ prov = "vault" /\ it \in VaultWrite(op.pc, cur, op.val)
         \/ prov = "keeper" /\ it \in KeeperWrite(op.pc, cur, same, op.val)
         \/ prov = "fake" /\ it = Pushed(op.val)
  BY <1>1 DEF Effect, Writers, cur
<1> QED BY <1>6, <1>7, <1>8, <1>9, <1>10, <1>11, <1>12, <1>13

(* A write that took effect keeps the invariant.                           *)
LEMMA WriteStep == ASSUME Inv, WriteOk PROVE Inv'
<1> USE DEF Inv
<1>1. Running /\ op.ref.key = Main /\ prov \in Writers
  BY DEF WriteOk, Writing, Labels, ReadPcs
<1>2a. PICK it \in Effect :
          /\ SetRemote(Main, it)
          /\ dups' = dups + (IF Duplicate THEN 1 ELSE 0)
          /\ \E lost \in BOOLEAN :
               LET s == IF lost THEN AfterFailedWrite(prov, op.pc) ELSE AfterWrite(prov, op.pc)
               IN  /\ op' = [op EXCEPT !.pc = s.pc, !.out = s.out,
                                       !.wrote = IF Duplicate THEN @ ELSE @ \cup {it}]
                   /\ count' = [count EXCEPT !.faults = @ + IF lost THEN 1 ELSE 0]
  BY <1>1 DEF WriteOk
<1>2b. PICK lost \in BOOLEAN :
          LET s == IF lost THEN AfterFailedWrite(prov, op.pc) ELSE AfterWrite(prov, op.pc)
          IN  /\ op' = [op EXCEPT !.pc = s.pc, !.out = s.out,
                                  !.wrote = IF Duplicate THEN @ ELSE @ \cup {it}]
              /\ count' = [count EXCEPT !.faults = @ + IF lost THEN 1 ELSE 0]
  BY <1>2a
<1> DEFINE s == IF lost THEN AfterFailedWrite(prov, op.pc) ELSE AfterWrite(prov, op.pc)
<1>2. /\ SetRemote(Main, it)
      /\ dups' = dups + (IF Duplicate THEN 1 ELSE 0)
      /\ s = IF lost THEN AfterFailedWrite(prov, op.pc) ELSE AfterWrite(prov, op.pc)
      /\ op' = [op EXCEPT !.pc = s.pc, !.out = s.out, !.wrote = IF Duplicate THEN @ ELSE @ \cup {it}]
      /\ count' = [count EXCEPT !.faults = @ + IF lost THEN 1 ELSE 0]
  BY <1>2a, <1>2b
<1> HIDE DEF s
<1>3. Leaves(it) BY <1>1, Effects DEF WriteOk
<1>4. UNCHANGED <<prov, bound>> /\ op.pc \in {"create", "put", "label", "remove", "removeData"}
  BY DEF WriteOk, Writing
<1>5. /\ remote' = [remote EXCEPT ![Main] = it] /\ seen' = [seen EXCEPT ![Main] = @ \cup {it}]
      /\ ids' \in [Keys -> Nat] /\ Main \in Keys
  <2>1. (IF remote[Main] = Absent /\ it # Absent THEN 1 ELSE 0) \in Nat OBVIOUS
  <2> QED BY <1>2, <2>1, ClientAssumption DEF SetRemote, Types
<1>6. /\ remote'[Main] = it /\ seen'[Main] = seen[Main] \cup {it}
      /\ \A k \in Keys \ {Main} : remote'[k] = remote[k] /\ seen'[k] = seen[k]
  BY <1>5 DEF Types
<1>7. /\ op' = [f \in OpFields |-> op'[f]] /\ op'.method = op.method /\ op'.pc = s.pc /\ op'.out = s.out
      /\ op'.got = op.got /\ op'.val = op.val /\ op'.ref = op.ref
      /\ op'.wrote = (IF Duplicate THEN op.wrote ELSE op.wrote \cup {it})
  BY <1>2 DEF Types, OpFields
<1>8. /\ count' \in [faults : Nat, edits : Nat, ops : Nat]
      /\ count'.ops = count.ops /\ count'.edits = count.edits
  <2>1. (IF lost THEN 1 ELSE 0) \in Nat OBVIOUS
  <2> QED BY <1>2, <2>1 DEF Types
<1>9. dups' \in Nat /\ (Duplicate => dups' # 0) BY <1>2 DEF Types
<1>10. /\ s.pc = "put" => op.pc = "label" /\ prov = "vault"
       /\ s.pc = "remove" => op.pc = "removeData"
       /\ s.pc = "access" => op.pc = "create" /\ prov = "gcp"
       /\ s.pc \in {"put", "remove", "access", "done"}
       /\ s.pc = "done" /\ s.out = "ok" =>
             \/ ~lost /\ op.pc \notin {"label", "removeData"} /\ ~(prov = "gcp" /\ op.pc = "create")
             \/ prov = "keeper" /\ op.pc = "remove"
  <2>1. op.pc = "label" => prov = "vault" BY <1>1 DEF Labels
  <2> QED BY <1>2, <1>4, <2>1 DEF AfterFailedWrite, AfterWrite, Goto, Return
<1>11. Running' /\ (op.method = "push" \/ op.method = "delete") BY <1>1, <1>7 DEF Running
<1>12. Types'
  <2>1. remote' \in [Keys -> ItemType] BY <1>3, <1>5 DEF Types, Leaves
  <2>2. seen' \in [Keys -> SUBSET ItemType] BY <1>3, <1>5 DEF Types, Leaves
  <2> QED BY <1>3, <1>5, <1>7, <1>8, <1>9, <2>1, <2>2 DEF Types, Leaves
<1>13. Labels'
  <2>1. op.method = "push" <=> op.pc \in {"create", "put", "label"} BY <1>1, <1>4 DEF Labels
  <2>2. op.pc = "removeData" => prov = "vault" BY <1>1 DEF Labels
  <2> QED BY <1>1, <1>4, <1>7, <1>10, <1>11, <2>1, <2>2 DEF Labels, WritePcs
<1>14. Bound' BY <1>1, <1>4 DEF Bound
<1>15. Seen'
  <2>1. count.ops # 0 BY <1>4 DEF Seen
  <2> QED BY <1>6, <1>8, <2>1 DEF Seen
<1>16. Valueless' BY <1>3, <1>4, <1>6 DEF Valueless, Leaves
<1>17. Licence'
  <2>1. ASSUME op'.pc # "done" PROVE \E i \in seen[Main] : Unclaimed(i)
    BY <1>1, <1>7, <1>10, <2>1 DEF Licence
  <2> QED BY <1>6, <1>7, <2>1 DEF Licence
<1>18. Undisturbed'
  <2> SUFFICES ASSUME count.edits = 0
               PROVE  /\ op'.pc # "describe"
                      /\ op'.pc \in {"access", "put", "removeData"} => it.tagged
                      /\ \A i \in op'.wrote : Free(i)
    BY <1>6, <1>8 DEF Undisturbed
  <2>1. op'.pc # "describe" BY <1>7, <1>10
  <2>2. op'.pc \in {"access", "put", "removeData"} => it.tagged
    BY <1>3, <1>7, <1>10 DEF Leaves, Duplicate
  <2>3. ~Duplicate => Free(it)
    <3>1. CASE op.pc \in {"create", "label", "remove"} BY <1>3, <3>1 DEF Leaves, Free
    <3>2. CASE op.pc \in {"put", "removeData"}
      <4>1. prov \notin {"azure", "fake"} => remote[Main].tagged BY <1>1, <3>2 DEF Undisturbed
      <4>2. op.pc = "removeData" => prov = "vault" BY <1>1 DEF Labels
      <4> QED BY <1>3, <3>2, <4>1, <4>2 DEF Leaves, Free
    <3> QED BY <1>4, <3>1, <3>2
  <2>4. \A i \in op.wrote : Free(i) BY <1>1 DEF Undisturbed
  <2> QED BY <1>7, <2>1, <2>2, <2>3, <2>4
<1>19. Looked' BY <1>7, <1>10 DEF Looked
<1>20. Done'
  <2> SUFFICES ASSUME s.pc = "done", s.out = "ok"
               PROVE  /\ op.method = "push" /\ dups' = 0 =>
                           \E i \in seen'[Main] : Same(i, op.val) /\ (i.tagged \/ count.edits > 0)
                      /\ op.method = "delete" /\ prov \notin {"fake", "keeper"} =>
                           \E i \in seen'[Main] : Gone(i) \/ ~i.tagged
    BY <1>4, <1>7, <1>8 DEF Done
  <2>1. ASSUME op.method = "push", dups' = 0
        PROVE  Same(it, op.val) /\ (it.tagged \/ count.edits > 0)
    <3>1. op.pc \in {"create", "put"} /\ ~(prov = "gcp" /\ op.pc = "create") /\ ~Duplicate
      BY <1>1, <1>4, <1>9, <1>10, <2>1 DEF Labels
    <3>2. count.edits \in Nat BY DEF Types
    <3>3. CASE op.pc = "create" BY <1>3, <3>1, <3>3 DEF Leaves
    <3>4. CASE op.pc = "put"
      <4>1. Same(it, op.val) /\ (it.tagged \/ (prov \notin {"azure", "fake"} /\ ~remote[Main].tagged))
        BY <1>3, <3>4 DEF Leaves
      <4>2. count.edits = 0 /\ prov \notin {"azure", "fake"} => remote[Main].tagged
        BY <1>1, <3>4 DEF Undisturbed
      <4> QED BY <3>2, <4>1, <4>2
    <3> QED BY <3>1, <3>3, <3>4
  <2>2. ASSUME op.method = "delete", prov \notin {"fake", "keeper"} PROVE Gone(it)
    <3>1. op.pc = "remove" BY <1>1, <1>4, <1>10, <2>2 DEF Labels
    <3> QED BY <1>3, <3>1 DEF Leaves, Gone
  <2> QED BY <1>6, <2>1, <2>2
<1> QED BY <1>12, <1>13, <1>14, <1>15, <1>16, <1>17, <1>18, <1>19, <1>20

(* A write that failed, or an operation the provider does not have, ends.  *)
LEMMA FailStep == ASSUME Inv, WriteFails \/ Unsupported PROVE Inv'
<1> USE DEF Inv
<1>1. /\ op' = [f \in OpFields |-> op'[f]] /\ op'.method = op.method /\ op'.pc = "done"
      /\ op'.got = op.got /\ op'.val = op.val /\ op'.ref = op.ref /\ op'.wrote = op.wrote
  BY DEF WriteFails, Unsupported, Step, Finish, AfterFailedWrite, Return, Types, OpFields
<1>2. /\ UNCHANGED <<prov, remote, ids, bound, seen, dups>>
      /\ count' \in [faults : Nat, edits : Nat, ops : Nat]
      /\ count'.ops = count.ops /\ count'.edits = count.edits
  <2>1. CASE WriteFails
    <3>1. \E st : Call(st) BY <2>1 DEF WriteFails
    <3> QED BY <3>1, CallCounts
  <2>2. CASE Unsupported BY <2>2 DEF Unsupported, world, Types
  <2> QED BY <2>1, <2>2
<1>3. op.pc # "idle" BY DEF WriteFails, Unsupported, Writing, At1
<1>4. op'.out = "ok" => ~Running \/ (prov = "keeper" /\ op.method = "delete")
  <2>1. CASE WriteFails
    <3>1. op'.out = "ok" => prov = "keeper" /\ op.pc = "remove"
      BY <2>1 DEF WriteFails, Step, AfterFailedWrite, Return, Types, OpFields
    <3> QED BY <3>1 DEF Labels
  <2>2. CASE Unsupported
    BY <2>2 DEF Unsupported, Finish, NotImplemented, Error, Types, OpFields
  <2> QED BY <2>1, <2>2
<1>5. Running' <=> Running BY <1>1 DEF Running
<1>6. Types' BY <1>1, <1>2 DEF Types
<1>7. Labels' BY <1>1, <1>2, <1>5 DEF Labels, WritePcs, ReadPcs
<1>8. Bound' BY <1>1, <1>2, <1>5 DEF Bound
<1>9. Seen' BY <1>2, <1>3 DEF Seen
<1>10. Valueless' BY <1>2 DEF Valueless
<1>11. Licence' /\ Looked' BY <1>1 DEF Licence, Looked
<1>12. Undisturbed' BY <1>1, <1>2, <1>5 DEF Undisturbed
<1>13. Done' BY <1>1, <1>2, <1>4, <1>5 DEF Done
<1> QED BY <1>6, <1>7, <1>8, <1>9, <1>10, <1>11, <1>12, <1>13

(* The idle client.                                                        *)
LEMMA IdleOp ==
    /\ Idle = [f \in OpFields |-> Idle[f]] /\ Idle.got \in ItemType /\ Idle.wrote = {}
    /\ Idle.val \in {"text", "flat"} /\ Idle.method = "none" /\ Idle.pc = "idle"
BY MadeItems DEF Idle, OpFields

(* A client with a memory that is used again.                              *)
LEMMA AgainIdle ==
    ASSUME Again
    PROVE  /\ op' = [f \in OpFields |-> op'[f]] /\ op'.got = Idle.got /\ op'.wrote = {} /\ op'.val = Idle.val
           /\ op'.method = "none" /\ op'.pc = "idle" /\ op'.page = 1 /\ op'.ref = Idle.ref /\ op'.found = NoData
           /\ op'.todo = {} /\ op'.kind = (IF prov = "gitlab" THEN op.kind ELSE "name")
           /\ op.pc = "done" /\ bound = "own" /\ prov \in {"awssm", "gitlab"} /\ ~Running
           /\ UNCHANGED <<prov, remote, ids, bound, cache, seen, dups, count>>
<1>1. \E kd : op' = [Idle EXCEPT !.kind = kd] /\ kd = (IF prov = "gitlab" THEN op.kind ELSE "name")
  BY DEF Again, Idle
<1>2. /\ op' = [f \in OpFields |-> op'[f]] /\ op'.got = Idle.got /\ op'.wrote = {} /\ op'.val = Idle.val
      /\ op'.method = "none" /\ op'.pc = "idle" /\ op'.page = 1 /\ op'.ref = Idle.ref /\ op'.found = NoData
      /\ op'.todo = {} /\ op'.kind = (IF prov = "gitlab" THEN op.kind ELSE "name")
  BY <1>1 DEF Idle, OpFields
<1> QED BY <1>2 DEF Again, world, Running

(* A counter that went up.                                                 *)
LEMMA NextNat == \A n \in Nat : n + 1 \in Nat /\ n + 1 # 0
OBVIOUS

(* The beginning of an operation.                                          *)
LEMMA BeginStep == ASSUME Inv, Begin PROVE Inv'
<1> USE DEF Inv
<1>1a. PICK m \in {"get", "map", "find", "push", "delete"}, val \in {"text", "flat"},
            pr \in {"", "a", "z"}, meta \in BOOLEAN :
        \E kd \in Kinds(prov, m) :
        LET r == [key |-> Main, prop |-> pr, meta |-> meta]
        IN  /\ ~Refused(m, r, kd)
            /\ m # "push" => val = "text"
            /\ count.ops > 0 => m \notin {"push", "delete"}
            /\ prov = "gitlab" /\ count.ops > 0 => kd = op.kind
            /\ op' = [Idle EXCEPT !.method = m, !.kind = kd, !.ref = r, !.val = val,
                                  !.pc = IF m \in {"push", "delete"} /\ prov \in Writers
                                         THEN "lookup" ELSE "call"]
  BY DEF Begin
<1>1. PICK kd \in Kinds(prov, m) :
        op' = [Idle EXCEPT !.method = m, !.kind = kd,
                           !.ref = [key |-> Main, prop |-> pr, meta |-> meta], !.val = val,
                           !.pc = IF m \in {"push", "delete"} /\ prov \in Writers
                                  THEN "lookup" ELSE "call"]
  BY <1>1a
<1>2. /\ op' = [f \in OpFields |-> op'[f]] /\ op'.method = m /\ op'.ref.key = Main
      /\ op'.got \in ItemType /\ op'.val \in {"text", "flat"} /\ op'.wrote = {}
      /\ op'.pc = IF m \in {"push", "delete"} /\ prov \in Writers THEN "lookup" ELSE "call"
  BY <1>1, IdleOp DEF OpFields
<1>3. /\ UNCHANGED <<prov, remote, ids, bound>> /\ dups' = 0 /\ op.pc = "idle"
      /\ count' = [faults |-> 0, edits |-> 0, ops |-> count.ops + 1]
      /\ seen' = seen \/ seen' = [k \in Keys |-> {remote[k]}]
  BY DEF Begin
<1>4. seen' \in [Keys -> SUBSET ItemType]
  <2>1. CASE seen' = seen BY <2>1 DEF Types
  <2>2. CASE seen' = [k \in Keys |-> {remote[k]}]
    <3>1. \A k \in Keys : {remote[k]} \in SUBSET ItemType BY DEF Types
    <3> QED BY <2>2, <3>1
  <2> QED BY <1>3, <2>1, <2>2
<1>5. count' \in [faults : Nat, edits : Nat, ops : Nat] /\ count'.ops # 0
  <2>1. count.ops \in Nat BY DEF Types
  <2>2. count' = [faults |-> 0, edits |-> 0, ops |-> count.ops + 1] BY <1>3
  <2>3. count.ops + 1 \in Nat /\ count.ops + 1 # 0 BY <2>1, NextNat, Zenon
  <2> HIDE DEF Inv
  <2> QED BY <2>2, <2>3
<1>6. Running' <=> m \in {"push", "delete"} BY <1>2 DEF Running
<1>7. Types' BY <1>2, <1>3, <1>4, <1>5 DEF Types
<1>8. Labels' BY <1>2, <1>3, <1>6 DEF Labels, WritePcs, ReadPcs
<1>9. Bound' BY <1>3 DEF Bound
<1>10. Seen' BY <1>3, <1>5 DEF Seen
<1>11. Valueless'
  <2>1. \A k \in Keys : seen'[k] \subseteq seen[k] BY <1>3 DEF Seen
  <2> QED BY <1>3, <2>1 DEF Valueless
<1>12. Licence' /\ Looked' /\ Done' BY <1>2 DEF Licence, Looked, Done
<1>13. Undisturbed' BY <1>2 DEF Undisturbed
<1> QED BY <1>7, <1>8, <1>9, <1>10, <1>11, <1>12, <1>13

(* A client that is used again, and one that is refilled.                  *)
LEMMA ClientStep == ASSUME Inv, Again \/ Rebind PROVE Inv'
<1> USE DEF Inv
<1>1. CASE Again
  <2>1. UNCHANGED <<prov, remote, ids, bound, seen, dups, count>> /\ op'.pc = "idle"
        /\ op'.method = "none" /\ op.pc = "done" /\ bound = "own"
    BY <1>1, AgainIdle
  <2>2. ~Running' BY <2>1 DEF Running
  <2>3. Types' BY <1>1, <2>1, AgainIdle, IdleOp DEF Types
  <2>4. Labels' BY <2>1, <2>2 DEF Labels, ReadPcs
  <2>5. Bound' BY <2>1 DEF Bound
  <2>6. Seen' BY <2>1 DEF Seen
  <2>7. Valueless' BY <2>1 DEF Valueless
  <2> QED BY <2>2, <2>3, <2>4, <2>5, <2>6, <2>7 DEF Licence, Looked, Done, Undisturbed
<1>2. CASE Rebind
  <2>1. UNCHANGED <<prov, remote, ids, op, seen, dups, count>> /\ ~Running
        /\ op.pc # "idle" /\ prov \in Singletons
    BY <1>2 DEF Rebind, world, Running
  <2>2. ~Running' BY <2>1 DEF Running
  <2>3. Types' BY <2>1 DEF Types
  <2>4. Labels' BY <2>1, <2>2 DEF Labels
  <2>5. Bound' BY <2>1, <2>2 DEF Bound
  <2>6. Seen' BY <2>1 DEF Seen
  <2>7. Valueless' BY <2>1 DEF Valueless
  <2> QED BY <2>2, <2>3, <2>4, <2>5, <2>6, <2>7 DEF Licence, Looked, Done, Undisturbed
<1> QED BY <1>1, <1>2

\* A step of somebody else.
OthersEdit(k, it) ==
    /\ it \in ItemType /\ it.shape # "bare" /\ op.pc \notin {"idle", "done"}
    /\ remote' = [remote EXCEPT ![k] = it] /\ seen' = [seen EXCEPT ![k] = @ \cup {it}]
    /\ ids' \in [Keys -> Nat] /\ UNCHANGED <<prov, bound, op, dups>>
    /\ count' = [count EXCEPT !.edits = @ + 1]

(* The edits of others.                                                    *)
LEMMA Edited ==
    ASSUME Types, NEW k \in Keys, EditSecret(k) \/ Recreate(k)
    PROVE  \E it : OthersEdit(k, it)
<1>1. CASE EditSecret(k)
  <2>1. PICK it \in Edits(k) : SetRemote(k, it) BY <1>1 DEF EditSecret
  <2>2. it \in ItemType /\ it.shape # "bare"
    BY <2>1, MadeItems DEF Edits, Item, Places, ItemType, Shapes
  <2>3. (IF remote[k] = Absent /\ it # Absent THEN 1 ELSE 0) \in Nat OBVIOUS
  <2>4. ids' \in [Keys -> Nat] BY <2>1, <2>3 DEF SetRemote, Types
  <2> QED BY <1>1, <2>1, <2>2, <2>4 DEF EditSecret, SetRemote, OthersEdit
<1>2. CASE Recreate(k)
  <2>1. PICK t \in BOOLEAN :
          /\ remote' = [remote EXCEPT ![k] = Item("text", 2, t, "own")]
          /\ seen' = [seen EXCEPT ![k] = @ \cup {Item("text", 2, t, "own")}]
    BY <1>2 DEF Recreate
  <2>2. Item("text", 2, t, "own") \in ItemType /\ Item("text", 2, t, "own").shape # "bare"
    BY DEF Item, ItemType, Shapes
  <2>3. ids' \in [Keys -> Nat] BY <1>2 DEF Recreate, Types
  <2> QED BY <1>2, <2>1, <2>2, <2>3 DEF Recreate, OthersEdit
<1> QED BY <1>1, <1>2

(* Edits keep the invariant.                                               *)
LEMMA EditStep == ASSUME Inv, NEW k \in Keys, EditSecret(k) \/ Recreate(k) PROVE Inv'
<1> USE DEF Inv
<1>1. PICK it : OthersEdit(k, it) BY Edited
<1>2. /\ remote'[k] = it /\ seen'[k] = seen[k] \cup {it}
      /\ \A j \in Keys \ {k} : remote'[j] = remote[j] /\ seen'[j] = seen[j]
  BY <1>1 DEF Types, OthersEdit
<1>3. count' \in [faults : Nat, edits : Nat, ops : Nat] /\ count'.ops = count.ops /\ count'.edits > 0
  BY <1>1 DEF Types, OthersEdit
<1>4. Running' <=> Running BY <1>1 DEF Running, OthersEdit
<1>5. \A j \in Keys : seen[j] \subseteq seen'[j] BY <1>2
<1>6. Main \in Keys BY ClientAssumption
<1>7. Types'
  <2>1. remote' \in [Keys -> ItemType] BY <1>1 DEF Types, OthersEdit
  <2>2. seen' \in [Keys -> SUBSET ItemType] BY <1>1 DEF Types, OthersEdit
  <2> QED BY <1>1, <1>3, <2>1, <2>2 DEF Types, OthersEdit
<1>8. Labels' BY <1>1, <1>4 DEF Labels, OthersEdit
<1>9. Bound' BY <1>1, <1>4 DEF Bound, OthersEdit
<1>10. Seen' BY <1>1, <1>2, <1>3 DEF Seen, OthersEdit
<1>11. Valueless' BY <1>1, <1>2 DEF Valueless, OthersEdit
<1>12. Licence' BY <1>1, <1>4, <1>5, <1>6 DEF Licence, OthersEdit
<1>13. Looked' BY <1>1, <1>4, <1>5, <1>6 DEF Looked, OthersEdit
<1>14. Undisturbed' BY <1>3 DEF Undisturbed
<1>15. Done' BY <1>1 DEF Done, OthersEdit
<1> QED BY <1>7, <1>8, <1>9, <1>10, <1>11, <1>12, <1>13, <1>14, <1>15

(* The initial states.                                                     *)
LEMMA InitInv == Init => Inv
<1> SUFFICES ASSUME Init PROVE Inv OBVIOUS
<1>1. \A k \in Keys : \A it \in FirstItems(prov, k) : 
          it \in ItemType /\ (it.shape = "bare" => it.v = 0 \/ prov = "azure")
  <2> TAKE k \in Keys
  <2> TAKE it \in FirstItems(prov, k)
  <2>1. CASE it = Absent \/ \E t \in BOOLEAN : it = Item("bare", 0, t, "own") BY <2>1, MadeItems
  <2>1b. CASE prov = "azure" /\ \E t \in BOOLEAN : it = Item("bare", 1, t, "own") BY <2>1b, MadeItems
  <2>1a. CASE it = Pushed("text") \/ it = Pushed("flat")
    BY <2>1a, MadeItems, Overwritten
  <2>2. CASE it \in [shape : Shapes \ {"bare"}, v : {1}, tagged : BOOLEAN, place : {"own", "shared"}]
    BY <2>2 DEF ItemType
  <2>3. Item("text", 1, FALSE, "own") \in [shape : Shapes \ {"bare"}, v : {1}, tagged : BOOLEAN, place : {"own", "shared"}]
    BY DEF Shapes, Item
  <2> QED BY <2>1, <2>1a, <2>1b, <2>2, <2>3 DEF FirstItems
<1>2. \A k \in Keys : remote[k] \in ItemType /\ (remote[k].shape = "bare" => remote[k].v = 0 \/ prov = "azure")
  BY <1>1 DEF Init
<1>3. ~Running BY IdleOp DEF Init, Running
<1>4. remote \in [Keys -> ItemType] /\ seen \in [Keys -> SUBSET ItemType] BY <1>2 DEF Init
<1>5. Types BY <1>4, IdleOp DEF Init, Types
<1>6. Labels BY <1>3, IdleOp DEF Init, Labels, ReadPcs
<1>7. Bound BY DEF Init, Bound
<1>8. Seen BY IdleOp DEF Init, Seen
<1>9. Valueless BY <1>2 DEF Init, Valueless
<1> QED BY <1>3, <1>5, <1>6, <1>7, <1>8, <1>9 DEF Inv, Licence, Looked, Done, Undisturbed

(* Nothing happens.                                                        *)
LEMMA StutterStep == ASSUME Inv, UNCHANGED vars PROVE Inv'
<1> USE DEF Inv, vars
<1>1. Running' <=> Running BY DEF Running
<1>2. Types' BY DEF Types
<1>3. Labels' BY <1>1 DEF Labels
<1>4. Bound' /\ Seen' /\ Valueless' BY <1>1 DEF Bound, Seen, Valueless
<1>5. Licence' /\ Looked' /\ Undisturbed' BY <1>1 DEF Licence, Looked, Undisturbed
<1>6. Done' BY <1>1 DEF Done
<1> QED BY <1>2, <1>3, <1>4, <1>5, <1>6

(* All that is known about the writes, for every provider.                 *)
THEOREM Invariance == Spec => []Inv
<1>1. Inv /\ [Next]_vars => Inv'
  <2> SUFFICES ASSUME Inv, [Next]_vars PROVE Inv' OBVIOUS
  <2>1. Types /\ Labels BY DEF Inv
  <2>2. CASE Reading BY <2>2, ReadStep
  <2> QED BY <2>1, <2>2, SingleReads, TwoPlaceReads, Finds, LookupStep, WriteStep, FailStep,
             BeginStep, ClientStep, EditStep, StutterStep DEF Next
<1> QED BY <1>1, InitInv, PTL DEF Spec

(* What a push or a delete of any provider reports as done has been done.  *)
THEOREM WritesAreEffective == Spec => []WritesEffective
<1>1. Inv => WritesEffective
  BY DEF Inv, Labels, Done, Running, WritesEffective, PushEffective, DeleteEffective, Finished
<1> QED BY <1>1, Invariance, PTL

(* Whatever call of a push or a delete fails, what it wrote is free to be  *)
(* pushed or deleted again.                                                *)
THEOREM RetryIsPossible == Spec => []RetryPossible
<1>1. Inv => RetryPossible
  BY DEF Inv, Undisturbed, Running, RetryPossible, Finished
<1> QED BY <1>1, Invariance, PTL

-----------------------------------------------------------------------------
(* The promise of ManagedSecrets.                                          *)

\* What the promise is about.
Target == IF Running THEN op.ref.key ELSE "none"
Licensed == Running /\ \E it \in seen[op.ref.key] : Unclaimed(it)
Wrote == IF Running THEN op.wrote ELSE {}

(* Steps that leave all of it alone.                                       *)
LEMMA Unseen ==
    ASSUME UNCHANGED <<remote, seen, Target, Wrote>>, Running' <=> Running, op'.ref.key = op.ref.key \/ ~Running
    PROVE  UNCHANGED Promise!msVars
<1>1. UNCHANGED <<remote, Target, Wrote, Licensed>> BY DEF Licensed, Target
<1> QED BY <1>1 DEF Promise!msVars, Target, Wrote, Licensed

(* A call that only reads, or ends the operation.                          *)
LEMMA QuietStep ==
    ASSUME Inv, Reading \/ Lookup \/ WriteFails \/ Unsupported \/ Again \/ Rebind
    PROVE  UNCHANGED Promise!msVars
<1>1. CASE Reading
  <2>1. ~Running /\ ~Running' BY <1>1 DEF Reading, Running
  <2> QED BY <1>1, <2>1, Unseen DEF Reading, Target, Wrote
<1>2. CASE Lookup \/ WriteFails \/ Unsupported
  <2>1. op'.method = op.method /\ op'.ref = op.ref /\ op'.wrote = op.wrote
    BY <1>2 DEF Lookup, WriteFails, Unsupported, Step, Finish, Inv, Types, OpFields
  <2>2. UNCHANGED <<remote, seen>> BY <1>2 DEF Lookup, WriteFails, Unsupported, Call, world
  <2>3. Running' <=> Running BY <2>1 DEF Running
  <2> QED BY <2>1, <2>2, <2>3, Unseen DEF Target, Wrote
<1>3. CASE Again
  <2>1. ~Running /\ ~Running' BY <1>3, AgainIdle DEF Running
  <2> QED BY <1>3, <2>1, AgainIdle, Unseen DEF Target, Wrote
<1>4. CASE Rebind
  <2>1. ~Running /\ ~Running' BY <1>4 DEF Rebind, Running
  <2> QED BY <1>4, <2>1, Unseen DEF Rebind, Target, Wrote, world
<1> QED BY <1>1, <1>2, <1>3, <1>4

(* The arithmetic of a count of zero.                                     *)
LEMMA ZeroNat == \A n \in Nat : ~(n > 0) => n = 0
  OBVIOUS

(* A push or a delete begins with the secret as it is.                     *)
LEMMA BeginsAfresh ==
    ASSUME Inv, Begin
    PROVE  /\ ~Running /\ UNCHANGED remote /\ op'.ref.key = Main /\ op'.wrote = {}
           /\ Running' => seen'[Main] = {remote[Main]}
<1>1. PICK m \in {"get", "map", "find", "push", "delete"}, val \in {"text", "flat"},
           pr \in {"", "a", "z"}, meta \in BOOLEAN :
        \E kd \in Kinds(prov, m) :
        LET r == [key |-> Main, prop |-> pr, meta |-> meta]
        IN  /\ ~Refused(m, r, kd)
            /\ m # "push" => val = "text"
            /\ count.ops > 0 => m \notin {"push", "delete"}
            /\ prov = "gitlab" /\ count.ops > 0 => kd = op.kind
            /\ op' = [Idle EXCEPT !.method = m, !.kind = kd, !.ref = r, !.val = val,
                                  !.pc = IF m \in {"push", "delete"} /\ prov \in Writers
                                         THEN "lookup" ELSE "call"]
  BY DEF Begin
<1>2. PICK kd \in Kinds(prov, m) :
        /\ count.ops > 0 => m \notin {"push", "delete"}
        /\ op' = [Idle EXCEPT !.method = m, !.kind = kd,
                              !.ref = [key |-> Main, prop |-> pr, meta |-> meta], !.val = val,
                              !.pc = IF m \in {"push", "delete"} /\ prov \in Writers
                                     THEN "lookup" ELSE "call"]
  BY <1>1
<1>3. op'.method = m /\ op'.ref.key = Main /\ op'.wrote = {} BY <1>2, IdleOp DEF OpFields
<1>4. ~Running /\ UNCHANGED remote BY DEF Begin, Inv, Labels, Running
<1>5. ASSUME Running' PROVE seen'[Main] = {remote[Main]}
  <2>1. m \in {"push", "delete"} /\ ~(count.ops > 0) BY <1>2, <1>3, <1>5, Zenon DEF Running
  <2>2. count.ops \in Nat BY DEF Inv, Types
  <2>3. count.ops = 0 BY <2>1, <2>2, ZeroNat, Zenon
  <2>4. seen = [k \in Keys |-> {remote[k]}] BY <2>3 DEF Inv, Seen
  <2>5. seen' = seen \/ seen' = [k \in Keys |-> {remote[k]}] BY DEF Begin
  <2> QED BY <2>4, <2>5, ClientAssumption
<1> QED BY <1>3, <1>4, <1>5

(* It is a start of the abstract operation.                                *)
LEMMA BeginKeeps == ASSUME Inv, Begin PROVE [Promise!MSNext]_(Promise!msVars)
<1>1. /\ ~Running /\ UNCHANGED remote /\ op'.ref.key = Main /\ op'.wrote = {}
      /\ Running' => seen'[Main] = {remote[Main]}
  BY BeginsAfresh
<1>2. CASE ~Running'
  BY <1>1, <1>2 DEF Promise!msVars
<1>3. CASE Running'
  <2>1. Main \in Keys /\ remote[Main] \in ItemType BY ClientAssumption DEF Inv, Types
  <2>2. Unclaimed(remote[Main]) \in BOOLEAN BY <2>1 DEF Unclaimed, Free, ItemType
  <2>3. Licensed' = Unclaimed(remote[Main]) BY <1>1, <1>3, <2>2 DEF Licensed
  <2>4. Target = "none" /\ Target' = Main /\ Wrote' = {} BY <1>1, <1>3 DEF Target, Wrote
  <2>5. Promise!Start BY <1>1, <2>1, <2>3, <2>4 DEF Promise!Start, Target, Licensed, Wrote
  <2> QED BY <2>5 DEF Promise!MSNext
<1> QED BY <1>2, <1>3

(* A write is licensed, unless Keeper puts a record beside another.        *)
LEMMA WriteKeeps == ASSUME Inv, WriteOk PROVE [Promise!MSNext]_(Promise!msVars)
<1>1. Running /\ op.ref.key = Main /\ prov \in Writers /\ Main \in Keys
  BY ClientAssumption DEF Inv, WriteOk, Writing, Labels, ReadPcs
<1>2. PICK it \in Effect :
        /\ SetRemote(Main, it)
        /\ \E lost \in BOOLEAN :
             LET s == IF lost THEN AfterFailedWrite(prov, op.pc) ELSE AfterWrite(prov, op.pc)
             IN  /\ op' = [op EXCEPT !.pc = s.pc, !.out = s.out,
                                     !.wrote = IF Duplicate THEN @ ELSE @ \cup {it}]
                 /\ count' = [count EXCEPT !.faults = @ + IF lost THEN 1 ELSE 0]
  BY <1>1 DEF WriteOk
<1>3. Leaves(it) BY <1>1, Effects DEF WriteOk, Inv
<1>4. /\ op'.method = op.method /\ op'.ref = op.ref
      /\ op'.wrote = (IF Duplicate THEN op.wrote ELSE op.wrote \cup {it})
  <2>1. PICK lost \in BOOLEAN :
             LET s == IF lost THEN AfterFailedWrite(prov, op.pc) ELSE AfterWrite(prov, op.pc)
             IN  op' = [op EXCEPT !.pc = s.pc, !.out = s.out,
                                  !.wrote = IF Duplicate THEN @ ELSE @ \cup {it}]
    BY <1>2
  <2> QED BY <2>1 DEF Inv, Types, OpFields
<1>5. /\ remote'[Main] = it /\ \A k \in Keys \ {Main} : remote'[k] = remote[k]
      /\ seen'[Main] = seen[Main] \cup {it} /\ \A k \in Keys \ {Main} : seen'[k] = seen[k]
      /\ remote' \in [Keys -> ItemType] /\ seen' \in [Keys -> SUBSET ItemType]
  <2>1. remote' = [remote EXCEPT ![Main] = it] /\ seen' = [seen EXCEPT ![Main] = @ \cup {it}]
    BY <1>2 DEF SetRemote
  <2> QED BY <1>1, <1>3, <2>1 DEF Inv, Types, Leaves
<1>6. Running' BY <1>1, <1>4 DEF Running
<1>7. remote[Main] \in seen[Main] /\ remote \in [Keys -> ItemType] /\ seen \in [Keys -> SUBSET ItemType]
  BY <1>1 DEF Inv, Seen, Types
<1>8. CASE Duplicate
  <2>1. it = remote[Main] BY <1>3, <1>8 DEF Leaves
  <2>2. \A k \in Keys : remote'[k] = remote[k] /\ seen'[k] = seen[k] BY <1>5, <1>7, <2>1
  <2>3. remote' = remote BY <1>5, <1>7, <2>2
  <2>4. seen' = seen BY <1>5, <1>7, <2>2
  <2>5. UNCHANGED <<Target, Wrote>> BY <1>1, <1>4, <1>6, <1>8 DEF Target, Wrote
  <2> QED BY <1>1, <1>4, <1>6, <2>3, <2>4, <2>5, Unseen
<1>9. CASE ~Duplicate
  <2>1. \E i \in seen[Main] : Unclaimed(i)
    <3>1. CASE prov = "keeper" /\ op.pc = "create"
      <4>1. remote[Main] = Absent BY <1>1, <1>9, <3>1 DEF Duplicate
      <4> QED BY <1>7, <4>1 DEF Unclaimed, Free
    <3>2. CASE ~(prov = "keeper" /\ op.pc = "create")
      BY <1>1, <3>2 DEF Inv, Licence, WriteOk, Writing
    <3> QED BY <3>1, <3>2
  <2>2. Licensed /\ Licensed' BY <1>1, <1>4, <1>5, <1>6, <2>1 DEF Licensed
  <2>3. Target = Main /\ Target' = Main /\ Main # "none"
    BY <1>1, <1>4, <1>6, ClientAssumption DEF Target
  <2>4. Wrote' = Wrote \cup {remote'[Main]} BY <1>1, <1>4, <1>5, <1>6, <1>9 DEF Wrote
  <2>5. Licensed' = Licensed BY <2>2 DEF Licensed
  <2>6. Promise!Write
    BY <1>5, <2>2, <2>3, <2>4, <2>5 DEF Promise!Write, Target, Licensed, Wrote
  <2> QED BY <2>6 DEF Promise!MSNext
<1> QED BY <1>8, <1>9

(* An edit by others is one of theirs.                                     *)
LEMMA EditKeeps ==
    ASSUME Inv, NEW k \in Keys, EditSecret(k) \/ Recreate(k)
    PROVE  [Promise!MSNext]_(Promise!msVars)
<1>1. PICK it : OthersEdit(k, it) BY Edited DEF Inv
<1>2. /\ remote'[k] = it /\ seen'[k] = seen[k] \cup {it}
      /\ \A j \in Keys \ {k} : remote'[j] = remote[j] /\ seen'[j] = seen[j]
  BY <1>1 DEF Inv, Types, OthersEdit
<1>3. op' = op /\ (Running' <=> Running) BY <1>1 DEF OthersEdit, Running
<1>4. Target' = Target /\ Wrote' = Wrote BY <1>3 DEF Target, Wrote
<1>5. Running => op.ref.key = Main /\ Main \in Keys BY ClientAssumption DEF Inv, Labels
<1>6. k # "none" BY ClientAssumption
<1>7. Unclaimed(remote'[k]) \in BOOLEAN BY <1>1, <1>2 DEF OthersEdit, Unclaimed, Free, ItemType
<1>8. Licensed' = (Licensed \/ (Target = k /\ Unclaimed(remote'[k])))
  <2>1. CASE ~Running BY <1>3, <1>6, <2>1 DEF Licensed, Target
  <2>2. CASE Running /\ k = Main
    <3>1. Licensed' <=> \E i \in seen[Main] \cup {it} : Unclaimed(i) BY <1>2, <1>3, <1>5, <2>2 DEF Licensed
    <3>2. Licensed <=> \E i \in seen[Main] : Unclaimed(i) BY <1>5, <2>2 DEF Licensed
    <3>3. Target = k BY <1>5, <2>2 DEF Target
    <3>4. Licensed' <=> (Licensed \/ (Target = k /\ Unclaimed(remote'[k]))) BY <1>2, <3>1, <3>2, <3>3
    <3> QED BY <3>4, <1>7 DEF Licensed
  <2>3. CASE Running /\ k # Main
    BY <1>2, <1>3, <1>5, <2>3 DEF Licensed, Target
  <2> QED BY <2>1, <2>2, <2>3
<1>9. Promise!Others BY <1>2, <1>4, <1>8 DEF Promise!Others, Target, Licensed, Wrote
<1> QED BY <1>9 DEF Promise!MSNext

(* Every provider that writes keeps the promise of ManagedSecrets: it      *)
(* writes the secret of its operation only, and only if that was absent,   *)
(* managed by external-secrets or without a value at some moment since the *)
(* operation began.                                                        *)
THEOREM PromiseIsKept == Spec => KeepsPromise
<1>1. Init => Promise!MSInit
  <2> SUFFICES ASSUME Init PROVE Promise!MSInit OBVIOUS
  <2>1. ~Running BY IdleOp DEF Init, Running
  <2> QED BY <2>1 DEF Promise!MSInit
<1>2. Inv /\ [Next]_vars => [Promise!MSNext]_(Promise!msVars)
  <2> SUFFICES ASSUME Inv, [Next]_vars PROVE [Promise!MSNext]_(Promise!msVars) OBVIOUS
  <2>1. Types /\ Labels BY DEF Inv
  <2>2. CASE Reading BY <2>2, QuietStep
  <2>3. CASE UNCHANGED vars
    <3>1. UNCHANGED <<remote, seen, op>> BY <2>3 DEF vars
    <3>2. Running' <=> Running BY <3>1 DEF Running
    <3> QED BY <3>1, <3>2, Unseen DEF Target, Wrote
  <2> QED BY <2>1, <2>2, <2>3, SingleReads, TwoPlaceReads, Finds, QuietStep, BeginKeeps, WriteKeeps, EditKeeps
          DEF Next
<1> QED BY <1>1, <1>2, Invariance, PTL DEF Spec, KeepsPromise, Promise!MSSpec

-----------------------------------------------------------------------------
(* The results of reads.                                                   *)
Outs == {"ok", "error", "panic", "nosecret"}
\* A result with one value, or with some, all of them parts of one secret.
One(res, it) ==
    /\ res.out \in Outs
    /\ res.out = "ok" => \E p \in {"raw", "a", "tags", "tag"} : res = Single(Part(it, p))
Parts(res, it) ==
    /\ res.out \in Outs
    /\ res.out = "ok" => \A n \in DOMAIN res.data : res.data[n].item = it /\ res.data[n].part # "nil"

(* The results that are easy to tell.                                      *)
LEMMA Results ==
    /\ Error.out = "error" /\ NoSecretErr.out = "nosecret" /\ Panic.out = "panic" /\ GoOn.out = "go"
    /\ NoData.out = "ok" /\ DOMAIN NoData.data = {}
    /\ NilData.out = "ok" /\ NilData = Single(Part(Absent, "nil"))
    /\ \A x : Single(x).out = "ok" /\ DOMAIN Single(x).data = {"value"} /\ Single(x).data["value"] = x
BY DEF Error, NoSecretErr, Panic, GoOn, NoData, NilData, Ok, Single, Under, Part
(* Results, parts and values by name, taken apart.                         *)
LEMMA Fetches ==
    /\ \A d : Ok(d).out = "ok" /\ Ok(d).data = d
    /\ \A it, p : Part(it, p).item = it /\ Part(it, p).part = p
    /\ \A n, x : DOMAIN Under(n, x) = {n} /\ Under(n, x)[n] = x
BY DEF Ok, Under, Part

(* Values that differ are told apart.                                      *)
LEMMA Distinct ==
    /\ \A x, y : Single(x) = Single(y) => x = y
    /\ \A it, p : p # "nil" => Single(Part(it, p)) # NilData
<1>1. \A x, y : Single(x) = Single(y) => x = y
  <2> TAKE x, y
  <2>1. Single(x).data["value"] = x /\ Single(y).data["value"] = y BY Fetches, Results, Zenon
  <2> QED BY <2>1
<1>2. \A it, p : p # "nil" => Single(Part(it, p)) # NilData
  <2> TAKE it, p
  <2>1. Part(it, p).part = p /\ Part(Absent, "nil").part = "nil" BY DEF Part
  <2>2. NilData = Single(Part(Absent, "nil")) BY Fetches, Results, Zenon
  <2>3. Single(Part(it, p)) = Single(Part(Absent, "nil")) => Part(it, p) = Part(Absent, "nil")
    BY <1>1, Zenon
  <2> QED BY <2>1, <2>2, <2>3
<1> QED BY <1>1, <1>2

(* One value.                                                              *)
LEMMA OneValue ==
    ASSUME NEW it
    PROVE  /\ One(Error, it) /\ One(Panic, it) /\ One(NoSecretErr, it)
           /\ \A p \in {"raw", "a", "tags", "tag"} : One(Single(Part(it, p)), it)
           /\ One(Single(Raw(it)), it)
           /\ \A prop : One(Gjson(it, prop), it) /\ Gjson(it, prop).out \in {"ok", "error"}
<1>1. \A p \in {"raw", "a", "tags", "tag"} : One(Single(Part(it, p)), it) BY Fetches, Results, Zenon DEF One, Outs
<1>2. One(Error, it) /\ One(Panic, it) /\ One(NoSecretErr, it)
  BY Fetches, Results, Zenon DEF One, Outs
<1>3. One(Single(Raw(it)), it) BY <1>1 DEF Raw
<1>4. \A prop : Gjson(it, prop) = Single(Part(it, "a")) \/ Gjson(it, prop) = Error BY DEF Gjson
<1>5. \A prop : One(Gjson(it, prop), it) BY <1>1, <1>2, <1>4, Zenon
<1>6. \A prop : Gjson(it, prop).out \in {"ok", "error"}
  <2> TAKE prop
  <2>1. Single(Part(it, "a")).out = "ok" /\ Error.out = "error" BY Fetches, Results, Zenon
  <2> QED BY <1>4, <2>1
<1> QED BY <1>1, <1>2, <1>3, <1>5, <1>6

(* What is one value has parts of it.                                      *)
LEMMA OneIsParts == ASSUME NEW it, NEW res, One(res, it) PROVE Parts(res, it)
<1>1. CASE res.out # "ok" BY <1>1 DEF One, Parts
<1>2. CASE res.out = "ok"
  <2>1. PICK p \in {"raw", "a", "tags", "tag"} : res = Single(Part(it, p)) BY <1>2 DEF One
  <2>a. /\ DOMAIN Single(Part(it, p)).data = {"value"} /\ Single(Part(it, p)).data["value"] = Part(it, p)
        /\ Part(it, p).item = it /\ Part(it, p).part = p
    BY DEF Single, Ok, Under, Part
  <2>2. DOMAIN res.data = {"value"} /\ res.data["value"].item = it /\ res.data["value"].part = p
    BY <2>1, <2>a
  <2> QED BY <2>2, <1>2 DEF Parts, Outs
<1> QED BY <1>1, <1>2

(* A result without a value, with one under a name, and with none.         *)
LEMMA SomeParts ==
    ASSUME NEW it
    PROVE  /\ Parts(NoData, it) /\ Parts(Error, it) /\ Parts(Panic, it) /\ Parts(NoSecretErr, it)
           /\ Parts(Ok(<<>>), it)
           /\ \A n, p : p # "nil" => Parts(Ok(Under(n, Part(it, p))), it)
<1>1. \A n, p : p # "nil" => Parts(Ok(Under(n, Part(it, p))), it)
  <2> TAKE n, p
  <2>1. /\ Ok(Under(n, Part(it, p))).out = "ok" /\ Ok(Under(n, Part(it, p))).data = Under(n, Part(it, p))
        /\ DOMAIN Under(n, Part(it, p)) = {n} /\ Under(n, Part(it, p))[n] = Part(it, p)
        /\ Part(it, p).item = it /\ Part(it, p).part = p
    BY DEF Single, Ok, Under, Part
  <2> QED BY <2>1 DEF Parts, Outs
<1>2. Parts(NoData, it) /\ Parts(Error, it) /\ Parts(Panic, it) /\ Parts(NoSecretErr, it)
  BY Fetches, Results, Zenon DEF Parts, Outs
<1>3. Ok(<<>>) = NoData BY DEF NoData
<1> QED BY <1>1, <1>2, <1>3

(* The fields of a value are parts of the same secret.                     *)
LEMMA FieldsOf ==
    ASSUME NEW it, NEW p \in {"raw", "a", "tags", "tag"}
    PROVE  Parts(Ok(Fields(Part(it, p))), it)
<1>1. Part(it, p).item = it /\ Part(it, p).part = p BY Fetches, Results
<1>2. \/ Fields(Part(it, p)) = Under("a", Part(it, "a"))
      \/ Fields(Part(it, p)) = Under("x", Part(it, "x"))
      \/ Fields(Part(it, p)) = Under("a", Part(it, "tag"))
      \/ Fields(Part(it, p)) = <<>>
  BY <1>1 DEF Fields
<1> QED BY <1>2, SomeParts, Zenon

(* RawMap and StringMap.                                                   *)
LEMMA Maps ==
    ASSUME NEW it, NEW res, One(res, it)
    PROVE  /\ Parts(RawMap(res), it) /\ Parts(StringMap(res), it)
           /\ RawMap(res).out \in {"ok", "nosecret"} => RawMap(res).out = res.out
           /\ StringMap(res).out \in {"ok", "nosecret"} => StringMap(res).out = res.out
<1>1. /\ Parts(RawMap(res), it)
      /\ RawMap(res).out \in {"ok", "nosecret"} => RawMap(res).out = res.out
  <2>1. CASE res.out # "ok"
    BY <2>1, OneIsParts DEF RawMap
  <2>2. CASE res.out = "ok"
    <3>1. PICK p \in {"raw", "a", "tags", "tag"} : res = Single(Part(it, p)) BY <2>2 DEF One
    <3>2. res.data["value"] = Part(it, p) BY <3>1, Fetches, Results
    <3>3. RawMap(res) = Ok(Fields(Part(it, p))) \/ RawMap(res) = Error BY <2>2, <3>2 DEF RawMap
    <3>a. Ok(Fields(Part(it, p))).out = "ok" /\ Error.out = "error" BY Fetches, Results, Zenon
    <3>4. RawMap(res).out \in {"ok", "error"} BY <3>3, <3>a
    <3> QED BY <2>2, <3>3, <3>4, FieldsOf, SomeParts
  <2> QED BY <2>1, <2>2
<1>2. StringMap(res) = RawMap(res) \/ StringMap(res) = Error BY DEF StringMap
<1> QED BY <1>1, <1>2, SomeParts, Results

(* Property.                                                               *)
LEMMA Properties ==
    ASSUME NEW it, NEW res, One(res, it), NEW ref
    PROVE  /\ One(Property(res, ref), it)
           /\ Property(res, ref).out \in {"ok", "nosecret"} => Property(res, ref).out = res.out
<1>1. CASE res.out # "ok" \/ ref.prop = "" BY <1>1 DEF Property
<1>2. CASE res.out = "ok" /\ ref.prop # ""
  <2>1. PICK p \in {"raw", "a", "tags", "tag"} : res = Single(Part(it, p)) BY <1>2 DEF One
  <2>2. res.data["value"].item = it BY <2>1, Fetches, Results
  <2>3. \/ Property(res, ref) = Single(Part(it, "tag")) \/ Property(res, ref) = Error
        \/ Property(res, ref) = Gjson(it, ref.prop)
    BY <1>2, <2>2 DEF Property
  <2>a. Single(Part(it, "tag")).out = "ok" /\ Error.out = "error" /\ Gjson(it, ref.prop).out \in {"ok", "error"}
    BY Fetches, Results, OneValue, Zenon
  <2>4. Property(res, ref).out \in {"ok", "error"} BY <2>3, <2>a
  <2>5. One(Property(res, ref), it) BY <2>3, OneValue, Zenon
  <2> QED BY <1>2, <2>4, <2>5
<1> QED BY <1>1, <1>2

\* The answer of a call.
Reply(p, ans) ==
    /\ ans.item \in ItemType
    /\ \/ ans.st = "ok" /\ ans.item # Absent
       \/ ans.st = "notfound" /\ ans.item = Absent
       \/ ans.st \in {"fail", "lost", "garbled"} /\ ans.item = Absent /\ p # "fake"
\* An answer that says that there is nothing.
Missing(p, m, ans, ref) ==
    /\ ans.st \in {"ok", "notfound"}
    /\ \/ Gone(ans.item)
       \/ ref.prop # "" /\ Gjson(ans.item, ref.prop).out # "ok"
       \/ p = "fake" /\ m = "map"
\* What a read of one value makes of an answer.
Answering(p, m, ans, ref, res) ==
    \/ res \in {Error, Panic}
    \/ res = NoSecretErr /\ Missing(p, m, ans, ref)
    \/ ans.st = "ok" /\ \E q \in {"raw", "a", "tags", "tag"} : res = Single(Part(ans.item, q))

(* Its values are parts of the secret, and nothing else is missing.        *)
LEMMA AnswersAre ==
    ASSUME NEW p, NEW m, NEW ans, NEW ref, NEW res, Answering(p, m, ans, ref, res)
    PROVE  /\ One(res, ans.item)
           /\ res.out = "ok" => ans.st = "ok"
           /\ res.out = "nosecret" => Missing(p, m, ans, ref)
<1>1. CASE res \in {Error, Panic} BY <1>1, OneValue, Results
<1>2. CASE res = NoSecretErr /\ Missing(p, m, ans, ref) BY <1>2, OneValue, Results
<1>3. CASE ans.st = "ok" /\ \E q \in {"raw", "a", "tags", "tag"} : res = Single(Part(ans.item, q))
  BY <1>3, OneValue, Results
<1> QED BY <1>1, <1>2, <1>3 DEF Answering

(* The property of a value is answered like the value.                     *)
LEMMA PropertyOf ==
    ASSUME NEW p, NEW m, NEW ans, NEW ref, NEW res, Answering(p, m, ans, ref, res)
    PROVE  Answering(p, m, ans, ref, Property(res, ref))
<1>1. CASE res.out # "ok" \/ ref.prop = "" BY <1>1 DEF Property
<1>2. CASE res.out = "ok" /\ ref.prop # ""
  <2>1. PICK q \in {"raw", "a", "tags", "tag"} : ans.st = "ok" /\ res = Single(Part(ans.item, q))
    BY <1>2, Results DEF Answering
  <2>2. res.data["value"].item = ans.item BY <2>1, Results, Fetches
  <2>3. \/ Property(res, ref) = Single(Part(ans.item, "tag")) \/ Property(res, ref) = Error
        \/ Property(res, ref) = Single(Part(ans.item, "a"))
    BY <1>2, <2>2 DEF Property, Gjson
  <2> QED BY <2>1, <2>3 DEF Answering
<1> QED BY <1>1, <1>2

(* GetSecret of every provider that makes one call.                        *)
LEMMA Gets ==
    ASSUME NEW p \in AllProviders \ ({"akeyless"} \cup TwoPlaces), NEW kind, NEW ans, Reply(p, ans),
           NEW ref \in Refs, ans.st = "garbled" /\ p = "webhook" => ref.prop # ""
    PROVE  \/ Answering(p, "get", ans, ref, GetSecret(p, kind, ans, ref))
           \/ /\ p = "vault" /\ GetSecret(p, kind, ans, ref) = NilData /\ ans.st = "ok"
              /\ ans.item.shape = "empty" \/ (ref.meta /\ ~ans.item.tagged)
<1> DEFINE res == GetSecret(p, kind, ans, ref)
           it == ans.item
<1> USE DEF Reply
<1>0. /\ Single(Raw(it)).out = "ok" /\ Raw(it) = Part(it, "raw")
      /\ Error.out = "error" /\ NoSecretErr.out = "nosecret"
      /\ ref.prop \in {"", "a", "z"} /\ ref.meta \in BOOLEAN /\ Absent.shape = "absent"
  BY Results DEF Raw, Refs, Absent, Item
<1>g. \/ Gjson(it, ref.prop) = Single(Part(it, "a")) /\ Gjson(it, ref.prop).out = "ok"
      \/ Gjson(it, ref.prop) = Error /\ Gjson(it, ref.prop).out = "error"
  BY Results DEF Gjson
<1>1. CASE p = "doppler"
  BY <1>1, <1>0 DEF Answering, GetSecret, DopplerGetSecret, DopplerAPIGet, DopplerRequest
<1>2. CASE p = "onboardbase"
  BY <1>2, <1>0 DEF Answering, GetSecret, OnboardbaseGetSecret, OnboardbaseAPIGet
<1>3. CASE p = "alibaba" BY <1>3, <1>0, <1>g DEF Answering, GetSecret, AlibabaGetSecret
<1>4. CASE p = "oracle" BY <1>4, <1>0, <1>g DEF Answering, GetSecret, OracleGetSecret
<1>5. CASE p = "lockbox"
  <2>1. findEntryByKey(it, ref.prop) # {} =>
           (CHOOSE x \in findEntryByKey(it, ref.prop) : TRUE) = Part(it, "a")
    BY DEF findEntryByKey
  <2> QED BY <1>5, <1>0, <2>1 DEF Answering, GetSecret, LockboxGetSecret, getValue, Bad
<1>6. CASE p = "certificate" BY <1>6, <1>0 DEF Answering, GetSecret, CertificateGetSecret
<1>7. CASE p = "senhasegura"
  BY <1>7, <1>0, <1>g DEF Answering, GetSecret, SenhaseguraGetSecret, FetchSecrets, Missing, Gone
<1>8. CASE p = "kubernetes"
  <2> DEFINE m == KubernetesGetSecretMap(ans, ref)
  <2>1. \/ m = NoSecretErr /\ ans.st = "notfound"
        \/ m = Error
        \/ ans.st = "ok" /\ m = Ok(Under("a", Part(it, "a")))
        \/ ans.st = "ok" /\ m = NoData
    BY DEF KubernetesGetSecretMap
  <2>2. /\ Ok(Under("a", Part(it, "a"))).out = "ok" /\ NoData.out = "ok" /\ DOMAIN NoData.data = {}
        /\ DOMAIN Ok(Under("a", Part(it, "a"))).data = {"a"}
        /\ Ok(Under("a", Part(it, "a"))).data["a"] = Part(it, "a")
    BY Results DEF Ok, Under
  <2>3. res = IF m.out # "ok" THEN m
              ELSE IF ref.prop = "" THEN Single(Raw(it))
              ELSE IF ref.prop \in DOMAIN m.data THEN Single(m.data[ref.prop])
              ELSE Error
    BY <1>8 DEF GetSecret, KubernetesGetSecret
  <2> HIDE DEF m
  <2>4. CASE m = NoSecretErr /\ ans.st = "notfound" BY <1>0, <2>3, <2>4 DEF Answering, Missing, Gone
  <2>5. CASE m = Error BY <1>0, <2>3, <2>5 DEF Answering
  <2>6. CASE ans.st = "ok" /\ m = Ok(Under("a", Part(it, "a")))
    <3>1. res = Single(Raw(it)) \/ res = Single(Part(it, "a")) \/ res = Error
      BY <2>2, <2>3, <2>6
    <3> QED BY <1>0, <2>6, <3>1 DEF Answering
  <2>7. CASE ans.st = "ok" /\ m = NoData BY <1>0, <2>2, <2>3, <2>7 DEF Answering
  <2> QED BY <2>1, <2>4, <2>5, <2>6, <2>7
<1>9. CASE p = "webhook"
  BY <1>9, <1>0, <1>g DEF Answering, GetSecret, WebhookGetSecret, getWebhookData, Bad, Missing, Gone
<1>10. CASE p = "fake"
  BY <1>10, <1>0, <1>g DEF Answering, GetSecret, FakeGetSecret, Missing, Gone
<1>11. CASE p = "ibm"
  BY <1>11, <1>0, <1>g DEF Answering, GetSecret, IBMGetSecret, getTypedSecret, getKVSecret, getArbitrarySecret, Bad
<1>12. CASE p = "awssm"
  <2> DEFINE r == SMfetch(ans, ref)
  <2>1. Answering("awssm", "get", ans, ref, r)
    BY <1>0 DEF Answering, SMfetch, Missing, Gone
  <2>2. Answering("awssm", "get", ans, ref, Property(r, ref)) BY <2>1, PropertyOf
  <2>3. res = Error \/ res = Property(r, ref) BY <1>12 DEF GetSecret, SMGetSecret
  <2> QED BY <1>12, <2>2, <2>3 DEF Answering
<1>13. CASE p = "awsps"
  <2> DEFINE r == IF ref.meta THEN getParameterTags(ans) ELSE getParameterValue(ans)
  <2>1. Answering("awsps", "get", ans, ref, r)
    BY <1>0 DEF Answering, getParameterTags, getParameterValue, Missing, Gone
  <2>2. res = Property(r, ref) BY <1>13 DEF GetSecret, PSGetSecret
  <2> HIDE DEF r
  <2>3. Answering("awsps", "get", ans, ref, Property(r, ref)) BY <2>1, PropertyOf
  <2> QED BY <1>13, <2>2, <2>3
<1>14. CASE p = "gcp"
  BY <1>14, <1>0, <1>g DEF Answering, GetSecret, GCPGetSecret, GCPparseError, Missing, Gone
<1>15. CASE p = "azure"
  BY <1>15, <1>0, <1>g DEF Answering, GetSecret, AzureGetSecret, AzureParseError, getSecretTag, getProperty,
      getObjType, Enabled, Missing, Gone
<1>16. CASE p = "vault"
  <2> DEFINE meta == readSecretMetadata(ans)
             r == readSecret(ans)
  <2>1. /\ Answering("vault", "get", ans, ref, meta)
        /\ meta.out = "ok" => ans.st = "ok"
    BY <1>0 DEF Answering, readSecretMetadata
  <2>2. Answering("vault", "get", ans, ref, Property(meta, ref)) BY <2>1, PropertyOf
  <2>3. \/ Answering("vault", "get", ans, ref, r)
        \/ r = NilData /\ ans.st = "ok" /\ it.shape = "empty"
    BY <1>0 DEF Answering, readSecret, Missing, Gone
  <2>4. r.out = "ok" => ans.st = "ok"
    <3> HIDE DEF r
    <3> QED BY <2>3, AnswersAre
  <2>5. \/ res = NilData /\ ref.meta /\ meta.out = "ok" /\ ~it.tagged
        \/ res = Property(meta, ref)
        \/ res = r
        \/ res = Single(Part(it, "a")) /\ r.out = "ok"
        \/ res = Error
    BY <1>16 DEF GetSecret, VaultGetSecret, GetTypedKey
  <2> HIDE DEF meta, r
  <2> QED BY <1>16, <2>1, <2>2, <2>3, <2>4, <2>5 DEF Answering
<1>17. CASE p = "keeper"
  BY <1>17, <1>0, Results DEF Answering, GetSecret, KeeperGetSecret, getValidKeeperSecret, findSecretByID, getItem, KeeperProperty
<1> QED BY <1>1, <1>2, <1>3, <1>4, <1>5, <1>6, <1>7, <1>8, <1>9, <1>10, <1>11, <1>12, <1>13, <1>14,
           <1>15, <1>16, <1>17 DEF AllProviders, TwoPlaces

\* What a read of several values makes of an answer.
Replying(p, m, ans, ref, res) ==
    /\ Parts(res, ans.item)
    /\ res.out = "ok" => ans.st = "ok" \/ DOMAIN res.data = {}
    /\ res.out = "nosecret" => Missing(p, m, ans, ref)

(* A map of the fields of a value.                                         *)
LEMMA MapOf ==
    ASSUME NEW p, NEW m, NEW ans, NEW ref, NEW res, Answering(p, m, ans, ref, res)
    PROVE  Replying(p, m, ans, ref, RawMap(res)) /\ Replying(p, m, ans, ref, StringMap(res))
<1>1. One(res, ans.item) /\ (res.out = "ok" => ans.st = "ok") /\ (res.out = "nosecret" => Missing(p, m, ans, ref))
  BY AnswersAre
<1> QED BY <1>1, Maps DEF Replying

(* Small results.                                                          *)
LEMMA SmallReplies ==
    ASSUME NEW p, NEW m, NEW ans, NEW ref
    PROVE  /\ Replying(p, m, ans, ref, Error) /\ Replying(p, m, ans, ref, Panic) /\ Replying(p, m, ans, ref, NoData)
           /\ Missing(p, m, ans, ref) => Replying(p, m, ans, ref, NoSecretErr)
           /\ ans.st = "ok" => \A n, q : q # "nil" => Replying(p, m, ans, ref, Ok(Under(n, Part(ans.item, q))))
           /\ ans.st = "ok" => \A q \in {"raw", "a", "tags", "tag"} :
                                  Replying(p, m, ans, ref, Ok(Fields(Part(ans.item, q))))
<1>1. /\ Replying(p, m, ans, ref, Error) /\ Replying(p, m, ans, ref, Panic) /\ Replying(p, m, ans, ref, NoData)
      /\ Missing(p, m, ans, ref) => Replying(p, m, ans, ref, NoSecretErr)
  BY SomeParts, Results DEF Replying
<1>2. ASSUME ans.st = "ok", NEW n, NEW q, q # "nil" PROVE Replying(p, m, ans, ref, Ok(Under(n, Part(ans.item, q))))
  <2>1. Ok(Under(n, Part(ans.item, q))).out = "ok" BY Fetches, Zenon
  <2> QED BY <1>2, <2>1, SomeParts DEF Replying
<1>3. ASSUME ans.st = "ok", NEW q \in {"raw", "a", "tags", "tag"}
      PROVE  Replying(p, m, ans, ref, Ok(Fields(Part(ans.item, q))))
  <2>1. Ok(Fields(Part(ans.item, q))).out = "ok" BY Fetches, Zenon
  <2> QED BY <1>3, <2>1, FieldsOf DEF Replying
<1> QED BY <1>1, <1>2, <1>3

(* GetSecretMap of every provider that makes one call; Azure reads the     *)
(* metadata a second time.                                                 *)
LEMMA GetMaps ==
    ASSUME NEW p \in AllProviders \ ({"akeyless"} \cup TwoPlaces), NEW kind, NEW ans, Reply(p, ans),
           NEW ref \in Refs, ans.st = "garbled" /\ p = "webhook" => ref.prop # "", p = "azure" => op.pc # "again"
    PROVE  \/ Replying(p, "map", ans, ref, GetSecretMap(p, kind, ans, ref))
           \/ p = "azure" /\ ref.prop # "z" /\ GetSecretMap(p, kind, ans, ref) = GoOn
<1> DEFINE res == GetSecretMap(p, kind, ans, ref)
           it == ans.item
           Good(r) == Replying(p, "map", ans, ref, r)
<1> SUFFICES Good(res) \/ (p = "azure" /\ ref.prop # "z" /\ res = GoOn) OBVIOUS
<1> USE DEF Reply
<1>0. /\ Good(Error) /\ Good(Panic) /\ Good(NoData)
      /\ Missing(p, "map", ans, ref) => Good(NoSecretErr)
      /\ ans.st = "ok" => Good(Ok(Under("a", Part(it, "a"))))
      /\ \A r : Answering(p, "get", ans, ref, r) /\ p # "fake" => Good(RawMap(r)) /\ Good(StringMap(r))
  <2>1. \A r : Answering(p, "get", ans, ref, r) /\ p # "fake" => Answering(p, "map", ans, ref, r)
    BY DEF Answering, Missing
  <2> QED BY <2>1, SmallReplies, MapOf
<1>a. \/ Answering(p, "get", ans, ref, GetSecret(p, kind, ans, ref))
      \/ /\ p = "vault" /\ GetSecret(p, kind, ans, ref) = NilData /\ ans.st = "ok"
         /\ it.shape = "empty" \/ (ref.meta /\ ~it.tagged)
  BY Gets
<1>b. p \notin {"fake", "vault"} =>
         Good(RawMap(GetSecret(p, kind, ans, ref))) /\ Good(StringMap(GetSecret(p, kind, ans, ref)))
  BY <1>0, <1>a
<1>c. ref.prop \in {"", "a", "z"} /\ ref.meta \in BOOLEAN /\ Absent.shape = "absent"
  BY DEF Refs, Absent, Item
<1> HIDE DEF Good
<1>1. CASE p = "doppler" BY <1>1, <1>b DEF GetSecretMap, DopplerGetSecretMap, GetSecret
<1>2. CASE p = "onboardbase" BY <1>2, <1>b DEF GetSecretMap, OnboardbaseGetSecretMap, GetSecret
<1>3. CASE p = "alibaba" BY <1>3, <1>b DEF GetSecretMap, AlibabaGetSecretMap, GetSecret
<1>4. CASE p = "oracle" BY <1>4, <1>b DEF GetSecretMap, OracleGetSecretMap, GetSecret
<1>5. CASE p = "lockbox" BY <1>5, <1>0 DEF GetSecretMap, LockboxGetSecretMap, getValue, Bad
<1>6. CASE p = "certificate"
  <2>1. ans.st = "ok" => Good(Ok([q \in {"a", "key"} |-> Part(it, q)]))
    BY DEF Good, Replying, Parts, Outs, Ok, Part
  <2> QED BY <1>6, <1>0, <2>1 DEF GetSecretMap, CertificateGetSecretMap
<1>7. CASE p = "senhasegura"
  BY <1>7, <1>0, <1>c DEF GetSecretMap, SenhaseguraGetSecretMap, FetchSecrets, IsJSON
<1>8. CASE p = "kubernetes"
  <2>1. ans.st = "notfound" => Good(NoSecretErr) BY <1>0 DEF Missing, Gone
  <2> QED BY <1>8, <1>0, <2>1 DEF GetSecretMap, KubernetesGetSecretMap
<1>9. CASE p = "webhook"
  <2> DEFINE d == getWebhookData(ans)
  <2>1. \/ d = NoSecretErr /\ ans.st = "notfound" /\ Missing(p, "map", ans, ref)
        \/ d = Error
        \/ d = Single(Raw(it)) /\ ans.st \in {"ok", "garbled"}
    BY DEF getWebhookData, Bad, Missing, Gone
  <2>2. /\ NoSecretErr.out # "ok" /\ Error.out # "ok" /\ Single(Raw(it)).out = "ok" BY Results
  <2>3. ans.st = "ok" => Good(StringMap(Single(Raw(it))))
    <3>1. ans.st = "ok" => Answering(p, "get", ans, ref, Single(Raw(it))) BY DEF Answering, Raw
    <3> QED BY <1>0, <1>9, <3>1
  <2>4. res = IF d.out # "ok" THEN d ELSE IF ans.st = "garbled" THEN Error ELSE StringMap(d)
    BY <1>9 DEF GetSecretMap, WebhookGetSecretMap
  <2> HIDE DEF d
  <2> QED BY <1>0, <2>1, <2>2, <2>3, <2>4
<1>10. CASE p = "fake"
  <2>1. Missing(p, "map", ans, ref) BY <1>10 DEF Missing
  <2>2. it.shape = "flat" => ans.st = "ok" BY <1>c, <1>10
  <2> QED BY <1>10, <1>0, <2>1, <2>2 DEF GetSecretMap, FakeGetSecretMap
<1>11. CASE p = "ibm"
  <2>1. ans.st = "ok" => /\ Good(Ok(Fields(Raw(it)))) /\ Good(Ok(Fields(Part(it, "a"))))
    BY SmallReplies DEF Good, Raw
  <2>2. \/ getKVSecret(ans, ref.prop) = Single(Raw(it)) \/ getKVSecret(ans, ref.prop) = Error
        \/ getKVSecret(ans, ref.prop) = Single(Part(it, "a"))
    BY DEF getKVSecret, Gjson
  <2>3. getKVSecret(ans, ref.prop).out = "ok" =>
           getKVSecret(ans, ref.prop).data["value"] \in {Raw(it), Part(it, "a")}
    BY <2>2, Results
  <2> QED BY <1>11, <1>0, <2>1, <2>3 DEF GetSecretMap, IBMGetSecretMap, byteArrayMap, Bad
<1>12. CASE p = "awssm" BY <1>12, <1>b DEF GetSecretMap, SMGetSecretMap, GetSecret
<1>13. CASE p = "awsps" BY <1>13, <1>b DEF GetSecretMap, PSGetSecretMap, GetSecret
<1>14. CASE p = "gcp" BY <1>14, <1>b DEF GetSecretMap, GCPGetSecretMap, GetSecret
<1>15. CASE p = "azure"
  <2> DEFINE r == AzureGetSecret(kind, ans, ref)
  <2>1. r = GetSecret(p, kind, ans, ref) BY <1>15 DEF GetSecret
  <2>2. Answering(p, "get", ans, ref, r) /\ Good(RawMap(r)) BY <1>a, <1>b, <1>15, <2>1
  <2>3. Answering(p, "map", ans, ref, r) BY <2>2, <1>15 DEF Answering, Missing
  <2>4. Good(r) BY <2>3, AnswersAre, OneIsParts DEF Good, Replying
  <2>5. ref.meta /\ r.out = "ok" => ref.prop # "z"
    BY Results DEF AzureGetSecret, AzureParseError, getSecretTag
  <2>6. res = AzureGetSecretMap(kind, op.pc, ans, ref) /\ op.pc # "again" BY <1>15 DEF GetSecretMap
  <2>7. \/ res = Error \/ res = r \/ res = RawMap(r)
        \/ res = GoOn /\ ref.meta /\ r.out = "ok"
    BY <2>6, <1>c DEF AzureGetSecretMap, getSecretMapMap
  <2> HIDE DEF r
  <2> QED BY <1>15, <1>0, <2>2, <2>4, <2>5, <2>7
<1>16. CASE p = "vault"
  <2> DEFINE r == VaultGetSecret(ans, ref)
  <2>1. r = GetSecret(p, kind, ans, ref) BY <1>16 DEF GetSecret
  <2>2. r # NilData => Good(RawMap(r)) BY <1>0, <1>a, <1>16, <2>1
  <2>3. res = Error \/ res = NoData \/ (res = RawMap(r) /\ r # NilData)
    BY <1>16 DEF GetSecretMap, VaultGetSecretMap
  <2> HIDE DEF r
  <2> QED BY <1>0, <2>2, <2>3
<1>17. CASE p = "keeper"
  <2>1. getValidKeeperSecret(ans).out = "go" => ans.st = "ok"
    BY Results DEF getValidKeeperSecret, findSecretByID
  <2>2. KeeperProperty(it, ref.prop) = Single(Part(it, "a")) \/ KeeperProperty(it, ref.prop) = Error
    BY DEF KeeperProperty
  <2>3. ans.st = "ok" => Good(Ok(Under(ref.prop, Part(it, "a")))) BY SmallReplies DEF Good
  <2>4. /\ Single(Part(it, "a")).out = "ok" /\ Error.out = "error" /\ Single(Part(it, "a")).data["value"] = Part(it, "a")
    BY Results
  <2>5. \/ getItems(it, ref.prop) = Ok(Under(ref.prop, Part(it, "a"))) \/ getItems(it, ref.prop) = Error
        \/ getItems(it, ref.prop) = Ok(Under("a", Part(it, "a")))
    BY <2>2, <2>4 DEF getItems
  <2>6. res = Error \/ (getValidKeeperSecret(ans).out = "go" /\ res = getItems(it, ref.prop))
    BY <1>17 DEF GetSecretMap, KeeperGetSecretMap
  <2> QED BY <1>0, <2>1, <2>3, <2>5, <2>6
<1> QED BY <1>1, <1>2, <1>3, <1>4, <1>5, <1>6, <1>7, <1>8, <1>9, <1>10, <1>11, <1>12, <1>13, <1>14,
           <1>15, <1>16, <1>17 DEF AllProviders, TwoPlaces

-----------------------------------------------------------------------------
(* What reads and finds do.                                                *)

\* The request, and where a read or a find can be.
Asked ==
    /\ prov \in AllProviders /\ op.ref \in Refs /\ op.page \in {1, 2}
    /\ op.method \in {"none", "get", "map", "find", "push", "delete"}
    /\ op.kind = "tags" => prov = "vault"
    /\ op.pc \in {"again", "read", "wildcard", "groups", "group", "second"} => op.method \in {"get", "map"}
    /\ op.pc \in {"list", "shared", "project", "fetch", "match"} => op.method = "find"
    /\ op.pc = "again" => prov = "azure" /\ op.method = "map" /\ op.ref.prop # "z"
    /\ op.pc \in {"wildcard", "groups", "group", "list", "shared", "project"} => prov = "gitlab"
    /\ op.pc = "wildcard" => ~isEmptyOrWildcard(op.kind)
    /\ op.method = "find" /\ prov = "gitlab" /\ op.pc = "call" => op.found = NoData
    /\ op.pc \in {"fetch", "match"} => prov \in Fetchers
    /\ op.pc = "match" => ByTags
    /\ op.page = 2 => prov \in Pagers \cup {"onepassword"}

\* What the cache of AWS Secrets Manager holds has been seen.
Remembered ==
    /\ cache \in [Keys \X BOOLEAN -> ItemType]
    /\ \A k \in Keys, m \in BOOLEAN :
          cache[<<k, m>>] # Absent => prov = "awssm" /\ cache[<<k, m>>] \in seen[k]

\* GitLab: why the project gave nothing, and what it gave, before the groups
\* are asked.
Unfound(k) ==
    \/ \E it \in seen[k] : Gone(it) \/ ~Addressed(op.kind, it) \/ it.place = "shared"
    \/ Rescoped(k)
FromProject ==
    /\ op.pc = "wildcard" =>
          \E it \in seen[op.ref.key] : Gone(it) \/ it.place = "shared" \/ ScopeOf(it) # op.kind
    /\ op.pc \in {"groups", "group"} =>
          /\ op.found.out \in {"ok", "error", "panic"}
          /\ op.found.out = "ok" =>
                \/ op.found = NilData /\ Unfound(op.ref.key)
                \/ \E it \in seen[op.ref.key] : op.found = Single(Raw(it)) \/ op.found = Single(Part(it, "a"))

\* A find has found only what it was asked for ...
Selected(k) == ByTags \/ k \in Matching
OnlyAsked(d) ==
    \A n \in DOMAIN d :
        /\ d[n].part = "raw"
        /\ n # "" => /\ n \in Keys /\ Selected(n) /\ d[n].item \in seen[n]
                     /\ \E it \in seen[n] : it # Absent /\ Visible(it)
FoundOnly == op.method = "find" /\ op.found.out = "ok" => OnlyAsked(op.found.data)
Candidates ==
    op.pc \in {"fetch", "match"} =>
        /\ op.todo \subseteq Keys
        /\ prov # "onepassword" => \A k \in op.todo : Selected(k)
        /\ op.pc = "match" => \E it \in seen[op.ref.key] : it # Absent /\ it.tagged

\* ... and has, or is going to have, all of it.
Wanted(k) == Selected(k) /\ Steady(k) /\ \A it \in seen[k] : Visible(it)
Later(k) == \/ prov \in Pagers /\ k \notin FirstPage
            \/ prov = "onepassword" /\ \A it \in seen[k] : it.place = "shared"
Ahead(k) ==
    \/ op.pc \in {"fetch", "match"} /\ (k \in op.todo \/ (op.page = 1 /\ Later(k)))
    \/ op.pc = "call" /\ (op.page = 1 \/ Later(k))
    \/ op.pc \in {"list", "shared"}
    \/ op.pc = "project" /\ \A it \in seen[k] : it.place = "own"
    \/ op.pc \in {"project", "done"} /\ Dropped(k)
FoundAll ==
    op.method = "find" /\ op.found.out = "ok" =>
        \A k \in Keys : Wanted(k) => k \in DOMAIN op.found.data \/ Ahead(k)

\* How reads end.
Reported ==
    /\ op.method \in {"get", "map", "find"} /\ op.pc = "done" => op.out = op.found.out
    /\ op.method = "find" /\ op.pc # "done" => op.found.out = "ok"
    /\ op.method = "find" /\ op.found.out = "nosecret" => prov \in {"awssm", "gcp", "azure", "vault"}

Reads == /\ FromProject /\ FoundOnly /\ Candidates /\ FoundAll /\ Reported
         /\ NoSecretJustified /\ ValueJustified
RInv == Asked /\ Remembered /\ (bound = "own" => Reads)

\* What an answer tells about the secret k.
Told(k, ans) ==
    /\ Reply(prov, ans)
    /\ ans.st = "ok" => ans.item \in seen[k]
    /\ ans.st = "notfound" => Absent \in seen[k]

(* An answer tells what was seen.                                          *)
LEMMA ToldNow ==
    ASSUME Inv, bound = "own", NEW k \in Keys, NEW ans \in Answers(k)
    PROVE  Told(k, ans)
<1>1. remote[k] \in ItemType /\ Absent \in ItemType /\ remote[k] \in seen[k]
  BY MadeItems DEF Inv, Types, Seen
<1>2. CASE ans = AnswerFor(remote[k])
  BY <1>1, <1>2 DEF AnswerFor, Answer, Told, Reply
<1>3. CASE ans \in MayFail
  BY <1>1, <1>3 DEF MayFail, Faults, Answer, Told, Reply
<1> QED BY <1>2, <1>3 DEF Answers, There

(* Whoever answers.                                                        *)
LEMMA Replies ==
    ASSUME Inv, NEW k \in Keys, NEW ans \in Answers(k)
    PROVE  Reply(prov, ans)
<1>1. There(k) \in ItemType /\ Absent \in ItemType
  BY MadeItems DEF Inv, Types, There, Foreign, Item, ItemType, Shapes
<1>2. CASE ans = AnswerFor(There(k))
  BY <1>1, <1>2 DEF AnswerFor, Answer, Reply
<1>3. CASE ans \in MayFail
  BY <1>1, <1>3 DEF MayFail, Faults, Answer, Reply
<1> QED BY <1>2, <1>3 DEF Answers

(* So does the cache.                                                      *)
LEMMA ToldBefore ==
    ASSUME Inv, Remembered, NEW k \in Keys, NEW m \in BOOLEAN, cache[<<k, m>>] # Absent
    PROVE  Told(k, Answer("ok", cache[<<k, m>>]))
<1>1. cache[<<k, m>>] \in ItemType /\ cache[<<k, m>>] \in seen[k] BY DEF Remembered
<1> QED BY <1>1 DEF Told, Reply, Answer

(* The cache is filled with what was told.                                 *)
LEMMA Remembers ==
    ASSUME Inv, Remembered, NEW k \in Keys, NEW m \in BOOLEAN, NEW ans, Remember(k, m, ans),
           UNCHANGED <<prov, seen>>, prov = "awssm" => Told(k, ans)
    PROVE  Remembered'
<1>1. CASE prov = "awssm" /\ ans.st = "ok"
  <2>1. ans.item \in ItemType /\ ans.item \in seen[k] BY <1>1 DEF Told, Reply
  <2>2. cache' = [cache EXCEPT ![<<k, m>>] = ans.item] BY <1>1 DEF Remember
  <2>3. cache' \in [Keys \X BOOLEAN -> ItemType] BY <2>1, <2>2 DEF Remembered
  <2>4. \A j \in Keys, b \in BOOLEAN :
           cache'[<<j, b>>] = IF j = k /\ b = m THEN ans.item ELSE cache[<<j, b>>]
    BY <2>2 DEF Remembered
  <2> QED BY <1>1, <2>1, <2>3, <2>4 DEF Remembered
<1>2. CASE ~(prov = "awssm" /\ ans.st = "ok")
  BY <1>2 DEF Remember, Remembered
<1> QED BY <1>1, <1>2

(* The cache stays right while what was seen grows.                        *)
LEMMA KeepsCache ==
    ASSUME Remembered, UNCHANGED <<prov, cache>>, \A k \in Keys : seen[k] \subseteq seen'[k] PROVE Remembered'
BY DEF Remembered

\* Why a read may say that there is nothing.
NothingThere ==
    \/ WasGone(op.ref.key)
    \/ op.ref.prop # "" /\ \E it \in seen[op.ref.key] : Gjson(it, op.ref.prop).out # "ok"
    \/ prov = "fake" /\ op.method = "map"

(* The end of a read.                                                      *)
LEMMA EndRead ==
    ASSUME Inv, RInv, op.method \in {"get", "map"}, NEW res, Finish(res), UNCHANGED <<prov, seen, bound>>, Remembered',
           bound = "own" =>
              /\ res.out = "nosecret" => NothingThere
              /\ res.out = "ok" => \A n \in DOMAIN res.data :
                    IF res.data[n].part = "nil" THEN NilJustified' ELSE res.data[n].item \in seen[op.ref.key]
    PROVE  RInv'
<1>1. /\ op'.method = op.method /\ op'.ref = op.ref /\ op'.kind = op.kind /\ op'.page = op.page
      /\ op'.pc = "done" /\ op'.found = res /\ op'.out = res.out
  BY DEF Finish, Inv, Types, OpFields
<1>2. Asked' BY <1>1 DEF RInv, Asked
<1>3. ASSUME bound' = "own" PROVE Reads'
  <2>1. FromProject' /\ FoundOnly' /\ Candidates' /\ FoundAll' /\ Reported'
    BY <1>1 DEF FromProject, FoundOnly, Candidates, FoundAll, Reported
  <2>2. NoSecretJustified' BY <1>1, <1>3 DEF NoSecretJustified, NothingThere, WasGone
  <2>3. ValueJustified' BY <1>1, <1>3 DEF ValueJustified, Origin
  <2> QED BY <2>1, <2>2, <2>3 DEF Reads
<1> QED BY <1>2, <1>3 DEF RInv

(* A read that goes on.                                                    *)
LEMMA GoesOn ==
    ASSUME Inv, RInv, op.method \in {"get", "map"}, NEW pc \in {"again", "read", "second"}, Next1(pc),
           UNCHANGED <<prov, seen, bound>>, Remembered',
           pc = "again" => prov = "azure" /\ op.method = "map" /\ op.ref.prop # "z"
    PROVE  RInv'
<1>1. /\ op'.method = op.method /\ op'.ref = op.ref /\ op'.kind = op.kind /\ op'.page = op.page
      /\ op'.pc = pc
  BY DEF Next1, Inv, Types, OpFields
<1>2. Asked' BY <1>1 DEF RInv, Asked
<1>3. Reads'
  BY <1>1 DEF FromProject, FoundOnly, Candidates, FoundAll, Reported, NoSecretJustified, ValueJustified, Reads, Finished
<1> QED BY <1>2, <1>3 DEF RInv

\* Why a tag may not be found.
NilTag(kind, ans) ==
    Faulty(ans.st) \/ Gone(ans.item) \/ ~ans.item.tagged \/ ans.item.shape = "deep" \/ kind = "secret/"

(* Azure's second read of the tags.                                        *)
LEMMA SecondReads ==
    ASSUME NEW kind, NEW ans, Reply("azure", ans), NEW ref \in Refs, op.pc = "again",
           NEW res, res = GetSecretMap("azure", kind, ans, ref)
    PROVE  /\ res.out \in {"ok", "error"}
           /\ res.out = "ok" => \A n \in DOMAIN res.data :
                 IF res.data[n].part = "nil" THEN NilTag(kind, ans)
                 ELSE ans.st = "ok" /\ res.data[n].item = ans.item
<1> DEFINE tags == getSecretTags(ans)
           name == keyPropertyName(kind)
<1>1. res = Error \/ res = getSecretMapProperties(kind, tags, ref.prop)
  BY DEF GetSecretMap, AzureGetSecretMap
<1>2. CASE res = Error BY <1>2, Results
<1>3. CASE res = getSecretMapProperties(kind, tags, ref.prop)
  <2>1. /\ \A n \in DOMAIN tags : ans.st = "ok" /\ \E q \in {"tag", "tagfield"} : tags[n] = Part(ans.item, q)
        /\ name \notin DOMAIN tags => NilTag(kind, ans)
    <3>1. CASE ans.st # "ok" \/ ~Enabled(ans.item) \/ ~ans.item.tagged
      <4>1. tags = <<>> BY <3>1 DEF getSecretTags
      <4>2. DOMAIN tags = {} BY <4>1
      <4>3. NilTag(kind, ans) BY <3>1 DEF NilTag, Reply, Faulty, Gone, Enabled
      <4> QED BY <4>2, <4>3
    <3>2. CASE ans.st = "ok" /\ Enabled(ans.item) /\ ans.item.tagged /\ ans.item.shape = "deep"
      <4>1. tags = Under("name_a_x", Part(ans.item, "tagfield")) BY <3>2 DEF getSecretTags
      <4>2. DOMAIN tags = {"name_a_x"} /\ tags["name_a_x"] = Part(ans.item, "tagfield") BY <4>1 DEF Under
      <4>3. NilTag(kind, ans) BY <3>2 DEF NilTag
      <4> QED BY <3>2, <4>2, <4>3
    <3>3. CASE ans.st = "ok" /\ Enabled(ans.item) /\ ans.item.tagged /\ ans.item.shape # "deep"
      <4>1. tags = Under("name_a", Part(ans.item, "tag")) BY <3>3 DEF getSecretTags
      <4>2. DOMAIN tags = {"name_a"} /\ tags["name_a"] = Part(ans.item, "tag") BY <4>1 DEF Under
      <4>3. name # "name_a" => NilTag(kind, ans) BY DEF NilTag, keyPropertyName
      <4> QED BY <3>3, <4>2, <4>3
    <3> QED BY <3>1, <3>2, <3>3
  <2> DEFINE x == IF name \in DOMAIN tags THEN tags[name] ELSE Part(Absent, "nil")
  <2>2. res = Ok(tags) \/ res = Ok(Under(name, x)) BY <1>3 DEF getSecretMapProperties
  <2> HIDE DEF tags, name
  <2>3. \A q : Part(ans.item, q).item = ans.item /\ Part(ans.item, q).part = q BY Fetches
  <2>4. CASE res = Ok(tags)
    <3>1. res.out = "ok" /\ res.data = tags BY <2>4, Fetches
    <3> QED BY <2>1, <2>3, <3>1
  <2>5. CASE res = Ok(Under(name, x))
    <3>1. IF x.part = "nil" THEN NilTag(kind, ans) ELSE ans.st = "ok" /\ x.item = ans.item
      <4>1. CASE name \in DOMAIN tags BY <2>1, <2>3, <4>1
      <4>2. CASE name \notin DOMAIN tags
        <5>1. x.part = "nil" BY <4>2, Fetches
        <5> QED BY <2>1, <4>2, <5>1
      <4> QED BY <4>1, <4>2
    <3> HIDE DEF x
    <3>2. res.out = "ok" /\ DOMAIN res.data = {name} /\ res.data[name] = x
      <4>1. res.out = "ok" /\ res.data = Under(name, x) BY <2>5, Fetches
      <4>2. DOMAIN Under(name, x) = {name} /\ Under(name, x)[name] = x BY Fetches
      <4> QED BY <4>1, <4>2
    <3> QED BY <3>1, <3>2
  <2> QED BY <2>2, <2>4, <2>5
<1> QED BY <1>1, <1>2, <1>3

(* A call that failed counts.                                              *)
LEMMA FaultCounts == ASSUME Inv, NEW st, Call(st), Faulty(st) PROVE count'.faults > 0
<1>1. count' = [count EXCEPT !.faults = @ + 1] BY DEF Call
<1>2. count \in [faults : Nat, edits : Nat, ops : Nat] BY DEF Inv, Types
<1> QED BY <1>1, <1>2

(* GetSecret and GetSecretMap in one call.                                 *)
LEMMA ReadKeeps == ASSUME Inv, RInv, Read PROVE RInv'
<1> DEFINE k == op.ref.key
<1>1. k \in Keys /\ op.ref.meta \in BOOLEAN /\ op.ref \in Refs /\ prov \in AllProviders
      /\ op.method \in {"get", "map"} /\ op.pc \in {"call", "again"} /\ prov \notin {"akeyless"} \cup TwoPlaces
  BY DEF RInv, Asked, Refs, Read
<1>2. PICK ans, res :
        /\ ans \in (IF Cached THEN {Answer("ok", cache[CacheKey])} ELSE Answers(k))
        /\ res = IF op.method = "get" THEN GetSecret(prov, op.kind, ans, op.ref)
                                      ELSE GetSecretMap(prov, op.kind, ans, op.ref)
        /\ ans.st = "garbled" /\ prov = "webhook" => op.ref.prop # ""
        /\ Call(ans.st)
        /\ Remember(k, op.ref.meta, ans)
        /\ IF res = GoOn THEN Next1("again") ELSE Finish(res)
  BY DEF Read
<1>3. UNCHANGED <<prov, seen, bound>> BY <1>2 DEF Call
<1>4. prov = "awssm" => bound = "own" BY DEF Inv, Bound, Singletons
<1>5. bound = "own" => Told(k, ans)
  <2>1. CASE Cached
    BY <1>1, <1>2, <2>1, ToldBefore DEF Cached, CacheKey, RInv
  <2>2. CASE ~Cached BY <1>1, <1>2, <2>2, ToldNow
  <2> QED BY <2>1, <2>2
<1>6. Reply(prov, ans)
  <2>1. CASE Cached BY <1>4, <1>5, <2>1 DEF Cached, Told
  <2>2. CASE ~Cached BY <1>1, <1>2, <2>2, Replies
  <2> QED BY <2>1, <2>2
<1>7. Remembered' BY <1>1, <1>2, <1>3, <1>4, <1>5, Remembers DEF RInv
<1>p. prov \in AllProviders \ ({"akeyless"} \cup TwoPlaces) BY <1>1
<1>w. ans.st = "garbled" /\ prov = "webhook" => op.ref.prop # "" BY <1>2
<1> HIDE DEF k
<1>8. CASE op.method = "map" /\ prov = "azure" /\ op.pc = "again"
  <2>2. res = GetSecretMap("azure", op.kind, ans, op.ref) /\ Reply("azure", ans) BY <1>2, <1>6, <1>8
  <2>3. /\ res.out \in {"ok", "error"}
        /\ res.out = "ok" => \A n \in DOMAIN res.data :
                 IF res.data[n].part = "nil" THEN NilTag(op.kind, ans)
                 ELSE ans.st = "ok" /\ res.data[n].item = ans.item
    BY <1>1, <1>8, <2>2, SecondReads
  <2>4. res # GoOn BY <2>3, Results
  <2>5. Finish(res) BY <1>2, <2>4
  <2>6. bound = "own" /\ NilTag(op.kind, ans) => NilJustified'
    <3> SUFFICES ASSUME bound = "own", NilTag(op.kind, ans) PROVE NilJustified'
      OBVIOUS
    <3>1. op'.ref = op.ref /\ op'.kind = op.kind BY <2>5 DEF Finish, Inv, Types, OpFields
    <3>2. Faulty(ans.st) => count'.faults > 0 BY <1>2, FaultCounts
    <3>3. \E it \in seen[k] : \/ count'.faults > 0 \/ Gone(it) \/ ~it.tagged
                              \/ it.shape = "deep" \/ op.kind = "secret/"
      <4>1. remote[k] \in seen[k] BY <1>1 DEF Inv, Seen, k
      <4>2. CASE Faulty(ans.st) BY <3>2, <4>1, <4>2
      <4>3. CASE ~Faulty(ans.st)
        <5>1. ans.item \in seen[k] BY <1>5, <4>3 DEF Told, Reply, Faulty
        <5> QED BY <4>3, <5>1 DEF NilTag
      <4> QED BY <4>2, <4>3
    <3> QED BY <1>3, <1>8, <3>1, <3>3 DEF NilJustified, Gone, k
  <2>7. bound = "own" =>
              /\ res.out = "nosecret" => NothingThere
              /\ res.out = "ok" => \A n \in DOMAIN res.data :
                    IF res.data[n].part = "nil" THEN NilJustified' ELSE res.data[n].item \in seen[op.ref.key]
    <3> HIDE DEF NilJustified
    <3> QED BY <1>5, <2>3, <2>6 DEF Told, k
  <2> QED BY <1>1, <1>3, <1>7, <2>5, <2>7, EndRead
<1>9. CASE op.method = "map" /\ ~(prov = "azure" /\ op.pc = "again")
  <2>1. res = GetSecretMap(prov, op.kind, ans, op.ref) BY <1>2, <1>9
  <2>2. \/ Replying(prov, "map", ans, op.ref, res)
        \/ prov = "azure" /\ op.ref.prop # "z" /\ res = GoOn
    BY <1>1, <1>p, <1>w, <1>6, <1>9, <2>1, GetMaps
  <2>3. CASE Replying(prov, "map", ans, op.ref, res)
    <3>1. res # GoOn /\ res.out \in Outs BY <2>3, Results DEF Replying, Parts, Outs
    <3>2. Finish(res) BY <1>2, <3>1
    <3>3. bound = "own" =>
              /\ res.out = "nosecret" => NothingThere
              /\ res.out = "ok" => \A n \in DOMAIN res.data :
                    IF res.data[n].part = "nil" THEN NilJustified' ELSE res.data[n].item \in seen[op.ref.key]
      <4>1. bound = "own" /\ res.out = "nosecret" => NothingThere
        BY <1>5, <1>9, <2>3 DEF Replying, Missing, Told, Reply, NothingThere, WasGone, k
      <4>2. ASSUME bound = "own", res.out = "ok", NEW n \in DOMAIN res.data
            PROVE  res.data[n].part # "nil" /\ res.data[n].item \in seen[op.ref.key]
        BY <1>5, <2>3, <4>2 DEF Replying, Parts, Told, k
      <4> QED BY <4>1, <4>2
    <3> QED BY <1>1, <1>3, <1>7, <3>2, <3>3, EndRead
  <2>4. CASE prov = "azure" /\ op.ref.prop # "z" /\ res = GoOn
    BY <1>1, <1>2, <1>3, <1>7, <1>9, <2>4, GoesOn
  <2> QED BY <2>2, <2>3, <2>4
<1>10. CASE op.method = "get"
  <2>1. res = GetSecret(prov, op.kind, ans, op.ref) BY <1>2, <1>10
  <2>2. \/ Answering(prov, "get", ans, op.ref, res)
        \/ /\ prov = "vault" /\ res = NilData /\ ans.st = "ok"
           /\ ans.item.shape = "empty" \/ (op.ref.meta /\ ~ans.item.tagged)
    BY <1>1, <1>p, <1>w, <1>6, <2>1, Gets
  <2>3. CASE Answering(prov, "get", ans, op.ref, res)
    <3>0. /\ One(res, ans.item) /\ Parts(res, ans.item)
          /\ res.out = "ok" => ans.st = "ok"
          /\ res.out = "nosecret" => Missing(prov, "get", ans, op.ref)
      BY <2>3, AnswersAre, OneIsParts
    <3>1. res # GoOn BY <3>0, Results DEF One, Outs
    <3>2. Finish(res) BY <1>2, <3>1
    <3>3. bound = "own" =>
              /\ res.out = "nosecret" => NothingThere
              /\ res.out = "ok" => \A n \in DOMAIN res.data :
                    IF res.data[n].part = "nil" THEN NilJustified' ELSE res.data[n].item \in seen[op.ref.key]
      <4>1. bound = "own" /\ res.out = "nosecret" => NothingThere
        BY <1>5, <3>0 DEF Missing, Told, Reply, NothingThere, WasGone, k
      <4>2. ASSUME bound = "own", res.out = "ok", NEW n \in DOMAIN res.data
            PROVE  res.data[n].part # "nil" /\ res.data[n].item \in seen[op.ref.key]
        BY <1>5, <3>0, <4>2 DEF Parts, Told, k
      <4> QED BY <4>1, <4>2
    <3> QED BY <1>1, <1>3, <1>7, <3>2, <3>3, EndRead
  <2>4. CASE /\ prov = "vault" /\ res = NilData /\ ans.st = "ok"
             /\ ans.item.shape = "empty" \/ (op.ref.meta /\ ~ans.item.tagged)
    <3>1. res # GoOn /\ res.out = "ok" BY <2>4, Results
    <3>2. Finish(res) BY <1>2, <3>1
    <3>3. DOMAIN res.data = {"value"} /\ res.data["value"].part = "nil"
      BY <2>4 DEF NilData, Single, Ok, Under, Part
    <3>4. op'.ref = op.ref BY <3>2 DEF Finish, Inv, Types, OpFields
    <3>5. bound = "own" => NilJustified'
      BY <1>3, <1>5, <2>4, <3>4 DEF NilJustified, Told, k
    <3>6. bound = "own" =>
              /\ res.out = "nosecret" => NothingThere
              /\ res.out = "ok" => \A n \in DOMAIN res.data :
                    IF res.data[n].part = "nil" THEN NilJustified' ELSE res.data[n].item \in seen[op.ref.key]
      BY <3>1, <3>3, <3>5
    <3> QED BY <1>1, <1>3, <1>7, <3>2, <3>6, EndRead
  <2> QED BY <2>2, <2>3, <2>4
<1> QED BY <1>1, <1>8, <1>9, <1>10

(* Akeyless describes an item and reads it.                                *)
LEMMA AkeylessReads == ASSUME Inv, RInv, Describe \/ ReadByType PROVE RInv'
<1> DEFINE k == op.ref.key
<1>1. k \in Keys /\ op.ref \in Refs /\ op.method \in {"get", "map"} BY DEF RInv, Asked, Refs, Describe, ReadByType
<1>2. PICK ans \in Answers(k) :
        /\ Call(ans.st)
        /\ \/ Next1("read") \/ Finish(Error)
           \/ Finish(AkeylessGetSecret(op.kind, ans, op.ref)) \/ Finish(AkeylessGetSecretMap(op.kind, ans, op.ref))
  <2>1. CASE Describe BY <2>1 DEF Describe, DescribeItem
  <2>2. CASE ReadByType BY <2>2 DEF ReadByType
  <2> QED BY <2>1, <2>2
<1>3. UNCHANGED <<prov, seen, bound>> BY <1>2 DEF Call
<1>4. Remembered' BY <1>3, KeepsCache DEF RInv, Describe, ReadByType
<1>5. bound = "own" => Told(k, ans) BY <1>1, <1>2, ToldNow
<1> HIDE DEF k
<1>6. CASE Next1("read") BY <1>1, <1>3, <1>4, <1>6, GoesOn
<1>7. ASSUME NEW res, Finish(res), Answering(prov, op.method, ans, op.ref, res) \/ Replying(prov, op.method, ans, op.ref, res)
      PROVE  RInv'
  <2>1. /\ Parts(res, ans.item)
        /\ res.out = "ok" => ans.st = "ok" \/ DOMAIN res.data = {}
        /\ res.out = "nosecret" => Missing(prov, op.method, ans, op.ref)
    BY <1>7, AnswersAre, OneIsParts DEF Replying
  <2>2. bound = "own" =>
              /\ res.out = "nosecret" => NothingThere
              /\ res.out = "ok" => \A n \in DOMAIN res.data :
                    IF res.data[n].part = "nil" THEN NilJustified' ELSE res.data[n].item \in seen[op.ref.key]
    <3>1. bound = "own" /\ res.out = "nosecret" => NothingThere
      BY <1>5, <2>1 DEF Missing, Told, Reply, NothingThere, WasGone, k
    <3>2. ASSUME bound = "own", res.out = "ok", NEW n \in DOMAIN res.data
          PROVE  res.data[n].part # "nil" /\ res.data[n].item \in seen[op.ref.key]
      BY <1>5, <2>1, <3>2 DEF Parts, Told, k
    <3> QED BY <3>1, <3>2
  <2> QED BY <1>1, <1>3, <1>4, <1>7, <2>2, EndRead
<1>8. /\ Answering(prov, op.method, ans, op.ref, Error)
      /\ Answering(prov, op.method, ans, op.ref, AkeylessGetSecret(op.kind, ans, op.ref))
      /\ Replying(prov, op.method, ans, op.ref, AkeylessGetSecretMap(op.kind, ans, op.ref))
  <2>1. AkeylessGetSecret(op.kind, ans, op.ref) = Error
        \/ (ans.st = "ok" /\ AkeylessGetSecret(op.kind, ans, op.ref) = Single(Part(ans.item, "raw")))
    BY DEF AkeylessGetSecret, GetSecretByType, GetStaticSecret, GetDynamicSecrets, GetRotatedSecrets, Raw
  <2>2. Answering(prov, op.method, ans, op.ref, AkeylessGetSecret(op.kind, ans, op.ref)) BY <2>1 DEF Answering
  <2> QED BY <2>2, MapOf DEF Answering, AkeylessGetSecretMap
<1> QED BY <1>2, <1>6, <1>7, <1>8

(* 1Password looks into one vault, then the other.                         *)
LEMMA VaultsKeep == ASSUME Inv, RInv, ReadVault("own", "call") \/ ReadVault("shared", "second") PROVE RInv'
<1> DEFINE k == op.ref.key
<1>1. k \in Keys /\ op.ref \in Refs /\ op.method \in {"get", "map"} BY DEF RInv, Asked, Refs, ReadVault
<1>2. PICK vault \in {"own", "shared"} : \E ans \in Answers(k) :
        LET r == findItem(vault, ans)
        IN  /\ Call(ans.st)
            /\ IF r = GoOn THEN Next1("second")
               ELSE Finish(IF op.method = "get" THEN OnePasswordGetSecret(op.kind, r, op.ref)
                                                ELSE OnePasswordGetSecretMap(op.kind, r, op.ref))
  BY DEF ReadVault
<1>3. PICK ans, r :
        /\ ans \in Answers(k) /\ r = findItem(vault, ans)
        /\ Call(ans.st)
        /\ IF r = GoOn THEN Next1("second")
           ELSE Finish(IF op.method = "get" THEN OnePasswordGetSecret(op.kind, r, op.ref)
                                            ELSE OnePasswordGetSecretMap(op.kind, r, op.ref))
  BY <1>2
<1>4. UNCHANGED <<prov, seen, bound>> BY <1>3 DEF Call
<1>5. Remembered' BY <1>4, KeepsCache DEF RInv, ReadVault
<1>6. bound = "own" => Told(k, ans) BY <1>1, <1>3, ToldNow
<1> HIDE DEF k
<1>7. CASE r = GoOn BY <1>1, <1>3, <1>4, <1>5, <1>7, GoesOn
<1>8. CASE r # GoOn
  <2>1. PICK res : Finish(res) /\ (\/ op.method = "get" /\ res = OnePasswordGetSecret(op.kind, r, op.ref)
                                   \/ op.method = "map" /\ res = OnePasswordGetSecretMap(op.kind, r, op.ref))
    BY <1>1, <1>3, <1>8
  <2>2. r = Error \/ (ans.st = "ok" /\ r = Single(Raw(ans.item)))
    BY <1>3, <1>8 DEF findItem, Bad
  <2>3. Parts(res, ans.item) /\ (res.out = "ok" => ans.st = "ok") /\ res.out # "nosecret"
    <3>1. CASE r = Error
      <4>1. res = Error BY <2>1, <3>1, Results DEF OnePasswordGetSecret, OnePasswordGetSecretMap
      <4> QED BY <4>1, SomeParts, Results
    <3>2. CASE ans.st = "ok" /\ r = Single(Raw(ans.item))
      <4> DEFINE it == ans.item
      <4>1. r.out = "ok" /\ r.data["value"].item = it BY <3>2 DEF Single, Ok, Under, Raw, Part
      <4>2. \/ res \in {getFile(it, op.ref.prop), getField(it, op.ref.prop)}
            \/ res \in {getFiles(it, op.ref.prop), getFields(it, op.ref.prop)}
        BY <2>1, <4>1 DEF OnePasswordGetSecret, OnePasswordGetSecretMap
      <4>3. CASE res \in {getFile(it, op.ref.prop), getField(it, op.ref.prop)}
        <5>1. res = Single(Raw(it)) \/ res = Single(Part(it, "a")) \/ res = Error BY <4>3 DEF getFile, getField
        <5>2. One(res, it) /\ res.out # "nosecret" BY <5>1, OneValue, Results
        <5> QED BY <3>2, <5>2, OneIsParts
      <4>4. CASE res = getFiles(it, op.ref.prop)
        <5>1. res = Ok(Under("a", Part(it, "a"))) \/ res = NoData BY <4>4 DEF getFiles
        <5>2. res.out = "ok" BY <5>1 DEF Ok, NoData
        <5> QED BY <3>2, <5>1, <5>2, SomeParts
      <4>5. CASE res = getFields(it, op.ref.prop)
        <5>1. PICK a, b : /\ a \in {<<>>, Under("a", Part(it, "a"))} /\ b \in {<<>>, Under("password", Raw(it))}
                          /\ res = Error \/ res = Ok(Merge(a, b))
          BY <4>5 DEF getFields
        <5>2. CASE res = Error BY <3>2, <5>2, SomeParts, Results
        <5>3. CASE res = Ok(Merge(a, b))
          <6>1. \A n \in DOMAIN a : a[n] = Part(it, "a") BY <5>1 DEF Under
          <6>2. \A n \in DOMAIN b : b[n] = Part(it, "raw") BY <5>1 DEF Under, Raw
          <6>3. \A n \in DOMAIN Merge(a, b) : Merge(a, b)[n] \in {Part(it, "a"), Part(it, "raw")}
            BY <6>1, <6>2 DEF Merge
          <6>4. res.out = "ok" /\ res.data = Merge(a, b) BY <5>3 DEF Ok
          <6>5. \A n \in DOMAIN res.data : res.data[n] \in {Part(it, "a"), Part(it, "raw")} BY <6>3, <6>4
          <6> QED BY <3>2, <6>4, <6>5 DEF Parts, Outs, Part
        <5> QED BY <5>1, <5>2, <5>3
      <4> QED BY <4>2, <4>3, <4>4, <4>5
    <3> QED BY <2>2, <3>1, <3>2
  <2>4. bound = "own" =>
              /\ res.out = "nosecret" => NothingThere
              /\ res.out = "ok" => \A n \in DOMAIN res.data :
                    IF res.data[n].part = "nil" THEN NilJustified' ELSE res.data[n].item \in seen[op.ref.key]
    <3>1. ASSUME bound = "own", res.out = "ok", NEW n \in DOMAIN res.data
          PROVE  res.data[n].part # "nil" /\ res.data[n].item \in seen[op.ref.key]
      BY <1>6, <2>3, <3>1 DEF Parts, Told, k
    <3> QED BY <2>3, <3>1
  <2> QED BY <1>1, <1>4, <1>5, <2>1, <2>4, EndRead
<1> QED BY <1>7, <1>8

(* GitLab returns a variable, or the map it holds.                         *)
LEMMA EndVariable ==
    ASSUME Inv, RInv, op.method \in {"get", "map"}, NEW res, FinishVariable(res), UNCHANGED <<prov, seen, bound>>,
           Remembered',
           bound = "own" =>
              /\ res.out # "nosecret"
              /\ res.out = "ok" =>
                    \/ res = NilData /\ NilJustified'
                    \/ \E it \in seen[op.ref.key] : res = Single(Part(it, "raw")) \/ res = Single(Part(it, "a"))
    PROVE  RInv'
<1>1. PICK end : Finish(end) /\ end = IF op.method = "map" /\ res.out = "ok" THEN GitlabGetSecretMap(res) ELSE res
  BY DEF FinishVariable
<1>2. ASSUME bound = "own"
      PROVE  /\ end.out # "nosecret"
             /\ end.out = "ok" => \A n \in DOMAIN end.data :
                    IF end.data[n].part = "nil" THEN NilJustified' ELSE end.data[n].item \in seen[op.ref.key]
  <2>1. CASE res.out # "ok" BY <1>1, <1>2, <2>1
  <2>2. CASE res = NilData /\ NilJustified'
    <3>1. CASE end = Error BY <3>1, Results
    <3>2. CASE end = NilData
      <4>1. DOMAIN end.data = {"value"} /\ end.data["value"].part = "nil" /\ end.out = "ok"
        BY <3>2 DEF NilData, Single, Ok, Under, Part
      <4> QED BY <2>2, <4>1
    <3> QED BY <1>1, <2>2, <3>1, <3>2 DEF GitlabGetSecretMap
  <2>3. CASE res.out = "ok" /\ \E it \in seen[op.ref.key] : res = Single(Part(it, "raw")) \/ res = Single(Part(it, "a"))
    <3>1. PICK it \in seen[op.ref.key] : res = Single(Part(it, "raw")) \/ res = Single(Part(it, "a")) BY <2>3
    <3>2. One(res, it) BY <3>1, OneValue
    <3>3. Parts(StringMap(res), it) /\ StringMap(res).out # "nosecret" /\ Parts(res, it) BY <2>3, <3>2, Maps, OneIsParts
    <3>4. end = res \/ end = StringMap(res) \/ end = Error BY <1>1 DEF GitlabGetSecretMap
    <3>5. Parts(end, it) /\ end.out # "nosecret" BY <2>3, <3>3, <3>4, SomeParts, Results
    <3> QED BY <3>1, <3>5 DEF Parts
  <2> QED BY <1>2, <2>1, <2>2, <2>3
<1> QED BY <1>1, <1>2, EndRead

(* A variable of GitLab.                                                   *)
LEMMA Extracts ==
    ASSUME NEW it, NEW ref
    PROVE  \/ extractVariable(it, ref) = Error
           \/ extractVariable(it, ref) = Single(Part(it, "raw"))
           \/ extractVariable(it, ref) = Single(Part(it, "a"))
BY DEF extractVariable, Raw, Gjson

(* A variable that is neither in the environment nor in all of them.       *)
LEMMA OutOfScope ==
    ASSUME NEW S \in SUBSET ItemType, NEW env, ~isEmptyOrWildcard(env),
           NEW i0 \in S, ScopeOf(i0) # env, NEW i1 \in S, ScopeOf(i1) # "*"
    PROVE  \/ \E it \in S : ~Addressed(env, it)
           \/ \E a, b \in S : a.tagged # b.tagged
<1>1. i0.tagged \in BOOLEAN /\ i1.tagged \in BOOLEAN BY DEF ItemType
<1>2. i1.tagged /\ ScopeOf(i1) = "prod" BY DEF ScopeOf
<1>3. CASE env = "prod"
  <2>1. ~i0.tagged BY <1>3 DEF ScopeOf
  <2> QED BY <1>1, <1>2, <2>1
<1>4. CASE env # "prod"
  <2>1. ~Addressed(env, i1) BY <1>2, <1>4 DEF Addressed, isEmptyOrWildcard
  <2> QED BY <2>1
<1> QED BY <1>3, <1>4

(* GitLab: the project, with a scope.                                      *)
LEMMA ProjectKeeps ==
    ASSUME Inv, RInv, NEW pc, NEW scope, ReadProject(pc, scope),
           (pc = "call" /\ scope = op.kind) \/ (pc = "wildcard" /\ scope = "*")
    PROVE  RInv'
<1> DEFINE k == op.ref.key
<1>1. k \in Keys /\ op.ref \in Refs /\ op.method \in {"get", "map"} /\ prov = "gitlab" /\ op.pc = pc
  BY DEF RInv, Asked, Refs, ReadProject
<1>2. PICK ans, var, res :
        /\ ans \in Answers(k) /\ var = GetVariable("own", scope, ans) /\ res = GitlabGetProject(var, op.ref)
        /\ Call(ans.st)
        /\ IF Bad(var) THEN Finish(res)
           ELSE IF var.st = "notfound" /\ ~isEmptyOrWildcard(scope) THEN Next1("wildcard")
           ELSE op' = [op EXCEPT !.pc = "groups", !.found = res]
  BY DEF ReadProject
<1>3. UNCHANGED <<prov, seen, bound>> BY <1>2 DEF Call
<1>4. Remembered' BY <1>3, KeepsCache DEF RInv, ReadProject
<1>5. bound = "own" => Told(k, ans) BY <1>1, <1>2, ToldNow
<1>6. Reply(prov, ans) BY <1>1, <1>2, Replies
<1>7. \/ ans.st = "ok" /\ var = ans
      \/ /\ var.st = "notfound" /\ ans.st \in {"ok", "notfound"}
         /\ Gone(ans.item) \/ ans.item.place = "shared" \/ (scope # "" /\ ScopeOf(ans.item) # scope)
      \/ Faulty(ans.st) /\ var = ans
  <2>1. CASE ans.st = "ok" /\ ~(ans.item.place = "own" /\ scope \in {"", ScopeOf(ans.item)})
    <3>1. var = Answer("notfound", Absent) BY <1>2, <2>1 DEF GetVariable
    <3>2. var.st = "notfound" BY <3>1 DEF Answer
    <3> QED BY <1>6, <2>1, <3>2 DEF Reply, ItemType
  <2>2. CASE ~(ans.st = "ok" /\ ~(ans.item.place = "own" /\ scope \in {"", ScopeOf(ans.item)}))
    <3>1. var = ans BY <1>2, <2>2 DEF GetVariable
    <3> QED BY <1>6, <3>1 DEF Reply, Faulty, Gone
  <2> QED BY <2>1, <2>2
<1>8. CASE Bad(var)
  <2>1. res \in {Error, Panic} /\ Finish(res) BY <1>2, <1>8 DEF GitlabGetProject, Bad
  <2>2. res.out \notin {"ok", "nosecret"} BY <2>1, Results
  <2> QED BY <1>1, <1>3, <1>4, <2>1, <2>2, EndRead
<1>9. CASE ~Bad(var) /\ var.st = "notfound" /\ ~isEmptyOrWildcard(scope)
  <2>1. scope = op.kind BY <1>9 DEF isEmptyOrWildcard
  <2>2. /\ op'.method = op.method /\ op'.ref = op.ref /\ op'.kind = op.kind /\ op'.page = op.page
        /\ op'.pc = "wildcard"
    BY <1>2, <1>9 DEF Next1, Inv, Types, OpFields
  <2>3. Asked' BY <1>1, <1>3, <1>9, <2>1, <2>2 DEF RInv, Asked
  <2>4. ASSUME bound = "own" PROVE FromProject'
    <3>1. ans.st \in {"ok", "notfound"} /\ (Gone(ans.item) \/ ans.item.place = "shared" \/ ScopeOf(ans.item) # op.kind)
      BY <1>7, <1>9, <2>1 DEF Faulty
    <3>2. ans.item \in seen[k] BY <1>5, <2>4, <3>1 DEF Told, Reply
    <3> QED BY <1>3, <2>2, <3>1, <3>2 DEF FromProject
  <2>5. bound' = "own" => Reads'
    BY <1>1, <1>3, <2>2, <2>4 DEF FoundOnly, Candidates, FoundAll, Reported, NoSecretJustified, ValueJustified, Reads, Finished
  <2> QED BY <1>4, <2>3, <2>5 DEF RInv
<1>10. CASE ~Bad(var) /\ ~(var.st = "notfound" /\ ~isEmptyOrWildcard(scope))
  <2>1. /\ op'.method = op.method /\ op'.ref = op.ref /\ op'.kind = op.kind /\ op'.page = op.page
        /\ op'.pc = "groups" /\ op'.found = res
    BY <1>2, <1>10 DEF Inv, Types, OpFields
  <2>2. Asked' BY <1>1, <1>3, <2>1 DEF RInv, Asked
  <2>3. ASSUME bound = "own" PROVE FromProject'
    <3>1. CASE var.st = "garbled"
      <4>1. res.out = "panic" BY <1>2, <3>1, Results DEF GitlabGetProject
      <4> QED BY <2>1, <4>1 DEF FromProject
    <3>2. CASE var.st = "ok"
      <4>1. var = ans BY <1>7, <3>2
      <4>2. res = extractVariable(ans.item, op.ref) BY <1>2, <3>2, <4>1 DEF GitlabGetProject
      <4>3. ans.item \in seen[k] BY <1>5, <2>3, <3>2, <4>1 DEF Told
      <4>4. res.out \in {"ok", "error"} BY <4>2, Extracts, Results
      <4>5. res.out = "ok" => res = Single(Part(ans.item, "raw")) \/ res = Single(Part(ans.item, "a"))
        BY <4>2, Extracts, Results
      <4> QED BY <1>3, <2>1, <4>3, <4>4, <4>5 DEF FromProject, Raw
    <3>3. CASE var.st = "notfound"
      <4>1. res = NilData BY <1>2, <3>3 DEF GitlabGetProject
      <4>2. isEmptyOrWildcard(scope) BY <1>10, <3>3
      <4>3. ans.st \in {"ok", "notfound"}
            /\ (Gone(ans.item) \/ ans.item.place = "shared" \/ (scope # "" /\ ScopeOf(ans.item) # scope))
        BY <1>7, <3>3 DEF Faulty
      <4>4. ans.item \in seen[k] BY <1>5, <2>3, <4>3 DEF Told, Reply
      <4>5. Unfound(k)
        <5>1. CASE Gone(ans.item) \/ ans.item.place = "shared" BY <4>4, <5>1 DEF Unfound
        <5>2. CASE scope = "*" /\ ScopeOf(ans.item) # "*" /\ pc = "call"
          <6>1. ~Addressed(op.kind, ans.item) BY <5>2 DEF Addressed
          <6> QED BY <4>4, <6>1 DEF Unfound
        <5>3. CASE scope = "*" /\ ScopeOf(ans.item) # "*" /\ pc = "wildcard"
          <6>1. ~isEmptyOrWildcard(op.kind) BY <1>1, <5>3 DEF RInv, Asked
          <6>2. PICK i0 \in seen[k] : Gone(i0) \/ i0.place = "shared" \/ ScopeOf(i0) # op.kind
            BY <1>1, <2>3, <5>3 DEF RInv, Reads, FromProject
          <6>3. CASE Gone(i0) \/ i0.place = "shared" BY <6>3 DEF Unfound
          <6>4. CASE ScopeOf(i0) # op.kind
            <7>1. seen[k] \in SUBSET ItemType BY <1>1 DEF Inv, Types
            <7>2. \/ \E it \in seen[k] : ~Addressed(op.kind, it)
                  \/ \E a, b \in seen[k] : a.tagged # b.tagged
              BY <4>4, <5>3, <6>1, <6>2, <6>4, <7>1, OutOfScope
            <7> QED BY <7>2 DEF Unfound, Rescoped
          <6> QED BY <6>2, <6>3, <6>4
        <5> QED BY <4>2, <4>3, <5>1, <5>2, <5>3 DEF isEmptyOrWildcard
      <4>6. Unfound(k)' BY <1>3, <2>1, <4>5 DEF Unfound, Rescoped
      <4>7. NilData.out = "ok" BY Results
      <4> QED BY <2>1, <4>1, <4>6, <4>7 DEF FromProject
    <3> QED BY <1>6, <1>7, <1>10, <3>1, <3>2, <3>3 DEF Faulty, Bad
  <2>4. bound' = "own" => Reads'
    BY <1>1, <1>3, <2>1, <2>3 DEF FoundOnly, Candidates, FoundAll, Reported, NoSecretJustified, ValueJustified, Reads, Finished
  <2> QED BY <1>4, <2>2, <2>4 DEF RInv
<1> QED BY <1>8, <1>9, <1>10

(* Why the value of a variable that was not found is nil.                  *)
LEMMA NilVariable ==
    ASSUME Inv, RInv, prov = "gitlab", UNCHANGED <<prov, seen>>, op'.ref = op.ref, op'.kind = op.kind,
           Unfound(op.ref.key),
           \A i0 \in seen[op.ref.key] : i0.place = "shared" =>
              \/ count'.faults > 0 \/ Moved(op.ref.key)
              \/ \E it \in seen[op.ref.key] :
                    Gone(it) \/ (it.place = "shared" /\ extractVariable(it, op.ref).out # "ok")
    PROVE  NilJustified'
<1> DEFINE k == op.ref.key
<1>1. k \in Keys BY DEF RInv, Asked, Refs
<1>2. remote[k] \in seen[k] BY <1>1 DEF Inv, Seen
<1>3. \E it \in seen[k] : \/ Gone(it) \/ ~Addressed(op.kind, it) \/ Moved(k) \/ Rescoped(k)
                          \/ it.place = "shared" /\ (count'.faults > 0 \/ extractVariable(it, op.ref).out # "ok")
  <2>1. CASE Rescoped(k) BY <1>2, <2>1
  <2>2. CASE \E it \in seen[k] : Gone(it) \/ ~Addressed(op.kind, it) BY <2>2
  <2>3. CASE \E it \in seen[k] : it.place = "shared"
    <3>1. PICK i0 \in seen[k] : i0.place = "shared" BY <2>3
    <3>2. CASE count'.faults > 0 BY <3>1, <3>2
    <3>3. CASE Moved(k) BY <3>1, <3>3
    <3> QED BY <3>1, <3>2, <3>3
  <2> QED BY <2>1, <2>2, <2>3 DEF Unfound
<1>4. op'.ref.key = k OBVIOUS
<1> HIDE DEF k
<1>5. PICK it \in seen[k] : \/ Gone(it) \/ ~Addressed(op.kind, it) \/ Moved(k) \/ Rescoped(k)
                            \/ it.place = "shared" /\ (count'.faults > 0 \/ extractVariable(it, op.ref).out # "ok")
  BY <1>3
<1>6. (Moved(k)' <=> Moved(k)) /\ (Rescoped(k)' <=> Rescoped(k)) BY <1>4 DEF Moved, Rescoped, k
<1> QED BY <1>4, <1>5, <1>6 DEF NilJustified, k

(* GitLab: the list of the groups.                                         *)
LEMMA GroupsKeep == ASSUME Inv, RInv, ListGroups PROVE RInv'
<1>1. op.method \in {"get", "map"} /\ prov = "gitlab" /\ op.pc = "groups"
  BY DEF RInv, Asked, ListGroups
<1>2. PICK st, r :
        /\ r = ResolveGroupIds(st) /\ Call(st)
        /\ IF r.out \in {"error", "panic"} THEN Finish(r)
           ELSE IF r = NoData \/ op.found \notin {NilData, Error} THEN FinishVariable(op.found)
           ELSE Next1("group")
  BY DEF ListGroups
<1>3. UNCHANGED <<prov, seen, bound>> BY <1>2 DEF Call
<1>4. Remembered' BY <1>3, KeepsCache DEF RInv, ListGroups
<1>5. CASE r.out \in {"error", "panic"} BY <1>1, <1>2, <1>3, <1>4, <1>5, EndRead
<1>6. CASE r.out \notin {"error", "panic"} /\ (r = NoData \/ op.found \notin {NilData, Error})
  <2>1. FinishVariable(op.found) BY <1>2, <1>6
  <2>2. op'.ref = op.ref /\ op'.kind = op.kind BY <2>1 DEF FinishVariable, Finish, Inv, Types, OpFields
  <2>3. ASSUME bound = "own"
        PROVE  /\ op.found.out # "nosecret"
               /\ op.found.out = "ok" =>
                    \/ op.found = NilData /\ NilJustified'
                    \/ \E it \in seen[op.ref.key] : op.found = Single(Part(it, "raw")) \/ op.found = Single(Part(it, "a"))
    <3>1. /\ op.found.out \in {"ok", "error", "panic"}
          /\ op.found.out = "ok" =>
                \/ op.found = NilData /\ Unfound(op.ref.key)
                \/ \E it \in seen[op.ref.key] : op.found = Single(Part(it, "raw")) \/ op.found = Single(Part(it, "a"))
      BY <1>1, <2>3 DEF RInv, Reads, FromProject, Raw
    <3>2. CASE op.found = NilData /\ Unfound(op.ref.key)
      <4>1. r = NoData BY <1>6, <3>2
      <4>2. st = "garbled"
        <5>1. Panic # NoData /\ Error # NoData /\ GoOn # NoData BY Results
        <5> QED BY <1>2, <4>1, <5>1 DEF ResolveGroupIds
      <4>3. count'.faults > 0 BY <1>2, <4>2, FaultCounts DEF Faulty
      <4> HIDE DEF NilJustified
      <4>4. NilJustified' BY <1>1, <1>3, <2>2, <3>2, <4>3, NilVariable
      <4> QED BY <3>1, <3>2, <4>4
    <3> QED BY <3>1, <3>2
  <2> QED BY <1>1, <1>3, <1>4, <2>1, <2>3, EndVariable
<1>7. CASE r.out \notin {"error", "panic"} /\ ~(r = NoData \/ op.found \notin {NilData, Error})
  <2>1. /\ op'.method = op.method /\ op'.ref = op.ref /\ op'.kind = op.kind /\ op'.page = op.page
        /\ op'.pc = "group" /\ op'.found = op.found
    BY <1>2, <1>7 DEF Next1, Inv, Types, OpFields
  <2>2. Asked' BY <1>1, <1>3, <2>1 DEF RInv, Asked
  <2>3. bound = "own" => FromProject' BY <1>1, <1>3, <2>1 DEF RInv, Reads, FromProject, Unfound, Rescoped
  <2>4. bound' = "own" => Reads'
    BY <1>1, <1>3, <2>1, <2>3 DEF FoundOnly, Candidates, FoundAll, Reported, NoSecretJustified, ValueJustified, Reads, Finished
  <2> QED BY <1>4, <2>2, <2>4 DEF RInv
<1> QED BY <1>5, <1>6, <1>7

(* GitLab: a group.                                                        *)
LEMMA GroupKeeps == ASSUME Inv, RInv, ReadGroup PROVE RInv'
<1> DEFINE k == op.ref.key
<1>1. k \in Keys /\ op.ref \in Refs /\ op.method \in {"get", "map"} /\ prov = "gitlab" /\ op.pc = "group"
  BY DEF RInv, Asked, Refs, ReadGroup
<1>2. PICK ans, var, res :
        /\ ans \in Answers(k) /\ var = GetVariable("shared", "", ans)
        /\ res = GitlabGetGroup(op.found, var, op.ref) /\ Call(ans.st) /\ FinishVariable(res)
  BY DEF ReadGroup
<1>3. UNCHANGED <<prov, seen, bound>> BY <1>2 DEF Call
<1>4. Remembered' BY <1>3, KeepsCache DEF RInv, ReadGroup
<1>5. Reply(prov, ans) BY <1>1, <1>2, Replies
<1>6. \/ ans.st = "ok" /\ ans.item.place = "shared" /\ var = ans
      \/ var.st = "notfound" /\ ans.st \in {"ok", "notfound"} /\ (Gone(ans.item) \/ ans.item.place = "own")
      \/ Faulty(ans.st) /\ var = ans
  <2>1. CASE ans.st = "ok" /\ ans.item.place # "shared"
    <3>1. var = Answer("notfound", Absent) BY <1>2, <2>1 DEF GetVariable
    <3>2. var.st = "notfound" BY <3>1 DEF Answer
    <3> QED BY <1>5, <2>1, <3>2 DEF Reply, ItemType
  <2>2. CASE ~(ans.st = "ok" /\ ans.item.place # "shared")
    <3>1. var = ans BY <1>2, <2>2 DEF GetVariable
    <3> QED BY <1>5, <2>2, <3>1 DEF Reply, Faulty, Gone
  <2> QED BY <2>1, <2>2
<1>7. ASSUME bound = "own"
      PROVE  /\ res.out # "nosecret"
             /\ res.out = "ok" =>
                   \/ res = NilData /\ NilJustified'
                   \/ \E it \in seen[k] : res = Single(Part(it, "raw")) \/ res = Single(Part(it, "a"))
  <2>1. Told(k, ans) BY <1>1, <1>2, <1>7, ToldNow
  <2> DEFINE here == extractVariable(ans.item, op.ref)
  <2>2. CASE res \in {Error, Panic} BY <2>2, Results
  <2>3. CASE ans.st = "ok" /\ here.out = "ok" /\ res = here
    <3>1. ans.item \in seen[k] BY <2>1, <2>3 DEF Told
    <3> QED BY <2>3, <3>1, Extracts, Results
  <2>4. CASE /\ ans.st \in {"ok", "notfound"} /\ res = op.found
             /\ \/ ans.item.place = "shared" /\ here.out # "ok"
                \/ Gone(ans.item) \/ ans.item.place = "own"
    <3>1. /\ op.found.out \in {"ok", "error", "panic"}
          /\ op.found.out = "ok" =>
              \/ op.found = NilData /\ Unfound(k)
              \/ \E it \in seen[k] : op.found = Single(Part(it, "raw")) \/ op.found = Single(Part(it, "a"))
      BY <1>1, <1>7 DEF RInv, Reads, FromProject, Raw
    <3>2. CASE op.found = NilData /\ Unfound(k)
      <4>1. ans.item \in seen[k] BY <2>1, <2>4 DEF Told, Reply
      <4>2. ASSUME NEW i0 \in seen[k], i0.place = "shared"
            PROVE  \/ Moved(k)
                   \/ \E it \in seen[k] : Gone(it) \/ (it.place = "shared" /\ extractVariable(it, op.ref).out # "ok")
        <5>1. CASE ans.item.place = "own" BY <4>1, <4>2, <5>1 DEF Moved
        <5>2. CASE ans.item.place # "own" BY <2>4, <4>1, <5>2
        <5> QED BY <5>1, <5>2
      <4>3. op'.ref = op.ref /\ op'.kind = op.kind
        BY <1>2 DEF FinishVariable, Finish, Inv, Types, OpFields
      <4> HIDE DEF NilJustified
      <4>4. NilJustified' BY <1>1, <1>3, <3>2, <4>2, <4>3, NilVariable
      <4> QED BY <2>4, <3>2, <4>4, Results
    <3> QED BY <2>4, <3>1, <3>2
  <2>5. \/ res \in {Error, Panic}
        \/ var.st = "ok" /\ extractVariable(var.item, op.ref).out = "ok" /\ res = extractVariable(var.item, op.ref)
        \/ /\ var.st \notin {"lost", "garbled", "fail"} /\ res = op.found
           /\ var.st = "ok" => extractVariable(var.item, op.ref).out # "ok"
    <3>1. Error.out # "ok" BY Results
    <3> QED BY <1>2, <3>1 DEF GitlabGetGroup
  <2>6. \A x : x \in {"fail", "lost", "garbled"} <=> Faulty(x) BY DEF Faulty
  <2> QED BY <1>6, <2>2, <2>3, <2>4, <2>5, <2>6
<1> QED BY <1>1, <1>2, <1>3, <1>4, <1>7, EndVariable

(* What a find looks for changes only with what has been seen.             *)
LEMMA SameFind ==
    ASSUME UNCHANGED <<prov, seen>>, op'.kind = op.kind
    PROVE  /\ \A k : Selected(k)' <=> Selected(k)
           /\ \A k : Wanted(k)' <=> Wanted(k)
           /\ \A k : Later(k)' <=> Later(k)
           /\ \A d : OnlyAsked(d)' <=> OnlyAsked(d)
<1>1. ByTags' <=> ByTags BY DEF ByTags
<1>2. \A k : Selected(k)' <=> Selected(k) BY <1>1 DEF Selected
<1>3. \A it : Visible(it)' <=> Visible(it) BY <1>1 DEF Visible
<1>4. \A k : Steady(k)' <=> Steady(k) BY DEF Steady, Moved, Gone
<1>5. \A k : Wanted(k)' <=> Wanted(k) BY <1>2, <1>3, <1>4 DEF Wanted
<1>6. \A d : OnlyAsked(d)' <=> OnlyAsked(d) BY <1>2, <1>3 DEF OnlyAsked
<1> QED BY <1>2, <1>5, <1>6 DEF Later

(* The end of a find.                                                      *)
LEMMA EndFind ==
    ASSUME Inv, RInv, op.method = "find", NEW res, Finish(res), UNCHANGED <<prov, seen, bound>>, Remembered',
           bound = "own" =>
              /\ res.out = "nosecret" => prov \in {"awssm", "gcp", "azure", "vault"}
              /\ res.out = "ok" =>
                    /\ OnlyAsked(res.data)
                    /\ \A k \in Keys : Wanted(k) => k \in DOMAIN res.data \/ Dropped(k)'
    PROVE  RInv'
<1>1. /\ op'.method = op.method /\ op'.ref = op.ref /\ op'.kind = op.kind /\ op'.page = op.page
      /\ op'.pc = "done" /\ op'.found = res /\ op'.out = res.out
  BY DEF Finish, Inv, Types, OpFields
<1>2. Asked' BY <1>1 DEF RInv, Asked
<1>3. /\ \A k : Wanted(k)' <=> Wanted(k)
      /\ \A d : OnlyAsked(d)' <=> OnlyAsked(d)
  BY <1>1, SameFind
<1>4. ASSUME bound' = "own" PROVE Reads'
  <2>1. FromProject' /\ Candidates' BY <1>1 DEF FromProject, Candidates
  <2>2. FoundOnly' BY <1>1, <1>3, <1>4 DEF FoundOnly
  <2>3. FoundAll' BY <1>1, <1>3, <1>4 DEF FoundAll, Ahead
  <2>4. Reported' BY <1>1, <1>4 DEF Reported
  <2>5. NoSecretJustified' BY <1>1 DEF NoSecretJustified, Finished
  <2>6. ValueJustified' BY <1>1, <1>4 DEF ValueJustified, Origin, OnlyAsked
  <2> QED BY <2>1, <2>2, <2>3, <2>4, <2>5, <2>6 DEF Reads
<1> QED BY <1>2, <1>4 DEF RInv

\* What a listing in one call returns.
Listing == Pick(MatchName(Present(Snapshot)), Snapshot)

(* It is what the find asks for.                                           *)
LEMMA Lists ==
    ASSUME Inv, bound = "own", prov \notin {"vault", "gitlab"}
    PROVE  /\ Listing.out = "ok" /\ OnlyAsked(Listing.data)
           /\ \A k \in Keys : Wanted(k) => k \in DOMAIN Listing.data
<1>1. \A k \in Keys : Snapshot[k] = remote[k] /\ remote[k] \in seen[k]
  BY DEF Snapshot, There, Inv, Seen
<1>2. DOMAIN Listing.data = {k \in Keys : remote[k] # Absent} \cap Matching /\ Listing.out = "ok"
  BY <1>1 DEF Listing, Pick, Ok, MatchName, Present
<1>3. \A k \in DOMAIN Listing.data : Listing.data[k].item = remote[k] /\ Listing.data[k].part = "raw"
  BY <1>1, <1>2 DEF Listing, Pick, Ok, Raw, Part, MatchName
<1>4. OnlyAsked(Listing.data)
  BY <1>1, <1>2, <1>3 DEF OnlyAsked, Selected, Visible, ByTags
<1>5. ASSUME NEW k \in Keys, Wanted(k) PROVE k \in DOMAIN Listing.data
  BY <1>1, <1>2, <1>5 DEF Wanted, Selected, ByTags, Steady, Gone
<1> QED BY <1>2, <1>4, <1>5

(* The providers that list everything in one call.                         *)
LEMMA ListAllKeeps == ASSUME Inv, RInv, ListAll PROVE RInv'
<1>1. op.method = "find" /\ prov \in Listers BY DEF ListAll, At1
<1>2. PICK st, res :
        /\ Call(st) /\ Finish(res)
        /\ res = CASE prov = "doppler"     -> DopplerGetAllSecrets(st, Snapshot)
                   [] prov = "onboardbase" -> OnboardbaseGetAllSecrets(st, Snapshot)
                   [] prov = "kubernetes"  -> KubernetesGetAllSecrets(st, op.kind, Snapshot)
                   [] prov = "keeper"      -> KeeperGetAllSecrets(st, Snapshot)
  BY DEF ListAll
<1>3. UNCHANGED <<prov, seen, bound>> BY <1>2 DEF Call
<1>4. Remembered' BY <1>3, KeepsCache DEF RInv, ListAll
<1>5. Pick(Present(Snapshot), Snapshot).out = "ok" /\ DOMAIN Pick(Present(Snapshot), Snapshot).data = Present(Snapshot)
  BY DEF Pick, Ok
<1>6. \/ res = Error \/ res = Listing
      \/ prov = "onboardbase" /\ st = "garbled" /\ res = Pick(MatchName({}), Snapshot)
  <2>1. CASE prov = "doppler"
    BY <1>2, <1>5, <2>1, Results DEF DopplerGetAllSecrets, DopplerAPIList, Listing
  <2>2. CASE prov = "onboardbase"
    BY <1>2, <1>5, <2>2, Results DEF OnboardbaseGetAllSecrets, OnboardbaseAPIList, getSecretsFromPayload, Listing
  <2>3. CASE prov = "kubernetes"
    BY <1>2, <2>3 DEF KubernetesGetAllSecrets, ConvertKeys, Listing
  <2>4. CASE prov = "keeper" BY <1>2, <2>4 DEF KeeperGetAllSecrets, Listing
  <2> QED BY <1>1, <2>1, <2>2, <2>3, <2>4 DEF Listers
<1>7. CASE res = Error BY <1>1, <1>2, <1>3, <1>4, <1>7, Results, EndFind
<1>8. CASE res = Listing
  <2>1. bound = "own" => /\ Listing.out = "ok" /\ OnlyAsked(Listing.data)
                         /\ \A k \in Keys : Wanted(k) => k \in DOMAIN Listing.data
    BY <1>1, Lists DEF Listers
  <2> QED BY <1>1, <1>2, <1>3, <1>4, <1>8, <2>1, EndFind
<1>9. CASE prov = "onboardbase" /\ st = "garbled" /\ res = Pick(MatchName({}), Snapshot)
  <2>1. res.out = "ok" /\ DOMAIN res.data = {} BY <1>9 DEF Pick, Ok, MatchName
  <2>2. OnlyAsked(res.data) BY <2>1 DEF OnlyAsked
  <2>3. count'.faults > 0 BY <1>2, <1>9, FaultCounts DEF Faulty
  <2>4. \A k \in Keys : Dropped(k)' BY <1>3, <1>9, <2>3 DEF Dropped
  <2> QED BY <1>1, <1>2, <1>3, <1>4, <1>9, <2>1, <2>2, <2>4, EndFind
<1> QED BY <1>6, <1>7, <1>8, <1>9

(* A find the provider does not have.                                      *)
LEMMA UnsupportedKeeps == ASSUME Inv, RInv, Unsupported PROVE RInv'
<1>1. UNCHANGED <<prov, seen, bound, cache>> /\ Finish(Error) BY DEF Unsupported, NotImplemented
<1>2. Remembered' BY <1>1, KeepsCache DEF RInv
<1>3. CASE op.method = "find" BY <1>1, <1>2, <1>3, Results, EndFind
<1>4. CASE op.method \in {"push", "delete"}
  <2>1. /\ op'.method = op.method /\ op'.ref = op.ref /\ op'.kind = op.kind /\ op'.page = op.page /\ op'.pc = "done"
    BY <1>1 DEF Finish, Inv, Types, OpFields
  <2>2. Asked' BY <1>1, <2>1 DEF RInv, Asked
  <2>3. Reads' BY <1>4, <2>1 DEF FromProject, FoundOnly, Candidates, FoundAll, Reported, NoSecretJustified,
                              ValueJustified, Reads, Finished
  <2> QED BY <1>2, <2>2, <2>3 DEF RInv
<1> QED BY <1>3, <1>4 DEF Unsupported, At1

(* A find of GitLab sets the environment.                                  *)
LEMMA EnvironmentKeeps == ASSUME Inv, RInv, FindEnvironment PROVE RInv'
<1>1. op.method = "find" /\ prov = "gitlab" /\ op.pc = "call" BY DEF FindEnvironment, At1
<1>2. UNCHANGED <<prov, seen, bound, cache>> BY DEF FindEnvironment
<1>3. Remembered' BY <1>2, KeepsCache DEF RInv
<1>4. PICK tag \in {"none"} \cup Environments :
        IF ExtractTag(op.kind, tag) # GoOn THEN Finish(ExtractTag(op.kind, tag))
        ELSE op' = [op EXCEPT !.pc = "list", !.kind = IF tag = "none" THEN @ ELSE tag]
  BY DEF FindEnvironment
<1>5. CASE ExtractTag(op.kind, tag) # GoOn
  <2>1. Finish(Error) BY <1>4, <1>5 DEF ExtractTag
  <2> QED BY <1>1, <1>2, <1>3, <2>1, Results, EndFind
<1>6. CASE ExtractTag(op.kind, tag) = GoOn
  <2>1. /\ op'.method = op.method /\ op'.ref = op.ref /\ op'.page = op.page
        /\ op'.kind = (IF tag = "none" THEN op.kind ELSE tag)
        /\ op'.pc = "list" /\ op'.found = op.found
    BY <1>4, <1>6 DEF Inv, Types, OpFields
  <2>2. op.found = NoData BY <1>1 DEF RInv, Asked
  <2>3. tag # "none" => tag # "tags" BY DEF Environments
  <2>4. Asked' BY <1>1, <1>2, <2>1, <2>3 DEF RInv, Asked
  <2>5. NoData.out = "ok" /\ DOMAIN NoData.data = {} BY Results
  <2>6. Reads'
    <3>1. FoundOnly' BY <2>1, <2>2, <2>5 DEF FoundOnly, OnlyAsked
    <3>2. FoundAll' BY <2>1 DEF FoundAll, Ahead
    <3> QED BY <1>1, <2>1, <2>2, <2>5, <3>1, <3>2
        DEF FromProject, Candidates, Reported, NoSecretJustified, ValueJustified, Reads, Finished
  <2> QED BY <1>3, <2>4, <2>6 DEF RInv
<1> QED BY <1>5, <1>6

(* It resolves the groups.                                                 *)
LEMMA GroupListKeeps == ASSUME Inv, RInv, ListForFind PROVE RInv'
<1>1. op.method = "find" /\ prov = "gitlab" /\ op.pc = "list" BY DEF ListForFind, RInv, Asked
<1>2. PICK st, r :
        /\ r = ResolveGroupIds(st) /\ Call(st)
        /\ IF r.out \in {"error", "panic"} THEN Finish(r)
           ELSE Next1(IF r = NoData THEN "project" ELSE "shared")
  BY DEF ListForFind
<1>3. UNCHANGED <<prov, seen, bound>> BY <1>2 DEF Call
<1>4. Remembered' BY <1>3, KeepsCache DEF RInv, ListForFind
<1>5. CASE r.out \in {"error", "panic"} BY <1>1, <1>2, <1>3, <1>4, <1>5, EndFind
<1>6. CASE r.out \notin {"error", "panic"}
  <2>1. /\ op'.method = op.method /\ op'.ref = op.ref /\ op'.kind = op.kind /\ op'.page = op.page
        /\ op'.pc = (IF r = NoData THEN "project" ELSE "shared") /\ op'.found = op.found
    BY <1>2, <1>6 DEF Next1, Inv, Types, OpFields
  <2>2. Asked' BY <1>1, <1>3, <2>1 DEF RInv, Asked
  <2>3. r = NoData => count'.faults > 0
    <3>1. Panic # NoData /\ Error # NoData /\ GoOn # NoData BY Results
    <3>2. r = NoData => st = "garbled" BY <1>2, <3>1 DEF ResolveGroupIds
    <3> QED BY <1>2, <3>2, FaultCounts DEF Faulty
  <2>4. ASSUME bound' = "own" PROVE Reads'
    <3>0. /\ \A k : Wanted(k)' <=> Wanted(k)
          /\ \A x : OnlyAsked(x)' <=> OnlyAsked(x)
      BY <1>3, <2>1, SameFind
    <3>1. FoundOnly' BY <1>3, <2>1, <2>4, <3>0 DEF RInv, Reads, FoundOnly
    <3>2. ASSUME NEW k \in Keys, Wanted(k) PROVE Ahead(k)'
      <4>1. remote[k] \in seen[k] /\ remote[k] \in ItemType BY DEF Inv, Seen, Types
      <4>2. \A it \in seen[k] : it.place = remote[k].place BY <3>2, <4>1 DEF Wanted, Steady, Moved
      <4>3. remote[k].place \in {"own", "shared"} BY <4>1 DEF ItemType
      <4>4. CASE r # NoData BY <2>1, <4>4 DEF Ahead
      <4>5. CASE r = NoData /\ remote[k].place = "own" BY <1>3, <2>1, <4>2, <4>5 DEF Ahead
      <4>6. CASE r = NoData /\ remote[k].place = "shared"
        BY <1>1, <1>3, <2>1, <2>3, <4>2, <4>6 DEF Ahead, Dropped
      <4> QED BY <4>3, <4>4, <4>5, <4>6
    <3>3. FoundAll' BY <2>1, <3>0, <3>2 DEF FoundAll
    <3> QED BY <1>1, <1>3, <2>1, <2>4, <3>1, <3>3
        DEF FromProject, Candidates, Reported, NoSecretJustified, ValueJustified, RInv, Reads, Finished
  <2> QED BY <1>4, <2>2, <2>4 DEF RInv
<1> QED BY <1>5, <1>6

(* Faults that were counted stay.                                          *)
LEMMA FaultsStay == ASSUME Inv, NEW st, Call(st), count.faults > 0 PROVE count'.faults > 0
<1>1. count' = [count EXCEPT !.faults = @ + IF Faulty(st) THEN 1 ELSE 0] BY DEF Call
<1>2. count \in [faults : Nat, edits : Nat, ops : Nat] BY DEF Inv, Types
<1>3. count'.faults = count.faults + (IF Faulty(st) THEN 1 ELSE 0) /\ count.faults \in Nat BY <1>1, <1>2
<1> QED BY <1>3

(* GitLab lists the groups, then the project.                              *)
LEMMA GitlabListKeeps == ASSUME Inv, RInv, ListGitlab PROVE RInv'
<1>1. op.method = "find" /\ prov = "gitlab" /\ op.pc \in {"shared", "project"} BY DEF ListGitlab, RInv, Asked
<1>2. PICK st :
        /\ Call(st)
        /\ IF st # "ok" THEN Finish(Error)
           ELSE IF op.pc = "shared"
           THEN op' = [op EXCEPT !.pc = "project",
                                 !.found = Ok(GitlabListGroups(op.kind, Snapshot))]
           ELSE Finish(Ok(GitlabListProject(op.kind, op.found.data, Snapshot)))
  BY DEF ListGitlab
<1>3. UNCHANGED <<prov, seen, bound>> BY <1>2 DEF Call
<1>4. Remembered' BY <1>3, KeepsCache DEF RInv, ListGitlab
<1>5. CASE st # "ok" BY <1>1, <1>2, <1>3, <1>4, <1>5, Results, EndFind
<1>6. bound = "own" => \A k \in Keys : Snapshot[k] = remote[k] /\ remote[k] \in seen[k] /\ remote[k] \in ItemType
  BY DEF Snapshot, There, Inv, Seen, Types
<1>7. CASE st = "ok" /\ op.pc = "shared"
  <2> DEFINE d == GitlabListGroups(op.kind, Snapshot)
             named == {k \in At("shared", Snapshot) : matchesFilter(op.kind, k, Snapshot[k])}
             rest  == {k \in At("shared", Snapshot) \ named : ~Snapshot[k].tagged}
             other == IF rest = {} THEN <<>> ELSE Under("", Raw(Snapshot[CHOOSE k \in rest : TRUE]))
  <2>1. /\ op'.method = op.method /\ op'.ref = op.ref /\ op'.kind = op.kind /\ op'.page = op.page
        /\ op'.pc = "project" /\ op'.found = Ok(d)
    BY <1>2, <1>7 DEF Inv, Types, OpFields
  <2>2. Asked' BY <1>1, <1>3, <2>1 DEF RInv, Asked
  <2>3. Ok(d).out = "ok" /\ Ok(d).data = d BY DEF Ok
  <2>4. d = Merge([k \in named |-> Raw(Snapshot[k])], other) BY DEF GitlabListGroups
  <2>5. DOMAIN other \subseteq {""} /\ \A n \in DOMAIN other : other[n].part = "raw"
    <3> DEFINE x == Raw(Snapshot[CHOOSE k \in rest : TRUE])
    <3>1. x.part = "raw" BY DEF Raw, Part
    <3>2. other = <<>> \/ other = Under("", x) OBVIOUS
    <3>3. DOMAIN Under("", x) = {""} /\ Under("", x)[""] = x BY DEF Under
    <3> HIDE DEF other, x
    <3>4. CASE other = <<>>
      <4>1. DOMAIN other = {} BY <3>4
      <4> QED BY <4>1
    <3>5. CASE other = Under("", x)
      <4>1. DOMAIN other = {""} /\ other[""] = x BY <3>3, <3>5
      <4> QED BY <3>1, <4>1
    <3> QED BY <3>2, <3>4, <3>5
  <2> HIDE DEF other, rest, d
  <2>6. /\ DOMAIN d = named \cup DOMAIN other
        /\ \A n \in DOMAIN d : d[n] = IF n \in named THEN Raw(Snapshot[n]) ELSE other[n]
    BY <2>4 DEF Merge
  <2>7. ASSUME bound = "own"
        PROVE  named = {k \in Keys : /\ remote[k] # Absent /\ remote[k].place = "shared"
                                     /\ InScope(op.kind, remote[k]) /\ k \in Matching}
    BY <1>6, <2>7 DEF At, Present, matchesFilter
  <2> HIDE DEF named
  <2>8. ASSUME bound = "own" PROVE OnlyAsked(d)
    <3> SUFFICES ASSUME NEW n \in DOMAIN d
                 PROVE  /\ d[n].part = "raw"
                        /\ n # "" => /\ n \in Keys /\ Selected(n) /\ d[n].item \in seen[n]
                                     /\ \E it \in seen[n] : it # Absent /\ Visible(it)
      BY DEF OnlyAsked
    <3>1. CASE n \in named
      <4>1. /\ n \in Keys /\ n \in Matching /\ remote[n] # Absent /\ InScope(op.kind, remote[n])
            /\ Snapshot[n] = remote[n] /\ remote[n] \in seen[n]
        BY <1>6, <2>7, <2>8, <3>1
      <4>2. d[n] = Raw(remote[n]) BY <2>6, <3>1, <4>1
      <4>3. d[n].item = remote[n] /\ d[n].part = "raw" BY <4>2 DEF Raw, Part
      <4>4. Visible(remote[n]) /\ Selected(n) BY <1>1, <4>1 DEF Visible, ByTags, Selected
      <4> QED BY <4>1, <4>3, <4>4
    <3>2. CASE n \notin named BY <2>5, <2>6, <3>2
    <3> QED BY <3>1, <3>2
  <2>9. ASSUME bound = "own", NEW k \in Keys, Wanted(k)
        PROVE  k \in DOMAIN d \/ \A it \in seen[k] : it.place = "own"
    <3>1. CASE remote[k].place = "shared"
      BY <1>1, <1>6, <2>6, <2>7, <2>9, <3>1 DEF Wanted, Selected, Steady, Gone, Visible, ByTags
    <3>2. CASE remote[k].place = "own"
      BY <1>6, <2>9, <3>2 DEF Wanted, Steady, Moved
    <3> QED BY <1>6, <2>9, <3>1, <3>2 DEF ItemType
  <2>10. ASSUME bound' = "own" PROVE Reads'
    <3>0. /\ \A k : Wanted(k)' <=> Wanted(k)
          /\ \A x : OnlyAsked(x)' <=> OnlyAsked(x)
      BY <1>3, <2>1, SameFind
    <3>1. FoundOnly' BY <1>3, <2>1, <2>3, <2>8, <2>10, <3>0 DEF FoundOnly
    <3>2. FoundAll' BY <1>3, <2>1, <2>3, <2>9, <2>10, <3>0 DEF FoundAll, Ahead
    <3> QED BY <1>1, <2>1, <2>3, <3>1, <3>2
        DEF FromProject, Candidates, Reported, NoSecretJustified, ValueJustified, Reads, Finished
  <2> QED BY <1>4, <2>2, <2>10 DEF RInv
<1>8. CASE st = "ok" /\ op.pc = "project"
  <2> DEFINE f == op.found.data
             d == GitlabListProject(op.kind, f, Snapshot)
             named == {k \in At("own", Snapshot) :
                         /\ matchesFilter(op.kind, k, Snapshot[k])
                         /\ k \in DOMAIN f => Snapshot[k].tagged}
  <2>1. Finish(Ok(d)) BY <1>2, <1>8
  <2>2. Ok(d).out = "ok" /\ Ok(d).data = d BY DEF Ok
  <2>3. d = Merge([k \in named |-> Raw(Snapshot[k])], f) BY DEF GitlabListProject
  <2> HIDE DEF d, f
  <2>4. /\ DOMAIN d = named \cup DOMAIN f
        /\ \A n \in DOMAIN d : d[n] = IF n \in named THEN Raw(Snapshot[n]) ELSE f[n]
    BY <2>3 DEF Merge
  <2>5. ASSUME bound = "own"
        PROVE  named = {k \in Keys : /\ remote[k] # Absent /\ remote[k].place = "own"
                                     /\ InScope(op.kind, remote[k]) /\ k \in Matching
                                     /\ k \in DOMAIN f => remote[k].tagged}
    BY <1>6, <2>5 DEF At, Present, matchesFilter
  <2> HIDE DEF named
  <2>6. ASSUME bound = "own"
        PROVE  /\ OnlyAsked(f)
               /\ \A k \in Keys : Wanted(k) => \/ k \in DOMAIN f \/ Dropped(k)
                                               \/ \A it \in seen[k] : it.place = "own"
    BY <1>1, <1>8, <2>6 DEF RInv, Reads, Reported, FoundOnly, FoundAll, Ahead, f
  <2>7. ASSUME bound = "own" PROVE OnlyAsked(d)
    <3> SUFFICES ASSUME NEW n \in DOMAIN d
                 PROVE  /\ d[n].part = "raw"
                        /\ n # "" => /\ n \in Keys /\ Selected(n) /\ d[n].item \in seen[n]
                                     /\ \E it \in seen[n] : it # Absent /\ Visible(it)
      BY DEF OnlyAsked
    <3>1. CASE n \in named
      <4>1. /\ n \in Keys /\ n \in Matching /\ remote[n] # Absent /\ InScope(op.kind, remote[n])
            /\ Snapshot[n] = remote[n] /\ remote[n] \in seen[n]
        BY <1>6, <2>5, <2>7, <3>1
      <4>2. d[n] = Raw(remote[n]) BY <2>4, <3>1, <4>1
      <4>3. d[n].item = remote[n] /\ d[n].part = "raw" BY <4>2 DEF Raw, Part
      <4>4. Visible(remote[n]) /\ Selected(n) BY <1>1, <4>1 DEF Visible, ByTags, Selected
      <4> QED BY <4>1, <4>3, <4>4
    <3>2. CASE n \notin named BY <2>4, <2>6, <2>7, <3>2 DEF OnlyAsked
    <3> QED BY <3>1, <3>2
  <2>8. ASSUME bound = "own", NEW k \in Keys, Wanted(k) PROVE k \in DOMAIN d \/ Dropped(k)'
    <3>1. CASE k \in DOMAIN f BY <2>4, <3>1
    <3>3. CASE Dropped(k)
      <4>1. count'.faults > 0 BY <1>2, <3>3, FaultsStay DEF Dropped
      <4> QED BY <1>3, <3>3, <4>1 DEF Dropped
    <3>2. CASE k \notin DOMAIN f /\ ~Dropped(k)
      <4>1. \A it \in seen[k] : it.place = "own" BY <2>6, <2>8, <3>2
      <4> QED BY <1>1, <1>6, <2>4, <2>5, <2>8, <3>2, <4>1 DEF Wanted, Selected, Steady, Gone, Visible, ByTags
    <3> QED BY <3>1, <3>2, <3>3
  <2> QED BY <1>1, <1>3, <1>4, <2>1, <2>2, <2>7, <2>8, EndFind
<1> QED BY <1>1, <1>5, <1>7, <1>8

(* A listing of names to read.                                             *)
LEMMA ListNamesKeeps == ASSUME Inv, RInv, ListNames PROVE RInv'
<1>1. op.method = "find" /\ prov \in Fetchers /\ op.pc = "call" BY DEF ListNames, At1
<1>2. PICK st : /\ Call(st)
                /\ Finish(Error) \/ op' = [op EXCEPT !.pc = "fetch", !.todo = Listed]
  BY DEF ListNames
<1>3. UNCHANGED <<prov, seen, bound>> BY <1>2 DEF Call
<1>4. Remembered' BY <1>3, KeepsCache DEF RInv, ListNames
<1>5. CASE Finish(Error) BY <1>1, <1>2, <1>3, <1>4, <1>5, Results, EndFind
<1>6. CASE op' = [op EXCEPT !.pc = "fetch", !.todo = Listed]
  <2>1. /\ op'.method = op.method /\ op'.ref = op.ref /\ op'.kind = op.kind /\ op'.page = op.page
        /\ op'.pc = "fetch" /\ op'.found = op.found /\ op'.todo = Listed
    BY <1>6 DEF Inv, Types, OpFields
  <2>2. Asked' BY <1>1, <1>3, <2>1 DEF RInv, Asked
  <2>3. op.page \in {1, 2} /\ (op.page = 2 => prov \in Pagers \cup {"onepassword"}) BY DEF RInv, Asked
  <2>4. ASSUME bound = "own" PROVE Present(Snapshot) = {k \in Keys : remote[k] # Absent}
    BY <2>4 DEF Present, Snapshot, There
  <2>5. /\ prov \in Pagers \ {"azure"} => Listed = MatchName(Present(Snapshot) \cap Page)
        /\ prov = "azure" => Listed = {k \in MatchName(Present(Snapshot) \cap Page) : Enabled(Snapshot[k])}
        /\ prov = "vault" => Listed = IF op.kind = "tags" THEN Present(Snapshot) ELSE MatchName(Present(Snapshot))
        /\ prov = "akeyless" => Listed = MatchName(Present(Snapshot))
        /\ prov = "onepassword" => Listed = At(IF op.page = 1 THEN "own" ELSE "shared", Snapshot)
    <3>1. ASSUME prov \in Pagers \ {"azure"} PROVE Listed = MatchName(Present(Snapshot) \cap Page)
      <4>2. prov # "vault" /\ prov # "akeyless" /\ prov # "onepassword" BY <3>1 DEF Pagers
      <4> QED BY <3>1, <4>2 DEF Listed
    <3>2. prov = "azure" => Listed = isValidSecret(Present(Snapshot) \cap Page, Snapshot) BY DEF Listed, Pagers
    <3>3. prov = "vault" => Listed = IF op.kind = "tags" THEN Present(Snapshot) ELSE MatchName(Present(Snapshot))
      BY DEF Listed, Pagers
    <3>4. prov = "akeyless" => Listed = MatchName(ListSecrets("ok", Snapshot)) BY DEF Listed, Pagers
    <3>5. prov = "onepassword" => Listed = getAllForVault(IF op.page = 1 THEN "own" ELSE "shared", "ok", Snapshot)
      BY DEF Listed, Pagers
    <3>6. ListSecrets("ok", Snapshot) = Present(Snapshot) BY DEF ListSecrets
    <3>7. \A w : getAllForVault(w, "ok", Snapshot) = At(w, Snapshot) BY DEF getAllForVault
    <3>8. isValidSecret(Present(Snapshot) \cap Page, Snapshot) = {k \in MatchName(Present(Snapshot) \cap Page) : Enabled(Snapshot[k])}
      BY DEF isValidSecret
    <3> QED BY <3>1, <3>2, <3>3, <3>4, <3>5, <3>6, <3>7, <3>8
  <2>6. Present(Snapshot) \subseteq Keys BY DEF Present
  <2>7. /\ Listed \subseteq Keys
        /\ prov # "onepassword" => \A k \in Listed : Selected(k)
    BY <1>1, <2>5, <2>6 DEF Fetchers, Pagers, MatchName, At, Selected, ByTags
  <2>8. ASSUME bound = "own", NEW k \in Keys, Wanted(k), op.page = 1 \/ Later(k)
        PROVE  k \in Listed \/ (op.page = 1 /\ Later(k))
    <3>1. remote[k] # Absent /\ remote[k] \in seen[k] /\ Selected(k) /\ remote[k] \in ItemType
      BY <2>8 DEF Wanted, Steady, Gone, Inv, Seen, Types
    <3>2. k \in Present(Snapshot) BY <2>4, <2>8, <3>1
    <3>3. CASE prov \in Pagers
      <4>1. Snapshot[k] = remote[k] /\ Enabled(remote[k])
        BY <2>8, <3>1 DEF Snapshot, There, Enabled, Wanted, Steady, Gone
      <4> QED BY <2>3, <2>5, <2>8, <3>1, <3>2, <3>3, <4>1 DEF Pagers, MatchName, Page, Selected, ByTags, Later
    <3>4. CASE prov \in {"vault", "akeyless"}
      BY <2>5, <3>1, <3>2, <3>4 DEF MatchName, Selected, ByTags
    <3>5. CASE prov = "onepassword"
      <4>1. k \in At(remote[k].place, Snapshot) BY <2>8, <3>2 DEF At, Snapshot, There
      <4>2. remote[k].place = "shared" => \A it \in seen[k] : it.place = "shared"
        BY <2>8, <3>1 DEF Wanted, Steady, Moved
      <4> QED BY <2>3, <2>5, <2>8, <3>1, <3>5, <4>1, <4>2 DEF Later, ItemType, Pagers
    <3> QED BY <1>1, <3>3, <3>4, <3>5 DEF Fetchers
  <2>9. ASSUME bound' = "own" PROVE Reads'
    <3>0. /\ \A k : Wanted(k)' <=> Wanted(k)
          /\ \A k : Later(k)' <=> Later(k)
          /\ \A k : Selected(k)' <=> Selected(k)
          /\ \A x : OnlyAsked(x)' <=> OnlyAsked(x)
      BY <1>3, <2>1, SameFind
    <3>1. FoundOnly' BY <1>3, <2>1, <2>9, <3>0 DEF RInv, Reads, FoundOnly
    <3>2. Candidates' BY <1>3, <2>1, <2>7, <3>0 DEF Candidates
    <3>3. FoundAll'
      <4>1. \A k \in Keys : op.found.out = "ok" /\ Wanted(k) => k \in DOMAIN op.found.data \/ op.page = 1 \/ Later(k)
        BY <1>1, <1>3, <2>9 DEF RInv, Reads, FoundAll, Ahead
      <4> QED BY <1>3, <2>1, <2>8, <2>9, <3>0, <4>1 DEF FoundAll, Ahead
    <3> QED BY <1>1, <1>3, <2>1, <2>9, <3>1, <3>2, <3>3
        DEF FromProject, Reported, NoSecretJustified, ValueJustified, RInv, Reads, Finished
  <2> QED BY <1>4, <2>2, <2>9 DEF RInv
<1> QED BY <1>2, <1>5, <1>6

(* The next page, or the end of a find.                                    *)
LEMMA NextPageKeeps == ASSUME Inv, RInv, NextPage PROVE RInv'
<1>1. op.pc = "fetch" /\ op.todo = {} /\ op.method = "find" /\ prov \in Fetchers BY DEF NextPage, RInv, Asked
<1>2. UNCHANGED <<prov, seen, bound, cache>> BY DEF NextPage
<1>3. Remembered' BY <1>2, KeepsCache DEF RInv
<1>4. CASE prov \in Pagers \cup {"onepassword"} /\ op.page = 1
  <2>1. /\ op'.method = op.method /\ op'.ref = op.ref /\ op'.kind = op.kind /\ op'.page = 2
        /\ op'.pc = "call" /\ op'.found = op.found
    BY <1>4 DEF NextPage, Inv, Types, OpFields
  <2>2. Asked' BY <1>1, <1>2, <1>4, <2>1 DEF RInv, Asked, Pagers
  <2>3. ASSUME bound' = "own" PROVE Reads'
    <3>0. /\ \A k : Wanted(k)' <=> Wanted(k)
          /\ \A k : Later(k)' <=> Later(k)
          /\ \A x : OnlyAsked(x)' <=> OnlyAsked(x)
      BY <1>2, <2>1, SameFind
    <3>1. FoundOnly' BY <1>2, <2>1, <2>3, <3>0 DEF RInv, Reads, FoundOnly
    <3>2. FoundAll'
      <4>1. \A k \in Keys : op.found.out = "ok" /\ Wanted(k) => k \in DOMAIN op.found.data \/ Later(k)
        BY <1>1, <1>2, <2>3 DEF RInv, Reads, FoundAll, Ahead
      <4> QED BY <2>1, <3>0, <4>1 DEF FoundAll, Ahead
    <3> QED BY <1>1, <1>2, <2>1, <2>3, <3>1, <3>2
        DEF FromProject, Candidates, Reported, NoSecretJustified, ValueJustified, RInv, Reads, Finished
  <2> QED BY <1>3, <2>2, <2>3 DEF RInv
<1>5. CASE ~(prov \in Pagers \cup {"onepassword"} /\ op.page = 1)
  <2>1. PICK res : Finish(res) /\ (res = op.found \/ res = Error)
    BY <1>5 DEF NextPage, ConvertKeys
  <2>2. CASE res = Error BY <1>1, <1>2, <1>3, <2>1, <2>2, Results, EndFind
  <2>3. CASE res = op.found
    <3>1. ASSUME bound = "own"
          PROVE  /\ res.out = "ok" /\ OnlyAsked(res.data)
                 /\ \A k \in Keys : Wanted(k) => k \in DOMAIN res.data
      <4>1. ~(op.page = 1 /\ (prov \in Pagers \/ prov = "onepassword")) BY <1>5
      <4>2. res.out = "ok" /\ OnlyAsked(res.data) BY <1>1, <2>3, <3>1 DEF RInv, Reads, Reported, FoundOnly
      <4>3. \A k \in Keys : Wanted(k) => k \in DOMAIN res.data
        BY <1>1, <2>3, <3>1, <4>1, <4>2 DEF RInv, Reads, FoundAll, Ahead, Later
      <4> QED BY <4>2, <4>3
    <3> QED BY <1>1, <1>2, <1>3, <2>1, <3>1, EndFind
  <2> QED BY <2>1, <2>2, <2>3
<1> QED BY <1>4, <1>5

(* What the read of one name of a listing gives: the secret, or for Vault  *)
(* nothing when it has no data.                                            *)
LEMMA FetchedIs ==
    ASSUME NEW ans, Reply(prov, ans), prov \in Fetchers, NEW res, res = Fetched(ans)
    PROVE  /\ res.out = "nosecret" => prov \in {"awssm", "gcp", "azure", "vault"}
           /\ res.out = "ok" =>
                 /\ ans.st = "ok"
                 /\ \/ res = Single(Raw(ans.item))
                    \/ prov = "vault" /\ res = NilData /\ ans.item.shape = "empty"
<1> DEFINE plain == [prop |-> "", meta |-> FALSE]
<1>0. plain.prop = "" /\ plain.meta = FALSE OBVIOUS
<1>1. /\ Error.out = "error" /\ NoSecretErr.out = "nosecret" /\ Single(Raw(ans.item)).out = "ok"
      /\ Raw(ans.item) = Part(ans.item, "raw")
  BY Results DEF Raw
<1> HIDE DEF plain
<1>2. CASE prov = "awssm"
  <2>1. res = SMfetch(ans, plain) BY <1>2 DEF Fetched, SMfetchAndSet, plain
  <2>2. \/ res = Error \/ res = NoSecretErr
        \/ ans.st = "ok" /\ res = Single(Raw(ans.item))
    BY <1>0, <1>1, <2>1 DEF SMfetch
  <2> QED BY <1>1, <1>2, <2>2
<1>3. CASE prov = "awsps"
  BY <1>1, <1>3 DEF Fetched, PSfetchAndSet
<1>4. CASE prov = "gcp"
  <2>1. res = GCPGetSecret(ans, plain) BY <1>4 DEF Fetched, getData, plain
  <2>2. \/ res = Error \/ res = NoSecretErr
        \/ ans.st = "ok" /\ res = Single(Raw(ans.item))
    BY <1>0, <2>1 DEF GCPGetSecret, GCPparseError
  <2> QED BY <1>1, <1>4, <2>2
<1>5. CASE prov = "azure"
  <2>1. res = AzureGetSecret("secret", ans, plain) BY <1>5 DEF Fetched, AzurefetchAndSet, plain
  <2>2. \/ res = Error \/ res = NoSecretErr
        \/ ans.st = "ok" /\ res = Single(Raw(ans.item))
    BY <1>0, <2>1 DEF AzureGetSecret, AzureParseError, getProperty, getObjType, Enabled
  <2> QED BY <1>1, <1>5, <2>2
<1>6. CASE prov = "vault"
  <2>1. res = VaultGetSecret(ans, plain) BY <1>6 DEF Fetched, findSecretsFromName, plain
  <2>2. res = readSecret(ans) BY <1>0, <2>1 DEF VaultGetSecret
  <2>3. \/ res = Error \/ res = NoSecretErr
        \/ ans.st = "ok" /\ res = Single(Raw(ans.item))
        \/ ans.st = "ok" /\ res = NilData /\ ans.item.shape = "empty"
    BY <2>2 DEF readSecret
  <2> QED BY <1>1, <1>6, <2>3
<1>7. CASE prov = "akeyless"
  <2>1. res = AkeylessGetSecret(op.kind, ans, op.ref) BY <1>7 DEF Fetched
  <2>2. \/ res = Error
        \/ ans.st = "ok" /\ res = Single(Raw(ans.item))
    BY <2>1 DEF AkeylessGetSecret, GetSecretByType, GetStaticSecret, GetDynamicSecrets, GetRotatedSecrets
  <2> QED BY <1>1, <2>2
<1>8. CASE prov = "onepassword"
  <2>1. \/ res = Error
        \/ ans.st = "ok" /\ res = Single(Raw(ans.item))
    BY <1>8 DEF Fetched, getAllFiles, getAllFields
  <2> QED BY <1>1, <2>1
<1> QED BY <1>2, <1>3, <1>4, <1>5, <1>6, <1>7, <1>8 DEF Fetchers, Pagers

(* A find that goes on with the names of its listing.                      *)
LEMMA FindGoesOn ==
    ASSUME Inv, RInv, op.method = "find", prov \in Fetchers, UNCHANGED <<prov, seen, bound>>, Remembered',
           op'.method = op.method, op'.kind = op.kind, op'.page = op.page, op'.ref \in Refs,
           op'.pc \in {"fetch", "match"}, op'.pc = "match" => ByTags,
           bound = "own" =>
              /\ op'.found.out = "ok" /\ OnlyAsked(op'.found.data)
              /\ op'.todo \subseteq op.todo /\ op.pc \in {"fetch", "match"}
              /\ op'.pc = "match" => \E it \in seen[op'.ref.key] : it # Absent /\ it.tagged
              /\ \A k \in Keys : Wanted(k) /\ (k \in DOMAIN op.found.data \/ k \in op.todo) =>
                                    k \in DOMAIN op'.found.data \/ k \in op'.todo
    PROVE  RInv'
<1>1. Asked'
  <2>1. ByTags' <=> ByTags BY DEF ByTags
  <2> QED BY <2>1 DEF RInv, Asked
<1>2. /\ \A k : Selected(k)' <=> Selected(k)
      /\ \A k : Wanted(k)' <=> Wanted(k)
      /\ \A k : Later(k)' <=> Later(k)
      /\ \A d : OnlyAsked(d)' <=> OnlyAsked(d)
  BY SameFind
<1>3. ASSUME bound' = "own" PROVE Reads'
  <2>1. FoundOnly' BY <1>2, <1>3 DEF FoundOnly
  <2>2. Candidates' BY <1>2, <1>3 DEF RInv, Reads, Candidates
  <2>3. FoundAll'
    <3>1. \A k \in Keys : Wanted(k) => \/ k \in DOMAIN op.found.data \/ k \in op.todo
                                       \/ op.page = 1 /\ Later(k)
      BY <1>3 DEF RInv, Reads, FoundAll, Ahead, Reported
    <3> QED BY <1>2, <1>3, <3>1 DEF FoundAll, Ahead
  <2> QED BY <1>3, <2>1, <2>2, <2>3
      DEF FromProject, Reported, NoSecretJustified, ValueJustified, Reads, Finished
<1> QED BY <1>1, <1>3 DEF RInv

(* The read of one name of a listing.                                      *)
LEMMA FetchKeeps == ASSUME Inv, RInv, NEW k \in Keys, Fetch(k) PROVE RInv'
<1>1. /\ op.method = "find" /\ k \in op.todo /\ op.pc \in {"fetch", "match"} /\ prov \in Fetchers
      /\ ~ByTags \/ (op.pc = "match" /\ op.ref.key = k)
  BY DEF Fetch, RInv, Asked, ByTags
<1>2. PICK ans \in (IF prov = "awssm" /\ cache[<<k, FALSE>>] # Absent
                    THEN {Answer("ok", cache[<<k, FALSE>>])} ELSE Answers(k)) :
        /\ Call(ans.st)
        /\ Remember(k, FALSE, ans)
        /\ IF Fetched(ans).out = "ok" THEN op' = Collect(k, Fetched(ans)) ELSE Finish(Fetched(ans))
  BY DEF Fetch
<1>3. UNCHANGED <<prov, seen, bound>> BY <1>2 DEF Call
<1>4. prov = "awssm" => bound = "own" BY DEF Inv, Bound, Singletons
<1>5. bound = "own" => Told(k, ans)
  <2>1. CASE prov = "awssm" /\ cache[<<k, FALSE>>] # Absent
    BY <1>2, <2>1, ToldBefore DEF RInv
  <2>2. CASE ~(prov = "awssm" /\ cache[<<k, FALSE>>] # Absent) BY <1>2, <2>2, ToldNow
  <2> QED BY <2>1, <2>2
<1>6. Reply(prov, ans)
  <2>1. CASE prov = "awssm" /\ cache[<<k, FALSE>>] # Absent BY <1>4, <1>5, <2>1 DEF Told
  <2>2. CASE ~(prov = "awssm" /\ cache[<<k, FALSE>>] # Absent) BY <1>2, <2>2, Replies
  <2> QED BY <2>1, <2>2
<1>7. Remembered' BY <1>2, <1>3, <1>4, <1>5, Remembers DEF RInv
<1> DEFINE res == Fetched(ans)
           x == res.data["value"]
           f == op.found.data
<1>8. /\ res.out = "nosecret" => prov \in {"awssm", "gcp", "azure", "vault"}
      /\ res.out = "ok" =>
            /\ ans.st = "ok"
            /\ \/ res = Single(Raw(ans.item))
               \/ prov = "vault" /\ res = NilData /\ ans.item.shape = "empty"
  BY <1>1, <1>6, FetchedIs
<1>9. CASE res.out # "ok"
  <2>1. Finish(res) BY <1>2, <1>9
  <2> HIDE DEF res
  <2> QED BY <1>1, <1>3, <1>7, <1>8, <1>9, <2>1, EndFind
<1>10. CASE res.out = "ok"
  <2>1. op' = Collect(k, res) BY <1>2, <1>10
  <2>2. /\ op'.method = op.method /\ op'.ref = op.ref /\ op'.kind = op.kind /\ op'.page = op.page
        /\ op'.pc = "fetch" /\ op'.todo = op.todo \ {k}
        /\ op'.found = IF ~Keeps(k, res) THEN op.found
                       ELSE IF prov = "onepassword" THEN Ok(Merge(f, Under(k, x)))
                       ELSE Ok(Merge(Under(k, x), f))
    BY <2>1 DEF Collect, Inv, Types, OpFields
  <2> HIDE DEF res
  <2>3. ans.st = "ok" BY <1>8, <1>10
  <2>4. ASSUME bound = "own" PROVE op.found.out = "ok" /\ OnlyAsked(f)
    BY <1>1, <2>4 DEF RInv, Reads, Reported, FoundOnly
  <2>5. op'.ref \in Refs BY <2>2 DEF RInv, Asked
  <2>6. CASE Keeps(k, res)
    <3>1. res = Single(Raw(ans.item))
      BY <1>8, <1>10, <2>6 DEF Keeps, VaultKeeps
    <3>2. x.item = ans.item /\ x.part = "raw" BY <3>1 DEF Single, Ok, Under, Raw, Part
    <3> HIDE DEF x, f
    <3>3. /\ op'.found.out = "ok" /\ DOMAIN op'.found.data = DOMAIN f \cup {k}
          /\ \A n \in DOMAIN op'.found.data : \/ n \in DOMAIN f /\ op'.found.data[n] = f[n]
                                              \/ n = k /\ op'.found.data[n] = x
      <4>1. \A d : Ok(d).out = "ok" /\ Ok(d).data = d BY Fetches
      <4>2. DOMAIN Under(k, x) = {k} /\ Under(k, x)[k] = x BY Fetches
      <4>3. /\ DOMAIN Merge(f, Under(k, x)) = DOMAIN f \cup {k}
            /\ \A n \in DOMAIN f \cup {k} :
                  Merge(f, Under(k, x))[n] = IF n \in DOMAIN f THEN f[n] ELSE Under(k, x)[n]
        BY <4>2 DEF Merge
      <4>4. /\ DOMAIN Merge(Under(k, x), f) = DOMAIN f \cup {k}
            /\ \A n \in DOMAIN f \cup {k} :
                  Merge(Under(k, x), f)[n] = IF n \in {k} THEN Under(k, x)[n] ELSE f[n]
        BY <4>2 DEF Merge
      <4>5. op'.found = Ok(Merge(f, Under(k, x))) \/ op'.found = Ok(Merge(Under(k, x), f)) BY <2>2, <2>6
      <4>6. op'.found.out = "ok" /\ (op'.found.data = Merge(f, Under(k, x)) \/ op'.found.data = Merge(Under(k, x), f))
        BY <4>1, <4>5
      <4> QED BY <4>2, <4>3, <4>4, <4>6
    <3>4. ASSUME bound = "own"
          PROVE  /\ Selected(k) /\ ans.item \in seen[k]
                 /\ \E it \in seen[k] : it # Absent /\ Visible(it)
      <4>1. ans.item \in seen[k] /\ ans.item # Absent BY <1>5, <2>3, <3>4 DEF Told, Reply
      <4>2. Selected(k)
        BY <1>1, <2>6, <3>4 DEF RInv, Reads, Candidates, Keeps, Selected
      <4>3. \E it \in seen[k] : it # Absent /\ Visible(it)
        <5>1. prov # "gitlab" BY <1>1 DEF Fetchers, Pagers
        <5>2. CASE ~ByTags BY <4>1, <5>1, <5>2 DEF Visible
        <5>3. CASE ByTags BY <1>1, <3>4, <5>1, <5>3 DEF Visible, RInv, Reads, Candidates
        <5> QED BY <5>2, <5>3
      <4> QED BY <4>1, <4>2, <4>3
    <3>5. bound = "own" => OnlyAsked(op'.found.data)
      BY <2>4, <3>2, <3>3, <3>4 DEF OnlyAsked
    <3> QED BY <1>1, <1>3, <1>7, <2>2, <2>5, <3>3, <3>5, FindGoesOn DEF f
  <2>7. CASE ~Keeps(k, res)
    <3>1. bound = "own" => ~Wanted(k)
      <4> SUFFICES ASSUME bound = "own", Wanted(k) PROVE FALSE OBVIOUS
      <4>1. ans.item \in seen[k] BY <1>5, <2>3 DEF Told
      <4>2. ans.item.shape # "empty" BY <4>1 DEF Wanted, Steady
      <4>3. res = Single(Raw(ans.item)) BY <1>8, <1>10, <4>2
      <4>4. x.item = ans.item /\ res # NilData
        <5>1. x.item = ans.item BY <4>3 DEF Single, Ok, Under, Raw, Part
        <5>2. res # NilData BY <4>3, Distinct DEF Raw
        <5> QED BY <5>1, <5>2
      <4>5. prov = "onepassword" => k \in Matching BY DEF Wanted, Selected, ByTags
      <4> QED BY <2>7, <4>2, <4>4, <4>5 DEF Keeps, SMKeeps, VaultKeeps, AkeylessKeeps
    <3> QED BY <1>1, <1>3, <1>7, <2>2, <2>4, <2>5, <2>7, <3>1, FindGoesOn
  <2> QED BY <2>6, <2>7
<1> QED BY <1>9, <1>10

(* Vault reads the metadata of a name.                                     *)
LEMMA FetchMetadataKeeps == ASSUME Inv, RInv, NEW k \in Keys, FetchMetadata(k) PROVE RInv'
<1>1. /\ op.method = "find" /\ k \in op.todo /\ op.pc = "fetch" /\ prov = "vault" /\ ByTags
  BY DEF FetchMetadata, RInv, Asked, ByTags
<1>2. PICK ans \in Answers(k) :
        /\ Call(ans.st)
        /\ IF findSecretsFromTags(ans).out # "ok" THEN Finish(Error)
           ELSE IF ans.item.tagged THEN op' = [op EXCEPT !.pc = "match", !.ref.key = k]
           ELSE op' = [op EXCEPT !.todo = @ \ {k}]
  BY DEF FetchMetadata
<1>3. UNCHANGED <<prov, seen, bound>> BY <1>2 DEF Call
<1>4. Remembered' BY <1>3, KeepsCache DEF RInv, FetchMetadata
<1>5. bound = "own" => Told(k, ans) BY <1>2, ToldNow
<1>6. findSecretsFromTags(ans).out = "ok" => ans.st = "ok"
  BY Results DEF findSecretsFromTags, readSecretMetadata
<1>7. CASE findSecretsFromTags(ans).out # "ok"
  BY <1>1, <1>2, <1>3, <1>4, <1>7, Results, EndFind
<1>8. prov \in Fetchers BY <1>1 DEF Fetchers
<1>9. bound = "own" => op.found.out = "ok" /\ OnlyAsked(op.found.data)
  BY <1>1 DEF RInv, Reads, Reported, FoundOnly
<1>10. CASE findSecretsFromTags(ans).out = "ok" /\ ans.item.tagged
  <2>1. /\ op'.method = op.method /\ op'.ref = [op.ref EXCEPT !.key = k] /\ op'.kind = op.kind /\ op'.page = op.page
        /\ op'.pc = "match" /\ op'.todo = op.todo /\ op'.found = op.found
    BY <1>2, <1>10 DEF Inv, Types, OpFields
  <2>2. op'.ref \in Refs /\ op'.ref.key = k BY <2>1 DEF RInv, Asked, Refs
  <2>3. bound = "own" => \E it \in seen[k] : it # Absent /\ it.tagged
    BY <1>5, <1>6, <1>10 DEF Told, Reply
  <2> QED BY <1>1, <1>3, <1>4, <1>8, <1>9, <2>1, <2>2, <2>3, FindGoesOn
<1>11. CASE findSecretsFromTags(ans).out = "ok" /\ ~ans.item.tagged
  <2>1. /\ op'.method = op.method /\ op'.ref = op.ref /\ op'.kind = op.kind /\ op'.page = op.page
        /\ op'.pc = "fetch" /\ op'.todo = op.todo \ {k} /\ op'.found = op.found
    BY <1>1, <1>2, <1>11 DEF Inv, Types, OpFields
  <2>2. op'.ref \in Refs BY <2>1 DEF RInv, Asked
  <2>3. bound = "own" => ~Wanted(k)
    BY <1>1, <1>5, <1>6, <1>11 DEF Told, Wanted, Visible
  <2> QED BY <1>1, <1>3, <1>4, <1>8, <1>9, <2>1, <2>2, <2>3, FindGoesOn
<1> QED BY <1>7, <1>10, <1>11

(* A step of a push or a delete.                                           *)
LEMMA WritesKeepReads ==
    ASSUME Inv, RInv, Inv', Running, op'.method = op.method, op'.ref = op.ref, op'.kind = op.kind,
           op'.page = op.page, UNCHANGED <<prov, cache>>, \A k \in Keys : seen[k] \subseteq seen'[k]
    PROVE  RInv'
<1>1. op.method \in {"push", "delete"} /\ Running' BY DEF Running
<1>2. op'.pc \in WritePcs \cup {"call"} BY <1>1 DEF Inv, Labels, WritePcs
<1>3. Asked' BY <1>1, <1>2 DEF RInv, Asked, WritePcs
<1>4. Remembered' BY KeepsCache DEF RInv
<1>5. Reads'
  BY <1>1, <1>2 DEF FromProject, FoundOnly, Candidates, FoundAll, Reported, NoSecretJustified,
                    ValueJustified, Reads, Finished, WritePcs
<1> QED BY <1>3, <1>4, <1>5 DEF RInv

(* The calls of a push or a delete that read, and those that write.        *)
LEMMA WriteCallsKeep == ASSUME Inv, RInv, Lookup \/ WriteOk \/ WriteFails PROVE RInv'
<1>1. Inv' BY LookupStep, WriteStep, FailStep
<1>2. Running
  <2>1. CASE Lookup BY <2>1 DEF Lookup, Running
  <2>2. CASE Writing BY <2>2 DEF Writing, Inv, Labels, ReadPcs
  <2> QED BY <2>1, <2>2 DEF WriteOk, WriteFails
<1>3. /\ op'.method = op.method /\ op'.ref = op.ref /\ op'.kind = op.kind /\ op'.page = op.page
      /\ UNCHANGED <<prov, cache>> /\ \A k \in Keys : seen[k] \subseteq seen'[k]
  <2>1. CASE Lookup BY <2>1 DEF Lookup, Call, Inv, Types, OpFields
  <2>2. CASE WriteOk
    <3>1. PICK it : SetRemote(op.ref.key, it) BY <2>2 DEF WriteOk
    <3>2. \A k \in Keys : seen[k] \subseteq seen'[k] BY <3>1 DEF SetRemote, Inv, Types
    <3> QED BY <2>2, <3>2 DEF WriteOk, Inv, Types, OpFields
  <2>3. CASE WriteFails BY <2>3 DEF WriteFails, Call, Step, Inv, Types, OpFields
  <2> QED BY <2>1, <2>2, <2>3
<1> QED BY <1>1, <1>2, <1>3, WritesKeepReads

(* The idle client has nothing.                                            *)
LEMMA IdleReads ==
    /\ Idle.page = 1 /\ Idle.kind = "name" /\ Idle.ref \in Refs
    /\ Idle.found = NoData
BY ClientAssumption DEF Idle, Refs

(* What the reference may select besides the key.                          *)
LEMMA TagsOfVault == \A p \in AllProviders : \A m : "tags" \in Kinds(p, m) => p = "vault"
BY DEF AllProviders, Kinds, AkeylessTypes, AzureKinds, Environments

(* The beginning of an operation.                                          *)
LEMMA BeginReads == ASSUME Inv, RInv, Begin PROVE RInv'
<1>1. PICK m \in {"get", "map", "find", "push", "delete"}, val \in {"text", "flat"},
            pr \in {"", "a", "z"}, meta \in BOOLEAN :
        \E kd \in Kinds(prov, m) :
        LET r == [key |-> Main, prop |-> pr, meta |-> meta]
        IN  /\ ~Refused(m, r, kd)
            /\ m # "push" => val = "text"
            /\ count.ops > 0 => m \notin {"push", "delete"}
            /\ prov = "gitlab" /\ count.ops > 0 => kd = op.kind
            /\ op' = [Idle EXCEPT !.method = m, !.kind = kd, !.ref = r, !.val = val,
                                  !.pc = IF m \in {"push", "delete"} /\ prov \in Writers
                                         THEN "lookup" ELSE "call"]
  BY DEF Begin
<1>2. PICK kd \in Kinds(prov, m) :
        op' = [Idle EXCEPT !.method = m, !.kind = kd,
                           !.ref = [key |-> Main, prop |-> pr, meta |-> meta], !.val = val,
                           !.pc = IF m \in {"push", "delete"} /\ prov \in Writers
                                  THEN "lookup" ELSE "call"]
  BY <1>1
<1>3. /\ op'.method = m /\ op'.kind = kd /\ op'.ref = [key |-> Main, prop |-> pr, meta |-> meta]
      /\ op'.pc \in {"lookup", "call"} /\ (m = "find" => op'.pc = "call")
      /\ op'.page = 1 /\ op'.found = NoData
  BY <1>2, IdleReads, IdleOp DEF OpFields
<1>4. UNCHANGED <<prov, cache>> BY DEF Begin
<1>5. op'.ref \in Refs
  <2>1. Main \in Keys BY ClientAssumption
  <2>2. [key |-> Main, prop |-> pr, meta |-> meta] \in Refs BY <2>1 DEF Refs
  <2> QED BY <1>3, <2>2
<1>6. op'.kind = "tags" => prov = "vault"
  <2>1. prov \in AllProviders BY DEF RInv, Asked
  <2>2. kd \in Kinds(prov, m) OBVIOUS
  <2>3. kd = "tags" => prov = "vault" BY <2>1, <2>2, TagsOfVault, Zenon
  <2> QED BY <1>3, <2>3
<1>7. Asked' BY <1>3, <1>4, <1>5, <1>6 DEF RInv, Asked
<1>8. Remembered' BY <1>4 DEF RInv, Remembered, Begin
<1>9. Reads'
  <2>1. FoundOnly' BY <1>3, Results DEF FoundOnly, OnlyAsked
  <2>2. FoundAll' BY <1>3 DEF FoundAll, Ahead
  <2>3. Reported' BY <1>3, Results DEF Reported
  <2> QED BY <1>3, <2>1, <2>2, <2>3
      DEF FromProject, Candidates, NoSecretJustified, ValueJustified, Reads, Finished
<1> QED BY <1>7, <1>8, <1>9 DEF RInv

(* A client that is used again, and one that is refilled.                  *)
LEMMA ClientReads == ASSUME Inv, RInv, Again \/ Rebind PROVE RInv'
<1>1. UNCHANGED <<prov, cache, seen>> BY DEF Again, Rebind
<1>2. Remembered' BY <1>1, KeepsCache DEF RInv
<1>3. CASE Again
  <2>2. op'.method = "none" /\ op'.pc = "idle" /\ op'.page = 1 /\ op'.kind \in {"name", op.kind} /\ op'.ref \in Refs
    BY <1>3, AgainIdle, IdleReads
  <2>3. Asked' BY <1>1, <2>2 DEF RInv, Asked
  <2>4. Reads' BY <2>2 DEF FromProject, FoundOnly, Candidates, FoundAll, Reported, NoSecretJustified,
                           ValueJustified, Reads, Finished
  <2> QED BY <1>2, <2>3, <2>4 DEF RInv
<1>4. CASE Rebind
  <2>1. bound' = "other" /\ UNCHANGED op BY <1>4 DEF Rebind
  <2>2. Asked' BY <1>1, <2>1 DEF RInv, Asked, ByTags
  <2> QED BY <1>2, <2>1, <2>2 DEF RInv
<1> QED BY <1>3, <1>4

(* What others edit while a read or a find goes on.                        *)
LEMMA EditReads == ASSUME Inv, RInv, NEW k \in Keys, EditSecret(k) \/ Recreate(k) PROVE RInv'
<1>1. PICK it : OthersEdit(k, it) BY Edited DEF Inv
<1>2. UNCHANGED <<prov, bound, op, cache>> /\ op.pc \notin {"idle", "done"}
  BY <1>1 DEF OthersEdit, EditSecret, Recreate
<1>3. \A j \in Keys : seen[j] \subseteq seen'[j] BY <1>1 DEF OthersEdit, Inv, Types
<1>4. Asked' BY <1>2 DEF RInv, Asked, ByTags
<1>5. Remembered' BY <1>2, <1>3, KeepsCache DEF RInv
<1>6. ASSUME bound' = "own" PROVE Reads'
  <2>1. op.ref.key \in Keys BY DEF RInv, Asked, Refs
  <2>2. /\ ByTags' <=> ByTags
        /\ \A x : Visible(x)' <=> Visible(x)
        /\ \A j : Selected(j)' <=> Selected(j)
    <3>1. ByTags' <=> ByTags BY <1>2 DEF ByTags
    <3> QED BY <1>2, <3>1 DEF Visible, Selected
  <2>3. FromProject' BY <1>2, <1>3, <1>6, <2>1 DEF RInv, Reads, FromProject, Unfound, Rescoped
  <2>4. FoundOnly' BY <1>2, <1>3, <1>6, <2>2 DEF RInv, Reads, FoundOnly, OnlyAsked
  <2>5. Candidates' BY <1>2, <1>3, <1>6, <2>1, <2>2 DEF RInv, Reads, Candidates
  <2>6. FoundAll'
    <3> SUFFICES ASSUME op'.method = "find", op'.found.out = "ok", NEW j \in Keys, Wanted(j)'
                 PROVE  j \in DOMAIN op'.found.data \/ Ahead(j)'
      BY DEF FoundAll
    <3>1. Wanted(j) BY <1>3, <2>2 DEF Wanted, Steady, Moved
    <3>2. j \in DOMAIN op.found.data \/ Ahead(j) BY <1>2, <1>6, <3>1 DEF RInv, Reads, FoundAll
    <3>3. \A p : (\A x \in seen[j] : x.place = p) => \A x \in seen'[j] : x.place = p
      <4>1. remote[j] \in seen[j] /\ remote[j] \in seen'[j] BY <1>3 DEF Inv, Seen
      <4>2. \A x \in seen'[j] : x.place = remote[j].place BY <4>1 DEF Wanted, Steady, Moved
      <4> QED BY <4>1, <4>2
    <3>4. Later(j) => Later(j)' BY <1>2, <3>3 DEF Later
    <3>5. Dropped(j) => Dropped(j)'
      <4>1. count'.faults = count.faults BY <1>1 DEF OthersEdit, Inv, Types
      <4> QED BY <1>2, <3>3, <4>1 DEF Dropped
    <3> QED BY <1>2, <3>2, <3>3, <3>4, <3>5 DEF Ahead
  <2>7. Reported' BY <1>2, <1>6 DEF RInv, Reads, Reported
  <2> QED BY <1>2, <2>3, <2>4, <2>5, <2>6, <2>7 DEF NoSecretJustified, ValueJustified, Reads, Finished
<1> QED BY <1>4, <1>5, <1>6 DEF RInv

(* Nothing happens.                                                        *)
LEMMA StutterReads == ASSUME RInv, UNCHANGED vars PROVE RInv'
<1>1. UNCHANGED <<prov, bound, op, cache, seen, count>> BY DEF vars
<1>2. Asked' BY <1>1 DEF RInv, Asked, ByTags
<1>3. Remembered' BY <1>1 DEF RInv, Remembered
<1>4. /\ \A k : Selected(k)' <=> Selected(k)
      /\ \A k : Wanted(k)' <=> Wanted(k)
      /\ \A k : Later(k)' <=> Later(k)
      /\ \A d : OnlyAsked(d)' <=> OnlyAsked(d)
  BY <1>1, SameFind
<1>5. ASSUME Reads PROVE Reads'
  <2>1. FromProject' BY <1>1, <1>5 DEF Reads, FromProject, Unfound, Rescoped
  <2>2. FoundOnly' BY <1>1, <1>4, <1>5 DEF Reads, FoundOnly
  <2>3. Candidates' BY <1>1, <1>4, <1>5 DEF Reads, Candidates
  <2>4. FoundAll' BY <1>1, <1>4, <1>5 DEF Reads, FoundAll, Ahead, Dropped
  <2>5. Reported' BY <1>1, <1>5 DEF Reads, Reported
  <2>6. NoSecretJustified' BY <1>1, <1>5 DEF Reads, NoSecretJustified, Finished, WasGone
  <2>7. ValueJustified'
    <3>1. NilJustified' <=> NilJustified BY <1>1 DEF NilJustified, Moved, Rescoped
    <3> QED BY <1>1, <1>5, <3>1 DEF Reads, ValueJustified, Finished, Origin
  <2> QED BY <2>1, <2>2, <2>3, <2>4, <2>5, <2>6, <2>7 DEF Reads
<1> QED BY <1>1, <1>2, <1>3, <1>5 DEF RInv

(* The initial states.                                                     *)
LEMMA InitReads == Init => RInv
<1> SUFFICES ASSUME Init PROVE RInv OBVIOUS
<1>1. op.method = "none" /\ op.pc = "idle" /\ op.page = 1 /\ op.kind = "name" /\ op.ref \in Refs
  BY IdleOp, IdleReads DEF Init
<1>2. prov \in AllProviders BY ClientAssumption DEF Init
<1>3. Asked BY <1>1, <1>2 DEF Asked
<1>4. Remembered BY MadeItems DEF Remembered, Init, NoCache
<1>5. Reads BY <1>1 DEF FromProject, FoundOnly, Candidates, FoundAll, Reported, NoSecretJustified,
                        ValueJustified, Reads, Finished
<1> QED BY <1>3, <1>4, <1>5 DEF RInv

(* All that is known about the reads and the finds, for every provider.    *)
THEOREM ReadInvariance == Spec => []RInv
<1>1. Inv /\ RInv /\ [Next]_vars => RInv'
  <2> SUFFICES ASSUME Inv, RInv, [Next]_vars PROVE RInv' OBVIOUS
  <2>1. CASE Begin \/ Again \/ Rebind BY <2>1, BeginReads, ClientReads
  <2>2. CASE Read \/ Describe \/ ReadByType BY <2>2, ReadKeeps, AkeylessReads
  <2>3. CASE \/ ReadProject("call", op.kind) \/ ReadProject("wildcard", "*")
             \/ ListGroups \/ ReadGroup
    BY <2>3, ProjectKeeps, GroupsKeep, GroupKeeps
  <2>4. CASE ReadVault("own", "call") \/ ReadVault("shared", "second") BY <2>4, VaultsKeep
  <2>5. CASE ListAll \/ Unsupported \/ ListNames \/ NextPage
    BY <2>5, ListAllKeeps, UnsupportedKeeps, ListNamesKeeps, NextPageKeeps
  <2>9. CASE FindEnvironment \/ ListForFind \/ ListGitlab
    BY <2>9, EnvironmentKeeps, GroupListKeeps, GitlabListKeeps
  <2>6. ASSUME NEW k \in Keys, Fetch(k) \/ FetchMetadata(k) \/ EditSecret(k) \/ Recreate(k) PROVE RInv'
    BY <2>6, FetchKeeps, FetchMetadataKeeps, EditReads
  <2>7. CASE Lookup \/ WriteOk \/ WriteFails BY <2>7, WriteCallsKeep
  <2>8. CASE UNCHANGED vars BY <2>8, StutterReads
  <2> QED BY <2>1, <2>2, <2>3, <2>4, <2>5, <2>6, <2>7, <2>8, <2>9 DEF Next
<1> QED BY <1>1, InitReads, Invariance, PTL DEF Spec

(* Whatever makes the controller delete or skip, a read or a find of any   *)
(* provider, really was absent at some moment of the operation.            *)
THEOREM AbsenceIsJustified == Spec => []AbsenceJustified
<1>1. Inv /\ RInv => AbsenceJustified
  <2> SUFFICES ASSUME Inv, RInv PROVE AbsenceJustified OBVIOUS
  <2>1. NoSecretJustified BY DEF RInv, Reads, NoSecretJustified, Finished
  <2>2. FindSaysGone
    <3> SUFFICES ASSUME prov \notin {"awssm", "gcp", "azure", "vault"},
                        Finished({"find"}), SaysAllGone, NEW k \in Keys, ByTags \/ k \in Matching, ~Dropped(k)
                 PROVE  NotThere(k)
      BY DEF FindSaysGone
    <3>1. Reads /\ op.method = "find" /\ op.pc = "done" BY DEF RInv, Finished
    <3>2. op.out = op.found.out /\ op.out # "nosecret" BY <3>1 DEF Reads, Reported
    <3>3. op.found.out = "ok" /\ op.found.data = <<>> BY <3>2 DEF SaysAllGone
    <3>4. DOMAIN op.found.data = {} BY <3>3
    <3>5. ~Ahead(k) BY <3>1 DEF Ahead
    <3>6. ~Wanted(k) BY <3>1, <3>3, <3>4, <3>5 DEF Reads, FoundAll
    <3> QED BY <3>6 DEF Wanted, Selected, Steady, NotThere
  <2> QED BY <2>1, <2>2 DEF AbsenceJustified
<1> QED BY <1>1, Invariance, ReadInvariance, PTL

(* A read or a find of any provider returns what it was asked for, as it   *)
(* was at some moment of the operation, and nothing else.                  *)
THEOREM ResultsAreJustified == Spec => []ResultsJustified
<1>1. RInv => ResultsJustified
  <2> SUFFICES ASSUME RInv PROVE ResultsJustified OBVIOUS
  <2>1. ValueJustified BY DEF RInv, Reads, ValueJustified, Finished
  <2>2. FindSound
    <3> SUFFICES ASSUME Finished({"find"}), op.out = "ok", NEW n \in DOMAIN op.found.data \ {""}
                 PROVE  /\ n \in Keys /\ \E it \in seen[n] : it # Absent /\ Visible(it)
                        /\ ByTags \/ n \in Matching
      BY DEF FindSound
    <3>1. Reads /\ op.method = "find" /\ op.pc = "done" BY DEF RInv, Finished
    <3>2. OnlyAsked(op.found.data) BY <3>1 DEF Reads, Reported, FoundOnly
    <3> QED BY <3>2 DEF OnlyAsked, Selected
  <2> QED BY <2>1, <2>2 DEF ResultsJustified
<1> QED BY <1>1, ReadInvariance, PTL

(* A find of any provider returns every selected secret that was there     *)
(* from beginning to end: pages, groups, vaults and edits lose none.       *)
THEOREM FindsAreComplete == Spec => []FindComplete
<1>1. RInv => FindComplete
  <2> SUFFICES ASSUME RInv, Finished({"find"}), op.out = "ok",
                      NEW k \in Keys, ByTags \/ k \in Matching, Steady(k), \A it \in seen[k] : Visible(it)
               PROVE  k \in DOMAIN op.found.data \/ Dropped(k)
    BY DEF FindComplete
  <2>1. Reads /\ op.method = "find" /\ op.pc = "done" BY DEF RInv, Finished
  <2>2. op.found.out = "ok" BY <2>1 DEF Reads, Reported
  <2>3. Wanted(k) /\ (Ahead(k) => Dropped(k)) BY <2>1 DEF Wanted, Selected, Ahead
  <2> QED BY <2>1, <2>2, <2>3 DEF Reads, FoundAll
<1> QED BY <1>1, ReadInvariance, PTL
=============================================================================
