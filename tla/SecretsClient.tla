--------------------------- MODULE SecretsClient ---------------------------
(***************************************************************************)
(* A SecretsClient of any of the providers at work: the operations of the  *)
(* interface of apis/externalsecrets/v1beta1/provider.go, call by call,    *)
(* while others edit the remote secrets, calls fail, and, for providers    *)
(* whose NewClient fills in one shared object, another reconcile makes a   *)
(* client for its own store.                                               *)
(***************************************************************************)
EXTENDS ReadProviders, PushProviders

AllProviders == {"doppler", "onboardbase", "alibaba", "oracle", "lockbox", "certificate",
    "senhasegura", "kubernetes", "webhook", "fake", "akeyless", "gitlab", "onepassword",
    "ibm", "awssm", "awsps", "gcp", "azure", "vault", "keeper"}

CONSTANTS Providers,    \* the providers of this instance
          Main,         \* the secret single reads and writes are about
          FirstPage,    \* names on the first page of a listing
          MaxFaults,    \* calls of one operation that may fail
          MaxEdits,     \* edits by others during one operation
          MaxOps        \* operations of one client

ASSUME ClientAssumption ==
    /\ Providers \subseteq AllProviders
    /\ Main \in Keys /\ FirstPage \subseteq Keys /\ "none" \notin Keys
    /\ MaxFaults \in Nat /\ MaxEdits \in Nat /\ MaxOps \in Nat

VARIABLES prov,         \* the provider
          remote,       \* the remote secrets of the client's store
          ids,          \* ARN or uid of each secret: how often it was created
          bound,        \* "own", or "other" when the shared object was refilled
          cache,        \* sm.cache of AWS Secrets Manager
          op,           \* the running operation
          seen,         \* what each secret was since the operation began
                        \* (AWS Secrets Manager: since the client was made)
          dups,         \* records created although one of that title exists
          count         \* faults, edits and operations so far

vars == <<prov, remote, ids, bound, cache, op, seen, dups, count>>
world == <<remote, ids, dups>>

Writers    == {"fake", "awssm", "awsps", "gcp", "azure", "vault", "keeper"}
Singletons == {"alibaba", "onepassword", "gitlab", "ibm", "fake"}
Listers    == {"doppler", "onboardbase", "kubernetes", "keeper"}
Pagers     == {"awssm", "awsps", "gcp", "azure"}
Fetchers   == Pagers \cup {"vault", "akeyless", "onepassword"}
WithMeta   == {"awssm", "awsps", "azure", "vault"}
Garbling   == {"doppler", "onboardbase", "oracle", "lockbox", "webhook", "gitlab",
               "onepassword", "ibm", "vault"}
TwoPlaces  == {"gitlab", "onepassword"}

(* What the store or the reference selects beside the key: Akeyless' item  *)
(* type, Azure's object type, the environment GitLab's client has now,     *)
(* 1Password's item category, Vault's find by tags, the conversion         *)
(* strategy of a find.                                                     *)
Kinds(p, m) ==
    CASE p = "akeyless" -> AkeylessTypes
      [] p = "azure" -> AzureKinds
      [] p = "gitlab" -> Environments
      [] p = "onepassword" -> {"LOGIN", "DOCUMENT"}
      [] p = "vault" /\ m = "find" -> {"name", "tags"}
      [] p \in {"gcp", "kubernetes"} /\ m = "find" -> {"Default", "Unicode"}
      [] OTHER -> {"name"}

Foreign == Item("flat", 9, TRUE, "own")
Items == {Absent, Foreign} \cup
         {Item(sh, v, t, p) : sh \in Shapes, v \in 0..2, t \in BOOLEAN, p \in {"own", "shared"}}
Idle == [method |-> "none", pc |-> "idle", kind |-> "name",
         ref |-> [key |-> Main, prop |-> "", meta |-> FALSE], val |-> "text",
         got |-> Absent, gotId |-> 0, todo |-> {}, page |-> 1,
         found |-> NoData, out |-> "go", wrote |-> {}]

---------------------------------------------------------------------------
(* The remote secret a call is about, and the answers it may get.          *)
There(k) == IF bound = "own" THEN remote[k] ELSE Foreign
Snapshot == [k \in Keys |-> There(k)]
MayFail == {f \in Faults : /\ count.faults < MaxFaults
                           /\ f.st = "garbled" => prov \in Garbling
                           /\ prov # "fake"}
Answers(k) == {AnswerFor(There(k))} \cup MayFail
Statuses == {"ok"} \cup {f.st : f \in MayFail}

Faulty(st) == st \in {"fail", "lost", "garbled"}
(* One call that changes nothing remotely.                                 *)
Call(st) ==
    /\ count' = [count EXCEPT !.faults = @ + IF Faulty(st) THEN 1 ELSE 0]
    /\ UNCHANGED <<prov, world, bound, seen>>

Finish(res) == op' = [op EXCEPT !.pc = "done", !.out = res.out, !.found = res]
Next1(pc) == op' = [op EXCEPT !.pc = pc]

At1(m, pc) == op.method = m /\ op.pc = pc
NoCache == [key \in Keys \X BOOLEAN |-> Absent]

---------------------------------------------------------------------------
(* GetSecret and GetSecretMap of the providers that make one call.         *)
GetSecret(p, kind, ans, ref) ==
    CASE p = "doppler"     -> DopplerGetSecret(ans, ref)
      [] p = "onboardbase" -> OnboardbaseGetSecret(ans, ref)
      [] p = "alibaba"     -> AlibabaGetSecret(ans, ref)
      [] p = "oracle"      -> OracleGetSecret(ans, ref)
      [] p = "lockbox"     -> LockboxGetSecret(ans, ref)
      [] p = "certificate" -> CertificateGetSecret(ans, ref)
      [] p = "senhasegura" -> SenhaseguraGetSecret(ans, ref)
      [] p = "kubernetes"  -> KubernetesGetSecret(ans, ref)
      [] p = "webhook"     -> WebhookGetSecret(ans, ref)
      [] p = "fake"        -> FakeGetSecret(ans, ref)
      [] p = "ibm"         -> IBMGetSecret(ans, ref)
      [] p = "awssm"       -> SMGetSecret(ans, ref)
      [] p = "awsps"       -> PSGetSecret(ans, ref)
      [] p = "gcp"         -> GCPGetSecret(ans, ref)
      [] p = "azure"       -> AzureGetSecret(kind, ans, ref)
      [] p = "vault"       -> VaultGetSecret(ans, ref)
      [] p = "keeper"      -> KeeperGetSecret(ans, ref)

GetSecretMap(p, kind, ans, ref) ==
    CASE p = "doppler"     -> DopplerGetSecretMap(ans, ref)
      [] p = "onboardbase" -> OnboardbaseGetSecretMap(ans, ref)
      [] p = "alibaba"     -> AlibabaGetSecretMap(ans, ref)
      [] p = "oracle"      -> OracleGetSecretMap(ans, ref)
      [] p = "lockbox"     -> LockboxGetSecretMap(ans, ref)
      [] p = "certificate" -> CertificateGetSecretMap(ans, ref)
      [] p = "senhasegura" -> SenhaseguraGetSecretMap(ans, ref)
      [] p = "kubernetes"  -> KubernetesGetSecretMap(ans, ref)
      [] p = "webhook"     -> WebhookGetSecretMap(ans, ref)
      [] p = "fake"        -> FakeGetSecretMap(ans, ref)
      [] p = "ibm"         -> IBMGetSecretMap(ans, ref)
      [] p = "awssm"       -> SMGetSecretMap(ans, ref)
      [] p = "awsps"       -> PSGetSecretMap(ans, ref)
      [] p = "gcp"         -> GCPGetSecretMap(ans, ref)
      [] p = "azure"       -> AzureGetSecretMap(kind, op.pc, ans, ref)
      [] p = "vault"       -> VaultGetSecretMap(ans, ref)
      [] p = "keeper"      -> KeeperGetSecretMap(ans, ref)

(* sm.cache: only what was found is kept.                                  *)
CacheKey == <<op.ref.key, op.ref.meta>>
Cached == prov = "awssm" /\ cache[CacheKey] # Absent
(* Mutant: the cache does not tell the keys apart.                         *)
RemembersOne(k, meta, ans) ==
    cache' = IF prov = "awssm" /\ ans.st = "ok" THEN [cache EXCEPT ![<<Main, meta>>] = ans.item] ELSE cache

Remember(k, meta, ans) ==
    cache' = IF prov = "awssm" /\ ans.st = "ok" THEN [cache EXCEPT ![<<k, meta>>] = ans.item] ELSE cache

Read ==
    /\ op.method \in {"get", "map"} /\ op.pc \in {"call", "again"}
    /\ prov \notin {"akeyless"} \cup TwoPlaces
    /\ \E ans \in (IF Cached THEN {Answer("ok", cache[CacheKey])} ELSE Answers(op.ref.key)) :
        LET res == IF op.method = "get" THEN GetSecret(prov, op.kind, ans, op.ref)
                                        ELSE GetSecretMap(prov, op.kind, ans, op.ref)
        IN  /\ ans.st = "garbled" /\ prov = "webhook" => op.ref.prop # ""
            /\ Call(ans.st)
            /\ Remember(op.ref.key, op.ref.meta, ans)
            /\ IF res = GoOn THEN Next1("again") ELSE Finish(res)

(* Akeyless: describe, then read.                                          *)
Describe ==
    /\ op.method \in {"get", "map"} /\ op.pc = "call" /\ prov = "akeyless"
    /\ \E ans \in Answers(op.ref.key) :
        /\ Call(ans.st)
        /\ IF DescribeItem(ans) = GoOn THEN Next1("read") ELSE Finish(DescribeItem(ans))
    /\ UNCHANGED cache

ReadByType ==
    /\ op.pc = "read"
    /\ \E ans \in Answers(op.ref.key) :
        /\ Call(ans.st)
        /\ Finish(IF op.method = "get" THEN AkeylessGetSecret(op.kind, ans, op.ref)
                                       ELSE AkeylessGetSecretMap(op.kind, ans, op.ref))
    /\ UNCHANGED cache

(* GitLab: the project with the environment, a second time with "*" when   *)
(* it has no such variable, the list of groups, a group.                   *)
FinishVariable(res) ==
    Finish(IF op.method = "map" /\ res.out = "ok" THEN GitlabGetSecretMap(res) ELSE res)

ReadProject(pc, scope) ==
    /\ op.method \in {"get", "map"} /\ op.pc = pc /\ prov = "gitlab"
    /\ \E ans \in Answers(op.ref.key) :
        LET var == GetVariable("own", scope, ans)
            res == GitlabGetProject(var, op.ref)
        IN  /\ Call(ans.st)
            /\ IF Bad(var) THEN Finish(res)
               ELSE IF var.st = "notfound" /\ ~isEmptyOrWildcard(scope) THEN Next1("wildcard")
               ELSE op' = [op EXCEPT !.pc = "groups", !.found = res]
    /\ UNCHANGED cache

ListGroups ==
    /\ op.pc = "groups"
    /\ \E st \in Statuses :
        LET r == ResolveGroupIds(st)
        IN  /\ Call(st)
            /\ IF r.out \in {"error", "panic"} THEN Finish(r)
               ELSE IF r = NoData \/ op.found \notin {NilData, Error} THEN FinishVariable(op.found)
               ELSE Next1("group")
    /\ UNCHANGED cache

ReadGroup ==
    /\ op.pc = "group"
    /\ \E ans \in Answers(op.ref.key) :
        /\ Call(ans.st)
        /\ FinishVariable(GitlabGetGroup(op.found, GetVariable("shared", "", ans), op.ref))
    /\ UNCHANGED cache

(* 1Password: the vaults in order.                                         *)
ReadVault(vault, pc) ==
    /\ op.method \in {"get", "map"} /\ op.pc = pc /\ prov = "onepassword"
    /\ \E ans \in Answers(op.ref.key) :
        LET r == findItem(vault, ans)
        IN  /\ Call(ans.st)
            /\ IF r = GoOn THEN Next1("second")
               ELSE Finish(IF op.method = "get" THEN OnePasswordGetSecret(op.kind, r, op.ref)
                                                ELSE OnePasswordGetSecretMap(op.kind, r, op.ref))
    /\ UNCHANGED cache

---------------------------------------------------------------------------
(* GetAllSecrets.                                                          *)
ListAll ==
    /\ At1("find", "call") /\ prov \in Listers
    /\ \E st \in Statuses :
        /\ Call(st)
        /\ Finish(CASE prov = "doppler"     -> DopplerGetAllSecrets(st, Snapshot)
                    [] prov = "onboardbase" -> OnboardbaseGetAllSecrets(st, Snapshot)
                    [] prov = "kubernetes"  -> KubernetesGetAllSecrets(st, op.kind, Snapshot)
                    [] prov = "keeper"      -> KeeperGetAllSecrets(st, Snapshot))
    /\ UNCHANGED cache

Unsupported ==
    /\ \/ At1("find", "call") /\ prov \notin Listers \cup Fetchers \cup {"gitlab"}
       \/ op.method \in {"push", "delete"} /\ op.pc = "call" /\ prov \notin Writers
    /\ Finish(NotImplemented)
    /\ UNCHANGED <<prov, world, bound, seen, cache, count>>

(* GitLab's find sets the environment of the client, which keeps it; ...   *)
FindEnvironment ==
    /\ At1("find", "call") /\ prov = "gitlab"
    /\ \E tag \in {"none"} \cup Environments :
        IF ExtractTag(op.kind, tag) # GoOn THEN Finish(ExtractTag(op.kind, tag))
        ELSE op' = [op EXCEPT !.pc = "list", !.kind = IF tag = "none" THEN @ ELSE tag]
    /\ UNCHANGED <<prov, world, bound, seen, cache, count>>

(* ... resolves the groups, ...                                            *)
ListForFind ==
    /\ op.pc = "list"
    /\ \E st \in Statuses :
        LET r == ResolveGroupIds(st)
        IN  /\ Call(st)
            /\ IF r.out \in {"error", "panic"} THEN Finish(r)
               ELSE Next1(IF r = NoData THEN "project" ELSE "shared")
    /\ UNCHANGED cache

(* ... and lists the variables of the groups, then those of the project, a *)
(* page (of up to 100) each. Any error of these calls is returned.         *)
ListGitlab ==
    /\ op.pc \in {"shared", "project"}
    /\ \E st \in Statuses :
        /\ Call(st)
        /\ IF st # "ok" THEN Finish(Error)
           ELSE IF op.pc = "shared"
           THEN op' = [op EXCEPT !.pc = "project",
                                 !.found = Ok(GitlabListGroups(op.kind, Snapshot))]
           ELSE Finish(Ok(GitlabListProject(op.kind, op.found.data, Snapshot)))
    /\ UNCHANGED cache

(* A listing gives the names to read: a page of them, the whole path, or a *)
(* vault (1Password's second vault is its second page).                    *)
Page == IF op.page = 1 THEN FirstPage ELSE Keys \ FirstPage
Listed ==
    CASE prov = "azure" -> isValidSecret(Present(Snapshot) \cap Page, Snapshot)
      [] prov \in Pagers \ {"azure"} -> MatchName(Present(Snapshot) \cap Page)
      [] prov = "vault" -> IF op.kind = "tags" THEN Present(Snapshot) ELSE MatchName(Present(Snapshot))
      [] prov = "akeyless" -> MatchName(ListSecrets("ok", Snapshot))
      [] prov = "onepassword" ->
            getAllForVault(IF op.page = 1 THEN "own" ELSE "shared", "ok", Snapshot)
ListNames ==
    /\ At1("find", "call") /\ prov \in Fetchers
    /\ \E st \in Statuses :
        /\ Call(st)
        /\ IF st # "ok" \/ (prov = "vault" /\ listSecrets(st, Snapshot) # GoOn) THEN Finish(Error)
           ELSE op' = [op EXCEPT !.pc = "fetch", !.todo = Listed]
    /\ UNCHANGED cache

(* The read of one name of the listing.                                    *)
Fetched(ans) ==
    CASE prov = "awssm" -> SMfetchAndSet(ans)
      [] prov = "awsps" -> PSfetchAndSet(ans)
      [] prov = "gcp"   -> getData(ans)
      [] prov = "azure" -> AzurefetchAndSet(ans)
      [] prov = "vault" -> findSecretsFromName(ans)
      [] prov = "akeyless" -> AkeylessGetSecret(op.kind, ans, op.ref)
      [] prov = "onepassword" ->
            LET vault == IF op.page = 1 THEN "own" ELSE "shared"
            IN  IF op.kind = "DOCUMENT" THEN getAllFiles(vault, ans) ELSE getAllFields(vault, ans)
Keeps(k, res) ==
    /\ prov = "onepassword" => k \in Matching
    /\ prov = "awssm" => SMKeeps(res)
    /\ prov = "vault" => VaultKeeps(res)
    /\ prov = "akeyless" => AkeylessKeeps(res)
(* 1Password keeps the label it found first.                               *)
Collect(k, res) ==
    [op EXCEPT !.todo = @ \ {k}, !.pc = "fetch",
               !.found = IF ~Keeps(k, res) THEN @
                         ELSE IF prov = "onepassword"
                         THEN Ok(Merge(@.data, Under(k, res.data["value"])))
                         ELSE Ok(Merge(Under(k, res.data["value"]), @.data))]

Fetch(k) ==
    /\ op.method = "find" /\ k \in op.todo
    /\ \/ op.pc = "fetch" /\ op.kind # "tags"
       \/ op.pc = "match" /\ op.ref.key = k
    /\ \E ans \in (IF prov = "awssm" /\ cache[<<k, FALSE>>] # Absent
                   THEN {Answer("ok", cache[<<k, FALSE>>])} ELSE Answers(k)) :
        /\ Call(ans.st)
        /\ Remember(k, FALSE, ans)
        /\ IF Fetched(ans).out = "ok" THEN op' = Collect(k, Fetched(ans)) ELSE Finish(Fetched(ans))

(* Vault by tags: the metadata of every candidate first.                   *)
FetchMetadata(k) ==
    /\ op.pc = "fetch" /\ op.kind = "tags" /\ k \in op.todo
    /\ \E ans \in Answers(k) :
        /\ Call(ans.st)
        /\ IF findSecretsFromTags(ans).out # "ok" THEN Finish(Error)
           ELSE IF ans.item.tagged THEN op' = [op EXCEPT !.pc = "match", !.ref.key = k]
           ELSE op' = [op EXCEPT !.todo = @ \ {k}]
    /\ UNCHANGED cache
(* Mutant: the listing ends with the first page.                           *)
FirstPageOnly ==
    /\ op.pc = "fetch" /\ op.todo = {}
    /\ Finish(op.found)
    /\ UNCHANGED <<prov, world, bound, seen, cache, count>>

NextPage ==
    /\ op.pc = "fetch" /\ op.todo = {}
    /\ IF prov \in Pagers \cup {"onepassword"} /\ op.page = 1
       THEN op' = [op EXCEPT !.pc = "call", !.page = 2]
       ELSE Finish(IF prov = "gcp" THEN ConvertKeys(op.kind, op.found) ELSE op.found)
    /\ UNCHANGED <<prov, world, bound, seen, cache, count>>

---------------------------------------------------------------------------
(* PushSecret and DeleteSecret: the calls that read ...                    *)
PushStep(ans) ==
    CASE prov = "awssm"  -> SMPushSecret(op.pc, ans, op.got, op.val)
      [] prov = "awsps"  -> PSPushSecret(op.pc, ans, op.got, op.val)
      [] prov = "gcp"    -> GCPPushSecret(op.pc, ans, op.got, op.val)
      [] prov = "azure"  -> AzurePushSecret(op.kind, ans, op.val)
      [] prov = "vault"  -> VaultPushSecret(op.pc, ans, op.got, op.val)
      [] prov = "keeper" -> KeeperPushSecret(ans, op.ref.prop)
      [] prov = "fake"   -> FakePushSecret(ans.item)
DeleteStep(ans) ==
    CASE prov = "awssm"  -> SMDeleteSecret(op.pc, ans)
      [] prov = "awsps"  -> PSDeleteSecret(op.pc, ans)
      [] prov = "gcp"    -> GCPDeleteSecret(op.pc, ans)
      [] prov = "azure"  -> AzureDeleteSecret(op.kind, ans)
      [] prov = "vault"  -> VaultDeleteSecret(op.pc, ans)
      [] prov = "keeper" -> KeeperDeleteSecret(ans, op.ref.prop)
      [] prov = "fake"   -> FakeDeleteSecret

Step(s) == op' = [op EXCEPT !.pc = s.pc, !.out = s.out]

Lookup ==
    /\ op.method \in {"push", "delete"} /\ prov \in Writers
    /\ op.pc \in {"lookup", "describe", "access"}
    /\ \E ans \in Answers(op.ref.key) :
        LET s == IF op.method = "push" THEN PushStep(ans) ELSE DeleteStep(ans)
        IN  /\ ans.st # "garbled"
            /\ Call(ans.st)
            /\ op' = [op EXCEPT !.pc = s.pc, !.out = s.out,
                                !.got = IF op.pc = "lookup" THEN ans.item ELSE @,
                                !.gotId = IF op.pc = "lookup" THEN ids[op.ref.key] ELSE @]
    /\ UNCHANGED cache

(* ... and those that write. A write whose reply is lost took effect.      *)
Effect ==
    LET cur  == remote[op.ref.key]
        same == cur # Absent /\ ids[op.ref.key] = op.gotId
    IN  CASE prov = "awssm"  -> SMWrite(op.pc, cur, same, op.val)
          [] prov = "awsps"  -> PSWrite(op.pc, cur, op.val)
          [] prov = "gcp"    -> GCPWrite(op.pc, cur, op.val)
          [] prov = "azure"  -> AzureWrite(op.pc, cur, op.val)
          [] prov = "vault"  -> VaultWrite(op.pc, cur, op.val)
          [] prov = "keeper" -> KeeperWrite(op.pc, cur, same, op.val)
          [] prov = "fake"   -> {Pushed(op.val)}

Writing == op.pc \in {"create", "put", "label", "remove", "removeData"}
Duplicate == prov = "keeper" /\ op.pc = "create" /\ remote[op.ref.key] # Absent

SetRemote(k, it) ==
    /\ remote' = [remote EXCEPT ![k] = it]
    /\ ids' = [ids EXCEPT ![k] = @ + IF remote[k] = Absent /\ it # Absent THEN 1 ELSE 0]
    /\ seen' = [seen EXCEPT ![k] = @ \cup {it}]

WriteOk ==
    /\ Writing /\ bound = "own"
    /\ \E it \in Effect :
        /\ SetRemote(op.ref.key, it)
        /\ dups' = dups + IF Duplicate THEN 1 ELSE 0
        /\ \E lost \in {FALSE} \cup {count.faults < MaxFaults /\ prov # "fake"} :
            LET s == IF lost THEN AfterFailedWrite(prov, op.pc) ELSE AfterWrite(prov, op.pc)
            IN  /\ op' = [op EXCEPT !.pc = s.pc, !.out = s.out,
                                    !.wrote = IF Duplicate THEN @ ELSE @ \cup {it}]
                /\ count' = [count EXCEPT !.faults = @ + IF lost THEN 1 ELSE 0]
    /\ UNCHANGED <<prov, bound, cache>>

WriteFails ==
    /\ Writing /\ bound = "own"
    /\ Effect = {} \/ (count.faults < MaxFaults /\ prov # "fake")
    /\ Step(AfterFailedWrite(prov, op.pc))
    /\ Call(IF Effect = {} THEN "ok" ELSE "fail")
    /\ UNCHANGED cache

---------------------------------------------------------------------------
(* The controllers ask a client for one thing after another.               *)
Refused(m, r, kd) ==
    \/ r.meta /\ (prov \notin WithMeta \/ m \notin {"get", "map"})
    \/ m = "find" /\ r.prop # ""
    \/ m \in {"push", "delete"} /\ r.prop # "" /\ prov # "keeper"
    \/ m = "find" /\ prov = "azure" /\ kd # "secret"

Begin ==
    /\ op.pc = "idle" /\ count.ops < MaxOps
    /\ \E m \in {"get", "map", "find", "push", "delete"}, val \in {"text", "flat"},
          pr \in {"", "a", "z"}, meta \in BOOLEAN :
        \E kd \in Kinds(prov, m) :
        LET r == [key |-> Main, prop |-> pr, meta |-> meta]
        IN  /\ ~Refused(m, r, kd)
            /\ m # "push" => val = "text"
            /\ count.ops > 0 => m \notin {"push", "delete"}
            /\ prov = "gitlab" /\ count.ops > 0 => kd = op.kind
            /\ op' = [Idle EXCEPT !.method = m, !.kind = kd, !.ref = r, !.val = val,
                                  !.pc = IF m \in {"push", "delete"} /\ prov \in Writers
                                         THEN "lookup" ELSE "call"]
    /\ seen' = IF prov = "awssm" THEN seen ELSE [k \in Keys |-> {remote[k]}]
    /\ count' = [faults |-> 0, edits |-> 0, ops |-> count.ops + 1]
    /\ dups' = 0
    /\ UNCHANGED <<prov, remote, ids, bound, cache>>

(* The manager keeps one client per provider for a whole reconcile, which  *)
(* ends at the first error other than NoSecretErr. Two clients have a      *)
(* memory, so only they are used again here, and only to read, since other *)
(* controllers push: AWS Secrets Manager's has its cache, GitLab's the     *)
(* environment that a find by tags left. (Without a find it is the client  *)
(* it was; and the find is one without edits and faults, as what they do to *)
(* the secrets is like another initial state.) GitLab's groupIDs are       *)
(* resolved anew by every operation.                                       *)
Again ==
    /\ op.pc = "done" /\ op.out \in {"ok", "nosecret"} /\ op.method \notin {"push", "delete"}
    /\ \/ prov = "awssm"
       \/ prov = "gitlab" /\ op.method = "find" /\ count.edits = 0 /\ count.faults = 0
    /\ count.ops < MaxOps /\ bound = "own"
    /\ op' = [Idle EXCEPT !.kind = IF prov = "gitlab" THEN op.kind ELSE @]
    /\ UNCHANGED <<prov, world, bound, cache, seen, count>>

(* Others edit the remote secrets.                                         *)
Places == IF prov \in TwoPlaces THEN {"own", "shared"} ELSE {"own"}
Edits(k) ==
    {Absent} \cup
    {Item(sh, 2, t, p) : sh \in (IF k = Main THEN {"text", "flat", "empty"} ELSE {"text"}),
                         t \in BOOLEAN, p \in Places}
EditSecret(k) ==
    /\ op.pc \notin {"idle", "done"} /\ count.edits < MaxEdits
    /\ k = Main \/ op.method = "find"
    /\ prov # "fake"
    /\ \E it \in Edits(k) : it # remote[k] /\ SetRemote(k, it)
    /\ count' = [count EXCEPT !.edits = @ + 1]
    /\ UNCHANGED <<prov, bound, cache, op, dups>>

(* A secret deleted and created again between two calls: same name,        *)
(* another ARN.                                                            *)
Recreate(k) ==
    /\ op.pc \notin {"idle", "done"} /\ count.edits < MaxEdits
    /\ k = Main /\ op.method \in {"push", "delete"} /\ remote[k] # Absent /\ prov # "fake"
    /\ \E t \in BOOLEAN :
        /\ remote' = [remote EXCEPT ![k] = Item("text", 2, t, "own")]
        /\ seen' = [seen EXCEPT ![k] = @ \cup {Item("text", 2, t, "own")}]
    /\ ids' = [ids EXCEPT ![k] = @ + 1]
    /\ count' = [count EXCEPT !.edits = @ + 1]
    /\ UNCHANGED <<prov, bound, cache, op, dups>>

(* NewClient for another store: Alibaba, 1Password, GitLab and IBM set the *)
(* fields of the registered provider and return it; the fake refills the   *)
(* map of the store's name, whatever its namespace.                        *)
Rebind ==
    /\ prov \in Singletons /\ bound = "own" /\ op.pc \notin {"idle", "done"}
    /\ op.method \notin {"push", "delete"}
    /\ bound' = "other"
    /\ UNCHANGED <<prov, world, cache, op, seen, count>>

---------------------------------------------------------------------------
FirstItems(p, k) ==
    IF k # Main THEN {Absent, Item("text", 1, FALSE, "own")}
    ELSE {Absent}
         \cup [shape : Shapes \ {"bare"}, v : {1}, tagged : BOOLEAN,
               place : IF p \in TwoPlaces THEN {"own", "shared"} ELSE {"own"}]
         \cup (IF p \in Writers THEN {Pushed("text"), Pushed("flat")} ELSE {})
         \cup (IF p \in {"gcp", "vault"} THEN {Item("bare", 0, t, "own") : t \in BOOLEAN} ELSE {})
         \cup (IF p = "azure" THEN {Item("bare", 1, t, "own") : t \in BOOLEAN} ELSE {})

Init ==
    /\ prov \in Providers
    /\ remote \in {r \in [Keys -> UNION {FirstItems(prov, k) : k \in Keys}] :
                      \A k \in Keys : r[k] \in FirstItems(prov, k)}
    /\ ids = [k \in Keys |-> 0]
    /\ bound = "own" /\ cache = NoCache /\ op = Idle
    /\ seen = [k \in Keys |-> {remote[k]}]
    /\ dups = 0 /\ count = [faults |-> 0, edits |-> 0, ops |-> 0]

Next ==
    \/ Begin \/ Again \/ Read \/ Describe \/ ReadByType
    \/ ReadProject("call", op.kind) \/ ReadProject("wildcard", "*") \/ ListGroups \/ ReadGroup
    \/ ReadVault("own", "call") \/ ReadVault("shared", "second")
    \/ ListAll \/ Unsupported \/ ListNames \/ NextPage
    \/ FindEnvironment \/ ListForFind \/ ListGitlab
    \/ \E k \in Keys : Fetch(k) \/ FetchMetadata(k) \/ EditSecret(k) \/ Recreate(k)
    \/ Lookup \/ WriteOk \/ WriteFails
    \/ Rebind

Spec == Init /\ [][Next]_vars

---------------------------------------------------------------------------
Finished(ms) == op.pc = "done" /\ op.method \in ms /\ bound = "own"

(* Not there, or marked as managed. Nobody has claimed a secret without a  *)
(* value either: Vault's push does not look at the metadata of one.        *)
Free(it) == it = Absent \/ it.tagged
Unclaimed(it) == Free(it) \/ (it.shape = "bare" /\ it.v = 0)
Gone(it) == it = Absent \/ it.shape = "bare"
WasGone(k) == \E it \in seen[k] : Gone(it)

(* NoSecretErr is what makes the controller delete the target Secret. A    *)
(* read returns it only if the secret, or the property asked for, was      *)
(* missing at some moment of the operation; no failure of a call, no       *)
(* unreadable reply and no other shape of the payload may look like that.  *)
(* (The fake's GetSecretMap returns it for data without a valueMap too.)   *)
NoSecretJustified ==
    Finished({"get", "map"}) /\ op.out = "nosecret" =>
        \/ WasGone(op.ref.key)
        \/ op.ref.prop # "" /\ \E it \in seen[op.ref.key] : Gjson(it, op.ref.prop).out # "ok"
        \/ prov = "fake" /\ op.method = "map"

(* Every value an operation returns belongs to the secret it was asked     *)
(* for, as it was at some moment since the operation began (since the      *)
(* client was made where the client has a cache). A nil value stands for a *)
(* secret that was gone, had no data, was not in the scope of the client's *)
(* environment, or changed its place or scope meanwhile. The code has two  *)
(* more cases: GitLab drops the error of a group's variable, and finds     *)
(* none of a group after a group list it could not decode; Azure drops the *)
(* error of the second read of the tags, and does not find a tag that it   *)
(* replaced by its fields, or one asked for with the prefix of the type.   *)
Moved(k) == \E i1, i2 \in seen[k] : i1.place # i2.place
Rescoped(k) == \E i1, i2 \in seen[k] : i1.tagged # i2.tagged
Addressed(env, it) == env = "" \/ ScopeOf(it) \in {env, "*"}
NilJustified ==
    \E it \in seen[op.ref.key] :
        IF prov = "gitlab"
        THEN \/ Gone(it) \/ ~Addressed(op.kind, it) \/ Moved(op.ref.key) \/ Rescoped(op.ref.key)
             \/ it.place = "shared" /\ (count.faults > 0 \/ extractVariable(it, op.ref).out # "ok")
        ELSE IF prov = "azure"
        THEN \/ count.faults > 0 \/ Gone(it) \/ ~it.tagged
             \/ it.shape = "deep" \/ op.kind = "secret/"
        ELSE it.shape = "empty" \/ (op.ref.meta /\ ~it.tagged)
Origin(n) == IF op.method = "find" /\ n \in Keys THEN seen[n] ELSE seen[op.ref.key]
ValueJustified ==
    Finished({"get", "map", "find"}) /\ op.out = "ok" =>
        \A n \in DOMAIN op.found.data :
            LET x == op.found.data[n]
            IN  IF x.part = "nil" THEN NilJustified ELSE n = "" \/ x.item \in Origin(n)

(* A find returns every selected secret that was there from beginning to   *)
(* end: pages, groups, vaults and edits in between lose none. Values       *)
(* without data are left out by some providers; Onboardbase's find returns *)
(* nothing when it can not decrypt one value, and GitLab's no variable of  *)
(* a group when it can not decode the list of groups, in both cases        *)
(* without an error.                                                       *)
Steady(k) ==
    /\ \A it \in seen[k] : ~Gone(it) /\ it.shape # "empty"
    /\ ~Moved(k)
ByTags == prov = "vault" /\ op.kind = "tags"
Visible(it) ==
    /\ ByTags => it.tagged
    /\ prov = "gitlab" => InScope(op.kind, it)
Dropped(k) ==
    /\ count.faults > 0
    /\ \/ prov = "onboardbase"
       \/ prov = "gitlab" /\ \A it \in seen[k] : it.place = "shared"
FindComplete ==
    Finished({"find"}) /\ op.out = "ok" =>
        \A k \in Keys :
            /\ ByTags \/ k \in Matching
            /\ Steady(k) /\ \A it \in seen[k] : Visible(it)
            => k \in DOMAIN op.found.data \/ Dropped(k)

(* A find returns nothing it was not asked for. (GitLab's stores a         *)
(* variable that does not match under the empty name.)                     *)
FindSound ==
    Finished({"find"}) /\ op.out = "ok" =>
        \A n \in DOMAIN op.found.data \ {""} :
            /\ n \in Keys /\ \E it \in seen[n] : it # Absent /\ Visible(it)
            /\ ByTags \/ n \in Matching

(* The result of a find that makes the controller delete the target Secret *)
(* under deletionPolicy Delete: NoSecretErr, or no value at all.           *)
SaysAllGone == op.out = "nosecret" \/ (op.out = "ok" /\ op.found.data = <<>>)
NotThere(k) ==
    \/ \E it \in seen[k] : Gone(it) \/ it.shape = "empty" \/ ~Visible(it)
    \/ Moved(k)
AllGone == \A k \in Keys : ByTags \/ k \in Matching => NotThere(k)
(* "Delete deletes the secret if all provider secrets are deleted": a find *)
(* says so only if each selected secret was gone at some moment of it.     *)
DeleteOnlyIfAllGone == Finished({"find"}) /\ SaysAllGone => AllGone

(* A find that says that all secrets are gone is right, for the providers  *)
(* that do not pass on the NoSecretErr of a single secret, and but for     *)
(* what a provider dropped with an error (see FindComplete).               *)
FindSaysGone ==
    /\ prov \notin {"awssm", "gcp", "azure", "vault"}
    /\ Finished({"find"}) /\ SaysAllGone
    => \A k \in Keys : ByTags \/ k \in Matching => NotThere(k) \/ Dropped(k)

(* Whatever makes the controller delete or skip, a read or a find, really  *)
(* was absent when it was asked for.                                       *)
AbsenceJustified == NoSecretJustified /\ FindSaysGone

(* A read or a find returns what it was asked for, as it was at some       *)
(* moment of the operation, and nothing else.                              *)
ResultsJustified == ValueJustified /\ FindSound

(* A push that reports success left the value, marked as managed, in the   *)
(* store at some moment of the operation. (A record that Keeper creates    *)
(* beside one of the same title, after a lookup that failed, does not      *)
(* count; a secret deleted by others during the push may lose its mark.)   *)
PushEffective ==
    Finished({"push"}) /\ op.out = "ok" /\ dups = 0 =>
        \E it \in seen[op.ref.key] :
            Same(it, op.val) /\ (it.tagged \/ count.edits > 0)

(* A delete that reports success found the secret without a value or not   *)
(* managed at some moment of the operation. The fake deletes nothing;      *)
(* Keeper drops the error of the last call; Vault leaves the label of a    *)
(* push that got no further.                                               *)
DeleteEffective ==
    Finished({"delete"}) /\ op.out = "ok" /\ prov \notin {"fake", "keeper"} =>
        \E it \in seen[op.ref.key] : Gone(it) \/ ~it.tagged

(* What a push or a delete reports as done has been done.                  *)
WritesEffective == PushEffective /\ DeleteEffective

(* Whatever call of a push or a delete fails, what it wrote is free to be  *)
(* pushed or deleted again, unless others deleted or edited the secret     *)
(* meanwhile: the mark comes first and goes last.                          *)
RetryPossible ==
    Finished({"push", "delete"}) /\ count.edits = 0 => \A it \in op.wrote : Free(it)

(* The providers that write keep the promise of ManagedSecrets.            *)
Running == op.method \in {"push", "delete"}
Promise == INSTANCE ManagedSecrets WITH
    store    <- remote,
    NoKey    <- "none",
    target   <- IF Running THEN op.ref.key ELSE "none",
    Free     <- Unclaimed,
    licensed <- Running /\ \E it \in seen[op.ref.key] : Unclaimed(it),
    wrote    <- IF Running THEN op.wrote ELSE {}
KeepsPromise == Promise!MSSpec
===========================================================================
