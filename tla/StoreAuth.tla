----------------------------- MODULE StoreAuth -----------------------------
(***************************************************************************)
(* Clients being made and used: the store controllers validate a store and *)
(* the secret controllers use it, each carrying out the plan of AuthPlans  *)
(* step by step while others do the same. What a read returns is left      *)
(* open: any object may be missing, lack the key or hold an empty value at *)
(* any moment.                                                             *)
(*                                                                         *)
(* Alibaba, GitLab, IBM and 1Password fill in the registered provider and  *)
(* return it as the client, so all their clients are one object; the       *)
(* Yandex providers keep one connection per API endpoint, made with the    *)
(* credentials of the first store.                                         *)
(***************************************************************************)
EXTENDS AuthPlans

CONSTANTS Workers,      \* reconciles
          AuthProviders \* the providers of this instance

VARIABLES prov,         \* the provider of both stores
          stores,       \* the two stores
          worker,       \* the reconciles
          receiver,     \* the registered provider of a singleton
          getter        \* the Yandex connection of the endpoint

vars == <<prov, stores, worker, receiver, getter>>

Singletons == {"alibaba", "gitlab", "ibm", "onepassword"}
Generators == {"acr", "ecr", "gcr", "vaultds"}
Lazy       == {"akeyless", "webhook"}
AllAuth    == Singletons \cup Generators \cup Lazy \cup
    {"aws", "azure", "gcp", "kubernetes", "vault", "oracle", "senhasegura", "keeper",
     "doppler", "onboardbase", "yandex"}

ASSUME AuthAssumption == AuthProviders \subseteq AllAuth

(* The authentication methods of a provider's spec, and the references     *)
(* each one has.                                                           *)
Methods(p) ==
    CASE p \in {"aws", "ecr"} -> {"static", "jwt", "both", "env"}
      [] p \in {"azure", "acr"} -> {"mi", "sp", "wi", "none"}
      [] p \in {"gcp", "gcr"} -> {"key", "wi", "default"}
      [] p = "kubernetes" -> {"token", "sa", "cert", "none"}
      [] p \in {"vault", "vaultds"} ->
            VaultSecret \cup VaultAccount \cup {"kubefile", "jwtnone", "none"}
      [] p = "akeyless" -> {"secret", "kubesa", "kubesecret", "kubefile", "none"}
      [] p = "oracle" -> {"user", "principal"}
      [] p = "ibm" -> {"apikey", "container"}
      [] p \in {"alibaba", "onboardbase"} -> {"pair"}
      [] OTHER -> {"secret"}
References(p, m) ==
    IF m \in {"env", "mi", "none", "default", "kubefile", "jwtnone", "principal", "container"} THEN {}
    ELSE IF m = "both" THEN {"a", "b", "sa"}
    ELSE IF m = "static" \/ (p = "akeyless" /\ m = "secret") THEN {"a", "b", "c"}
    ELSE IF m \in {"sp", "cert", "user", "pair"} THEN {"a", "b"}
    ELSE IF m \in {"wi", "sa", "kubesa", "jwtsa"} \/ (p \in {"aws", "ecr"} /\ m = "jwt") THEN {"sa"}
    ELSE {"a"}
CAKinds(p, m) ==
    CASE p = "kubernetes" -> IF m = "sa" THEN {"none", "bundle", "Secret", "ConfigMap"} ELSE {"bundle"}
      [] p \in {"vault", "vaultds"} /\ m = "token" -> {"none", "Secret", "ConfigMap"}
      [] p = "akeyless" /\ m = "kubefile" -> {"none", "Secret", "ConfigMap"}
      [] p = "webhook" -> {"none", "Secret", "ConfigMap"}
      [] p = "yandex" -> {"none", "Secret"}
      [] OTHER -> {"none"}

Home == "n1"                    \* the namespace of a SecretStore
Namespaces == {"n1", "n2"}
StoreIds == {"s1", "s2"}

---------------------------------------------------------------------------
ValidateStore(p, s) ==
    /\ p = "aws" => AWSValidateStore(s)
    /\ p = "azure" => AzureValidateStore(s)
    /\ p = "gcp" => GCPValidateStore(s)
    /\ p = "kubernetes" => KubernetesValidateStore(s)
    /\ p = "vault" => VaultValidateStore(s)
    /\ p = "akeyless" => AkeylessValidateStore(s)
    /\ p = "webhook" => WebhookValidateStore(s)
    /\ p = "oracle" => OracleValidateStore(s)
    /\ p = "gitlab" => GitlabValidateStore(s)
    /\ p = "alibaba" => AlibabaValidateStore(s)
    /\ p = "ibm" => IBMValidateStore(s)
    /\ p = "onepassword" => OnePasswordValidateStore(s)
    /\ p = "senhasegura" => SenhaseguraValidateStore(s)
    /\ p = "keeper" => KeeperValidateStore(s)
    /\ p = "doppler" => DopplerValidateStore(s)
    /\ p = "onboardbase" => OnboardbaseValidateStore(s)
    /\ p = "yandex" => YandexAdaptInput(s)

NewClient(p, s, n) ==
    CASE p = "aws" -> AWSNewClient(s, n)
      [] p = "azure" -> AzureNewClient(s, n)
      [] p = "gcp" -> GCPNewClient(s, n)
      [] p = "kubernetes" -> KubernetesNewClient(s, n)
      [] p = "vault" -> VaultNewClient(s, n)
      [] p = "akeyless" -> AkeylessNewClient(s, n)
      [] p = "webhook" -> WebhookNewClient(s, n)
      [] p = "oracle" -> OracleNewClient(s, n)
      [] p = "gitlab" -> GitlabNewClient(s, n)
      [] p = "alibaba" -> AlibabaNewClient(s, n)
      [] p = "ibm" -> IBMNewClient(s, n)
      [] p = "onepassword" -> OnePasswordNewClient(s, n)
      [] p = "senhasegura" -> SenhaseguraNewClient(s, n)
      [] p = "keeper" -> getKeeperSecurityAuth(s, n)
      [] p = "doppler" -> DopplerNewClient(s, n)
      [] p = "onboardbase" -> OnboardbaseNewClient(s, n)
      [] p = "yandex" -> YandexNewClient(s, n)
      [] p = "acr" -> ACRGenerate(s, n)
      [] p = "ecr" -> ECRGenerate(s, n)
      [] p = "gcr" -> NewTokenSource(s, n)
      [] p = "vaultds" -> VaultGenerate(s, n)

(* What a client still reads when it is used.                              *)
UseClient(p, s, n) ==
    CASE p = "aws" -> FetchToken(s, n)
      [] p = "akeyless" -> TokenFromSecretRef(s, n)
      [] p = "webhook" -> getStoreSecret(s, n)
      [] OTHER -> <<>>

(* Validate: whether it gives up with Unknown, the calls it makes, and the *)
(* results it gives when one fails.                                        *)
Defers(p, s, placeholder) ==
    \/ p = "aws" /\ placeholder
    \/ p = "azure" /\ AzureValidate(s)
    \/ p = "gcp" /\ GCPValidate(s)
    \/ p = "kubernetes" /\ KubernetesValidate(s)
    \/ p = "vault" /\ VaultValidate(s)
ValidateCalls(p, s, n) ==
    CASE p = "aws" -> AWSValidate(s, n)
      [] p \in {"vault", "gitlab", "onepassword"} -> Do("login")
      [] p \in {"doppler", "onboardbase"} -> Do("call") \o Do("login")
      [] p \in {"kubernetes", "alibaba", "webhook", "akeyless", "oracle", "senhasegura"} -> Do("call")
      [] p \in {"azure", "gcp", "ibm", "keeper", "yandex"} -> <<>>
WhenCallFails(p) == IF p \in {"kubernetes", "oracle"} THEN {"Unknown", "Error"} ELSE {"Error"}

---------------------------------------------------------------------------
Nothing == [store |-> "", ns |-> "", from |-> "", val |-> ""]
NoCreds == [f \in Fields |-> Nothing]

Idle == [pc |-> "idle", role |-> "secret", store |-> "s1", ns |-> Home, plan |-> <<>>,
         held |-> NoCreds, reads |-> {}, deferred |-> FALSE, result |-> "", rebound |-> FALSE]

Mine(w) == stores[worker[w].store]
Only(w, new) == worker' = [worker EXCEPT ![w] = new]

(* A reconcile of the store's controller (role "store": a cluster store    *)
(* has no namespace to offer) or of one that uses the store.               *)
Start(w) ==
    /\ worker[w].pc = "idle"
    /\ w # "w1" => prov \in Singletons \cup {"yandex"}
    /\ \E id \in StoreIds, role \in {"store", "secret"}, n \in Namespaces \cup {""} :
        LET s == stores[id] IN
        /\ (id = "s1") <=> (w = "w1")
        /\ (n = "") <=> (role = "store" /\ Cluster(s))
        /\ ~Cluster(s) => n \in {Home, ""}
        /\ prov \in Generators => role = "secret"
        /\ Only(w, [Idle EXCEPT !.pc = "new", !.role = role, !.store = id, !.ns = n,
                                !.plan = NewClient(prov, s, n)])
    /\ UNCHANGED <<prov, stores, receiver, getter>>

(* The step the reconcile has come to.                                     *)
Ready(w) == worker[w].pc \in {"new", "validate", "use"} /\ worker[w].plan # <<>>
Step(w) == Head(worker[w].plan)
Doing(w, do) == Ready(w) /\ Step(w).do = do
Advance(w) == [worker[w] EXCEPT !.plan = Tail(@)]

(* The controller condition is True unless the client could not be made or *)
(* Validate said Error; Unknown counts as valid, with or without an error. *)
StoreReady(w) == worker[w].pc = "done" /\ worker[w].role = "store" /\ worker[w].result \in {"Ready", "Unknown"}

Failed(w) ==
    IF worker[w].pc = "validate"
    THEN {[worker[w] EXCEPT !.pc = "done", !.result = r] : r \in WhenCallFails(prov)}
    ELSE {[worker[w] EXCEPT !.pc = "done", !.result = "Error"]}
Fail(w) == \E new \in Failed(w) : Only(w, new)

(* The answers of the API server.                                          *)
Answers(w) ==
    LET st == Step(w)
    IN  IF st.ns = "" \/ ~IsSet(Mine(w), st.field) THEN {"absent"}
        ELSE IF st.kind = "Token" THEN {"absent", "value"}
        ELSE {"absent", "nokey", "empty", "value"}
Keep(w, st, val) ==
    [Advance(w) EXCEPT !.held[st.field] =
        [store |-> worker[w].store, ns |-> st.ns, from |-> st.field, val |-> val]]

Read(w) ==
    /\ Doing(w, "read")
    /\ \E ans \in Answers(w) :
        LET st   == Step(w)
            val  == IF ans = "value" THEN "value" ELSE "empty"
            note(new) == [new EXCEPT !.reads = @ \cup {<<st.kind, st.ns>>}]
        IN  IF st.need = "try"
            THEN Only(w, note(IF ans = "value" THEN [Keep(w, st, val) EXCEPT !.plan = Tail(@)]
                                               ELSE Advance(w)))
            ELSE IF ans = "absent" \/ (ans = "nokey" /\ st.need = "present")
            THEN \E new \in Failed(w) : Only(w, note(new))
            ELSE Only(w, note(Keep(w, st, val)))
    /\ UNCHANGED <<prov, stores, receiver, getter>>

TakeFrom(w) ==
    /\ Doing(w, "take")
    /\ \E val \in {"value", "empty"} :
        LET st == Step(w)
        IN  Only(w, [Advance(w) EXCEPT !.held[st.field] =
                        [worker[w].held[st.from] EXCEPT !.val = val]])
    /\ UNCHANGED <<prov, stores, receiver, getter>>

CheckValue(w) ==
    /\ Doing(w, "check")
    /\ IF worker[w].held[Step(w).field].val = "value" THEN Only(w, Advance(w)) ELSE Fail(w)
    /\ UNCHANGED <<prov, stores, receiver, getter>>

(* The credentials a client works with.                                    *)
Effective(w) ==
    IF worker[w].pc = "new" THEN worker[w].held
    ELSE IF prov \in Singletons THEN receiver
    ELSE IF prov = "yandex" THEN [worker[w].held EXCEPT !["ca"] = getter["ca"]]
    ELSE worker[w].held

(* Calls: any may fail, and no backend lets one in without a credential    *)
(* that the store refers to. (The third one is optional everywhere.)       *)
Accepted(w) == \A f \in {"a", "b", "sa"} : Effective(w)[f].val # "empty"
CallOk(w) ==
    /\ Doing(w, "call") \/ (Doing(w, "login") /\ Accepted(w))
    /\ Only(w, Advance(w))
    /\ UNCHANGED <<prov, stores, receiver, getter>>
CallFails(w) ==
    /\ Doing(w, "call") \/ Doing(w, "login")
    /\ Fail(w)
    /\ UNCHANGED <<prov, stores, receiver, getter>>

(* A store whose spec does not do, and one that crashes the process.       *)
Refuse(w) ==
    /\ Doing(w, "specerror") \/ Doing(w, "panic")
    /\ Only(w, [worker[w] EXCEPT !.pc = "done", !.result = Step(w).do])
    /\ UNCHANGED <<prov, stores, receiver, getter>>

Placeholder(w) ==
    /\ Doing(w, "placeholder")
    /\ Only(w, [Advance(w) EXCEPT !.deferred = TRUE])
    /\ UNCHANGED <<prov, stores, receiver, getter>>

(* The fields of the registered provider are overwritten, here in one step *)
(* (GitLab and 1Password assign them one by one).                          *)
(* Mutant: only the first client sets them.                                *)
SharesOnce(w) ==
    /\ receiver' = IF receiver = NoCreds THEN worker[w].held ELSE receiver
    /\ worker' = [worker EXCEPT ![w] = Advance(w)]

Publish(w) ==
    /\ receiver' = worker[w].held
    /\ worker' = [v \in Workers |->
                    IF v = w THEN Advance(w)
                    ELSE [worker[v] EXCEPT !.rebound = @ \/ worker[v].pc \in {"validate", "use"}
                                                         \/ (worker[v].pc = "new" /\ worker[v].plan = <<>>)]]
Share(w) ==
    /\ Doing(w, "share")
    /\ Publish(w)
    /\ UNCHANGED <<prov, stores, getter>>

(* getOrCreateSecretGetter: under its mutex.                               *)
GetOrCreateSecretGetter(w) ==
    /\ Doing(w, "getter")
    /\ \/ /\ getter # NoCreds
          /\ Only(w, [Advance(w) EXCEPT !.rebound = getter["ca"].store # worker[w].store])
          /\ UNCHANGED getter
       \/ /\ getter = NoCreds
          /\ getter' = worker[w].held
          /\ Only(w, Advance(w))
       \/ /\ getter = NoCreds
          /\ Fail(w)
          /\ UNCHANGED getter
    /\ UNCHANGED <<prov, stores, receiver>>

(* The client is made: the store's controller validates it, the others     *)
(* use it.                                                                 *)
Made(w) ==
    /\ worker[w].pc = "new" /\ worker[w].plan = <<>>
    /\ LET s == Mine(w)
           n == worker[w].ns
       IN  Only(w, IF worker[w].role = "secret"
                   THEN [worker[w] EXCEPT !.pc = "use", !.plan = UseClient(prov, s, n)]
                   ELSE IF Defers(prov, s, worker[w].deferred)
                   THEN [worker[w] EXCEPT !.pc = "done", !.result = "Unknown"]
                   ELSE [worker[w] EXCEPT !.pc = "validate", !.plan = ValidateCalls(prov, s, n)])
    /\ UNCHANGED <<prov, stores, receiver, getter>>

Finish(w) ==
    /\ worker[w].pc \in {"validate", "use"} /\ worker[w].plan = <<>>
    /\ Only(w, [worker[w] EXCEPT !.pc = "done", !.held = Effective(w),
                    !.result = IF worker[w].role = "store" THEN "Ready" ELSE "Used"])
    /\ UNCHANGED <<prov, stores, receiver, getter>>

---------------------------------------------------------------------------
(* The stores: created while the validating webhook was there or not. The  *)
(* second one matters only where clients share something.                  *)
NamedIn(p, m, ca) ==
    LET refs == References(p, m) \cup (IF ca \in {"Secret", "ConfigMap"} THEN {"ca"} ELSE {})
    IN  {[f \in Fields |-> IF f \in refs THEN g[f] ELSE "unset"] :
            g \in {h \in [refs -> {"unset", "nil"} \cup Namespaces] :
                      "ca" \in refs => h["ca"] # "unset"}}
StoresOf(p) ==
    UNION {UNION {{[kind |-> k, method |-> m, ns |-> ns, ca |-> ca, plain |-> pl] :
                       k \in (IF p \in Generators THEN {"Generator"}
                              ELSE {"SecretStore", "ClusterSecretStore"}),
                       ns \in NamedIn(p, m, ca), pl \in BOOLEAN} :
                  ca \in CAKinds(p, m)} : m \in Methods(p)}

Init ==
    /\ prov \in AuthProviders
    /\ \E x \in StoresOf(prov) :
        IF prov \in Singletons \cup {"yandex"}
        THEN \E y \in StoresOf(prov) :
                /\ ValidateStore(prov, y) /\ y.plain /\ y.ca = x.ca
                /\ \A f \in Fields : IsSet(y, f) <=> IsSet(x, f)
                /\ \A f \in Fields : HasNs(y, f) => y.ns[f] = "n2"
                /\ stores = [id \in StoreIds |-> IF id = "s1" THEN x ELSE y]
        ELSE stores = [id \in StoreIds |-> x]
    /\ worker = [w \in Workers |-> Idle]
    /\ receiver = NoCreds /\ getter = NoCreds

Next ==
    \E w \in Workers :
        \/ Start(w) \/ Read(w) \/ TakeFrom(w) \/ CheckValue(w) \/ CallOk(w) \/ CallFails(w)
        \/ Refuse(w) \/ Placeholder(w) \/ Share(w) \/ GetOrCreateSecretGetter(w)
        \/ Made(w) \/ Finish(w)

Spec == Init /\ [][Next]_vars

---------------------------------------------------------------------------
Admitted(w) == ValidateStore(prov, Mine(w))
Succeeded(w) == worker[w].pc = "done" /\ worker[w].result \in {"Ready", "Used"}

(* Vault, Akeyless and webhook stores look for a CA ConfigMap in the       *)
(* namespace their spec names, even in a SecretStore, and in none          *)
(* otherwise.                                                              *)
AnyNamespaceCA == {"vault", "vaultds", "akeyless", "webhook"}

(* Nothing is read outside the namespace of the reconcile, except in the   *)
(* namespaces that a ClusterSecretStore itself names: a SecretStore and a  *)
(* generator never reach into another namespace, whatever their spec says  *)
(* and whether or not the webhook saw it.                                  *)
OwnNamespaces ==
    \A w \in Workers : \A r \in worker[w].reads :
        \/ r[2] = worker[w].ns
        \/ Cluster(Mine(w)) /\ \E f \in Fields : HasNs(Mine(w), f) /\ r[2] = Mine(w).ns[f]
        \/ r[1] = "ConfigMap" /\ prov \in AnyNamespaceCA

(* While a ClusterSecretStore that takes its credentials from the          *)
(* namespace of each ExternalSecret is validated, there is no such         *)
(* namespace: no admitted store is looked up without one. (Vault forgets   *)
(* the namespace of the client certificate, Akeyless has no such check for *)
(* the Secrets it reads only when used, and see AnyNamespaceCA.)           *)
DefersReferent ==
    \A w \in Workers : Admitted(w) =>
        \A r \in worker[w].reads :
            r[2] = "" => \/ r[1] = "ConfigMap" /\ prov \in AnyNamespaceCA
                         \/ prov = "vault" /\ Mine(w).method = "cert"

(* All lookups stay where the store may look, and none goes nowhere.       *)
Confined == OwnNamespaces /\ DefersReferent

(* The credentials a client ends up working with are those its own store   *)
(* refers to, read where the store says, as long as no other client of a   *)
(* provider that keeps one client for all was made in between.             *)
TakenFrom(p, f) ==
    IF p \in {"alibaba", "onboardbase"} /\ f = "b" THEN "a"
    ELSE IF p = "akeyless" /\ f = "c" THEN "b" ELSE f
Designated(w, f) == InReferent(Mine(w), worker[w].ns, f)
UsesOwn(w) ==
    \A f \in Fields :
        LET c == worker[w].held[f]
        IN  c # Nothing =>
                /\ c.store = worker[w].store
                /\ c.from = TakenFrom(prov, f)
                /\ c.ns = Designated(w, c.from) \/ (f = "ca" /\ prov \in AnyNamespaceCA)
OwnCredentials == \A w \in Workers : Succeeded(w) /\ ~worker[w].rebound => UsesOwn(w)

(* A store whose condition says Ready either leaves its credentials to     *)
(* each ExternalSecret, or every Secret and ServiceAccount it refers to    *)
(* was found with a value. (Akeyless and webhook stores read nothing until *)
(* they are used.)                                                         *)
ReadyMeansUsable ==
    \A w \in Workers : StoreReady(w) =>
        \/ prov \in Lazy
        \/ worker[w].result = "Unknown" /\ Defers(prov, Mine(w), worker[w].deferred)
        \/ \A f \in References(prov, Mine(w).method) \ {"c"} :
                IsSet(Mine(w), f) => worker[w].held[f].val = "value"

(* A store the webhook let in is never refused, and never crashes the      *)
(* process, because of its spec, for the providers whose ValidateStore     *)
(* checks all that NewClient needs.                                        *)
Thorough == {"oracle", "gitlab", "alibaba", "ibm", "onepassword", "keeper", "doppler", "onboardbase"}
AdmittedRuns ==
    \A w \in Workers :
        Admitted(w) /\ prov \in Thorough => worker[w].result \notin {"specerror", "panic"}
===========================================================================
