----------------------------- MODULE AuthPlans -----------------------------
(***************************************************************************)
(* How a store becomes credentials: for each provider of pkg/provider and  *)
(* each generator of pkg/generator, the checks of ValidateStore, the steps *)
(* of NewClient (or Generate), those taken later when a client needs its   *)
(* credentials, and those of Validate.                                     *)
(*                                                                         *)
(* A store is [kind, method, ns, ca, plain]. method is the authentication  *)
(* method of its spec. Its references are the fields "a", "b", "c" (Secret *)
(* keys, in the order the code reads them), "sa" (a ServiceAccount) and    *)
(* "ca" (the CA provider's object); ns gives the namespace written in each *)
(* reference, "nil" when there is none and "unset" when the reference      *)
(* itself is missing or has no name. ca is the kind of CA provider. plain  *)
(* says that the fields that are no references (region, project, tenant,   *)
(* URL and the like) are complete.                                         *)
(***************************************************************************)
EXTENDS Naturals, Sequences, FiniteSets

Fields == {"a", "b", "c", "sa", "ca"}

IsSet(s, f)  == s.ns[f] # "unset"
HasNs(s, f) == s.ns[f] \notin {"nil", "unset"}
Cluster(s)  == s.kind = "ClusterSecretStore"

---------------------------------------------------------------------------
(* A step of a plan. A read is one request to the API server for field's   *)
(* object in namespace ns: need "present" fails when the key is missing,   *)
(* "lax" only when the object is; "try" goes on without the object and     *)
(* skips the next step when it is there. check fails when a value is       *)
(* empty; take finds field's key in the object read for from; login        *)
(* presents the credentials to the backend, call asks something that does  *)
(* not depend on them; share and getter publish the client in the          *)
(* registered provider.                                                    *)
Blank == [do |-> "call", kind |-> "", field |-> "a", ns |-> "", need |-> "", from |-> "a"]
Do(d) == <<[Blank EXCEPT !.do = d]>>
Reading(kind, f, n, need) ==
    <<[Blank EXCEPT !.do = "read", !.kind = kind, !.field = f, !.ns = n, !.need = need]>>
Check(f) == <<[Blank EXCEPT !.do = "check", !.field = f]>>
Take(f, from) == <<[Blank EXCEPT !.do = "take", !.field = f, !.from = from]>>
SpecError == Do("specerror")

(* The namespace of a reference: a ClusterSecretStore may name one, else   *)
(* it is the namespace of the ExternalSecret ...                           *)
InReferent(s, n, f) == IF Cluster(s) /\ HasNs(s, f) THEN s.ns[f] ELSE n

(* ... or must name one.                                                   *)
Strictly(s, n, f, need) ==
    IF Cluster(s) /\ ~HasNs(s, f) THEN SpecError
    ELSE Reading("Secret", f, IF Cluster(s) THEN s.ns[f] ELSE n, need)

(* A Secret of the store, whose reference must have a name.                *)
Named(s, f, steps) == IF IsSet(s, f) THEN steps ELSE SpecError

---------------------------------------------------------------------------
(* pkg/utils: the selector checks of the validating webhook.               *)
(* Mutant: the check for referent stores used where a namespace is needed. *)
AcceptsNoNamespace(s, f) == ~Cluster(s) => ~HasNs(s, f)

ValidateSecretSelector(s, f) == Cluster(s) <=> HasNs(s, f)

ValidateReferentSecretSelector(s, f) == ~Cluster(s) => ~HasNs(s, f)
ValidateReferentServiceAccountSelector(s, f) == ~Cluster(s) => ~HasNs(s, f)

---------------------------------------------------------------------------
(* The CA provider of Vault, Akeyless and webhook stores: a ConfigMap is   *)
(* looked for in the namespace written there, whatever the kind of store.  *)
getCertFromConfigMap(s) ==
    Reading("ConfigMap", "ca", IF HasNs(s, "ca") THEN s.ns["ca"] ELSE "", "present")
CAPool(s, secret) ==
    IF s.ca \in {"none", "bundle"} THEN <<>>
    ELSE IF Cluster(s) /\ ~HasNs(s, "ca") THEN SpecError
    ELSE (IF s.ca = "Secret" THEN secret ELSE getCertFromConfigMap(s)) \o Check("ca")

---------------------------------------------------------------------------
(* AWS Secrets Manager and Parameter Store (aws/auth).                     *)
AWSValidateStore(s) ==
    /\ s.plain
    /\ \A f \in {"a", "b", "c"} : ValidateReferentSecretSelector(s, f)
    /\ ValidateReferentServiceAccountSelector(s, "sa")

UsesJWT(s)    == s.method \in {"jwt", "both"}
UsesStatic(s) == s.method \in {"static", "both"}

AWSIsReferentSpec(s) ==
    \/ UsesJWT(s) /\ s.ns["sa"] = "nil"
    \/ UsesStatic(s) /\ (~HasNs(s, "a") \/ ~HasNs(s, "b") \/ s.ns["c"] = "nil")

credsFromSecretRef(s, n) ==
    LET get(f) == Reading("Secret", f, InReferent(s, n, f), "lax")
    IN  get("a") \o get("b") \o Check("b") \o Check("a")
        \o (IF IsSet(s, "c") THEN get("c") ELSE <<>>)

(* The role's annotation is read now, the token only when it is needed.    *)
credsFromServiceAccount(s, n) ==
    IF IsSet(s, "sa")
    THEN Reading("ServiceAccount", "sa", InReferent(s, n, "sa"), "present") \o Check("sa")
    ELSE Do("panic")
FetchToken(s, n) ==
    IF UsesJWT(s) THEN Reading("Token", "sa", InReferent(s, n, "sa"), "present") ELSE <<>>

AWSNewSession(s, n) ==
    (IF UsesJWT(s) THEN credsFromServiceAccount(s, n) ELSE <<>>)
    \o (IF UsesStatic(s) THEN credsFromSecretRef(s, n) ELSE <<>>)
    \o Do("call")

AWSNewClient(s, n) ==
    IF AWSIsReferentSpec(s) /\ n = "" /\ Cluster(s) THEN Do("placeholder")
    ELSE AWSNewSession(s, n)

AWSValidate(s, n) == FetchToken(s, n) \o Do("login")

(* pkg/generator/ecr: never a cluster store.                               *)
ECRGenerate(s, n) == AWSNewSession(s, n) \o FetchToken(s, n) \o Do("login")

---------------------------------------------------------------------------
(* Azure Key Vault.                                                        *)
AzureValidateStore(s) ==
    /\ ValidateReferentSecretSelector(s, "a")
    /\ ValidateReferentSecretSelector(s, "b")
    /\ ValidateReferentServiceAccountSelector(s, "sa")

AzureIsReferentSpec(s) == \E f \in {"a", "b", "sa"} : s.ns[f] = "nil"

AzureSecretKeyRef(s, n, f) == Reading("Secret", f, InReferent(s, n, f), "present")
FetchSAToken(ns) == Reading("Token", "sa", ns, "present")

authorizerForWorkloadIdentity(s, n) ==
    (IF IsSet(s, "sa")
     THEN Reading("ServiceAccount", "sa", InReferent(s, n, "sa"), "present")
          \o FetchSAToken(InReferent(s, n, "sa"))
     ELSE Do("call"))
    \o Do("login")
authorizerForServicePrincipal(s, n) ==
    IF ~s.plain \/ ~IsSet(s, "a") \/ ~IsSet(s, "b") THEN SpecError
    ELSE AzureSecretKeyRef(s, n, "a") \o AzureSecretKeyRef(s, n, "b") \o Do("login")

AzureNewClient(s, n) ==
    IF Cluster(s) /\ n = "" /\ AzureIsReferentSpec(s) THEN Do("placeholder")
    ELSE CASE s.method = "none" -> Do("panic")
           [] s.method = "mi"   -> Do("call")
           [] s.method = "sp"   -> authorizerForServicePrincipal(s, n)
           [] s.method = "wi"   -> authorizerForWorkloadIdentity(s, n)

AzureValidate(s) == Cluster(s) /\ AzureIsReferentSpec(s)

(* pkg/generator/acr: an AAD token, traded for a refresh token and that    *)
(* for an access token.                                                    *)
accessTokenForWorkloadIdentity(s, n) ==
    (IF IsSet(s, "sa")
     THEN Reading("ServiceAccount", "sa", n, "present") \o FetchSAToken(n)
     ELSE Do("call"))
    \o Do("login")
accessTokenForServicePrincipal(n) ==
    Reading("Secret", "a", n, "present") \o Reading("Secret", "b", n, "present") \o Do("login")
fetchACRRefreshToken == Do("call")
fetchACRAccessToken  == Do("call")
ACRGenerate(s, n) ==
    (CASE s.method = "sp"   -> accessTokenForServicePrincipal(n)
       [] s.method = "mi"   -> Do("call")
       [] s.method = "wi"   -> accessTokenForWorkloadIdentity(s, n)
       [] s.method = "none" -> SpecError)
    \o fetchACRRefreshToken \o fetchACRAccessToken

---------------------------------------------------------------------------
(* GCP Secret Manager, and the generator of GCR tokens.                    *)
GCPValidateStore(s) ==
    ValidateReferentSecretSelector(s, "a") /\ ValidateReferentServiceAccountSelector(s, "sa")

GCPIsReferentSpec(s) ==
    (s.method = "key" /\ ~HasNs(s, "a")) \/ (s.method = "wi" /\ ~HasNs(s, "sa"))

serviceAccountTokenSource(s, n) ==
    Reading("Secret", "a", InReferent(s, n, "a"), "lax") \o Check("a")
GCPTokenSource(s, n) ==
    Reading("ServiceAccount", "sa", InReferent(s, n, "sa"), "lax")
    \o FetchSAToken(InReferent(s, n, "sa")) \o Do("login")
NewTokenSource(s, n) ==
    (CASE s.method = "key"     -> serviceAccountTokenSource(s, n)
       [] s.method = "wi"      -> Do("call") \o GCPTokenSource(s, n)
       [] s.method = "default" -> Do("call"))
    \o Do("login")

GCPNewClient(s, n) ==
    IF ~s.plain THEN SpecError
    ELSE IF n = "" /\ Cluster(s) /\ GCPIsReferentSpec(s) THEN Do("placeholder")
    ELSE NewTokenSource(s, n)

GCPValidate(s) == Cluster(s) /\ GCPIsReferentSpec(s)

---------------------------------------------------------------------------
(* Kubernetes.                                                             *)
KubernetesValidateStore(s) ==
    /\ s.ca # "none"
    /\ Cluster(s) /\ s.ca \in {"Secret", "ConfigMap"} => HasNs(s, "ca")
    /\ s.method \in {"cert", "token"} => IsSet(s, "a") /\ ValidateSecretSelector(s, "a")
    /\ ValidateReferentServiceAccountSelector(s, "sa")

KubernetesIsReferentSpec(s) ==
    \/ s.method = "cert" /\ (~HasNs(s, "a") \/ ~HasNs(s, "b"))
    \/ s.method = "sa" /\ ~HasNs(s, "sa")
    \/ s.method = "token" /\ ~HasNs(s, "a")

(* Mutant: an empty value is taken for a credential.                       *)
FetchesEmpty(s, n, f) == Strictly(s, n, f, "present")

fetchSecretKey(s, n, f) == Strictly(s, n, f, "present") \o Check(f)
fetchConfigMapKey(s, n) ==
    IF Cluster(s) /\ ~HasNs(s, "ca") THEN SpecError
    ELSE Reading("ConfigMap", "ca", IF Cluster(s) THEN s.ns["ca"] ELSE n, "present") \o Check("ca")
setCA(s, n) ==
    CASE s.ca = "none"      -> SpecError
      [] s.ca = "bundle"    -> <<>>
      [] s.ca = "ConfigMap" -> fetchConfigMapKey(s, n)
      [] s.ca = "Secret"    -> fetchSecretKey(s, n, "ca")
KubernetesServiceAccountToken(s, n) ==
    Reading("Token", "sa", InReferent(s, n, "sa"), "present")
setClientCert(s, n) == fetchSecretKey(s, n, "a") \o fetchSecretKey(s, n, "b")
KubernetesSetAuth(s, n) ==
    setCA(s, n) \o
    CASE s.method = "token" -> fetchSecretKey(s, n, "a")
      [] s.method = "sa"    -> KubernetesServiceAccountToken(s, n)
      [] s.method = "cert"  -> setClientCert(s, n)
      [] s.method = "none"  -> SpecError
KubernetesNewClient(s, n) ==
    IF Cluster(s) /\ n = "" /\ KubernetesIsReferentSpec(s) THEN Do("placeholder")
    ELSE KubernetesSetAuth(s, n)

KubernetesValidate(s) == Cluster(s) /\ KubernetesIsReferentSpec(s)

---------------------------------------------------------------------------
(* Vault, and the generator of Vault's dynamic secrets.                    *)
VaultSecret   == {"token", "approle", "kubesecret", "ldap", "jwt", "cert"}
VaultAccount  == {"kubesa", "jwtsa"}

VaultValidateStore(s) ==
    /\ \A f \in {"a", "b"} : ValidateReferentSecretSelector(s, f)
    /\ ValidateReferentServiceAccountSelector(s, "sa")
    /\ s.method # "jwtnone"

(* The client certificate's own namespace ("b") is not looked at.          *)
VaultIsReferentSpec(s) ==
    \/ s.method \in VaultSecret /\ ~HasNs(s, "a")
    \/ s.method \in VaultAccount /\ ~HasNs(s, "sa")

(* Mutant: the namespace of a reference counts in every kind of store.     *)
ReadsNamedNamespace(s, n, f) ==
    Reading("Secret", f, IF HasNs(s, f) THEN s.ns[f] ELSE n, "present")

VaultSecretKeyRef(s, n, f) == Reading("Secret", f, InReferent(s, n, f), "present")
VaultServiceAccountToken(s, n) == Reading("Token", "sa", InReferent(s, n, "sa"), "present")

(* The ServiceAccount's token Secret, else a token from the TokenRequest   *)
(* API.                                                                    *)
secretKeyRefForServiceAccount(s, n) == Reading("Secret", "sa", InReferent(s, n, "sa"), "try")
getJwtString(s, n) ==
    CASE s.method = "kubesa"     -> secretKeyRefForServiceAccount(s, n) \o VaultServiceAccountToken(s, n)
      [] s.method = "kubesecret" -> VaultSecretKeyRef(s, n, "a")
      [] s.method = "kubefile"   -> Do("call")

setSecretKeyToken(s, n)             == VaultSecretKeyRef(s, n, "a")
requestTokenWithAppRoleRef(s, n)    == VaultSecretKeyRef(s, n, "a") \o Do("login")
requestTokenWithKubernetesAuth(s, n) == getJwtString(s, n) \o Do("login")
requestTokenWithLdapAuth(s, n)      == VaultSecretKeyRef(s, n, "a") \o Do("login")
requestTokenWithJwtAuth(s, n) ==
    (CASE s.method = "jwt"     -> VaultSecretKeyRef(s, n, "a")
       [] s.method = "jwtsa"   -> VaultServiceAccountToken(s, n)
       [] s.method = "jwtnone" -> SpecError)
    \o Do("login")
requestTokenWithCertAuth(s, n) ==
    VaultSecretKeyRef(s, n, "a") \o VaultSecretKeyRef(s, n, "b") \o Do("login")

VaultSetAuth(s, n) ==
    CASE s.method = "token"   -> setSecretKeyToken(s, n)
      [] s.method = "approle" -> requestTokenWithAppRoleRef(s, n)
      [] s.method \in {"kubesa", "kubesecret", "kubefile"} -> requestTokenWithKubernetesAuth(s, n)
      [] s.method = "ldap"    -> requestTokenWithLdapAuth(s, n)
      [] s.method \in {"jwt", "jwtsa", "jwtnone"} -> requestTokenWithJwtAuth(s, n)
      [] s.method = "cert"    -> requestTokenWithCertAuth(s, n)
      [] s.method = "none"    -> SpecError

VaultNewConfig(s, n) == CAPool(s, VaultSecretKeyRef(s, n, "ca"))
initClient(s, n) ==
    IF Cluster(s) /\ n = "" /\ VaultIsReferentSpec(s) THEN Do("placeholder") ELSE VaultSetAuth(s, n)
VaultNewClient(s, n) == VaultNewConfig(s, n) \o Do("call") \o initClient(s, n)

VaultValidate(s) == Cluster(s) /\ VaultIsReferentSpec(s)

VaultGenerate(s, n) == VaultNewClient(s, n) \o Do("call")

---------------------------------------------------------------------------
(* Akeyless: the credentials are read at every use of the client.          *)
AkeylessValidateStore(s) ==
    CASE s.method = "none" -> FALSE
      [] s.method = "secret" ->
            \A f \in {"a", "b", "c"} : ValidateSecretSelector(s, f) /\ (f = "a" => IsSet(s, f))
      [] OTHER -> /\ ValidateReferentServiceAccountSelector(s, "sa")
                  /\ s.method = "kubesecret" => ValidateSecretSelector(s, "a")
                  /\ s.plain

AkeylessSecretKeyRef(s, n, f) == Reading("Secret", f, InReferent(s, n, f), "present")
AkeylessHTTPClient(s, n) == CAPool(s, AkeylessSecretKeyRef(s, n, "ca"))
AkeylessNewClient(s, n) == IF s.method = "none" THEN SpecError ELSE AkeylessHTTPClient(s, n)

getJWTFromServiceAccount(s, n) == Reading("Secret", "sa", InReferent(s, n, "sa"), "try")
getJWTfromServiceAccountToken(s, n) == Reading("Token", "sa", InReferent(s, n, "sa"), "present")
getK8SServiceAccountJWT(s, n) ==
    CASE s.method = "kubesa" -> getJWTFromServiceAccount(s, n) \o getJWTfromServiceAccountToken(s, n)
      [] s.method = "kubesecret" -> AkeylessSecretKeyRef(s, n, "a")
      [] s.method = "kubefile" -> Do("call")

(* The Secret of the access type's parameter is fetched from the namespace *)
(* of the access type, and the parameter is then taken from the Secret of  *)
(* the access type.                                                        *)
TokenFromSecretRef(s, n) ==
    (IF s.method # "secret" THEN getK8SServiceAccountJWT(s, n)
     ELSE Strictly(s, n, "a", "lax") \o Strictly(s, n, "b", "lax")
          \o (IF Cluster(s) /\ ~HasNs(s, "b") THEN SpecError
              ELSE Reading("Secret", "c", IF Cluster(s) THEN s.ns["b"] ELSE n, "lax"))
          \o Take("c", "b") \o Check("a") \o Check("b"))
    \o Do("login")

---------------------------------------------------------------------------
(* Webhook: likewise, and any store is accepted.                           *)
WebhookValidateStore(s) == TRUE
WebhookSecretKeyRef(s, n, f) == Reading("Secret", f, InReferent(s, n, f), "lax")
WebhookNewClient(s, n) == CAPool(s, WebhookSecretKeyRef(s, n, "ca"))
getStoreSecret(s, n) == Strictly(s, n, "a", "lax")

---------------------------------------------------------------------------
(* The providers that read one Secret, or two, in NewClient.               *)
OracleValidateStore(s) ==
    /\ s.plain
    /\ s.method = "user" => \A f \in {"a", "b"} : IsSet(s, f) /\ ValidateSecretSelector(s, f)
getSecretData(s, n, f) == Named(s, f, Strictly(s, n, f, "lax"))
getUserAuthConfigurationProvider(s, n) ==
    getSecretData(s, n, "a") \o Check("a") \o getSecretData(s, n, "b") \o Check("b")
OracleNewClient(s, n) ==
    IF ~s.plain THEN SpecError
    ELSE (IF s.method = "user" THEN getUserAuthConfigurationProvider(s, n) ELSE <<>>) \o Do("call")

GitlabValidateStore(s) == ValidateSecretSelector(s, "a") /\ IsSet(s, "a") /\ s.plain
GitlabSetAuth(s, n) == Named(s, "a", Strictly(s, n, "a", "lax") \o Check("a"))
GitlabNewClient(s, n) == GitlabSetAuth(s, n) \o Do("call") \o Do("share")

(* The second key is looked up in the first key's Secret; of its own       *)
(* reference only the namespace is checked.                                *)
AlibabaValidateStore(s) ==
    s.plain /\ \A f \in {"a", "b"} : ValidateSecretSelector(s, f) /\ IsSet(s, f)
AlibabaSetAuth(s, n) ==
    Named(s, "a",
        Strictly(s, n, "a", "lax")
        \o (IF Cluster(s) /\ ~HasNs(s, "b") THEN SpecError ELSE <<>>)
        \o Check("a") \o Take("b", "a") \o Check("b"))
AlibabaNewClient(s, n) == AlibabaSetAuth(s, n) \o Do("call") \o Do("share")

IBMValidateStore(s) ==
    /\ s.plain
    /\ s.method = "apikey" => ValidateSecretSelector(s, "a") /\ IsSet(s, "a")
IBMSetAuth(s, n) == Named(s, "a", Strictly(s, n, "a", "lax") \o Check("a"))
IBMNewClient(s, n) ==
    (IF s.method = "container" THEN Do("call") ELSE IBMSetAuth(s, n))
    \o (IF s.plain THEN <<>> ELSE Do("panic")) \o Do("call") \o Do("share")

OnePasswordValidateStore(s) == IsSet(s, "a") /\ ValidateSecretSelector(s, "a") /\ s.plain
OnePasswordNewClient(s, n) ==
    (IF Cluster(s) /\ ~HasNs(s, "a") THEN Do("panic") ELSE Strictly(s, n, "a", "lax"))
    \o Check("a") \o Do("share")

SenhaseguraValidateStore(s) == s.plain

getKubernetesSecret(s, n) == Strictly(s, n, "a", "lax")
GetIsoToken(s) == IF s.plain THEN Do("login") ELSE Do("panic")
SenhaseguraNewClient(s, n) == getKubernetesSecret(s, n) \o GetIsoToken(s)

KeeperValidateStore(s) == ValidateSecretSelector(s, "a") /\ s.plain
getKeeperSecurityAuth(s, n) ==
    (IF IsSet(s, "a") THEN Strictly(s, n, "a", "lax") ELSE Reading("Secret", "a", n, "lax"))
    \o Check("a")

DopplerValidateStore(s) == ValidateSecretSelector(s, "a") /\ IsSet(s, "a")
DopplerSetAuth(s, n) == Named(s, "a", Strictly(s, n, "a", "lax") \o Check("a"))
DopplerNewClient(s, n) == DopplerSetAuth(s, n) \o Do("call")

(* The passcode too is looked up in the API key's Secret.                  *)
OnboardbaseValidateStore(s) == ValidateSecretSelector(s, "a") /\ IsSet(s, "a")
OnboardbaseSetAuth(s, n) ==
    Named(s, "a", Strictly(s, n, "a", "lax") \o Check("a") \o Take("b", "a") \o Check("b"))
OnboardbaseNewClient(s, n) == OnboardbaseSetAuth(s, n) \o Do("call")

(* Yandex Lockbox and Certificate Manager.                                 *)
YandexAdaptInput(s) == IsSet(s, "a")
newIamToken == Do("login")
YandexNewClient(s, n) ==
    (IF ~YandexAdaptInput(s) THEN SpecError
     ELSE Strictly(s, n, "a", "lax") \o Check("a")
          \o (IF s.ca = "Secret" THEN Strictly(s, n, "ca", "lax") \o Check("ca") ELSE <<>>))
    \o Do("getter") \o newIamToken
===========================================================================
