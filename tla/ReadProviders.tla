--------------------------- MODULE ReadProviders ---------------------------
(***************************************************************************)
(* The read-only providers: what GetSecret, GetSecretMap and GetAllSecrets *)
(* make of the answers of the remote API. One operator per method; ans is  *)
(* the answer of the call the method makes, ref the request's reference,   *)
(* snapshot the secrets a listing returns.                                 *)
(***************************************************************************)
EXTENDS ProviderBase

---------------------------------------------------------------------------
(* Doppler. performRequest takes every 2xx and 3xx status for a success    *)
(* and leaves it to the caller to parse the body. The property of the      *)
(* reference is not used.                                                  *)
DopplerRequest(ans) == ans.st \in {"ok", "garbled"}

DopplerAPIGet(ans) ==
    IF DopplerRequest(ans) /\ ans.st # "garbled" THEN Single(Raw(ans.item)) ELSE Error

DopplerGetSecret(ans, ref) == DopplerAPIGet(ans)
DopplerGetSecretMap(ans, ref) == RawMap(DopplerGetSecret(ans, ref))

DopplerAPIList(st, snapshot) ==
    IF DopplerRequest(Answer(st, Absent)) /\ st # "garbled"
    THEN Pick(Present(snapshot), snapshot)
    ELSE Error

(* name and path select from the whole configuration; tags are not used.   *)
DopplerGetAllSecrets(st, snapshot) ==
    LET all == DopplerAPIList(st, snapshot)
    IN  IF all.out # "ok" THEN all
        ELSE Pick(MatchName(DOMAIN all.data), snapshot)

---------------------------------------------------------------------------
(* Onboardbase. One call returns all secrets encrypted; when one of them   *)
(* can not be decrypted ("garbled") getSecretsFromPayload returns no map,  *)
(* and both of its callers drop its error.                                 *)
OnboardbaseRequest(ans) == ans.st \in {"ok", "notfound", "garbled"}

getSecretsFromPayload(st, snapshot) ==
    IF st = "garbled" THEN NoData ELSE Pick(Present(snapshot), snapshot)

(* A missing secret and one with an empty value are the same error.        *)
OnboardbaseAPIGet(ans) ==
    IF OnboardbaseRequest(ans) /\ ans.st = "ok" /\ ans.item.shape # "empty"
    THEN Single(Raw(ans.item)) ELSE Error

OnboardbaseGetSecret(ans, ref) == OnboardbaseAPIGet(ans)
OnboardbaseGetSecretMap(ans, ref) == RawMap(OnboardbaseGetSecret(ans, ref))

OnboardbaseAPIList(st, snapshot) ==
    IF OnboardbaseRequest(Answer(st, Absent))
    THEN getSecretsFromPayload(st, snapshot)
    ELSE Error

OnboardbaseGetAllSecrets(st, snapshot) ==
    LET all == OnboardbaseAPIList(st, snapshot)
    IN  IF all.out # "ok" THEN all
        ELSE Pick(MatchName(DOMAIN all.data), snapshot)

---------------------------------------------------------------------------
(* Alibaba KMS.                                                            *)
AlibabaGetSecret(ans, ref) ==
    IF ans.st # "ok" THEN Error
    ELSE IF ref.prop = "" THEN IF ans.item.shape = "empty" THEN Error ELSE Single(Raw(ans.item))
    ELSE Gjson(ans.item, ref.prop)
AlibabaGetSecretMap(ans, ref) == StringMap(AlibabaGetSecret(ans, ref))

---------------------------------------------------------------------------
(* Oracle Vault: a "garbled" answer is a content of another type than      *)
(* base64, or one that does not decode.                                    *)
OracleGetSecret(ans, ref) ==
    IF ans.st # "ok" THEN Error
    ELSE IF ref.prop = "" THEN Single(Raw(ans.item))
    ELSE Gjson(ans.item, ref.prop)
OracleGetSecretMap(ans, ref) == StringMap(OracleGetSecret(ans, ref))

---------------------------------------------------------------------------
(* Yandex Lockbox: a secret is a list of entries; "garbled" is an entry of *)
(* unknown type, read as binary or as it is. Without a property all        *)
(* entries are returned as one JSON object. "flat" and "deep" have the     *)
(* entry "a", the other shapes no entry of that name.                      *)
getValue(ans) == ans.st # "garbled"
findEntryByKey(it, prop) == IF IsJSON(it) /\ prop = "a" THEN {Part(it, "a")} ELSE {}

LockboxGetSecret(ans, ref) ==
    IF Bad(ans) \/ ans.st = "notfound" \/ ~getValue(ans) THEN Error
    ELSE IF ref.prop = "" THEN Single(Raw(ans.item))
    ELSE IF findEntryByKey(ans.item, ref.prop) = {} THEN Error
         ELSE Single(CHOOSE x \in findEntryByKey(ans.item, ref.prop) : TRUE)
LockboxGetSecretMap(ans, ref) ==
    IF Bad(ans) \/ ans.st = "notfound" \/ ~getValue(ans) THEN Error
    ELSE IF IsJSON(ans.item) THEN Ok(Under("a", Part(ans.item, "a")))
    ELSE NoData

(* Yandex Certificate Manager: the properties are the chain (here "a") and *)
(* the private key; without one both are returned.                         *)
CertificateGetSecret(ans, ref) ==
    IF ans.st # "ok" THEN Error
    ELSE IF ref.prop = "" THEN Single(Raw(ans.item))
    ELSE IF ref.prop = "a" THEN Single(Part(ans.item, "a"))
    ELSE Error
CertificateGetSecretMap(ans, ref) ==
    IF ans.st # "ok" THEN Error
    ELSE Ok([p \in {"a", "key"} |-> Part(ans.item, p)])

---------------------------------------------------------------------------
(* senhasegura DSM: one call returns all secrets of the application. A     *)
(* secret without the property is the same NoSecretErr as no secret, and   *)
(* GetSecretMap of a missing secret is an empty map.                       *)
FetchSecrets(ans) == ans.st \in {"ok", "notfound"}

SenhaseguraGetSecret(ans, ref) ==
    IF ~FetchSecrets(ans) THEN Error
    ELSE IF ans.item = Absent THEN NoSecretErr
    ELSE IF ref.prop = "" THEN Single(Raw(ans.item))
    ELSE LET r == Gjson(ans.item, ref.prop)
         IN  IF r.out = "ok" THEN r ELSE NoSecretErr
SenhaseguraGetSecretMap(ans, ref) ==
    IF ~FetchSecrets(ans) THEN Error
    ELSE IF IsJSON(ans.item) THEN Ok(Under("a", Part(ans.item, "a")))
    ELSE NoData

---------------------------------------------------------------------------
(* Kubernetes: the data of a Secret is a map; GetSecret without a property *)
(* marshals it.                                                            *)
KubernetesGetSecretMap(ans, ref) ==
    IF ans.st = "notfound" THEN NoSecretErr
    ELSE IF ans.st # "ok" THEN Error
    ELSE IF IsJSON(ans.item) THEN Ok(Under("a", Part(ans.item, "a")))
    ELSE NoData
KubernetesGetSecret(ans, ref) ==
    LET m == KubernetesGetSecretMap(ans, ref)
    IN  IF m.out # "ok" THEN m
        ELSE IF ref.prop = "" THEN Single(Raw(ans.item))
        ELSE IF ref.prop \in DOMAIN m.data THEN Single(m.data[ref.prop])
        ELSE Error
(* findByTags and findByName list, select and convert the names.           *)
KubernetesGetAllSecrets(st, strategy, snapshot) ==
    IF st # "ok" THEN Error
    ELSE ConvertKeys(strategy, Pick(MatchName(Present(snapshot)), snapshot))

---------------------------------------------------------------------------
(* Webhook: the endpoint is called with a templated URL; result.jsonPath,  *)
(* templated too, is here the property of the reference. A path that finds *)
(* an object is refused; one that finds a list takes its first element     *)
(* with an unchecked type assertion ("garbled": not a string).             *)
getWebhookData(ans) ==
    CASE ans.st = "notfound" -> NoSecretErr
      [] Bad(ans) -> Error
      [] OTHER -> Single(Raw(ans.item))
WebhookGetSecret(ans, ref) ==
    LET d == getWebhookData(ans)
    IN  IF d.out # "ok" \/ ref.prop = "" THEN d
        ELSE IF ans.st = "garbled" THEN Panic
        ELSE IF ans.item.shape = "flat" THEN Gjson(ans.item, ref.prop)
        ELSE Error
WebhookGetSecretMap(ans, ref) ==
    LET d == getWebhookData(ans)
    IN  IF d.out # "ok" THEN d
        ELSE IF ans.st = "garbled" THEN Error
        ELSE StringMap(d)

---------------------------------------------------------------------------
(* Fake: the data of the store's own spec, kept in a map per store name.   *)
FakeGetSecret(ans, ref) ==
    IF ans.item = Absent THEN NoSecretErr
    ELSE IF ref.prop = "" THEN Single(Raw(ans.item))
    ELSE LET r == Gjson(ans.item, ref.prop)
         IN  IF r.out = "ok" THEN r ELSE NoSecretErr
(* Only data with a valueMap ("flat") can be read as a map.                *)
FakeGetSecretMap(ans, ref) ==
    IF ans.item.shape = "flat" THEN Ok(Under("a", Part(ans.item, "a"))) ELSE NoSecretErr

---------------------------------------------------------------------------
(* Akeyless: GetSecretByType describes the item, then reads it by its      *)
(* type; the property of the reference is not used.                        *)
AkeylessTypes == {"STATIC_SECRET", "DYNAMIC_SECRET", "ROTATED_SECRET", "other"}

DescribeItem(ans) == IF ans.st = "ok" THEN GoOn ELSE Error

(* The reply to a static read may lack the name; a rotated value must be   *)
(* an object; a dynamic value is marshalled whatever it is.                *)
GetStaticSecret(ans) == IF ans.st = "ok" THEN Single(Raw(ans.item)) ELSE Error
GetDynamicSecrets(ans) == IF ans.st = "ok" THEN Single(Raw(ans.item)) ELSE Error
GetRotatedSecrets(ans) == IF ans.st = "ok" THEN Single(Raw(ans.item)) ELSE Error
GetSecretByType(type, ans) ==
    CASE type = "STATIC_SECRET"  -> GetStaticSecret(ans)
      [] type = "DYNAMIC_SECRET" -> GetDynamicSecrets(ans)
      [] type = "ROTATED_SECRET" -> GetRotatedSecrets(ans)
      [] OTHER -> Error

AkeylessGetSecret(type, ans, ref) == GetSecretByType(type, ans)
AkeylessGetSecretMap(type, ans, ref) == StringMap(AkeylessGetSecret(type, ans, ref))

(* ListSecrets, then a read per name; an empty value is left out.          *)
ListSecrets(st, snapshot) == IF st = "ok" THEN Present(snapshot) ELSE {}
AkeylessKeeps(res) == res.data["value"].item.shape # "empty"

---------------------------------------------------------------------------
(* GitLab. A variable of the project is looked for with the environment of *)
(* the client, then with the scope "*"; then the groups are resolved and   *)
(* asked without a scope. The error of the project's answer is replaced by *)
(* that of ResolveGroupIds, and errors of extracting a group's value are   *)
(* dropped: a variable that is nowhere is a nil value without an error. A  *)
(* lost answer leaves resp nil, which is dereferenced, and so is the nil   *)
(* variable of a 2xx answer that can not be decoded ("garbled").           *)
Environments == {"", "*", "prod", "dev"}
isEmptyOrWildcard(env) == env \in {"", "*"}
ScopeOf(it) == IF it.tagged THEN "prod" ELSE "*"

InScope(env, it) == isEmptyOrWildcard(env) \/ ~it.tagged \/ env = "prod"

(* GetVariable of the API, for the project ("own") or the group            *)
(* ("shared"): with a scope, only the variable of exactly that scope.      *)
GetVariable(place, scope, ans) ==
    IF ans.st = "ok" /\ ~(ans.item.place = place /\ scope \in {"", ScopeOf(ans.item)})
    THEN Answer("notfound", Absent) ELSE ans

extractVariable(it, ref) ==
    IF ref.prop = ""
    THEN IF it.shape = "empty" THEN Error ELSE Single(Raw(it))
    ELSE Gjson(it, ref.prop)

(* What the project's last answer comes to. It is kept while the groups    *)
(* are asked, unless the call failed; a nil variable is dereferenced after *)
(* the groups have been resolved.                                          *)
GitlabGetProject(ans, ref) ==
    CASE ans.st \in {"lost", "garbled"} -> Panic
      [] ans.st = "fail" -> Error
      [] ans.st = "ok" -> extractVariable(ans.item, ref)
      [] OTHER -> NilData

(* With inheritFromGroups the groups of the project are listed (one call,  *)
(* one page of groups). Only an error with a status of 400 or more is      *)
(* returned: after a 2xx answer that can not be decoded the client goes on *)
(* with no group (NoData). A list that is given in the store is "ok".      *)
ResolveGroupIds(st) ==
    CASE st = "lost" -> Panic
      [] st = "fail" -> Error
      [] st = "garbled" -> NoData
      [] OTHER -> GoOn

(* A group, asked only when the project gave no value.                     *)
GitlabGetGroup(found, ans, ref) ==
    LET here == IF ans.st = "ok" THEN extractVariable(ans.item, ref) ELSE Error
    IN  CASE ans.st \in {"lost", "garbled"} -> Panic
          [] ans.st = "fail" -> Error
          [] here.out = "ok" -> here
          [] OTHER -> found

GitlabGetSecretMap(res) ==
    IF res = NilData THEN Error ELSE StringMap(res)

(* A find by tags sets the environment, unless both restrict it; "none" is *)
(* a find without tags.                                                    *)
ExtractTag(env, tag) ==
    IF tag # "none" /\ ~isEmptyOrWildcard(env) /\ ~isEmptyOrWildcard(tag) THEN Error ELSE GoOn

(* matchesFilter yields the name "" for a variable that does not match; a  *)
(* group's variable with the scope "*" is stored under it.                 *)
matchesFilter(env, k, it) == InScope(env, it) /\ k \in Matching

GitlabListGroups(env, snapshot) ==
    LET named == {k \in At("shared", snapshot) : matchesFilter(env, k, snapshot[k])}
        rest  == {k \in At("shared", snapshot) \ named : ~snapshot[k].tagged}
    IN  Merge([k \in named |-> Raw(snapshot[k])],
              IF rest = {} THEN <<>> ELSE Under("", Raw(snapshot[CHOOSE k \in rest : TRUE])))

(* The project's variables override the groups', but one with the scope    *)
(* "*" does not.                                                           *)
GitlabListProject(env, found, snapshot) ==
    LET named == {k \in At("own", snapshot) :
                    /\ matchesFilter(env, k, snapshot[k])
                    /\ k \in DOMAIN found => snapshot[k].tagged}
    IN  Merge([k \in named |-> Raw(snapshot[k])], found)

---------------------------------------------------------------------------
(* 1Password. findItem asks the vaults in order for the items of a title.  *)
(* "text" has the field "password" only, "flat" the field "a" too, "deep"  *)
(* that field twice, "empty" no field; "garbled" is a title found twice,   *)
(* or a file whose content can not be read.                                *)
findItem(vault, ans) ==
    CASE Bad(ans) \/ ans.st = "garbled" -> Error
      [] ans.st = "ok" /\ ans.item.place = vault -> Single(Raw(ans.item))
      [] OTHER -> IF vault = "own" THEN GoOn ELSE Error

getField(it, prop) ==
    CASE prop = "" /\ it.shape # "empty" -> Single(Raw(it))
      [] prop = "a" /\ it.shape = "flat" -> Single(Part(it, "a"))
      [] OTHER -> Error

getFields(it, prop) ==
    LET password == IF prop = "" /\ it.shape # "empty" THEN Under("password", Raw(it)) ELSE <<>>
        a == IF prop \in {"", "a"} /\ it.shape = "flat" THEN Under("a", Part(it, "a")) ELSE <<>>
    IN  IF it.shape = "deep" /\ prop \in {"", "a"} THEN Error ELSE Ok(Merge(a, password))

(* A document has files, of which a name may occur twice; without a        *)
(* property the first one is taken.                                        *)
getFile(it, prop) ==
    CASE prop = "" /\ it.shape # "empty" -> Single(Raw(it))
      [] prop = "a" /\ IsJSON(it) -> Single(Part(it, "a"))
      [] OTHER -> Error
getFiles(it, prop) ==
    IF IsJSON(it) /\ prop # "z" THEN Ok(Under("a", Part(it, "a"))) ELSE NoData

OnePasswordGetSecret(category, found, ref) ==
    IF found.out # "ok" THEN found
    ELSE IF category = "DOCUMENT" THEN getFile(found.data["value"].item, ref.prop)
    ELSE getField(found.data["value"].item, ref.prop)
OnePasswordGetSecretMap(category, found, ref) ==
    IF found.out # "ok" THEN found
    ELSE IF category = "DOCUMENT" THEN getFiles(found.data["value"].item, ref.prop)
    ELSE getFields(found.data["value"].item, ref.prop)

(* getAllForVault lists a vault and reads every item of it; a label found  *)
(* in an earlier vault is kept. Here every item has one field, labelled as *)
(* the item.                                                               *)
getAllForVault(vault, st, snapshot) == IF st = "ok" THEN At(vault, snapshot) ELSE {}
getAllFields(vault, ans) ==
    IF ans.st = "ok" /\ ans.item.place = vault /\ ans.item.shape # "deep"
    THEN Single(Raw(ans.item)) ELSE Error
getAllFiles(vault, ans) ==
    IF ans.st = "ok" /\ ans.item.place = vault THEN Single(Raw(ans.item)) ELSE Error

---------------------------------------------------------------------------
(* IBM Secrets Manager: the prefix of the key names the type, here told by *)
(* the shape: "text" and "empty" are arbitrary secrets, "flat" a typed     *)
(* secret with the field "a" that needs a property, "deep" a key-value     *)
(* secret. A payload of an unexpected type ("garbled") fails an unchecked  *)
(* type assertion.                                                         *)
getArbitrarySecret(ans) == IF ans.st = "garbled" THEN Panic ELSE Single(Raw(ans.item))

getTypedSecret(ans, prop) ==
    CASE prop = "" -> Error
      [] prop = "a" -> Single(Part(ans.item, "a"))
      [] OTHER -> Error

getKVSecret(ans, prop) ==
    IF prop = "" THEN Single(Raw(ans.item)) ELSE Gjson(ans.item, prop)

IBMGetSecret(ans, ref) ==
    IF Bad(ans) \/ ans.st = "notfound" THEN Error
    ELSE IF ans.st = "garbled" THEN getArbitrarySecret(ans)
    ELSE IF ans.item.shape = "flat" THEN getTypedSecret(ans, ref.prop)
    ELSE IF ans.item.shape = "deep" THEN getKVSecret(ans, ref.prop)
    ELSE getArbitrarySecret(ans)

(* byteArrayMap gives no map, and no error, for a value of another type.   *)
byteArrayMap(ans, x) == IF ans.st = "garbled" THEN NoData ELSE Ok(Fields(x))
IBMGetSecretMap(ans, ref) ==
    IF Bad(ans) \/ ans.st = "notfound" THEN Error
    ELSE IF ans.st = "garbled" THEN byteArrayMap(ans, Raw(ans.item))
    ELSE IF ans.item.shape = "flat" THEN byteArrayMap(ans, Raw(ans.item))
    ELSE IF ans.item.shape = "deep" THEN
        LET r == getKVSecret(ans, ref.prop)
        IN  IF r.out = "ok" /\ IsObject(r.data["value"])
            THEN byteArrayMap(ans, r.data["value"]) ELSE Error
    ELSE Error
===========================================================================
