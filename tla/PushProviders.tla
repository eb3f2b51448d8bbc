--------------------------- MODULE PushProviders ---------------------------
(***************************************************************************)
(* The providers that also write: AWS Secrets Manager, AWS Parameter       *)
(* Store, GCP Secret Manager, Azure Key Vault, HashiCorp Vault, Keeper and *)
(* the fake. Reads are operators on the answer of a call, as in            *)
(* ReadProviders. PushSecret and DeleteSecret make several calls; pc names *)
(* the call, and an operator says what the method does with its answer:    *)
(* make another call (Goto) or return (Return). tagged is the managed-by   *)
(* tag, label or metadata; for Keeper the record type, for the fake the    *)
(* origin.                                                                 *)
(***************************************************************************)
EXTENDS ProviderBase

Goto(pc) == [pc |-> pc, out |-> "go"]
Return(out) == [pc |-> "done", out |-> out]

(* What PushSecret writes: val is the shape of the value; version 0 is the *)
(* pushed one.                                                             *)
Pushed(val) == Item(val, 0, TRUE, "own")
Same(it, val) == it.v = 0 /\ it.shape = val

---------------------------------------------------------------------------
(* Mutant: every error of a read is taken for a missing secret.            *)
AnyErrorIsNoSecret(ans, ref) ==
    IF ans.st = "ok" THEN Single(Raw(ans.item)) ELSE NoSecretErr

(* AWS Secrets Manager. fetch keeps what it read for the life of the       *)
(* client. Metadata is read with DescribeSecret, whose not-found is a      *)
(* plain error.                                                            *)
SMfetch(ans, ref) ==
    CASE ans.st = "ok" -> Single(Part(ans.item, IF ref.meta THEN "tags" ELSE "raw"))
      [] ans.st = "notfound" /\ ~ref.meta -> NoSecretErr
      [] OTHER -> Error

Property(res, ref) ==
    IF res.out # "ok" \/ ref.prop = "" THEN res
    ELSE IF ref.meta THEN
        IF ref.prop = "a" /\ res.data["value"].item.tagged
        THEN Single(Part(res.data["value"].item, "tag")) ELSE Error
    ELSE Gjson(res.data["value"].item, ref.prop)

SMGetSecret(ans, ref) ==
    LET r == SMfetch(ans, ref)
    IN  IF r.out = "ok" /\ ref.prop = "" /\ ~ref.meta /\ ans.item.shape = "empty"
        THEN Error ELSE Property(r, ref)
SMGetSecretMap(ans, ref) == RawMap(SMGetSecret(ans, ref))

isManagedByESO(it) == it.tagged

SMPushSecret(pc, ans, got, val) ==
    CASE pc = "lookup" -> IF ans.st = "ok" THEN Goto("describe")
                          ELSE IF ans.st = "notfound" THEN Goto("create")
                          ELSE Return("error")
      [] pc = "describe" -> IF ans.st # "ok" \/ ~isManagedByESO(ans.item) THEN Return("error")
                            ELSE IF Same(got, val) THEN Return("ok") ELSE Goto("put")

SMDeleteSecret(pc, ans) ==
    CASE pc = "lookup" -> IF ans.st = "ok" THEN Goto("describe")
                          ELSE IF ans.st = "notfound" THEN Return("ok")
                          ELSE Return("error")
      [] pc = "describe" -> IF ans.st # "ok" THEN Return("error")
                            ELSE IF ~isManagedByESO(ans.item) THEN Return("ok")
                            ELSE Goto("remove")

(* findByName, findByTags: a page of names, each read by fetchAndSet; a    *)
(* secret without a payload is left out.                                   *)
SMfetchAndSet(ans) == SMfetch(ans, [prop |-> "", meta |-> FALSE])
SMKeeps(res) == res.data["value"].item.shape # "empty"

---------------------------------------------------------------------------
(* AWS Parameter Store.                                                    *)
getParameterTags(ans) ==
    IF ans.st = "ok" THEN Single(Part(ans.item, "tags")) ELSE Error
getParameterValue(ans) ==
    CASE ans.st = "ok" -> Single(Raw(ans.item))
      [] ans.st = "notfound" -> NoSecretErr
      [] OTHER -> Error
PSGetSecret(ans, ref) ==
    Property(IF ref.meta THEN getParameterTags(ans) ELSE getParameterValue(ans), ref)
PSGetSecretMap(ans, ref) == RawMap(PSGetSecret(ans, ref))

(* setManagedRemoteParameter: a new parameter is put with the tag and      *)
(* without overwrite ("create"), an old one with overwrite ("put").        *)
setManagedRemoteParameter(createManagedByTags) ==
    Goto(IF createManagedByTags THEN "create" ELSE "put")

getTagsByName(ans) == ans.st = "ok"
(* Mutant: the tags are not looked at before a parameter is overwritten.   *)
OverwritesForeign(pc, ans, got, val) ==
    IF ans.st = "ok" THEN setManagedRemoteParameter(FALSE)
    ELSE IF ans.st = "notfound" THEN setManagedRemoteParameter(TRUE) ELSE Return("error")

PSPushSecret(pc, ans, got, val) ==
    CASE pc = "lookup" -> IF ans.st = "ok" THEN Goto("describe")
                          ELSE IF ans.st = "notfound" THEN setManagedRemoteParameter(TRUE)
                          ELSE Return("error")
      [] pc = "describe" -> IF ~getTagsByName(ans) \/ ~isManagedByESO(ans.item)
                            THEN Return("error")
                            ELSE IF Same(got, val) THEN Return("ok")
                            ELSE setManagedRemoteParameter(FALSE)

PSDeleteSecret(pc, ans) ==
    CASE pc = "lookup" -> IF ans.st = "ok" THEN Goto("describe")
                          ELSE IF ans.st = "notfound" THEN Return("ok")
                          ELSE Return("error")
      [] pc = "describe" -> IF ~getTagsByName(ans) THEN Return("error")
                            ELSE IF ~isManagedByESO(ans.item) THEN Return("ok")
                            ELSE Goto("remove")
(* A parameter that is gone when it is read is a plain error here.         *)
PSfetchAndSet(ans) == IF ans.st = "ok" THEN Single(Raw(ans.item)) ELSE Error

---------------------------------------------------------------------------
(* GCP Secret Manager: a secret without a version reads as not found.      *)
GCPparseError(ans) ==
    IF ans.st = "notfound" \/ ans.item.shape = "bare" THEN NoSecretErr ELSE Error
GCPGetSecret(ans, ref) ==
    IF ans.st # "ok" \/ ans.item.shape = "bare" THEN GCPparseError(ans)
    ELSE IF ref.prop = "" THEN IF ans.item.shape = "empty" THEN Error ELSE Single(Raw(ans.item))
    ELSE Gjson(ans.item, ref.prop)
GCPGetSecretMap(ans, ref) == RawMap(GCPGetSecret(ans, ref))
getData(ans) == GCPGetSecret(ans, [prop |-> "", meta |-> FALSE])

(* An error of the lookup that is no API error ("lost") is not returned:   *)
(* the nil secret is dereferenced.                                         *)
GCPPushSecret(pc, ans, got, val) ==
    CASE pc = "lookup" -> (CASE ans.st = "lost" -> Return("panic")
                             [] ans.st = "fail" -> Return("error")
                             [] ans.st = "notfound" -> Goto("create")
                             [] OTHER -> IF ans.item.tagged THEN Goto("access") ELSE Return("error"))
      [] pc = "access" -> (CASE Bad(ans) -> Return("error")
                             [] ans.st = "ok" /\ Same(ans.item, val) -> Return("ok")
                             [] OTHER -> Goto("put"))

GCPDeleteSecret(pc, ans) ==
    IF ans.st = "notfound" THEN Return("ok")
    ELSE IF Bad(ans) THEN Return("error")
    ELSE IF ~ans.item.tagged THEN Return("ok")
    ELSE Goto("remove")

---------------------------------------------------------------------------
(* Azure Key Vault: the prefix of the key names the type of the object; a  *)
(* key without a prefix ("secret") is a secret like one with ("secret/").  *)
(* A disabled secret ("bare" here) is listed, and refused to every read.   *)
AzureKinds == {"secret", "secret/", "cert", "key", "other"}
getObjType(kind) == IF kind = "secret/" THEN "secret" ELSE kind
Enabled(it) == it.shape # "bare"

AzureParseError(ans) == IF ans.st = "notfound" THEN NoSecretErr ELSE Error

getSecretTag(it, prop) ==
    CASE prop = "" -> Single(Part(it, "tags"))
      [] prop = "a" /\ it.tagged -> Single(Part(it, "tag"))
      [] OTHER -> Error
getProperty(it, prop) == IF prop = "" THEN Single(Raw(it)) ELSE Gjson(it, prop)

AzureGetSecret(kind, ans, ref) ==
    IF kind = "other" THEN Error
    ELSE IF ans.st # "ok" THEN AzureParseError(ans)
    ELSE IF ~Enabled(ans.item) THEN Error
    ELSE IF ref.meta THEN getSecretTag(ans.item, ref.prop)
    ELSE IF getObjType(kind) = "secret" THEN getProperty(ans.item, ref.prop)
    ELSE Single(Raw(ans.item))

getSecretMapMap(res) == RawMap(res)

(* Metadata is asked for a second time (pc "again"), and an error of that  *)
(* call is dropped. The tag "a" is renamed to name_a, after the secret; if *)
(* its value is a JSON object (here: of a "deep" secret), it is replaced   *)
(* by the fields of the object, name_a_x.                                  *)
getSecretTags(ans) ==
    IF ans.st # "ok" \/ ~Enabled(ans.item) \/ ~ans.item.tagged THEN <<>>
    ELSE IF ans.item.shape = "deep" THEN Under("name_a_x", Part(ans.item, "tagfield"))
    ELSE Under("name_a", Part(ans.item, "tag"))
(* The one tag asked for is looked up under the key as it was given, with  *)
(* the prefix; a tag that is not there is a nil value without an error.    *)
keyPropertyName(kind) == IF kind = "secret/" THEN "secret/name_a" ELSE "name_a"
getSecretMapProperties(kind, tags, prop) ==
    LET name == keyPropertyName(kind)
    IN  IF prop = "" THEN Ok(tags)
        ELSE Ok(Under(name, IF name \in DOMAIN tags THEN tags[name] ELSE Part(Absent, "nil")))
AzureGetSecretMap(kind, pc, ans, ref) ==
    IF getObjType(kind) # "secret" THEN Error
    ELSE IF pc = "again" THEN getSecretMapProperties(kind, getSecretTags(ans), ref.prop)
    ELSE IF ref.meta THEN
        LET r == AzureGetSecret(kind, ans, ref)
        IN  IF r.out = "ok" THEN GoOn ELSE r
    ELSE getSecretMapMap(AzureGetSecret(kind, ans, ref))

(* The names of a page of the listing that are read.                       *)
isValidSecret(names, snapshot) == {k \in MatchName(names) : Enabled(snapshot[k])}
AzurefetchAndSet(ans) == AzureGetSecret("secret", ans, [prop |-> "", meta |-> FALSE])

canCreate(ans) == ans.st = "notfound" \/ (ans.st = "ok" /\ Enabled(ans.item) /\ ans.item.tagged)
canDelete(ans) == ans.st = "ok" /\ Enabled(ans.item) /\ ans.item.tagged
(* Mutant: an existing secret is left as it is.                            *)
NeverUpdates(ans, val) ==
    IF ~canCreate(ans) THEN Return("error")
    ELSE IF ans.st = "ok" THEN Return("ok") ELSE Goto("put")

(* setKeyVaultSecret, and the same for a certificate and for a key, whose  *)
(* value is parsed first (only "text" parses).                             *)
setKeyVaultSecret(ans, val) ==
    IF ~canCreate(ans) THEN Return("error")
    ELSE IF ans.st = "ok" /\ Same(ans.item, val) THEN Return("ok")
    ELSE Goto("put")
getCertificateFromValue(val) == val = "text"
setKeyVaultCertificate(ans, val) ==
    IF getCertificateFromValue(val) THEN setKeyVaultSecret(ans, val) ELSE Return("error")
getKeyFromValue(val) == val = "text"
equalKeys(it, val) == Same(it, val)
setKeyVaultKey(ans, val) ==
    IF ~getKeyFromValue(val) \/ ~canCreate(ans) THEN Return("error")
    ELSE IF ans.st = "ok" /\ equalKeys(ans.item, val) THEN Return("ok")
    ELSE Goto("put")
AzurePushSecret(kind, ans, val) ==
    CASE getObjType(kind) = "secret" -> setKeyVaultSecret(ans, val)
      [] getObjType(kind) = "cert" -> setKeyVaultCertificate(ans, val)
      [] getObjType(kind) = "key" -> setKeyVaultKey(ans, val)
      [] OTHER -> Return("error")
(* deleteKeyVaultSecret, -Certificate, -Key: an object that is not managed *)
(* is an error here.                                                       *)
deleteKeyVault(ans) ==
    CASE ans.st = "notfound" -> Return("ok")
      [] canDelete(ans) -> Goto("remove")
      [] OTHER -> Return("error")
AzureDeleteSecret(kind, ans) ==
    IF getObjType(kind) = "other" THEN Return("error") ELSE deleteKeyVault(ans)

---------------------------------------------------------------------------
(* HashiCorp Vault, KV version 2. A secret whose latest version is deleted *)
(* ("empty") is there with null data; one with metadata only ("bare") is   *)
(* not found. The data of a secret is an object: here "text" is one        *)
(* without the field "a".                                                  *)
readSecret(ans) ==
    IF ans.st = "notfound" \/ ans.item.shape = "bare" THEN NoSecretErr
    ELSE IF ans.st # "ok" THEN Error
    ELSE IF ans.item.shape = "empty" THEN NilData
    ELSE Single(Raw(ans.item))
readSecretMetadata(ans) ==
    IF ans.st = "ok" THEN Single(Part(ans.item, "tags")) ELSE Error
GetTypedKey(it) == Single(Part(it, "a"))

VaultGetSecret(ans, ref) ==
    LET meta == readSecretMetadata(ans)
        r    == readSecret(ans)
    IN  IF ref.meta /\ meta.out = "ok" /\ ~ans.item.tagged THEN NilData
        ELSE IF ref.meta THEN Property(meta, ref)
        ELSE IF r.out # "ok" \/ r = NilData \/ ref.prop = "" THEN r
        ELSE IF ref.prop = "a" /\ IsJSON(ans.item) THEN GetTypedKey(ans.item)
        ELSE Error
VaultGetSecretMap(ans, ref) ==
    LET r == VaultGetSecret(ans, ref)
    IN  IF r = NilData THEN Error
        ELSE IF r.out = "ok" /\ r.data["value"] = Raw(ans.item) /\ ~IsJSON(ans.item) THEN NoData
        ELSE RawMap(r)

(* A path without any secret is an error.                                  *)
listSecrets(st, snapshot) ==
    IF st # "ok" \/ Present(snapshot) = {} THEN Error ELSE GoOn
findSecretsFromName(ans) == VaultGetSecret(ans, [prop |-> "", meta |-> FALSE])
findSecretsFromTags(ans) == readSecretMetadata(ans)
VaultKeeps(res) == res # NilData

(* The value must be JSON. The label is written before the data.           *)
VaultPushSecret(pc, ans, got, val) ==
    CASE pc = "lookup" -> LET r == readSecret(ans)
                          IN  IF ~IsJSON(Pushed(val)) THEN Return("error")
                              ELSE IF r.out = "ok" THEN Goto("describe")
                              ELSE IF r = NoSecretErr THEN Goto("label") ELSE Return("error")
      [] pc = "describe" -> IF readSecretMetadata(ans).out # "ok" \/ ~ans.item.tagged
                            THEN Return("error")
                            ELSE IF Same(got, val) THEN Return("ok") ELSE Goto("label")

VaultDeleteSecret(pc, ans) ==
    CASE pc = "lookup" -> LET r == readSecret(ans)
                          IN  IF r.out = "ok" THEN Goto("describe")
                              ELSE IF r = NoSecretErr THEN Return("ok") ELSE Return("error")
      [] pc = "describe" -> IF readSecretMetadata(ans).out # "ok" THEN Return("error")
                            ELSE IF ~ans.item.tagged THEN Return("ok") ELSE Goto("removeData")

---------------------------------------------------------------------------
(* Keeper. "deep" is a record with a field twice, "empty" one without      *)
(* fields; the field "a" is in "flat" records only.                        *)
findSecretByID(ans) == IF ans.st = "ok" THEN GoOn ELSE Error
validate(it) == it.shape # "deep"
getValidKeeperSecret(ans) ==
    IF findSecretByID(ans).out = "go" /\ validate(ans.item) THEN GoOn ELSE Error
KeeperProperty(it, prop) ==
    IF prop = "a" /\ it.shape = "flat" THEN Single(Part(it, "a")) ELSE Error
getItem(it, prop) == IF prop = "" THEN Single(Raw(it)) ELSE KeeperProperty(it, prop)
getItems(it, prop) ==
    IF prop # "" THEN LET r == KeeperProperty(it, prop)
                      IN  IF r.out = "ok" THEN Ok(Under(prop, r.data["value"])) ELSE r
    ELSE IF it.shape = "empty" THEN Error
    ELSE Ok(Under("a", Part(it, "a")))
KeeperGetSecret(ans, ref) ==
    IF getValidKeeperSecret(ans).out = "go" THEN getItem(ans.item, ref.prop) ELSE Error
KeeperGetSecretMap(ans, ref) ==
    IF getValidKeeperSecret(ans).out = "go" THEN getItems(ans.item, ref.prop) ELSE Error
(* One invalid record fails the listing, whether it matches or not.        *)
KeeperGetAllSecrets(st, snapshot) ==
    IF st # "ok" \/ \E k \in Present(snapshot) : ~validate(snapshot[k]) THEN Error
    ELSE Pick(MatchName(Present(snapshot)), snapshot)

(* The remote key is "title/field"; "z" stands for one of another form,    *)
(* "a" for a custom field, "" for a login, password or URL.                *)
buildSecretNameAndKey(prop) == prop # "z"
createSecret == Goto("create")
updateSecret(it, prop) ==
    IF prop = "a" /\ it.shape # "flat" THEN Return("error") ELSE Goto("put")
(* Whatever fails the lookup, a record is created. GetSecretByTitle of the *)
(* Keeper library is taken to report a missing title as an error, as the   *)
(* tests have it; were it to return neither a record nor an error,         *)
(* PushSecret would report success and write nothing.                      *)
KeeperPushSecret(ans, prop) ==
    IF ~buildSecretNameAndKey(prop) THEN Return("error")
    ELSE IF ans.st # "ok" THEN createSecret
    ELSE IF ~ans.item.tagged THEN Return("error")
    ELSE updateSecret(ans.item, prop)
KeeperDeleteSecret(ans, prop) ==
    IF ~buildSecretNameAndKey(prop) \/ ans.st # "ok" \/ ~ans.item.tagged THEN Return("error")
    ELSE Goto("remove")

---------------------------------------------------------------------------
(* The fake: one map access.                                               *)
FakePushSecret(it) ==
    IF it # Absent /\ ~it.tagged THEN Return("error") ELSE Goto("put")
FakeDeleteSecret == Return("ok")

---------------------------------------------------------------------------
(* The calls that write. What the secret is after the call "pc" took       *)
(* effect, or {} when the service refuses it; same tells whether the       *)
(* secret is still the one that was looked up (its ARN, its uid). AWS      *)
(* keeps a deleted secret for a recovery window, in which it is there for  *)
(* nobody: calls about it fail, as calls may here after the removal too.   *)
SMWrite(pc, cur, same, val) ==
    CASE pc = "create" -> IF cur = Absent THEN {Pushed(val)} ELSE {}
      [] pc = "put" -> IF same THEN {[Pushed(val) EXCEPT !.tagged = cur.tagged]} ELSE {}
      [] OTHER -> IF same THEN {Absent} ELSE {}
PSWrite(pc, cur, val) ==
    CASE pc = "create" -> IF cur = Absent THEN {Pushed(val)} ELSE {}
      [] pc = "put" -> {[Pushed(val) EXCEPT !.tagged = cur.tagged]}
      [] OTHER -> IF cur = Absent THEN {} ELSE {Absent}
(* Mutant: the secret is created without the label.                        *)
CreatesUnlabelled(pc, cur, val) ==
    CASE pc = "create" -> IF cur = Absent THEN {Item("bare", 0, FALSE, "own")} ELSE {}
      [] pc = "put" -> {[Pushed(val) EXCEPT !.tagged = cur.tagged]}
      [] OTHER -> {Absent}

GCPWrite(pc, cur, val) ==
    IF pc = "create" THEN IF cur = Absent THEN {Item("bare", 0, TRUE, "own")} ELSE {}
    ELSE IF cur = Absent THEN {}
    ELSE IF pc = "put" THEN {[Pushed(val) EXCEPT !.tagged = cur.tagged]}
    ELSE {Absent}
AzureWrite(pc, cur, val) ==
    CASE pc = "put" -> {Pushed(val)}
      [] OTHER -> IF cur = Absent THEN {} ELSE {Absent}
VaultWrite(pc, cur, val) ==
    CASE pc = "label" -> {IF cur = Absent THEN Item("bare", 0, TRUE, "own")
                          ELSE [cur EXCEPT !.tagged = TRUE]}
      [] pc = "put" -> {[Pushed(val) EXCEPT !.tagged = cur.tagged]}
      [] pc = "removeData" -> {IF cur \in {Absent} \/ cur.shape = "bare" THEN cur
                               ELSE [cur EXCEPT !.shape = "empty"]}
      [] OTHER -> {Absent}
KeeperWrite(pc, cur, same, val) ==
    CASE pc = "create" -> {IF cur = Absent THEN Pushed(val) ELSE cur}
      [] pc = "put" -> IF same THEN {[Pushed(val) EXCEPT !.tagged = cur.tagged]} ELSE {}
      [] OTHER -> IF same THEN {Absent} ELSE {}

(* What the method does after the write: Vault and GCP make two.           *)
AfterWrite(p, pc) ==
    CASE pc = "label" -> Goto("put")
      [] pc = "removeData" -> Goto("remove")
      [] p = "gcp" /\ pc = "create" -> Goto("access")
      [] OTHER -> Return("ok")
(* A failed write is returned as an error, except Keeper's DeleteSecret.   *)
AfterFailedWrite(p, pc) ==
    IF p = "keeper" /\ pc = "remove" THEN Return("ok") ELSE Return("error")
===========================================================================
