# A TLA+ model of external-secrets

external-secrets is a Kubernetes operator. It copies secrets from external
providers (AWS, GCP, Vault, ...) into Kubernetes Secrets, pushes Kubernetes
Secrets out to providers, and keeps both sides in step. This directory holds
TLA+ modules of its controllers and of its providers, the TLC configurations that check them on small
instances, and TLAPS proofs of their main safety properties. `PROJECT.json`
maps every definition to the source lines it models and lists components, runs,
findings, hazards and theorems.

```
tlc -workers 2 -config <run>.cfg <MC module>      # one run
tlapm <Module>Proofs.tla                          # one set of proofs
```

## 1. Inventory

### Controllers

| Component | State it keeps | Operations | Correct when |
|---|---|---|---|
| **ExternalSecret controller** (`pkg/controllers/externalsecret`) | the ExternalSecret's status (Ready condition, `refreshTime`, `syncedResourceVersion`), the target Secret with its owner reference, data-hash annotation and field managers | Reconcile: skip, refresh check, fetch the refs one after the other, delete / retain / apply, create-or-update or server-side apply, deferred status patch | it never writes a Secret another ExternalSecret controls; it deletes only when the provider really had no data; a synced revision was applied; it converges; tampering is repaired |
| **Client manager** (`pkg/controllers/secretstore/client_manager.go`) | per reconcile a map from provider type to the open client and the store it was built for | Get, reuse, clean up, construct, Close | a ref is served by a client of the store it resolved to; every client is closed once |
| **GCP connection mutex** (`pkg/provider/gcp/secretmanager`) | `useMu`, one per process | `NewClient` locks, `Close` unlocks | at most one connection; nobody waits for ever, least of all for himself |
| **SecretStore / ClusterSecretStore controllers** (`pkg/controllers/secretstore`) | the Ready condition of a store | validate the store with a client, set the condition, requeue | Ready reflects the last validation; the floodgate closes on a store that is not ready |
| **PushSecret controller** (`pkg/controllers/pushsecret`) | `status.syncedPushSecrets`, a finalizer, the remote secrets | add finalizer, push, delete what is no longer wanted, release the finalizer, deferred status patch | what was pushed is tracked until it is deleted; the finalizer is held until then; stores converge; deletion completes |
| **ClusterExternalSecret controller** (`pkg/controllers/clusterexternalsecret`) | `status.provisionedNamespaces`, `failedNamespaces`, conditions; ExternalSecrets in namespaces | list namespaces, remove from those left, create or update in the others, deferred status patch | never takes over a foreign ExternalSecret; every matching namespace ends up provisioned; nothing stays after deletion |
| **CRD controller and certificates** (`pkg/controllers/crds`) | the CA and serving certificate in a Secret, the CA bundle in the CRDs | check, renew, inject | the CA the API server trusts signs what the webhook serves, also during a rotation |
| **Webhook configuration controller** (`pkg/controllers/webhookconfig`) | the CA bundle in the ValidatingWebhookConfiguration | inject, readiness | as above |
| **Webhook server** (`cmd/webhook.go`) | certificate files, the validity it last checked | serve, restart when the certificate goes bad | as above |

### Libraries

| Component | State | Hard part |
|---|---|---|
| Providers with push (`aws`, `gcp`, `azure`, `vault`, `keepersecurity`, `fake`) | remote secrets with a managed-by mark | check and write are two calls; a push of several calls may stop half-way |
| Read-only providers (`ibm`, `gitlab`, `onepassword`, `akeyless`, ...) | none of their own | whether a missing secret is reported as `NoSecretErr`, on which deletion rests; finds over pages, groups and vaults |
| Provider authentication (`NewClient`, `ValidateStore`, `Validate` of every provider and generator) | for five providers one shared client object | in which namespace credentials are looked up; whether Ready means usable; clients that share fields |
| Provider sessions (`vault`, `aws/auth`, `yandex/common`) | Vault tokens, AWS sessions with assumed roles, IAM tokens | tokens left behind, revoked in use or expired; roles in order |
| Client cache (`pkg/cache`) | an LRU map of clients with a cleanup function | evicted clients must be cleaned up; stale versions |
| Key and value transformation (`pkg/utils`, `pkg/find`) | none | keys rewritten into each other; decoding strategies |
| Templating (`externalsecret_controller_template.go`, `pkg/template`) | none | what stays of keys a template no longer has |
| Generators (`pkg/generator`) | none | a new value at every call |
| API types, conversion, validation (`apis/`) | none | what the webhook lets in |
| Metrics, process start-up | counters; flags | none |

### How they interact

All controllers share one API server and, in the operator process, one set of
informers. A reconcile is woken by its own objects (`For`), by the objects it
controls (`Owns`), by its `RequeueAfter` timer and by rate-limited retries. It
reads its own object from the informer's cache, which may be behind the server;
Secrets are read live by the ExternalSecret controller; ClusterExternalSecret
reads ExternalSecrets from a cache. Updates carry a resourceVersion and may
conflict; status patches are merge patches against the cached copy and never
conflict; server-side applies never conflict either (`ForceOwnership`). The
ExternalSecret, PushSecret and store controllers obtain provider clients from a
client manager that lives as long as the reconcile. ClusterExternalSecret
produces ExternalSecrets. Kubernetes' garbage collector removes objects whose
controller is gone.

### What is hard

* a reconcile works on a copy while users, providers and other reconciles go on;
* the merge patch of the status sends only the difference to a stale copy;
* several refs, stores or namespaces are handled one after the other and any of
  them may fail;
* a write that succeeded may be reported as failed, or the process may die before
  the status is written;
* a process-wide mutex is held by an object that must be closed on every path;
* several controllers write one Secret (Merge) or want one name (Owner,
  ClusterExternalSecret);
* one certificate Secret is read by three processes at three different times, and
  rotated by several reconciles at once;
* a provider call protocol has several requests, between which others write;
* a few providers keep one client object, session or token for several stores.

`PROJECT.json` lists these as hazards, each at its line with the property that
would catch it, or with the reason why there is none.

## 2. Modules

| Module | Models | Proofs |
|---|---|---|
| `ExternalSecret` | the ExternalSecret controller against API server, provider and users | `ExternalSecretProofs` |
| `ClientManager` | `secretstore.Manager` composed with the GCP mutex, over concurrent reconciles | `ClientManagerProofs` |
| `PushSecret` | the PushSecret controller against API server, stores and users | `PushSecretProofs` |
| `ClusterExternalSecret` | the ClusterExternalSecret controller against API server and users | `ClusterExternalSecretProofs` |
| `CertController` | CRD controller, webhook configuration controller, kubelet and webhook process over one certificate Secret | `CertControllerProofs` |
| `ProviderBase`, `ReadProviders`, `PushProviders` | what each provider makes of each answer of its backend (operators) | |
| `SecretsClient` | the `SecretsClient` interface of all providers call by call, against a backend others write to | `SecretsClientProofs` |
| `ManagedSecrets` | abstract: what a provider that writes promises; implemented by `SecretsClient` | `SecretsClientProofs` |
| `AuthPlans` | the checks and reads of `ValidateStore`, `NewClient`, `Validate` of every provider and generator (operators) | |
| `StoreAuth` | reconciles that carry out those plans at the same time: store validation and use | `StoreAuthProofs` |
| `ClientCache`, `Sessions` | `pkg/cache`, and the Vault tokens, AWS sessions and IAM tokens that outlive a reconcile | `SessionsProofs` |
| `MC...` | the instances TLC checks | |

In all of them `pc` says where a reconcile is, `job` holds its locals, and a
step ends at every call to the API server or to a provider: between two calls
everything else may happen. An action stands for everything the code does from
one call to the next. `env` and `faults` count what users, providers and crashes
do and which calls fail, so that they can be bounded.

### ExternalSecret

`es` is the server's ExternalSecrets, `cache` the informer's copies; `secret` the
Secrets; `provider` what the provider holds. A reconcile is
`SkipReconcile | SkipRefresh | StopReconciling | StartFetch`, then one `FetchRef`
or `SkipMissing` per ref (or `FetchFails`), then one of the deletion branches
(`DeleteRefused`, `DeleteSecret`, `DeleteErrs`, `RetainSecret`) or of the write
branches (`SkipCreation`, `GetTarget`, `TargetUpToDate`, `TargetRefused`, then
`CreateOrUpdate`, `patchSecret` or `WriteFails`), then the deferred `PatchStatus`
or `PatchStatusFails`.

Abstractions: a payload is a function from keys to values with `Absent` for a
missing key; the data hash *is* the payload it was computed from; `rev` is
`getResourceVersion` (generation and hash of labels and annotations); instead of
resourceVersions, `behind` is the set of reconciles whose copy of the Secret has
been overtaken; `refreshTime` is never / recent / due, and `IntervalElapses`
ages it; a template is the set of keys it renders; a generator is a ref that
yields any value; a find is a ref with several keys, whose answer is `NoSecretErr` when
all, or (as `v_find` shows) one, of them have gone; a store is ok, failing (missing, not ready behind the
floodgate, provider error) or foreign (another controller class). `mgrs` keeps
the field managers of each key, which decide what a server-side apply removes.

### ClientManager

Each process in `Procs` is a reconcile of any controller. `Get` resolves a ref to
a version of a store; `Reuse`, `CleanUp` and `NoStoredClient` are
`getStoredClient`; `Lock`, `NewClient`, `NewClientFails`, `NewPlaceholderFails`
are the provider's `NewClient` with its deferred `Close`; `Close` is
`Manager.Close`. A process in `Referent` validates a ClusterSecretStore whose
credentials live in the referring namespace, for which `NewClient` builds a
placeholder client. A store has a generation and an incarnation: re-creating it
starts the generation at 1. An unlock of the free mutex is fatal in Go, a call on a nil
client panics, and either ends the process (`fatal`). `nilClient` is the process whose
placeholder could not be built: `NewClient` then returns a typed nil without an error,
which its own deferred test does not take for nil, so it keeps the mutex and the manager
keeps the client.

### PushSecret

One PushSecret. A pushed secret is a pair of store and key;
`status.syncedPushSecrets` is a set of such pairs. A reconcile adds the finalizer
and returns (the update wakes it again), or starts the final cleanup, or pushes
pair after pair and then deletes the pairs it no longer wants; it ends with the
deferred patch. `remote` is what the stores hold: ours, `Foreign` or nothing. The
code ranges over maps, so pairs are visited in any order. `PushReplyLost` is a
push that succeeded and was reported as failed. `MergePatch` sends the difference to
the copy that was read, pair by pair, except that a store which has dropped out, and a
list which has become empty, go as a whole (`DroppedStores`).

### ClusterExternalSecret

`ces`/`cesCache` are the ClusterExternalSecrets at the server and in the cache,
`es`/`esCache` the ExternalSecrets by name and namespace, `labels` the labels of
the namespaces. A reconcile is `List`, then `NotRemoved` or
`FoundToRemove`/`DeleteES` for every provisioned namespace that stopped matching,
then `Conflicting` or `Resolve`/`GetES`/`CreateOrUpdate` for every matching one,
then the deferred `PatchStatus`. `failedNamespaces` and the conditions are
written and never read by the controller and are left out. An ExternalSecret's
owner is a ClusterExternalSecret, nobody, or `Stranger`: an owner reference that
does not control it, which satisfies `checkForError`.

### CertController

`secret` is the certificate Secret: the CA and until when it is valid, who signed
the server certificate and until when that is valid. Every CRD in `Crds` has a
reconcile `job`: `GetSecret`, `GetCRD` (or `RejectCRD`), `writeSecret` when
`NeedsRefresh`, `UpdateCRD`; `GetConfig`, `ReadCA`, `UpdateConfig` is the webhook
configuration controller; `SyncFiles` is the kubelet; `waitForCerts`, `Ticker` and
`Restart` the webhook process. Conflicts are `WriteConflict` and `UpdateConflict`,
lost replies `WriteLost`, other failures `FailCall` and `ConfigFails`. Time is
counted in lookahead periods (90 days) and passes only when everyone has completed
a round since the last tick: the requeue intervals are minutes.

### SecretsClient

One client of one provider, chosen by Init, whose operation `op` runs `GetSecret`,
`GetSecretMap`, `GetAllSecrets`, `PushSecret` or `DeleteSecret` one backend call at
a time; the result of each call is any answer the backend can give for what it
holds at that moment, or a failure. The operators of `ReadProviders` and
`PushProviders` turn an answer into the provider's result: a value, a part of it,
`NoSecretErr`, another error or a panic. A remote secret is a record of its shape
(what parsing will find in it), its mark and, where it matters, its place (project
or group, vault). `seen` collects what each secret was since the operation began:
the properties compare results with it.

What a shape stands for depends on the provider. `bare` is a secret without a value (GCP
without a version, Vault with metadata only) and for Azure a disabled one, which a
listing leaves out and a read is refused. In Azure `tagged` with shape `deep` is a
tag whose value is JSON: `getSecretTags` puts its fields in its place, so that the one tag
asked for is not there. GitLab reads a variable in up to four calls (with the environment
of the client, with the scope `*`, the list of groups, a group), and keeps the
environment of a find by tags for the operations after it (`op.kind` outlives the
operation). Bounds of it: one page of groups (the code asks for one, 20 by default) and
one page of at most 100 variables per project or group. AWS Secrets Manager deletes with a
recovery window, in which it refuses reads and a new create; in the model the secret is
absent at once, and a call about it may fail like any other.
Keeper is assumed never to answer neither a record nor an error.

`ManagedSecrets` is the promise of a provider that writes: an operation writes its
target only, and only if that was free (absent, managed or without a value) at some
moment since it began. `Promise` maps `SecretsClient` to it.

### AuthPlans and StoreAuth

A store is its kind, its authentication method, the namespace written in each
reference (or none, or the reference is missing) and the kind of CA provider.
`AuthPlans` gives the plan of `NewClient` as a sequence of steps: a read of an object
in a namespace, a check of a value, a login, an error of the spec, a panic, a
placeholder. `StoreAuth` lets a store controller validate a store and secret
controllers use it at the same time. Alibaba, GitLab, IBM and 1Password fill in the
registered provider itself (`receiver`), Yandex keeps a connection per endpoint
(`getter`); for these a second store interferes. `Publish` fills in the shared fields in one
step; GitLab and 1Password assign them one by one, so that two clients made at the same
time may also mix them.

### ClientCache and Sessions

`ClientCache` is the LRU cache as a sequence of entries; `Sessions` uses it the way
Vault and AWS do. For Vault, `Get`, `Make`, `IsCached`, `AddToCache` are
`getVaultClient`, `LookupToken` and `Login` are `setAuth`, `CheckVictim`, `Revoke` and
`ClearToken` the cleanup of an evicted client, which runs under the lock of the LRU
library. For AWS, `AssumeRole` extends the chain of roles of the session, cached or
not. For Yandex, `GetOrCreateIamToken` and `CleanUpIamTokenMap` share tokens per key
while the clock runs. Two limits of it: a token in the hand of a reconcile does not expire
(`Expire`; the code looks at no remaining time, the reconcile is assumed to be shorter
than what is left), and the generator for Vault (`generator/vault/vault.go:72-107`), which
logs in by itself and never revokes the token, is not part of it.

## 3. Runs

All bounds are constants: `MaxEnv` (steps of users, providers and crashes),
`MaxFaults` (failing calls), `MaxRev`, `MaxEdits` (edits), `MaxRefs`.

| Run | Instance | Shows |
|---|---|---|
| `es_pair` | two ExternalSecrets, both Owner or both Merge, one Secret, two workers, one outside step | `OwnerRespected`: the owner check on a copy and the lock of Update together keep one off the other's Secret; `MergeConverges`, although neither ever finds the Secret valid |
| `es_safety` | one ExternalSecret, edited once among its specs (all creation and deletion policies, template, immutable, generator, a find over both keys), two keys, two outside steps, one failing call | `DeleteJustified`, `SyncedRevisionApplied`, `TypeOK` |
| `es_live` | polling and fetch-once specs, outages, one edit, one failing call, two outside steps | `Converges`, `Repaired`, `NoDanglingSecret` |
| `cm` | two reconciles (one validates a referent store), two GCP stores and one of another provider, two refs, one store edit or re-creation | `OneConnection`, `NothingLeftOpen`, `ClosedOnce`, `EveryReconcileEnds`, `TypeOK` |
| `ps` | two stores, two keys, three specs edited into each other (both deletion policies), crash, lost reply, three outside steps | `PartialPushTracked`, `FinalizerHolds`, `Converges`, `DeletionCompletes`, `TypeOK` |
| `ces` | one ClusterExternalSecret with two templates, one namespace that is relabelled, users who create, edit and delete the ExternalSecret, crash, three outside steps, one failing call | `OwnerNeverChanges`, `AllProvisioned`, `TypeOK` |
| `v_delete` | one ExternalSecret with deletionPolicy=Delete | **violated** `DeletesOnlyOwned` |
| `certs` | two CRDs, certificates valid for two lookahead periods, three ticks of the clock, one failure or edit | `GoodCAKept`, `Agreement`, `NeverServesExpired`, `Converges` |
| `client` | all 20 providers; three secrets, of which two match a find, on two pages; two operations of one client, one failing call and one edit by others in each | `AbsenceJustified`, `ResultsJustified`, `FindComplete`, `WritesEffective`, `RetryPossible`, `KeepsPromise` |
| `creds` | all 21 providers and generators, every method, every combination of namespaces in the references, SecretStore and ClusterSecretStore, two reconciles where clients share something | `Confined`, `OwnCredentials`, `ReadyMeansUsable`, `AdmittedRuns` |
| `sessions` | two stores, two workers, three reconciles, a cache of one entry, one edit or rotation, one failing call; cache on and off | `OwnSession`, `TokensAccounted`, `TokenValid`, `ActsInRole` |
| `v_find` | AWS Secrets Manager, two matching secrets, one deleted during the find | **violated** `DeleteOnlyIfAllGone` |

### The properties

* `OwnerRespected`: the write of a reconcile with creationPolicy=Owner changes only
  a Secret that at that moment is free or its own.
* `DeleteJustified`: a reconcile about to delete has, since it began, had every
  remote secret it gets by name absent at some moment, and of each find all or at least
  one of the secrets it matches; a failing call is never a reason. Not all at the *same*
  moment: the refs are fetched one after the other, and that cannot be promised. That
  one missing secret of a find is enough is what `v_find` is about.
* `SyncedRevisionApplied`: `syncedResourceVersion` equal to the current revision
  stops refreshes, so a valid Secret must then hold no key of an earlier spec, as
  long as no other ExternalSecret merges into the same Secret or adopts it.
* `Converges`, `Repaired`, `MergeConverges`, `NoDanglingSecret`: what finally holds
  for good once users and provider are quiet. The first two speak of a Secret that is
  missing or was created by the ExternalSecret (`OursToMake`): for one that somebody else
  created, code and guide disagree (see below), and the properties take no side.
* `OneConnection`, `NothingLeftOpen`, `ClosedOnce`, `EveryReconcileEnds`: at most one GCP
  client is open; a reconcile that has returned holds no client and no mutex; no path
  unlocks a free mutex; every reconcile comes to its end, or the process does in the
  panic of a failed placeholder.
* `PartialPushTracked`: the status a reconcile is about to write lists what it
  pushed and keeps what it did not delete, wherever it failed.
* `FinalizerHolds`: the PushSecret goes only when all the *server's* list names is
  gone, although a copy of the list was worked through. The resourceVersion of
  the Update that removes the finalizer is what saves it.
* `OwnerNeverChanges`, `AllProvisioned`: no write takes over an ExternalSecret; every
  matching namespace ends up provisioned, and a deleted ClusterExternalSecret leaves
  nothing behind.
* `GoodCAKept`: of two reconciles that both find the certificates bad only one
  replaces the CA. `Agreement`: when everyone has completed a round on the present
  Secret, all hold its CA and the webhook serves what it signed.
  `NeverServesExpired`: the lookahead is long enough, whatever is done to the Secret.
* `AbsenceJustified`: `NoSecretErr`, or an empty find, means that the secrets were
  absent at some moment of the operation; an outage is never taken for absence.
* `ResultsJustified`, `FindComplete`: values belong to the secret that was asked for, as
  it was during the operation; a find adds nothing it was not asked for and loses
  nothing that was there from beginning to end. The comments name the providers for
  which the code differs: GitLab's groups after a list of groups that could not be
  decoded, Onboardbase's undecryptable value, and the nil values of GitLab and Azure.
* `WritesEffective`, `RetryPossible`, `KeepsPromise`: success means done, failure means
  that it can be tried again, and foreign secrets are left alone.
* `Confined`, `OwnCredentials`, `ReadyMeansUsable`, `AdmittedRuns`: credentials come from
  where the store may look, are its own, were found when it says Ready, and an admitted
  spec does not fail for its form.
* `OwnSession`, `TokensAccounted`, `TokenValid`, `ActsInRole`: what outlives a reconcile
  belongs to the right store and version, is valid when used and cleaned up when
  dropped; a user's token is never revoked; roles are assumed in order. With the cache on,
  the last three say nothing once two reconciles have overlapped (`Apart`): the code then
  does revoke tokens in use.

### Findings

* `v_delete`: the "safeguard that we only can delete secrets we own" compares the
  policy, not the Secret. A Secret that a user created under the target name is
  deleted when the provider runs empty.
* `v_find`: the find of AWS Secrets Manager lists names and then reads each. A secret
  deleted in between makes the whole find answer `NoSecretErr`, although another one
  matches; with deletionPolicy=Delete the target Secret is then deleted. GCP, Azure and
  Vault pass the error of one secret on in the same way; Parameter Store does not. GitLab
  comes to an empty find in another way: a list of groups it can not decode is taken for
  no groups (`gitlab.go:472`), and if all matching variables are the groups', nothing is
  found and no error reported.

Seen while modelling and left without a run. Controllers:

* a success that follows an error, computed from a copy that does not show the
  error yet, does not patch the condition (`externalsecret_controller.go:170`); with
  refreshInterval 0 nothing is queued that would correct it, while
  `docs/snippets/full-external-secret.yaml:133` says "False if last refresh was not
  successful";
* creationPolicy=Owner adopts a Secret that nobody owns, while
  `docs/guides/ownership-deletion-policy.md:14` says that the operator errors out and does
  not claim it;
* a failing delete is reported as Ready/SecretDeleted
  (`externalsecret_controller.go:217` is overwritten at line 222);
* creationPolicy=None with refreshInterval 0 fetches at every event, because there
  is no Secret that could be valid;
* a key removed from a template stays in the Secret;
* an immutable ExternalSecret with a generator whose status patch was lost fetches new
  data, which its immutable Secret rejects for ever;
* a reconcile skipped for a foreign controllerClass is not requeued, and stores are not
  watched: only a resync wakes the ExternalSecret when the store changes hands;
* a store deleted and re-created between two refs is served by the client of the
  old one (generation, kind, name and namespace are compared, not the UID);
* the error of building GCP's placeholder client is dropped
  (`gcp/secretmanager/provider.go:89`) and a typed nil is stored, which the test at line 74
  does not recognise: the mutex stays locked, and `Manager.Close` panics on the nil client
  before it comes to unlock it (`client.go:414`), which ends the process;
* two status patches of a PushSecret from the same cached copy lose an entry of
  `syncedPushSecrets` (`pushsecret_controller.go:82`); that remote secret is never
  deleted. So is one pushed by a process that died before the status patch, if the
  PushSecret no longer wants it;
* a PushSecret whose deletionPolicy changes from Delete to None keeps its
  finalizer and can then not be deleted; one that is held by another finalizer is pushed
  again after its own cleanup;
* `provisionedNamespaces` is replaced only by a non-empty list
  (`clusterexternalsecret_controller.go:133`): a ClusterExternalSecret whose last
  namespace has left goes on deleting the ExternalSecret of that name there, also when
  another ClusterExternalSecret now provisions it, for ever;
* CreateOrUpdate of ClusterExternalSecret overwrites the spec of an ExternalSecret
  that was replaced between its two reads; `failedNamespaces` and the conditions of
  other types are never cleared; an ExternalSecret whose removal failed is
  forgotten as soon as other namespaces are provisioned; with two failing namespaces the
  list comes in the order of a map, so each patch differs and wakes the controller;
* the readiness flag of the webhook configuration controller is never taken back.

Providers:

* two keys rewritten to one name (`utils.go:65`): the order of a map decides which value
  survives;
* `NoSecretErr` is never returned by Akeyless, Alibaba, Doppler, GitLab, IBM, Keeper,
  Onboardbase, 1Password, Oracle and Yandex: deletionPolicy=Delete does nothing there;
* a push to GCP dereferences nil when the lookup fails with an error that is not an
  API error; webhook and IBM panic on replies of an unexpected type;
* Keeper takes a failed lookup for a missing record and creates a second one, and
  drops the error of the delete; Azure drops the error of reading tags; Onboardbase
  that of decrypting a value; GitLab that of extracting from a group variable, and it
  stores a variable that does not match under the empty name;
* GitLab panics when the reply to a read is lost (`resp` is nil, lines 327 and 472) or
  when that of a variable can not be decoded; and the environment of a find by tags stays
  in the client (line 218), so that later reads of the same reconcile are limited to it;
* Azure replaces a tag with a JSON value by its fields, and looks a single tag up under
  the key with its prefix: `secret/name` with a property never finds one, and the result is
  an empty value without an error (`keyvault.go:738`);
* Vault leaves the label of a push that got no further when the PushSecret is deleted;
  Vault and Parameter Store re-create a secret that was deleted during the push without
  the mark.

Authentication and sessions:

* for Vault, Akeyless and webhook, a SecretStore's CA ConfigMap is read in whichever
  namespace the spec names, while `secretstore_types.go:159-162` limits the field to a
  ClusterSecretStore; Vault's `isReferentSpec` forgets the client certificate's key;
* Alibaba, Onboardbase and Akeyless take one key from the Secret another reference
  names;
* admitted by the webhook and refused or fatal later: Azure without authType, AWS JWT
  without a service account, GCP without a project, and selectors in Senhasegura, Yandex
  and webhook stores and in the client key of Kubernetes stores;
* Kubernetes and Oracle answer Unknown together with an error, which counts as valid;
* a client of Alibaba, GitLab, IBM or 1Password changes credentials when another
  one is made; Yandex connections are shared by endpoint, fake data by store name;
* with the experimental Vault cache: an evicted client's token is revoked under the
  reconcile that uses it, one of two clients made at the same time is not cached and its
  token stays, and a referent ClusterSecretStore hands the token of one namespace to
  the next; while Vault hangs during an eviction, the cache is locked;
* with the AWS session cache: the chain of roles grows with each reconcile, and rotated
  credentials are not seen until the store is edited.

### Why the bounds are enough

Two ExternalSecrets are enough for every conflict over a Secret, since a conflict
is between the reader of a copy and one other writer. Two keys tell "some data
missing" from "all data missing"; two values tell old from new (only the liveness
runs need the second). One failing call and two or three outside steps put an
error, an edit and a race into one behaviour; every counterexample above needs at
most that. One ClusterExternalSecret and one namespace suffice for `ces` because
its namespaces share nothing but the list of provisioned ones. `cm` has two GCP stores, so that a
reconcile can need a second client of the type it already holds, and one store
that needs no lock. Two CRDs are two concurrent rotations, and three ticks with
certificates valid for two are more than one renewal; one failure or edit per
behaviour keeps the run in its time. Three secrets on two pages are a match that is
read, one that is not reached yet, and one that does not match; two operations tell a
cached value from a new one (a GitLab client is used again after a find that nobody
disturbed: edits and faults before the second operation only give another initial state). Two namespaces tell a store's own from any other. A
cache of one entry is full at once, so that the second store evicts the first. The
proofs do not depend on any of these bounds.

### Deadlock

`CHECK_DEADLOCK FALSE` stands where the system may stop: with refreshInterval 0,
or when all objects are deleted, nothing is queued and the bounded environment has
no steps left; after a panic the process is gone. The client, the
plans and the sessions end when their operations are used up. `certs` leaves the check
on.

### Fairness

* `SF(Begin)`: a queued key is enabled only while a worker is free; the workqueue
  is first in first out, so a key that is ready again and again is served. With one
  PushSecret, weak fairness is enough.
* `WF(InFlight)`, `WF(Reconcile)`, `WF(Step)`, `WF(Done)`: a running goroutine goes
  on; API calls return or fail.
* `SF(Lock)` in `ClientManager`: `sync.Mutex` hands over to a waiter that starves.
* `WF(InformerSync)`, `WF(CacheES)`, `WF(TimerFires)`, `WF(IntervalElapses)`,
  `WF(GarbageCollect)`: watches deliver, timers fire, time passes, Kubernetes
  collects.

* in `CertController`, `WF` of each CRD's reconcile and of the configuration's
  (watch, retry and `RequeueAfter` bring them back), of the kubelet's sync, the webhook's
  ticker and the restart of an exited container.

Users, providers, faults and restarts of the operator have no fairness, and no run assumes that a
failing call eventually succeeds beyond the bound on faults.

## 4. Proofs

For every value of the constants, from the named assumptions in the modules:

| Assumption | Says |
|---|---|
| `ConstantsAssumption`, `ManagerAssumption`, `PushAssumption`, `ClusterAssumption` | the constants have their types, the special values differ from the ordinary ones |
| `CrdsAssumption` | finitely many CRDs, none named like the other parties |
| `CAIdsAssumption` | there are more names for CAs than can be held at once by the Secret, the jobs, the CRDs, the configuration, the volume and the webhook, so a new CA never takes a name in use |
| `ValidityAssumption`, `BoundsAssumption` | a certificate outlives the lookahead; the bounds are numbers |
| `SessionBounds`, `SessionKinds` | the bounds are numbers, and an IAM token lives longer than a client that holds it; providers and methods are those modelled, and no store has the empty name |
| `AuthAssumption` | the providers examined are some of those modelled |
| `NamesAssumption`, `ClientAssumption` | the secret asked for, the first page and what a find selects are among the keys, `"none"` is no key; the providers are some of those modelled; the bounds are numbers |

None bounds the number of objects, stores, workers, edits or faults.

| Module | Theorems |
|---|---|
| `ExternalSecretProofs` | `TypeCorrect`, `DeletionsAreJustified`, `OwnersAreRespected`, `SyncedMeansApplied` |
| `ClientManagerProofs` | `TypeCorrect`, `AtMostOneConnection`, `AllClosed`, `UnlockedOnce` |
| `PushSecretProofs` | `TypeCorrect`, `NothingLosesTrack`, `FinalizerGuards` |
| `ClusterExternalSecretProofs` | `TypeCorrect`, `OwnersNeverChange` |
| `CertControllerProofs` | `GoodCAIsKept`, `AllAgree`, `ServedInItsDates` |
| `SessionsProofs` | `SessionsAreOwn`, `TokensAreValid`, `RolesAreAssumed`, `NoTokenIsLeft` |
| `StoreAuthProofs` | `LookupsConfined`, `AdmittedStoresRun`, `CredentialsAreOwn`, `ReadyStoresAreUsable` |
| `SecretsClientProofs` | `PromiseIsKept`, `WritesAreEffective`, `RetryIsPossible`, `AbsenceIsJustified`, `ResultsAreJustified`, `FindsAreComplete` |

Each module proves `Spec => []IInv` for an inductive invariant with one lemma per
group of actions, and derives the rest from it; where one invariant needs another
they come in layers, each proved with the help of the one before. TLC has checked
every inductive invariant on the instance of the module's run.

* **ExternalSecret.** `OwnerRespected` speaks of the Secret at the server, the code
  checks a copy: `Snapshot` says the copy equals the Secret unless the reconcile is
  in `behind`, `OwnerChecked` that the copy passed the check, `GoneUnowned` that a
  missing Secret has no owner. `DeleteJustified` needs to know why a ref gave no
  data: `MissingWasAbsent` says that each ref that is done with and gave nothing was seen
  missing, a get by its key and a find by one or all of its keys, and `AbsentSeen` that the
  history variable knows what was absent. `FoundToMerge` (a reconcile that merges has
  found the Secret) is for the type of a Secret's creator. `SyncedRevisionApplied` has a
  layer of its own, `SInv`: `OrderInv` says that the copies in the cache and in a
  reconcile are never newer than the server's object and never older than the synced
  revision, and that one revision is one spec; `FetchedKeys` that a reconcile holds
  only keys of the spec it read; `Pending` that the revision a status patch is about to
  claim has been applied, `SyncedApplied` that the claimed one has.
* **ClientManager.** `HolderIsClient` ties the mutex to the one client that is open
  or under construction, `MapIsOpened` the map to the open clients, `SlotEmpty` says
  that a client is built only into an empty slot (so none is lost from the map),
  `IdleIsClosed` and `Resolved` complete it. The failed placeholder is part of it: the
  process that has it still holds the mutex (`NilIsLast`: it asks for nothing more, since
  it validates one store and then closes; `OneRef`), and its `Close` ends in the panic, so
  that nothing is unlocked twice.
* **PushSecret.** `CleanIsSound` describes the middle of a cleanup: what has been
  worked off is gone, only gone pairs have left the list, what was pushed is still on
  it. `ReleaseIsSound` carries that to the removal of the finalizer, where the
  accepted Update means that the copy *is* the server's object; `PushIsNoCleanup`
  says that a reconcile that pushes is not the final cleanup.
* **ClusterExternalSecret.** `AtNamespace` says that a reconcile at work on an
  ExternalSecret knows the namespace. `OwnerNeverChanges` then follows step by step:
  a Create needs a free name, an Update the server's copy, and the mutate function
  leaves the owner alone.
* **CertController.** `GoodCAKept` speaks of the Secret, the decision to replace it
  was made on a copy: `ReadIsCurrent` says that a copy that is not stale is the
  present Secret and `WriteJustified` that a pending write from such a copy replaces
  the CA only if that is bad; the optimistic lock refuses the writes from stale ones.
  `BundlesCurrent`, `ConfigCurrent`, `FilesSynced` and `ServesFiles` say what follows
  from a completed round for each party, which gives `Agreement`. `HeldIsGood`,
  `CheckedIsGood`, `SecretUnexpired` and `StaleNotFresh` count lookahead periods: what
  was good at the last round is not expired before the next one is due. `CAFromCRD`
  covers the cluster without CRDs.
* **Sessions.** Three layers. The first ties each reconcile's work, each token and each
  cache entry to the store and revision they were made for. The second adds what
  reconciles do to each other: without the cache a client belongs to one reconcile,
  and always a token to one client (`OwnClients`, `OwnTokens`); the token lives while it
  is used (`TokenOutlives`, `VaultTokenValid`), and the roles are assumed in order
  (`RolesInOrder`). The third accounts for the tokens: an entry per key and no more
  than the cache may hold (`OneEntry`, `Bounded`), what a reconcile works with is in the
  cache (`ClientCached`), every valid token from a login is in the cache (in use, without
  one) or being revoked (`Accounted`, `LoginDue`, `ClearDue`).
* **StoreAuth.** The plans are data. A lemma per provider shows that every plan of
  `NewClient` and `Validate` consists of `Allowed` steps: a read is where the store
  may look and for the field the reference belongs to, an error of the spec only if
  the webhook did not vet the store. `Inv` says that a worker has the rest of such a
  plan before it, and what its reads so far were. `Inv2` follows the credentials: each
  is the store's `Own` or still to be replaced (`Pending`), what a plan takes over has
  been read before (`Grounded`), the registered provider holds what the last client
  read (`Sharing`), and the connection of a Yandex store has the CA of the store that
  made it (`Connected`, `GetterOwn`). `Inv3` follows the values. A step `Opens` a
  field when it may leave it empty (a look-up, a key taken from a Secret), `Vouches`
  for it when it goes on only with a value there (a check, a token, a step that ends the
  plan), and a login `Settles` what is there, since no backend accepts an empty
  credential. A plan is `Secured` for a field when whatever it opens is settled later
  and an untouched field is touched. A second lemma per provider shows this
  of `NewClient` alone for the four singletons, and of `NewClient` followed by the
  calls of `Validate` for the others: for AWS and Vault only the login of `Validate`
  settles what `NewClient` read. `Publishing` carries it to the registered provider of a
  singleton, whose two stores refer to the same things (`Alike`); `Excused` says that
  a client goes without credentials only where the store leaves them to each
  ExternalSecret. Kubernetes and Oracle stores stay Ready when a call of `Validate` fails
  (`Unknown`): by then nothing is left to settle.
* **SecretsClient.** Three lemmas say for each provider what its calls do: `PushLooks`
  and `DeleteLooks` where a lookup leads, `Effects` what a write leaves behind. `Licence`
  says that a push or a delete comes to a write only if the secret was free at some
  moment (Keeper's create excepted, which makes a second record); `Undisturbed` that,
  as long as nobody edits, what was found is still there with its mark and everything
  written is free; `Looked` that the object of the first call was really seen, `Valueless`
  that a secret without a version was made by a push, or is a disabled one of Azure, `Done` that what is reported has
  been done. For `PromiseIsKept` every step is mapped: `Begin` of a push or a delete
  is `Start`, `WriteOk` is `Write` (a stutter when Keeper duplicates), an edit is a step
  of the others, and all other steps stutter. Reads and finds have a second layer,
  `RInv`. `Gets` and `GetMaps` say for every provider what one answer becomes: an
  error, a part of the very secret that was answered, or `NoSecretErr` when the answer
  says that it is missing. `Remembered` says that the cache of AWS Secrets
  Manager holds only what was seen, `FromProject` what a GitLab read carries from the
  project to the groups, `Unfound` why the project had no variable with the environment
  or with the scope `*`, `Candidates` that a find reads only names it selects.
  `FoundOnly` and `FoundAll` are the loop invariant of the finds: what has been
  collected is selected and was there, and each secret that is `Wanted` (selected,
  visible and steady) is collected or still `Ahead` (to be read, on the second page,
  in the second vault, in the project), or `Dropped` after a failing call. An edit can only take a secret out of `Wanted`,
  so edits in between lose none.

Checked by TLC and not proved: the liveness properties (fairness and `ENABLED` are
beyond the prover): `Converges`, `Repaired`, `NoDanglingSecret`, `MergeConverges`,
`EveryReconcileEnds`, `DeletionCompletes` and `AllProvisioned`. Every other property of
a passing run is a theorem.
No module uses a `RECURSIVE` operator.

## 5. Not modelled, and the plan

Not modelled on purpose: metrics, logging, request building and response parsing of
the providers, the template language (v1 and v2), flags, rewriting, decoding and
conversion of keys and values (functions over strings), the conversion between API
versions and the validation of ExternalSecrets (no state), the generated deep copies.
Assumptions of the present modules: the refresh interval of a PushSecret
and of a ClusterExternalSecret is not 0; nobody else puts finalizers on the objects;
`PushSecret` makes a provider's managed-by check and its write one step (`SecretsClient`
takes them apart); the list of namespaces is read as it is. The rest is named with the
modules in section 2.

What is left, in order:

1. `StoreAuth`'s Ready condition in place of the `access` variable of `ExternalSecret`.
2. The status lists of `ClusterExternalSecret`.
3. An abstract specification of one connection at a time, implemented by
   `ClientManager`.
