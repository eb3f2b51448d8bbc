--------------------------- MODULE CertController ---------------------------
(***************************************************************************)
(* The certificate controller and the webhook process it serves.           *)
(*                                                                         *)
(* One Secret holds a self-signed CA and a server certificate.  Every CRD  *)
(* reconcile reads it, renews what will not be valid 90 days from now,     *)
(* stores the result under the optimistic lock and puts the CA into the    *)
(* CRD's conversion webhook; the webhookconfig controller puts it into the *)
(* admission webhooks.  The webhook process reads the certificates from a  *)
(* volume that the kubelet copies from the Secret.                         *)
(*                                                                         *)
(* Time is counted in lookahead periods.  The requeue interval and the     *)
(* webhook's ticker (five minutes) are tiny against it, so the clock       *)
(* advances only when everyone completed a round since the last tick.      *)
(***************************************************************************)
EXTENDS Naturals, FiniteSets

CONSTANTS Crds,       \* CrdResources, the CRDs the controller injects
          CAIds,      \* identities of CA key pairs
          Validity,   \* certValidityDuration, in lookahead periods
          MaxTime, MaxTroubles   \* bounds: clock; failures and edits together

ASSUME CrdsAssumption ==
    IsFiniteSet(Crds) /\ Crds \cap {"config", "kubelet", "webhook"} = {}
ASSUME CAIdsAssumption ==
    /\ CAIds \subseteq Nat \ {0} /\ IsFiniteSet(CAIds)
    /\ Cardinality(CAIds) > 2 * Cardinality(Crds) + 5
ASSUME ValidityAssumption == Validity \in Nat /\ Validity > 1
ASSUME BoundsAssumption == MaxTime \in Nat /\ MaxTroubles \in Nat

VARIABLES now,      \* the clock
          secret,   \* the certificate Secret
          crd,      \* the CRDs
          cfg,      \* CA bundle of the ValidatingWebhookConfiguration
          job,      \* the reconcile of each CRD
          cjob,     \* the reconcile of the webhook configuration
          ready,    \* readyStatusMap, and the flag of the webhookconfig controller
          files,    \* the certificates on the webhook's volume
          web,      \* the webhook process and the pair it serves
          fresh,    \* who completed a round on the current Secret since the last tick
          troubles  \* failures and edits so far

vars == <<now, secret, crd, cfg, job, cjob, ready, files, web, fresh, troubles>>

-----------------------------------------------------------------------------
None == 0
Lookahead == 1

\* The CA (with its key) and the server certificate; 0 stands for absent.
NoData == [ca |-> None, caEnd |-> 0, by |-> None, end |-> 0]

NoJob == [pc |-> "idle", sec |-> NoData, secStale |-> FALSE, crdStale |-> FALSE]
NoCJob == [pc |-> "idle", sec |-> NoData, secStale |-> FALSE, cfgStale |-> FALSE]

Config == "config"
Parties == Crds \cup {Config, "kubelet", "webhook"}

\* The chart installs an empty Secret and CRDs with placeholder bundles.
Init ==
    /\ now = 0 /\ secret = NoData
    /\ crd = [c \in Crds |-> [conv |-> TRUE, svc |-> FALSE, bundle |-> None]]
    /\ cfg = None
    /\ job = [c \in Crds |-> NoJob] /\ cjob = NoCJob
    /\ ready = [k \in Crds \cup {Config} |-> FALSE]
    /\ files = NoData /\ web = [pc |-> "waiting", serves |-> NoData]
    /\ fresh = {} /\ troubles = 0

-----------------------------------------------------------------------------
(* Certificates *)

\* ValidCert of the CA against itself.
ValidCA(d, at) == d.ca # None /\ at <= d.caEnd

ServerDatesOnly(d, at) == d.ca # None /\ d.by = d.ca /\ at <= d.end

\* ValidCert of the server certificate: signed by the CA, both in their dates.
ValidCert(d, at) == ValidCA(d, at) /\ d.by = d.ca /\ at <= d.end

InUse == {secret.ca, files.ca, web.serves.ca, cfg, cjob.sec.ca}
            \cup {job[c].sec.ca : c \in Crds} \cup {crd[c].bundle : c \in Crds}

\* A key pair is new: nothing in the cluster has its public key yet.
NewCA == CHOOSE i \in CAIds : i \notin InUse

\* refreshCerts(true): a new CA and a server certificate it signs.
CreateCACert == LET i == NewCA IN
    [ca |-> i, caEnd |-> now + Validity, by |-> i, end |-> now + Validity]

\* refreshCerts(false): a new server certificate of the stored CA.
CreateCertPEM(d) == [d EXCEPT !.by = d.ca, !.end = now + Validity]

IgnoresDates(d) == d.by = None
NeedsRefresh(d) == ~ValidCert(d, now + Lookahead)

refreshCerts(d) == IF ValidCA(d, now + Lookahead) THEN CreateCertPEM(d) ELSE CreateCACert

-----------------------------------------------------------------------------
(* The CRD controller *)

SetReady(k, on) == ready' = [ready EXCEPT ![k] = on]

Trouble == troubles < MaxTroubles /\ troubles' = troubles + 1

FailJob(c) == /\ job' = [job EXCEPT ![c] = NoJob]
              /\ SetReady(c, FALSE)
              /\ UNCHANGED <<now, crd, cfg, cjob, files, web>>

GetSecret(c) ==
    /\ job[c].pc = "idle"
    /\ job' = [job EXCEPT ![c] = [NoJob EXCEPT !.pc = "secret", !.sec = secret]]
    /\ UNCHANGED <<now, secret, crd, cfg, cjob, ready, files, web, fresh, troubles>>

\* The CRD has no conversion webhook: injectService returns an error.
RejectCRD(c) ==
    /\ job[c].pc = "secret" /\ ~crd[c].conv
    /\ FailJob(c) /\ UNCHANGED <<secret, fresh, troubles>>

\* Get the CRD, inject the service, and decide in memory whether to renew.
GetCRD(c) ==
    /\ job[c].pc = "secret" /\ crd[c].conv
    /\ job' = [job EXCEPT ![c].crdStale = FALSE,
                  ![c].pc = IF NeedsRefresh(job[c].sec) THEN "write" ELSE "update",
                  ![c].sec = IF NeedsRefresh(@) THEN refreshCerts(@) ELSE @]
    /\ UNCHANGED <<now, secret, crd, cfg, cjob, ready, files, web, fresh, troubles>>

\* A copy of the Secret, the CRD or the configuration taken before it changed.
SecretOutdated(j) == [j EXCEPT !.secStale = j.pc \notin {"idle", "config"}]
CRDOutdated(j) == [j EXCEPT !.crdStale = j.pc \in {"write", "update"}]
CfgOutdated(j) == [j EXCEPT !.cfgStale = j.pc # "idle"]

Store(c, d) ==
    /\ secret' = d
    /\ fresh' = {}
    /\ job' = [k \in Crds |-> IF k = c THEN [job[k] EXCEPT !.pc = "update", !.secStale = FALSE]
                              ELSE SecretOutdated(job[k])]
    /\ cjob' = SecretOutdated(cjob)
    /\ UNCHANGED <<now, crd, cfg, ready, files, web, troubles>>

StoreUnlocked(c) == job[c].pc = "write" /\ Store(c, job[c].sec)

writeSecret(c) == job[c].pc = "write" /\ ~job[c].secStale /\ Store(c, job[c].sec)

\* Somebody wrote the Secret since it was read: Update answers with a conflict.
WriteConflict(c) ==
    /\ job[c].pc = "write" /\ job[c].secStale
    /\ FailJob(c) /\ UNCHANGED <<secret, fresh, troubles>>

\* The Update is applied and its answer is lost.
WriteLost(c) ==
    /\ job[c].pc = "write" /\ ~job[c].secStale /\ Trouble
    /\ secret' = job[c].sec /\ fresh' = {}
    /\ job' = [k \in Crds |-> IF k = c THEN NoJob ELSE SecretOutdated(job[k])]
    /\ cjob' = SecretOutdated(cjob)
    /\ SetReady(c, FALSE)
    /\ UNCHANGED <<now, crd, cfg, files, web>>

UpdateCRDNoBundle(c) ==
    /\ job[c].pc = "update" /\ ~job[c].crdStale
    /\ crd' = [crd EXCEPT ![c].svc = TRUE]
    /\ SetReady(c, TRUE)
    /\ fresh' = IF job[c].secStale THEN fresh ELSE fresh \cup {c}
    /\ job' = [job EXCEPT ![c] = NoJob]
    /\ UNCHANGED <<now, secret, cfg, cjob, files, web, troubles>>

\* injectCert and the Update of the CRD, which ends the reconcile.
UpdateCRD(c) ==
    /\ job[c].pc = "update" /\ ~job[c].crdStale
    /\ crd' = [crd EXCEPT ![c].svc = TRUE, ![c].bundle = job[c].sec.ca]
    /\ SetReady(c, TRUE)
    /\ fresh' = IF job[c].secStale THEN fresh ELSE fresh \cup {c}
    /\ job' = [job EXCEPT ![c] = NoJob]
    /\ UNCHANGED <<now, secret, cfg, cjob, files, web, troubles>>

UpdateConflict(c) ==
    /\ job[c].pc = "update" /\ job[c].crdStale
    /\ FailJob(c) /\ UNCHANGED <<secret, fresh, troubles>>

\* Any call fails before it has an effect, or a cached CRD was stale.
FailCall(c) ==
    /\ job[c].pc # "idle" /\ Trouble
    /\ FailJob(c) /\ UNCHANGED <<secret, fresh>>

-----------------------------------------------------------------------------
(* The webhookconfig controller *)

GetConfig ==
    /\ cjob.pc = "idle"
    /\ cjob' = [NoCJob EXCEPT !.pc = "config"]
    /\ UNCHANGED <<now, secret, crd, cfg, job, ready, files, web, fresh, troubles>>

\* updateConfig reads the Secret: without ca.crt it fails and is tried again.
ReadCA ==
    /\ cjob.pc = "config"
    /\ cjob' = IF secret.ca = None THEN NoCJob
               ELSE [cjob EXCEPT !.pc = "update", !.sec = secret, !.secStale = FALSE]
    /\ UNCHANGED <<now, secret, crd, cfg, job, ready, files, web, fresh, troubles>>

\* inject and Update; the ready flag is set here and never cleared.
UpdateConfig ==
    /\ cjob.pc = "update" /\ ~cjob.cfgStale
    /\ cfg' = cjob.sec.ca
    /\ SetReady(Config, TRUE)
    /\ fresh' = IF cjob.secStale THEN fresh ELSE fresh \cup {Config}
    /\ cjob' = NoCJob
    /\ UNCHANGED <<now, secret, crd, job, files, web, troubles>>

ConfigFails ==
    /\ cjob.pc # "idle"
    /\ \/ cjob.cfgStale /\ UNCHANGED troubles
       \/ Trouble
    /\ cjob' = NoCJob
    /\ UNCHANGED <<now, secret, crd, cfg, job, ready, files, web, fresh>>

\* The process restarts: no reconcile and no readiness survives.
Crash ==
    /\ Trouble
    /\ job' = [c \in Crds |-> NoJob] /\ cjob' = NoCJob
    /\ ready' = [k \in Crds \cup {Config} |-> FALSE]
    /\ UNCHANGED <<now, secret, crd, cfg, files, web, fresh>>

-----------------------------------------------------------------------------
(* The webhook process *)

\* The kubelet copies the Secret to the volume; the certificate watcher of the
\* running server loads the pair if it parses and keeps the old one otherwise.
SyncFiles ==
    /\ files' = secret
    /\ web' = IF web.pc = "up" /\ secret.by # None THEN [web EXCEPT !.serves = secret] ELSE web
    /\ fresh' = fresh \cup {"kubelet"}
    /\ UNCHANGED <<now, secret, crd, cfg, job, cjob, ready, troubles>>

\* The files exist and hold a valid pair.
CheckCerts(at) == ValidCert(files, at)

\* waitForCerts polls the files, with an hour's lookahead, for two minutes.
waitForCerts ==
    /\ web.pc = "waiting"
    /\ web' = IF CheckCerts(now) THEN [pc |-> "up", serves |-> files]
              ELSE [web EXCEPT !.pc = "exited"]
    /\ UNCHANGED <<now, secret, crd, cfg, job, cjob, ready, files, fresh, troubles>>

\* The ticker checks the files with the full lookahead and cancels the manager.
Ticker ==
    /\ web.pc = "up"
    /\ IF CheckCerts(now + Lookahead)
         THEN web' = web /\ fresh' = fresh \cup {"webhook"}
         ELSE web' = [pc |-> "exited", serves |-> NoData] /\ UNCHANGED fresh
    /\ UNCHANGED <<now, secret, crd, cfg, job, cjob, ready, files, troubles>>

Restart ==
    /\ web.pc = "exited"
    /\ web' = [pc |-> "waiting", serves |-> NoData]
    /\ UNCHANGED <<now, secret, crd, cfg, job, cjob, ready, files, fresh, troubles>>

-----------------------------------------------------------------------------
(* The environment *)

Tick ==
    /\ now < MaxTime /\ fresh = Parties
    /\ now' = now + 1 /\ fresh' = {}
    /\ UNCHANGED <<secret, crd, cfg, job, cjob, ready, files, web, troubles>>

\* Somebody empties the Secret or replaces the server certificate.
TamperSecret ==
    /\ Trouble
    /\ secret' \in {NoData, [secret EXCEPT !.by = None]} /\ secret' # secret
    /\ fresh' = {}
    /\ job' = [k \in Crds |-> SecretOutdated(job[k])] /\ cjob' = SecretOutdated(cjob)
    /\ UNCHANGED <<now, crd, cfg, ready, files, web>>

\* An upgrade of the chart puts the placeholders back, or drops the conversion.
EditCRD(c) ==
    /\ Trouble
    /\ \E v \in BOOLEAN : crd' = [crd EXCEPT ![c] = [conv |-> v, svc |-> FALSE, bundle |-> None]]
    /\ fresh' = fresh \ {c}
    /\ job' = [job EXCEPT ![c] = CRDOutdated(@)]
    /\ UNCHANGED <<now, secret, cfg, cjob, ready, files, web>>

EditConfig ==
    /\ Trouble
    /\ cfg' = None
    /\ fresh' = fresh \ {Config}
    /\ cjob' = CfgOutdated(cjob)
    /\ UNCHANGED <<now, secret, crd, job, ready, files, web>>

-----------------------------------------------------------------------------
CRDStep(c) == \/ GetSecret(c) \/ RejectCRD(c) \/ GetCRD(c) \/ writeSecret(c)
              \/ WriteConflict(c) \/ UpdateCRD(c) \/ UpdateConflict(c)

ConfigStep == GetConfig \/ ReadCA \/ UpdateConfig \/ (cjob.cfgStale /\ ConfigFails)

Next == \/ \E c \in Crds : CRDStep(c) \/ WriteLost(c) \/ FailCall(c) \/ EditCRD(c)
        \/ GetConfig \/ ReadCA \/ UpdateConfig \/ ConfigFails \/ Crash
        \/ SyncFiles \/ waitForCerts \/ Ticker \/ Restart
        \/ Tick \/ TamperSecret \/ EditConfig

Spec == Init /\ [][Next]_vars

\* The work queue hands out every CRD and the configuration again and again
\* (watch events, retries, RequeueAfter); the kubelet keeps syncing the volume,
\* the ticker keeps ticking, and an exited container is restarted.
Fairness == /\ \A c \in Crds : WF_vars(CRDStep(c))
            /\ WF_vars(ConfigStep) /\ WF_vars(SyncFiles)
            /\ WF_vars(waitForCerts) /\ WF_vars(Ticker) /\ WF_vars(Restart)

FairSpec == Spec /\ Fairness

-----------------------------------------------------------------------------
(* Properties *)

\* However many CRDs are reconciled at once, a CA that is still valid for the
\* lookahead period is never replaced: the second of two concurrent rotations
\* loses on the optimistic lock (writeSecret).
GoodCAKept ==
    [][secret'.ca # secret.ca /\ ValidCA(secret, now + Lookahead) => secret' = NoData]_vars

\* Once every CRD, the webhook configuration, the volume and the webhook have
\* completed a round on the present Secret, they all hold the same CA, and the
\* certificate that is served is signed by it and good for a lookahead period.
Agreement ==
    fresh = Parties =>
        /\ \A c \in Crds : crd[c].conv => crd[c].svc /\ crd[c].bundle = secret.ca
        /\ cfg = secret.ca
        /\ ValidCert(secret, now + Lookahead)
        /\ files = secret /\ web.serves = secret

\* The lookahead leaves time to renew: a running webhook never serves a certificate
\* that has expired or whose CA has, whatever is done to the Secret in between.
NeverServesExpired ==
    web.pc = "up" => LET d == web.serves IN
        d.ca # None /\ d.by = d.ca /\ now <= d.caEnd /\ now <= d.end

\* The readiness probes of the certificate controller: every CRD and the webhook
\* configuration injected, and a webhook endpoint that passes its own probe.
ReadyCheck == (\A k \in Crds \cup {Config} : ready[k]) /\ web.pc = "up" /\ CheckCerts(now)

\* Rotations, conflicts, lost replies, tampering and crashes come to an end with
\* all bundles, the files and the running webhook on one valid CA, and ready.
Converges ==
    <>[](\A c \in Crds : crd[c].conv) =>
        <>[](/\ ReadyCheck
             /\ \A c \in Crds : crd[c].svc /\ crd[c].bundle = web.serves.ca
             /\ cfg = web.serves.ca)
=============================================================================
