------------------------ MODULE CertControllerProofs ------------------------
(***************************************************************************)
(* For any number of CRDs, whatever is done to the Secret and however the  *)
(* reconciles interleave: a CA that is good for the lookahead period is    *)
(* never replaced, a running webhook never serves an expired certificate,  *)
(* and once everyone has completed a round on the present Secret they all  *)
(* hold the same, valid CA.                                                *)
(***************************************************************************)
EXTENDS CertController, FiniteSetTheorems, TLAPS

CertData == [ca : CAIds \cup {None}, caEnd : Nat, by : CAIds \cup {None}, end : Nat]

Jobs == [pc : {"idle", "secret", "write", "update"}, sec : CertData,
         secStale : BOOLEAN, crdStale : BOOLEAN]
CJobs == [pc : {"idle", "config", "update"}, sec : CertData,
          secStale : BOOLEAN, cfgStale : BOOLEAN]

\* Types of the variables.
Types ==
    /\ now \in Nat /\ secret \in CertData /\ files \in CertData
    /\ crd \in [Crds -> [conv : BOOLEAN, svc : BOOLEAN, bundle : CAIds \cup {None}]]
    /\ cfg \in CAIds \cup {None}
    /\ job \in [Crds -> Jobs] /\ cjob \in CJobs
    /\ web \in [pc : {"waiting", "up", "exited"}, serves : CertData]
    /\ fresh \subseteq Parties

Good == ValidCert(secret, now + Lookahead)

\* A reconcile that has seen the present Secret holds it.
ReadIsCurrent ==
    \A c \in Crds : job[c].pc \in {"secret", "update"} /\ ~job[c].secStale => job[c].sec = secret

ConfigCurrent == cjob.pc = "update" /\ ~cjob.secStale => cjob.sec = secret

\* What is about to be stored is good, and is needed: a new certificate because
\* the present one is not good, a new CA because the present CA is not.
WriteJustified ==
    \A c \in Crds : job[c].pc = "write" /\ ~job[c].secStale =>
        /\ ~Good /\ ValidCert(job[c].sec, now + Lookahead)
        /\ job[c].sec.ca = secret.ca \/ ~ValidCA(secret, now + Lookahead)

\* Whoever counts as fresh is not working with an older copy.
StaleNotFresh ==
    /\ \A c \in Crds : job[c].secStale => c \notin fresh
    /\ cjob.secStale => Config \notin fresh

\* The CRD was reconciled, or is about to be, with the present Secret.
Held(c) == c \in fresh \/ (job[c].pc = "update" /\ ~job[c].secStale)

\* A Secret found good before the last tick is still valid, and on the volume.
HeldIsGood ==
    \A c \in Crds : Held(c) => Good \/ (files = secret /\ ValidCert(secret, now))

\* When the ticker has looked at the files, the Secret in use is good.
CheckedIsGood == "webhook" \in fresh => \A c \in Crds : Held(c) => Good
WebhookUp == "webhook" \in fresh /\ Good => web.pc = "up" /\ ValidCert(files, now + Lookahead)

BundlesCurrent ==
    /\ \A c \in Crds : c \in fresh /\ crd[c].conv => crd[c].svc /\ crd[c].bundle = secret.ca
    /\ Config \in fresh => cfg = secret.ca
FilesSynced == "kubelet" \in fresh => files = secret
ServesFiles == web.pc = "up" /\ files.by # None => web.serves = files

\* A server certificate in the Secret is in its dates.
SecretUnexpired == secret.by # None => ValidCert(secret, now)

\* Without CRDs nobody creates a CA.
CAFromCRD == Crds = {} => secret.ca = None /\ cjob.pc # "update" /\ Config \notin fresh

IInv == /\ Types /\ ReadIsCurrent /\ ConfigCurrent /\ WriteJustified /\ StaleNotFresh
        /\ HeldIsGood /\ CheckedIsGood /\ WebhookUp
        /\ BundlesCurrent /\ FilesSynced /\ ServesFiles
        /\ SecretUnexpired /\ CAFromCRD /\ NeverServesExpired
-----------------------------------------------------------------------------
(* The image of the CRDs under a function is no larger than the CRDs.      *)
LEMMA ImageOfCrds ==
    ASSUME NEW f, f \in [Crds -> CAIds \cup {None}]
    PROVE  LET T == {f[c] : c \in Crds}
           IN  IsFiniteSet(T) /\ Cardinality(T) <= Cardinality(Crds)
<1> DEFINE T == {f[c] : c \in Crds}
<1>1. f \in Surjection(Crds, T) BY DEF Surjection
<1>2. IsFiniteSet(Crds) BY CrdsAssumption DEF CrdsAssumption
<1> QED BY <1>1, <1>2, FS_Surjection

(* Sizes of sets put together.                                             *)
LEMMA SizeOfFive ==
    ASSUME NEW a, NEW b, NEW c, NEW d, NEW e
    PROVE  IsFiniteSet({a, b, c, d, e}) /\ Cardinality({a, b, c, d, e}) <= 5
<1> DEFINE T == {a, b, c, d, e}
           f == [i \in 1..5 |-> IF i = 1 THEN a ELSE IF i = 2 THEN b ELSE IF i = 3 THEN c
                                ELSE IF i = 4 THEN d ELSE e]
<1>1. f \in Surjection(1..5, T)
  <2>1. f \in [1..5 -> T] OBVIOUS
  <2>2. f[1] = a /\ f[2] = b /\ f[3] = c /\ f[4] = d /\ f[5] = e OBVIOUS
  <2>3. \A t \in T : t = a \/ t = b \/ t = c \/ t = d \/ t = e OBVIOUS
  <2>4. 1 \in 1..5 /\ 2 \in 1..5 /\ 3 \in 1..5 /\ 4 \in 1..5 /\ 5 \in 1..5 OBVIOUS
  <2> HIDE DEF f, T
  <2>5. \A t \in T : \E i \in 1..5 : f[i] = t BY <2>2, <2>3, <2>4
  <2> QED BY <2>1, <2>5 DEF Surjection
<1>2. IsFiniteSet(1..5) /\ Cardinality(1..5) = 5
  <2>1. IsFiniteSet(1..5) /\ Cardinality(1..5) = IF 1 > 5 THEN 0 ELSE 5 - 1 + 1
    <3>1. 1 \in Int /\ 5 \in Int OBVIOUS
    <3> QED BY <3>1, FS_Interval, Zenon
  <2> QED BY <2>1
<1> HIDE DEF f
<1> QED BY <1>1, <1>2, FS_Surjection

LEMMA SizeOfUnion ==
    ASSUME NEW S, NEW T, NEW k \in Nat, NEW m \in Nat,
           IsFiniteSet(S), Cardinality(S) <= k, IsFiniteSet(T), Cardinality(T) <= m
    PROVE  IsFiniteSet(S \cup T) /\ Cardinality(S \cup T) <= k + m
<1>1. IsFiniteSet(S \cap T) BY FS_Subset
<1>2. Cardinality(S \cap T) \in Nat /\ Cardinality(S) \in Nat /\ Cardinality(T) \in Nat
  BY <1>1, FS_CardinalityType
<1>3. IsFiniteSet(S \cup T)
      /\ Cardinality(S \cup T) = Cardinality(S) + Cardinality(T) - Cardinality(S \cap T)
  BY FS_Union
<1> QED BY <1>2, <1>3

(* refreshCerts(true) always finds a key pair nobody has: there are more   *)
(* identities than places that hold one.                                   *)
LEMMA NewCAType == ASSUME Types PROVE NewCA \in CAIds /\ NewCA \notin InUse
<1> DEFINE A == {secret.ca, files.ca, web.serves.ca, cfg, cjob.sec.ca}
           J == {job[c].sec.ca : c \in Crds}
           B == {crd[c].bundle : c \in Crds}
           n == Cardinality(Crds)
<1>0. n \in Nat /\ IsFiniteSet(CAIds) /\ Cardinality(CAIds) > 2 * n + 5
      /\ Cardinality(CAIds) \in Nat
  BY CrdsAssumption, CAIdsAssumption, FS_CardinalityType DEF CrdsAssumption, CAIdsAssumption
<1>1. IsFiniteSet(A) /\ Cardinality(A) <= 5 BY SizeOfFive
<1>2. IsFiniteSet(J) /\ Cardinality(J) <= n
  <2> DEFINE f == [c \in Crds |-> job[c].sec.ca]
  <2>1. f \in [Crds -> CAIds \cup {None}] BY DEF Types, CertData, Jobs
  <2>2. {f[c] : c \in Crds} = J OBVIOUS
  <2> HIDE DEF f, J
  <2> QED BY <2>1, <2>2, ImageOfCrds
<1>3. IsFiniteSet(B) /\ Cardinality(B) <= n
  <2> DEFINE f == [c \in Crds |-> crd[c].bundle]
  <2>1. f \in [Crds -> CAIds \cup {None}] BY DEF Types
  <2>2. {f[c] : c \in Crds} = B OBVIOUS
  <2> HIDE DEF f, B
  <2> QED BY <2>1, <2>2, ImageOfCrds
<1>4. InUse = (A \cup J) \cup B BY DEF InUse
<1> HIDE DEF A, J, B
<1>6. IsFiniteSet(InUse) /\ Cardinality(InUse) <= 2 * n + 5
  <2> HIDE DEF n
  <2>1. IsFiniteSet(A \cup J) /\ Cardinality(A \cup J) <= 5 + n
    BY <1>0, <1>1, <1>2, SizeOfUnion
  <2>2. 5 + n \in Nat BY <1>0
  <2>3. IsFiniteSet((A \cup J) \cup B) /\ Cardinality((A \cup J) \cup B) <= (5 + n) + n
    BY <2>1, <2>2, <1>0, <1>3, SizeOfUnion
  <2>4. (5 + n) + n = 2 * n + 5 BY <1>0
  <2> QED BY <2>3, <2>4, <1>4
<1>7. Cardinality(InUse) \in Nat BY <1>6, FS_CardinalityType
<1>8. ~(CAIds \subseteq InUse)
  BY <1>0, <1>6, <1>7, FS_Subset
<1>9. \E i \in CAIds : i \notin InUse BY <1>8
<1> HIDE DEF n
<1> QED BY <1>9 DEF NewCA

(* What refreshCerts returns is good, and has a new CA only if the old one *)
(* is not good.                                                            *)
LEMMA Refreshed ==
    ASSUME Types, NEW d \in CertData
    PROVE  /\ refreshCerts(d) \in CertData /\ ValidCert(refreshCerts(d), now + Lookahead)
           /\ refreshCerts(d).ca = d.ca \/ ~ValidCA(d, now + Lookahead)
<1> USE ValidityAssumption DEF ValidityAssumption, CertData, Lookahead, None, ValidCert, ValidCA
<1>1. CASE ValidCA(d, now + Lookahead)
  <2>1. refreshCerts(d) = [d EXCEPT !.by = d.ca, !.end = now + Validity]
    BY <1>1 DEF refreshCerts, CreateCertPEM
  <2>2. now + Validity \in Nat /\ now + 1 <= now + Validity BY DEF Types
  <2>3. /\ refreshCerts(d).ca = d.ca /\ refreshCerts(d).caEnd = d.caEnd
        /\ refreshCerts(d).by = d.ca /\ refreshCerts(d).end = now + Validity
        /\ refreshCerts(d) \in CertData
    BY <2>1, <2>2
  <2> QED BY <1>1, <2>2, <2>3
<1>2. CASE ~ValidCA(d, now + Lookahead)
  <2>1. NewCA \in CAIds /\ NewCA # 0 BY NewCAType, CAIdsAssumption DEF CAIdsAssumption
  <2>2. refreshCerts(d) = [ca |-> NewCA, caEnd |-> now + Validity, by |-> NewCA, end |-> now + Validity]
    BY <1>2 DEF refreshCerts, CreateCACert
  <2>3. now + Validity \in Nat /\ now + 1 <= now + Validity BY DEF Types
  <2> QED BY <1>2, <2>1, <2>2, <2>3
<1> QED BY <1>1, <1>2

LEMMA InitialTypes == NoData \in CertData /\ NoJob \in Jobs /\ NoCJob \in CJobs
BY DEF NoData, NoJob, NoCJob, CertData, Jobs, CJobs, None

(* The initial states satisfy the inductive invariant.                     *)
LEMMA InitInv == Init => IInv
<1> SUFFICES ASSUME Init PROVE IInv
  OBVIOUS
<1> USE DEF Init
<1>1. Types
  <2>1. secret \in CertData /\ files \in CertData /\ cjob \in CJobs /\ cfg \in CAIds \cup {None}
    BY InitialTypes
  <2>2. job \in [Crds -> Jobs] BY InitialTypes
  <2>3. web \in [pc : {"waiting", "up", "exited"}, serves : CertData] BY InitialTypes
  <2>4. crd \in [Crds -> [conv : BOOLEAN, svc : BOOLEAN, bundle : CAIds \cup {None}]] OBVIOUS
  <2> QED BY <2>1, <2>2, <2>3, <2>4 DEF Types
<1>2. \A c \in Crds : job[c].pc = "idle" /\ ~job[c].secStale BY DEF NoJob
<1>3. cjob.pc = "idle" /\ ~cjob.secStale BY DEF NoCJob
<1>4. secret.by = None /\ secret.ca = None BY DEF NoData
<1>5. ReadIsCurrent /\ ConfigCurrent /\ WriteJustified /\ StaleNotFresh
  BY <1>2, <1>3 DEF ReadIsCurrent, ConfigCurrent, WriteJustified, StaleNotFresh
<1>6. HeldIsGood /\ CheckedIsGood /\ WebhookUp /\ BundlesCurrent /\ FilesSynced
  BY <1>2 DEF HeldIsGood, CheckedIsGood, WebhookUp, BundlesCurrent, FilesSynced, Held
<1>7. ServesFiles /\ SecretUnexpired /\ CAFromCRD /\ NeverServesExpired
  BY <1>3, <1>4 DEF ServesFiles, SecretUnexpired, CAFromCRD, NeverServesExpired
<1> QED BY <1>1, <1>5, <1>6, <1>7 DEF IInv

-----------------------------------------------------------------------------
(* What a reconcile of c may hold.                                         *)
Fits(c, j) ==
    /\ j.pc \in {"secret", "update"} /\ ~j.secStale => j.sec = secret
    /\ j.pc = "update" /\ ~j.secStale => Good
    /\ j.pc = "write" /\ ~j.secStale =>
          /\ ~Good /\ ValidCert(j.sec, now + Lookahead)
          /\ j.sec.ca = secret.ca \/ ~ValidCA(secret, now + Lookahead)
    /\ j.secStale => c \notin fresh

(* Steps of reconciles that write nothing.                                 *)
LEMMA JobStep ==
    ASSUME IInv, UNCHANGED <<now, secret, crd, cfg, cjob, files, web, fresh>>,
           job' \in [Crds -> Jobs], \A c \in Crds : job'[c] = job[c] \/ Fits(c, job'[c])
    PROVE  IInv'
<1> USE DEF IInv, Fits
<1>0. Good' = Good BY DEF Good, ValidCert, ValidCA
<1>1. Types' BY DEF Types, Parties
<1>2. ReadIsCurrent' BY DEF ReadIsCurrent
<1>3. WriteJustified' BY <1>0 DEF WriteJustified
<1>4. (StaleNotFresh /\ ConfigCurrent)' BY DEF StaleNotFresh, ConfigCurrent
<1>5. (HeldIsGood /\ CheckedIsGood)' BY <1>0 DEF HeldIsGood, CheckedIsGood, Held
<1>6. WebhookUp' BY <1>0 DEF WebhookUp
<1>7. (BundlesCurrent /\ FilesSynced /\ ServesFiles /\ SecretUnexpired /\ CAFromCRD
         /\ NeverServesExpired)'
  BY DEF BundlesCurrent, FilesSynced, ServesFiles, SecretUnexpired, CAFromCRD, NeverServesExpired
<1> QED BY <1>1, <1>2, <1>3, <1>4, <1>5, <1>6, <1>7

LEMMA NoJobFits == ASSUME NEW c PROVE Fits(c, NoJob)
BY DEF Fits, NoJob

(* A reconcile reads the Secret, reads the CRD and decides, or gives up.   *)
LEMMA ReadSteps ==
    ASSUME IInv, NEW c \in Crds, GetSecret(c) \/ GetCRD(c) PROVE IInv'
<1> USE DEF IInv
<1>0. job \in [Crds -> Jobs] /\ job[c] \in Jobs /\ secret \in CertData BY DEF Types
<1>1. CASE GetSecret(c)
  <2> DEFINE j == [NoJob EXCEPT !.pc = "secret", !.sec = secret]
  <2>1. job' = [job EXCEPT ![c] = j] /\ UNCHANGED <<now, secret, crd, cfg, cjob, files, web, fresh>>
    BY <1>1 DEF GetSecret
  <2>2. j.pc = "secret" /\ j.sec = secret /\ ~j.secStale /\ j \in Jobs
    BY <1>0 DEF NoJob, Jobs
  <2>3. Fits(c, j) BY <2>2 DEF Fits
  <2> HIDE DEF j
  <2> QED BY <1>0, <2>1, <2>2, <2>3, JobStep
<1>2. CASE GetCRD(c)
  <2> DEFINE d == job[c].sec
             e == IF NeedsRefresh(d) THEN refreshCerts(d) ELSE d
             j == [job[c] EXCEPT !.crdStale = FALSE,
                                 !.pc = IF NeedsRefresh(d) THEN "write" ELSE "update",
                                 !.sec = e]
  <2>1. job' = [job EXCEPT ![c] = j] /\ UNCHANGED <<now, secret, crd, cfg, cjob, files, web, fresh>>
        /\ job[c].pc = "secret"
    BY <1>0, <1>2 DEF GetCRD, Jobs
  <2>2. d \in CertData BY <1>0 DEF Jobs
  <2>3. e \in CertData BY <2>2, Refreshed
  <2>4. /\ j \in Jobs /\ j.sec = e /\ j.secStale = job[c].secStale
        /\ j.pc = IF NeedsRefresh(d) THEN "write" ELSE "update"
    <3> HIDE DEF e, d
    <3> QED BY <1>0, <2>3 DEF Jobs
  <2>5. ~job[c].secStale => d = secret BY <2>1 DEF ReadIsCurrent
  <2>6. j.secStale => c \notin fresh BY <2>4 DEF StaleNotFresh
  <2>7. NeedsRefresh(secret) <=> ~Good BY DEF NeedsRefresh, Good
  <2>8. NeedsRefresh(d) => /\ ValidCert(e, now + Lookahead)
                           /\ e.ca = d.ca \/ ~ValidCA(d, now + Lookahead)
    BY <2>2, Refreshed
  <2>9. ~NeedsRefresh(d) => e = d OBVIOUS
  <2> HIDE DEF j, e, d
  <2>10. Fits(c, j) BY <2>4, <2>5, <2>6, <2>7, <2>8, <2>9 DEF Fits
  <2> QED BY <1>0, <2>1, <2>4, <2>10, JobStep
<1> QED BY <1>1, <1>2

LEMMA EndSteps ==
    ASSUME IInv, NEW c \in Crds,
           RejectCRD(c) \/ WriteConflict(c) \/ UpdateConflict(c) \/ FailCall(c)
    PROVE  IInv'
<1>1. job' = [job EXCEPT ![c] = NoJob]
      /\ UNCHANGED <<now, secret, crd, cfg, cjob, files, web, fresh>>
  BY DEF RejectCRD, WriteConflict, UpdateConflict, FailCall, FailJob
<1>2. job \in [Crds -> Jobs] BY DEF IInv, Types
<1> QED BY <1>1, <1>2, JobStep, NoJobFits, InitialTypes

(* The Secret changes: everyone who had read it is outdated, and nobody    *)
(* counts as fresh.                                                        *)
LEMMA SecretStep ==
    ASSUME IInv, UNCHANGED <<now, crd, cfg, files, web>>, fresh' = {}, cjob' = SecretOutdated(cjob),
           secret' \in CertData, secret'.by # None => ValidCert(secret', now),
           Crds = {} => secret'.ca = None,
           job' \in [Crds -> Jobs],
           \A c \in Crds : \/ job'[c] = SecretOutdated(job[c]) \/ job'[c] = NoJob
                          \/ /\ job'[c].pc = "update" /\ job'[c].sec = secret' /\ ~job'[c].secStale
                             /\ ValidCert(secret', now + Lookahead)
    PROVE  IInv'
<1> USE DEF IInv
<1>1. \A c \in Crds : \/ job'[c].secStale \/ job'[c].pc = "idle"
                      \/ /\ job'[c].pc = "update" /\ job'[c].sec = secret' /\ ~job'[c].secStale
                         /\ ValidCert(secret', now + Lookahead)
  <2> TAKE c \in Crds
  <2>1. job[c] \in Jobs BY DEF Types
  <2>2. SecretOutdated(job[c]).secStale \/ SecretOutdated(job[c]).pc = "idle"
    BY <2>1 DEF SecretOutdated, Jobs
  <2>3. NoJob.pc = "idle" BY DEF NoJob
  <2> QED BY <2>2, <2>3
<1>2. cjob' \in CJobs /\ cjob'.pc = cjob.pc /\ (cjob'.secStale \/ cjob'.pc # "update")
  BY DEF SecretOutdated, CJobs, Types
<1>3. Good' <=> ValidCert(secret', now + Lookahead) BY DEF Good
<1>4. Types' BY <1>2 DEF Types
<1>5. (ReadIsCurrent /\ ConfigCurrent)' BY <1>1, <1>2 DEF ReadIsCurrent, ConfigCurrent
<1>6. (WriteJustified /\ StaleNotFresh)' BY <1>1, <1>2 DEF WriteJustified, StaleNotFresh
<1>7. (HeldIsGood /\ CheckedIsGood)' BY <1>1, <1>3 DEF HeldIsGood, CheckedIsGood, Held
<1>8. (WebhookUp /\ BundlesCurrent /\ FilesSynced)' BY DEF WebhookUp, BundlesCurrent, FilesSynced
<1>9. (ServesFiles /\ CAFromCRD /\ NeverServesExpired)'
  BY <1>2 DEF ServesFiles, CAFromCRD, NeverServesExpired
<1>10. SecretUnexpired' BY DEF SecretUnexpired, ValidCert, ValidCA
<1> QED BY <1>4, <1>5, <1>6, <1>7, <1>8, <1>9, <1>10

(* writeSecret, with and without its answer.                               *)
LEMMA WriteSteps ==
    ASSUME IInv, NEW c \in Crds, writeSecret(c) \/ WriteLost(c) PROVE IInv'
<1> USE DEF IInv
<1> DEFINE new == [job[c] EXCEPT !.pc = "update", !.secStale = FALSE]
           jobs(n) == [k \in Crds |-> IF k = c THEN n ELSE SecretOutdated(job[k])]
<1>1. /\ job[c].pc = "write" /\ ~job[c].secStale /\ secret' = job[c].sec
      /\ UNCHANGED <<now, crd, cfg, files, web>> /\ fresh' = {} /\ cjob' = SecretOutdated(cjob)
      /\ job' = jobs(new) \/ job' = jobs(NoJob)
  BY DEF writeSecret, Store, WriteLost
<1>2. job[c] \in Jobs /\ secret' \in CertData /\ now \in Nat BY <1>1 DEF Types, Jobs
<1>3. ValidCert(secret', now + Lookahead) BY <1>1 DEF WriteJustified
<1>4. ValidCert(secret', now)
  BY <1>2, <1>3 DEF ValidCert, ValidCA, CertData, Lookahead
<1>5. new \in Jobs /\ new.pc = "update" /\ new.sec = secret' /\ ~new.secStale
  BY <1>1, <1>2 DEF Jobs
<1>6. \A k \in Crds : SecretOutdated(job[k]) \in Jobs BY DEF SecretOutdated, Types, Jobs
<1>7. \A n : jobs(n)[c] = n /\ \A k \in Crds : k # c => jobs(n)[k] = SecretOutdated(job[k])
  OBVIOUS
<1>8. \A n \in Jobs : jobs(n) \in [Crds -> Jobs] BY <1>6
<1> HIDE DEF new, jobs
<1>9. job' \in [Crds -> Jobs] BY <1>1, <1>5, <1>8, InitialTypes
<1>10. \A k \in Crds : \/ job'[k] = SecretOutdated(job[k]) \/ job'[k] = NoJob
                       \/ job'[k] = new
  BY <1>1, <1>7
<1> QED BY <1>1, <1>2, <1>3, <1>4, <1>5, <1>9, <1>10, SecretStep

(* Somebody edits the Secret.                                              *)
LEMMA TamperStep == ASSUME IInv, TamperSecret PROVE IInv'
<1> USE DEF IInv
<1>1. /\ secret' \in {NoData, [secret EXCEPT !.by = None]} /\ fresh' = {}
      /\ job' = [k \in Crds |-> SecretOutdated(job[k])] /\ cjob' = SecretOutdated(cjob)
      /\ UNCHANGED <<now, crd, cfg, files, web>>
  BY DEF TamperSecret
<1>2. secret \in CertData BY DEF Types
<1>3. secret' \in CertData /\ secret'.by = None /\ secret'.ca \in {None, secret.ca}
  BY <1>1, <1>2, InitialTypes DEF CertData, NoData
<1>4. \A k \in Crds : SecretOutdated(job[k]) \in Jobs BY DEF SecretOutdated, Types, Jobs
<1>5. job' \in [Crds -> Jobs] /\ \A k \in Crds : job'[k] = SecretOutdated(job[k]) BY <1>1, <1>4
<1>6. Crds = {} => secret'.ca = None BY <1>3 DEF CAFromCRD
<1> QED BY <1>1, <1>3, <1>5, <1>6, SecretStep

(* A CRD gets the CA of the Secret its reconcile has read.                 *)
LEMMA UpdateStep == ASSUME IInv, NEW c \in Crds, UpdateCRD(c) PROVE IInv'
<1> USE DEF IInv
<1>1. /\ job[c].pc = "update" /\ job' = [job EXCEPT ![c] = NoJob]
      /\ crd' = [crd EXCEPT ![c].svc = TRUE, ![c].bundle = job[c].sec.ca]
      /\ fresh' = IF job[c].secStale THEN fresh ELSE fresh \cup {c}
      /\ UNCHANGED <<now, secret, cfg, cjob, files, web>>
  BY DEF UpdateCRD
<1>2. /\ job \in [Crds -> Jobs] /\ crd \in [Crds -> [conv : BOOLEAN, svc : BOOLEAN, bundle : CAIds \cup {None}]]
      /\ job[c].sec.ca \in CAIds \cup {None} /\ fresh \subseteq Parties /\ c \in Parties
  BY DEF Types, Jobs, CertData, Parties
<1>3. job' \in [Crds -> Jobs] /\ job'[c] = NoJob /\ \A k \in Crds : k # c => job'[k] = job[k]
  BY <1>1, <1>2, InitialTypes
<1>4. NoJob.pc = "idle" /\ ~NoJob.secStale BY DEF NoJob
<1>5. /\ crd' \in [Crds -> [conv : BOOLEAN, svc : BOOLEAN, bundle : CAIds \cup {None}]]
      /\ crd'[c].svc /\ crd'[c].bundle = job[c].sec.ca
      /\ \A k \in Crds : k # c => crd'[k] = crd[k]
  BY <1>1, <1>2
<1>6. \A k \in Crds : Held(k)' => Held(k) BY <1>1, <1>3, <1>4 DEF Held
<1>7. Good' <=> Good BY <1>1 DEF Good, ValidCert, ValidCA
<1>8. /\ \A k : k # c => (k \in fresh' <=> k \in fresh)
      /\ c \in fresh' <=> ~job[c].secStale
  BY <1>1 DEF StaleNotFresh
<1>9. c # "webhook" /\ c # "kubelet" /\ c # Config BY CrdsAssumption DEF CrdsAssumption, Config
<1>10. Types' BY <1>1, <1>2, <1>3, <1>5 DEF Types
<1>11. (ReadIsCurrent /\ ConfigCurrent)' BY <1>1, <1>3, <1>4 DEF ReadIsCurrent, ConfigCurrent
<1>12. WriteJustified' BY <1>1, <1>3, <1>4, <1>7 DEF WriteJustified
<1>13. StaleNotFresh' BY <1>1, <1>3, <1>4, <1>8, <1>9 DEF StaleNotFresh
<1>14. (HeldIsGood /\ CheckedIsGood)' BY <1>1, <1>6, <1>7, <1>8, <1>9 DEF HeldIsGood, CheckedIsGood
<1>15. (WebhookUp /\ FilesSynced)' BY <1>1, <1>7, <1>8, <1>9 DEF WebhookUp, FilesSynced
<1>16. BundlesCurrent'
  <2>1. ~job[c].secStale => job[c].sec = secret BY <1>1 DEF ReadIsCurrent
  <2> QED BY <1>1, <1>5, <1>8, <1>9, <2>1 DEF BundlesCurrent
<1>17. (ServesFiles /\ SecretUnexpired /\ CAFromCRD /\ NeverServesExpired)'
  BY <1>1, <1>8, <1>9 DEF ServesFiles, SecretUnexpired, CAFromCRD, NeverServesExpired
<1> QED BY <1>10, <1>11, <1>12, <1>13, <1>14, <1>15, <1>16, <1>17

(* The process restarts.                                                   *)
LEMMA CrashStep == ASSUME IInv, Crash PROVE IInv'
<1> USE DEF IInv
<1>1. /\ job' = [c \in Crds |-> NoJob] /\ cjob' = NoCJob
      /\ UNCHANGED <<now, secret, crd, cfg, files, web, fresh>>
  BY DEF Crash
<1>2. \A c \in Crds : job'[c].pc = "idle" /\ ~job'[c].secStale BY <1>1 DEF NoJob
<1>3. cjob'.pc = "idle" /\ ~cjob'.secStale BY <1>1 DEF NoCJob
<1>4. \A c \in Crds : Held(c)' => Held(c) BY <1>1, <1>2 DEF Held
<1>5. Good' <=> Good BY <1>1 DEF Good, ValidCert, ValidCA
<1>6. Types' BY <1>1, InitialTypes DEF Types
<1>7. (ReadIsCurrent /\ ConfigCurrent /\ WriteJustified /\ StaleNotFresh)'
  BY <1>2, <1>3 DEF ReadIsCurrent, ConfigCurrent, WriteJustified, StaleNotFresh
<1>8. (HeldIsGood /\ CheckedIsGood /\ WebhookUp)'
  BY <1>1, <1>4, <1>5 DEF HeldIsGood, CheckedIsGood, WebhookUp
<1>9. (BundlesCurrent /\ FilesSynced /\ ServesFiles /\ SecretUnexpired /\ CAFromCRD
         /\ NeverServesExpired)'
  BY <1>1, <1>3 DEF BundlesCurrent, FilesSynced, ServesFiles, SecretUnexpired, CAFromCRD,
                   NeverServesExpired
<1> QED BY <1>6, <1>7, <1>8, <1>9

(* The webhookconfig controller.                                           *)
LEMMA ConfigSteps ==
    ASSUME IInv, GetConfig \/ ReadCA \/ UpdateConfig \/ ConfigFails \/ EditConfig PROVE IInv'
<1> USE DEF IInv
<1>1. UNCHANGED <<now, secret, crd, job, files, web>>
  BY DEF GetConfig, ReadCA, UpdateConfig, ConfigFails, EditConfig
<1>2. fresh' \cup {Config} = fresh \cup {Config} /\ fresh' \subseteq fresh \cup {Config}
  BY DEF GetConfig, ReadCA, UpdateConfig, ConfigFails, EditConfig
<1>3. Config \notin Crds /\ Config # "webhook" /\ Config # "kubelet"
  BY CrdsAssumption DEF CrdsAssumption, Config
<1>4. \A k : k # Config => (k \in fresh' <=> k \in fresh) BY <1>2
<1>5. /\ cjob' \in CJobs /\ cfg' \in CAIds \cup {None}
      /\ cjob'.pc = "update" => secret.ca # None \/ cjob.pc = "update"
      /\ cjob'.pc = "update" /\ ~cjob'.secStale => cjob'.sec = secret
      /\ cjob'.secStale => Config \notin fresh'
      /\ Config \in fresh' => cfg' = secret.ca
      /\ Config \in fresh' => Config \in fresh \/ cjob.pc = "update"
  <2>0. /\ cjob \in CJobs /\ secret \in CertData /\ cjob.sec.ca \in CAIds \cup {None}
        /\ cfg \in CAIds \cup {None}
    BY DEF Types, CJobs, CertData
  <2>n. NoCJob.pc = "idle" /\ ~NoCJob.secStale /\ NoCJob \in CJobs BY InitialTypes DEF NoCJob
  <2>1. CASE GetConfig
    <3>1. /\ cjob' = [NoCJob EXCEPT !.pc = "config"] /\ cfg' = cfg /\ fresh' = fresh BY <2>1 DEF GetConfig
    <3>2. cjob'.pc = "config" /\ ~cjob'.secStale /\ cjob' \in CJobs BY <2>n, <3>1 DEF CJobs, NoCJob
    <3> QED BY <2>0, <3>1, <3>2 DEF BundlesCurrent
  <2>2. CASE ReadCA
    <3>1. /\ cjob' = IF secret.ca = None THEN NoCJob
                      ELSE [cjob EXCEPT !.pc = "update", !.sec = secret, !.secStale = FALSE]
          /\ cfg' = cfg /\ fresh' = fresh
      BY <2>2 DEF ReadCA
    <3>2. /\ cjob' \in CJobs /\ ~cjob'.secStale
          /\ cjob'.pc = "update" => cjob'.sec = secret /\ secret.ca # None
      BY <2>0, <2>n, <3>1 DEF CJobs
    <3> QED BY <2>0, <3>1, <3>2 DEF BundlesCurrent
  <2>3. CASE UpdateConfig
    <3>1. /\ cfg' = cjob.sec.ca /\ cjob' = NoCJob /\ cjob.pc = "update"
          /\ fresh' = IF cjob.secStale THEN fresh ELSE fresh \cup {Config}
      BY <2>3 DEF UpdateConfig
    <3>2. cjob.secStale => Config \notin fresh BY DEF StaleNotFresh
    <3>3. ~cjob.secStale => cjob.sec = secret BY <3>1 DEF ConfigCurrent
    <3> QED BY <2>0, <2>n, <3>1, <3>2, <3>3
  <2>4. CASE ConfigFails
    <3>1. cjob' = NoCJob /\ cfg' = cfg /\ fresh' = fresh BY <2>4 DEF ConfigFails
    <3> QED BY <2>0, <2>n, <3>1 DEF BundlesCurrent
  <2>5. CASE EditConfig
    <3>1. cjob' = CfgOutdated(cjob) /\ cfg' = None /\ fresh' = fresh \ {Config} BY <2>5 DEF EditConfig
    <3>2. /\ cjob' \in CJobs /\ cjob'.pc = cjob.pc /\ cjob'.sec = cjob.sec
          /\ cjob'.secStale = cjob.secStale
      BY <2>0, <3>1 DEF CfgOutdated, CJobs
    <3> QED BY <3>1, <3>2 DEF ConfigCurrent
  <2> QED BY <2>1, <2>2, <2>3, <2>4, <2>5
<1>6. Good' <=> Good BY <1>1 DEF Good, ValidCert, ValidCA
<1>7. \A c \in Crds : Held(c)' <=> Held(c) BY <1>1, <1>3, <1>4 DEF Held
<1>8. Types'
  <2>1. fresh' \subseteq Parties BY <1>2 DEF Types, Parties
  <2> QED BY <1>1, <1>5, <2>1 DEF Types
<1>9. (ReadIsCurrent /\ ConfigCurrent)' BY <1>1, <1>5 DEF ReadIsCurrent, ConfigCurrent
<1>10. WriteJustified' BY <1>1, <1>6 DEF WriteJustified
<1>11. StaleNotFresh' BY <1>1, <1>3, <1>4, <1>5 DEF StaleNotFresh
<1>12. (HeldIsGood /\ CheckedIsGood)' BY <1>1, <1>3, <1>4, <1>6, <1>7 DEF HeldIsGood, CheckedIsGood
<1>13. (WebhookUp /\ FilesSynced)' BY <1>1, <1>3, <1>4, <1>6 DEF WebhookUp, FilesSynced
<1>14. BundlesCurrent' BY <1>1, <1>3, <1>4, <1>5 DEF BundlesCurrent
<1>15. (ServesFiles /\ SecretUnexpired /\ NeverServesExpired)'
  BY <1>1 DEF ServesFiles, SecretUnexpired, NeverServesExpired
<1>16. CAFromCRD' BY <1>1, <1>5 DEF CAFromCRD
<1> QED BY <1>8, <1>9, <1>10, <1>11, <1>12, <1>13, <1>14, <1>15, <1>16

(* The kubelet and the webhook process.                                    *)
LEMMA WebhookSteps ==
    ASSUME IInv, SyncFiles \/ waitForCerts \/ Ticker \/ Restart PROVE IInv'
<1> USE DEF IInv
<1>1. UNCHANGED <<now, secret, crd, cfg, job, cjob>>
  BY DEF SyncFiles, waitForCerts, Ticker, Restart
<1>2. fresh \subseteq fresh' /\ fresh' \subseteq fresh \cup {"kubelet", "webhook"}
  BY DEF SyncFiles, waitForCerts, Ticker, Restart
<1>3. "kubelet" \notin Crds /\ "webhook" \notin Crds /\ Config # "kubelet" /\ Config # "webhook"
  BY CrdsAssumption DEF CrdsAssumption, Config
<1>4. \A k : k # "kubelet" /\ k # "webhook" => (k \in fresh' <=> k \in fresh) BY <1>2
<1>5. Good' <=> Good BY <1>1 DEF Good, ValidCert, ValidCA
<1>6. \A c \in Crds : Held(c)' <=> Held(c) BY <1>1, <1>3, <1>4 DEF Held
<1>7. /\ files' = files \/ files' = secret
      /\ web' \in [pc : {"waiting", "up", "exited"}, serves : CertData]
      /\ ServesFiles' /\ NeverServesExpired' /\ FilesSynced' /\ WebhookUp'
      /\ "webhook" \in fresh' => "webhook" \in fresh \/ ValidCert(files, now + Lookahead)
  <2>0. /\ web \in [pc : {"waiting", "up", "exited"}, serves : CertData]
        /\ secret \in CertData /\ files \in CertData /\ NoData \in CertData /\ now \in Nat
    BY InitialTypes DEF Types
  <2>1. CASE SyncFiles
    <3>1. /\ files' = secret /\ fresh' = fresh \cup {"kubelet"}
          /\ web' = IF web.pc = "up" /\ secret.by # None THEN [web EXCEPT !.serves = secret] ELSE web
      BY <2>1 DEF SyncFiles
    <3>2. /\ web' \in [pc : {"waiting", "up", "exited"}, serves : CertData] /\ web'.pc = web.pc
          /\ web.pc = "up" /\ secret.by # None => web'.serves = secret
          /\ secret.by = None => web'.serves = web.serves
      BY <2>0, <3>1
    <3>3. NeverServesExpired'
      <4> SUFFICES ASSUME web'.pc = "up"
                   PROVE  LET d == web'.serves
                          IN  d.ca # None /\ d.by = d.ca /\ now <= d.caEnd /\ now <= d.end
        BY <1>1 DEF NeverServesExpired
      <4>1. CASE secret.by # None
        BY <3>2, <4>1 DEF SecretUnexpired, ValidCert, ValidCA
      <4>2. CASE secret.by = None BY <3>2, <4>2 DEF NeverServesExpired
      <4> QED BY <4>1, <4>2
    <3>4. ServesFiles' BY <3>1, <3>2 DEF ServesFiles
    <3>5. FilesSynced' BY <1>1, <3>1 DEF FilesSynced
    <3>6. WebhookUp'
      <4> SUFFICES ASSUME "webhook" \in fresh', Good'
                   PROVE  web'.pc = "up" /\ ValidCert(files', now + Lookahead)
        BY <1>1 DEF WebhookUp
      <4>1. "webhook" \in fresh /\ Good BY <1>5, <3>1
      <4>2. ValidCert(secret, now + Lookahead) BY <4>1 DEF Good
      <4> QED BY <3>1, <3>2, <4>1, <4>2 DEF WebhookUp
    <3> QED BY <3>1, <3>2, <3>3, <3>4, <3>5, <3>6
  <2>2. CASE waitForCerts
    <3>1. /\ files' = files /\ fresh' = fresh /\ web.pc = "waiting"
          /\ web' = IF ValidCert(files, now) THEN [pc |-> "up", serves |-> files]
                    ELSE [web EXCEPT !.pc = "exited"]
      BY <2>2 DEF waitForCerts, CheckCerts
    <3>2. /\ web' \in [pc : {"waiting", "up", "exited"}, serves : CertData]
          /\ web'.pc = "up" => web'.serves = files /\ ValidCert(files, now)
      BY <2>0, <3>1
    <3>3. NeverServesExpired' BY <1>1, <3>2 DEF NeverServesExpired, ValidCert, ValidCA
    <3>4. (ServesFiles /\ FilesSynced)' BY <1>1, <3>1, <3>2 DEF ServesFiles, FilesSynced
    <3>5. WebhookUp' BY <1>5, <3>1 DEF WebhookUp
    <3> QED BY <3>1, <3>2, <3>3, <3>4, <3>5
  <2>3. CASE Ticker
    <3>1. files' = files /\ web.pc = "up" BY <2>3 DEF Ticker
    <3>2. CASE ValidCert(files, now + Lookahead)
      <4>1. web' = web /\ fresh' = fresh \cup {"webhook"} BY <2>3, <3>2 DEF Ticker, CheckCerts
      <4>2. NeverServesExpired' BY <1>1, <4>1 DEF NeverServesExpired
      <4>3. (ServesFiles /\ FilesSynced)' BY <1>1, <3>1, <4>1 DEF ServesFiles, FilesSynced
      <4>4. WebhookUp' BY <1>1, <3>1, <3>2, <4>1 DEF WebhookUp
      <4> QED BY <2>0, <3>1, <3>2, <4>1, <4>2, <4>3, <4>4
    <3>3. CASE ~ValidCert(files, now + Lookahead)
      <4>1. web' = [pc |-> "exited", serves |-> NoData] /\ fresh' = fresh
        BY <2>3, <3>3 DEF Ticker, CheckCerts
      <4>2. NeverServesExpired' BY <4>1 DEF NeverServesExpired
      <4>3. (ServesFiles /\ FilesSynced)' BY <1>1, <3>1, <4>1 DEF ServesFiles, FilesSynced
      <4>4. WebhookUp' BY <1>5, <3>3, <4>1 DEF WebhookUp
      <4> QED BY <2>0, <3>1, <4>1, <4>2, <4>3, <4>4
    <3> QED BY <3>2, <3>3
  <2>4. CASE Restart
    <3>1. /\ files' = files /\ fresh' = fresh /\ web.pc = "exited"
          /\ web' = [pc |-> "waiting", serves |-> NoData]
      BY <2>4 DEF Restart
    <3>2. (NeverServesExpired /\ ServesFiles /\ FilesSynced)'
      BY <1>1, <3>1 DEF NeverServesExpired, ServesFiles, FilesSynced
    <3>3. WebhookUp' BY <1>5, <3>1 DEF WebhookUp
    <3> QED BY <2>0, <3>1, <3>2, <3>3
  <2> QED BY <2>1, <2>2, <2>3, <2>4
<1>8. Types' BY <1>1, <1>2, <1>7 DEF Types, Parties
<1>9. (ReadIsCurrent /\ ConfigCurrent)' BY <1>1 DEF ReadIsCurrent, ConfigCurrent
<1>10. WriteJustified' BY <1>1, <1>5 DEF WriteJustified
<1>11. StaleNotFresh' BY <1>1, <1>3, <1>4 DEF StaleNotFresh
<1>12. HeldIsGood' BY <1>1, <1>5, <1>6, <1>7 DEF HeldIsGood
<1>13. CheckedIsGood'
  <2> SUFFICES ASSUME "webhook" \in fresh', NEW c \in Crds, Held(c) PROVE Good
    BY <1>5, <1>6 DEF CheckedIsGood
  <2>1. CASE "webhook" \in fresh BY <2>1 DEF CheckedIsGood
  <2>2. CASE ValidCert(files, now + Lookahead) BY <2>2 DEF HeldIsGood, Good
  <2> QED BY <1>7, <2>1, <2>2
<1>14. BundlesCurrent' BY <1>1, <1>3, <1>4 DEF BundlesCurrent
<1>15. (SecretUnexpired /\ CAFromCRD)' BY <1>1, <1>3, <1>4 DEF SecretUnexpired, CAFromCRD
<1> QED BY <1>7, <1>8, <1>9, <1>10, <1>11, <1>12, <1>13, <1>14, <1>15

(* Somebody edits a CRD.                                                   *)
LEMMA EditStep == ASSUME IInv, NEW c \in Crds, EditCRD(c) PROVE IInv'
<1> USE DEF IInv
<1>0. job \in [Crds -> Jobs] /\ job[c] \in Jobs BY DEF Types
<1>1. /\ fresh' = fresh \ {c} /\ job' = [job EXCEPT ![c] = CRDOutdated(job[c])]
      /\ UNCHANGED <<now, secret, cfg, cjob, files, web>>
  BY DEF EditCRD
<1>2. /\ crd' \in [Crds -> [conv : BOOLEAN, svc : BOOLEAN, bundle : CAIds \cup {None}]]
      /\ \A k \in Crds : k # c => crd'[k] = crd[k]
  BY DEF EditCRD, Types
<1>3. /\ job' \in [Crds -> Jobs]
      /\ \A k \in Crds : /\ job'[k].pc = job[k].pc /\ job'[k].sec = job[k].sec
                         /\ job'[k].secStale = job[k].secStale
  <2> DEFINE j == CRDOutdated(job[c])
  <2>1. j \in Jobs /\ j.pc = job[c].pc /\ j.sec = job[c].sec /\ j.secStale = job[c].secStale
    <3> DEFINE b == job[c].pc \in {"write", "update"}
    <3>1. b \in BOOLEAN OBVIOUS
    <3>2. j = [job[c] EXCEPT !.crdStale = b] BY DEF CRDOutdated
    <3> HIDE DEF b, j
    <3> QED BY <1>0, <3>1, <3>2 DEF Jobs
  <2> HIDE DEF j
  <2> QED BY <1>0, <1>1, <2>1 DEF j
<1>4. Good' <=> Good BY <1>1 DEF Good, ValidCert, ValidCA
<1>5. \A k \in Crds : Held(k)' => Held(k) BY <1>1, <1>3 DEF Held
<1>6. Types' BY <1>1, <1>2, <1>3 DEF Types
<1>7. (ReadIsCurrent /\ ConfigCurrent)' BY <1>1, <1>3 DEF ReadIsCurrent, ConfigCurrent
<1>8. WriteJustified' BY <1>1, <1>3, <1>4 DEF WriteJustified
<1>9. StaleNotFresh' BY <1>1, <1>3 DEF StaleNotFresh
<1>10. (HeldIsGood /\ CheckedIsGood)' BY <1>1, <1>4, <1>5 DEF HeldIsGood, CheckedIsGood
<1>11. (WebhookUp /\ FilesSynced)' BY <1>1, <1>4 DEF WebhookUp, FilesSynced
<1>12. BundlesCurrent' BY <1>1, <1>2 DEF BundlesCurrent
<1>13. (ServesFiles /\ SecretUnexpired /\ CAFromCRD /\ NeverServesExpired)'
  BY <1>1 DEF ServesFiles, SecretUnexpired, CAFromCRD, NeverServesExpired
<1> QED BY <1>6, <1>7, <1>8, <1>9, <1>10, <1>11, <1>12, <1>13

(* Everyone has completed a round: they hold the same, good CA.            *)
LEMMA AllFresh == ASSUME IInv, fresh = Parties PROVE Agreement /\ Good /\ web.pc = "up"
<1> USE DEF IInv
<1>1. Config \in fresh /\ "kubelet" \in fresh /\ "webhook" \in fresh /\ \A c \in Crds : c \in fresh
  BY DEF Parties
<1>2. Crds # {} BY <1>1 DEF CAFromCRD
<1>3. Good BY <1>1, <1>2 DEF CheckedIsGood, Held
<1>4. files = secret /\ cfg = secret.ca BY <1>1 DEF FilesSynced, BundlesCurrent
<1>5. web.pc = "up" BY <1>1, <1>3 DEF WebhookUp
<1>6. secret.by # None BY <1>3 DEF Good, ValidCert, ValidCA
<1>7. web.serves = secret BY <1>4, <1>5, <1>6 DEF ServesFiles
<1>8. \A c \in Crds : crd[c].conv => crd[c].svc /\ crd[c].bundle = secret.ca
  BY <1>1 DEF BundlesCurrent
<1> QED BY <1>3, <1>4, <1>5, <1>7, <1>8 DEF Agreement, Good

(* Time passes, which it does only when everyone has completed a round.    *)
LEMMA TickStep == ASSUME IInv, Tick PROVE IInv'
<1> USE DEF IInv
<1>1. /\ fresh = Parties /\ fresh' = {} /\ now' = now + 1
      /\ UNCHANGED <<secret, crd, cfg, job, cjob, files, web>>
  BY DEF Tick
<1>2. /\ Good /\ web.pc = "up" /\ web.serves = secret /\ files = secret
  BY <1>1, AllFresh DEF Agreement
<1>3. ValidCert(secret', now') BY <1>1, <1>2 DEF Good, ValidCert, ValidCA, Lookahead
<1>4. Types' BY <1>1 DEF Types
<1>5. (ReadIsCurrent /\ ConfigCurrent)' BY <1>1 DEF ReadIsCurrent, ConfigCurrent
<1>6. WriteJustified'
  <2>1. \A c \in Crds : ~(job[c].pc = "write" /\ ~job[c].secStale) BY <1>2 DEF WriteJustified
  <2> QED BY <1>1, <2>1 DEF WriteJustified
<1>7. StaleNotFresh' BY <1>1 DEF StaleNotFresh
<1>8. (HeldIsGood /\ CheckedIsGood)' BY <1>1, <1>2, <1>3 DEF HeldIsGood, CheckedIsGood
<1>9. (WebhookUp /\ BundlesCurrent /\ FilesSynced)' BY <1>1 DEF WebhookUp, BundlesCurrent, FilesSynced
<1>10. (ServesFiles /\ CAFromCRD)' BY <1>1 DEF ServesFiles, CAFromCRD
<1>11. (SecretUnexpired /\ NeverServesExpired)'
  BY <1>1, <1>2, <1>3 DEF SecretUnexpired, NeverServesExpired, ValidCert, ValidCA
<1> QED BY <1>4, <1>5, <1>6, <1>7, <1>8, <1>9, <1>10, <1>11

(* Every step preserves the inductive invariant.                           *)
LEMMA StepInv == ASSUME IInv, [Next]_vars PROVE IInv'
<1>1. CASE UNCHANGED vars
  <2>1. \A c \in Crds : Held(c)' <=> Held(c) BY <1>1 DEF vars, Held
  <2>2. Good' <=> Good BY <1>1 DEF vars, Good, ValidCert, ValidCA
  <2> QED BY <1>1, <2>1, <2>2 DEF vars, IInv, Types, ReadIsCurrent, ConfigCurrent, WriteJustified,
        StaleNotFresh, HeldIsGood, CheckedIsGood, WebhookUp, BundlesCurrent, FilesSynced,
        ServesFiles, SecretUnexpired, CAFromCRD, NeverServesExpired
<1>2. ASSUME NEW c \in Crds, CRDStep(c) \/ WriteLost(c) \/ FailCall(c) \/ EditCRD(c)
      PROVE  IInv'
  BY <1>2, ReadSteps, EndSteps, WriteSteps, UpdateStep, EditStep DEF CRDStep
<1> QED BY <1>1, <1>2, ConfigSteps, CrashStep, WebhookSteps, TickStep, TamperStep DEF Next

-----------------------------------------------------------------------------
(* The inductive invariant holds in every reachable state.                 *)
THEOREM Invariance == Spec => []IInv
<1>1. Init => IInv BY InitInv
<1>2. IInv /\ [Next]_vars => IInv' BY StepInv
<1> QED BY <1>1, <1>2, PTL DEF Spec

(* The lookahead and the tickers of both processes: a running webhook      *)
(* never serves a certificate that has expired.                            *)
THEOREM ServedInItsDates == Spec => []NeverServesExpired
<1>1. IInv => NeverServesExpired BY DEF IInv
<1> QED BY <1>1, Invariance, PTL

(* Once everyone has completed a round on the present Secret, the CRDs,    *)
(* the webhook configuration and the served certificate agree on a CA that *)
(* is valid for the lookahead period.                                      *)
THEOREM AllAgree == Spec => []Agreement
<1>1. IInv => Agreement BY AllFresh DEF Agreement
<1> QED BY <1>1, Invariance, PTL

(* The optimistic lock of writeSecret: of two concurrent rotations only    *)
(* the first one counts, so a good CA is never replaced.                   *)
THEOREM GoodCAIsKept == Spec => GoodCAKept
<1> DEFINE Kept == secret'.ca # secret.ca /\ ValidCA(secret, now + Lookahead) => secret' = NoData
<1>1. ASSUME IInv, [Next]_vars PROVE Kept
  <2> USE DEF IInv
  <2>1. CASE UNCHANGED vars BY <2>1 DEF vars
  <2>2. ASSUME NEW c \in Crds, writeSecret(c) \/ WriteLost(c) PROVE Kept
    <3>1. job[c].pc = "write" /\ ~job[c].secStale /\ secret' = job[c].sec
      BY <2>2 DEF writeSecret, Store, WriteLost
    <3>2. job[c].sec.ca = secret.ca \/ ~ValidCA(secret, now + Lookahead)
      BY <1>1, <3>1 DEF WriteJustified
    <3> QED BY <3>1, <3>2
  <2>3. CASE TamperSecret
    <3>1. secret' = NoData \/ secret' = [secret EXCEPT !.by = None] BY <2>3 DEF TamperSecret
    <3>2. [secret EXCEPT !.by = None].ca = secret.ca BY <1>1 DEF Types, CertData
    <3> QED BY <3>1, <3>2
  <2>4. ASSUME NEW c \in Crds, \/ GetSecret(c) \/ RejectCRD(c) \/ GetCRD(c) \/ WriteConflict(c)
                              \/ UpdateCRD(c) \/ UpdateConflict(c) \/ FailCall(c) \/ EditCRD(c)
        PROVE  Kept
    <3>1. secret' = secret
      BY <2>4 DEF GetSecret, RejectCRD, GetCRD, WriteConflict, UpdateCRD, UpdateConflict,
                  FailCall, EditCRD
    <3> QED BY <3>1
  <2>5. CASE \/ GetConfig \/ ReadCA \/ UpdateConfig \/ ConfigFails \/ Crash
             \/ SyncFiles \/ waitForCerts \/ Ticker \/ Restart \/ Tick \/ EditConfig
    BY <2>5 DEF GetConfig, ReadCA, UpdateConfig, ConfigFails, Crash, SyncFiles, waitForCerts,
                Ticker, Restart, Tick, EditConfig
  <2> HIDE DEF IInv, Kept
  <2> QED BY <1>1, <2>1, <2>2, <2>3, <2>4, <2>5 DEF Next, CRDStep
<1>2. IInv /\ [Next]_vars => [Kept]_vars BY <1>1
<1> QED BY <1>2, Invariance, PTL DEF Spec, GoodCAKept
=============================================================================
