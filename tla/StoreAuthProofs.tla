--------------------------- MODULE StoreAuthProofs ---------------------------
(***************************************************************************)
(* For every provider, store and method and any number of reconciles: what *)
(* is looked up on the way to a client stays where the store may look, a   *)
(* store the webhook admitted is not refused because of its spec, the      *)
(* credentials a client ends up with are those of its own store, and a     *)
(* store that says Ready has them.                                         *)
(*                                                                         *)
(* The plans of AuthPlans are sequences of steps; a lemma per provider     *)
(* says that its plans consist of allowed steps, and StoreAuth only ever   *)
(* carries out the steps of a plan (Inv).  A second layer (Inv2) follows   *)
(* the credentials: where each was read, and for which providers the value *)
(* in a shared receiver or getter can be another store's.  A third layer   *)
(* (Inv3) follows their values: whatever a step may leave empty, a later   *)
(* step of the same plan or of Validate does not go on with.               *)
(***************************************************************************)
EXTENDS StoreAuth, TLAPS

Dos == {"call", "read", "check", "take", "login", "share", "getter", "placeholder",
        "specerror", "panic"}
Kinds == {"", "Secret", "ServiceAccount", "Token", "ConfigMap"}
NsNames == Namespaces \cup {""}
StepType == [do : Dos, kind : Kinds, field : Fields, ns : NsNames,
             need : {"", "present", "lax", "try"}, from : Fields]

\* A store of provider p, and the namespace of a reconcile that works on it.
WellFormed(p, s) ==
  /\ s.method \in Methods(p) /\ s.ca \in CAKinds(p, s.method) /\ s.plain \in BOOLEAN
  /\ s.ns \in [Fields -> {"unset", "nil"} \cup Namespaces]
  /\ s.kind \in {"SecretStore", "ClusterSecretStore", "Generator"}
  /\ s.kind = "Generator" <=> p \in Generators
Context(p, s, n) ==
  /\ p \in AllAuth /\ WellFormed(p, s) /\ n \in NsNames
  /\ n = "" => Cluster(s)

\* A look-up of an object of this kind in namespace ns is where it may be.
Located(p, s, n, kind, ns) ==
  /\ \/ ns = n
     \/ Cluster(s) /\ \E f \in Fields : HasNs(s, f) /\ ns = s.ns[f]
     \/ kind = "ConfigMap" /\ p \in AnyNamespaceCA
  /\ ValidateStore(p, s) /\ ns = "" =>
       \/ kind = "ConfigMap" /\ p \in AnyNamespaceCA
       \/ p = "vault" /\ s.method = "cert"

\* The webhook admitted the store and checks all that NewClient needs.
Vetted(p, s) == ValidateStore(p, s) /\ p \in Thorough

\* It is for the field that the reference belongs to. (The third Akeyless
\* credential is read from the second one's Secret and then taken from it.)
Designates(p, s, n, f, ns) ==
  \/ p = "akeyless" /\ f = "c"
  \/ /\ TakenFrom(p, f) = f
     /\ ns = InReferent(s, n, f) \/ (f = "ca" /\ p \in AnyNamespaceCA)
     /\ p = "yandex" /\ Cluster(s) => HasNs(s, f)

\* The steps a plan may have.
Allowed(p, s, n) ==
  {st \in StepType : /\ st.do = "read" => /\ Located(p, s, n, st.kind, st.ns)
                                         /\ Designates(p, s, n, st.field, st.ns)
                     /\ st.do = "take" => st.from = TakenFrom(p, st.field) /\ st.from # st.field
                     /\ st.do \in {"specerror", "panic"} => ~Vetted(p, s)
                     /\ st.do = "share" => p \in Singletons
                     /\ st.do = "getter" => p = "yandex"}
\* A plan does not end in an attempt.
Plans(p, s, n) == {x \in Seq(Allowed(p, s, n)) : x # <<>> => x[Len(x)].need # "try"}

-----------------------------------------------------------------------------
(* The steps.                                                              *)

(* Sequences one after the other.                                          *)
LEMMA Joined ==
  ASSUME NEW A, NEW x \in Seq(A), NEW y \in Seq(A), y # <<>>
  PROVE  /\ x \o y \in Seq(A)
         /\ Len(x \o y) = Len(x) + Len(y)
         /\ (x \o y)[Len(x \o y)] = y[Len(y)]
<1>1. Len(y) \in Nat /\ Len(y) > 0 /\ Len(x) \in Nat OBVIOUS
<1>2. Len(x) + Len(y) \in 1 .. (Len(x) + Len(y)) BY <1>1
<1>3. (x \o y)[Len(x) + Len(y)] = y[Len(y)] BY <1>1, <1>2
<1> QED BY <1>3

(* A sequence of one element.                                              *)
LEMMA Single == ASSUME NEW A, NEW a \in A PROVE <<a>> \in Seq(A) /\ Len(<<a>>) = 1
OBVIOUS

(* A plan of one step.                                                     *)
LEMMA OneStep ==
  ASSUME NEW p, NEW s, NEW n, NEW st \in Allowed(p, s, n), st.need # "try"
  PROVE  <<st>> \in Plans(p, s, n)
BY DEF Plans

(* Calls, logins and placeholders.                                         *)
LEMMA DoAllowed ==
  ASSUME NEW p, NEW s, NEW n, NEW d \in {"call", "login", "placeholder"}
  PROVE  Do(d) \in Plans(p, s, n)
<1> DEFINE st == [Blank EXCEPT !.do = d]
<1>1. Do(d) = <<st>> BY DEF Do
<1>2. st \in StepType /\ st.do = d /\ st.need = ""
  BY DEF Blank, StepType, Dos, Kinds, Fields, NsNames
<1> HIDE DEF st
<1>3. st \in Allowed(p, s, n) BY <1>2 DEF Allowed
<1>4. <<st>> \in Plans(p, s, n) BY <1>2, <1>3, OneStep
<1> QED BY <1>1, <1>4

(* What publishes a client.                                                *)
LEMMA PublishAllowed ==
  ASSUME NEW p, NEW s, NEW n, NEW d \in {"share", "getter"},
         d = "share" => p \in Singletons, d = "getter" => p = "yandex"
  PROVE  Do(d) \in Plans(p, s, n)
<1> DEFINE st == [Blank EXCEPT !.do = d]
<1>1. Do(d) = <<st>> BY DEF Do
<1>2. st \in StepType /\ st.do = d /\ st.need = ""
  BY DEF Blank, StepType, Dos, Kinds, Fields, NsNames
<1> HIDE DEF st
<1>3. st \in Allowed(p, s, n) BY <1>2 DEF Allowed
<1>4. <<st>> \in Plans(p, s, n) BY <1>2, <1>3, OneStep
<1> QED BY <1>1, <1>4

(* Checks.                                                                 *)
LEMMA CheckAllowed ==
  ASSUME NEW p, NEW s, NEW n, NEW f \in Fields
  PROVE  Check(f) \in Plans(p, s, n)
<1> DEFINE st == [Blank EXCEPT !.do = "check", !.field = f]
<1>1. Check(f) = <<st>> BY DEF Check
<1>2. st \in StepType /\ st.do = "check" /\ st.need = ""
  BY DEF Blank, StepType, Dos, Kinds, Fields, NsNames
<1> HIDE DEF st
<1>3. st \in Allowed(p, s, n) BY <1>2 DEF Allowed
<1>4. <<st>> \in Plans(p, s, n) BY <1>2, <1>3, OneStep
<1> QED BY <1>1, <1>4

(* Keys taken from a Secret already read.                                  *)
LEMMA TakeAllowed ==
  ASSUME NEW p, NEW s, NEW n, NEW f \in Fields, NEW g \in Fields,
         g = TakenFrom(p, f), g # f
  PROVE  Take(f, g) \in Plans(p, s, n)
<1> DEFINE st == [Blank EXCEPT !.do = "take", !.field = f, !.from = g]
<1>1. Take(f, g) = <<st>> BY DEF Take
<1>2. st \in StepType /\ st.do = "take" /\ st.field = f /\ st.from = g /\ st.need = ""
  BY DEF Blank, StepType, Dos, Kinds, Fields, NsNames
<1> HIDE DEF st
<1>3. st \in Allowed(p, s, n) BY <1>2 DEF Allowed
<1>4. <<st>> \in Plans(p, s, n) BY <1>2, <1>3, OneStep
<1> QED BY <1>1, <1>4

(* Refusals.                                                               *)
LEMMA RefusalAllowed ==
  ASSUME NEW p, NEW s, NEW n, NEW d \in {"specerror", "panic"}, ~Vetted(p, s)
  PROVE  Do(d) \in Plans(p, s, n)
<1> DEFINE st == [Blank EXCEPT !.do = d]
<1>1. Do(d) = <<st>> BY DEF Do
<1>2. st \in StepType /\ st.do = d /\ st.need = ""
  BY DEF Blank, StepType, Dos, Kinds, Fields, NsNames
<1> HIDE DEF st
<1>3. st \in Allowed(p, s, n) BY <1>2 DEF Allowed
<1>4. <<st>> \in Plans(p, s, n) BY <1>2, <1>3, OneStep
<1> QED BY <1>1, <1>4

(* Look-ups.                                                               *)
LEMMA ReadAllowed ==
  ASSUME NEW p, NEW s, NEW n, NEW kind \in Kinds, NEW f \in Fields, NEW ns \in NsNames,
         NEW need \in {"present", "lax"}, Located(p, s, n, kind, ns), Designates(p, s, n, f, ns)
  PROVE  Reading(kind, f, ns, need) \in Plans(p, s, n)
<1> DEFINE st == [Blank EXCEPT !.do = "read", !.kind = kind, !.field = f, !.ns = ns, !.need = need]
<1>1. Reading(kind, f, ns, need) = <<st>> BY DEF Reading
<1>2. /\ st \in StepType /\ st.do = "read" /\ st.kind = kind /\ st.ns = ns /\ st.field = f
      /\ st.need = need
  BY DEF Blank, StepType, Dos, Kinds, Fields, NsNames
<1> HIDE DEF st
<1>3. st \in Allowed(p, s, n) BY <1>2 DEF Allowed
<1>4. <<st>> \in Plans(p, s, n) BY <1>2, <1>3, OneStep
<1> QED BY <1>1, <1>4

(* Plans one after the other.                                              *)
LEMMA ConcatAllowed ==
  ASSUME NEW p, NEW s, NEW n, NEW x \in Plans(p, s, n), NEW y \in Plans(p, s, n)
  PROVE  x \o y \in Plans(p, s, n)
<1>1. x \in Seq(Allowed(p, s, n)) /\ y \in Seq(Allowed(p, s, n)) BY DEF Plans
<1>2. CASE y = <<>> BY <1>1, <1>2 DEF Plans
<1>3. CASE y # <<>> BY <1>1, <1>3, Joined DEF Plans
<1> QED BY <1>2, <1>3

(* One step before a plan.                                                 *)
LEMMA Prefixed ==
  ASSUME NEW p, NEW s, NEW n, NEW st \in Allowed(p, s, n), NEW y \in Plans(p, s, n), y # <<>>
  PROVE  <<st>> \o y \in Plans(p, s, n)
<1>1. y \in Seq(Allowed(p, s, n)) /\ y[Len(y)].need # "try" BY DEF Plans
<1>2. <<st>> \in Seq(Allowed(p, s, n)) BY Single
<1> QED BY <1>1, <1>2, Joined DEF Plans

(* The empty plan.                                                         *)
LEMMA EmptyAllowed == ASSUME NEW p, NEW s, NEW n PROVE <<>> \in Plans(p, s, n)
BY DEF Plans

(* The namespace of a reference that may be left to the ExternalSecret: a  *)
(* placeholder has been made before where there is none.                   *)
LEMMA ReferentAllowed ==
  ASSUME NEW p, NEW s, NEW n, Context(p, s, n), NEW kind \in Kinds, NEW f \in Fields,
         NEW need \in {"present", "lax"}, TakenFrom(p, f) = f, p # "yandex",
         \/ n # "" \/ HasNs(s, f) \/ (p = "vault" /\ s.method = "cert")
  PROVE  Reading(kind, f, InReferent(s, n, f), need) \in Plans(p, s, n)
<1>1. InReferent(s, n, f) \in NsNames
  BY DEF InReferent, Context, WellFormed, HasNs, NsNames, Namespaces
<1>2. Located(p, s, n, kind, InReferent(s, n, f))
  BY DEF Located, InReferent, Context, WellFormed, HasNs, NsNames, Namespaces
<1>3. Designates(p, s, n, f, InReferent(s, n, f)) BY DEF Designates
<1> QED BY <1>1, <1>2, <1>3, ReadAllowed

(* An attempt, and what is done when it finds nothing.                     *)
LEMMA TryAllowed ==
  ASSUME NEW p, NEW s, NEW n, Context(p, s, n), NEW f \in Fields, TakenFrom(p, f) = f,
         p # "yandex", n # "" \/ HasNs(s, f), NEW y \in Plans(p, s, n), y # <<>>
  PROVE  Reading("Secret", f, InReferent(s, n, f), "try") \o y \in Plans(p, s, n)
<1> DEFINE ns == InReferent(s, n, f)
           st == [Blank EXCEPT !.do = "read", !.kind = "Secret", !.field = f, !.ns = ns, !.need = "try"]
<1>1. ns \in NsNames
  BY DEF InReferent, Context, WellFormed, HasNs, NsNames, Namespaces
<1>2. Located(p, s, n, "Secret", ns)
  BY DEF Located, InReferent, Context, WellFormed, HasNs, NsNames, Namespaces
<1>3. Designates(p, s, n, f, ns) BY DEF Designates
<1>4. Reading("Secret", f, InReferent(s, n, f), "try") = <<st>> BY DEF Reading
<1> HIDE DEF ns
<1>5. st \in StepType /\ st.do = "read" /\ st.kind = "Secret" /\ st.ns = ns /\ st.field = f
  BY <1>1 DEF Blank, StepType, Dos, Kinds, Fields, NsNames
<1> HIDE DEF st
<1>6. st \in Allowed(p, s, n) BY <1>2, <1>3, <1>5 DEF Allowed
<1>7. <<st>> \o y \in Plans(p, s, n) BY <1>6, Prefixed
<1> QED BY <1>4, <1>7

(* A Secret of a ClusterSecretStore that must name a namespace.            *)
LEMMA StrictlyAllowed ==
  ASSUME NEW p, NEW s, NEW n, Context(p, s, n), NEW f \in Fields,
         NEW need \in {"present", "lax"}, TakenFrom(p, f) = f,
         Vetted(p, s) /\ Cluster(s) => HasNs(s, f)
  PROVE  Strictly(s, n, f, need) \in Plans(p, s, n)
<1>1. CASE Cluster(s) /\ ~HasNs(s, f)
  BY <1>1, RefusalAllowed DEF Strictly, SpecError
<1>2. CASE ~(Cluster(s) /\ ~HasNs(s, f))
  <2> DEFINE ns == IF Cluster(s) THEN s.ns[f] ELSE n
  <2>1. Strictly(s, n, f, need) = Reading("Secret", f, ns, need) BY <1>2 DEF Strictly
  <2>2. ns \in NsNames BY <1>2 DEF Context, WellFormed, HasNs, NsNames, Namespaces
  <2>3. Located(p, s, n, "Secret", ns)
    BY <1>2 DEF Located, Context, WellFormed, HasNs, NsNames, Namespaces
  <2>4. Designates(p, s, n, f, ns) BY <1>2 DEF Designates, InReferent
  <2> HIDE DEF ns
  <2> QED BY <2>1, <2>2, <2>3, <2>4, ReadAllowed DEF Kinds
<1> QED BY <1>1, <1>2

(* What may only come of a store that names its Secret.                    *)
LEMMA NamedAllowed ==
  ASSUME NEW p, NEW s, NEW n, NEW f \in Fields, NEW steps \in Plans(p, s, n),
         Vetted(p, s) => IsSet(s, f)
  PROVE  Named(s, f, steps) \in Plans(p, s, n)
BY RefusalAllowed DEF Named, SpecError

-----------------------------------------------------------------------------
(* The plans of the providers.                                             *)

(* AWS: the Secrets of the keys.                                           *)
LEMMA AWSSecretsAllowed ==
  ASSUME NEW p \in {"aws", "ecr"}, NEW s, NEW n, Context(p, s, n),
         n # "" \/ ~AWSIsReferentSpec(s), UsesStatic(s)
  PROVE  credsFromSecretRef(s, n) \in Plans(p, s, n)
<1> USE DEF Fields, Kinds, Dos, TakenFrom
<1>1. \A f \in Fields : s.ns[f] \in {"unset", "nil", "n1", "n2"}
  BY DEF Context, WellFormed, Namespaces
<1> DEFINE get(f) == Reading("Secret", f, InReferent(s, n, f), "lax")
<1>2. /\ n # "" \/ HasNs(s, "a")
      /\ n # "" \/ HasNs(s, "b")
      /\ n # "" \/ HasNs(s, "c") \/ ~IsSet(s, "c")
  BY <1>1 DEF AWSIsReferentSpec, IsSet, HasNs
<1>3. get("a") \in Plans(p, s, n) BY <1>2, ReferentAllowed
<1>4. get("b") \in Plans(p, s, n) BY <1>2, ReferentAllowed
<1>5. IsSet(s, "c") => get("c") \in Plans(p, s, n) BY <1>2, ReferentAllowed
<1>6. credsFromSecretRef(s, n) = get("a") \o get("b") \o Check("b") \o Check("a")
                                 \o (IF IsSet(s, "c") THEN get("c") ELSE <<>>)
  BY DEF credsFromSecretRef
<1>7. (IF IsSet(s, "c") THEN get("c") ELSE <<>>) \in Plans(p, s, n) BY <1>5, EmptyAllowed
<1> HIDE DEF get
<1>8. get("a") \o get("b") \o Check("b") \o Check("a") \in Plans(p, s, n)
  BY <1>3, <1>4, CheckAllowed, ConcatAllowed
<1> QED BY <1>6, <1>7, <1>8, ConcatAllowed

(* AWS: a session from a ServiceAccount, from Secrets, or both.            *)
LEMMA AWSSessionAllowed ==
  ASSUME NEW p \in {"aws", "ecr"}, NEW s, NEW n, Context(p, s, n),
         n # "" \/ ~AWSIsReferentSpec(s)
  PROVE  AWSNewSession(s, n) \in Plans(p, s, n)
<1> USE DEF Fields, Kinds, Dos, TakenFrom
<1>0. ~Vetted(p, s) BY DEF Vetted, Thorough
<1>1. \A f \in Fields : s.ns[f] \in {"unset", "nil", "n1", "n2"}
  BY DEF Context, WellFormed, Namespaces
<1>2. UsesJWT(s) => credsFromServiceAccount(s, n) \in Plans(p, s, n)
  <2> SUFFICES ASSUME UsesJWT(s) PROVE credsFromServiceAccount(s, n) \in Plans(p, s, n)
    OBVIOUS
  <2>1. CASE ~IsSet(s, "sa")
    BY <1>0, <2>1, RefusalAllowed DEF credsFromServiceAccount
  <2>2. CASE IsSet(s, "sa")
    <3>1. n # "" \/ HasNs(s, "sa") BY <1>1, <2>2 DEF AWSIsReferentSpec, IsSet, HasNs
    <3>2. Reading("ServiceAccount", "sa", InReferent(s, n, "sa"), "present") \in Plans(p, s, n)
      BY <3>1, ReferentAllowed
    <3> QED BY <2>2, <3>2, CheckAllowed, ConcatAllowed DEF credsFromServiceAccount
  <2> QED BY <2>1, <2>2
<1>3. UsesStatic(s) => credsFromSecretRef(s, n) \in Plans(p, s, n) BY AWSSecretsAllowed
<1> QED BY <1>2, <1>3, DoAllowed, ConcatAllowed, EmptyAllowed DEF AWSNewSession

(* The token of the ServiceAccount.                                        *)
LEMMA FetchTokenAllowed ==
  ASSUME NEW p \in {"aws", "ecr"}, NEW s, NEW n, Context(p, s, n),
         n # "" \/ ~UsesJWT(s) \/ HasNs(s, "sa")
  PROVE  FetchToken(s, n) \in Plans(p, s, n)
<1>1. CASE UsesJWT(s)
  <2>1. Reading("Token", "sa", InReferent(s, n, "sa"), "present") \in Plans(p, s, n)
    BY <1>1, ReferentAllowed DEF Fields, Kinds, TakenFrom
  <2> QED BY <1>1, <2>1 DEF FetchToken
<1>2. CASE ~UsesJWT(s) BY <1>2, EmptyAllowed DEF FetchToken
<1> QED BY <1>1, <1>2

(* A placeholder where credentials are the ExternalSecret's.               *)
LEMMA AWSAllowed ==
  ASSUME NEW s, NEW n, Context("aws", s, n)
  PROVE  AWSNewClient(s, n) \in Plans("aws", s, n)
<1>1. n = "" => Cluster(s) BY DEF Context
<1>2. CASE AWSIsReferentSpec(s) /\ n = "" BY <1>1, <1>2, DoAllowed DEF AWSNewClient, Dos
<1>3. CASE ~(AWSIsReferentSpec(s) /\ n = "") BY <1>3, AWSSessionAllowed DEF AWSNewClient
<1> QED BY <1>2, <1>3

(* The generator of ECR tokens.                                            *)
LEMMA ECRAllowed ==
  ASSUME NEW s, NEW n, Context("ecr", s, n)
  PROVE  ECRGenerate(s, n) \in Plans("ecr", s, n)
<1>1. n # "" BY DEF Context, WellFormed, Generators, Cluster
<1> QED BY <1>1, AWSSessionAllowed, FetchTokenAllowed, DoAllowed, ConcatAllowed DEF ECRGenerate, Dos

(* The methods of a store of each provider.                                *)
LEMMA MethodOf ==
  ASSUME NEW p, NEW s, NEW n, Context(p, s, n)
  PROVE  /\ s.method \in Methods(p)
         /\ n = "" => Cluster(s)
         /\ Cluster(s) => p \notin Generators
         /\ \A f \in Fields : s.ns[f] \in {"unset", "nil", "n1", "n2"}
BY DEF Context, WellFormed, Cluster, Namespaces

(* Azure Key Vault.                                                        *)
LEMMA AzureAllowed ==
  ASSUME NEW s, NEW n, Context("azure", s, n)
  PROVE  AzureNewClient(s, n) \in Plans("azure", s, n)
<1> USE DEF Fields, Kinds, Dos, TakenFrom
<1> DEFINE P == Plans("azure", s, n)
<1>0. s.method \in {"mi", "sp", "wi", "none"} BY MethodOf DEF Methods
<1>1. /\ ~Vetted("azure", s) /\ (n = "" => Cluster(s))
      /\ \A f \in Fields : s.ns[f] \in {"unset", "nil", "n1", "n2"}
  BY MethodOf DEF Vetted, Thorough
<1>2. CASE n = "" /\ AzureIsReferentSpec(s)
  BY <1>1, <1>2, DoAllowed DEF AzureNewClient
<1>3. CASE ~(n = "" /\ AzureIsReferentSpec(s))
  <2>1. ASSUME NEW f \in {"a", "b", "sa"}, IsSet(s, f), NEW kind \in Kinds
        PROVE  Reading(kind, f, InReferent(s, n, f), "present") \in P
    <3>1. n # "" \/ HasNs(s, f) BY <1>1, <1>3, <2>1 DEF AzureIsReferentSpec, IsSet, HasNs
    <3> QED BY <3>1, ReferentAllowed
  <2>2. authorizerForServicePrincipal(s, n) \in P
    <3>1. CASE ~s.plain \/ ~IsSet(s, "a") \/ ~IsSet(s, "b")
      BY <1>1, <3>1, RefusalAllowed DEF authorizerForServicePrincipal, SpecError
    <3>2. CASE ~(~s.plain \/ ~IsSet(s, "a") \/ ~IsSet(s, "b"))
      <4>1. AzureSecretKeyRef(s, n, "a") \in P /\ AzureSecretKeyRef(s, n, "b") \in P
        BY <2>1, <3>2 DEF AzureSecretKeyRef
      <4> QED BY <3>2, <4>1, DoAllowed, ConcatAllowed DEF authorizerForServicePrincipal
    <3> QED BY <3>1, <3>2
  <2>3. authorizerForWorkloadIdentity(s, n) \in P
    <3>1. CASE IsSet(s, "sa")
      <4>1. /\ Reading("ServiceAccount", "sa", InReferent(s, n, "sa"), "present") \in P
            /\ FetchSAToken(InReferent(s, n, "sa")) \in P
        BY <2>1, <3>1 DEF FetchSAToken
      <4> QED BY <3>1, <4>1, DoAllowed, ConcatAllowed DEF authorizerForWorkloadIdentity
    <3>2. CASE ~IsSet(s, "sa")
      BY <3>2, DoAllowed, ConcatAllowed DEF authorizerForWorkloadIdentity
    <3> QED BY <3>1, <3>2
  <2>4. Do("panic") \in P /\ Do("call") \in P BY <1>1, RefusalAllowed, DoAllowed
  <2> QED BY <1>0, <1>1, <1>3, <2>2, <2>3, <2>4 DEF AzureNewClient
<1> QED BY <1>2, <1>3

(* A generator lives in the namespace of its reconcile.                    *)
LEMMA GeneratorReads ==
  ASSUME NEW p \in Generators, NEW s, NEW n, Context(p, s, n), NEW f \in Fields, NEW kind \in Kinds,
         NEW need \in {"present", "lax"}
  PROVE  n # "" /\ Reading(kind, f, n, need) \in Plans(p, s, n)
<1>1. n # "" /\ InReferent(s, n, f) = n BY MethodOf DEF InReferent
<1>2. TakenFrom(p, f) = f /\ p # "yandex" BY DEF TakenFrom, Generators
<1> QED BY <1>1, <1>2, ReferentAllowed

(* The generator of ACR tokens.                                            *)
LEMMA ACRAllowed ==
  ASSUME NEW s, NEW n, Context("acr", s, n)
  PROVE  ACRGenerate(s, n) \in Plans("acr", s, n)
<1> USE DEF Fields, Kinds, Dos
<1> DEFINE P == Plans("acr", s, n)
<1>1. s.method \in {"mi", "sp", "wi", "none"} /\ ~Vetted("acr", s)
  BY MethodOf DEF Methods, Vetted, Thorough
<1>2. ASSUME NEW f \in Fields, NEW kind \in Kinds PROVE Reading(kind, f, n, "present") \in P
  BY GeneratorReads DEF Generators
<1>3. accessTokenForServicePrincipal(n) \in P
  BY <1>2, DoAllowed, ConcatAllowed DEF accessTokenForServicePrincipal
<1>4. accessTokenForWorkloadIdentity(s, n) \in P
  <2>1. FetchSAToken(n) \in P BY <1>2 DEF FetchSAToken
  <2>2. CASE IsSet(s, "sa")
    BY <1>2, <2>1, <2>2, DoAllowed, ConcatAllowed DEF accessTokenForWorkloadIdentity
  <2>3. CASE ~IsSet(s, "sa")
    BY <2>3, DoAllowed, ConcatAllowed DEF accessTokenForWorkloadIdentity
  <2> QED BY <2>2, <2>3
<1>5. SpecError \in P /\ Do("call") \in P BY <1>1, RefusalAllowed, DoAllowed DEF SpecError
<1> DEFINE x == CASE s.method = "sp"   -> accessTokenForServicePrincipal(n)
                  [] s.method = "mi"   -> Do("call")
                  [] s.method = "wi"   -> accessTokenForWorkloadIdentity(s, n)
                  [] s.method = "none" -> SpecError
<1>6. x \in P BY <1>1, <1>3, <1>4, <1>5
<1>7. ACRGenerate(s, n) = x \o fetchACRRefreshToken \o fetchACRAccessToken BY DEF ACRGenerate
<1> HIDE DEF x, P
<1> QED BY <1>5, <1>6, <1>7, ConcatAllowed DEF P, fetchACRRefreshToken, fetchACRAccessToken

(* The token source of GCP Secret Manager and of the GCR generator.        *)
LEMMA GCPSourceAllowed ==
  ASSUME NEW p \in {"gcp", "gcr"}, NEW s, NEW n, Context(p, s, n), n # "" \/ ~GCPIsReferentSpec(s)
  PROVE  NewTokenSource(s, n) \in Plans(p, s, n)
<1> USE DEF Fields, Kinds, Dos, TakenFrom
<1> DEFINE P == Plans(p, s, n)
<1>0. s.method \in {"key", "wi", "default"} BY MethodOf DEF Methods
<1>1. s.method = "key" => serviceAccountTokenSource(s, n) \in P
  <2> SUFFICES ASSUME s.method = "key" PROVE serviceAccountTokenSource(s, n) \in P OBVIOUS
  <2>1. n # "" \/ HasNs(s, "a") BY DEF GCPIsReferentSpec
  <2>2. Reading("Secret", "a", InReferent(s, n, "a"), "lax") \in P BY <2>1, ReferentAllowed
  <2> QED BY <2>2, CheckAllowed, ConcatAllowed DEF serviceAccountTokenSource
<1>2. s.method = "wi" => Do("call") \o GCPTokenSource(s, n) \in P
  <2> SUFFICES ASSUME s.method = "wi" PROVE Do("call") \o GCPTokenSource(s, n) \in P OBVIOUS
  <2>1. n # "" \/ HasNs(s, "sa") BY DEF GCPIsReferentSpec
  <2>2. Reading("ServiceAccount", "sa", InReferent(s, n, "sa"), "lax") \in P
    BY <2>1, ReferentAllowed
  <2>3. FetchSAToken(InReferent(s, n, "sa")) \in P BY <2>1, ReferentAllowed DEF FetchSAToken
  <2>4. Do("call") \in P /\ Do("login") \in P BY DoAllowed
  <2>5. GCPTokenSource(s, n) \in P BY <2>2, <2>3, <2>4, ConcatAllowed DEF GCPTokenSource
  <2> QED BY <2>4, <2>5, ConcatAllowed
<1>3. Do("call") \in P /\ Do("login") \in P BY DoAllowed
<1> DEFINE x == CASE s.method = "key"     -> serviceAccountTokenSource(s, n)
                  [] s.method = "wi"      -> Do("call") \o GCPTokenSource(s, n)
                  [] s.method = "default" -> Do("call")
<1>4. x \in P BY <1>0, <1>1, <1>2, <1>3
<1>5. NewTokenSource(s, n) = x \o Do("login") BY DEF NewTokenSource
<1> HIDE DEF x
<1> QED BY <1>3, <1>4, <1>5, ConcatAllowed

(* A placeholder where the key or the account is the ExternalSecret's.     *)
LEMMA GCPAllowed ==
  ASSUME NEW s, NEW n, Context("gcp", s, n)
  PROVE  GCPNewClient(s, n) \in Plans("gcp", s, n)
<1>1. ~Vetted("gcp", s) /\ (n = "" => Cluster(s)) BY MethodOf DEF Vetted, Thorough
<1>2. SpecError \in Plans("gcp", s, n) BY <1>1, RefusalAllowed DEF SpecError
<1>3. Do("placeholder") \in Plans("gcp", s, n) BY DoAllowed DEF Dos
<1>4. n # "" \/ ~GCPIsReferentSpec(s) => NewTokenSource(s, n) \in Plans("gcp", s, n)
  BY GCPSourceAllowed
<1> QED BY <1>1, <1>2, <1>3, <1>4 DEF GCPNewClient

(* The generator of GCR tokens.                                            *)
LEMMA GCRAllowed ==
  ASSUME NEW s, NEW n, Context("gcr", s, n)
  PROVE  NewTokenSource(s, n) \in Plans("gcr", s, n)
<1>1. n # "" BY MethodOf DEF Generators
<1> QED BY <1>1, GCPSourceAllowed

(* Kubernetes.                                                             *)
LEMMA KubernetesAllowed ==
  ASSUME NEW s, NEW n, Context("kubernetes", s, n)
  PROVE  KubernetesNewClient(s, n) \in Plans("kubernetes", s, n)
<1> USE DEF Fields, Kinds, Dos, TakenFrom
<1> DEFINE P == Plans("kubernetes", s, n)
<1>0. s.method \in {"token", "sa", "cert", "none"} BY MethodOf DEF Methods
<1>1. ~Vetted("kubernetes", s) /\ (n = "" => Cluster(s)) BY MethodOf DEF Vetted, Thorough
<1>2. SpecError \in P /\ Do("placeholder") \in P
  BY <1>1, RefusalAllowed, DoAllowed DEF SpecError
<1>3. ASSUME NEW f \in Fields PROVE fetchSecretKey(s, n, f) \in P
  <2>1. Strictly(s, n, f, "present") \in P BY <1>1, StrictlyAllowed
  <2> QED BY <2>1, CheckAllowed, ConcatAllowed DEF fetchSecretKey
<1>4. fetchConfigMapKey(s, n) \in P
  <2>1. CASE Cluster(s) /\ ~HasNs(s, "ca") BY <1>2, <2>1 DEF fetchConfigMapKey
  <2>2. CASE ~(Cluster(s) /\ ~HasNs(s, "ca"))
    <3>1. (IF Cluster(s) THEN s.ns["ca"] ELSE n) = InReferent(s, n, "ca")
      BY <2>2 DEF InReferent
    <3>2. n # "" \/ HasNs(s, "ca") BY <1>1, <2>2
    <3>3. Reading("ConfigMap", "ca", InReferent(s, n, "ca"), "present") \in P
      BY <3>2, ReferentAllowed
    <3>4. fetchConfigMapKey(s, n)
            = Reading("ConfigMap", "ca", InReferent(s, n, "ca"), "present") \o Check("ca")
      BY <2>2, <3>1 DEF fetchConfigMapKey
    <3> QED BY <3>3, <3>4, CheckAllowed, ConcatAllowed
  <2> QED BY <2>1, <2>2
<1>5. setCA(s, n) \in P
  <2>1. s.ca \in {"none", "bundle", "Secret", "ConfigMap"}
    BY <1>0 DEF Context, WellFormed, CAKinds
  <2> QED BY <1>2, <1>3, <1>4, <2>1, EmptyAllowed DEF setCA
<1>6. CASE n = "" /\ KubernetesIsReferentSpec(s) BY <1>1, <1>2, <1>6 DEF KubernetesNewClient
<1>7. CASE ~(n = "" /\ KubernetesIsReferentSpec(s))
  <2> DEFINE x == CASE s.method = "token" -> fetchSecretKey(s, n, "a")
                    [] s.method = "sa"    -> KubernetesServiceAccountToken(s, n)
                    [] s.method = "cert"  -> setClientCert(s, n)
                    [] s.method = "none"  -> SpecError
  <2>1. s.method = "sa" => KubernetesServiceAccountToken(s, n) \in P
    <3> SUFFICES ASSUME s.method = "sa" PROVE KubernetesServiceAccountToken(s, n) \in P OBVIOUS
    <3>1. n # "" \/ HasNs(s, "sa") BY <1>7 DEF KubernetesIsReferentSpec
    <3> QED BY <3>1, ReferentAllowed DEF KubernetesServiceAccountToken
  <2>2. setClientCert(s, n) \in P BY <1>3, ConcatAllowed DEF setClientCert
  <2>3. fetchSecretKey(s, n, "a") \in P BY <1>3
  <2>4. x \in P BY <1>0, <1>2, <2>1, <2>2, <2>3
  <2>5. KubernetesSetAuth(s, n) = setCA(s, n) \o x BY DEF KubernetesSetAuth
  <2> HIDE DEF x
  <2>6. KubernetesSetAuth(s, n) \in P BY <1>5, <2>4, <2>5, ConcatAllowed
  <2> QED BY <1>1, <1>7, <2>6 DEF KubernetesNewClient
<1> QED BY <1>6, <1>7

(* The CA provider of Vault, Akeyless and webhook stores.                  *)
LEMMA CAPoolAllowed ==
  ASSUME NEW p \in AnyNamespaceCA, NEW s, NEW n, Context(p, s, n), NEW secret,
         (n = "" => HasNs(s, "ca")) => secret \in Plans(p, s, n)
  PROVE  CAPool(s, secret) \in Plans(p, s, n)
<1> USE DEF Fields, Kinds, Dos
<1>0. ~Vetted(p, s) BY DEF Vetted, Thorough, AnyNamespaceCA
<1>1. (n = "" => Cluster(s)) /\ s.ns["ca"] \in {"unset", "nil", "n1", "n2"} BY MethodOf
<1>2. SpecError \in Plans(p, s, n) BY <1>0, RefusalAllowed DEF SpecError
<1>3. getCertFromConfigMap(s) \in Plans(p, s, n)
  <2> DEFINE ns == IF HasNs(s, "ca") THEN s.ns["ca"] ELSE ""
  <2>1. ns \in NsNames BY <1>1 DEF HasNs, NsNames, Namespaces
  <2>2. Located(p, s, n, "ConfigMap", ns) BY DEF Located
  <2>3. Designates(p, s, n, "ca", ns) BY DEF Designates, TakenFrom, AnyNamespaceCA
  <2>4. getCertFromConfigMap(s) = Reading("ConfigMap", "ca", ns, "present")
    BY DEF getCertFromConfigMap
  <2> HIDE DEF ns
  <2> QED BY <2>1, <2>2, <2>3, <2>4, ReadAllowed
<1>4. CASE s.ca \in {"none", "bundle"} BY <1>4, EmptyAllowed DEF CAPool
<1>5. CASE s.ca \notin {"none", "bundle"} /\ Cluster(s) /\ ~HasNs(s, "ca")
  BY <1>2, <1>5 DEF CAPool
<1>6. CASE s.ca \notin {"none", "bundle"} /\ ~(Cluster(s) /\ ~HasNs(s, "ca"))
  <2> DEFINE x == IF s.ca = "Secret" THEN secret ELSE getCertFromConfigMap(s)
  <2>1. x \in Plans(p, s, n) BY <1>1, <1>3, <1>6
  <2>2. CAPool(s, secret) = x \o Check("ca") BY <1>6 DEF CAPool
  <2> HIDE DEF x
  <2> QED BY <2>1, <2>2, CheckAllowed, ConcatAllowed
<1> QED BY <1>4, <1>5, <1>6

(* Vault: one method or another, unless it is a placeholder's turn.        *)
LEMMA VaultAuthAllowed ==
  ASSUME NEW p \in {"vault", "vaultds"}, NEW s, NEW n, Context(p, s, n),
         n # "" \/ ~VaultIsReferentSpec(s)
  PROVE  VaultSetAuth(s, n) \in Plans(p, s, n)
<1> USE DEF Fields, Kinds, Dos, TakenFrom
<1> DEFINE P == Plans(p, s, n)
<1>0. s.method \in {"token", "approle", "kubesecret", "ldap", "jwt", "cert", "kubesa", "jwtsa",
                    "kubefile", "jwtnone", "none"}
  <2>1. Methods(p) = VaultSecret \cup VaultAccount \cup {"kubefile", "jwtnone", "none"}
    BY DEF Methods
  <2> QED BY <2>1, MethodOf DEF VaultSecret, VaultAccount
<1>1. ~Vetted(p, s) /\ (n = "" => p = "vault") BY MethodOf DEF Vetted, Thorough, Generators
<1>2. SpecError \in P /\ Do("call") \in P /\ Do("login") \in P
  BY <1>1, RefusalAllowed, DoAllowed DEF SpecError
<1>3. s.method \in VaultSecret => VaultSecretKeyRef(s, n, "a") \in P
  <2> SUFFICES ASSUME s.method \in VaultSecret PROVE VaultSecretKeyRef(s, n, "a") \in P OBVIOUS
  <2>1. n # "" \/ HasNs(s, "a") BY DEF VaultIsReferentSpec
  <2> QED BY <2>1, ReferentAllowed DEF VaultSecretKeyRef
<1>4. s.method = "cert" => VaultSecretKeyRef(s, n, "b") \in P
  <2> SUFFICES ASSUME s.method = "cert" PROVE VaultSecretKeyRef(s, n, "b") \in P OBVIOUS
  <2>1. n # "" \/ (p = "vault" /\ s.method = "cert") BY <1>1
  <2> QED BY <2>1, ReferentAllowed DEF VaultSecretKeyRef
<1>5. s.method \in VaultAccount =>
        /\ VaultServiceAccountToken(s, n) \in P
        /\ secretKeyRefForServiceAccount(s, n) \o VaultServiceAccountToken(s, n) \in P
  <2> SUFFICES ASSUME s.method \in VaultAccount
               PROVE  /\ VaultServiceAccountToken(s, n) \in P
                      /\ secretKeyRefForServiceAccount(s, n) \o VaultServiceAccountToken(s, n) \in P
    OBVIOUS
  <2>1. n # "" \/ HasNs(s, "sa") BY DEF VaultIsReferentSpec
  <2>2. VaultServiceAccountToken(s, n) \in P BY <2>1, ReferentAllowed DEF VaultServiceAccountToken
  <2>3. VaultServiceAccountToken(s, n) # <<>> BY DEF VaultServiceAccountToken, Reading
  <2>4. secretKeyRefForServiceAccount(s, n) \o VaultServiceAccountToken(s, n) \in P
    BY <2>1, <2>2, <2>3, TryAllowed DEF secretKeyRefForServiceAccount
  <2> QED BY <2>2, <2>4
<1> HIDE DEF P
<1>6. ASSUME NEW x \in P, NEW y \in P PROVE x \o y \in P BY ConcatAllowed DEF P
<1>7. s.method = "token" => VaultSetAuth(s, n) \in P
  BY <1>3 DEF VaultSetAuth, setSecretKeyToken, VaultSecret
<1>8. s.method = "approle" => VaultSetAuth(s, n) \in P
  BY <1>2, <1>3, <1>6 DEF VaultSetAuth, requestTokenWithAppRoleRef, VaultSecret
<1>9. s.method = "ldap" => VaultSetAuth(s, n) \in P
  BY <1>2, <1>3, <1>6 DEF VaultSetAuth, requestTokenWithLdapAuth, VaultSecret
<1>10. s.method = "cert" => VaultSetAuth(s, n) \in P
  BY <1>2, <1>3, <1>4, <1>6 DEF VaultSetAuth, requestTokenWithCertAuth, VaultSecret
<1>11. s.method \in {"kubesa", "kubesecret", "kubefile"} => VaultSetAuth(s, n) \in P
  <2> SUFFICES ASSUME s.method \in {"kubesa", "kubesecret", "kubefile"}
               PROVE  VaultSetAuth(s, n) \in P
    OBVIOUS
  <2>1. s.method = "kubesa" => getJwtString(s, n) \in P
    BY <1>5 DEF getJwtString, VaultAccount
  <2>2. s.method = "kubesecret" => getJwtString(s, n) \in P
    BY <1>3 DEF getJwtString, VaultSecret
  <2>3. s.method = "kubefile" => getJwtString(s, n) \in P BY <1>2 DEF getJwtString
  <2>4. VaultSetAuth(s, n) = getJwtString(s, n) \o Do("login")
    BY DEF VaultSetAuth, requestTokenWithKubernetesAuth
  <2> QED BY <1>2, <1>6, <2>1, <2>2, <2>3, <2>4
<1>12. s.method = "jwt" => VaultSetAuth(s, n) \in P
  BY <1>2, <1>3, <1>6 DEF VaultSetAuth, requestTokenWithJwtAuth, VaultSecret
<1>13. s.method = "jwtsa" => VaultSetAuth(s, n) \in P
  BY <1>2, <1>5, <1>6 DEF VaultSetAuth, requestTokenWithJwtAuth, VaultAccount
<1>14. s.method = "jwtnone" => VaultSetAuth(s, n) \in P
  BY <1>2, <1>6 DEF VaultSetAuth, requestTokenWithJwtAuth
<1>15. s.method = "none" => VaultSetAuth(s, n) \in P BY <1>2 DEF VaultSetAuth
<1> QED BY <1>0, <1>7, <1>8, <1>9, <1>10, <1>11, <1>12, <1>13, <1>14, <1>15 DEF P

(* Vault: the CA, then the credentials or a placeholder.                   *)
LEMMA VaultAllowed ==
  ASSUME NEW p \in {"vault", "vaultds"}, NEW s, NEW n, Context(p, s, n)
  PROVE  VaultNewClient(s, n) \in Plans(p, s, n)
<1>1. n = "" => Cluster(s) BY MethodOf
<1>2. VaultNewConfig(s, n) \in Plans(p, s, n)
  <2>1. (n = "" => HasNs(s, "ca")) => VaultSecretKeyRef(s, n, "ca") \in Plans(p, s, n)
    BY ReferentAllowed DEF VaultSecretKeyRef, Fields, Kinds, TakenFrom
  <2> QED BY <2>1, CAPoolAllowed DEF VaultNewConfig, AnyNamespaceCA
<1>3. Do("placeholder") \in Plans(p, s, n) /\ Do("call") \in Plans(p, s, n) BY DoAllowed DEF Dos
<1>4. initClient(s, n) \in Plans(p, s, n) BY <1>1, <1>3, VaultAuthAllowed DEF initClient
<1> QED BY <1>2, <1>3, <1>4, ConcatAllowed DEF VaultNewClient

(* The generator of Vault's dynamic secrets.                               *)
LEMMA VaultDSAllowed ==
  ASSUME NEW s, NEW n, Context("vaultds", s, n)
  PROVE  VaultGenerate(s, n) \in Plans("vaultds", s, n)
<1>1. VaultNewClient(s, n) \in Plans("vaultds", s, n) BY VaultAllowed
<1>2. Do("call") \in Plans("vaultds", s, n) BY DoAllowed DEF Dos
<1> QED BY <1>1, <1>2, ConcatAllowed DEF VaultGenerate

(* Akeyless: the CA when the client is made ...                            *)
LEMMA AkeylessAllowed ==
  ASSUME NEW s, NEW n, Context("akeyless", s, n)
  PROVE  AkeylessNewClient(s, n) \in Plans("akeyless", s, n)
<1>1. ~Vetted("akeyless", s) BY DEF Vetted, Thorough
<1>2. SpecError \in Plans("akeyless", s, n) BY <1>1, RefusalAllowed DEF SpecError
<1>3. (n = "" => HasNs(s, "ca")) => AkeylessSecretKeyRef(s, n, "ca") \in Plans("akeyless", s, n)
  BY ReferentAllowed DEF AkeylessSecretKeyRef, Fields, Kinds, TakenFrom
<1>4. AkeylessHTTPClient(s, n) \in Plans("akeyless", s, n)
  BY <1>3, CAPoolAllowed DEF AkeylessHTTPClient, AnyNamespaceCA
<1> QED BY <1>2, <1>4 DEF AkeylessNewClient

(* ... and the credentials when it is used.                                *)
LEMMA AkeylessUseAllowed ==
  ASSUME NEW s, NEW n, Context("akeyless", s, n), n # "", s.method # "none"
  PROVE  TokenFromSecretRef(s, n) \in Plans("akeyless", s, n)
<1> USE DEF Fields, Kinds, Dos
<1> DEFINE P == Plans("akeyless", s, n)
<1>0. s.method \in {"secret", "kubesa", "kubesecret", "kubefile"}
  <2>1. Methods("akeyless") = {"secret", "kubesa", "kubesecret", "kubefile", "none"} BY DEF Methods
  <2> QED BY <2>1, MethodOf
<1>1. ~Vetted("akeyless", s) BY DEF Vetted, Thorough
<1>2. SpecError \in P BY <1>1, RefusalAllowed DEF SpecError
<1>3. Do("call") \in P /\ Do("login") \in P BY DoAllowed
<1>4. getK8SServiceAccountJWT(s, n) \in P \/ s.method = "secret"
  <2>1. getJWTfromServiceAccountToken(s, n) \in P
    BY ReferentAllowed DEF getJWTfromServiceAccountToken, TakenFrom
  <2>2. getJWTfromServiceAccountToken(s, n) # <<>> BY DEF getJWTfromServiceAccountToken, Reading
  <2>3. AkeylessSecretKeyRef(s, n, "a") \in P
    BY ReferentAllowed DEF AkeylessSecretKeyRef, TakenFrom
  <2>4. s.method = "kubesa" => getK8SServiceAccountJWT(s, n) \in P
    BY <2>1, <2>2, TryAllowed DEF getK8SServiceAccountJWT, getJWTFromServiceAccount, TakenFrom
  <2>5. s.method = "kubesecret" => getK8SServiceAccountJWT(s, n) \in P
    BY <2>3 DEF getK8SServiceAccountJWT
  <2>6. s.method = "kubefile" => getK8SServiceAccountJWT(s, n) \in P
    BY <1>3 DEF getK8SServiceAccountJWT
  <2> QED BY <1>0, <2>4, <2>5, <2>6
<1>5. Strictly(s, n, "a", "lax") \in P BY <1>1, StrictlyAllowed DEF TakenFrom
<1>6. Strictly(s, n, "b", "lax") \in P BY <1>1, StrictlyAllowed DEF TakenFrom
<1> DEFINE x == IF Cluster(s) /\ ~HasNs(s, "b") THEN SpecError
                ELSE Reading("Secret", "c", IF Cluster(s) THEN s.ns["b"] ELSE n, "lax")
<1>7. x \in P
  <2>1. CASE Cluster(s) /\ ~HasNs(s, "b") BY <1>2, <2>1
  <2>2. CASE ~(Cluster(s) /\ ~HasNs(s, "b"))
    <3> DEFINE ns == IF Cluster(s) THEN s.ns["b"] ELSE n
    <3>1. x = Reading("Secret", "c", ns, "lax") BY <2>2
    <3>2. ns \in NsNames BY <2>2 DEF Context, WellFormed, HasNs, NsNames, Namespaces
    <3>3. Located("akeyless", s, n, "Secret", ns)
      BY <2>2 DEF Located, Context, WellFormed, HasNs, NsNames, Namespaces
    <3>4. Designates("akeyless", s, n, "c", ns) BY DEF Designates
    <3> HIDE DEF ns, x
    <3> QED BY <3>1, <3>2, <3>3, <3>4, ReadAllowed
  <2> QED BY <2>1, <2>2
<1>8. Take("c", "b") \in P BY TakeAllowed DEF TakenFrom
<1>9. Check("a") \in P /\ Check("b") \in P BY CheckAllowed
<1> DEFINE y == IF s.method # "secret" THEN getK8SServiceAccountJWT(s, n)
                ELSE Strictly(s, n, "a", "lax") \o Strictly(s, n, "b", "lax") \o x
                     \o Take("c", "b") \o Check("a") \o Check("b")
<1>10. TokenFromSecretRef(s, n) = y \o Do("login") BY DEF TokenFromSecretRef
<1> HIDE DEF x, P
<1>11. ASSUME NEW u \in P, NEW v \in P PROVE u \o v \in P BY ConcatAllowed DEF P
<1>12. y \in P BY <1>0, <1>4, <1>5, <1>6, <1>7, <1>8, <1>9, <1>11
<1> HIDE DEF y
<1> QED BY <1>3, <1>10, <1>11, <1>12 DEF P

(* Webhook: likewise.                                                      *)
LEMMA WebhookAllowed ==
  ASSUME NEW s, NEW n, Context("webhook", s, n)
  PROVE  /\ WebhookNewClient(s, n) \in Plans("webhook", s, n)
         /\ getStoreSecret(s, n) \in Plans("webhook", s, n)
<1>1. ~Vetted("webhook", s) BY DEF Vetted, Thorough
<1>2. (n = "" => HasNs(s, "ca")) => WebhookSecretKeyRef(s, n, "ca") \in Plans("webhook", s, n)
  BY ReferentAllowed DEF WebhookSecretKeyRef, Fields, Kinds, TakenFrom
<1>3. WebhookNewClient(s, n) \in Plans("webhook", s, n)
  BY <1>2, CAPoolAllowed DEF WebhookNewClient, AnyNamespaceCA
<1>4. getStoreSecret(s, n) \in Plans("webhook", s, n)
  BY <1>1, StrictlyAllowed DEF getStoreSecret, Fields, TakenFrom
<1> QED BY <1>3, <1>4

(* A Secret that must be there with a value.                               *)
LEMMA StrictCheckAllowed ==
  ASSUME NEW p, NEW s, NEW n, Context(p, s, n), NEW f \in Fields, TakenFrom(p, f) = f,
         Vetted(p, s) /\ Cluster(s) => HasNs(s, f)
  PROVE  Strictly(s, n, f, "lax") \o Check(f) \in Plans(p, s, n)
<1>1. Strictly(s, n, f, "lax") \in Plans(p, s, n) BY StrictlyAllowed
<1>2. Check(f) \in Plans(p, s, n) BY CheckAllowed
<1> QED BY <1>1, <1>2, ConcatAllowed

(* Oracle Vault: two Secrets, or the identity of the instance.             *)
LEMMA OracleAllowed ==
  ASSUME NEW s, NEW n, Context("oracle", s, n)
  PROVE  OracleNewClient(s, n) \in Plans("oracle", s, n)
<1> USE DEF Fields, Kinds, Dos
<1> DEFINE P == Plans("oracle", s, n)
<1>1. Vetted("oracle", s) => OracleValidateStore(s) BY DEF Vetted, ValidateStore
<1>2. ~s.plain => SpecError \in P BY <1>1, RefusalAllowed DEF SpecError, OracleValidateStore
<1>3. ASSUME s.method = "user", NEW f \in {"a", "b"} PROVE getSecretData(s, n, f) \in P
  <2>1. Vetted("oracle", s) => IsSet(s, f) BY <1>1, <1>3 DEF OracleValidateStore
  <2>2. Vetted("oracle", s) /\ Cluster(s) => HasNs(s, f)
    BY <1>1, <1>3 DEF OracleValidateStore, ValidateSecretSelector
  <2>3. Strictly(s, n, f, "lax") \in P BY <2>2, StrictlyAllowed DEF TakenFrom
  <2> QED BY <2>1, <2>3, NamedAllowed DEF getSecretData
<1>4. Check("a") \in P /\ Check("b") \in P BY CheckAllowed
<1>5. s.method = "user" => getUserAuthConfigurationProvider(s, n) \in P
  BY <1>3, <1>4, ConcatAllowed DEF getUserAuthConfigurationProvider
<1>6. Do("call") \in P /\ <<>> \in P BY DoAllowed, EmptyAllowed
<1> DEFINE x == IF s.method = "user" THEN getUserAuthConfigurationProvider(s, n) ELSE <<>>
<1>7. x \in P BY <1>5, <1>6
<1>8. OracleNewClient(s, n) = IF ~s.plain THEN SpecError ELSE x \o Do("call")
  BY DEF OracleNewClient
<1> HIDE DEF x
<1>9. x \o Do("call") \in P BY <1>6, <1>7, ConcatAllowed
<1> QED BY <1>2, <1>8, <1>9

(* GitLab.                                                                 *)
LEMMA GitlabAllowed ==
  ASSUME NEW s, NEW n, Context("gitlab", s, n)
  PROVE  GitlabNewClient(s, n) \in Plans("gitlab", s, n)
<1> USE DEF Fields, Dos
<1> DEFINE P == Plans("gitlab", s, n)
<1>1. Vetted("gitlab", s) => IsSet(s, "a") /\ (Cluster(s) => HasNs(s, "a"))
  BY DEF Vetted, ValidateStore, GitlabValidateStore, ValidateSecretSelector
<1>2. Strictly(s, n, "a", "lax") \o Check("a") \in P BY <1>1, StrictCheckAllowed DEF TakenFrom
<1>3. GitlabSetAuth(s, n) \in P BY <1>1, <1>2, NamedAllowed DEF GitlabSetAuth
<1>4. Do("call") \in P /\ Do("share") \in P BY DoAllowed, PublishAllowed DEF Singletons
<1> QED BY <1>3, <1>4, ConcatAllowed DEF GitlabNewClient

(* Alibaba: the second key is in the Secret of the first.                  *)
LEMMA AlibabaAllowed ==
  ASSUME NEW s, NEW n, Context("alibaba", s, n)
  PROVE  AlibabaNewClient(s, n) \in Plans("alibaba", s, n)
<1> USE DEF Fields, Dos
<1> DEFINE P == Plans("alibaba", s, n)
<1>1. Vetted("alibaba", s) => IsSet(s, "a") /\ (Cluster(s) => HasNs(s, "a") /\ HasNs(s, "b"))
  BY DEF Vetted, ValidateStore, AlibabaValidateStore, ValidateSecretSelector
<1>2. Strictly(s, n, "a", "lax") \in P BY <1>1, StrictlyAllowed DEF TakenFrom
<1> DEFINE x == IF Cluster(s) /\ ~HasNs(s, "b") THEN SpecError ELSE <<>>
<1>3. x \in P BY <1>1, RefusalAllowed, EmptyAllowed DEF SpecError
<1>4. Check("a") \in P /\ Check("b") \in P BY CheckAllowed
<1>5. Take("b", "a") \in P BY TakeAllowed DEF TakenFrom
<1> DEFINE y == Strictly(s, n, "a", "lax") \o x \o Check("a") \o Take("b", "a") \o Check("b")
<1>6. AlibabaSetAuth(s, n) = Named(s, "a", y) BY DEF AlibabaSetAuth
<1> HIDE DEF x
<1>7. y \in P BY <1>2, <1>3, <1>4, <1>5, ConcatAllowed
<1> HIDE DEF y
<1>8. AlibabaSetAuth(s, n) \in P BY <1>1, <1>6, <1>7, NamedAllowed
<1>9. Do("call") \in P /\ Do("share") \in P BY DoAllowed, PublishAllowed DEF Singletons
<1> QED BY <1>8, <1>9, ConcatAllowed DEF AlibabaNewClient

(* IBM: an API key, or the identity of the container.                      *)
LEMMA IBMAllowed ==
  ASSUME NEW s, NEW n, Context("ibm", s, n)
  PROVE  IBMNewClient(s, n) \in Plans("ibm", s, n)
<1> USE DEF Fields, Dos
<1> DEFINE P == Plans("ibm", s, n)
<1>0. s.method \in {"apikey", "container"} BY MethodOf DEF Methods
<1>1. Vetted("ibm", s) =>
        s.plain /\ (s.method = "apikey" => IsSet(s, "a") /\ (Cluster(s) => HasNs(s, "a")))
  BY DEF Vetted, ValidateStore, IBMValidateStore, ValidateSecretSelector
<1>2. s.method = "apikey" => Strictly(s, n, "a", "lax") \o Check("a") \in P
  BY <1>1, StrictCheckAllowed DEF TakenFrom
<1>3. s.method = "apikey" => IBMSetAuth(s, n) \in P BY <1>1, <1>2, NamedAllowed DEF IBMSetAuth
<1>4. Do("call") \in P /\ Do("share") \in P BY DoAllowed, PublishAllowed DEF Singletons
<1> DEFINE x == IF s.method = "container" THEN Do("call") ELSE IBMSetAuth(s, n)
<1>5. x \in P BY <1>0, <1>3, <1>4
<1> DEFINE y == IF s.plain THEN <<>> ELSE Do("panic")
<1>6. y \in P BY <1>1, RefusalAllowed, EmptyAllowed
<1>7. IBMNewClient(s, n) = x \o y \o Do("call") \o Do("share") BY DEF IBMNewClient
<1> HIDE DEF x, y
<1> QED BY <1>4, <1>5, <1>6, <1>7, ConcatAllowed

(* 1Password.                                                              *)
LEMMA OnePasswordAllowed ==
  ASSUME NEW s, NEW n, Context("onepassword", s, n)
  PROVE  OnePasswordNewClient(s, n) \in Plans("onepassword", s, n)
<1> USE DEF Fields, Dos
<1> DEFINE P == Plans("onepassword", s, n)
<1>1. Vetted("onepassword", s) => (Cluster(s) => HasNs(s, "a"))
  BY DEF Vetted, ValidateStore, OnePasswordValidateStore, ValidateSecretSelector
<1>2. Strictly(s, n, "a", "lax") \in P BY <1>1, StrictlyAllowed DEF TakenFrom
<1>3. Cluster(s) /\ ~HasNs(s, "a") => Do("panic") \in P BY <1>1, RefusalAllowed
<1> DEFINE x == IF Cluster(s) /\ ~HasNs(s, "a") THEN Do("panic") ELSE Strictly(s, n, "a", "lax")
<1>4. x \in P BY <1>2, <1>3
<1>5. OnePasswordNewClient(s, n) = x \o Check("a") \o Do("share") BY DEF OnePasswordNewClient
<1>6. Check("a") \in P /\ Do("share") \in P BY CheckAllowed, PublishAllowed DEF Singletons
<1> HIDE DEF x
<1> QED BY <1>4, <1>5, <1>6, ConcatAllowed

(* Senhasegura, whose spec is not checked enough.                          *)
LEMMA SenhaseguraAllowed ==
  ASSUME NEW s, NEW n, Context("senhasegura", s, n)
  PROVE  SenhaseguraNewClient(s, n) \in Plans("senhasegura", s, n)
<1> USE DEF Fields, Dos
<1> DEFINE P == Plans("senhasegura", s, n)
<1>1. ~Vetted("senhasegura", s) BY DEF Vetted, Thorough
<1>2. getKubernetesSecret(s, n) \in P
  BY <1>1, StrictlyAllowed DEF TakenFrom, getKubernetesSecret
<1>3. GetIsoToken(s) \in P BY <1>1, RefusalAllowed, DoAllowed DEF GetIsoToken
<1> QED BY <1>2, <1>3, ConcatAllowed DEF SenhaseguraNewClient

(* Keeper: a reference without a name is looked up all the same.           *)
LEMMA KeeperAllowed ==
  ASSUME NEW s, NEW n, Context("keeper", s, n)
  PROVE  getKeeperSecurityAuth(s, n) \in Plans("keeper", s, n)
<1> USE DEF Fields, Kinds
<1> DEFINE P == Plans("keeper", s, n)
<1>1. ValidateStore("keeper", s) => (Cluster(s) <=> HasNs(s, "a"))
  BY DEF ValidateStore, KeeperValidateStore, ValidateSecretSelector
<1>2. Vetted("keeper", s) => (Cluster(s) => HasNs(s, "a")) BY <1>1 DEF Vetted
<1>3. Strictly(s, n, "a", "lax") \in P BY <1>2, StrictlyAllowed DEF TakenFrom
<1>4. ~IsSet(s, "a") => Reading("Secret", "a", n, "lax") \in P
  <2> SUFFICES ASSUME ~IsSet(s, "a") PROVE Reading("Secret", "a", n, "lax") \in P OBVIOUS
  <2>1. ~HasNs(s, "a") BY DEF IsSet, HasNs
  <2>2. n \in NsNames /\ (n = "" => Cluster(s)) BY DEF Context
  <2>3. Located("keeper", s, n, "Secret", n) BY <1>1, <2>1, <2>2 DEF Located
  <2>4. Designates("keeper", s, n, "a", n) BY <2>1 DEF Designates, TakenFrom, InReferent
  <2> QED BY <2>2, <2>3, <2>4, ReadAllowed
<1> DEFINE x == IF IsSet(s, "a") THEN Strictly(s, n, "a", "lax") ELSE Reading("Secret", "a", n, "lax")
<1>5. x \in P BY <1>3, <1>4
<1>6. getKeeperSecurityAuth(s, n) = x \o Check("a") BY DEF getKeeperSecurityAuth
<1> HIDE DEF x
<1> QED BY <1>5, <1>6, CheckAllowed, ConcatAllowed

(* Doppler.                                                                *)
LEMMA DopplerAllowed ==
  ASSUME NEW s, NEW n, Context("doppler", s, n)
  PROVE  DopplerNewClient(s, n) \in Plans("doppler", s, n)
<1> USE DEF Fields, Dos
<1> DEFINE P == Plans("doppler", s, n)
<1>1. Vetted("doppler", s) => IsSet(s, "a") /\ (Cluster(s) => HasNs(s, "a"))
  BY DEF Vetted, ValidateStore, DopplerValidateStore, ValidateSecretSelector
<1>2. Strictly(s, n, "a", "lax") \o Check("a") \in P BY <1>1, StrictCheckAllowed DEF TakenFrom
<1>3. DopplerSetAuth(s, n) \in P BY <1>1, <1>2, NamedAllowed DEF DopplerSetAuth
<1>4. Do("call") \in P BY DoAllowed
<1> QED BY <1>3, <1>4, ConcatAllowed DEF DopplerNewClient

(* Onboardbase: the passcode is in the Secret of the API key.              *)
LEMMA OnboardbaseAllowed ==
  ASSUME NEW s, NEW n, Context("onboardbase", s, n)
  PROVE  OnboardbaseNewClient(s, n) \in Plans("onboardbase", s, n)
<1> USE DEF Fields, Dos
<1> DEFINE P == Plans("onboardbase", s, n)
<1>1. Vetted("onboardbase", s) => IsSet(s, "a") /\ (Cluster(s) => HasNs(s, "a"))
  BY DEF Vetted, ValidateStore, OnboardbaseValidateStore, ValidateSecretSelector
<1>2. Strictly(s, n, "a", "lax") \o Check("a") \in P BY <1>1, StrictCheckAllowed DEF TakenFrom
<1>3. Take("b", "a") \in P /\ Check("b") \in P BY TakeAllowed, CheckAllowed DEF TakenFrom
<1> DEFINE y == Strictly(s, n, "a", "lax") \o Check("a") \o Take("b", "a") \o Check("b")
<1>4. y \in P BY <1>2, <1>3, ConcatAllowed
<1>5. OnboardbaseSetAuth(s, n) = Named(s, "a", y) BY DEF OnboardbaseSetAuth
<1> HIDE DEF y
<1>6. OnboardbaseSetAuth(s, n) \in P BY <1>1, <1>4, <1>5, NamedAllowed
<1>7. Do("call") \in P BY DoAllowed
<1> QED BY <1>6, <1>7, ConcatAllowed DEF OnboardbaseNewClient

(* Yandex: the key and the CA.                                             *)
LEMMA YandexAllowed ==
  ASSUME NEW s, NEW n, Context("yandex", s, n)
  PROVE  YandexNewClient(s, n) \in Plans("yandex", s, n)
<1> USE DEF Fields, Dos
<1> DEFINE P == Plans("yandex", s, n)
<1>1. ~Vetted("yandex", s) BY DEF Vetted, Thorough
<1>2. SpecError \in P BY <1>1, RefusalAllowed DEF SpecError
<1>3. Strictly(s, n, "a", "lax") \o Check("a") \in P BY <1>1, StrictCheckAllowed DEF TakenFrom
<1>4. Strictly(s, n, "ca", "lax") \o Check("ca") \in P BY <1>1, StrictCheckAllowed DEF TakenFrom
<1> DEFINE x == IF s.ca = "Secret" THEN Strictly(s, n, "ca", "lax") \o Check("ca") ELSE <<>>
<1>5. x \in P BY <1>4, EmptyAllowed
<1> DEFINE y == IF ~YandexAdaptInput(s) THEN SpecError
                ELSE Strictly(s, n, "a", "lax") \o Check("a") \o x
<1>6. YandexNewClient(s, n) = y \o Do("getter") \o newIamToken BY DEF YandexNewClient
<1> HIDE DEF x
<1>7. Strictly(s, n, "a", "lax") \o Check("a") \o x \in P BY <1>3, <1>5, ConcatAllowed
<1>8. y \in P BY <1>2, <1>7
<1> HIDE DEF y
<1>9. Do("getter") \in P /\ newIamToken \in P BY DoAllowed, PublishAllowed DEF newIamToken
<1> QED BY <1>6, <1>8, <1>9, ConcatAllowed

-----------------------------------------------------------------------------
(* What StoreAuth makes of them.                                           *)

(* The plan of every provider's NewClient, or of a generator's Generate.   *)
LEMMA NewClientAllowed ==
  ASSUME NEW p, NEW s, NEW n, Context(p, s, n)
  PROVE  NewClient(p, s, n) \in Plans(p, s, n)
<1>1. p \in AllAuth BY DEF Context
<1>2. CASE p = "aws" BY <1>2, AWSAllowed DEF NewClient
<1>3. CASE p = "azure" BY <1>3, AzureAllowed DEF NewClient
<1>4. CASE p = "gcp" BY <1>4, GCPAllowed DEF NewClient
<1>5. CASE p = "kubernetes" BY <1>5, KubernetesAllowed DEF NewClient
<1>6. CASE p = "vault" BY <1>6, VaultAllowed DEF NewClient
<1>7. CASE p = "akeyless" BY <1>7, AkeylessAllowed DEF NewClient
<1>8. CASE p = "webhook" BY <1>8, WebhookAllowed DEF NewClient
<1>9. CASE p = "oracle" BY <1>9, OracleAllowed DEF NewClient
<1>10. CASE p = "gitlab" BY <1>10, GitlabAllowed DEF NewClient
<1>11. CASE p = "alibaba" BY <1>11, AlibabaAllowed DEF NewClient
<1>12. CASE p = "ibm" BY <1>12, IBMAllowed DEF NewClient
<1>13. CASE p = "onepassword" BY <1>13, OnePasswordAllowed DEF NewClient
<1>14. CASE p = "senhasegura" BY <1>14, SenhaseguraAllowed DEF NewClient
<1>15. CASE p = "keeper" BY <1>15, KeeperAllowed DEF NewClient
<1>16. CASE p = "doppler" BY <1>16, DopplerAllowed DEF NewClient
<1>17. CASE p = "onboardbase" BY <1>17, OnboardbaseAllowed DEF NewClient
<1>18. CASE p = "yandex" BY <1>18, YandexAllowed DEF NewClient
<1>19. CASE p = "acr" BY <1>19, ACRAllowed DEF NewClient
<1>20. CASE p = "ecr" BY <1>20, ECRAllowed DEF NewClient
<1>21. CASE p = "gcr" BY <1>21, GCRAllowed DEF NewClient
<1>22. CASE p = "vaultds" BY <1>22, VaultDSAllowed DEF NewClient
<1> QED
  BY <1>1, <1>2, <1>3, <1>4, <1>5, <1>6, <1>7, <1>8, <1>9, <1>10, <1>11, <1>12, <1>13, <1>14,
     <1>15, <1>16, <1>17, <1>18, <1>19, <1>20, <1>21, <1>22
  DEF AllAuth, Singletons, Generators, Lazy

(* What a client still reads when it is used.                              *)
LEMMA UseClientAllowed ==
  ASSUME NEW p, NEW s, NEW n, Context(p, s, n), n # "", p = "akeyless" => s.method # "none"
  PROVE  UseClient(p, s, n) \in Plans(p, s, n)
<1>1. CASE p = "aws" BY <1>1, FetchTokenAllowed DEF UseClient
<1>2. CASE p = "akeyless" BY <1>2, AkeylessUseAllowed DEF UseClient
<1>3. CASE p = "webhook" BY <1>3, WebhookAllowed DEF UseClient
<1>4. CASE p \notin {"aws", "akeyless", "webhook"} BY <1>4, EmptyAllowed DEF UseClient
<1> QED BY <1>1, <1>2, <1>3, <1>4

(* What Validate does.                                                     *)
LEMMA ValidateAllowed ==
  ASSUME NEW p, NEW s, NEW n, Context(p, s, n), p \notin Generators,
         p = "aws" => n # "" \/ ~UsesJWT(s) \/ HasNs(s, "sa")
  PROVE  ValidateCalls(p, s, n) \in Plans(p, s, n)
<1>0. Do("call") \in Plans(p, s, n) /\ Do("login") \in Plans(p, s, n) BY DoAllowed DEF Dos
<1>1. CASE p = "aws"
  <2>1. FetchToken(s, n) \in Plans(p, s, n) BY <1>1, FetchTokenAllowed
  <2>2. AWSValidate(s, n) \in Plans(p, s, n) BY <1>0, <2>1, ConcatAllowed DEF AWSValidate
  <2> QED BY <1>1, <2>2 DEF ValidateCalls
<1>2. CASE p \in {"vault", "gitlab", "onepassword"} BY <1>0, <1>2 DEF ValidateCalls
<1>3. CASE p \in {"doppler", "onboardbase"}
  <2>1. Do("call") \o Do("login") \in Plans(p, s, n) BY <1>0, ConcatAllowed
  <2> QED BY <1>3, <2>1 DEF ValidateCalls
<1>4. CASE p \in {"kubernetes", "alibaba", "webhook", "akeyless", "oracle", "senhasegura"}
  BY <1>0, <1>4 DEF ValidateCalls
<1>5. CASE p \in {"azure", "gcp", "ibm", "keeper", "yandex"}
  BY <1>5, EmptyAllowed DEF ValidateCalls
<1>6. p \in AllAuth BY DEF Context
<1> QED BY <1>1, <1>2, <1>3, <1>4, <1>5, <1>6 DEF AllAuth, Singletons, Generators, Lazy

-----------------------------------------------------------------------------
(* The reconciles.                                                         *)

Creds == [store : StoreIds \cup {""}, ns : NsNames, from : Fields \cup {""},
          val : {"", "value", "empty"}]
WorkerType ==
  [pc : {"idle", "new", "validate", "use", "done"}, role : {"store", "secret"}, store : StoreIds,
   ns : NsNames, plan : Seq(StepType), held : [Fields -> Creds], reads : SUBSET (Kinds \X NsNames),
   deferred : BOOLEAN, result : {"", "Ready", "Used", "Unknown", "Error", "specerror", "panic"},
   rebound : BOOLEAN]

TypeOK ==
  /\ prov \in AllAuth
  /\ \A id \in StoreIds : WellFormed(prov, stores[id])
  /\ worker \in [Workers -> WorkerType]
  /\ receiver \in [Fields -> Creds] /\ getter \in [Fields -> Creds]

\* A reconcile has a namespace unless it validates a ClusterSecretStore.
Placed(p, s, x) ==
  /\ Context(p, s, x.ns)
  /\ (x.ns = "") <=> (x.role = "store" /\ Cluster(s))
  /\ ~Cluster(s) => x.ns = Home
  /\ p \in Generators => x.role = "secret"

\* Its plan has steps that are allowed, and so had what it carried out.
Follows(p, s, x) ==
  /\ x.plan \in Plans(p, s, x.ns)
  /\ \A r \in x.reads : Located(p, s, x.ns, r[1], r[2])
  /\ Vetted(p, s) => x.result \notin {"specerror", "panic"}

\* What only a client that cannot be made would need.
Stopped(p, s, x) ==
  x.pc = "new" =>
    /\ p = "akeyless" /\ s.method = "none" => x.plan = SpecError
    /\ p = "aws" /\ x.ns = "" /\ UsesJWT(s) /\ ~HasNs(s, "sa") =>
          \/ x.deferred
          \/ x.plan = Do("placeholder")
          \/ x.plan # <<>> /\ Head(x.plan).do = "panic"

WorkerOK(p, s, x) ==
  IF x.pc = "idle" THEN x.reads = {} /\ x.result = ""
  ELSE Placed(p, s, x) /\ Follows(p, s, x) /\ Stopped(p, s, x)

Inv == TypeOK /\ \A w \in Workers : WorkerOK(prov, stores[worker[w].store], worker[w])

(* The empty sequence.                                                     *)
LEMMA NoneLeft == ASSUME NEW A, NEW z \in Seq(A) PROVE z = <<>> <=> Len(z) = 0
OBVIOUS

(* The first step of a sequence, and the rest of it.                       *)
LEMMA Rest ==
  ASSUME NEW A, NEW z \in Seq(A), z # <<>>
  PROVE  /\ Head(z) = z[1] /\ Head(z) \in A /\ Tail(z) \in Seq(A)
         /\ Tail(z) = <<>> => Len(z) = 1
         /\ Tail(z) # <<>> => Tail(z)[Len(Tail(z))] = z[Len(z)]
<1>1. Len(z) \in Nat /\ Len(z) > 0 BY NoneLeft
<1>2. Head(z) = z[1] /\ Head(z) \in A /\ Tail(z) \in Seq(A) /\ Len(Tail(z)) = Len(z) - 1
  BY <1>1
<1>3. \A i \in 1 .. Len(z) - 1 : Tail(z)[i] = z[i + 1] BY <1>1
<1> DEFINE t == Tail(z)
<1>4. t \in Seq(A) /\ Len(t) = Len(z) - 1 /\ \A i \in 1 .. Len(z) - 1 : t[i] = z[i + 1]
  BY <1>2, <1>3
<1> HIDE DEF t
<1>5. t = <<>> => Len(z) = 1 BY <1>1, <1>4, NoneLeft
<1>6. t # <<>> => t[Len(t)] = z[Len(z)]
  <2> SUFFICES ASSUME t # <<>> PROVE t[Len(t)] = z[Len(z)] OBVIOUS
  <2>1. Len(t) # 0 BY <1>4, NoneLeft
  <2> QED BY <1>1, <1>4, <2>1
<1> QED BY <1>2, <1>5, <1>6 DEF t

(* The first step of a plan, and the rest of it.                           *)
LEMMA StepOfPlan ==
  ASSUME NEW p, NEW s, NEW n, NEW x \in Plans(p, s, n), x # <<>>
  PROVE  /\ Head(x) \in Allowed(p, s, n)
         /\ Tail(x) \in Plans(p, s, n)
         /\ Head(x).need = "try" => Tail(x) # <<>> /\ Tail(Tail(x)) \in Plans(p, s, n)
<1> DEFINE A == Allowed(p, s, n)
<1>1. x \in Seq(A) /\ x[Len(x)].need # "try" BY DEF Plans
<1>2. ASSUME NEW z \in Seq(A), z # <<>>, z[Len(z)].need # "try"
      PROVE  /\ Head(z) \in A /\ Tail(z) \in Seq(A)
             /\ Head(z).need = "try" => Tail(z) # <<>>
             /\ Tail(z) # <<>> => Tail(z)[Len(Tail(z))].need # "try"
  BY <1>2, Rest
<1>3. /\ Head(x) \in A /\ Tail(x) \in Seq(A)
      /\ Head(x).need = "try" => Tail(x) # <<>>
      /\ Tail(x) # <<>> => Tail(x)[Len(Tail(x))].need # "try"
  BY <1>1, <1>2
<1>4. Tail(x) \in Plans(p, s, n) BY <1>3 DEF Plans
<1>5. Tail(x) # <<>> => Tail(Tail(x)) \in Plans(p, s, n) BY <1>2, <1>3 DEF Plans
<1> QED BY <1>3, <1>4, <1>5

(* The only step of a plan.                                                *)
LEMMA FirstIs ==
  ASSUME NEW d PROVE Do(d) # <<>> /\ Head(Do(d)).do = d /\ Tail(Do(d)) = <<>>
<1>1. [Blank EXCEPT !.do = d].do = d BY DEF Blank
<1> DEFINE st == [Blank EXCEPT !.do = d]
<1>2. Do(d) = <<st>> /\ st.do = d BY <1>1 DEF Do
<1> HIDE DEF st
<1>3. <<st>> # <<>> /\ Head(<<st>>) = st /\ Tail(<<st>>) = <<>> OBVIOUS
<1> QED BY <1>2, <1>3

(* A reconcile that goes on, or ends.                                      *)
LEMMA GoesOn ==
  ASSUME NEW p, NEW s, NEW x \in WorkerType, NEW y \in WorkerType, x.pc # "idle",
         WorkerOK(p, s, x), y.pc # "idle", y.ns = x.ns, y.role = x.role,
         y.plan \in Plans(p, s, x.ns),
         \A r \in y.reads : r \in x.reads \/ Located(p, s, x.ns, r[1], r[2]),
         Vetted(p, s) => y.result \notin {"specerror", "panic"},
         Stopped(p, s, y)
  PROVE  WorkerOK(p, s, y)
<1>1. Placed(p, s, x) /\ Follows(p, s, x) BY DEF WorkerOK
<1>2. Placed(p, s, y) BY <1>1 DEF Placed
<1>3. Follows(p, s, y) BY <1>1 DEF Follows
<1> QED BY <1>2, <1>3 DEF WorkerOK

(* A client that cannot be made goes no further than its first step.       *)
LEMMA StaysStopped ==
  ASSUME NEW p, NEW s, NEW x \in WorkerType, NEW y \in WorkerType, x.pc # "idle",
         WorkerOK(p, s, x), x.plan # <<>>, Head(x.plan).do \notin {"specerror", "panic"},
         y.pc = x.pc, y.ns = x.ns, x.deferred => y.deferred,
         Head(x.plan).do = "placeholder" => y.deferred
  PROVE  Stopped(p, s, y)
<1>1. Stopped(p, s, x) BY DEF WorkerOK
<1>2. Head(SpecError).do = "specerror" /\ Head(Do("placeholder")).do = "placeholder"
  BY FirstIs DEF SpecError
<1> QED BY <1>1, <1>2 DEF Stopped

(* One reconcile changes.                                                  *)
LEMMA Updated ==
  ASSUME Inv, NEW w \in Workers, NEW new \in WorkerType,
         WorkerOK(prov, stores[new.store], new), Only(w, new), prov' = prov, stores' = stores,
         receiver' \in [Fields -> Creds], getter' \in [Fields -> Creds]
  PROVE  Inv'
<1>1. worker \in [Workers -> WorkerType] BY DEF Inv, TypeOK
<1>2. worker' = [worker EXCEPT ![w] = new] BY DEF Only
<1>3. TypeOK' BY <1>1, <1>2 DEF Inv, TypeOK
<1>4. ASSUME NEW v \in Workers PROVE WorkerOK(prov', stores'[worker'[v].store], worker'[v])
  <2>1. CASE v = w
    <3>1. worker'[v] = new BY <1>1, <1>2, <2>1
    <3> QED BY <3>1
  <2>2. CASE v # w
    <3>1. worker'[v] = worker[v] BY <1>1, <1>2, <2>2
    <3>2. WorkerOK(prov, stores[worker[v].store], worker[v]) BY DEF Inv
    <3> QED BY <3>1, <3>2
  <2> QED BY <2>1, <2>2
<1> QED BY <1>3, <1>4 DEF Inv

(* What is known of a reconcile that has a step to take.                   *)
LEMMA AtStep ==
  ASSUME Inv, NEW w \in Workers, Ready(w)
  PROVE  /\ worker[w] \in WorkerType /\ worker[w].pc \in {"new", "validate", "use"}
         /\ WorkerOK(prov, Mine(w), worker[w])
         /\ Step(w) \in Allowed(prov, Mine(w), worker[w].ns) /\ Step(w) \in StepType
         /\ Step(w) = Head(worker[w].plan) /\ worker[w].plan # <<>>
         /\ Tail(worker[w].plan) \in Plans(prov, Mine(w), worker[w].ns)
         /\ Step(w).need = "try" => Tail(Tail(worker[w].plan)) \in Plans(prov, Mine(w), worker[w].ns)
         /\ \A r \in worker[w].reads : Located(prov, Mine(w), worker[w].ns, r[1], r[2])
         /\ worker[w].store \in StoreIds
<1>1. worker[w] \in WorkerType BY DEF Inv, TypeOK
<1>2. worker[w].pc \in {"new", "validate", "use"} /\ worker[w].plan # <<>> BY DEF Ready
<1>3. WorkerOK(prov, Mine(w), worker[w]) BY DEF Inv, Mine
<1>4. Follows(prov, Mine(w), worker[w]) BY <1>2, <1>3 DEF WorkerOK
<1>5. worker[w].plan \in Plans(prov, Mine(w), worker[w].ns) BY <1>4 DEF Follows
<1>6. \A r \in worker[w].reads : Located(prov, Mine(w), worker[w].ns, r[1], r[2])
  BY <1>4 DEF Follows
<1>7. /\ Step(w) \in Allowed(prov, Mine(w), worker[w].ns)
      /\ Tail(worker[w].plan) \in Plans(prov, Mine(w), worker[w].ns)
      /\ Step(w).need = "try" => Tail(Tail(worker[w].plan)) \in Plans(prov, Mine(w), worker[w].ns)
  BY <1>2, <1>5, StepOfPlan DEF Step
<1>8. Step(w) \in StepType BY <1>7 DEF Allowed
<1>9. worker[w].store \in StoreIds BY <1>1 DEF WorkerType
<1> QED BY <1>1, <1>2, <1>3, <1>6, <1>7, <1>8, <1>9 DEF Step

(* Plans are sequences of steps.                                           *)
LEMMA PlanSteps == ASSUME NEW p, NEW s, NEW n, NEW x \in Plans(p, s, n) PROVE x \in Seq(StepType)
<1>1. x \in Seq(Allowed(p, s, n)) BY DEF Plans
<1>2. Allowed(p, s, n) \subseteq StepType BY DEF Allowed
<1> QED BY <1>1, <1>2

(* The step is taken and the reconcile comes to the next.                  *)
LEMMA Moves ==
  ASSUME Inv, NEW w \in Workers, Ready(w), Step(w).do \notin {"specerror", "panic"},
         NEW y \in WorkerType, y.ns = worker[w].ns, y.role = worker[w].role,
         y.pc = worker[w].pc, y.result = worker[w].result, y.store = worker[w].store,
         \/ y.plan = Tail(worker[w].plan)
         \/ Step(w).need = "try" /\ y.plan = Tail(Tail(worker[w].plan)),
         \A r \in y.reads : r \in worker[w].reads
                             \/ Located(prov, Mine(w), worker[w].ns, r[1], r[2]),
         worker[w].deferred => y.deferred, Step(w).do = "placeholder" => y.deferred
  PROVE  WorkerOK(prov, stores[y.store], y)
<1> DEFINE x == worker[w]
<1>1. /\ x \in WorkerType /\ x.pc \in {"new", "validate", "use"} /\ x.plan # <<>>
      /\ WorkerOK(prov, Mine(w), x) /\ Step(w) = Head(x.plan)
      /\ Tail(x.plan) \in Plans(prov, Mine(w), x.ns)
      /\ Step(w).need = "try" => Tail(Tail(x.plan)) \in Plans(prov, Mine(w), x.ns)
  BY AtStep
<1>2. y.plan \in Plans(prov, Mine(w), x.ns) BY <1>1
<1>3. Head(x.plan).do \notin {"specerror", "panic"} /\ (Head(x.plan).do = "placeholder" => y.deferred)
  BY <1>1
<1>4. y.ns = x.ns /\ y.role = x.role /\ y.pc = x.pc /\ y.result = x.result /\ (x.deferred => y.deferred)
      /\ \A r \in y.reads : r \in x.reads \/ Located(prov, Mine(w), x.ns, r[1], r[2])
  OBVIOUS
<1>5. Mine(w) = stores[y.store] BY DEF Mine
<1> HIDE DEF x
<1>6. Stopped(prov, Mine(w), y) BY <1>1, <1>3, <1>4, StaysStopped
<1>7. Vetted(prov, Mine(w)) => y.result \notin {"specerror", "panic"}
  BY <1>1, <1>4 DEF WorkerOK, Follows
<1>8. WorkerOK(prov, Mine(w), y) BY <1>1, <1>2, <1>4, <1>6, <1>7, GoesOn
<1> QED BY <1>5, <1>8

(* The reconcile ends.                                                     *)
LEMMA Ends ==
  ASSUME Inv, NEW w \in Workers, worker[w].pc \in {"new", "validate", "use"},
         NEW y \in WorkerType, y.ns = worker[w].ns, y.role = worker[w].role,
         y.pc = "done", y.store = worker[w].store, y.plan = worker[w].plan,
         Vetted(prov, Mine(w)) => y.result \notin {"specerror", "panic"},
         \A r \in y.reads : r \in worker[w].reads
                             \/ Located(prov, Mine(w), worker[w].ns, r[1], r[2])
  PROVE  WorkerOK(prov, stores[y.store], y)
<1> DEFINE x == worker[w]
<1>1. x \in WorkerType /\ WorkerOK(prov, Mine(w), x) BY DEF Inv, TypeOK, Mine
<1>2. x.plan \in Plans(prov, Mine(w), x.ns) BY <1>1 DEF WorkerOK, Follows
<1>3. Stopped(prov, Mine(w), y) BY DEF Stopped
<1>4. /\ y.ns = x.ns /\ y.role = x.role /\ y.plan = x.plan /\ x.pc # "idle" /\ y.pc # "idle"
      /\ \A r \in y.reads : r \in x.reads \/ Located(prov, Mine(w), x.ns, r[1], r[2])
  OBVIOUS
<1>5. Mine(w) = stores[y.store] BY DEF Mine
<1> HIDE DEF x
<1>6. WorkerOK(prov, Mine(w), y) BY <1>1, <1>2, <1>3, <1>4, GoesOn
<1> QED BY <1>5, <1>6

(* A step fails.                                                           *)
LEMMA Fails ==
  ASSUME Inv, NEW w \in Workers, Ready(w), NEW new \in Failed(w)
  PROVE  /\ new \in WorkerType /\ new.store = worker[w].store /\ new.reads = worker[w].reads
         /\ new.ns = worker[w].ns /\ new.role = worker[w].role /\ new.plan = worker[w].plan
         /\ new.pc = "done" /\ new.result \in {"Error", "Unknown"}
         /\ new.held = worker[w].held /\ new.rebound = worker[w].rebound
         /\ WorkerOK(prov, stores[new.store], new)
<1>1. worker[w] \in WorkerType BY DEF Inv, TypeOK
<1>2. PICK r \in {"Error", "Unknown"} : new = [worker[w] EXCEPT !.pc = "done", !.result = r]
  BY DEF Failed, WhenCallFails
<1>3. /\ new \in WorkerType /\ new.store = worker[w].store /\ new.reads = worker[w].reads
      /\ new.ns = worker[w].ns /\ new.role = worker[w].role /\ new.plan = worker[w].plan
      /\ new.pc = "done" /\ new.result = r
      /\ new.held = worker[w].held /\ new.rebound = worker[w].rebound
  BY <1>1, <1>2 DEF WorkerType
<1>4. WorkerOK(prov, stores[new.store], new) BY <1>3, Ends DEF Ready
<1> QED BY <1>2, <1>3, <1>4

-----------------------------------------------------------------------------
(* The steps of StoreAuth.                                                 *)

(* The registered provider and the connection hold credentials.            *)
LEMMA SharedTyped ==
  ASSUME Inv PROVE receiver \in [Fields -> Creds] /\ getter \in [Fields -> Creds]
BY DEF Inv, TypeOK

(* A sequence keeps its first element.                                     *)
LEMMA FirstKept ==
  ASSUME NEW A, NEW x \in Seq(A), NEW y \in Seq(A), Len(x) > 0
  PROVE  x \o y \in Seq(A) /\ Len(x \o y) > 0 /\ (x \o y)[1] = x[1]
<1>1. Len(x) \in Nat /\ Len(y) \in Nat /\ Len(x \o y) = Len(x) + Len(y) OBVIOUS
<1>2. 1 \in 1 .. Len(x) BY <1>1
<1>3. (x \o y)[1] = x[1] BY <1>1, <1>2
<1> QED BY <1>1, <1>3

(* A plan that begins with a crash.                                        *)
LEMMA PanicFirst ==
  ASSUME NEW x \in Seq(StepType), NEW y \in Seq(StepType)
  PROVE  LET q == Do("panic") \o x \o y IN q # <<>> /\ Head(q).do = "panic"
<1> DEFINE st == [Blank EXCEPT !.do = "panic"]
<1>1. st.do = "panic" /\ st \in StepType
  BY DEF Blank, StepType, Dos, Kinds, Fields, NsNames
<1>2. Do("panic") = <<st>> BY DEF Do
<1> HIDE DEF st
<1>3. <<st>> \in Seq(StepType) /\ Len(<<st>>) = 1 /\ <<st>>[1] = st BY <1>1
<1> DEFINE z == <<st>>
<1> HIDE DEF z
<1>4. z \in Seq(StepType) /\ Len(z) > 0 /\ z[1] = st BY <1>3 DEF z
<1>5. z \o x \in Seq(StepType) /\ Len(z \o x) > 0 /\ (z \o x)[1] = st BY <1>4, FirstKept
<1> DEFINE u == z \o x
<1> HIDE DEF u
<1>6. u \in Seq(StepType) /\ Len(u) > 0 /\ u[1] = st BY <1>5 DEF u
<1>7. u \o y \in Seq(StepType) /\ Len(u \o y) > 0 /\ (u \o y)[1] = st BY <1>6, FirstKept
<1> DEFINE v == u \o y
<1> HIDE DEF v
<1>8. v \in Seq(StepType) /\ Len(v) > 0 /\ v[1] = st BY <1>7 DEF v
<1>9. v # <<>> BY <1>8
<1>10. Head(v) = st BY <1>8
<1> QED BY <1>1, <1>2, <1>9, <1>10 DEF v, u, z

(* A reconcile begins with the plan of NewClient.                          *)
LEMMA StartKeeps == ASSUME Inv, NEW w \in Workers, Start(w) PROVE Inv'
<1>1. PICK id \in StoreIds, role \in {"store", "secret"}, n \in NsNames :
        /\ (n = "") <=> (role = "store" /\ Cluster(stores[id]))
        /\ ~Cluster(stores[id]) => n \in {Home, ""}
        /\ prov \in Generators => role = "secret"
        /\ Only(w, [Idle EXCEPT !.pc = "new", !.role = role, !.store = id, !.ns = n,
                                !.plan = NewClient(prov, stores[id], n)])
  BY DEF Start, NsNames
<1> DEFINE s == stores[id]
           q == NewClient(prov, s, n)
           new == [Idle EXCEPT !.pc = "new", !.role = role, !.store = id, !.ns = n, !.plan = q]
<1>2. Context(prov, s, n) BY <1>1 DEF Inv, TypeOK, Context
<1>3. q \in Plans(prov, s, n) /\ q \in Seq(StepType) BY <1>2, NewClientAllowed, PlanSteps
<1>4. prov = "akeyless" /\ s.method = "none" => q = SpecError
  BY DEF NewClient, AkeylessNewClient
<1>5. ASSUME prov = "aws", n = "", UsesJWT(s), ~HasNs(s, "sa")
      PROVE  q = Do("placeholder") \/ (q # <<>> /\ Head(q).do = "panic")
  <2>1. q = AWSNewClient(s, n) BY <1>5 DEF NewClient
  <2>2. CASE AWSIsReferentSpec(s) BY <1>1, <1>5, <2>1, <2>2 DEF AWSNewClient
  <2>3. CASE ~AWSIsReferentSpec(s)
    <3>1. ~IsSet(s, "sa") BY <1>5, <2>3 DEF AWSIsReferentSpec, IsSet, HasNs
    <3> DEFINE y == IF UsesStatic(s) THEN credsFromSecretRef(s, n) ELSE <<>>
    <3>2. q = Do("panic") \o y \o Do("call")
      BY <1>5, <2>1, <2>3, <3>1 DEF AWSNewClient, AWSNewSession, credsFromServiceAccount
    <3>3. y \in Plans(prov, s, n) BY <1>2, <1>5, <2>3, AWSSecretsAllowed, EmptyAllowed
    <3>4. Do("call") \in Plans(prov, s, n) BY DoAllowed
    <3>5. y \in Seq(StepType) /\ Do("call") \in Seq(StepType) BY <3>3, <3>4, PlanSteps
    <3> HIDE DEF y, q
    <3> QED BY <3>2, <3>5, PanicFirst
  <2> QED BY <2>2, <2>3
<1>6. NoCreds \in [Fields -> Creds] BY DEF NoCreds, Nothing, Creds, NsNames
<1>7. Idle \in WorkerType
  <2>1. <<>> \in Seq(StepType) /\ {} \in SUBSET (Kinds \X NsNames) OBVIOUS
  <2>2. Home \in NsNames /\ "s1" \in StoreIds BY DEF Home, Namespaces, NsNames, StoreIds
  <2> QED BY <1>6, <2>1, <2>2 DEF Idle, WorkerType
<1>8. /\ new \in WorkerType /\ new.pc = "new" /\ new.role = role /\ new.store = id /\ new.ns = n
      /\ new.plan = q /\ new.reads = {} /\ new.result = "" /\ new.deferred = FALSE
  BY <1>3, <1>7 DEF Idle, WorkerType
<1> HIDE DEF q, new
<1>9. Placed(prov, s, new) BY <1>1, <1>2, <1>8 DEF Placed
<1>10. Follows(prov, s, new) BY <1>3, <1>8 DEF Follows
<1>11. Stopped(prov, s, new) BY <1>4, <1>5, <1>8 DEF Stopped
<1>12. WorkerOK(prov, stores[new.store], new) BY <1>8, <1>9, <1>10, <1>11 DEF WorkerOK
<1>13. Only(w, new) BY <1>1 DEF new, q
<1>14. prov' = prov /\ stores' = stores /\ receiver' = receiver /\ getter' = getter BY DEF Start
<1> QED BY <1>8, <1>12, <1>13, <1>14, SharedTyped, Updated

(* The look-up of an object.                                               *)
LEMMA KeptTyped ==
  ASSUME Inv, NEW w \in Workers, Ready(w), NEW val \in {"value", "empty"}
  PROVE  /\ Advance(w) \in WorkerType /\ Keep(w, Step(w), val) \in WorkerType
         /\ \A y \in {Advance(w), Keep(w, Step(w), val)} :
              /\ y.plan = Tail(worker[w].plan) /\ y.store = worker[w].store /\ y.ns = worker[w].ns
              /\ y.role = worker[w].role /\ y.pc = worker[w].pc /\ y.reads = worker[w].reads
              /\ y.deferred = worker[w].deferred /\ y.result = worker[w].result
              /\ y.rebound = worker[w].rebound
         /\ Advance(w).held = worker[w].held
         /\ Keep(w, Step(w), val).held =
              [worker[w].held EXCEPT ![Step(w).field] =
                 [store |-> worker[w].store, ns |-> Step(w).ns, from |-> Step(w).field, val |-> val]]
<1> DEFINE x == worker[w]
           st == Step(w)
           c == [store |-> worker[w].store, ns |-> Step(w).ns, from |-> Step(w).field, val |-> val]
<1>1. x \in WorkerType /\ st \in StepType /\ Tail(x.plan) \in Plans(prov, Mine(w), x.ns)
  BY AtStep
<1>2. Tail(x.plan) \in Seq(StepType) BY <1>1, PlanSteps
<1>3. c \in Creds BY <1>1 DEF Creds, WorkerType, StepType
<1>4. Advance(w) = [x EXCEPT !.plan = Tail(x.plan)] BY DEF Advance
<1>5. /\ Advance(w) \in WorkerType /\ Advance(w).held = x.held
      /\ Advance(w).plan = Tail(x.plan) /\ Advance(w).store = x.store /\ Advance(w).ns = x.ns
      /\ Advance(w).role = x.role /\ Advance(w).pc = x.pc /\ Advance(w).reads = x.reads
      /\ Advance(w).deferred = x.deferred /\ Advance(w).result = x.result
      /\ Advance(w).rebound = x.rebound
  BY <1>1, <1>2, <1>4 DEF WorkerType
<1>6. Keep(w, st, val) = [Advance(w) EXCEPT !.held[st.field] = c] BY DEF Keep
<1> DEFINE h == [x.held EXCEPT ![st.field] = c]
<1>7. h \in [Fields -> Creds] BY <1>1, <1>3 DEF WorkerType, StepType
<1>8. Keep(w, st, val) = [Advance(w) EXCEPT !.held = h] BY <1>5, <1>6 DEF WorkerType
<1> HIDE DEF h
<1>9. /\ Keep(w, st, val) \in WorkerType /\ Keep(w, st, val).held = h
      /\ Keep(w, st, val).plan = Tail(x.plan) /\ Keep(w, st, val).store = x.store
      /\ Keep(w, st, val).ns = x.ns /\ Keep(w, st, val).role = x.role
      /\ Keep(w, st, val).pc = x.pc /\ Keep(w, st, val).reads = x.reads
      /\ Keep(w, st, val).deferred = x.deferred /\ Keep(w, st, val).result = x.result
      /\ Keep(w, st, val).rebound = x.rebound
  BY <1>5, <1>7, <1>8 DEF WorkerType
<1> QED BY <1>5, <1>9 DEF h

(* A step that leaves nothing but itself behind.                           *)
LEMMA AdvanceKeeps ==
  ASSUME Inv, NEW w \in Workers, Ready(w), Step(w).do \notin {"specerror", "panic", "placeholder"},
         Only(w, Advance(w)), prov' = prov, stores' = stores,
         receiver' \in [Fields -> Creds], getter' \in [Fields -> Creds]
  PROVE  Inv'
<1> DEFINE y == Advance(w)
<1>1. /\ y \in WorkerType /\ y.plan = Tail(worker[w].plan) /\ y.store = worker[w].store
      /\ y.ns = worker[w].ns /\ y.role = worker[w].role /\ y.pc = worker[w].pc
      /\ y.reads = worker[w].reads /\ y.deferred = worker[w].deferred
      /\ y.result = worker[w].result
  BY KeptTyped
<1> HIDE DEF y
<1>2. WorkerOK(prov, stores[y.store], y) BY <1>1, Moves
<1> QED BY <1>1, <1>2, Updated DEF y

(* A step that fails.                                                      *)
LEMMA FailKeeps ==
  ASSUME Inv, NEW w \in Workers, Ready(w), Fail(w), prov' = prov, stores' = stores,
         receiver' \in [Fields -> Creds], getter' \in [Fields -> Creds]
  PROVE  Inv'
<1>1. PICK new \in Failed(w) : Only(w, new) BY DEF Fail
<1> QED BY <1>1, Fails, Updated

(* A look-up, noted whatever comes of it.                                  *)
LEMMA NoteTyped ==
  ASSUME Inv, NEW w \in Workers, Doing(w, "read"), NEW y \in WorkerType,
         y.reads = worker[w].reads
  PROVE  LET st == Step(w)
             z  == [y EXCEPT !.reads = @ \cup {<<st.kind, st.ns>>}]
         IN  /\ z \in WorkerType /\ z.pc = y.pc /\ z.role = y.role /\ z.store = y.store
             /\ z.ns = y.ns /\ z.plan = y.plan /\ z.held = y.held /\ z.deferred = y.deferred
             /\ z.result = y.result /\ z.rebound = y.rebound
             /\ \A r \in z.reads : r \in worker[w].reads
                                   \/ Located(prov, Mine(w), worker[w].ns, r[1], r[2])
<1> DEFINE st == Step(w)
           R == y.reads \cup {<<st.kind, st.ns>>}
           z == [y EXCEPT !.reads = R]
<1>1. st \in StepType /\ st \in Allowed(prov, Mine(w), worker[w].ns) /\ st.do = "read"
  BY AtStep DEF Doing
<1>2. Located(prov, Mine(w), worker[w].ns, st.kind, st.ns) BY <1>1 DEF Allowed
<1>3. R \in SUBSET (Kinds \X NsNames)
  <2>1. st.kind \in Kinds /\ st.ns \in NsNames BY <1>1 DEF StepType
  <2>2. <<st.kind, st.ns>> \in Kinds \X NsNames BY <2>1
  <2>3. y.reads \in SUBSET (Kinds \X NsNames) BY DEF WorkerType
  <2> QED BY <2>2, <2>3
<1>4. /\ z \in WorkerType /\ z.pc = y.pc /\ z.role = y.role /\ z.store = y.store
      /\ z.ns = y.ns /\ z.plan = y.plan /\ z.held = y.held /\ z.deferred = y.deferred
      /\ z.result = y.result /\ z.rebound = y.rebound /\ z.reads = R
  BY <1>3 DEF WorkerType
<1>5. <<st.kind, st.ns>>[1] = st.kind /\ <<st.kind, st.ns>>[2] = st.ns OBVIOUS
<1>6. \A r \in R : r \in worker[w].reads \/ Located(prov, Mine(w), worker[w].ns, r[1], r[2])
  BY <1>2, <1>5
<1> QED BY <1>4, <1>6

(* The look-up of an object: without an answer the reconcile ends, or tries*)
(* the next way to a token.                                                *)
LEMMA ReadKeeps == ASSUME Inv, NEW w \in Workers, Read(w) PROVE Inv'
<1> DEFINE st == Step(w)
           note(y) == [y EXCEPT !.reads = @ \cup {<<st.kind, st.ns>>}]
<1>1. Doing(w, "read") /\ Ready(w) /\ st.do = "read" BY DEF Read, Doing
<1>2. prov' = prov /\ stores' = stores /\ receiver' = receiver /\ getter' = getter BY DEF Read
<1>3. PICK ans \in Answers(w) :
        LET val == IF ans = "value" THEN "value" ELSE "empty"
        IN  IF st.need = "try"
            THEN Only(w, note(IF ans = "value" THEN [Keep(w, st, val) EXCEPT !.plan = Tail(@)]
                                               ELSE Advance(w)))
            ELSE IF ans = "absent" \/ (ans = "nokey" /\ st.need = "present")
            THEN \E new \in Failed(w) : Only(w, note(new))
            ELSE Only(w, note(Keep(w, st, val)))
  BY DEF Read
<1> DEFINE val == IF ans = "value" THEN "value" ELSE "empty"
           kept == Keep(w, st, val)
           skip == [kept EXCEPT !.plan = Tail(@)]
<1>4. val \in {"value", "empty"} OBVIOUS
<1>5. /\ Advance(w) \in WorkerType /\ kept \in WorkerType
      /\ \A y \in {Advance(w), kept} :
           /\ y.plan = Tail(worker[w].plan) /\ y.store = worker[w].store /\ y.ns = worker[w].ns
           /\ y.role = worker[w].role /\ y.pc = worker[w].pc /\ y.reads = worker[w].reads
           /\ y.deferred = worker[w].deferred /\ y.result = worker[w].result
  BY <1>1, <1>4, KeptTyped
<1>6. ASSUME NEW y \in {Advance(w), kept}, Only(w, note(y)) PROVE Inv'
  <2> DEFINE z == note(y)
  <2>1. /\ z \in WorkerType /\ z.pc = y.pc /\ z.role = y.role /\ z.store = y.store
        /\ z.ns = y.ns /\ z.plan = y.plan /\ z.deferred = y.deferred /\ z.result = y.result
        /\ \A r \in z.reads : r \in worker[w].reads
                              \/ Located(prov, Mine(w), worker[w].ns, r[1], r[2])
    BY <1>1, <1>5, NoteTyped
  <2> HIDE DEF z
  <2>2. WorkerOK(prov, stores[z.store], z) BY <1>1, <1>5, <2>1, Moves
  <2> QED BY <1>2, <1>6, <2>1, <2>2, SharedTyped, Updated DEF z
<1>7. ASSUME st.need = "try", Only(w, note(skip)) PROVE Inv'
  <2>1. Tail(Tail(worker[w].plan)) \in Seq(StepType) BY <1>1, <1>7, AtStep, PlanSteps
  <2>2. /\ skip \in WorkerType /\ skip.plan = Tail(Tail(worker[w].plan))
        /\ skip.store = worker[w].store /\ skip.ns = worker[w].ns /\ skip.role = worker[w].role
        /\ skip.pc = worker[w].pc /\ skip.reads = worker[w].reads
        /\ skip.deferred = worker[w].deferred /\ skip.result = worker[w].result
    <3> HIDE DEF kept
    <3> QED BY <1>5, <2>1 DEF WorkerType
  <2> DEFINE z == note(skip)
  <2> HIDE DEF skip
  <2>3. /\ z \in WorkerType /\ z.pc = skip.pc /\ z.role = skip.role /\ z.store = skip.store
        /\ z.ns = skip.ns /\ z.plan = skip.plan /\ z.deferred = skip.deferred
        /\ z.result = skip.result
        /\ \A r \in z.reads : r \in worker[w].reads
                              \/ Located(prov, Mine(w), worker[w].ns, r[1], r[2])
    BY <1>1, <2>2, NoteTyped
  <2> HIDE DEF z
  <2>4. WorkerOK(prov, stores[z.store], z) BY <1>1, <1>7, <2>2, <2>3, Moves
  <2> QED BY <1>2, <1>7, <2>2, <2>3, <2>4, SharedTyped, Updated DEF z
<1>8. ASSUME NEW y \in Failed(w), Only(w, note(y)) PROVE Inv'
  <2>1. /\ y \in WorkerType /\ y.store = worker[w].store /\ y.reads = worker[w].reads
        /\ y.ns = worker[w].ns /\ y.role = worker[w].role /\ y.plan = worker[w].plan
        /\ y.pc = "done" /\ y.result \in {"Error", "Unknown"}
    BY <1>1, Fails
  <2> DEFINE z == note(y)
  <2>2. /\ z \in WorkerType /\ z.pc = y.pc /\ z.role = y.role /\ z.store = y.store
        /\ z.ns = y.ns /\ z.plan = y.plan /\ z.result = y.result
        /\ \A r \in z.reads : r \in worker[w].reads
                              \/ Located(prov, Mine(w), worker[w].ns, r[1], r[2])
    BY <1>1, <2>1, NoteTyped
  <2> HIDE DEF z
  <2>3. WorkerOK(prov, stores[z.store], z) BY <1>1, <2>1, <2>2, Ends DEF Ready
  <2> QED BY <1>2, <1>8, <2>2, <2>3, SharedTyped, Updated DEF z
<1> QED BY <1>3, <1>6, <1>7, <1>8

(* A key of a Secret already read.                                         *)
LEMMA TakenTyped ==
  ASSUME Inv, NEW w \in Workers, Doing(w, "take"), NEW val \in {"value", "empty"}
  PROVE  LET st == Step(w)
             h  == [worker[w].held EXCEPT ![st.field] = [worker[w].held[st.from] EXCEPT !.val = val]]
             y  == [Advance(w) EXCEPT !.held[st.field] = [worker[w].held[st.from] EXCEPT !.val = val]]
         IN  /\ y \in WorkerType /\ y.plan = Tail(worker[w].plan) /\ y.store = worker[w].store
             /\ y.ns = worker[w].ns /\ y.role = worker[w].role /\ y.pc = worker[w].pc
             /\ y.reads = worker[w].reads /\ y.deferred = worker[w].deferred
             /\ y.result = worker[w].result /\ y.rebound = worker[w].rebound /\ y.held = h
<1> DEFINE st == Step(w)
           c == [worker[w].held[st.from] EXCEPT !.val = val]
           h == [worker[w].held EXCEPT ![st.field] = c]
           a == Advance(w)
           y == [a EXCEPT !.held[st.field] = c]
<1>1. Ready(w) /\ worker[w] \in WorkerType /\ st \in StepType BY AtStep DEF Doing
<1>2. worker[w].held \in [Fields -> Creds] /\ st.from \in Fields /\ st.field \in Fields
  BY <1>1 DEF WorkerType, StepType
<1>3. c \in Creds
  <2> DEFINE d == worker[w].held[st.from]
  <2>1. d \in Creds BY <1>2
  <2> HIDE DEF d
  <2>2. [d EXCEPT !.val = val] \in Creds BY <2>1 DEF Creds
  <2> QED BY <2>2 DEF d
<1>4. h \in [Fields -> Creds] BY <1>2, <1>3
<1>5. /\ a \in WorkerType /\ a.plan = Tail(worker[w].plan) /\ a.store = worker[w].store
      /\ a.ns = worker[w].ns /\ a.role = worker[w].role /\ a.pc = worker[w].pc
      /\ a.reads = worker[w].reads /\ a.deferred = worker[w].deferred
      /\ a.result = worker[w].result /\ a.rebound = worker[w].rebound /\ a.held = worker[w].held
  BY <1>1, KeptTyped
<1> HIDE DEF a, c
<1>6. y = [a EXCEPT !.held = h] BY <1>5 DEF WorkerType
<1> HIDE DEF y, h
<1>7. /\ y \in WorkerType /\ y.plan = a.plan /\ y.store = a.store /\ y.ns = a.ns
      /\ y.role = a.role /\ y.pc = a.pc /\ y.reads = a.reads /\ y.deferred = a.deferred
      /\ y.result = a.result /\ y.rebound = a.rebound /\ y.held = h
  BY <1>4, <1>5, <1>6 DEF WorkerType
<1> QED BY <1>5, <1>7 DEF y, h, c, a

(* The same.                                                               *)
LEMMA TakeKeeps == ASSUME Inv, NEW w \in Workers, TakeFrom(w) PROVE Inv'
<1>1. Doing(w, "take") /\ Ready(w) /\ Step(w).do = "take" BY DEF TakeFrom, Doing
<1>2. prov' = prov /\ stores' = stores /\ receiver' = receiver /\ getter' = getter BY DEF TakeFrom
<1>3. PICK val \in {"value", "empty"} :
        Only(w, [Advance(w) EXCEPT !.held[Step(w).field] =
                    [worker[w].held[Step(w).from] EXCEPT !.val = val]])
  BY DEF TakeFrom
<1> DEFINE y == [Advance(w) EXCEPT !.held[Step(w).field] =
                    [worker[w].held[Step(w).from] EXCEPT !.val = val]]
<1>4. /\ y \in WorkerType /\ y.plan = Tail(worker[w].plan) /\ y.store = worker[w].store
      /\ y.ns = worker[w].ns /\ y.role = worker[w].role /\ y.pc = worker[w].pc
      /\ y.reads = worker[w].reads /\ y.deferred = worker[w].deferred
      /\ y.result = worker[w].result
  BY <1>1, TakenTyped
<1>5. Only(w, y) BY <1>3
<1> HIDE DEF y
<1>6. WorkerOK(prov, stores[y.store], y) BY <1>1, <1>4, Moves
<1> QED BY <1>2, <1>4, <1>5, <1>6, SharedTyped, Updated

(* A value that must not be empty, and calls.                              *)
LEMMA CallsKeep ==
  ASSUME Inv, NEW w \in Workers, CheckValue(w) \/ CallOk(w) \/ CallFails(w)
  PROVE  Inv'
<1>1. Ready(w) /\ Step(w).do \in {"check", "call", "login"}
  BY DEF CheckValue, CallOk, CallFails, Doing
<1>2. prov' = prov /\ stores' = stores /\ receiver' = receiver /\ getter' = getter
  BY DEF CheckValue, CallOk, CallFails
<1>3. Only(w, Advance(w)) \/ Fail(w) BY DEF CheckValue, CallOk, CallFails
<1>4. CASE Only(w, Advance(w)) BY <1>1, <1>2, <1>4, SharedTyped, AdvanceKeeps
<1>5. CASE Fail(w) BY <1>1, <1>2, <1>5, SharedTyped, FailKeeps
<1> QED BY <1>3, <1>4, <1>5

(* A spec that does not do: not one that was vetted.                       *)
LEMMA RefuseKeeps == ASSUME Inv, NEW w \in Workers, Refuse(w) PROVE Inv'
<1> DEFINE y == [worker[w] EXCEPT !.pc = "done", !.result = Step(w).do]
<1>1. Ready(w) /\ Step(w).do \in {"specerror", "panic"} BY DEF Refuse, Doing
<1>2. prov' = prov /\ stores' = stores /\ receiver' = receiver /\ getter' = getter BY DEF Refuse
<1>3. Only(w, y) BY DEF Refuse
<1>4. worker[w] \in WorkerType /\ Step(w) \in Allowed(prov, Mine(w), worker[w].ns) BY <1>1, AtStep
<1>5. ~Vetted(prov, Mine(w)) BY <1>1, <1>4 DEF Allowed
<1>6. /\ y \in WorkerType /\ y.pc = "done" /\ y.plan = worker[w].plan /\ y.store = worker[w].store
      /\ y.ns = worker[w].ns /\ y.role = worker[w].role /\ y.reads = worker[w].reads
  BY <1>1, <1>4 DEF WorkerType
<1> HIDE DEF y
<1>7. WorkerOK(prov, stores[y.store], y) BY <1>1, <1>5, <1>6, Ends DEF Ready
<1> QED BY <1>2, <1>3, <1>6, <1>7, SharedTyped, Updated

(* A client that waits for a namespace.                                    *)
LEMMA PlaceholderKeeps == ASSUME Inv, NEW w \in Workers, Placeholder(w) PROVE Inv'
<1> DEFINE a == Advance(w)
           y == [a EXCEPT !.deferred = TRUE]
<1>1. Ready(w) /\ Step(w).do = "placeholder" BY DEF Placeholder, Doing
<1>2. prov' = prov /\ stores' = stores /\ receiver' = receiver /\ getter' = getter
  BY DEF Placeholder
<1>3. Only(w, y) BY DEF Placeholder
<1>4. /\ a \in WorkerType /\ a.plan = Tail(worker[w].plan) /\ a.store = worker[w].store
      /\ a.ns = worker[w].ns /\ a.role = worker[w].role /\ a.pc = worker[w].pc
      /\ a.reads = worker[w].reads /\ a.result = worker[w].result
  BY <1>1, KeptTyped
<1> HIDE DEF a
<1>5. /\ y \in WorkerType /\ y.plan = a.plan /\ y.store = a.store /\ y.ns = a.ns
      /\ y.role = a.role /\ y.pc = a.pc /\ y.reads = a.reads /\ y.result = a.result
      /\ y.deferred = TRUE
  BY <1>4 DEF WorkerType
<1> HIDE DEF y
<1>6. WorkerOK(prov, stores[y.store], y) BY <1>1, <1>4, <1>5, Moves
<1> QED BY <1>2, <1>3, <1>5, <1>6, SharedTyped, Updated

(* The registered provider is overwritten; the other reconciles that hold  *)
(* it are told so.                                                         *)
LEMMA ShareKeeps == ASSUME Inv, NEW w \in Workers, Share(w) PROVE Inv'
<1> DEFINE a == Advance(w)
           R(v) == worker[v].rebound \/ worker[v].pc \in {"validate", "use"}
                                     \/ (worker[v].pc = "new" /\ worker[v].plan = <<>>)
           other(v) == [worker[v] EXCEPT !.rebound = R(v)]
<1>1. Ready(w) /\ Step(w).do = "share" BY DEF Share, Doing
<1>2. prov' = prov /\ stores' = stores /\ getter' = getter /\ receiver' = worker[w].held
  BY DEF Share, Publish
<1>3. worker' = [v \in Workers |-> IF v = w THEN a ELSE other(v)] BY DEF Share, Publish
<1>4. /\ a \in WorkerType /\ a.plan = Tail(worker[w].plan) /\ a.store = worker[w].store
      /\ a.ns = worker[w].ns /\ a.role = worker[w].role /\ a.pc = worker[w].pc
      /\ a.reads = worker[w].reads /\ a.result = worker[w].result
      /\ a.deferred = worker[w].deferred
  BY <1>1, KeptTyped
<1> HIDE DEF a
<1>5. WorkerOK(prov, stores[a.store], a) BY <1>1, <1>4, Moves
<1>6. ASSUME NEW v \in Workers, v # w
      PROVE  /\ other(v) \in WorkerType /\ other(v).store = worker[v].store
             /\ WorkerOK(prov, stores[other(v).store], other(v))
  <2> DEFINE x == worker[v]
             y == [x EXCEPT !.rebound = R(v)]
  <2>1. x \in WorkerType /\ WorkerOK(prov, stores[x.store], x) BY DEF Inv, TypeOK
  <2>2. R(v) \in BOOLEAN BY <2>1 DEF WorkerType
  <2> HIDE DEF R, x
  <2>3. /\ y \in WorkerType /\ y.store = x.store /\ y.ns = x.ns /\ y.role = x.role /\ y.pc = x.pc
        /\ y.plan = x.plan /\ y.reads = x.reads /\ y.deferred = x.deferred /\ y.result = x.result
    BY <2>1, <2>2 DEF WorkerType
  <2> HIDE DEF y
  <2>4. WorkerOK(prov, stores[y.store], y)
    BY <2>1, <2>3 DEF WorkerOK, Placed, Follows, Stopped
  <2> QED BY <2>3, <2>4 DEF x, y
<1> HIDE DEF other
<1>7. ASSUME NEW v \in Workers
      PROVE  worker'[v] \in WorkerType /\ WorkerOK(prov, stores[worker'[v].store], worker'[v])
  <2>1. CASE v = w BY <1>3, <1>4, <1>5, <2>1
  <2>2. CASE v # w BY <1>3, <1>6, <2>2
  <2> QED BY <2>1, <2>2
<1>8. worker' \in [Workers -> WorkerType] BY <1>3, <1>7
<1>9. receiver' \in [Fields -> Creds] BY <1>1, <1>2, AtStep DEF WorkerType
<1>10. TypeOK' BY <1>2, <1>8, <1>9 DEF Inv, TypeOK
<1> QED BY <1>2, <1>7, <1>10 DEF Inv

(* The connection of the endpoint.                                         *)
LEMMA GetterKeeps == ASSUME Inv, NEW w \in Workers, GetOrCreateSecretGetter(w) PROVE Inv'
<1> DEFINE a == Advance(w)
           b == getter["ca"].store # worker[w].store
           y == [a EXCEPT !.rebound = b]
<1>1. Ready(w) /\ Step(w).do = "getter" BY DEF GetOrCreateSecretGetter, Doing
<1>2. prov' = prov /\ stores' = stores /\ receiver' = receiver BY DEF GetOrCreateSecretGetter
<1>3. /\ a \in WorkerType /\ a.plan = Tail(worker[w].plan) /\ a.store = worker[w].store
      /\ a.ns = worker[w].ns /\ a.role = worker[w].role /\ a.pc = worker[w].pc
      /\ a.reads = worker[w].reads /\ a.result = worker[w].result
      /\ a.deferred = worker[w].deferred
  BY <1>1, KeptTyped
<1>4. CASE Only(w, y) /\ getter' = getter
  <2> HIDE DEF a
  <2>1. b \in BOOLEAN OBVIOUS
  <2> HIDE DEF b
  <2>2. /\ y \in WorkerType /\ y.plan = a.plan /\ y.store = a.store /\ y.ns = a.ns
        /\ y.role = a.role /\ y.pc = a.pc /\ y.reads = a.reads /\ y.result = a.result
        /\ y.deferred = a.deferred
    BY <1>3, <2>1 DEF WorkerType
  <2>3. Only(w, y) BY <1>4
  <2> HIDE DEF y
  <2>4. WorkerOK(prov, stores[y.store], y) BY <1>1, <1>3, <2>2, Moves
  <2> QED BY <1>2, <1>4, <2>2, <2>3, <2>4, SharedTyped, Updated
<1>5. CASE getter' = worker[w].held /\ Only(w, a)
  <2>1. getter' \in [Fields -> Creds] BY <1>1, <1>5, AtStep DEF WorkerType
  <2> QED BY <1>1, <1>2, <1>5, <2>1, SharedTyped, AdvanceKeeps
<1>6. CASE Fail(w) /\ getter' = getter BY <1>1, <1>2, <1>6, SharedTyped, FailKeeps
<1> QED BY <1>4, <1>5, <1>6 DEF GetOrCreateSecretGetter

(* The client is made.                                                     *)
LEMMA MadeKeeps == ASSUME Inv, NEW w \in Workers, Made(w) PROVE Inv'
<1> DEFINE x == worker[w]
           s == Mine(w)
           use == [x EXCEPT !.pc = "use", !.plan = UseClient(prov, s, x.ns)]
           val == [x EXCEPT !.pc = "validate", !.plan = ValidateCalls(prov, s, x.ns)]
           end == [x EXCEPT !.pc = "done", !.result = "Unknown"]
<1>1. x.pc = "new" /\ x.plan = <<>> BY DEF Made
<1>2. prov' = prov /\ stores' = stores /\ receiver' = receiver /\ getter' = getter BY DEF Made
<1>3. x \in WorkerType /\ WorkerOK(prov, s, x) /\ s = stores[x.store] BY DEF Inv, TypeOK, Mine
<1>4. Placed(prov, s, x) /\ Follows(prov, s, x) /\ Stopped(prov, s, x) BY <1>1, <1>3 DEF WorkerOK
<1>5. Context(prov, s, x.ns) BY <1>4 DEF Placed
<1>6. SpecError # <<>> /\ Do("placeholder") # <<>> BY FirstIs DEF SpecError
<1>7. Vetted(prov, s) => x.result \notin {"specerror", "panic"} BY <1>4 DEF Follows
<1>8. CASE x.role = "secret"
  <2>1. x.ns # "" BY <1>4, <1>8 DEF Placed
  <2>2. prov = "akeyless" => s.method # "none" BY <1>1, <1>4, <1>6 DEF Stopped
  <2>3. UseClient(prov, s, x.ns) \in Plans(prov, s, x.ns) BY <1>5, <2>1, <2>2, UseClientAllowed
  <2>4. UseClient(prov, s, x.ns) \in Seq(StepType) BY <2>3, PlanSteps
  <2>5. /\ use \in WorkerType /\ use.pc = "use" /\ use.plan = UseClient(prov, s, x.ns)
        /\ use.store = x.store /\ use.ns = x.ns /\ use.role = x.role /\ use.reads = x.reads
        /\ use.result = x.result
    BY <1>3, <2>4 DEF WorkerType
  <2>6. Only(w, use) BY <1>8 DEF Made
  <2> HIDE DEF use, x, s
  <2>7. Stopped(prov, s, use) BY <2>5 DEF Stopped
  <2>8. WorkerOK(prov, stores[use.store], use)
    BY <1>1, <1>3, <1>7, <2>3, <2>5, <2>7, GoesOn
  <2> QED BY <1>2, <2>5, <2>6, <2>8, SharedTyped, Updated
<1>9. CASE x.role # "secret" /\ Defers(prov, s, x.deferred)
  <2>1. /\ end \in WorkerType /\ end.pc = "done" /\ end.plan = x.plan /\ end.store = x.store
        /\ end.ns = x.ns /\ end.role = x.role /\ end.reads = x.reads /\ end.result = "Unknown"
    BY <1>3 DEF WorkerType
  <2>2. Only(w, end) BY <1>9 DEF Made
  <2> HIDE DEF end
  <2>3. WorkerOK(prov, stores[end.store], end) BY <1>1, <2>1, Ends
  <2> QED BY <1>2, <2>1, <2>2, <2>3, SharedTyped, Updated
<1>10. CASE x.role # "secret" /\ ~Defers(prov, s, x.deferred)
  <2>1. prov \notin Generators BY <1>4, <1>10 DEF Placed
  <2>2. prov = "aws" => ~x.deferred BY <1>10 DEF Defers
  <2>3. prov = "aws" => x.ns # "" \/ ~UsesJWT(s) \/ HasNs(s, "sa")
    BY <1>1, <1>4, <1>6, <2>2 DEF Stopped
  <2>4. ValidateCalls(prov, s, x.ns) \in Plans(prov, s, x.ns)
    BY <1>5, <2>1, <2>3, ValidateAllowed
  <2>5. ValidateCalls(prov, s, x.ns) \in Seq(StepType) BY <2>4, PlanSteps
  <2>6. /\ val \in WorkerType /\ val.pc = "validate" /\ val.plan = ValidateCalls(prov, s, x.ns)
        /\ val.store = x.store /\ val.ns = x.ns /\ val.role = x.role /\ val.reads = x.reads
        /\ val.result = x.result
    BY <1>3, <2>5 DEF WorkerType
  <2>7. Only(w, val) BY <1>10 DEF Made
  <2> HIDE DEF val, x, s
  <2>8. Stopped(prov, s, val) BY <2>6 DEF Stopped
  <2>9. WorkerOK(prov, stores[val.store], val)
    BY <1>1, <1>3, <1>7, <2>4, <2>6, <2>8, GoesOn
  <2> QED BY <1>2, <2>6, <2>7, <2>9, SharedTyped, Updated
<1> QED BY <1>8, <1>9, <1>10

(* What a client works with are credentials.                               *)
LEMMA EffectiveTyped == ASSUME Inv, NEW w \in Workers PROVE Effective(w) \in [Fields -> Creds]
<1>1. worker[w].held \in [Fields -> Creds] BY DEF Inv, TypeOK, WorkerType
<1>2. receiver \in [Fields -> Creds] /\ getter \in [Fields -> Creds] BY SharedTyped
<1>3. [worker[w].held EXCEPT !["ca"] = getter["ca"]] \in [Fields -> Creds]
  BY <1>1, <1>2 DEF Fields
<1> QED BY <1>1, <1>2, <1>3 DEF Effective

(* The reconcile has come to its end.                                      *)
LEMMA FinishKeeps == ASSUME Inv, NEW w \in Workers, Finish(w) PROVE Inv'
<1> DEFINE r == IF worker[w].role = "store" THEN "Ready" ELSE "Used"
           y == [worker[w] EXCEPT !.pc = "done", !.held = Effective(w), !.result = r]
<1>1. worker[w].pc \in {"validate", "use"} BY DEF Finish
<1>2. prov' = prov /\ stores' = stores /\ receiver' = receiver /\ getter' = getter BY DEF Finish
<1>3. Only(w, y) BY DEF Finish
<1>4. worker[w] \in WorkerType BY DEF Inv, TypeOK
<1>5. r \in {"Ready", "Used"} OBVIOUS
<1>6. /\ y \in WorkerType /\ y.pc = "done" /\ y.plan = worker[w].plan /\ y.store = worker[w].store
      /\ y.ns = worker[w].ns /\ y.role = worker[w].role /\ y.reads = worker[w].reads
      /\ y.result = r
  BY <1>4, <1>5, EffectiveTyped DEF WorkerType
<1> HIDE DEF y, r
<1>7. WorkerOK(prov, stores[y.store], y) BY <1>1, <1>5, <1>6, Ends
<1> QED BY <1>2, <1>3, <1>6, <1>7, SharedTyped, Updated

(* The stores that can be.                                                 *)
LEMMA StoresWellFormed ==
  ASSUME NEW p \in AllAuth, NEW s \in StoresOf(p) PROVE WellFormed(p, s)
<1> DEFINE K == IF p \in Generators THEN {"Generator"} ELSE {"SecretStore", "ClusterSecretStore"}
           Made1(m, ca) == {[kind |-> k, method |-> m, ns |-> ns, ca |-> ca, plain |-> pl] :
                              k \in K, ns \in NamedIn(p, m, ca), pl \in BOOLEAN}
<1>2. StoresOf(p) = UNION {UNION {Made1(m, ca) : ca \in CAKinds(p, m)} : m \in Methods(p)}
  BY DEF StoresOf
<1> HIDE DEF Made1
<1>3. PICK m \in Methods(p) : s \in UNION {Made1(m, ca) : ca \in CAKinds(p, m)} BY <1>2
<1>4. PICK ca \in CAKinds(p, m) : s \in Made1(m, ca) BY <1>3
<1>5. PICK k \in K, ns \in NamedIn(p, m, ca), pl \in BOOLEAN :
        s = [kind |-> k, method |-> m, ns |-> ns, ca |-> ca, plain |-> pl]
  BY <1>4 DEF Made1
<1>6. ns \in [Fields -> {"unset", "nil"} \cup Namespaces]
  <2> DEFINE refs == References(p, m) \cup (IF ca \in {"Secret", "ConfigMap"} THEN {"ca"} ELSE {})
  <2>1. PICK g \in [refs -> {"unset", "nil"} \cup Namespaces] :
               ns = [f \in Fields |-> IF f \in refs THEN g[f] ELSE "unset"]
    BY DEF NamedIn
  <2> HIDE DEF refs
  <2> QED BY <2>1
<1> QED BY <1>5, <1>6 DEF WellFormed

(* The start.                                                              *)
LEMMA InitInv == Init => Inv
<1> SUFFICES ASSUME Init PROVE Inv OBVIOUS
<1>1. prov \in AllAuth BY AuthAssumption DEF Init
<1>2. PICK x \in StoresOf(prov), y \in StoresOf(prov) :
        \A id \in StoreIds : stores[id] = x \/ stores[id] = y
  BY DEF Init
<1>3. \A id \in StoreIds : WellFormed(prov, stores[id]) BY <1>1, <1>2, StoresWellFormed
<1>4. NoCreds \in [Fields -> Creds] BY DEF NoCreds, Nothing, Creds, NsNames
<1>5. Idle \in WorkerType /\ Idle.pc = "idle" /\ Idle.reads = {} /\ Idle.result = ""
  <2>1. <<>> \in Seq(StepType) /\ {} \in SUBSET (Kinds \X NsNames) OBVIOUS
  <2>2. Home \in NsNames /\ "s1" \in StoreIds BY DEF Home, Namespaces, NsNames, StoreIds
  <2> QED BY <1>4, <2>1, <2>2 DEF Idle, WorkerType
<1>6. worker = [w \in Workers |-> Idle] /\ receiver = NoCreds /\ getter = NoCreds BY DEF Init
<1>7. TypeOK BY <1>1, <1>3, <1>4, <1>5, <1>6 DEF TypeOK
<1>8. ASSUME NEW w \in Workers PROVE WorkerOK(prov, stores[worker[w].store], worker[w])
  BY <1>5, <1>6 DEF WorkerOK
<1> QED BY <1>7, <1>8 DEF Inv

(* Whatever is missing, fails or is done in between, every reconcile only  *)
(* ever carries out allowed steps.                                         *)
THEOREM Invariance == Spec => []Inv
<1>1. Inv /\ [Next]_vars => Inv'
  <2> SUFFICES ASSUME Inv, [Next]_vars PROVE Inv' OBVIOUS
  <2>1. CASE Next
    <3>1. PICK w \in Workers :
            \/ Start(w) \/ Read(w) \/ TakeFrom(w) \/ CheckValue(w) \/ CallOk(w) \/ CallFails(w)
            \/ Refuse(w) \/ Placeholder(w) \/ Share(w) \/ GetOrCreateSecretGetter(w)
            \/ Made(w) \/ Finish(w)
      BY <2>1 DEF Next
    <3> QED
      BY <3>1, StartKeeps, ReadKeeps, TakeKeeps, CallsKeep, RefuseKeeps, PlaceholderKeeps,
         ShareKeeps, GetterKeeps, MadeKeeps, FinishKeeps
  <2>2. CASE UNCHANGED vars
    BY <2>2 DEF vars, Inv, TypeOK
  <2> QED BY <2>1, <2>2
<1> QED BY <1>1, InitInv, PTL DEF Spec

(* The look-ups of all providers and generators stay in the namespace of   *)
(* the reconcile and in those that a ClusterSecretStore names, and none is *)
(* made without a namespace while a referent store is validated.           *)
THEOREM LookupsConfined == Spec => []Confined
<1>1. Inv => Confined
  <2> SUFFICES ASSUME Inv PROVE Confined OBVIOUS
  <2>1. ASSUME NEW w \in Workers, NEW r \in worker[w].reads
        PROVE  Located(prov, Mine(w), worker[w].ns, r[1], r[2])
    <3>1. WorkerOK(prov, Mine(w), worker[w]) BY DEF Inv, Mine
    <3> QED BY <2>1, <3>1 DEF WorkerOK, Follows
  <2>2. OwnNamespaces BY <2>1 DEF OwnNamespaces, Located
  <2>3. DefersReferent BY <2>1 DEF DefersReferent, Located, Admitted
  <2> QED BY <2>2, <2>3 DEF Confined
<1> QED BY <1>1, Invariance, PTL

(* A store that a thorough ValidateStore admitted is never refused by      *)
(* NewClient and never crashes it because of its spec.                     *)
THEOREM AdmittedStoresRun == Spec => []AdmittedRuns
<1>1. Inv => AdmittedRuns
  <2> SUFFICES ASSUME Inv, NEW w \in Workers, Admitted(w), prov \in Thorough
               PROVE  worker[w].result \notin {"specerror", "panic"}
    BY DEF AdmittedRuns
  <2>1. WorkerOK(prov, Mine(w), worker[w]) BY DEF Inv, Mine
  <2>2. Vetted(prov, Mine(w)) BY DEF Vetted, Admitted
  <2> QED BY <2>1, <2>2 DEF WorkerOK, Follows
<1> QED BY <1>1, Invariance, PTL

-----------------------------------------------------------------------------
(* Whose credentials they are.                                             *)

\* A credential of the store itself, read where the store says.
Own(p, s, x, f) ==
  LET c == x.held[f]
  IN  c # Nothing => /\ c.store = x.store
                     /\ c.from = TakenFrom(p, f)
                     /\ c.ns = InReferent(s, x.ns, c.from) \/ (f = "ca" /\ p \in AnyNamespaceCA)
                     /\ p = "yandex" /\ Cluster(s) => HasNs(s, c.from)

\* One that is still to be replaced by what the plan takes.
Pending(q, f) == \E i \in 1 .. Len(q) : q[i].do = "take" /\ q[i].field = f

\* What a plan takes, and the key of a connection, has been read before, and
\* nothing else is left in its place.
Grounds(st, f) == (st.do = "read" /\ st.need # "try" /\ st.field = f) \/ st.do \in {"specerror", "panic"}
Needs(st) == st.do \in {"take", "getter"}
Grounded(p, q, h) ==
  /\ \A i \in 1 .. Len(q) : Needs(q[i]) =>
       h[q[i].from] # Nothing \/ \E j \in 1 .. (i - 1) : Grounds(q[j], q[i].from)
  /\ \A i \in 1 .. Len(q) : q[i].do = "read" /\ TakenFrom(p, q[i].field) # q[i].field =>
       \E j \in (i + 1) .. Len(q) : q[j].do = "take" /\ q[j].field = q[i].field
  /\ (\E i \in 1 .. Len(q) : q[i].need = "try") => \A j \in 1 .. Len(q) : ~Needs(q[j])

Sound(p, s, x) ==
  /\ \A f \in Fields : Own(p, s, x, f) \/ Pending(x.plan, f)
  /\ Grounded(p, x.plan, x.held)

\* The client of a singleton is the registered provider: it ends in a share,
\* and then works with what it read unless another client came after it.
Sharing(x, rec) ==
  /\ x.pc = "new" /\ x.plan # <<>> =>
       /\ x.plan[Len(x.plan)].do = "share"
       /\ \A i \in 1 .. Len(x.plan) : x.plan[i].need # "try"
       /\ \A i \in 1 .. (Len(x.plan) - 1) : x.plan[i].do # "share"
  /\ x.pc # "new" => \A i \in 1 .. Len(x.plan) : x.plan[i].do \in {"call", "login"}
  /\ (x.pc = "new" => x.plan = <<>>) /\ ~x.rebound => rec = x.held

\* The client of a Yandex store has the connection that was there first.
Connected(x, get) ==
  (\A i \in 1 .. Len(x.plan) : x.plan[i].do # "getter") =>
    /\ get # NoCreds
    /\ ~x.rebound => get["ca"] = Nothing \/ get["ca"].store = x.store

Owning(p, s, x, rec, get) ==
  /\ x.pc \in {"new", "validate", "use"} =>
       /\ Sound(p, s, x)
       /\ p \in Singletons => Sharing(x, rec)
       /\ p = "yandex" => Connected(x, get)
  /\ x.pc = "done" /\ x.result \in {"Ready", "Used"} /\ ~x.rebound =>
       \A f \in Fields : Own(p, s, x, f)

\* The connection was made with the CA of a store, read where it says.
GetterOwn ==
  LET c == getter["ca"]
      s == stores[c.store]
  IN  prov = "yandex" /\ c # Nothing =>
        /\ c.store \in StoreIds /\ c.from = "ca"
        /\ c.ns = IF Cluster(s) THEN s.ns["ca"] ELSE Home
        /\ Cluster(s) => HasNs(s, "ca")

Inv2 ==
  /\ GetterOwn
  /\ \A w \in Workers : Owning(prov, stores[worker[w].store], worker[w], receiver, getter)

-----------------------------------------------------------------------------
(* What the plans read before they take it.                                *)

\* Steps of some sorts that read only some fields.
Class(D, G) == {st \in StepType : /\ st.do \in D /\ st.need # "try"
                                  /\ st.do = "read" => st.field \in G}
Ids(p) == {f \in Fields : TakenFrom(p, f) = f}
Calm(p) == Class(Dos \ {"take", "getter"}, Ids(p))

(* Steps that are no look-ups.                                             *)
LEMMA ClassDo ==
  ASSUME NEW D, NEW G, NEW d \in D, d \in Dos, d # "read"
  PROVE  Do(d) \in Seq(Class(D, G))
<1> DEFINE st == [Blank EXCEPT !.do = d]
<1>1. Do(d) = <<st>> BY DEF Do
<1>2. st \in StepType /\ st.do = d /\ st.need = ""
  BY DEF Blank, StepType, Dos, Kinds, Fields, NsNames
<1> HIDE DEF st
<1>3. st \in Class(D, G) BY <1>2 DEF Class
<1> QED BY <1>1, <1>3, Single

(* Checks.                                                                 *)
LEMMA ClassCheck ==
  ASSUME NEW D, NEW G, "check" \in D, NEW f \in Fields
  PROVE  Check(f) \in Seq(Class(D, G))
<1> DEFINE st == [Blank EXCEPT !.do = "check", !.field = f]
<1>1. Check(f) = <<st>> BY DEF Check
<1>2. st \in StepType /\ st.do = "check" /\ st.need = ""
  BY DEF Blank, StepType, Dos, Kinds, Fields, NsNames
<1> HIDE DEF st
<1>3. st \in Class(D, G) BY <1>2 DEF Class
<1> QED BY <1>1, <1>3, Single

(* Keys taken.                                                             *)
LEMMA ClassTake ==
  ASSUME NEW D, NEW G, "take" \in D, NEW f \in Fields, NEW g \in Fields
  PROVE  Take(f, g) \in Seq(Class(D, G))
<1> DEFINE st == [Blank EXCEPT !.do = "take", !.field = f, !.from = g]
<1>1. Take(f, g) = <<st>> BY DEF Take
<1>2. st \in StepType /\ st.do = "take" /\ st.need = ""
  BY DEF Blank, StepType, Dos, Kinds, Fields, NsNames
<1> HIDE DEF st
<1>3. st \in Class(D, G) BY <1>2 DEF Class
<1> QED BY <1>1, <1>3, Single

(* Look-ups, and what they are the ground for.                             *)
LEMMA ClassReading ==
  ASSUME NEW D, NEW G, "read" \in D, NEW kind \in Kinds, NEW f \in G, f \in Fields,
         NEW ns \in NsNames, NEW need \in {"present", "lax"}
  PROVE  LET q == Reading(kind, f, ns, need)
         IN  q \in Seq(Class(D, G)) /\ \E j \in 1 .. Len(q) : Grounds(q[j], f)
<1> DEFINE st == [Blank EXCEPT !.do = "read", !.kind = kind, !.field = f, !.ns = ns, !.need = need]
<1>1. Reading(kind, f, ns, need) = <<st>> BY DEF Reading
<1>2. st \in StepType /\ st.do = "read" /\ st.field = f /\ st.need = need
  BY DEF Blank, StepType, Dos, Kinds, Fields, NsNames
<1> HIDE DEF st
<1>3. st \in Class(D, G) BY <1>2 DEF Class
<1>4. <<st>> \in Seq(Class(D, G)) BY <1>3, Single
<1>5. Grounds(st, f) BY <1>2 DEF Grounds
<1>6. 1 \in 1 .. Len(<<st>>) /\ <<st>>[1] = st OBVIOUS
<1> QED BY <1>1, <1>4, <1>5, <1>6

(* A refusal is the ground for everything after it.                        *)
LEMMA RefusalGrounds ==
  ASSUME NEW D, NEW G, NEW f, "specerror" \in D
  PROVE  /\ SpecError \in Seq(Class(D, G))
         /\ \E j \in 1 .. Len(SpecError) : Grounds(SpecError[j], f)
<1>1. SpecError \in Seq(Class(D, G)) BY ClassDo DEF SpecError, Dos
<1> DEFINE st == [Blank EXCEPT !.do = "specerror"]
<1>2. SpecError = <<st>> BY DEF SpecError, Do
<1>3. Grounds(st, f) BY DEF Grounds, Blank
<1> HIDE DEF st
<1>4. 1 \in 1 .. Len(<<st>>) /\ <<st>>[1] = st OBVIOUS
<1> QED BY <1>1, <1>2, <1>3, <1>4

(* A Secret of a store that must name a namespace.                         *)
LEMMA ClassStrictly ==
  ASSUME NEW p, NEW s, NEW n, Context(p, s, n), NEW D, NEW G, {"read", "specerror"} \subseteq D,
         NEW f \in G, f \in Fields, NEW need \in {"present", "lax"}
  PROVE  LET q == Strictly(s, n, f, need)
         IN  q \in Seq(Class(D, G)) /\ \E j \in 1 .. Len(q) : Grounds(q[j], f)
<1>1. CASE Cluster(s) /\ ~HasNs(s, f)
  <2>1. Strictly(s, n, f, need) = SpecError BY <1>1 DEF Strictly
  <2> QED BY <2>1, RefusalGrounds
<1>2. CASE ~(Cluster(s) /\ ~HasNs(s, f))
  <2> DEFINE ns == IF Cluster(s) THEN s.ns[f] ELSE n
  <2>1. Strictly(s, n, f, need) = Reading("Secret", f, ns, need) BY <1>2 DEF Strictly
  <2>2. ns \in NsNames BY <1>2 DEF Context, WellFormed, HasNs, NsNames, Namespaces
  <2> HIDE DEF ns
  <2> QED BY <2>1, <2>2, ClassReading DEF Kinds
<1> QED BY <1>1, <1>2

(* The elements of two sequences one after the other.                      *)
LEMMA JoinIndex ==
  ASSUME NEW A, NEW x \in Seq(A), NEW y \in Seq(A)
  PROVE  /\ x \o y \in Seq(A) /\ Len(x \o y) = Len(x) + Len(y)
         /\ Len(x) \in Nat /\ Len(y) \in Nat
         /\ \A i \in 1 .. Len(x) : (x \o y)[i] = x[i]
         /\ \A i \in 1 .. Len(y) : (x \o y)[Len(x) + i] = y[i]
<1>1. Len(x) \in Nat /\ Len(y) \in Nat /\ Len(x \o y) = Len(x) + Len(y) /\ x \o y \in Seq(A)
  OBVIOUS
<1>2. \A i \in 1 .. Len(x) : (x \o y)[i] = x[i] BY <1>1
<1>3. \A i \in 1 .. Len(y) : (x \o y)[Len(x) + i] = y[i] BY <1>1
<1> QED BY <1>1, <1>2, <1>3

(* The ground stays when the plan goes on.                                 *)
LEMMA GroundStays ==
  ASSUME NEW A, NEW x \in Seq(A), NEW y \in Seq(A), NEW f,
         \/ \E j \in 1 .. Len(x) : Grounds(x[j], f)
         \/ \E j \in 1 .. Len(y) : Grounds(y[j], f)
  PROVE  \E j \in 1 .. Len(x \o y) : Grounds((x \o y)[j], f)
<1>1. /\ Len(x \o y) = Len(x) + Len(y) /\ Len(x) \in Nat /\ Len(y) \in Nat
      /\ \A i \in 1 .. Len(x) : (x \o y)[i] = x[i]
      /\ \A i \in 1 .. Len(y) : (x \o y)[Len(x) + i] = y[i]
  BY JoinIndex
<1>2. CASE \E j \in 1 .. Len(x) : Grounds(x[j], f)
  <2>1. PICK j \in 1 .. Len(x) : Grounds(x[j], f) BY <1>2
  <2>2. j \in 1 .. Len(x \o y) /\ Grounds((x \o y)[j], f) BY <1>1, <2>1
  <2> QED BY <2>2
<1>3. CASE \E j \in 1 .. Len(y) : Grounds(y[j], f)
  <2>1. PICK j \in 1 .. Len(y) : Grounds(y[j], f) BY <1>3
  <2>2. Len(x) + j \in 1 .. Len(x \o y) /\ Grounds((x \o y)[Len(x) + j], f) BY <1>1, <2>1
  <2> QED BY <2>2
<1> QED BY <1>2, <1>3

(* A plan that takes nothing needs no ground.                              *)
LEMMA CalmGrounded ==
  ASSUME NEW p, NEW q \in Seq(Calm(p)), NEW h PROVE Grounded(p, q, h)
<1>1. \A i \in 1 .. Len(q) : q[i] \in Calm(p) OBVIOUS
<1>2. \A i \in 1 .. Len(q) :
        ~Needs(q[i]) /\ q[i].need # "try" /\ (q[i].do = "read" => TakenFrom(p, q[i].field) = q[i].field)
  BY <1>1 DEF Calm, Class, Ids, Needs
<1> QED BY <1>2 DEF Grounded

(* No more does one of a provider that never takes.                        *)
LEMMA PlanGrounded ==
  ASSUME NEW p, p \notin {"alibaba", "onboardbase", "akeyless", "yandex"}, NEW s, NEW n,
         NEW q \in Plans(p, s, n), NEW h
  PROVE  Grounded(p, q, h)
<1>1. \A f \in Fields : TakenFrom(p, f) = f BY DEF TakenFrom
<1>2. \A i \in 1 .. Len(q) : q[i] \in Allowed(p, s, n) BY DEF Plans
<1>3. \A i \in 1 .. Len(q) : ~Needs(q[i]) /\ TakenFrom(p, q[i].field) = q[i].field
  BY <1>1, <1>2 DEF Allowed, StepType, Needs
<1> QED BY <1>3 DEF Grounded

(* A plan up to what it takes.                                             *)
LEMMA TakeGrounded ==
  ASSUME NEW p, NEW h, NEW G, NEW x \in Seq(Class(Dos \ {"take", "getter"}, Ids(p) \cup G)),
         NEW st \in StepType, st.need # "try",
         \/ st.do = "take" /\ G = {st.field}
         \/ st.do = "getter" /\ G = {},
         \E j \in 1 .. Len(x) : Grounds(x[j], st.from)
  PROVE  Grounded(p, x \o <<st>>, h)
<1> DEFINE y == <<st>>
           q == x \o y
<1>1. x \in Seq(StepType) BY DEF Class
<1>2. y \in Seq(StepType) /\ Len(y) = 1 /\ y[1] = st BY Single
<1> HIDE DEF y
<1>3. /\ Len(q) = Len(x) + 1 /\ Len(x) \in Nat /\ q[Len(x) + 1] = st
      /\ \A i \in 1 .. Len(x) : q[i] = x[i]
  <2>0. y \in Seq(StepType) BY <1>2
  <2>1. /\ Len(q) = Len(x) + Len(y) /\ Len(x) \in Nat
        /\ \A i \in 1 .. Len(x) : q[i] = x[i]
        /\ \A i \in 1 .. Len(y) : q[Len(x) + i] = y[i]
    BY <1>1, <2>0, JoinIndex
  <2>2. 1 \in 1 .. Len(y) BY <1>2
  <2> HIDE DEF q
  <2>3. q[Len(x) + 1] = y[1] BY <2>1, <2>2
  <2> QED BY <1>2, <2>1, <2>3
<1>4. \A i \in 1 .. Len(x) : /\ ~Needs(x[i]) /\ x[i].need # "try"
                             /\ x[i].do = "read" => x[i].field \in Ids(p) \cup G
  BY DEF Class, Needs
<1>5. PICK g \in 1 .. Len(x) : Grounds(x[g], st.from) OBVIOUS
<1> HIDE DEF q
<1>6. ASSUME NEW i \in 1 .. Len(q), Needs(q[i])
      PROVE  \E j \in 1 .. (i - 1) : Grounds(q[j], q[i].from)
  <2>1. i = Len(x) + 1 BY <1>3, <1>4, <1>6
  <2>2. g \in 1 .. (i - 1) /\ Grounds(q[g], q[i].from) BY <1>3, <1>5, <2>1
  <2> QED BY <2>2
<1>7. ASSUME NEW i \in 1 .. Len(q), q[i].do = "read", TakenFrom(p, q[i].field) # q[i].field
      PROVE  \E j \in (i + 1) .. Len(q) : q[j].do = "take" /\ q[j].field = q[i].field
  <2>1. i \in 1 .. Len(x) BY <1>3, <1>7
  <2>2. q[i].field \in G BY <1>3, <1>4, <1>7, <2>1 DEF Ids
  <2>3. Len(x) + 1 \in (i + 1) .. Len(q) BY <1>3, <2>1
  <2>4. q[Len(x) + 1].do = "take" /\ q[Len(x) + 1].field = q[i].field BY <1>3, <2>2
  <2> QED BY <2>3, <2>4
<1>8. \A i \in 1 .. Len(q) : q[i].need # "try" BY <1>3, <1>4
<1>9. Grounded(p, q, h) BY <1>6, <1>7, <1>8 DEF Grounded
<1> QED BY <1>9 DEF q, y

(* And after it.                                                           *)
LEMMA ExtendGrounded ==
  ASSUME NEW p, NEW h, NEW x \in Seq(Class(Dos, Fields)), Grounded(p, x, h), NEW y \in Seq(Calm(p))
  PROVE  Grounded(p, x \o y, h)
<1> DEFINE q == x \o y
<1>1. y \in Seq(Class(Dos, Fields)) BY DEF Calm, Class, Ids
<1>2. /\ Len(q) = Len(x) + Len(y) /\ Len(x) \in Nat /\ Len(y) \in Nat
      /\ \A i \in 1 .. Len(x) : q[i] = x[i]
      /\ \A i \in 1 .. Len(y) : q[Len(x) + i] = y[i]
  BY <1>1, JoinIndex
<1>3. \A i \in 1 .. Len(x) : x[i].need # "try" BY DEF Class
<1>4. \A i \in 1 .. Len(y) :
        ~Needs(y[i]) /\ y[i].need # "try" /\ (y[i].do = "read" => TakenFrom(p, y[i].field) = y[i].field)
  BY DEF Calm, Class, Ids, Needs
<1> HIDE DEF q
<1>5. ASSUME NEW i \in 1 .. Len(q)
      PROVE  \/ i \in 1 .. Len(x) /\ q[i] = x[i]
             \/ i - Len(x) \in 1 .. Len(y) /\ q[i] = y[i - Len(x)]
  <2>1. CASE i <= Len(x) BY <1>2, <2>1
  <2>2. CASE ~(i <= Len(x))
    <3>1. i - Len(x) \in 1 .. Len(y) /\ Len(x) + (i - Len(x)) = i BY <1>2, <2>2
    <3> QED BY <1>2, <3>1
  <2> QED BY <2>1, <2>2
<1>6. ASSUME NEW i \in 1 .. Len(q), Needs(q[i])
      PROVE  h[q[i].from] # Nothing \/ \E j \in 1 .. (i - 1) : Grounds(q[j], q[i].from)
  <2>1. i \in 1 .. Len(x) /\ q[i] = x[i] BY <1>4, <1>5, <1>6
  <2>2. h[x[i].from] # Nothing \/ \E j \in 1 .. (i - 1) : Grounds(x[j], x[i].from)
    BY <1>6, <2>1 DEF Grounded
  <2>3. \A j \in 1 .. (i - 1) : q[j] = x[j]
    <3>1. \A j \in 1 .. (i - 1) : j \in 1 .. Len(x) BY <1>2, <2>1
    <3> QED BY <1>2, <3>1
  <2> QED BY <2>1, <2>2, <2>3
<1>7. ASSUME NEW i \in 1 .. Len(q), q[i].do = "read", TakenFrom(p, q[i].field) # q[i].field
      PROVE  \E j \in (i + 1) .. Len(q) : q[j].do = "take" /\ q[j].field = q[i].field
  <2>1. i \in 1 .. Len(x) /\ q[i] = x[i] BY <1>4, <1>5, <1>7
  <2>2. PICK j \in (i + 1) .. Len(x) : x[j].do = "take" /\ x[j].field = x[i].field
    BY <1>7, <2>1 DEF Grounded
  <2>3. j \in (i + 1) .. Len(q) /\ q[j] = x[j] BY <1>2, <2>1, <2>2
  <2> QED BY <2>1, <2>2, <2>3
<1>8. \A i \in 1 .. Len(q) : q[i].need # "try" BY <1>3, <1>4, <1>5
<1>9. Grounded(p, q, h) BY <1>6, <1>7, <1>8 DEF Grounded
<1> QED BY <1>9 DEF q

(* The steps before a key is taken or a connection is made.                *)
Early == Dos \ {"take", "getter"}

(* Steps of fewer sorts.                                                   *)
LEMMA ClassMono ==
  ASSUME NEW D, NEW E, NEW F, NEW G, D \subseteq E, F \subseteq G, NEW x \in Seq(Class(D, F))
  PROVE  x \in Seq(Class(E, G))
<1>1. Class(D, F) \subseteq Class(E, G) BY DEF Class
<1> QED BY <1>1

(* A key taken after its Secret was read.                                  *)
LEMMA TakeAfter ==
  ASSUME NEW p, NEW h, NEW f \in Fields, NEW g \in Fields,
         NEW x \in Seq(Class(Early, Ids(p) \cup {f})), \E j \in 1 .. Len(x) : Grounds(x[j], g)
  PROVE  Grounded(p, x \o Take(f, g), h) /\ x \o Take(f, g) \in Seq(Class(Dos, Fields))
<1> DEFINE st == [Blank EXCEPT !.do = "take", !.field = f, !.from = g]
<1>1. Take(f, g) = <<st>> BY DEF Take
<1>2. st \in StepType /\ st.do = "take" /\ st.need = "" /\ st.field = f /\ st.from = g
  BY DEF Blank, StepType, Dos, Kinds, Fields, NsNames
<1> HIDE DEF st
<1>3. Grounded(p, x \o <<st>>, h) BY <1>2, TakeGrounded DEF Early
<1>4. x \in Seq(Class(Dos, Fields)) BY ClassMono DEF Early, Ids
<1>5. Take(f, g) \in Seq(Class(Dos, Fields)) BY ClassTake DEF Dos
<1>6. x \o Take(f, g) \in Seq(Class(Dos, Fields)) BY <1>4, <1>5
<1> QED BY <1>1, <1>3, <1>6

(* Onboardbase: the passcode comes after the API key.                      *)
LEMMA OnboardbaseGrounded ==
  ASSUME NEW s, NEW n, Context("onboardbase", s, n), NEW h
  PROVE  Grounded("onboardbase", OnboardbaseNewClient(s, n), h)
<1> USE DEF Fields
<1> DEFINE p == "onboardbase"
           C == Class(Early, Ids(p) \cup {"b"})
<1>1. "a" \in Ids(p) BY DEF Ids, TakenFrom
<1>2. Do("call") \in Seq(Calm(p)) /\ Check("b") \in Seq(Calm(p)) /\ SpecError \in Seq(Calm(p))
  BY ClassDo, ClassCheck DEF Calm, Dos, SpecError
<1>3. CASE ~IsSet(s, "a")
  <2>1. OnboardbaseNewClient(s, n) = SpecError \o Do("call")
    BY <1>3 DEF OnboardbaseNewClient, OnboardbaseSetAuth, Named
  <2>2. SpecError \o Do("call") \in Seq(Calm(p)) BY <1>2
  <2> QED BY <2>1, <2>2, CalmGrounded
<1>4. CASE IsSet(s, "a")
  <2> DEFINE u == Strictly(s, n, "a", "lax")
             v == u \o Check("a")
             t == v \o Take("b", "a")
  <2>1. OnboardbaseNewClient(s, n) = t \o Check("b") \o Do("call")
    BY <1>4 DEF OnboardbaseNewClient, OnboardbaseSetAuth, Named
  <2>2. u \in Seq(C) /\ \E j \in 1 .. Len(u) : Grounds(u[j], "a")
    BY <1>1, ClassStrictly DEF Early, Dos
  <2>3. Check("a") \in Seq(C) BY ClassCheck DEF Early, Dos
  <2> HIDE DEF u, C
  <2>4. v \in Seq(C) BY <2>2, <2>3
  <2>5. \E j \in 1 .. Len(v) : Grounds(v[j], "a") BY <2>2, <2>3, GroundStays
  <2> HIDE DEF v
  <2>6. Grounded(p, t, h) /\ t \in Seq(Class(Dos, Fields)) BY <2>4, <2>5, TakeAfter DEF C
  <2> HIDE DEF t
  <2>7. Grounded(p, t \o Check("b"), h) BY <1>2, <2>6, ExtendGrounded
  <2>8. Check("b") \in Seq(Class(Dos, Fields)) BY ClassCheck DEF Dos
  <2>9. t \o Check("b") \in Seq(Class(Dos, Fields)) BY <2>6, <2>8
  <2>10. Grounded(p, t \o Check("b") \o Do("call"), h) BY <1>2, <2>7, <2>9, ExtendGrounded
  <2> QED BY <2>1, <2>10
<1> QED BY <1>3, <1>4

(* Alibaba: the second key comes after the first.                          *)
LEMMA AlibabaGrounded ==
  ASSUME NEW s, NEW n, Context("alibaba", s, n), NEW h
  PROVE  Grounded("alibaba", AlibabaNewClient(s, n), h)
<1> USE DEF Fields
<1> DEFINE p == "alibaba"
           C == Class(Early, Ids(p) \cup {"b"})
<1>1. "a" \in Ids(p) BY DEF Ids, TakenFrom
<1>2. /\ Do("call") \in Seq(Calm(p)) /\ Do("share") \in Seq(Calm(p))
      /\ Check("b") \in Seq(Calm(p)) /\ SpecError \in Seq(Calm(p))
  BY ClassDo, ClassCheck DEF Calm, Dos, SpecError
<1>3. CASE ~IsSet(s, "a")
  <2>1. AlibabaNewClient(s, n) = SpecError \o Do("call") \o Do("share")
    BY <1>3 DEF AlibabaNewClient, AlibabaSetAuth, Named
  <2>2. SpecError \o Do("call") \o Do("share") \in Seq(Calm(p)) BY <1>2
  <2> QED BY <2>1, <2>2, CalmGrounded
<1>4. CASE IsSet(s, "a")
  <2> DEFINE u == Strictly(s, n, "a", "lax")
             x == IF Cluster(s) /\ ~HasNs(s, "b") THEN SpecError ELSE <<>>
             y == u \o x
             v == y \o Check("a")
             t == v \o Take("b", "a")
  <2>1. AlibabaNewClient(s, n) = t \o Check("b") \o Do("call") \o Do("share")
    BY <1>4 DEF AlibabaNewClient, AlibabaSetAuth, Named
  <2>2. u \in Seq(C) /\ \E j \in 1 .. Len(u) : Grounds(u[j], "a")
    BY <1>1, ClassStrictly DEF Early, Dos
  <2>3. Check("a") \in Seq(C) BY ClassCheck DEF Early, Dos
  <2>4. x \in Seq(C) BY RefusalGrounds DEF Early, Dos
  <2> HIDE DEF u, C, x
  <2>5. y \in Seq(C) BY <2>2, <2>4
  <2>6. \E j \in 1 .. Len(y) : Grounds(y[j], "a") BY <2>2, <2>4, GroundStays
  <2> HIDE DEF y
  <2>7. v \in Seq(C) BY <2>3, <2>5
  <2>8. \E j \in 1 .. Len(v) : Grounds(v[j], "a") BY <2>3, <2>5, <2>6, GroundStays
  <2> HIDE DEF v
  <2>9. Grounded(p, t, h) /\ t \in Seq(Class(Dos, Fields)) BY <2>7, <2>8, TakeAfter DEF C
  <2> HIDE DEF t
  <2>10. Grounded(p, t \o Check("b"), h) BY <1>2, <2>9, ExtendGrounded
  <2>11. Check("b") \in Seq(Class(Dos, Fields)) /\ Do("call") \in Seq(Class(Dos, Fields))
    BY ClassCheck, ClassDo DEF Dos
  <2>12. t \o Check("b") \in Seq(Class(Dos, Fields)) BY <2>9, <2>11
  <2>13. Grounded(p, t \o Check("b") \o Do("call"), h) BY <1>2, <2>10, <2>12, ExtendGrounded
  <2>14. t \o Check("b") \o Do("call") \in Seq(Class(Dos, Fields)) BY <2>11, <2>12
  <2>15. Grounded(p, t \o Check("b") \o Do("call") \o Do("share"), h)
    BY <1>2, <2>13, <2>14, ExtendGrounded
  <2> QED BY <2>1, <2>15
<1> QED BY <1>3, <1>4

(* Yandex: the connection comes after the key, and there is one.           *)
LEMMA YandexGrounded ==
  ASSUME NEW s, NEW n, Context("yandex", s, n), NEW h
  PROVE  /\ Grounded("yandex", YandexNewClient(s, n), h)
         /\ \E i \in 1 .. Len(YandexNewClient(s, n)) : YandexNewClient(s, n)[i].do = "getter"
<1> USE DEF Fields
<1> DEFINE p == "yandex"
           C == Class(Early, Ids(p))
           st == [Blank EXCEPT !.do = "getter"]
           x == IF s.ca = "Secret" THEN Strictly(s, n, "ca", "lax") \o Check("ca") ELSE <<>>
           u == Strictly(s, n, "a", "lax")
           v == u \o Check("a")
           y == IF ~YandexAdaptInput(s) THEN SpecError ELSE v \o x
<1>1. "a" \in Ids(p) /\ "ca" \in Ids(p) BY DEF Ids, TakenFrom
<1>2. YandexNewClient(s, n) = y \o Do("getter") \o Do("login") BY DEF YandexNewClient, newIamToken
<1>3. Do("getter") = <<st>> BY DEF Do
<1>4. st \in StepType /\ st.do = "getter" /\ st.need = "" /\ st.from = "a"
  BY DEF Blank, StepType, Dos, Kinds, Fields, NsNames
<1>5. u \in Seq(C) /\ \E j \in 1 .. Len(u) : Grounds(u[j], "a")
  BY <1>1, ClassStrictly DEF Early, Dos
<1>6. Check("a") \in Seq(C) /\ Check("ca") \in Seq(C) BY ClassCheck DEF Early, Dos
<1>7. x \in Seq(C)
  <2>1. Strictly(s, n, "ca", "lax") \in Seq(C) BY <1>1, ClassStrictly DEF Early, Dos
  <2> HIDE DEF C
  <2>2. Strictly(s, n, "ca", "lax") \o Check("ca") \in Seq(C) BY <1>6, <2>1
  <2> QED BY <2>2
<1>8. SpecError \in Seq(C) /\ \E j \in 1 .. Len(SpecError) : Grounds(SpecError[j], "a")
  <2>1. "specerror" \in Early BY DEF Early, Dos
  <2> QED BY <2>1, RefusalGrounds
<1> HIDE DEF x, u, C, st
<1>9. v \in Seq(C) BY <1>5, <1>6
<1>10. \E j \in 1 .. Len(v) : Grounds(v[j], "a") BY <1>5, <1>6, GroundStays
<1> HIDE DEF v
<1>11. v \o x \in Seq(C) BY <1>7, <1>9
<1>12. \E j \in 1 .. Len(v \o x) : Grounds((v \o x)[j], "a") BY <1>7, <1>9, <1>10, GroundStays
<1>13. y \in Seq(C) /\ \E j \in 1 .. Len(y) : Grounds(y[j], "a") BY <1>8, <1>11, <1>12
<1> HIDE DEF y
<1> DEFINE t == y \o Do("getter")
<1>14. Grounded(p, t, h)
  <2>1. y \in Seq(Class(Dos \ {"take", "getter"}, Ids(p) \cup {})) BY <1>13 DEF C, Early
  <2> QED BY <1>3, <1>4, <1>13, <2>1, TakeGrounded
<1>15. y \in Seq(Class(Dos, Fields)) BY <1>13, ClassMono DEF C, Early, Ids
<1>16. Do("getter") \in Seq(Class(Dos, Fields)) BY ClassDo DEF Dos
<1>17. t \in Seq(Class(Dos, Fields)) BY <1>15, <1>16
<1>18. Do("login") \in Seq(Calm(p)) BY ClassDo DEF Calm, Dos
<1>19. Len(t) \in 1 .. Len(t) /\ t[Len(t)].do = "getter"
  <2> DEFINE z == Do("getter")
  <2>1. z = <<st>> BY <1>3
  <2>2. Len(z) = 1 /\ z[1] = st /\ z # <<>> BY <2>1
  <2> HIDE DEF z
  <2>3. z \in Seq(Class(Dos, Fields)) BY <1>16 DEF z
  <2>4. (y \o z)[Len(y \o z)] = z[Len(z)] /\ Len(y \o z) = Len(y) + Len(z)
    BY <1>15, <2>2, <2>3, Joined
  <2>5. Len(y) \in Nat BY <1>15
  <2>6. t[Len(t)] = st /\ Len(t) = Len(y) + 1 BY <2>2, <2>4 DEF z
  <2> HIDE DEF t
  <2>7. Len(t) \in 1 .. Len(t) BY <2>5, <2>6
  <2> QED BY <1>4, <2>6, <2>7
<1> HIDE DEF t
<1>20. Grounded(p, t \o Do("login"), h) BY <1>14, <1>17, <1>18, ExtendGrounded
<1>21. Len(t) \in 1 .. Len(t \o Do("login")) /\ (t \o Do("login"))[Len(t)].do = "getter"
  <2>1. Do("login") \in Seq(Class(Dos, Fields)) BY ClassDo DEF Dos
  <2>2. /\ Len(t \o Do("login")) = Len(t) + Len(Do("login"))
        /\ Len(t) \in Nat /\ Len(Do("login")) \in Nat
        /\ \A i \in 1 .. Len(t) : (t \o Do("login"))[i] = t[i]
    BY <1>17, <2>1, JoinIndex
  <2> QED BY <1>19, <2>2
<1> QED BY <1>2, <1>20, <1>21 DEF t

(* Plans with attempts, which take nothing.                                *)
Quiet(p) == {st \in StepType : ~Needs(st) /\ (st.do = "read" => TakenFrom(p, st.field) = st.field)}

(* Such a plan needs no ground.                                            *)
LEMMA QuietGrounded ==
  ASSUME NEW p, NEW q \in Seq(Quiet(p)), NEW h PROVE Grounded(p, q, h)
<1>1. \A i \in 1 .. Len(q) : q[i] \in Quiet(p) OBVIOUS
<1>2. \A i \in 1 .. Len(q) :
        ~Needs(q[i]) /\ (q[i].do = "read" => TakenFrom(p, q[i].field) = q[i].field)
  BY <1>1 DEF Quiet
<1> QED BY <1>2 DEF Grounded

(* Its look-ups and calls.                                                 *)
LEMMA QuietReading ==
  ASSUME NEW p, NEW s, NEW n, Context(p, s, n), NEW kind \in Kinds, NEW f \in Ids(p),
         NEW need \in {"present", "lax", "try"}
  PROVE  Reading(kind, f, InReferent(s, n, f), need) \in Seq(Quiet(p))
<1> DEFINE ns == InReferent(s, n, f)
           st == [Blank EXCEPT !.do = "read", !.kind = kind, !.field = f, !.ns = ns, !.need = need]
<1>1. ns \in NsNames BY DEF InReferent, Context, WellFormed, HasNs, NsNames, Namespaces, Ids
<1>2. Reading(kind, f, InReferent(s, n, f), need) = <<st>> BY DEF Reading
<1> HIDE DEF ns
<1>3. st \in StepType /\ st.do = "read" /\ st.field = f
  BY <1>1 DEF Blank, StepType, Dos, Kinds, Fields, NsNames, Ids
<1> HIDE DEF st
<1>4. st \in Quiet(p) BY <1>3 DEF Quiet, Needs, Ids
<1> QED BY <1>2, <1>4, Single

(* Akeyless: a new client takes nothing; one that is used reads the Secret *)
(* of the parameter and then takes the parameter from another one.         *)
LEMMA AkeylessGrounded ==
  ASSUME NEW s, NEW n, Context("akeyless", s, n), NEW h
  PROVE  Grounded("akeyless", AkeylessNewClient(s, n), h)
<1> USE DEF Fields
<1> DEFINE p == "akeyless"
           Q == Seq(Quiet(p))
<1>1. "ca" \in Ids(p) BY DEF Ids, TakenFrom
<1>2. Calm(p) \subseteq Quiet(p) BY DEF Calm, Class, Quiet, Ids, Needs
<1>3. SpecError \in Seq(Calm(p)) /\ Check("ca") \in Seq(Calm(p))
  BY ClassDo, ClassCheck DEF Calm, Dos, SpecError
<1>4. SpecError \in Q /\ Check("ca") \in Q BY <1>2, <1>3
<1>5. AkeylessSecretKeyRef(s, n, "ca") \in Q BY <1>1, QuietReading DEF AkeylessSecretKeyRef, Kinds
<1>6. getCertFromConfigMap(s) \in Q
  <2> DEFINE ns == IF HasNs(s, "ca") THEN s.ns["ca"] ELSE ""
  <2>1. ns \in NsNames BY DEF Context, WellFormed, HasNs, NsNames, Namespaces
  <2>2. getCertFromConfigMap(s) = Reading("ConfigMap", "ca", ns, "present")
    BY DEF getCertFromConfigMap
  <2> HIDE DEF ns
  <2>3. Reading("ConfigMap", "ca", ns, "present") \in Seq(Calm(p))
    BY <1>1, <2>1, ClassReading DEF Calm, Dos, Kinds
  <2> QED BY <1>2, <2>2, <2>3
<1> DEFINE x == IF s.ca = "Secret" THEN AkeylessSecretKeyRef(s, n, "ca") ELSE getCertFromConfigMap(s)
<1>7. x \in Q BY <1>5, <1>6
<1>8. AkeylessNewClient(s, n) = SpecError \/ AkeylessNewClient(s, n) = <<>>
      \/ AkeylessNewClient(s, n) = x \o Check("ca")
  BY DEF AkeylessNewClient, AkeylessHTTPClient, CAPool
<1> HIDE DEF x
<1>9. x \o Check("ca") \in Q BY <1>4, <1>7
<1>10. <<>> \in Q OBVIOUS
<1> HIDE DEF Q
<1>11. AkeylessNewClient(s, n) \in Q BY <1>4, <1>8, <1>9, <1>10
<1> QED BY <1>11, QuietGrounded DEF Q

(* The use of an Akeyless client.                                          *)
LEMMA AkeylessUseGrounded ==
  ASSUME NEW s, NEW n, Context("akeyless", s, n), s.method # "none", NEW h
  PROVE  Grounded("akeyless", TokenFromSecretRef(s, n), h)
<1> USE DEF Fields
<1> DEFINE p == "akeyless"
           Q == Seq(Quiet(p))
<1>0. s.method \in {"secret", "kubesa", "kubesecret", "kubefile"}
  <2>1. Methods("akeyless") = {"secret", "kubesa", "kubesecret", "kubefile", "none"} BY DEF Methods
  <2> QED BY <2>1, MethodOf
<1>1. "a" \in Ids(p) /\ "b" \in Ids(p) /\ "sa" \in Ids(p) BY DEF Ids, TakenFrom
<1>2. /\ Do("call") \in Seq(Calm(p)) /\ Do("login") \in Seq(Calm(p))
      /\ Check("a") \in Seq(Calm(p)) /\ Check("b") \in Seq(Calm(p))
  BY ClassDo, ClassCheck DEF Calm, Dos
<1>3. CASE s.method # "secret"
  <2>1. Calm(p) \subseteq Quiet(p) BY DEF Calm, Class, Quiet, Ids, Needs
  <2>2. Do("call") \in Q /\ Do("login") \in Q BY <1>2, <2>1
  <2>3. getJWTFromServiceAccount(s, n) \in Q
    BY <1>1, QuietReading DEF getJWTFromServiceAccount, Kinds
  <2>4. getJWTfromServiceAccountToken(s, n) \in Q
    BY <1>1, QuietReading DEF getJWTfromServiceAccountToken, Kinds
  <2>5. AkeylessSecretKeyRef(s, n, "a") \in Q BY <1>1, QuietReading DEF AkeylessSecretKeyRef, Kinds
  <2>6. getJWTFromServiceAccount(s, n) \o getJWTfromServiceAccountToken(s, n) \in Q BY <2>3, <2>4
  <2> HIDE DEF Q
  <2>7. getK8SServiceAccountJWT(s, n) \in Q
    BY <1>0, <1>3, <2>2, <2>5, <2>6 DEF getK8SServiceAccountJWT
  <2>8. TokenFromSecretRef(s, n) = getK8SServiceAccountJWT(s, n) \o Do("login")
    BY <1>3 DEF TokenFromSecretRef
  <2>9. getK8SServiceAccountJWT(s, n) \o Do("login") \in Seq(Quiet(p)) BY <2>2, <2>7 DEF Q
  <2> QED BY <2>8, <2>9, QuietGrounded
<1>4. CASE s.method = "secret"
  <2> DEFINE C == Class(Early, Ids(p) \cup {"c"})
             x == IF Cluster(s) /\ ~HasNs(s, "b") THEN SpecError
                  ELSE Reading("Secret", "c", IF Cluster(s) THEN s.ns["b"] ELSE n, "lax")
             a == Strictly(s, n, "a", "lax")
             b == Strictly(s, n, "b", "lax")
             y == a \o b
             v == y \o x
             t == v \o Take("c", "b")
  <2>1. TokenFromSecretRef(s, n) = t \o Check("a") \o Check("b") \o Do("login")
    BY <1>4 DEF TokenFromSecretRef
  <2>2. {"read", "specerror"} \subseteq Early BY DEF Early, Dos
  <2>3. a \in Seq(C) BY <1>1, <2>2, ClassStrictly
  <2>4. b \in Seq(C) /\ \E j \in 1 .. Len(b) : Grounds(b[j], "b") BY <1>1, <2>2, ClassStrictly
  <2>5. x \in Seq(C)
    <3>1. CASE Cluster(s) /\ ~HasNs(s, "b") BY <2>2, <3>1, RefusalGrounds
    <3>2. CASE ~(Cluster(s) /\ ~HasNs(s, "b"))
      <4> DEFINE ns == IF Cluster(s) THEN s.ns["b"] ELSE n
      <4>1. x = Reading("Secret", "c", ns, "lax") BY <3>2
      <4>2. ns \in NsNames BY <3>2 DEF Context, WellFormed, HasNs, NsNames, Namespaces
      <4> HIDE DEF ns, x
      <4>3. "c" \in Ids(p) \cup {"c"} OBVIOUS
      <4> QED BY <2>2, <4>1, <4>2, <4>3, ClassReading DEF Kinds
    <3> QED BY <3>1, <3>2
  <2> HIDE DEF a, b, x, C
  <2>6. y \in Seq(C) BY <2>3, <2>4
  <2>7. \E j \in 1 .. Len(y) : Grounds(y[j], "b") BY <2>3, <2>4, GroundStays
  <2> HIDE DEF y
  <2>8. v \in Seq(C) BY <2>5, <2>6
  <2>9. \E j \in 1 .. Len(v) : Grounds(v[j], "b") BY <2>5, <2>6, <2>7, GroundStays
  <2> HIDE DEF v
  <2>10. Grounded(p, t, h) /\ t \in Seq(Class(Dos, Fields)) BY <2>8, <2>9, TakeAfter DEF C
  <2> HIDE DEF t
  <2>11. Grounded(p, t \o Check("a"), h) BY <1>2, <2>10, ExtendGrounded
  <2>12. Check("a") \in Seq(Class(Dos, Fields)) /\ Check("b") \in Seq(Class(Dos, Fields))
    BY ClassCheck DEF Dos
  <2>13. t \o Check("a") \in Seq(Class(Dos, Fields)) BY <2>10, <2>12
  <2>14. Grounded(p, t \o Check("a") \o Check("b"), h) BY <1>2, <2>11, <2>13, ExtendGrounded
  <2>15. t \o Check("a") \o Check("b") \in Seq(Class(Dos, Fields)) BY <2>12, <2>13
  <2>16. Grounded(p, t \o Check("a") \o Check("b") \o Do("login"), h)
    BY <1>2, <2>14, <2>15, ExtendGrounded
  <2> QED BY <2>1, <2>16
<1> QED BY <1>3, <1>4

(* The plans of all providers have a ground for what they take.            *)
LEMMA NewClientGrounded ==
  ASSUME NEW p, NEW s, NEW n, Context(p, s, n), NEW h
  PROVE  Grounded(p, NewClient(p, s, n), h)
<1>1. CASE p = "alibaba" BY <1>1, AlibabaGrounded DEF NewClient
<1>2. CASE p = "onboardbase" BY <1>2, OnboardbaseGrounded DEF NewClient
<1>3. CASE p = "akeyless" BY <1>3, AkeylessGrounded DEF NewClient
<1>4. CASE p = "yandex" BY <1>4, YandexGrounded DEF NewClient
<1>5. CASE p \notin {"alibaba", "onboardbase", "akeyless", "yandex"}
  BY <1>5, NewClientAllowed, PlanGrounded
<1> QED BY <1>1, <1>2, <1>3, <1>4, <1>5

(* No steps.                                                               *)
LEMMA NoSteps == ASSUME NEW A PROVE <<>> \in Seq(A)
OBVIOUS

(* So has the use of a client ...                                          *)
LEMMA UseClientGrounded ==
  ASSUME NEW p, NEW s, NEW n, Context(p, s, n), n # "", p = "akeyless" => s.method # "none", NEW h
  PROVE  Grounded(p, UseClient(p, s, n), h)
<1>1. CASE p = "akeyless" BY <1>1, AkeylessUseGrounded DEF UseClient
<1>2. CASE p \in {"alibaba", "onboardbase", "yandex"}
  <2>1. UseClient(p, s, n) = <<>> BY <1>2 DEF UseClient
  <2>2. <<>> \in Seq(Calm(p)) BY NoSteps
  <2> QED BY <2>1, <2>2, CalmGrounded
<1>3. CASE p \notin {"alibaba", "onboardbase", "akeyless", "yandex"}
  BY <1>3, UseClientAllowed, PlanGrounded
<1> QED BY <1>1, <1>2, <1>3

(* ... and its validation, which takes nothing.                            *)
LEMMA ValidateGrounded ==
  ASSUME NEW p, NEW s, NEW n, Context(p, s, n), p \notin Generators,
         p = "aws" => n # "" \/ ~UsesJWT(s) \/ HasNs(s, "sa"), NEW h
  PROVE  Grounded(p, ValidateCalls(p, s, n), h)
<1>1. CASE p \in {"alibaba", "onboardbase", "akeyless", "yandex"}
  <2>1. Do("call") \in Seq(Calm(p)) /\ Do("login") \in Seq(Calm(p)) BY ClassDo DEF Calm, Dos
  <2>2. Do("call") \o Do("login") \in Seq(Calm(p)) BY <2>1, JoinIndex
  <2>3. <<>> \in Seq(Calm(p)) BY NoSteps
  <2>4. ValidateCalls(p, s, n) \in Seq(Calm(p))
    <3> DEFINE C == Seq(Calm(p))
    <3> HIDE DEF C
    <3>1. Do("call") \in C /\ Do("call") \o Do("login") \in C /\ <<>> \in C BY <2>1, <2>2, <2>3 DEF C
    <3>2. ValidateCalls(p, s, n) \in C BY <1>1, <3>1 DEF ValidateCalls
    <3> QED BY <3>2 DEF C
  <2> QED BY <2>4, CalmGrounded
<1>2. CASE p \notin {"alibaba", "onboardbase", "akeyless", "yandex"}
  BY <1>2, ValidateAllowed, PlanGrounded
<1> QED BY <1>1, <1>2

(* A plan that ends in a share and has no other.                           *)
LEMMA ShareLast ==
  ASSUME NEW x \in Seq(Class(Dos \ {"share"}, Fields))
  PROVE  LET q == x \o Do("share")
         IN  /\ q # <<>> /\ q[Len(q)].do = "share"
             /\ \A i \in 1 .. Len(q) : q[i].need # "try"
             /\ \A i \in 1 .. (Len(q) - 1) : q[i].do # "share"
<1> DEFINE st == [Blank EXCEPT !.do = "share"]
           y == Do("share")
           q == x \o y
           C == Class(Dos, Fields)
<1>1. y = <<st>> BY DEF Do
<1>2. st.do = "share" /\ st.need = "" BY DEF Blank
<1>3. y \in Seq(C) BY ClassDo DEF Dos
<1>4. x \in Seq(C) BY ClassMono
<1> HIDE DEF st, C
<1>5. Len(y) = 1 /\ y[1] = st BY <1>1
<1> HIDE DEF y
<1>6. /\ Len(q) = Len(x) + Len(y) /\ Len(x) \in Nat
      /\ \A i \in 1 .. Len(x) : q[i] = x[i]
      /\ \A i \in 1 .. Len(y) : q[Len(x) + i] = y[i]
  BY <1>3, <1>4, JoinIndex
<1>7. \A i \in 1 .. Len(x) : x[i].do # "share" /\ x[i].need # "try" BY DEF Class
<1> HIDE DEF q
<1>8. 1 \in 1 .. Len(y) BY <1>5
<1>9. q[Len(x) + 1] = st /\ Len(q) = Len(x) + 1 BY <1>5, <1>6, <1>8
<1>10. \A i \in 1 .. Len(q) : i \in 1 .. Len(x) \/ i = Len(x) + 1 BY <1>6, <1>9
<1>11. \A i \in 1 .. (Len(q) - 1) : i \in 1 .. Len(x) BY <1>6, <1>9
<1>12. \A i \in 1 .. Len(q) : q[i].need # "try" BY <1>2, <1>6, <1>7, <1>9, <1>10
<1>13. \A i \in 1 .. (Len(q) - 1) : q[i].do # "share" BY <1>6, <1>7, <1>11
<1>14. q[Len(q)].do = "share" BY <1>2, <1>9
<1>15. Len(q) # 0 BY <1>6, <1>9
<1>16. q \in Seq(C) BY <1>3, <1>4, JoinIndex DEF q
<1>17. q # <<>> BY <1>15, <1>16, NoneLeft
<1> QED BY <1>12, <1>13, <1>14, <1>17 DEF q, y

(* The clients of GitLab, Alibaba, IBM and 1Password are published last.   *)
LEMMA SingletonPlan ==
  ASSUME NEW p \in Singletons, NEW s, NEW n, Context(p, s, n)
  PROVE  LET q == NewClient(p, s, n)
         IN  /\ q # <<>> /\ q[Len(q)].do = "share"
             /\ \A i \in 1 .. Len(q) : q[i].need # "try"
             /\ \A i \in 1 .. (Len(q) - 1) : q[i].do # "share"
<1> DEFINE C == Class(Dos \ {"share"}, Fields)
           Q == Seq(C)
<1>1. /\ Do("call") \in Q /\ Do("panic") \in Q /\ SpecError \in Q
      /\ Check("a") \in Q /\ Check("b") \in Q /\ Take("b", "a") \in Q
  BY ClassDo, ClassCheck, ClassTake DEF Dos, SpecError, Fields
<1>2. Strictly(s, n, "a", "lax") \in Q BY ClassStrictly DEF Dos, Fields
<1>3. <<>> \in Q BY NoSteps
<1>4. \A x \in Q, y \in Q : x \o y \in Q BY JoinIndex
<1> HIDE DEF C, Q
<1>5. CASE p = "gitlab"
  <2> DEFINE x == GitlabSetAuth(s, n) \o Do("call")
  <2>1. x \in Q BY <1>1, <1>2, <1>4 DEF GitlabSetAuth, Named
  <2>2. NewClient(p, s, n) = x \o Do("share") BY <1>5 DEF NewClient, GitlabNewClient
  <2> HIDE DEF x
  <2> QED BY <2>1, <2>2, ShareLast DEF C, Q
<1>6. CASE p = "alibaba"
  <2> DEFINE z == IF Cluster(s) /\ ~HasNs(s, "b") THEN SpecError ELSE <<>>
             x == AlibabaSetAuth(s, n) \o Do("call")
  <2>0. z \in Q BY <1>1, <1>3
  <2>1. x \in Q
    <3>1. AlibabaSetAuth(s, n) = SpecError \/ AlibabaSetAuth(s, n) =
            Strictly(s, n, "a", "lax") \o z \o Check("a") \o Take("b", "a") \o Check("b")
      BY DEF AlibabaSetAuth, Named
    <3> HIDE DEF z
    <3> QED BY <1>1, <1>2, <1>4, <2>0, <3>1
  <2>2. NewClient(p, s, n) = x \o Do("share") BY <1>6 DEF NewClient, AlibabaNewClient
  <2> HIDE DEF x
  <2> QED BY <2>1, <2>2, ShareLast DEF C, Q
<1>7. CASE p = "ibm"
  <2> DEFINE u == IF s.method = "container" THEN Do("call") ELSE IBMSetAuth(s, n)
             v == IF s.plain THEN <<>> ELSE Do("panic")
             x == u \o v \o Do("call")
  <2>1. u \in Q BY <1>1, <1>2, <1>4 DEF IBMSetAuth, Named
  <2>2. v \in Q BY <1>1, <1>3
  <2>3. NewClient(p, s, n) = x \o Do("share") BY <1>7 DEF NewClient, IBMNewClient
  <2> HIDE DEF u, v
  <2>4. x \in Q BY <1>1, <1>4, <2>1, <2>2
  <2> HIDE DEF x
  <2> QED BY <2>3, <2>4, ShareLast DEF C, Q
<1>8. CASE p = "onepassword"
  <2> DEFINE u == IF Cluster(s) /\ ~HasNs(s, "a") THEN Do("panic") ELSE Strictly(s, n, "a", "lax")
             x == u \o Check("a")
  <2>1. u \in Q BY <1>1, <1>2
  <2>2. NewClient(p, s, n) = x \o Do("share") BY <1>8 DEF NewClient, OnePasswordNewClient
  <2> HIDE DEF u
  <2>3. x \in Q BY <1>1, <1>4, <2>1
  <2> HIDE DEF x
  <2> QED BY <2>2, <2>3, ShareLast DEF C, Q
<1> QED BY <1>5, <1>6, <1>7, <1>8 DEF Singletons

(* Afterwards they only make calls.                                        *)
LEMMA SingletonCalls ==
  ASSUME NEW p \in Singletons, NEW s, NEW n, NEW q,
         q = UseClient(p, s, n) \/ q = ValidateCalls(p, s, n)
  PROVE  \A i \in 1 .. Len(q) : q[i].do \in {"call", "login"}
<1>1. UseClient(p, s, n) = <<>> BY DEF UseClient, Singletons
<1>2. ValidateCalls(p, s, n) \in {<<>>, Do("call"), Do("login")} BY DEF ValidateCalls, Singletons
<1>3. CASE q = <<>> BY <1>3
<1>4. ASSUME NEW d \in {"call", "login"}, q = Do(d) PROVE \A i \in 1 .. Len(q) : q[i].do = d
  <2> DEFINE st == [Blank EXCEPT !.do = d]
  <2>1. q = <<st>> BY <1>4 DEF Do
  <2>2. st.do = d BY DEF Blank
  <2> HIDE DEF st
  <2> QED BY <2>1, <2>2
<1> QED BY <1>1, <1>2, <1>3, <1>4

-----------------------------------------------------------------------------
(* The steps again, and whose credentials they leave.                      *)

(* A sequence without its first element.                                   *)
LEMMA TailIndex ==
  ASSUME NEW A, NEW z \in Seq(A), z # <<>>
  PROVE  /\ Len(z) \in Nat /\ Len(z) > 0 /\ Tail(z) \in Seq(A) /\ Len(Tail(z)) = Len(z) - 1
         /\ Head(z) = z[1]
         /\ \A i \in 1 .. (Len(z) - 1) : Tail(z)[i] = z[i + 1]
<1>1. Len(z) \in Nat /\ Len(z) > 0 BY NoneLeft
<1>2. Head(z) = z[1] /\ Tail(z) \in Seq(A) /\ Len(Tail(z)) = Len(z) - 1 BY <1>1
<1>3. \A i \in 1 .. (Len(z) - 1) : Tail(z)[i] = z[i + 1] BY <1>1
<1> QED BY <1>1, <1>2, <1>3

(* What is to be taken is taken now or later.                              *)
LEMMA PendingStep ==
  ASSUME NEW q \in Seq(StepType), q # <<>>, NEW f, Pending(q, f)
  PROVE  (Head(q).do = "take" /\ Head(q).field = f) \/ Pending(Tail(q), f)
<1>1. PICK i \in 1 .. Len(q) : q[i].do = "take" /\ q[i].field = f BY DEF Pending
<1>2. /\ Len(q) \in Nat /\ Len(Tail(q)) = Len(q) - 1 /\ Head(q) = q[1]
      /\ \A k \in 1 .. (Len(q) - 1) : Tail(q)[k] = q[k + 1]
  BY TailIndex
<1>3. CASE i = 1 BY <1>1, <1>2, <1>3
<1>4. CASE i # 1
  <2>1. i - 1 \in 1 .. (Len(q) - 1) /\ (i - 1) + 1 = i BY <1>2, <1>4
  <2>2. i - 1 \in 1 .. Len(Tail(q)) /\ Tail(q)[i - 1] = q[i] BY <1>2, <2>1
  <2> QED BY <1>1, <2>2 DEF Pending
<1> QED BY <1>3, <1>4

(* A step that adds what it reads leaves the ground for the rest.          *)
LEMMA GroundedStep ==
  ASSUME NEW p, NEW q \in Seq(StepType), q # <<>>, NEW h, NEW k, Grounded(p, q, h),
         \A f \in Fields : h[f] # Nothing => k[f] # Nothing,
         Head(q).do \notin {"specerror", "panic"},
         Head(q).do = "read" /\ Head(q).need # "try" => k[Head(q).field] # Nothing
  PROVE  Grounded(p, Tail(q), k)
<1> DEFINE t == Tail(q)
<1>1. /\ Len(q) \in Nat /\ Len(t) = Len(q) - 1 /\ Head(q) = q[1]
      /\ \A i \in 1 .. (Len(q) - 1) : t[i] = q[i + 1]
  BY TailIndex
<1> HIDE DEF t
<1>2. ASSUME NEW i \in 1 .. Len(t) PROVE i + 1 \in 1 .. Len(q) /\ t[i] = q[i + 1] /\ t[i] \in StepType
  <2>1. i + 1 \in 1 .. Len(q) /\ t[i] = q[i + 1] BY <1>1
  <2>2. q[i + 1] \in StepType BY <2>1
  <2> QED BY <2>1, <2>2
<1>3. ASSUME NEW j \in 2 .. Len(q) PROVE j - 1 \in 1 .. Len(t) /\ t[j - 1] = q[j]
  <2>1. j - 1 \in 1 .. (Len(q) - 1) /\ (j - 1) + 1 = j BY <1>1
  <2> QED BY <1>1, <2>1
<1>4. ASSUME NEW i \in 1 .. Len(t), Needs(t[i])
      PROVE  k[t[i].from] # Nothing \/ \E j \in 1 .. (i - 1) : Grounds(t[j], t[i].from)
  <2>1. i + 1 \in 1 .. Len(q) /\ t[i] = q[i + 1] /\ t[i].from \in Fields BY <1>2 DEF StepType
  <2>2. \/ h[t[i].from] # Nothing
        \/ \E j \in 1 .. ((i + 1) - 1) : Grounds(q[j], t[i].from)
    BY <1>4, <2>1 DEF Grounded
  <2>3. CASE h[t[i].from] # Nothing BY <2>1, <2>3
  <2>4. ASSUME NEW j \in 1 .. ((i + 1) - 1), Grounds(q[j], t[i].from)
        PROVE  k[t[i].from] # Nothing \/ \E m \in 1 .. (i - 1) : Grounds(t[m], t[i].from)
    <3>1. CASE j = 1 BY <1>1, <2>4, <3>1 DEF Grounds
    <3>2. CASE j # 1
      <4>1. j \in 2 .. Len(q) /\ j - 1 \in 1 .. (i - 1) BY <1>1, <2>1, <2>4, <3>2
      <4>2. t[j - 1] = q[j] BY <1>3, <4>1
      <4> QED BY <2>4, <4>1, <4>2
    <3> QED BY <3>1, <3>2
  <2> QED BY <2>2, <2>3, <2>4
<1>5. ASSUME NEW i \in 1 .. Len(t), t[i].do = "read", TakenFrom(p, t[i].field) # t[i].field
      PROVE  \E j \in (i + 1) .. Len(t) : t[j].do = "take" /\ t[j].field = t[i].field
  <2>1. i + 1 \in 1 .. Len(q) /\ t[i] = q[i + 1] BY <1>2
  <2>2. PICK j \in ((i + 1) + 1) .. Len(q) : q[j].do = "take" /\ q[j].field = t[i].field
    BY <1>5, <2>1 DEF Grounded
  <2>3. j \in 2 .. Len(q) /\ j - 1 \in (i + 1) .. Len(t) BY <1>1, <2>2
  <2>4. t[j - 1] = q[j] BY <1>3, <2>3
  <2> QED BY <2>2, <2>3, <2>4
<1>6. ASSUME NEW i \in 1 .. Len(t), t[i].need = "try", NEW j \in 1 .. Len(t) PROVE ~Needs(t[j])
  <2>1. i + 1 \in 1 .. Len(q) /\ t[i] = q[i + 1] BY <1>2
  <2>2. j + 1 \in 1 .. Len(q) /\ t[j] = q[j + 1] BY <1>2
  <2>3. q[i + 1].need = "try" BY <1>6, <2>1
  <2>4. \A m \in 1 .. Len(q) : ~Needs(q[m]) BY <2>1, <2>3 DEF Grounded
  <2> QED BY <2>2, <2>4
<1>7. Grounded(p, t, k) BY <1>4, <1>5, <1>6 DEF Grounded
<1> QED BY <1>7 DEF t

(* A plan with an attempt takes nothing at all.                            *)
LEMMA TryTakesNothing ==
  ASSUME NEW p, NEW q \in Seq(StepType), q # <<>>, NEW h, Grounded(p, q, h), Head(q).need = "try"
  PROVE  \A i \in 1 .. Len(q) :
            ~Needs(q[i]) /\ (q[i].do = "read" => TakenFrom(p, q[i].field) = q[i].field)
<1>1. Len(q) \in Nat /\ Len(q) > 0 /\ Head(q) = q[1] BY TailIndex
<1>2. 1 \in 1 .. Len(q) /\ q[1].need = "try" BY <1>1
<1>3. \A j \in 1 .. Len(q) : ~Needs(q[j]) BY <1>2 DEF Grounded
<1>4. ASSUME NEW i \in 1 .. Len(q), q[i].do = "read", TakenFrom(p, q[i].field) # q[i].field
      PROVE  FALSE
  <2>1. PICK j \in (i + 1) .. Len(q) : q[j].do = "take" BY <1>4 DEF Grounded
  <2>2. j \in 1 .. Len(q) BY <1>1, <2>1
  <2> QED BY <1>3, <2>1, <2>2 DEF Needs
<1> QED BY <1>3, <1>4

(* So the way that is skipped after a success leaves the ground too.       *)
LEMMA GroundedSkip ==
  ASSUME NEW p, NEW q \in Seq(StepType), q # <<>>, Tail(q) # <<>>, NEW h, NEW k,
         Grounded(p, q, h), Head(q).need = "try"
  PROVE  Grounded(p, Tail(Tail(q)), k) /\ \A i \in 1 .. Len(q) : q[i].do \notin {"take", "getter"}
<1> DEFINE Mild(st) == ~Needs(st) /\ (st.do = "read" => TakenFrom(p, st.field) = st.field)
<1>1. \A i \in 1 .. Len(q) : Mild(q[i]) BY TryTakesNothing
<1> DEFINE t == Tail(q)
           u == Tail(t)
<1>2. /\ Len(q) \in Nat /\ Len(t) = Len(q) - 1 /\ t \in Seq(StepType)
      /\ \A i \in 1 .. (Len(q) - 1) : t[i] = q[i + 1]
  BY TailIndex
<1>3. t # <<>> OBVIOUS
<1> HIDE DEF t, Mild
<1>4. /\ Len(t) \in Nat /\ Len(u) = Len(t) - 1
      /\ \A i \in 1 .. (Len(t) - 1) : u[i] = t[i + 1]
  BY <1>2, <1>3, TailIndex
<1> HIDE DEF u
<1>5. ASSUME NEW i \in 1 .. Len(u) PROVE Mild(u[i])
  <2>1. i \in 1 .. (Len(t) - 1) /\ i + 1 \in 1 .. (Len(q) - 1) /\ (i + 1) + 1 \in 1 .. Len(q)
    BY <1>2, <1>4
  <2>2. u[i] = q[(i + 1) + 1] BY <1>2, <1>4, <2>1
  <2> QED BY <1>1, <2>1, <2>2
<1>6. Grounded(p, u, k) BY <1>5 DEF Grounded, Mild
<1>7. \A i \in 1 .. Len(q) : q[i].do \notin {"take", "getter"} BY <1>1 DEF Mild, Needs
<1> QED BY <1>6, <1>7 DEF u, t

(* A step that reads and takes nothing.                                    *)
LEMMA SoundSame ==
  ASSUME NEW p, NEW s, NEW x \in WorkerType, NEW y \in WorkerType, x.plan # <<>>, Sound(p, s, x),
         Head(x.plan).do \notin {"read", "take", "specerror", "panic"},
         y.plan = Tail(x.plan), y.held = x.held, y.store = x.store, y.ns = x.ns
  PROVE  Sound(p, s, y)
<1> DEFINE q == x.plan
<1>1. q \in Seq(StepType) BY DEF WorkerType
<1>2. q # <<>> /\ Head(q).do \notin {"read", "take", "specerror", "panic"} /\ y.plan = Tail(q)
  OBVIOUS
<1>3. Grounded(p, q, x.held) /\ \A f \in Fields : Own(p, s, x, f) \/ Pending(q, f) BY DEF Sound
<1> HIDE DEF q
<1>4. Grounded(p, y.plan, y.held) BY <1>1, <1>2, <1>3, GroundedStep
<1>5. ASSUME NEW f \in Fields PROVE Own(p, s, y, f) \/ Pending(y.plan, f)
  <2>1. CASE Own(p, s, x, f) BY <2>1 DEF Own
  <2>2. CASE Pending(q, f) BY <1>1, <1>2, <2>2, PendingStep
  <2> QED BY <1>3, <2>1, <2>2
<1> QED BY <1>4, <1>5 DEF Sound

(* What is read belongs to the store.                                      *)
LEMMA ReadOwn ==
  ASSUME NEW p, NEW s, NEW x \in WorkerType, NEW y \in WorkerType, NEW st \in Allowed(p, s, x.ns),
         st.do = "read", TakenFrom(p, st.field) = st.field, NEW val,
         y.held = [x.held EXCEPT ![st.field] =
                     [store |-> x.store, ns |-> st.ns, from |-> st.field, val |-> val]],
         y.store = x.store, y.ns = x.ns
  PROVE  Own(p, s, y, st.field)
<1> DEFINE c == [store |-> x.store, ns |-> st.ns, from |-> st.field, val |-> val]
           f == st.field
<1>1. f \in Fields /\ Designates(p, s, x.ns, f, st.ns) BY DEF Allowed, StepType
<1>2. x.held \in [Fields -> Creds] BY DEF WorkerType
<1>3. y.held[f] = c BY <1>1, <1>2
<1>4. ~(p = "akeyless" /\ f = "c") BY DEF TakenFrom
<1>5. /\ st.ns = InReferent(s, x.ns, f) \/ (f = "ca" /\ p \in AnyNamespaceCA)
      /\ p = "yandex" /\ Cluster(s) => HasNs(s, f)
  BY <1>1, <1>4 DEF Designates
<1>6. c.store = x.store /\ c.ns = st.ns /\ c.from = f OBVIOUS
<1>7. TakenFrom(p, f) = f OBVIOUS
<1> HIDE DEF c, f
<1>8. Own(p, s, y, f) BY <1>3, <1>5, <1>6, <1>7 DEF Own
<1> QED BY <1>8 DEF f

(* A look-up that succeeds.                                                *)
LEMMA SoundRead ==
  ASSUME NEW p, NEW s, NEW x \in WorkerType, NEW y \in WorkerType, x.plan # <<>>, Sound(p, s, x),
         NEW st \in Allowed(p, s, x.ns), st = Head(x.plan), st.do = "read", st.need # "try",
         NEW val \in {"value", "empty"},
         NEW c, c = [store |-> x.store, ns |-> st.ns, from |-> st.field, val |-> val],
         y.held = [x.held EXCEPT ![st.field] = c],
         y.plan = Tail(x.plan), y.store = x.store, y.ns = x.ns
  PROVE  Sound(p, s, y)
<1> DEFINE q == x.plan
<1>1. q \in Seq(StepType) /\ x.held \in [Fields -> Creds] BY DEF WorkerType
<1>2. st.field \in Fields BY DEF Allowed, StepType
<1>3. q # <<>> /\ Head(q) = st /\ y.plan = Tail(q) OBVIOUS
<1>4. Grounded(p, q, x.held) /\ \A f \in Fields : Own(p, s, x, f) \/ Pending(q, f) BY DEF Sound
<1>5. c # Nothing
  <2>1. c.val = val /\ Nothing.val = "" BY DEF Nothing
  <2> QED BY <2>1
<1>6. y.held = [x.held EXCEPT ![st.field] = c] OBVIOUS
<1>7. y.held[st.field] = c /\ \A f \in Fields : f # st.field => y.held[f] = x.held[f]
  BY <1>1, <1>2, <1>6
<1>8. \A f \in Fields : x.held[f] # Nothing => y.held[f] # Nothing BY <1>5, <1>7
<1> HIDE DEF q
<1>9. Grounded(p, y.plan, y.held)
  <2> DEFINE h == x.held
             k == y.held
  <2>1. /\ q \in Seq(StepType) /\ q # <<>> /\ Grounded(p, q, h)
        /\ \A f \in Fields : h[f] # Nothing => k[f] # Nothing
        /\ Head(q).do \notin {"specerror", "panic"}
        /\ Head(q).do = "read" /\ Head(q).need # "try" => k[Head(q).field] # Nothing
    BY <1>1, <1>3, <1>4, <1>5, <1>7, <1>8
  <2> HIDE DEF h, k
  <2>2. Grounded(p, Tail(q), k) BY <2>1, GroundedStep
  <2> QED BY <1>3, <2>2 DEF k
<1>10. ASSUME NEW f \in Fields, f # st.field PROVE Own(p, s, y, f) \/ Pending(y.plan, f)
  <2>1. CASE Own(p, s, x, f) BY <1>7, <1>10, <2>1 DEF Own
  <2>2. CASE Pending(q, f) BY <1>1, <1>3, <2>2, PendingStep
  <2> QED BY <1>4, <2>1, <2>2
<1>11. CASE TakenFrom(p, st.field) = st.field
  <2>1. Own(p, s, y, st.field) BY <1>11, ReadOwn
  <2> QED BY <1>9, <1>10, <2>1 DEF Sound
<1>12. CASE TakenFrom(p, st.field) # st.field
  <2>1. /\ Len(q) \in Nat /\ Len(q) > 0 /\ Len(Tail(q)) = Len(q) - 1 /\ Head(q) = q[1]
        /\ \A i \in 1 .. (Len(q) - 1) : Tail(q)[i] = q[i + 1]
    BY <1>1, <1>3, TailIndex
  <2>2. 1 \in 1 .. Len(q) /\ q[1] = st BY <1>3, <2>1
  <2>3. PICK j \in (1 + 1) .. Len(q) : q[j].do = "take" /\ q[j].field = st.field
    BY <1>4, <1>12, <2>2 DEF Grounded
  <2>4. j - 1 \in 1 .. (Len(q) - 1) /\ (j - 1) + 1 = j BY <2>1, <2>3
  <2>5. j - 1 \in 1 .. Len(Tail(q)) /\ Tail(q)[j - 1] = q[j] BY <2>1, <2>4
  <2>6. Pending(Tail(q), st.field) BY <2>3, <2>5 DEF Pending
  <2> QED BY <1>3, <1>9, <1>10, <2>6 DEF Sound
<1> QED BY <1>11, <1>12

(* An attempt that finds something: the next way is skipped.               *)
LEMMA SoundSkip ==
  ASSUME NEW p, NEW s, NEW x \in WorkerType, NEW y \in WorkerType, x.plan # <<>>,
         Tail(x.plan) # <<>>, Sound(p, s, x),
         NEW st \in Allowed(p, s, x.ns), st = Head(x.plan), st.do = "read", st.need = "try", NEW val,
         NEW c, c = [store |-> x.store, ns |-> st.ns, from |-> st.field, val |-> val],
         y.held = [x.held EXCEPT ![st.field] = c],
         y.plan = Tail(Tail(x.plan)), y.store = x.store, y.ns = x.ns
  PROVE  Sound(p, s, y)
<1> DEFINE q == x.plan
<1>1. q \in Seq(StepType) /\ x.held \in [Fields -> Creds] BY DEF WorkerType
<1>2. st.field \in Fields BY DEF Allowed, StepType
<1>3. q # <<>> /\ Tail(q) # <<>> /\ Head(q) = st /\ y.plan = Tail(Tail(q)) OBVIOUS
<1>4. Grounded(p, q, x.held) /\ \A f \in Fields : Own(p, s, x, f) \/ Pending(q, f) BY DEF Sound
<1>5. y.held = [x.held EXCEPT ![st.field] = c] OBVIOUS
<1>6. \A f \in Fields : f # st.field => y.held[f] = x.held[f] BY <1>1, <1>2, <1>5
<1> HIDE DEF q
<1>7. /\ Grounded(p, y.plan, y.held)
      /\ \A i \in 1 .. Len(q) : q[i].do \notin {"take", "getter"}
  <2> DEFINE h == x.held
             k == y.held
  <2>1. /\ q \in Seq(StepType) /\ q # <<>> /\ Tail(q) # <<>> /\ Grounded(p, q, h)
        /\ Head(q).need = "try"
    BY <1>1, <1>3, <1>4
  <2> HIDE DEF h, k
  <2>2. Grounded(p, Tail(Tail(q)), k) /\ \A i \in 1 .. Len(q) : q[i].do \notin {"take", "getter"}
    BY <2>1, GroundedSkip
  <2> QED BY <1>3, <2>2 DEF k
<1>8. \A f \in Fields : ~Pending(q, f) BY <1>7 DEF Pending
<1>9. TakenFrom(p, st.field) = st.field
  <2>1. \A i \in 1 .. Len(q) : q[i].do = "read" => TakenFrom(p, q[i].field) = q[i].field
    BY <1>1, <1>3, <1>4, TryTakesNothing
  <2>2. 1 \in 1 .. Len(q) /\ q[1] = st BY <1>1, <1>3, TailIndex
  <2> QED BY <2>1, <2>2
<1>10. Own(p, s, y, st.field) BY <1>9, ReadOwn
<1>11. ASSUME NEW f \in Fields, f # st.field PROVE Own(p, s, y, f)
  <2>1. Own(p, s, x, f) BY <1>4, <1>8
  <2> QED BY <1>6, <1>11, <2>1 DEF Own
<1> QED BY <1>7, <1>10, <1>11 DEF Sound

(* An attempt that does not.                                               *)
LEMMA SoundMiss ==
  ASSUME NEW p, NEW s, NEW x \in WorkerType, NEW y \in WorkerType, x.plan # <<>>, Sound(p, s, x),
         Head(x.plan).do = "read", Head(x.plan).need = "try",
         y.plan = Tail(x.plan), y.held = x.held, y.store = x.store, y.ns = x.ns
  PROVE  Sound(p, s, y)
<1> DEFINE q == x.plan
<1>1. q \in Seq(StepType) BY DEF WorkerType
<1>2. q # <<>> /\ Head(q).do = "read" /\ Head(q).need = "try" /\ y.plan = Tail(q) OBVIOUS
<1>3. Grounded(p, q, x.held) /\ \A f \in Fields : Own(p, s, x, f) \/ Pending(q, f) BY DEF Sound
<1> HIDE DEF q
<1>4. Grounded(p, y.plan, y.held) BY <1>1, <1>2, <1>3, GroundedStep
<1>5. ASSUME NEW f \in Fields PROVE Own(p, s, y, f) \/ Pending(y.plan, f)
  <2>1. CASE Own(p, s, x, f) BY <2>1 DEF Own
  <2>2. CASE Pending(q, f) BY <1>1, <1>2, <2>2, PendingStep
  <2> QED BY <1>3, <2>1, <2>2
<1> QED BY <1>4, <1>5 DEF Sound

(* A key is taken from a Secret of the store.                              *)
LEMMA SoundTake ==
  ASSUME NEW p, NEW s, NEW x \in WorkerType, NEW y \in WorkerType, x.plan # <<>>, Sound(p, s, x),
         x.plan \in Plans(p, s, x.ns), NEW st \in Allowed(p, s, x.ns), st = Head(x.plan),
         st.do = "take", NEW val \in {"value", "empty"},
         NEW c, c = [x.held[st.from] EXCEPT !.val = val], y.held = [x.held EXCEPT ![st.field] = c],
         y.plan = Tail(x.plan), y.store = x.store, y.ns = x.ns
  PROVE  Sound(p, s, y)
<1> DEFINE q == x.plan
           g == st.from
           d == x.held[g]
<1>1. q \in Seq(StepType) /\ x.held \in [Fields -> Creds] BY DEF WorkerType
<1>2. /\ st.field \in Fields /\ g \in Fields /\ g = TakenFrom(p, st.field) /\ g # st.field
  BY DEF Allowed, StepType
<1>3. q # <<>> /\ Head(q) = st /\ y.plan = Tail(q) OBVIOUS
<1>4. Grounded(p, q, x.held) /\ \A f \in Fields : Own(p, s, x, f) \/ Pending(q, f) BY DEF Sound
<1>5. y.held = [x.held EXCEPT ![st.field] = c] OBVIOUS
<1>6. q \in Seq(Allowed(p, s, x.ns)) BY DEF Plans
<1>7. TakenFrom(p, g) = g /\ g # "ca" BY <1>2 DEF TakenFrom
<1>8. d \in Creds BY <1>1, <1>2
<1>9. c = [d EXCEPT !.val = val] OBVIOUS
<1> HIDE DEF q, g
<1>10. d # Nothing
  <2>1. 1 \in 1 .. Len(q) /\ q[1] = st BY <1>1, <1>3, TailIndex
  <2>2. Needs(st) BY DEF Needs
  <2>3. x.held[st.from] # Nothing \/ \E j \in 1 .. (1 - 1) : Grounds(q[j], st.from)
    BY <1>4, <2>1, <2>2 DEF Grounded
  <2>4. \A j \in 1 .. (1 - 1) : FALSE OBVIOUS
  <2> QED BY <2>3, <2>4 DEF g
<1>11. ~Pending(q, g)
  <2> SUFFICES ASSUME Pending(q, g) PROVE FALSE OBVIOUS
  <2>1. PICK i \in 1 .. Len(q) : q[i].do = "take" /\ q[i].field = g BY DEF Pending
  <2>2. q[i] \in Allowed(p, s, x.ns) BY <1>6, <2>1
  <2>3. q[i].from = TakenFrom(p, g) /\ q[i].from # g BY <2>1, <2>2 DEF Allowed
  <2> QED BY <1>7, <2>3
<1>12. Own(p, s, x, g) BY <1>2, <1>4, <1>11
<1>13. /\ d.store = x.store /\ d.from = g /\ d.ns = InReferent(s, x.ns, g)
       /\ p = "yandex" /\ Cluster(s) => HasNs(s, g)
  BY <1>7, <1>10, <1>12 DEF Own
<1> HIDE DEF d
<1>14. c.store = d.store /\ c.from = d.from /\ c.ns = d.ns /\ c.val = val BY <1>8, <1>9 DEF Creds
<1>15. c # Nothing
  <2>1. Nothing.val = "" BY DEF Nothing
  <2> QED BY <1>14, <2>1
<1>16. y.held[st.field] = c /\ \A f \in Fields : f # st.field => y.held[f] = x.held[f]
  BY <1>1, <1>2, <1>5
<1>17. \A f \in Fields : x.held[f] # Nothing => y.held[f] # Nothing BY <1>15, <1>16
<1>18. Grounded(p, y.plan, y.held)
  <2> DEFINE h == x.held
             k == y.held
  <2>1. /\ q \in Seq(StepType) /\ q # <<>> /\ Grounded(p, q, h)
        /\ \A f \in Fields : h[f] # Nothing => k[f] # Nothing
        /\ Head(q).do = "take"
    BY <1>1, <1>3, <1>4, <1>17
  <2> HIDE DEF h, k
  <2>2. Head(q).do \notin {"specerror", "panic"} /\ Head(q).do # "read" BY <2>1
  <2>3. Grounded(p, Tail(q), k) BY <2>1, <2>2, GroundedStep
  <2> QED BY <1>3, <2>3 DEF k
<1>19. ASSUME NEW f \in Fields, f # st.field PROVE Own(p, s, y, f) \/ Pending(y.plan, f)
  <2>1. CASE Own(p, s, x, f) BY <1>16, <1>19, <2>1 DEF Own
  <2>2. CASE Pending(q, f) BY <1>1, <1>3, <1>19, <2>2, PendingStep
  <2> QED BY <1>4, <2>1, <2>2
<1>20. Own(p, s, y, st.field) BY <1>2, <1>13, <1>14, <1>16 DEF Own
<1> QED BY <1>18, <1>19, <1>20 DEF Sound

(* A client of a singleton on its way to be published.                     *)
LEMMA SharingStep ==
  ASSUME NEW x \in WorkerType, NEW y \in WorkerType, NEW rec, x.plan # <<>>, Sharing(x, rec),
         y.pc = x.pc, y.plan = Tail(x.plan), y.rebound = x.rebound, Head(x.plan).do # "share",
         Head(x.plan).do \in {"call", "login"} => y.held = x.held
  PROVE  Sharing(y, rec)
<1> DEFINE q == x.plan
           t == Tail(q)
<1>1. q \in Seq(StepType) BY DEF WorkerType
<1>2. q # <<>> /\ Head(q).do # "share" OBVIOUS
<1> HIDE DEF q
<1>3. /\ Len(q) \in Nat /\ Len(q) > 0 /\ Len(t) = Len(q) - 1 /\ Head(q) = q[1]
      /\ \A i \in 1 .. (Len(q) - 1) : t[i] = q[i + 1]
  BY <1>1, <1>2, TailIndex
<1>4. /\ t = <<>> => Len(q) = 1
      /\ t # <<>> => t[Len(t)] = q[Len(q)]
  BY <1>1, <1>2, Rest
<1> HIDE DEF t
<1>5. y.plan = t BY DEF q, t
<1>6. CASE x.pc = "new"
  <2>1. /\ q[Len(q)].do = "share"
        /\ \A i \in 1 .. Len(q) : q[i].need # "try"
        /\ \A i \in 1 .. (Len(q) - 1) : q[i].do # "share"
    BY <1>2, <1>6 DEF Sharing, q
  <2>2. t # <<>> BY <1>2, <1>3, <1>4, <2>1
  <2>3. t[Len(t)].do = "share" BY <1>4, <2>1, <2>2
  <2>4. \A i \in 1 .. Len(t) : t[i].need # "try"
    <3> SUFFICES ASSUME NEW i \in 1 .. Len(t) PROVE t[i].need # "try" OBVIOUS
    <3>1. i \in 1 .. (Len(q) - 1) /\ i + 1 \in 1 .. Len(q) BY <1>3
    <3> QED BY <1>3, <2>1, <3>1
  <2>5. \A i \in 1 .. (Len(t) - 1) : t[i].do # "share"
    <3> SUFFICES ASSUME NEW i \in 1 .. (Len(t) - 1) PROVE t[i].do # "share" OBVIOUS
    <3>1. i \in 1 .. (Len(q) - 1) /\ i + 1 \in 1 .. (Len(q) - 1) BY <1>3
    <3> QED BY <1>3, <2>1, <3>1
  <2> QED BY <1>5, <1>6, <2>2, <2>3, <2>4, <2>5 DEF Sharing
<1>7. CASE x.pc # "new"
  <2>1. \A i \in 1 .. Len(q) : q[i].do \in {"call", "login"} BY <1>7 DEF Sharing, q
  <2>2. 1 \in 1 .. Len(q) BY <1>3
  <2>3. y.held = x.held BY <1>3, <2>1, <2>2 DEF q
  <2>4. \A i \in 1 .. Len(t) : t[i].do \in {"call", "login"}
    <3> SUFFICES ASSUME NEW i \in 1 .. Len(t) PROVE t[i].do \in {"call", "login"} OBVIOUS
    <3>1. i \in 1 .. (Len(q) - 1) /\ i + 1 \in 1 .. Len(q) BY <1>3
    <3> QED BY <1>3, <2>1, <3>1
  <2>5. ~x.rebound => rec = x.held BY <1>7 DEF Sharing
  <2> QED BY <1>5, <1>7, <2>3, <2>4, <2>5 DEF Sharing
<1> QED BY <1>6, <1>7

(* A client of a Yandex store on its way to the connection.                *)
LEMMA ConnectedStep ==
  ASSUME NEW x \in WorkerType, NEW y \in WorkerType, NEW get, x.plan # <<>>, Connected(x, get),
         Head(x.plan).do # "getter", y.plan = Tail(x.plan), y.rebound = x.rebound,
         y.store = x.store
  PROVE  Connected(y, get)
<1> DEFINE q == x.plan
           t == Tail(q)
<1>1. q \in Seq(StepType) BY DEF WorkerType
<1>2. q # <<>> /\ Head(q).do # "getter" OBVIOUS
<1> HIDE DEF q
<1>3. /\ Len(q) \in Nat /\ Len(q) > 0 /\ Len(t) = Len(q) - 1 /\ Head(q) = q[1]
      /\ \A i \in 1 .. (Len(q) - 1) : t[i] = q[i + 1]
  BY <1>1, <1>2, TailIndex
<1> HIDE DEF t
<1>4. ASSUME \A i \in 1 .. Len(t) : t[i].do # "getter", NEW i \in 1 .. Len(q)
      PROVE  q[i].do # "getter"
  <2>1. CASE i = 1 BY <1>2, <1>3, <2>1
  <2>2. CASE i # 1
    <3>1. i - 1 \in 1 .. (Len(q) - 1) /\ (i - 1) + 1 = i BY <1>3, <2>2
    <3>2. t[i - 1] = q[i] /\ i - 1 \in 1 .. Len(t) BY <1>3, <3>1
    <3> QED BY <1>4, <3>2
  <2> QED BY <2>1, <2>2
<1>5. y.plan = t /\ x.plan = q BY DEF q, t
<1> QED BY <1>4, <1>5 DEF Connected

(* A reconcile that goes on.                                               *)
LEMMA OwningStep ==
  ASSUME NEW p, NEW s, NEW x \in WorkerType, NEW y \in WorkerType, NEW rec, NEW get,
         x.pc \in {"new", "validate", "use"}, x.plan # <<>>, Owning(p, s, x, rec, get),
         y.pc = x.pc, y.plan = Tail(x.plan), y.rebound = x.rebound, y.store = x.store,
         Head(x.plan).do \notin {"share", "getter"},
         Head(x.plan).do \in {"call", "login"} => y.held = x.held,
         Sound(p, s, y)
  PROVE  Owning(p, s, y, rec, get)
<1>1. p \in Singletons => Sharing(x, rec) BY DEF Owning
<1>2. p = "yandex" => Connected(x, get) BY DEF Owning
<1>3. p \in Singletons => Sharing(y, rec) BY <1>1, SharingStep
<1>4. p = "yandex" => Connected(y, get) BY <1>2, ConnectedStep
<1> QED BY <1>3, <1>4 DEF Owning

(* A reconcile that ends without a client.                                 *)
LEMMA OwningEnd ==
  ASSUME NEW p, NEW s, NEW y, NEW rec, NEW get, y.pc = "done", y.result \notin {"Ready", "Used"}
  PROVE  Owning(p, s, y, rec, get)
BY DEF Owning

(* One reconcile changes, and with it at most a connection that was not    *)
(* there.                                                                  *)
LEMMA Updated2 ==
  ASSUME Inv, Inv2, NEW w \in Workers, NEW new, Only(w, new), prov' = prov, stores' = stores,
         receiver' = receiver, getter' = getter \/ getter = NoCreds, GetterOwn',
         Owning(prov, stores[new.store], new, receiver, getter')
  PROVE  Inv2'
<1>1. worker \in [Workers -> WorkerType] BY DEF Inv, TypeOK
<1>2. worker' = [worker EXCEPT ![w] = new] BY DEF Only
<1>3. ASSUME NEW v \in Workers
      PROVE  Owning(prov', stores'[worker'[v].store], worker'[v], receiver', getter')
  <2>1. CASE v = w
    <3>1. worker'[v] = new BY <1>1, <1>2, <2>1
    <3> QED BY <3>1
  <2>2. CASE v # w
    <3>1. worker'[v] = worker[v] BY <1>1, <1>2, <2>2
    <3> DEFINE x == worker[v]
               s == stores[x.store]
    <3>2. Owning(prov, s, x, receiver, getter) BY DEF Inv2
    <3> HIDE DEF x, s
    <3>3. Owning(prov, s, x, receiver, getter')
      <4>1. CASE getter' = getter BY <3>2, <4>1
      <4>2. CASE getter = NoCreds
        <5>1. Connected(x, getter) => Connected(x, getter') BY <4>2 DEF Connected
        <5> QED BY <3>2, <5>1 DEF Owning
      <4> QED BY <4>1, <4>2
    <3> QED BY <3>1, <3>3 DEF x, s
  <2> QED BY <2>1, <2>2
<1> QED BY <1>3 DEF Inv2

(* The same when there is no connection made.                              *)
LEMMA Updated3 ==
  ASSUME Inv, Inv2, NEW w \in Workers, NEW new, Only(w, new), prov' = prov, stores' = stores,
         receiver' = receiver, getter' = getter,
         Owning(prov, stores[new.store], new, receiver, getter)
  PROVE  Inv2'
<1>1. GetterOwn' BY DEF Inv2, GetterOwn
<1>2. Owning(prov, stores[new.store], new, receiver, getter') OBVIOUS
<1> QED BY <1>1, <1>2, Updated2

(* A reconcile begins without credentials.                                 *)
LEMMA StartOwns == ASSUME Inv, Inv2, NEW w \in Workers, Start(w) PROVE Inv2'
<1>1. PICK id \in StoreIds, role \in {"store", "secret"}, n \in NsNames :
        /\ (n = "") <=> (role = "store" /\ Cluster(stores[id]))
        /\ Only(w, [Idle EXCEPT !.pc = "new", !.role = role, !.store = id, !.ns = n,
                                !.plan = NewClient(prov, stores[id], n)])
  BY DEF Start, NsNames
<1> DEFINE s == stores[id]
           q == NewClient(prov, s, n)
           new == [Idle EXCEPT !.pc = "new", !.role = role, !.store = id, !.ns = n, !.plan = q]
<1>2. Context(prov, s, n) BY <1>1 DEF Inv, TypeOK, Context
<1>3. new.pc = "new" /\ new.store = id /\ new.plan = q /\ new.held = NoCreds BY DEF Idle
<1>4. Grounded(prov, q, NoCreds) BY <1>2, NewClientGrounded
<1>5. prov \in Singletons => /\ q # <<>> /\ q[Len(q)].do = "share"
                             /\ \A i \in 1 .. Len(q) : q[i].need # "try"
                             /\ \A i \in 1 .. (Len(q) - 1) : q[i].do # "share"
  BY <1>2, SingletonPlan
<1>6. prov = "yandex" => \E i \in 1 .. Len(q) : q[i].do = "getter"
  <2> SUFFICES ASSUME prov = "yandex" PROVE \E i \in 1 .. Len(q) : q[i].do = "getter" OBVIOUS
  <2>1. q = YandexNewClient(s, n) BY DEF NewClient
  <2> QED BY <1>2, <2>1, YandexGrounded
<1>7. Only(w, new) BY <1>1
<1> HIDE DEF q, new
<1>8. \A f \in Fields : new.held[f] = Nothing BY <1>3 DEF NoCreds
<1>9. Sound(prov, s, new) BY <1>3, <1>4, <1>8 DEF Sound, Own
<1>10. prov \in Singletons => Sharing(new, receiver) BY <1>3, <1>5 DEF Sharing
<1>11. prov = "yandex" => Connected(new, getter) BY <1>3, <1>6 DEF Connected
<1>12. Owning(prov, stores[new.store], new, receiver, getter)
  BY <1>3, <1>9, <1>10, <1>11 DEF Owning
<1>13. prov' = prov /\ stores' = stores /\ receiver' = receiver /\ getter' = getter BY DEF Start
<1> QED BY <1>7, <1>12, <1>13, Updated3

(* What is known of the credentials of a reconcile with a step to take.    *)
LEMMA AtStep2 ==
  ASSUME Inv, Inv2, NEW w \in Workers, Ready(w)
  PROVE  /\ Owning(prov, Mine(w), worker[w], receiver, getter)
         /\ Sound(prov, Mine(w), worker[w])
         /\ worker[w].plan \in Plans(prov, Mine(w), worker[w].ns)
         /\ prov \in Singletons => Sharing(worker[w], receiver)
         /\ prov = "yandex" => Connected(worker[w], getter)
<1>1. Owning(prov, Mine(w), worker[w], receiver, getter) BY DEF Inv2, Mine
<1>2. worker[w].pc \in {"new", "validate", "use"} BY DEF Ready
<1>3. WorkerOK(prov, Mine(w), worker[w]) BY DEF Inv, Mine
<1>4. worker[w].plan \in Plans(prov, Mine(w), worker[w].ns) BY <1>2, <1>3 DEF WorkerOK, Follows
<1> QED BY <1>1, <1>2, <1>4 DEF Owning

(* A step that leaves nothing but itself behind, or fails.                 *)
LEMMA CallsOwn ==
  ASSUME Inv, Inv2, NEW w \in Workers, CheckValue(w) \/ CallOk(w) \/ CallFails(w)
  PROVE  Inv2'
<1>1. Ready(w) /\ Step(w).do \in {"check", "call", "login"}
  BY DEF CheckValue, CallOk, CallFails, Doing
<1>2. prov' = prov /\ stores' = stores /\ receiver' = receiver /\ getter' = getter
  BY DEF CheckValue, CallOk, CallFails
<1>3. Only(w, Advance(w)) \/ Fail(w) BY DEF CheckValue, CallOk, CallFails
<1>4. CASE Only(w, Advance(w))
  <2> DEFINE x == worker[w]
             y == Advance(w)
  <2>1. /\ x \in WorkerType /\ x.plan # <<>> /\ x.pc \in {"new", "validate", "use"}
        /\ Head(x.plan).do \in {"check", "call", "login"}
    BY <1>1, AtStep
  <2>2. /\ y \in WorkerType /\ y.plan = Tail(x.plan) /\ y.store = x.store /\ y.ns = x.ns
        /\ y.pc = x.pc /\ y.rebound = x.rebound /\ y.held = x.held
    BY <1>1, KeptTyped
  <2>3. Owning(prov, Mine(w), x, receiver, getter) /\ Sound(prov, Mine(w), x) BY <1>1, AtStep2
  <2>4. Mine(w) = stores[y.store] BY <2>2 DEF Mine
  <2> HIDE DEF x, y
  <2>5. Head(x.plan).do \notin {"read", "take", "specerror", "panic", "share", "getter"} BY <2>1
  <2>6. Sound(prov, Mine(w), y) BY <2>1, <2>2, <2>3, <2>5, SoundSame
  <2>7. Owning(prov, Mine(w), y, receiver, getter)
    BY <2>1, <2>2, <2>3, <2>5, <2>6, OwningStep
  <2>8. Only(w, y) BY <1>4 DEF y
  <2> QED BY <1>2, <2>4, <2>7, <2>8, Updated3
<1>5. CASE Fail(w)
  <2>1. PICK y \in Failed(w) : Only(w, y) BY <1>5 DEF Fail
  <2>2. y.pc = "done" /\ y.result \in {"Error", "Unknown"} BY <1>1, Fails
  <2>3. Owning(prov, stores[y.store], y, receiver, getter) BY <2>2, OwningEnd
  <2> QED BY <1>2, <2>1, <2>3, Updated3
<1> QED BY <1>3, <1>4, <1>5

(* A spec that does not do.                                                *)
LEMMA RefuseOwns == ASSUME Inv, Inv2, NEW w \in Workers, Refuse(w) PROVE Inv2'
<1> DEFINE y == [worker[w] EXCEPT !.pc = "done", !.result = Step(w).do]
<1>1. Ready(w) /\ Step(w).do \in {"specerror", "panic"} BY DEF Refuse, Doing
<1>2. prov' = prov /\ stores' = stores /\ receiver' = receiver /\ getter' = getter BY DEF Refuse
<1>3. Only(w, y) BY DEF Refuse
<1>4. worker[w] \in WorkerType BY <1>1, AtStep
<1>5. y.pc = "done" /\ y.result \notin {"Ready", "Used"} BY <1>1, <1>4 DEF WorkerType
<1> HIDE DEF y
<1>6. Owning(prov, stores[y.store], y, receiver, getter) BY <1>5, OwningEnd
<1> QED BY <1>2, <1>3, <1>6, Updated3

(* A client that waits for a namespace.                                    *)
LEMMA PlaceholderOwns == ASSUME Inv, Inv2, NEW w \in Workers, Placeholder(w) PROVE Inv2'
<1> DEFINE x == worker[w]
           a == Advance(w)
           y == [a EXCEPT !.deferred = TRUE]
<1>1. Ready(w) /\ Step(w).do = "placeholder" BY DEF Placeholder, Doing
<1>2. prov' = prov /\ stores' = stores /\ receiver' = receiver /\ getter' = getter
  BY DEF Placeholder
<1>3. Only(w, y) BY DEF Placeholder
<1>4. /\ a \in WorkerType /\ a.plan = Tail(x.plan) /\ a.store = x.store /\ a.ns = x.ns
      /\ a.pc = x.pc /\ a.rebound = x.rebound /\ a.held = x.held
  BY <1>1, KeptTyped
<1>5. /\ x \in WorkerType /\ x.plan # <<>> /\ x.pc \in {"new", "validate", "use"}
      /\ Head(x.plan).do = "placeholder"
  BY <1>1, AtStep
<1>6. Owning(prov, Mine(w), x, receiver, getter) /\ Sound(prov, Mine(w), x) BY <1>1, AtStep2
<1>7. Mine(w) = stores[a.store] BY <1>4 DEF Mine
<1> HIDE DEF a, x
<1>8. /\ y \in WorkerType /\ y.plan = Tail(x.plan) /\ y.store = x.store /\ y.ns = x.ns
      /\ y.pc = x.pc /\ y.rebound = x.rebound /\ y.held = x.held
  BY <1>4 DEF WorkerType
<1> HIDE DEF y
<1>9. Head(x.plan).do \notin {"read", "take", "specerror", "panic", "share", "getter"} BY <1>5
<1>10. Sound(prov, Mine(w), y) BY <1>5, <1>6, <1>8, <1>9, SoundSame
<1>11. Owning(prov, Mine(w), y, receiver, getter) BY <1>5, <1>6, <1>8, <1>9, <1>10, OwningStep
<1> QED BY <1>2, <1>3, <1>4, <1>7, <1>8, <1>11, Updated3

(* A key of a Secret already read.                                         *)
LEMMA TakeOwns == ASSUME Inv, Inv2, NEW w \in Workers, TakeFrom(w) PROVE Inv2'
<1>1. Doing(w, "take") /\ Ready(w) /\ Step(w).do = "take" BY DEF TakeFrom, Doing
<1>2. prov' = prov /\ stores' = stores /\ receiver' = receiver /\ getter' = getter BY DEF TakeFrom
<1>3. PICK val \in {"value", "empty"} :
        Only(w, [Advance(w) EXCEPT !.held[Step(w).field] =
                    [worker[w].held[Step(w).from] EXCEPT !.val = val]])
  BY DEF TakeFrom
<1> DEFINE x == worker[w]
           st == Step(w)
           y == [Advance(w) EXCEPT !.held[Step(w).field] =
                    [worker[w].held[Step(w).from] EXCEPT !.val = val]]
<1>4. /\ y \in WorkerType /\ y.plan = Tail(x.plan) /\ y.store = x.store /\ y.ns = x.ns
      /\ y.pc = x.pc /\ y.rebound = x.rebound
      /\ y.held = [x.held EXCEPT ![st.field] = [x.held[st.from] EXCEPT !.val = val]]
  BY <1>1, TakenTyped
<1>5. /\ x \in WorkerType /\ x.plan # <<>> /\ x.pc \in {"new", "validate", "use"}
      /\ st = Head(x.plan) /\ st.do = "take" /\ st \in Allowed(prov, Mine(w), x.ns)
  BY <1>1, AtStep
<1>6. /\ Owning(prov, Mine(w), x, receiver, getter) /\ Sound(prov, Mine(w), x)
      /\ x.plan \in Plans(prov, Mine(w), x.ns)
  BY <1>1, AtStep2
<1>7. Mine(w) = stores[y.store] BY <1>4 DEF Mine
<1>8. Only(w, y) BY <1>3
<1> HIDE DEF x, y, st
<1>9. Sound(prov, Mine(w), y)
  <2> DEFINE s == Mine(w)
             c == [x.held[st.from] EXCEPT !.val = val]
  <2>1. /\ x \in WorkerType /\ y \in WorkerType /\ x.plan # <<>> /\ Sound(prov, s, x)
        /\ x.plan \in Plans(prov, s, x.ns) /\ st \in Allowed(prov, s, x.ns) /\ st = Head(x.plan)
        /\ st.do = "take" /\ val \in {"value", "empty"}
        /\ y.held = [x.held EXCEPT ![st.field] = c]
        /\ y.plan = Tail(x.plan) /\ y.store = x.store /\ y.ns = x.ns
    BY <1>4, <1>5, <1>6
  <2>2. c = [x.held[st.from] EXCEPT !.val = val] OBVIOUS
  <2> HIDE DEF s, c
  <2>3. Sound(prov, s, y) BY <2>1, <2>2, SoundTake
  <2> QED BY <2>3 DEF s
<1>10. Head(x.plan).do \notin {"share", "getter", "call", "login"} BY <1>5
<1>11. Owning(prov, Mine(w), y, receiver, getter)
  BY <1>4, <1>5, <1>6, <1>9, <1>10, OwningStep
<1> QED BY <1>2, <1>7, <1>8, <1>11, Updated3

(* The look-up of an object.                                               *)
LEMMA ReadOwns == ASSUME Inv, Inv2, NEW w \in Workers, Read(w) PROVE Inv2'
<1> DEFINE x == worker[w]
           s == Mine(w)
           st == Step(w)
           note(y) == [y EXCEPT !.reads = @ \cup {<<st.kind, st.ns>>}]
<1>1. Doing(w, "read") /\ Ready(w) /\ st.do = "read" BY DEF Read, Doing
<1>2. prov' = prov /\ stores' = stores /\ receiver' = receiver /\ getter' = getter BY DEF Read
<1>3. PICK ans \in Answers(w) :
        LET val == IF ans = "value" THEN "value" ELSE "empty"
        IN  IF st.need = "try"
            THEN Only(w, note(IF ans = "value" THEN [Keep(w, st, val) EXCEPT !.plan = Tail(@)]
                                               ELSE Advance(w)))
            ELSE IF ans = "absent" \/ (ans = "nokey" /\ st.need = "present")
            THEN \E new \in Failed(w) : Only(w, note(new))
            ELSE Only(w, note(Keep(w, st, val)))
  BY DEF Read
<1> DEFINE val == IF ans = "value" THEN "value" ELSE "empty"
           c == [store |-> x.store, ns |-> st.ns, from |-> st.field, val |-> val]
           kept == Keep(w, st, val)
           skip == [kept EXCEPT !.plan = Tail(@)]
<1>4. val \in {"value", "empty"} OBVIOUS
<1>5. /\ x \in WorkerType /\ x.plan # <<>> /\ x.pc \in {"new", "validate", "use"}
      /\ st = Head(x.plan) /\ st \in Allowed(prov, s, x.ns)
  BY <1>1, AtStep
<1>6. /\ Owning(prov, s, x, receiver, getter) /\ Sound(prov, s, x) /\ x.plan \in Plans(prov, s, x.ns)
      /\ prov \in Singletons => Sharing(x, receiver)
      /\ prov = "yandex" => Connected(x, getter)
  BY <1>1, AtStep2
<1>7. /\ Advance(w) \in WorkerType /\ kept \in WorkerType
      /\ \A y \in {Advance(w), kept} :
           /\ y.plan = Tail(x.plan) /\ y.store = x.store /\ y.ns = x.ns /\ y.pc = x.pc
           /\ y.reads = x.reads /\ y.rebound = x.rebound
      /\ Advance(w).held = x.held /\ kept.held = [x.held EXCEPT ![st.field] = c]
  BY <1>1, <1>4, KeptTyped
<1>8. Head(x.plan).do = "read" /\ Head(x.plan).do \notin {"share", "getter", "call", "login"}
  BY <1>1, <1>5
<1>9. ASSUME NEW y \in WorkerType, y.reads = x.reads
      PROVE  /\ note(y) \in WorkerType /\ note(y).pc = y.pc /\ note(y).store = y.store
             /\ note(y).ns = y.ns /\ note(y).plan = y.plan /\ note(y).held = y.held
             /\ note(y).result = y.result /\ note(y).rebound = y.rebound
  BY <1>1, <1>9, NoteTyped
<1>10. s = stores[x.store] BY DEF Mine
<1> HIDE DEF x, s, st, val, kept, c, note
<1>11. ASSUME st.need = "try", Only(w, note(Advance(w))) PROVE Inv2'
  <2> DEFINE z == note(Advance(w))
  <2>1. /\ z \in WorkerType /\ z.plan = Tail(x.plan) /\ z.store = x.store /\ z.ns = x.ns
        /\ z.pc = x.pc /\ z.held = x.held /\ z.rebound = x.rebound
    BY <1>7, <1>9
  <2> HIDE DEF z
  <2>2. Head(x.plan).need = "try" BY <1>5, <1>11
  <2>3. Sound(prov, s, z) BY <1>5, <1>6, <1>8, <2>1, <2>2, SoundMiss
  <2>4. Owning(prov, s, z, receiver, getter) BY <1>5, <1>6, <1>8, <2>1, <2>3, OwningStep
  <2>5. Only(w, z) BY <1>11 DEF z
  <2> QED BY <1>2, <1>10, <2>1, <2>4, <2>5, Updated3
<1>12. ASSUME st.need # "try", Only(w, note(kept)) PROVE Inv2'
  <2> DEFINE z == note(kept)
  <2>1. /\ z \in WorkerType /\ z.plan = Tail(x.plan) /\ z.store = x.store /\ z.ns = x.ns
        /\ z.pc = x.pc /\ z.held = [x.held EXCEPT ![st.field] = c] /\ z.rebound = x.rebound
    BY <1>7, <1>9
  <2> HIDE DEF z
  <2>2. c = [store |-> x.store, ns |-> st.ns, from |-> st.field, val |-> val] BY DEF c
  <2>3. st.do = "read" BY <1>5, <1>8
  <2>4. Sound(prov, s, z) BY <1>4, <1>5, <1>6, <1>12, <2>1, <2>2, <2>3, SoundRead
  <2>5. Owning(prov, s, z, receiver, getter) BY <1>5, <1>6, <1>8, <2>1, <2>4, OwningStep
  <2>6. Only(w, z) BY <1>12 DEF z
  <2> QED BY <1>2, <1>10, <2>1, <2>5, <2>6, Updated3
<1>13. ASSUME st.need = "try", Only(w, note(skip)) PROVE Inv2'
  <2> DEFINE q == x.plan
  <2>1. Tail(q) # <<>> /\ Tail(Tail(q)) \in Plans(prov, s, x.ns) BY <1>5, <1>6, <1>13, StepOfPlan
  <2>2. Tail(Tail(q)) \in Seq(StepType) BY <2>1, PlanSteps
  <2>3. /\ skip \in WorkerType /\ skip.plan = Tail(Tail(q)) /\ skip.store = x.store
        /\ skip.ns = x.ns /\ skip.pc = x.pc /\ skip.reads = x.reads
        /\ skip.held = kept.held /\ skip.rebound = x.rebound
    BY <1>7, <2>2 DEF WorkerType
  <2> DEFINE z == note(skip)
  <2> HIDE DEF skip
  <2>4. /\ z \in WorkerType /\ z.plan = Tail(Tail(q)) /\ z.store = x.store /\ z.ns = x.ns
        /\ z.pc = x.pc /\ z.held = kept.held /\ z.rebound = x.rebound
    BY <1>9, <2>3
  <2> HIDE DEF z
  <2>5. /\ c = [store |-> x.store, ns |-> st.ns, from |-> st.field, val |-> val]
        /\ z.held = [x.held EXCEPT ![st.field] = c]
    BY <1>7, <2>4 DEF c
  <2>6. st.do = "read" BY <1>5, <1>8
  <2>7. Sound(prov, s, z) BY <1>5, <1>6, <1>13, <2>1, <2>4, <2>5, <2>6, SoundSkip
  <2>8. q \in Seq(StepType) /\ q # <<>> /\ Head(q) = st /\ Grounded(prov, q, x.held)
    BY <1>5, <1>6 DEF WorkerType, Sound
  <2>9. Len(q) \in Nat /\ 1 \in 1 .. Len(q) /\ q[1] = st BY <2>8, TailIndex
  <2>10. prov \notin Singletons
    <3> SUFFICES ASSUME prov \in Singletons PROVE FALSE OBVIOUS
    <3>1. CASE x.pc = "new" BY <1>5, <1>6, <1>13, <2>9, <3>1 DEF Sharing
    <3>2. CASE x.pc # "new" BY <1>5, <1>6, <2>6, <2>9, <3>2 DEF Sharing
    <3> QED BY <3>1, <3>2
  <2>11. prov = "yandex" => Connected(z, getter)
    <3>1. Grounded(prov, Tail(Tail(q)), x.held) /\ \A i \in 1 .. Len(q) : q[i].do # "getter"
      BY <1>13, <2>1, <2>8, GroundedSkip
    <3> QED BY <1>6, <2>4, <3>1 DEF Connected
  <2>12. Owning(prov, s, z, receiver, getter)
    BY <1>5, <2>4, <2>7, <2>10, <2>11 DEF Owning
  <2>13. Only(w, z) BY <1>13 DEF z
  <2> QED BY <1>2, <1>10, <2>4, <2>12, <2>13, Updated3
<1>14. ASSUME NEW y \in Failed(w), Only(w, note(y)) PROVE Inv2'
  <2>1. /\ y \in WorkerType /\ y.reads = x.reads /\ y.pc = "done"
        /\ y.result \in {"Error", "Unknown"}
    BY <1>1, Fails DEF x
  <2> DEFINE z == note(y)
  <2>2. z.pc = "done" /\ z.result \in {"Error", "Unknown"} BY <1>9, <2>1
  <2> HIDE DEF z
  <2>3. Owning(prov, stores[z.store], z, receiver, getter) BY <2>2, OwningEnd
  <2>4. Only(w, z) BY <1>14 DEF z
  <2> QED BY <1>2, <2>3, <2>4, Updated3
<1> QED BY <1>3, <1>11, <1>12, <1>13, <1>14 DEF val, kept

(* The registered provider is overwritten: from now on it is the client of *)
(* this reconcile, and the others that had it are told so.                 *)
LEMMA ShareOwns == ASSUME Inv, Inv2, NEW w \in Workers, Share(w) PROVE Inv2'
<1> DEFINE x == worker[w]
           a == Advance(w)
           R(v) == worker[v].rebound \/ worker[v].pc \in {"validate", "use"}
                                     \/ (worker[v].pc = "new" /\ worker[v].plan = <<>>)
           other(v) == [worker[v] EXCEPT !.rebound = R(v)]
<1>1. Ready(w) /\ Step(w).do = "share" BY DEF Share, Doing
<1>2. prov' = prov /\ stores' = stores /\ getter' = getter /\ receiver' = x.held
  BY DEF Share, Publish
<1>3. worker' = [v \in Workers |-> IF v = w THEN a ELSE other(v)] BY DEF Share, Publish
<1>4. /\ a \in WorkerType /\ a.plan = Tail(x.plan) /\ a.store = x.store /\ a.ns = x.ns
      /\ a.pc = x.pc /\ a.rebound = x.rebound /\ a.held = x.held
  BY <1>1, KeptTyped
<1>5. /\ x \in WorkerType /\ x.plan # <<>> /\ x.pc \in {"new", "validate", "use"}
      /\ Head(x.plan).do = "share" /\ Step(w) \in Allowed(prov, Mine(w), x.ns)
  BY <1>1, AtStep
<1>6. prov \in Singletons BY <1>1, <1>5 DEF Allowed
<1>7. prov # "yandex" BY <1>6 DEF Singletons
<1>8. Sound(prov, Mine(w), x) /\ Sharing(x, receiver) BY <1>1, <1>6, AtStep2
<1>9. Mine(w) = stores[x.store] BY DEF Mine
<1>10. x.pc = "new" /\ Tail(x.plan) = <<>>
  <2> DEFINE q == x.plan
  <2>1. q \in Seq(StepType) BY <1>5 DEF WorkerType
  <2>2. q # <<>> /\ Head(q).do = "share" BY <1>5
  <2>3. /\ Len(q) \in Nat /\ Len(q) > 0 /\ Tail(q) \in Seq(StepType) /\ Len(Tail(q)) = Len(q) - 1
        /\ Head(q) = q[1]
    BY <2>1, <2>2, TailIndex
  <2>4. 1 \in 1 .. Len(q) BY <2>3
  <2>5. x.pc = "new" BY <1>8, <2>2, <2>3, <2>4 DEF Sharing
  <2>6. \A i \in 1 .. (Len(q) - 1) : q[i].do # "share" BY <1>8, <2>2, <2>5 DEF Sharing
  <2>7. Len(Tail(q)) = 0
    <3> DEFINE k == Len(q)
    <3>1. ~(1 \in 1 .. (k - 1)) BY <2>2, <2>3, <2>6
    <3>2. k \in Nat /\ k > 0 /\ Len(Tail(q)) = k - 1 BY <2>3
    <3> HIDE DEF k
    <3>3. k - 1 = 0 BY <3>1, <3>2
    <3> QED BY <3>2, <3>3
  <2>8. Tail(q) = <<>> BY <2>3, <2>7, NoneLeft
  <2> QED BY <2>5, <2>8
<1> HIDE DEF x, a
<1>11. Owning(prov, stores[a.store], a, x.held, getter)
  <2>1. Head(x.plan).do \notin {"read", "take", "specerror", "panic"} BY <1>5
  <2>2. Sound(prov, Mine(w), a) BY <1>4, <1>5, <1>8, <2>1, SoundSame
  <2>3. Sharing(a, x.held) BY <1>4, <1>10 DEF Sharing
  <2> QED BY <1>4, <1>7, <1>9, <1>10, <2>2, <2>3 DEF Owning
<1>12. ASSUME NEW v \in Workers, v # w
       PROVE  Owning(prov, stores[other(v).store], other(v), x.held, getter)
  <2> DEFINE o == worker[v]
             z == other(v)
  <2>1. o \in WorkerType /\ Owning(prov, stores[o.store], o, receiver, getter)
    BY DEF Inv, TypeOK, Inv2
  <2>2. R(v) <=> (o.rebound \/ o.pc \in {"validate", "use"} \/ (o.pc = "new" /\ o.plan = <<>>))
    OBVIOUS
  <2>3. z = [o EXCEPT !.rebound = R(v)] OBVIOUS
  <2> HIDE DEF R, o, other, z
  <2>4. /\ z.pc = o.pc /\ z.plan = o.plan /\ z.held = o.held /\ z.store = o.store /\ z.ns = o.ns
        /\ z.result = o.result /\ z.rebound = R(v)
    BY <2>1, <2>3 DEF WorkerType
  <2> DEFINE s == stores[o.store]
  <2>5. \A f \in Fields : Own(prov, s, o, f) => Own(prov, s, z, f) BY <2>4 DEF Own
  <2> HIDE DEF s
  <2>6. Owning(prov, s, o, receiver, getter) BY <2>1 DEF s
  <2>7. ASSUME z.pc \in {"new", "validate", "use"} PROVE Sound(prov, s, z) /\ Sharing(z, x.held)
    <3>1. Sound(prov, s, o) /\ Sharing(o, receiver) BY <1>6, <2>4, <2>6, <2>7 DEF Owning
    <3>2. Sound(prov, s, z) BY <2>4, <2>5, <3>1 DEF Sound
    <3>3. (z.pc = "new" => z.plan = <<>>) => z.rebound BY <2>2, <2>4, <2>7
    <3>4. Sharing(z, x.held) BY <2>4, <3>1, <3>3 DEF Sharing
    <3> QED BY <3>2, <3>4
  <2>8. ASSUME z.pc = "done", z.result \in {"Ready", "Used"}, ~z.rebound, NEW f \in Fields
        PROVE  Own(prov, s, z, f)
    <3>1. ~o.rebound BY <2>2, <2>4, <2>8
    <3>2. Own(prov, s, o, f) BY <2>4, <2>6, <2>8, <3>1 DEF Owning
    <3> QED BY <2>5, <3>2
  <2>9. Owning(prov, s, z, x.held, getter) BY <1>7, <2>7, <2>8 DEF Owning
  <2> QED BY <2>4, <2>9 DEF s, z
<1> HIDE DEF other
<1>13. ASSUME NEW v \in Workers
       PROVE  Owning(prov', stores'[worker'[v].store], worker'[v], receiver', getter')
  <2>1. CASE v = w BY <1>2, <1>3, <1>11, <2>1
  <2>2. CASE v # w BY <1>2, <1>3, <1>12, <2>2
  <2> QED BY <2>1, <2>2
<1>14. GetterOwn' BY <1>2, <1>7 DEF GetterOwn
<1> QED BY <1>13, <1>14 DEF Inv2

(* Yandex plans take nothing.                                              *)
LEMMA YandexTakesNothing ==
  ASSUME NEW s, NEW n, NEW q \in Plans("yandex", s, n), NEW f PROVE ~Pending(q, f)
<1>1. \A i \in 1 .. Len(q) : q[i] \in Allowed("yandex", s, n) BY DEF Plans
<1>2. \A g : TakenFrom("yandex", g) = g BY DEF TakenFrom
<1>3. \A i \in 1 .. Len(q) : q[i].do # "take" BY <1>1, <1>2 DEF Allowed
<1> QED BY <1>3 DEF Pending

(* The connection of the endpoint: the first store's, with its CA.         *)
LEMMA GetterOwns ==
  ASSUME Inv, Inv2, NEW w \in Workers, GetOrCreateSecretGetter(w) PROVE Inv2'
<1> DEFINE x == worker[w]
           s == Mine(w)
           a == Advance(w)
           b == getter["ca"].store # worker[w].store
           y == [a EXCEPT !.rebound = b]
<1>1. Ready(w) /\ Step(w).do = "getter" BY DEF GetOrCreateSecretGetter, Doing
<1>2. prov' = prov /\ stores' = stores /\ receiver' = receiver BY DEF GetOrCreateSecretGetter
<1>3. /\ a \in WorkerType /\ a.plan = Tail(x.plan) /\ a.store = x.store /\ a.ns = x.ns
      /\ a.pc = x.pc /\ a.rebound = x.rebound /\ a.held = x.held
  BY <1>1, KeptTyped
<1>4. /\ x \in WorkerType /\ x.plan # <<>> /\ x.pc \in {"new", "validate", "use"}
      /\ Step(w) = Head(x.plan) /\ Step(w) \in Allowed(prov, s, x.ns)
  BY <1>1, AtStep
<1>5. prov = "yandex" BY <1>1, <1>4 DEF Allowed
<1>6. prov \notin Singletons BY <1>5 DEF Singletons
<1>7. Sound(prov, s, x) /\ x.plan \in Plans(prov, s, x.ns) BY <1>1, AtStep2
<1>8. s = stores[x.store] /\ Placed(prov, s, x)
  <2>1. WorkerOK(prov, s, x) /\ x.pc # "idle" BY <1>1, AtStep
  <2> QED BY <2>1 DEF Mine, WorkerOK
<1>9. Sound(prov, s, a)
  <2>1. Head(x.plan).do \notin {"read", "take", "specerror", "panic"} BY <1>1, <1>4
  <2> HIDE DEF x, a, s
  <2> QED BY <1>3, <1>4, <1>7, <2>1, SoundSame
<1>10. CASE getter # NoCreds /\ Only(w, y) /\ getter' = getter
  <2>1. b <=> getter["ca"].store # x.store OBVIOUS
  <2>2. b \in BOOLEAN OBVIOUS
  <2> HIDE DEF a, b, x, s
  <2>3. /\ y \in WorkerType /\ y.plan = a.plan /\ y.store = a.store /\ y.ns = a.ns
        /\ y.pc = a.pc /\ y.held = a.held /\ y.rebound = b
    BY <1>3, <2>2 DEF WorkerType
  <2>4. Only(w, y) BY <1>10
  <2> HIDE DEF y
  <2>5. Sound(prov, s, y) BY <1>9, <2>3 DEF Sound, Own
  <2>6. Connected(y, getter) BY <1>3, <1>10, <2>1, <2>3 DEF Connected
  <2>7. Owning(prov, s, y, receiver, getter)
    BY <1>3, <1>4, <1>6, <2>3, <2>5, <2>6 DEF Owning
  <2> QED BY <1>2, <1>3, <1>8, <1>10, <2>3, <2>4, <2>7, Updated3
<1>11. CASE getter = NoCreds /\ getter' = x.held /\ Only(w, a)
  <2> HIDE DEF a, x, s
  <2>1. x.held \in [Fields -> Creds] /\ x.store \in StoreIds BY <1>4 DEF WorkerType
  <2>2. x.held # NoCreds
    <3> DEFINE q == x.plan
    <3>1. q \in Seq(StepType) /\ q # <<>> BY <1>4 DEF WorkerType
    <3>2. 1 \in 1 .. Len(q) /\ q[1] = Step(w) BY <1>4, <3>1, TailIndex
    <3>3. Needs(Step(w)) /\ Step(w).from \in Fields BY <1>1, <1>4 DEF Needs, Allowed, StepType
    <3>4. Grounded(prov, q, x.held) BY <1>7 DEF Sound
    <3>5. \/ x.held[Step(w).from] # Nothing
          \/ \E j \in 1 .. (1 - 1) : Grounds(q[j], Step(w).from)
      BY <3>2, <3>3, <3>4 DEF Grounded
    <3>6. \A j \in 1 .. (1 - 1) : FALSE OBVIOUS
    <3>7. NoCreds[Step(w).from] = Nothing BY <3>3 DEF NoCreds
    <3> QED BY <3>5, <3>6, <3>7
  <2>3. Own(prov, s, x, "ca")
    <3>1. Own(prov, s, x, "ca") \/ Pending(x.plan, "ca") BY <1>7 DEF Sound, Fields
    <3>2. ~Pending(x.plan, "ca") BY <1>5, <1>7, YandexTakesNothing
    <3> QED BY <3>1, <3>2
  <2> DEFINE c == x.held["ca"]
  <2>4. c # Nothing => /\ c.store = x.store /\ c.from = "ca"
                       /\ c.ns = InReferent(s, x.ns, "ca")
                       /\ Cluster(s) => HasNs(s, "ca")
    <3>1. TakenFrom(prov, "ca") = "ca" BY DEF TakenFrom
    <3>2. prov \notin AnyNamespaceCA BY <1>5 DEF AnyNamespaceCA
    <3> QED BY <1>5, <2>3, <3>1, <3>2 DEF Own
  <2>5. ~Cluster(s) => x.ns = Home BY <1>8 DEF Placed
  <2> HIDE DEF c
  <2>6. c # Nothing => /\ c.store \in StoreIds /\ c.from = "ca" /\ s = stores[c.store]
                       /\ c.ns = IF Cluster(s) THEN s.ns["ca"] ELSE Home
                       /\ Cluster(s) => HasNs(s, "ca")
    BY <1>8, <2>1, <2>4, <2>5 DEF InReferent
  <2>7. getter'["ca"] = c BY <1>11 DEF c
  <2>8. GetterOwn' BY <1>2, <2>6, <2>7 DEF GetterOwn
  <2>9. Connected(a, getter') BY <1>3, <1>11, <2>2, <2>4, <2>7 DEF Connected
  <2>10. Owning(prov, stores[a.store], a, receiver, getter')
    BY <1>3, <1>4, <1>6, <1>8, <1>9, <2>9 DEF Owning
  <2> QED BY <1>2, <1>11, <2>8, <2>10, Updated2
<1>12. CASE Fail(w) /\ getter' = getter
  <2>1. PICK z \in Failed(w) : Only(w, z) BY <1>12 DEF Fail
  <2>2. z.pc = "done" /\ z.result \in {"Error", "Unknown"} BY <1>1, Fails
  <2>3. Owning(prov, stores[z.store], z, receiver, getter) BY <2>2, OwningEnd
  <2> QED BY <1>2, <1>12, <2>1, <2>3, Updated3
<1> QED BY <1>10, <1>11, <1>12 DEF GetOrCreateSecretGetter

(* A client that was made: its plan is carried out.                        *)
LEMMA MadeSound ==
  ASSUME NEW p, NEW s, NEW x \in WorkerType, NEW y \in WorkerType, NEW rec, NEW get,
         x.pc = "new", x.plan = <<>>, Owning(p, s, x, rec, get),
         y.pc \in {"validate", "use"}, y.held = x.held, y.store = x.store, y.ns = x.ns,
         y.rebound = x.rebound, Grounded(p, y.plan, y.held),
         p \in Singletons => \A i \in 1 .. Len(y.plan) : y.plan[i].do \in {"call", "login"}
  PROVE  Owning(p, s, y, rec, get)
<1>1. /\ Sound(p, s, x)
      /\ p \in Singletons => Sharing(x, rec)
      /\ p = "yandex" => Connected(x, get)
  BY DEF Owning
<1>2. \A i \in 1 .. Len(x.plan) : FALSE OBVIOUS
<1>3. \A f \in Fields : ~Pending(x.plan, f) BY <1>2 DEF Pending
<1>4. \A f \in Fields : Own(p, s, x, f) BY <1>1, <1>3 DEF Sound
<1>5. \A f \in Fields : Own(p, s, y, f) BY <1>4 DEF Own
<1>6. Sound(p, s, y) BY <1>5 DEF Sound
<1>7. p \in Singletons => Sharing(y, rec)
  <2> SUFFICES ASSUME p \in Singletons PROVE Sharing(y, rec) OBVIOUS
  <2>1. ~x.rebound => rec = x.held BY <1>1 DEF Sharing
  <2>2. y.pc # "new" OBVIOUS
  <2> QED BY <2>1, <2>2 DEF Sharing
<1>8. p = "yandex" => Connected(y, get)
  <2>1. p = "yandex" => get # NoCreds /\ (~x.rebound => get["ca"] = Nothing \/ get["ca"].store = x.store)
    BY <1>1, <1>2 DEF Connected
  <2> QED BY <2>1 DEF Connected
<1> QED BY <1>6, <1>7, <1>8 DEF Owning

(* The client is made.                                                     *)
LEMMA MadeOwns == ASSUME Inv, Inv2, NEW w \in Workers, Made(w) PROVE Inv2'
<1> DEFINE x == worker[w]
           s == Mine(w)
           use == [x EXCEPT !.pc = "use", !.plan = UseClient(prov, s, x.ns)]
           val == [x EXCEPT !.pc = "validate", !.plan = ValidateCalls(prov, s, x.ns)]
           end == [x EXCEPT !.pc = "done", !.result = "Unknown"]
<1>1. x.pc = "new" /\ x.plan = <<>> BY DEF Made
<1>2. prov' = prov /\ stores' = stores /\ receiver' = receiver /\ getter' = getter BY DEF Made
<1>3. x \in WorkerType /\ WorkerOK(prov, s, x) /\ s = stores[x.store] BY DEF Inv, TypeOK, Mine
<1>4. Placed(prov, s, x) /\ Stopped(prov, s, x) BY <1>1, <1>3 DEF WorkerOK
<1>5. Context(prov, s, x.ns) BY <1>4 DEF Placed
<1>6. SpecError # <<>> /\ Do("placeholder") # <<>> BY FirstIs DEF SpecError
<1>7. Owning(prov, s, x, receiver, getter) BY DEF Inv2, Mine
<1>8. CASE x.role = "secret"
  <2> DEFINE q == UseClient(prov, s, x.ns)
  <2>1. x.ns # "" BY <1>4, <1>8 DEF Placed
  <2>2. prov = "akeyless" => s.method # "none" BY <1>1, <1>4, <1>6 DEF Stopped
  <2>3. q \in Seq(StepType) BY <1>5, <2>1, <2>2, UseClientAllowed, PlanSteps
  <2>4. Grounded(prov, q, x.held) BY <1>5, <2>1, <2>2, UseClientGrounded
  <2>5. prov \in Singletons => \A i \in 1 .. Len(q) : q[i].do \in {"call", "login"}
    BY SingletonCalls
  <2> HIDE DEF q
  <2>6. /\ use \in WorkerType /\ use.pc = "use" /\ use.plan = q /\ use.store = x.store
        /\ use.ns = x.ns /\ use.held = x.held /\ use.rebound = x.rebound
    BY <1>3, <2>3 DEF WorkerType, q
  <2>7. Only(w, use) BY <1>8 DEF Made
  <2> HIDE DEF use, x, s
  <2>8. Owning(prov, s, use, receiver, getter)
    BY <1>1, <1>3, <1>7, <2>4, <2>5, <2>6, MadeSound
  <2> QED BY <1>2, <1>3, <2>6, <2>7, <2>8, Updated3
<1>9. CASE x.role # "secret" /\ Defers(prov, s, x.deferred)
  <2>1. end.pc = "done" /\ end.result = "Unknown" BY <1>3 DEF WorkerType
  <2>2. Only(w, end) BY <1>9 DEF Made
  <2> HIDE DEF end
  <2>3. Owning(prov, stores[end.store], end, receiver, getter) BY <2>1, OwningEnd
  <2> QED BY <1>2, <2>2, <2>3, Updated3
<1>10. CASE x.role # "secret" /\ ~Defers(prov, s, x.deferred)
  <2> DEFINE q == ValidateCalls(prov, s, x.ns)
  <2>1. prov \notin Generators BY <1>4, <1>10 DEF Placed
  <2>2. prov = "aws" => ~x.deferred BY <1>10 DEF Defers
  <2>3. prov = "aws" => x.ns # "" \/ ~UsesJWT(s) \/ HasNs(s, "sa")
    BY <1>1, <1>4, <1>6, <2>2 DEF Stopped
  <2>4. q \in Seq(StepType) BY <1>5, <2>1, <2>3, ValidateAllowed, PlanSteps
  <2>5. Grounded(prov, q, x.held) BY <1>5, <2>1, <2>3, ValidateGrounded
  <2>6. prov \in Singletons => \A i \in 1 .. Len(q) : q[i].do \in {"call", "login"}
    BY SingletonCalls
  <2> HIDE DEF q
  <2>7. /\ val \in WorkerType /\ val.pc = "validate" /\ val.plan = q /\ val.store = x.store
        /\ val.ns = x.ns /\ val.held = x.held /\ val.rebound = x.rebound
    BY <1>3, <2>4 DEF WorkerType, q
  <2>8. Only(w, val) BY <1>10 DEF Made
  <2> HIDE DEF val, x, s
  <2>9. Owning(prov, s, val, receiver, getter)
    BY <1>1, <1>3, <1>7, <2>5, <2>6, <2>7, MadeSound
  <2> QED BY <1>2, <1>3, <2>7, <2>8, <2>9, Updated3
<1> QED BY <1>8, <1>9, <1>10

(* The reconcile has come to its end, with a client of its own store unless*)
(* another came in between.                                                *)
LEMMA FinishOwns == ASSUME Inv, Inv2, NEW w \in Workers, Finish(w) PROVE Inv2'
<1> DEFINE x == worker[w]
           s == Mine(w)
           r == IF worker[w].role = "store" THEN "Ready" ELSE "Used"
           h == Effective(w)
           y == [worker[w] EXCEPT !.pc = "done", !.held = Effective(w), !.result = r]
<1>1. x.pc \in {"validate", "use"} /\ x.plan = <<>> BY DEF Finish
<1>2. prov' = prov /\ stores' = stores /\ receiver' = receiver /\ getter' = getter BY DEF Finish
<1>3. Only(w, y) BY DEF Finish
<1>4. x \in WorkerType /\ WorkerOK(prov, s, x) /\ s = stores[x.store] BY DEF Inv, TypeOK, Mine
<1>5. Placed(prov, s, x) BY <1>1, <1>4 DEF WorkerOK
<1>6. h \in [Fields -> Creds] BY EffectiveTyped
<1>7. y.pc = "done" /\ y.held = h /\ y.store = x.store /\ y.ns = x.ns /\ y.rebound = x.rebound
  BY <1>4 DEF WorkerType
<1>8. Owning(prov, s, x, receiver, getter) BY DEF Inv2, Mine
<1>9. /\ Sound(prov, s, x)
      /\ prov \in Singletons => Sharing(x, receiver)
      /\ prov = "yandex" => Connected(x, getter)
  BY <1>1, <1>8 DEF Owning
<1>10. \A i \in 1 .. Len(x.plan) : FALSE BY <1>1
<1>11. \A f \in Fields : Own(prov, s, x, f)
  <2>1. \A f \in Fields : ~Pending(x.plan, f) BY <1>10 DEF Pending
  <2> QED BY <1>9, <2>1 DEF Sound
<1>12. ASSUME ~x.rebound, NEW f \in Fields PROVE Own(prov, s, y, f)
  <2>1. CASE prov \in Singletons
    <3>1. h = receiver BY <1>1, <2>1 DEF Effective
    <3>2. receiver = x.held BY <1>1, <1>9, <1>12, <2>1 DEF Sharing
    <3> HIDE DEF x, y, s, h
    <3> QED BY <1>7, <1>11, <3>1, <3>2 DEF Own
  <2>2. CASE prov = "yandex"
    <3>1. prov \notin Singletons BY <2>2 DEF Singletons
    <3>2. h = [x.held EXCEPT !["ca"] = getter["ca"]] BY <1>1, <2>2, <3>1 DEF Effective
    <3>3. x.held \in [Fields -> Creds] /\ "ca" \in Fields BY <1>4 DEF WorkerType, Fields
    <3> DEFINE c == getter["ca"]
    <3>4. c = Nothing \/ c.store = x.store BY <1>9, <1>10, <1>12, <2>2 DEF Connected
    <3>5. c # Nothing => /\ c.from = "ca"
                         /\ c.ns = IF Cluster(stores[c.store]) THEN stores[c.store].ns["ca"] ELSE Home
                         /\ Cluster(stores[c.store]) => HasNs(stores[c.store], "ca")
      BY <2>2 DEF Inv2, GetterOwn
    <3>6. ~Cluster(s) => x.ns = Home BY <1>5 DEF Placed
    <3>7. TakenFrom(prov, "ca") = "ca" BY DEF TakenFrom
    <3> HIDE DEF x, y, s, h, c
    <3>8. h["ca"] = c /\ (f # "ca" => h[f] = x.held[f]) BY <3>2, <3>3 DEF c
    <3>9. c # Nothing => /\ c.store = x.store /\ c.from = "ca" /\ c.ns = InReferent(s, x.ns, "ca")
                         /\ Cluster(s) => HasNs(s, "ca")
      BY <1>4, <3>4, <3>5, <3>6 DEF InReferent
    <3>10. CASE f = "ca" BY <1>7, <3>7, <3>8, <3>9, <3>10 DEF Own
    <3>11. CASE f # "ca" BY <1>7, <1>11, <3>8, <3>11 DEF Own
    <3> QED BY <3>10, <3>11
  <2>3. CASE prov \notin Singletons /\ prov # "yandex"
    <3>1. h = x.held BY <2>3 DEF Effective
    <3> HIDE DEF x, y, s, h
    <3> QED BY <1>7, <1>11, <3>1 DEF Own
  <2> QED BY <2>1, <2>2, <2>3
<1> HIDE DEF y, h, r
<1>13. Owning(prov, stores[y.store], y, receiver, getter) BY <1>4, <1>7, <1>12 DEF Owning
<1> QED BY <1>2, <1>3, <1>13, Updated3

(* At the start nobody holds anything.                                     *)
LEMMA InitOwns == Init => Inv2
<1> SUFFICES ASSUME Init PROVE Inv2 OBVIOUS
<1>1. worker = [w \in Workers |-> Idle] /\ receiver = NoCreds /\ getter = NoCreds BY DEF Init
<1>2. getter["ca"] = Nothing BY <1>1 DEF NoCreds, Fields
<1>3. GetterOwn BY <1>2 DEF GetterOwn
<1>4. Idle.pc = "idle" BY DEF Idle
<1>5. \A w \in Workers : worker[w].pc = "idle" BY <1>1, <1>4
<1>6. ASSUME NEW w \in Workers
      PROVE  Owning(prov, stores[worker[w].store], worker[w], receiver, getter)
  BY <1>5 DEF Owning
<1> QED BY <1>3, <1>6 DEF Inv2

(* Every reconcile holds credentials of its own store, or is about to      *)
(* replace them, whatever other clients are made meanwhile.                *)
THEOREM Ownership == Spec => []Inv2
<1>1. Inv /\ Inv2 /\ [Next]_vars => Inv2'
  <2> SUFFICES ASSUME Inv, Inv2, [Next]_vars PROVE Inv2' OBVIOUS
  <2>1. CASE Next
    <3>1. PICK w \in Workers :
            \/ Start(w) \/ Read(w) \/ TakeFrom(w) \/ CheckValue(w) \/ CallOk(w) \/ CallFails(w)
            \/ Refuse(w) \/ Placeholder(w) \/ Share(w) \/ GetOrCreateSecretGetter(w)
            \/ Made(w) \/ Finish(w)
      BY <2>1 DEF Next
    <3>2. CASE Start(w) BY <3>2, StartOwns
    <3>3. CASE Read(w) BY <3>3, ReadOwns
    <3>4. CASE TakeFrom(w) BY <3>4, TakeOwns
    <3>5. CASE CheckValue(w) \/ CallOk(w) \/ CallFails(w) BY <3>5, CallsOwn
    <3>6. CASE Refuse(w) BY <3>6, RefuseOwns
    <3>7. CASE Placeholder(w) BY <3>7, PlaceholderOwns
    <3>8. CASE Share(w) BY <3>8, ShareOwns
    <3>9. CASE GetOrCreateSecretGetter(w) BY <3>9, GetterOwns
    <3>10. CASE Made(w) BY <3>10, MadeOwns
    <3>11. CASE Finish(w) BY <3>11, FinishOwns
    <3> QED BY <3>1, <3>2, <3>3, <3>4, <3>5, <3>6, <3>7, <3>8, <3>9, <3>10, <3>11
  <2>2. CASE UNCHANGED vars BY <2>2 DEF vars, Inv2, GetterOwn
  <2> QED BY <2>1, <2>2
<1> QED BY <1>1, InitOwns, Invariance, PTL DEF Spec

(* The client a reconcile ends up with works with the credentials its own  *)
(* store refers to, read where the store says, unless the client of another*)
(* store took its place in a provider that keeps one for all.              *)
THEOREM CredentialsAreOwn == Spec => []OwnCredentials
<1>1. Inv2 => OwnCredentials
  <2> SUFFICES ASSUME Inv2, NEW w \in Workers, Succeeded(w), ~worker[w].rebound, NEW f \in Fields,
                      worker[w].held[f] # Nothing
               PROVE  LET c == worker[w].held[f]
                      IN  /\ c.store = worker[w].store
                          /\ c.from = TakenFrom(prov, f)
                          /\ c.ns = Designated(w, c.from) \/ (f = "ca" /\ prov \in AnyNamespaceCA)
    BY DEF OwnCredentials, UsesOwn
  <2>1. Owning(prov, Mine(w), worker[w], receiver, getter) BY DEF Inv2, Mine
  <2>2. Own(prov, Mine(w), worker[w], f) BY <2>1 DEF Owning, Succeeded
  <2> QED BY <2>2 DEF Own, Designated
<1> QED BY <1>1, Ownership, PTL

-----------------------------------------------------------------------------
(* Whether the credentials a Ready store needs have a value: a third       *)
(* layer.                                                                  *)

\* A step that leaves a field with any value, even an empty one; one that
\* only goes on, if it does, with a value there; one that goes on unless
\* the value is empty.
Stops == {"specerror", "panic", "placeholder"}
Opens(st, f) ==
  st.field = f /\ (st.do = "take" \/ (st.do = "read" /\ st.kind # "Token" /\ st.need # "try"))
Vouches(st, f) ==
  \/ st.field = f /\ (st.do = "check" \/ (st.do = "read" /\ st.kind = "Token" /\ st.need # "try"))
  \/ st.do \in Stops
Settles(st, f) == Vouches(st, f) \/ st.do = "login"

\* Whoever carries out q while field f has value v ends with a value there.
Secured(q, v, f) ==
  /\ \A i \in 1 .. Len(q) : Opens(q[i], f) => \E j \in (i + 1) .. Len(q) : Settles(q[j], f)
  /\ v = "empty" => \E j \in 1 .. Len(q) : Settles(q[j], f)
  /\ v = "" => \E j \in 1 .. Len(q) : Opens(q[j], f) \/ Vouches(q[j], f)
  /\ \A i \in 1 .. Len(q) : q[i].need = "try" => q[i].field = f

\* The Secrets and ServiceAccounts a store refers to.
Needed(p, s) == {f \in References(p, s.method) \ {"c"} : IsSet(s, f)}
AllThere(p, s, h) == \A f \in Needed(p, s) : h[f].val = "value"

\* Where a client does without them, its store leaves them to each ExternalSecret.
Excused(p, s, x) ==
  x.deferred \/ (\E i \in 1 .. Len(x.plan) : x.plan[i].do = "placeholder") => Defers(p, s, TRUE)

\* The client of a store's own reconcile: the rest of NewClient and the calls
\* of Validate together see to every credential.
Checking(p, s, x) ==
  /\ x.pc = "new" /\ ~x.deferred =>
       \A f \in Needed(p, s) : Secured(x.plan \o ValidateCalls(p, s, x.ns), x.held[f].val, f)
  /\ x.pc = "validate" => \A f \in Needed(p, s) : Secured(x.plan, x.held[f].val, f)
  /\ x.pc = "validate" /\ p \in {"kubernetes", "oracle"} =>
       \A i \in 1 .. Len(x.plan) : x.plan[i].do = "call"
  /\ x.pc = "validate" => \A i \in 1 .. Len(x.plan) : x.plan[i].do # "placeholder"

\* A client of a singleton has them before it is published, and whatever
\* client is published afterwards has them too.
Publishing(p, s, x, rec) ==
  /\ x.pc = "new" /\ x.plan # <<>> => \A f \in Needed(p, s) : Secured(x.plan, x.held[f].val, f)
  /\ x.pc \in {"validate", "use"} \/ (x.pc = "new" /\ x.plan = <<>>) => AllThere(p, s, rec)

Outcome(p, s, x) ==
  x.pc = "done" /\ x.role = "store" /\ x.result \in {"Ready", "Unknown"} =>
    (x.result = "Unknown" /\ Defers(p, s, x.deferred)) \/ AllThere(p, s, x.held)

Usable(p, s, x, rec) ==
  /\ x.pc = "use" => x.role = "secret"
  /\ x.pc = "new" => Excused(p, s, x)
  /\ p \notin Singletons /\ x.role = "store" => Checking(p, s, x)
  /\ p \in Singletons => Publishing(p, s, x, rec)
  /\ Outcome(p, s, x)

\* The two stores of a singleton refer to the same things.
Alike == prov \in Singletons => Needed(prov, stores["s1"]) = Needed(prov, stores["s2"])

Inv3 ==
  prov \notin Lazy \cup Generators =>
    /\ Alike
    /\ \A w \in Workers : Usable(prov, stores[worker[w].store], worker[w], receiver)

-----------------------------------------------------------------------------
(* What carrying out a step leaves to be seen to.                          *)
Vals == {"", "empty", "value"}

(* The rest of a sequence, by its indices.                                 *)
LEMMA Shift ==
  ASSUME NEW A, NEW q \in Seq(A), q # <<>>
  PROVE  /\ 1 \in 1 .. Len(q) /\ q[1] = Head(q) /\ Len(q) \in Nat /\ Len(Tail(q)) \in Nat
         /\ \A i \in 1 .. Len(Tail(q)) : i + 1 \in 2 .. Len(q) /\ Tail(q)[i] = q[i + 1]
         /\ \A j \in 2 .. Len(q) : j - 1 \in 1 .. Len(Tail(q)) /\ Tail(q)[j - 1] = q[j]
         /\ \A j \in 1 .. Len(q) : j = 1 \/ j \in 2 .. Len(q)
         /\ \A j \in (1 + 1) .. Len(q) : j \in 2 .. Len(q)
         /\ \A j \in 2 .. Len(q) : j \in 1 .. Len(q)
<1> DEFINE t == Tail(q)
<1>1. /\ Len(q) \in Nat /\ Len(q) > 0 /\ Len(t) = Len(q) - 1 /\ Head(q) = q[1]
      /\ \A i \in 1 .. (Len(q) - 1) : t[i] = q[i + 1]
  BY TailIndex
<1> HIDE DEF t
<1>2. \A i \in 1 .. Len(t) : i + 1 \in 2 .. Len(q) /\ t[i] = q[i + 1] BY <1>1
<1>3. ASSUME NEW j \in 2 .. Len(q) PROVE j - 1 \in 1 .. Len(t) /\ t[j - 1] = q[j]
  <2>1. j - 1 \in 1 .. (Len(q) - 1) /\ (j - 1) + 1 = j BY <1>1
  <2> QED BY <1>1, <2>1
<1>4. 1 \in 1 .. Len(q) /\ Len(t) \in Nat BY <1>1
<1>5. /\ \A j \in 1 .. Len(q) : j = 1 \/ j \in 2 .. Len(q)
      /\ \A j \in (1 + 1) .. Len(q) : j \in 2 .. Len(q)
      /\ \A j \in 2 .. Len(q) : j \in 1 .. Len(q)
  BY <1>1
<1> QED BY <1>1, <1>2, <1>3, <1>4, <1>5 DEF t

(* What is opened later is settled after it, in the rest of a plan too.    *)
LEMMA OpenedTail ==
  ASSUME NEW A, NEW q \in Seq(A), q # <<>>, NEW f,
         \A i \in 1 .. Len(q) : Opens(q[i], f) => \E j \in (i + 1) .. Len(q) : Settles(q[j], f)
  PROVE  \A i \in 1 .. Len(Tail(q)) :
            Opens(Tail(q)[i], f) => \E j \in (i + 1) .. Len(Tail(q)) : Settles(Tail(q)[j], f)
<1> DEFINE t == Tail(q)
<1>1. /\ \A i \in 1 .. Len(t) : i + 1 \in 2 .. Len(q) /\ t[i] = q[i + 1]
      /\ \A j \in 2 .. Len(q) : j - 1 \in 1 .. Len(t) /\ t[j - 1] = q[j]
  BY Shift
<1>2. Len(q) \in Nat /\ Len(t) \in Nat BY TailIndex
<1> HIDE DEF t
<1>3. ASSUME NEW i \in 1 .. Len(t), Opens(t[i], f)
      PROVE  \E j \in (i + 1) .. Len(t) : Settles(t[j], f)
  <2>1. i + 1 \in 1 .. Len(q) /\ t[i] = q[i + 1] BY <1>1, <1>2
  <2>2. PICK j \in ((i + 1) + 1) .. Len(q) : Settles(q[j], f) BY <1>3, <2>1
  <2>3. j \in 2 .. Len(q) BY <1>2, <2>2
  <2>4. j - 1 \in 1 .. Len(t) /\ t[j - 1] = q[j] BY <1>1, <2>3
  <2>5. j - 1 \in (i + 1) .. Len(t) BY <1>2, <2>2, <2>4
  <2> QED BY <2>2, <2>4, <2>5
<1> QED BY <1>3 DEF t

(* A step is carried out: what it leaves in the field is what its sort     *)
(* promises.                                                               *)
LEMMA SecuredStep ==
  ASSUME NEW A, NEW q \in Seq(A), q # <<>>, NEW f, NEW v \in Vals, NEW u \in Vals,
         Secured(q, v, f),
         Opens(Head(q), f) => u # "",
         Vouches(Head(q), f) => u = "value",
         ~Opens(Head(q), f) /\ ~Vouches(Head(q), f) => u = v,
         Head(q).do = "login" => v # "empty"
  PROVE  Secured(Tail(q), u, f)
<1> DEFINE t == Tail(q)
<1>1. /\ 1 \in 1 .. Len(q) /\ q[1] = Head(q)
      /\ \A i \in 1 .. Len(t) : i + 1 \in 2 .. Len(q) /\ t[i] = q[i + 1]
      /\ \A j \in 2 .. Len(q) : j - 1 \in 1 .. Len(t) /\ t[j - 1] = q[j]
  BY Shift
<1>2. /\ \A j \in 1 .. Len(q) : j = 1 \/ j \in 2 .. Len(q)
      /\ \A j \in (1 + 1) .. Len(q) : j \in 2 .. Len(q)
      /\ \A j \in 2 .. Len(q) : j \in 1 .. Len(q)
  BY Shift
<1>3. \A i \in 1 .. Len(t) : Opens(t[i], f) => \E j \in (i + 1) .. Len(t) : Settles(t[j], f)
  BY OpenedTail DEF Secured
<1> HIDE DEF t
<1>5. ASSUME u = "empty" PROVE \E j \in 1 .. Len(t) : Settles(t[j], f)
  <2>1. CASE Opens(Head(q), f)
    <3>1. PICK j \in (1 + 1) .. Len(q) : Settles(q[j], f) BY <1>1, <2>1 DEF Secured
    <3>2. j \in 2 .. Len(q) BY <1>2, <3>1
    <3> QED BY <1>1, <3>1, <3>2
  <2>2. CASE ~Opens(Head(q), f)
    <3>1. ~Vouches(Head(q), f) /\ v = "empty" BY <1>5, <2>2
    <3>2. PICK j \in 1 .. Len(q) : Settles(q[j], f) BY <3>1 DEF Secured
    <3>3. j # 1 BY <1>1, <3>1, <3>2 DEF Settles
    <3>4. j \in 2 .. Len(q) BY <1>2, <3>3
    <3> QED BY <1>1, <3>2, <3>4
  <2> QED BY <2>1, <2>2
<1>6. ASSUME u = "" PROVE \E j \in 1 .. Len(t) : Opens(t[j], f) \/ Vouches(t[j], f)
  <2>1. ~Opens(Head(q), f) /\ ~Vouches(Head(q), f) /\ v = "" BY <1>6
  <2>2. PICK j \in 1 .. Len(q) : Opens(q[j], f) \/ Vouches(q[j], f) BY <2>1 DEF Secured
  <2>3. j # 1 BY <1>1, <2>1, <2>2
  <2>4. j \in 2 .. Len(q) BY <1>2, <2>3
  <2> QED BY <1>1, <2>2, <2>4
<1>7. ASSUME NEW i \in 1 .. Len(t), t[i].need = "try" PROVE t[i].field = f
  <2>1. i + 1 \in 1 .. Len(q) /\ t[i] = q[i + 1] BY <1>1, <1>2
  <2> QED BY <1>7, <2>1 DEF Secured
<1>8. Secured(t, u, f) BY <1>3, <1>5, <1>6, <1>7 DEF Secured
<1> QED BY <1>8 DEF t

(* An attempt that succeeds leaves a value, whatever comes after the way   *)
(* that is skipped.                                                        *)
LEMMA SecuredSkip ==
  ASSUME NEW A, NEW q \in Seq(A), q # <<>>, Tail(q) # <<>>, NEW f, NEW v, Secured(q, v, f)
  PROVE  Secured(Tail(Tail(q)), "value", f)
<1> DEFINE t == Tail(q)
           z == Tail(t)
<1>1. t \in Seq(A) /\ t # <<>> BY TailIndex
<1>2. \A i \in 1 .. Len(t) : Opens(t[i], f) => \E j \in (i + 1) .. Len(t) : Settles(t[j], f)
  BY OpenedTail DEF Secured
<1>3. \A i \in 1 .. Len(t) : i + 1 \in 2 .. Len(q) /\ t[i] = q[i + 1] BY Shift
<1>4. Len(q) \in Nat /\ Len(t) \in Nat BY TailIndex
<1> HIDE DEF t
<1>5. \A i \in 1 .. Len(z) : Opens(z[i], f) => \E j \in (i + 1) .. Len(z) : Settles(z[j], f)
  BY <1>1, <1>2, OpenedTail
<1>6. \A i \in 1 .. Len(z) : i + 1 \in 2 .. Len(t) /\ z[i] = t[i + 1] BY <1>1, Shift
<1> HIDE DEF z
<1>7. ASSUME NEW i \in 1 .. Len(z), z[i].need = "try" PROVE z[i].field = f
  <2>1. i + 1 \in 1 .. Len(t) /\ z[i] = t[i + 1] BY <1>4, <1>6
  <2>2. (i + 1) + 1 \in 1 .. Len(q) /\ z[i] = q[(i + 1) + 1] BY <1>3, <1>4, <2>1
  <2> QED BY <1>7, <2>2 DEF Secured
<1>8. Secured(z, "value", f) BY <1>5, <1>7 DEF Secured
<1> QED BY <1>8 DEF z, t

(* Where no step is left that could see to the field, it has a value.      *)
LEMMA SecuredDone ==
  ASSUME NEW q, NEW f, NEW v \in Vals, Secured(q, v, f),
         \A i \in 1 .. Len(q) : ~Opens(q[i], f) /\ ~Settles(q[i], f)
  PROVE  v = "value"
<1>1. v # "empty" BY DEF Secured
<1>2. v # "" BY DEF Secured, Settles
<1> QED BY <1>1, <1>2 DEF Vals

-----------------------------------------------------------------------------
(* Plans, and what they see to.                                            *)

\* Some step settles the field and none opens it afterwards; some step fills
\* it or goes no further without it; no step opens it.
Shut(q, f) ==
  \E i \in 1 .. Len(q) : Settles(q[i], f) /\ \A j \in (i + 1) .. Len(q) : ~Opens(q[j], f)
Touched(q, f) == \E i \in 1 .. Len(q) : Opens(q[i], f) \/ Vouches(q[i], f)
Inert(q, f) == \A i \in 1 .. Len(q) : ~Opens(q[i], f)
Good(q, f) == Shut(q, f) /\ Touched(q, f)

\* Steps of some sorts that attempt to read only some fields.
Tidy(D, G) == {st \in StepType : st.do \in D /\ (st.need = "try" => st.field \in G)}
Plain == Dos \ {"placeholder"}

(* A plan that sees to a field does so from the start.                     *)
LEMMA GoodSecured ==
  ASSUME NEW D, NEW G, NEW q \in Seq(Tidy(D, G)), NEW f, G \subseteq {f}, Good(q, f)
  PROVE  Secured(q, "", f)
<1>0. Len(q) \in Nat OBVIOUS
<1>1. PICK k \in 1 .. Len(q) : Settles(q[k], f) /\ \A j \in (k + 1) .. Len(q) : ~Opens(q[j], f)
  BY DEF Good, Shut
<1>2. ASSUME NEW i \in 1 .. Len(q), Opens(q[i], f)
      PROVE  \E j \in (i + 1) .. Len(q) : Settles(q[j], f)
  <2>1. i # k BY <1>1, <1>2 DEF Opens, Settles, Vouches, Stops
  <2>2. ~(i \in (k + 1) .. Len(q)) BY <1>1, <1>2
  <2>3. k \in (i + 1) .. Len(q) BY <1>0, <2>1, <2>2
  <2> QED BY <1>1, <2>3
<1>3. \A i \in 1 .. Len(q) : q[i] \in Tidy(D, G) OBVIOUS
<1>4. \A i \in 1 .. Len(q) : q[i].need = "try" => q[i].field = f BY <1>3 DEF Tidy
<1> QED BY <1>2, <1>4 DEF Secured, Good, Touched

(* Plans one after the other: what the second sees to is seen to, and so is*)
(* what the first does and the second leaves alone.                        *)
LEMMA JoinGood ==
  ASSUME NEW A, NEW x \in Seq(A), NEW y \in Seq(A), NEW f
  PROVE  /\ Touched(x, f) \/ Touched(y, f) => Touched(x \o y, f)
         /\ Shut(y, f) => Shut(x \o y, f)
         /\ Shut(x, f) /\ Inert(y, f) => Shut(x \o y, f)
         /\ Inert(x, f) /\ Inert(y, f) => Inert(x \o y, f)
<1> DEFINE q == x \o y
<1>1. /\ Len(q) = Len(x) + Len(y) /\ Len(x) \in Nat /\ Len(y) \in Nat
      /\ \A i \in 1 .. Len(x) : q[i] = x[i]
      /\ \A i \in 1 .. Len(y) : q[Len(x) + i] = y[i]
  BY JoinIndex
<1> HIDE DEF q
<1>2. ASSUME NEW i \in 1 .. Len(q)
      PROVE  \/ i \in 1 .. Len(x) /\ q[i] = x[i]
             \/ i - Len(x) \in 1 .. Len(y) /\ q[i] = y[i - Len(x)]
  <2>1. CASE i <= Len(x) BY <1>1, <2>1
  <2>2. CASE ~(i <= Len(x))
    <3>1. i - Len(x) \in 1 .. Len(y) /\ Len(x) + (i - Len(x)) = i BY <1>1, <2>2
    <3> QED BY <1>1, <3>1
  <2> QED BY <2>1, <2>2
<1>3. ASSUME NEW i \in 1 .. Len(x) PROVE i \in 1 .. Len(q) /\ q[i] = x[i] BY <1>1
<1>4. ASSUME NEW i \in 1 .. Len(y) PROVE Len(x) + i \in 1 .. Len(q) /\ q[Len(x) + i] = y[i] BY <1>1
<1>5. Touched(x, f) \/ Touched(y, f) => Touched(q, f) BY <1>3, <1>4 DEF Touched
<1>6. ASSUME Shut(y, f) PROVE Shut(q, f)
  <2>1. PICK i \in 1 .. Len(y) : Settles(y[i], f) /\ \A j \in (i + 1) .. Len(y) : ~Opens(y[j], f)
    BY <1>6 DEF Shut
  <2>2. ASSUME NEW j \in ((Len(x) + i) + 1) .. Len(q) PROVE ~Opens(q[j], f)
    <3>1. j - Len(x) \in (i + 1) .. Len(y) /\ j - Len(x) \in 1 .. Len(y) /\ Len(x) + (j - Len(x)) = j
      BY <1>1
    <3>2. q[j] = y[j - Len(x)] BY <1>1, <3>1
    <3> QED BY <2>1, <3>1, <3>2
  <2>3. Len(x) + i \in 1 .. Len(q) /\ Settles(q[Len(x) + i], f) BY <1>4, <2>1
  <2> QED BY <2>2, <2>3 DEF Shut
<1>7. ASSUME Shut(x, f), Inert(y, f) PROVE Shut(q, f)
  <2>1. PICK i \in 1 .. Len(x) : Settles(x[i], f) /\ \A j \in (i + 1) .. Len(x) : ~Opens(x[j], f)
    BY <1>7 DEF Shut
  <2>2. ASSUME NEW j \in (i + 1) .. Len(q) PROVE ~Opens(q[j], f)
    <3>1. j \in 1 .. Len(q) BY <1>1
    <3>2. CASE j \in 1 .. Len(x) /\ q[j] = x[j]
      <4>1. j \in (i + 1) .. Len(x) BY <1>1, <3>2
      <4> QED BY <2>1, <3>2, <4>1
    <3>3. CASE j - Len(x) \in 1 .. Len(y) /\ q[j] = y[j - Len(x)] BY <1>7, <3>3 DEF Inert
    <3> QED BY <1>2, <3>1, <3>2, <3>3
  <2>3. i \in 1 .. Len(q) /\ Settles(q[i], f) BY <1>3, <2>1
  <2> QED BY <2>2, <2>3 DEF Shut
<1>8. Inert(x, f) /\ Inert(y, f) => Inert(q, f) BY <1>2 DEF Inert
<1> QED BY <1>5, <1>6, <1>7, <1>8 DEF q

(* A plan of one step.                                                     *)
LEMMA OneGood ==
  ASSUME NEW st, NEW f
  PROVE  LET q == <<st>>
         IN  /\ Settles(st, f) => Shut(q, f)
             /\ Vouches(st, f) => Good(q, f)
             /\ Opens(st, f) => Touched(q, f)
             /\ ~Opens(st, f) => Inert(q, f)
<1> DEFINE q == <<st>>
<1>1. Len(q) = 1 /\ q[1] = st OBVIOUS
<1> HIDE DEF q
<1>2. 1 \in 1 .. Len(q) /\ (\A i \in 1 .. Len(q) : i = 1) /\ (\A j \in (1 + 1) .. Len(q) : FALSE)
  BY <1>1
<1>3. Settles(st, f) => Shut(q, f) BY <1>1, <1>2 DEF Shut
<1>4. Vouches(st, f) \/ Opens(st, f) => Touched(q, f) BY <1>1, <1>2 DEF Touched
<1>5. ~Opens(st, f) => Inert(q, f) BY <1>1, <1>2 DEF Inert
<1>6. Vouches(st, f) => Settles(st, f) BY DEF Settles
<1> QED BY <1>3, <1>4, <1>5, <1>6 DEF q, Good

(* Steps that read and take nothing.                                       *)
LEMMA DoGood ==
  ASSUME NEW d \in Dos \ {"read", "take", "check"}, NEW D, NEW G, d \in D, NEW f
  PROVE  /\ Do(d) \in Seq(Tidy(D, G)) /\ Inert(Do(d), f)
         /\ d \in Stops => Good(Do(d), f)
         /\ d = "login" => Shut(Do(d), f)
<1> DEFINE st == [Blank EXCEPT !.do = d]
<1>1. Do(d) = <<st>> BY DEF Do
<1>2. st \in StepType /\ st.do = d /\ st.need = ""
  BY DEF Blank, StepType, Dos, Kinds, Fields, NsNames
<1> HIDE DEF st
<1>3. st \in Tidy(D, G) BY <1>2 DEF Tidy
<1>4. ~Opens(st, f) BY <1>2 DEF Opens
<1>5. (d \in Stops => Vouches(st, f)) /\ (d = "login" => Settles(st, f))
  BY <1>2 DEF Vouches, Settles
<1>6. <<st>> \in Seq(Tidy(D, G)) BY <1>3, Single
<1> QED BY <1>1, <1>4, <1>5, <1>6, OneGood

(* Checks.                                                                 *)
LEMMA CheckGood ==
  ASSUME NEW g \in Fields, NEW D, NEW G, "check" \in D, NEW f
  PROVE  Check(g) \in Seq(Tidy(D, G)) /\ Inert(Check(g), f) /\ (g = f => Good(Check(g), f))
<1> DEFINE st == [Blank EXCEPT !.do = "check", !.field = g]
<1>1. Check(g) = <<st>> BY DEF Check
<1>2. st \in StepType /\ st.do = "check" /\ st.need = "" /\ st.field = g
  BY DEF Blank, StepType, Dos, Kinds, Fields, NsNames
<1> HIDE DEF st
<1>3. st \in Tidy(D, G) BY <1>2 DEF Tidy
<1>4. ~Opens(st, f) /\ (g = f => Vouches(st, f)) BY <1>2 DEF Opens, Vouches
<1>5. <<st>> \in Seq(Tidy(D, G)) BY <1>3, Single
<1> QED BY <1>1, <1>4, <1>5, OneGood

(* Keys taken.                                                             *)
LEMMA TakeGood ==
  ASSUME NEW g \in Fields, NEW h \in Fields, NEW D, NEW G, "take" \in D, NEW f
  PROVE  /\ Take(g, h) \in Seq(Tidy(D, G))
         /\ g = f => Touched(Take(g, h), f)
         /\ g # f => Inert(Take(g, h), f)
<1> DEFINE st == [Blank EXCEPT !.do = "take", !.field = g, !.from = h]
<1>1. Take(g, h) = <<st>> BY DEF Take
<1>2. st \in StepType /\ st.do = "take" /\ st.need = "" /\ st.field = g
  BY DEF Blank, StepType, Dos, Kinds, Fields, NsNames
<1> HIDE DEF st
<1>3. st \in Tidy(D, G) BY <1>2 DEF Tidy
<1>4. (g # f => ~Opens(st, f)) /\ (g = f => Opens(st, f)) BY <1>2 DEF Opens
<1>5. <<st>> \in Seq(Tidy(D, G)) BY <1>3, Single
<1> QED BY <1>1, <1>4, <1>5, OneGood

(* Look-ups: a token that is issued is a value.                            *)
LEMMA ReadGood ==
  ASSUME NEW kind \in Kinds, NEW g \in Fields, NEW ns \in NsNames,
         NEW need \in {"present", "lax", "try"}, NEW D, NEW G, "read" \in D,
         need = "try" => g \in G, NEW f
  PROVE  LET q == Reading(kind, g, ns, need)
         IN  /\ q \in Seq(Tidy(D, G))
             /\ g # f \/ kind = "Token" \/ need = "try" => Inert(q, f)
             /\ g = f /\ need # "try" => Touched(q, f)
             /\ g = f /\ need # "try" /\ kind = "Token" => Good(q, f)
<1> DEFINE st == [Blank EXCEPT !.do = "read", !.kind = kind, !.field = g, !.ns = ns, !.need = need]
<1>1. Reading(kind, g, ns, need) = <<st>> BY DEF Reading
<1>2. st \in StepType /\ st.do = "read" /\ st.need = need /\ st.field = g /\ st.kind = kind
  BY DEF Blank, StepType, Dos, Kinds, Fields, NsNames
<1> HIDE DEF st
<1>3. st \in Tidy(D, G) BY <1>2 DEF Tidy
<1>4. /\ g # f \/ kind = "Token" \/ need = "try" => ~Opens(st, f)
      /\ g = f /\ need # "try" /\ kind # "Token" => Opens(st, f)
      /\ g = f /\ need # "try" /\ kind = "Token" => Vouches(st, f)
  BY <1>2 DEF Opens, Vouches
<1>5. <<st>> \in Seq(Tidy(D, G)) BY <1>3, Single
<1> QED BY <1>1, <1>4, <1>5, OneGood DEF Good

(* A Secret of a store that must name a namespace.                         *)
LEMMA StrictlyGood ==
  ASSUME NEW p, NEW s, NEW n, Context(p, s, n), NEW g \in Fields, NEW need \in {"present", "lax"},
         NEW D, NEW G, {"read", "specerror"} \subseteq D, NEW f
  PROVE  LET q == Strictly(s, n, g, need)
         IN  q \in Seq(Tidy(D, G)) /\ (g = f => Touched(q, f)) /\ (g # f => Inert(q, f))
<1>1. CASE Cluster(s) /\ ~HasNs(s, g)
  <2>1. Strictly(s, n, g, need) = Do("specerror") BY <1>1 DEF Strictly, SpecError
  <2>2. "specerror" \in Dos \ {"read", "take", "check"} /\ "specerror" \in D /\ "specerror" \in Stops
    BY DEF Dos, Stops
  <2>3. /\ Do("specerror") \in Seq(Tidy(D, G)) /\ Inert(Do("specerror"), f)
        /\ Good(Do("specerror"), f)
    BY <2>2, DoGood
  <2> QED BY <2>1, <2>3 DEF Good
<1>2. CASE ~(Cluster(s) /\ ~HasNs(s, g))
  <2> DEFINE ns == IF Cluster(s) THEN s.ns[g] ELSE n
  <2>1. Strictly(s, n, g, need) = Reading("Secret", g, ns, need) BY <1>2 DEF Strictly
  <2>2. ns \in NsNames BY <1>2 DEF Context, WellFormed, HasNs, NsNames, Namespaces
  <2> HIDE DEF ns
  <2>3. "Secret" \in Kinds /\ "read" \in D BY DEF Kinds
  <2>4. need \in {"present", "lax", "try"} /\ need # "try" OBVIOUS
  <2>5. LET q == Reading("Secret", g, ns, need)
        IN  q \in Seq(Tidy(D, G)) /\ (g = f => Touched(q, f)) /\ (g # f => Inert(q, f))
    BY <2>2, <2>3, <2>4, ReadGood
  <2> QED BY <2>1, <2>5
<1> QED BY <1>1, <1>2

(* Plans of tidy steps.                                                    *)
LEMMA JoinTidy ==
  ASSUME NEW D, NEW G
  PROVE  /\ <<>> \in Seq(Tidy(D, G))
         /\ \A x, y \in Seq(Tidy(D, G)) : x \o y \in Seq(Tidy(D, G))
<1> DEFINE A == Tidy(D, G)
<1> HIDE DEF A
<1>1. <<>> \in Seq(A) BY NoSteps
<1>2. \A x, y \in Seq(A) : x \o y \in Seq(A) BY JoinIndex
<1> QED BY <1>1, <1>2 DEF A

(* The namespace of a reference.                                           *)
LEMMA ReferentTyped ==
  ASSUME NEW p, NEW s, NEW n, Context(p, s, n), NEW f \in Fields
  PROVE  InReferent(s, n, f) \in NsNames
BY DEF InReferent, Context, WellFormed, HasNs, NsNames, Namespaces

(* What the plans of a store are made of.                                  *)
LEMMA Pieces ==
  ASSUME NEW p, NEW s, NEW n, Context(p, s, n), NEW D, Plain \subseteq D, NEW G
  PROVE  LET Q == Seq(Tidy(D, G))
         IN  /\ \A d \in Plain \ {"read", "take", "check"} : Do(d) \in Q
             /\ \A g \in Fields : Check(g) \in Q
             /\ \A g, h \in Fields : Take(g, h) \in Q
             /\ \A kind \in Kinds, g \in Fields, ns \in NsNames, need \in {"present", "lax"} :
                  Reading(kind, g, ns, need) \in Q
             /\ \A g \in Fields, need \in {"present", "lax"} : Strictly(s, n, g, need) \in Q
             /\ <<>> \in Q /\ \A x, y \in Q : x \o y \in Q
<1>1. {"read", "take", "check", "specerror"} \subseteq D BY DEF Plain, Dos
<1>2. \A d \in Plain \ {"read", "take", "check"} : d \in Dos \ {"read", "take", "check"} /\ d \in D
  BY DEF Plain
<1>3. \A d \in Plain \ {"read", "take", "check"} : Do(d) \in Seq(Tidy(D, G)) BY <1>2, DoGood
<1>4. \A g \in Fields : Check(g) \in Seq(Tidy(D, G)) BY <1>1, CheckGood
<1>5. \A g, h \in Fields : Take(g, h) \in Seq(Tidy(D, G)) BY <1>1, TakeGood
<1>6. ASSUME NEW kind \in Kinds, NEW g \in Fields, NEW ns \in NsNames, NEW need \in {"present", "lax"}
      PROVE  Reading(kind, g, ns, need) \in Seq(Tidy(D, G))
  <2>1. need \in {"present", "lax", "try"} /\ need # "try" /\ "read" \in D BY <1>1
  <2> QED BY <2>1, ReadGood
<1>7. \A g \in Fields, need \in {"present", "lax"} : Strictly(s, n, g, need) \in Seq(Tidy(D, G))
  BY <1>1, StrictlyGood
<1>8. <<>> \in Seq(Tidy(D, G)) /\ \A x, y \in Seq(Tidy(D, G)) : x \o y \in Seq(Tidy(D, G))
  BY JoinTidy
<1> QED BY <1>3, <1>4, <1>5, <1>6, <1>7, <1>8

(* How what a plan sees to comes of what its parts see to.                 *)
LEMMA Combine ==
  ASSUME NEW A, NEW f
  PROVE  /\ \A x, y \in Seq(A) : Good(y, f) => Good(x \o y, f)
         /\ \A x, y \in Seq(A) : Good(x, f) /\ Inert(y, f) => Good(x \o y, f)
         /\ \A x, y \in Seq(A) : Touched(x, f) /\ Shut(y, f) => Good(x \o y, f)
         /\ \A x, y \in Seq(A) : Touched(x, f) \/ Touched(y, f) => Touched(x \o y, f)
         /\ \A x, y \in Seq(A) : Shut(y, f) => Shut(x \o y, f)
         /\ \A x, y \in Seq(A) : Inert(x, f) /\ Inert(y, f) => Inert(x \o y, f)
         /\ Inert(<<>>, f)
<1>1. ASSUME NEW x \in Seq(A), NEW y \in Seq(A)
      PROVE  /\ Touched(x, f) \/ Touched(y, f) => Touched(x \o y, f)
             /\ Shut(y, f) => Shut(x \o y, f)
             /\ Shut(x, f) /\ Inert(y, f) => Shut(x \o y, f)
             /\ Inert(x, f) /\ Inert(y, f) => Inert(x \o y, f)
  BY JoinGood
<1>2. Inert(<<>>, f) BY DEF Inert
<1> QED BY <1>1, <1>2 DEF Good

(* What each sort of step sees to.                                         *)
LEMMA Sight ==
  ASSUME NEW p, NEW s, NEW n, Context(p, s, n), NEW f
  PROVE  /\ \A d \in Dos \ {"read", "take", "check"} :
              Inert(Do(d), f) /\ (d \in Stops => Good(Do(d), f)) /\ (d = "login" => Shut(Do(d), f))
         /\ \A g \in Fields : Inert(Check(g), f) /\ (g = f => Good(Check(g), f))
         /\ \A g, h \in Fields : (g = f => Touched(Take(g, h), f)) /\ (g # f => Inert(Take(g, h), f))
         /\ \A kind \in Kinds, g \in Fields, ns \in NsNames, need \in {"present", "lax"} :
              /\ g # f \/ kind = "Token" => Inert(Reading(kind, g, ns, need), f)
              /\ g = f => Touched(Reading(kind, g, ns, need), f)
              /\ g = f /\ kind = "Token" => Good(Reading(kind, g, ns, need), f)
         /\ \A g \in Fields, need \in {"present", "lax"} :
              /\ g = f => Touched(Strictly(s, n, g, need), f)
              /\ g # f => Inert(Strictly(s, n, g, need), f)
<1>1. {"read", "take", "check", "specerror"} \subseteq Dos BY DEF Dos
<1>2. \A d \in Dos \ {"read", "take", "check"} :
        Inert(Do(d), f) /\ (d \in Stops => Good(Do(d), f)) /\ (d = "login" => Shut(Do(d), f))
  BY DoGood
<1>3. \A g \in Fields : Inert(Check(g), f) /\ (g = f => Good(Check(g), f)) BY <1>1, CheckGood
<1>4. \A g, h \in Fields : (g = f => Touched(Take(g, h), f)) /\ (g # f => Inert(Take(g, h), f))
  BY <1>1, TakeGood
<1>5. ASSUME NEW kind \in Kinds, NEW g \in Fields, NEW ns \in NsNames, NEW need \in {"present", "lax"}
      PROVE  /\ g # f \/ kind = "Token" => Inert(Reading(kind, g, ns, need), f)
             /\ g = f => Touched(Reading(kind, g, ns, need), f)
             /\ g = f /\ kind = "Token" => Good(Reading(kind, g, ns, need), f)
  <2>1. need \in {"present", "lax", "try"} /\ need # "try" /\ "read" \in Dos BY <1>1
  <2> QED BY <2>1, ReadGood
<1>6. ASSUME NEW g \in Fields, NEW need \in {"present", "lax"}
      PROVE  /\ g = f => Touched(Strictly(s, n, g, need), f)
             /\ g # f => Inert(Strictly(s, n, g, need), f)
  <2>1. {"read", "specerror"} \subseteq Dos BY <1>1
  <2>2. LET q == Strictly(s, n, g, need)
        IN  q \in Seq(Tidy(Dos, {})) /\ (g = f => Touched(q, f)) /\ (g # f => Inert(q, f))
    BY <2>1, StrictlyGood
  <2> QED BY <2>2
<1> QED BY <1>2, <1>3, <1>4, <1>5, <1>6

\* The sorts of steps the plan of a client has, and what it attempts to read.
Sorts(p, s) == IF Defers(p, s, TRUE) THEN Dos ELSE Plain
Tries(p, s) == IF p = "vault" /\ s.method = "kubesa" THEN {"sa"} ELSE {}
Tidied(p, s) == Seq(Tidy(Sorts(p, s), Tries(p, s)))

(* The sorts of steps that every plan may have.                            *)
LEMMA SortsOf == ASSUME NEW p, NEW s PROVE Plain \subseteq Sorts(p, s)
BY DEF Sorts, Plain

(* AWS: the calls of Validate settle what the session was made with.       *)
LEMMA AWSGood ==
  ASSUME NEW s, NEW n, Context("aws", s, n)
  PROVE  LET q == AWSNewClient(s, n)
         IN  q \in Tidied("aws", s) /\ \A f \in Needed("aws", s) : Touched(q, f)
<1> DEFINE Q == Tidied("aws", s)
           get(g) == Reading("Secret", g, InReferent(s, n, g), "lax")
           jwt == Reading("ServiceAccount", "sa", InReferent(s, n, "sa"), "present")
<1>1. /\ {"a", "b", "c", "sa"} \subseteq Fields /\ {"Secret", "ServiceAccount"} \subseteq Kinds
      /\ {"call", "panic"} \subseteq Plain \ {"read", "take", "check"}
  BY DEF Fields, Kinds, Plain, Dos
<1>2. Do("call") \in Q /\ Do("panic") \in Q /\ Check("a") \in Q /\ Check("b") \in Q /\ Check("sa") \in Q
  BY <1>1, SortsOf, Pieces DEF Tidied
<1>3. get("a") \in Q /\ get("b") \in Q /\ get("c") \in Q /\ jwt \in Q
  BY <1>1, SortsOf, Pieces, ReferentTyped DEF Tidied
<1>4. Do("placeholder") \in Q
  <2>1. Sorts("aws", s) = Dos /\ "placeholder" \in Dos \ {"read", "take", "check"}
    BY DEF Sorts, Defers, Dos
  <2> QED BY <2>1, DoGood DEF Tidied
<1>5. <<>> \in Q /\ \A x, y \in Q : x \o y \in Q BY SortsOf, Pieces DEF Tidied
<1> DEFINE third == IF IsSet(s, "c") THEN get("c") ELSE <<>>
           keys == get("a") \o get("b") \o Check("b") \o Check("a") \o third
           role == IF IsSet(s, "sa") THEN jwt \o Check("sa") ELSE Do("panic")
           x == IF UsesJWT(s) THEN role ELSE <<>>
           y == IF UsesStatic(s) THEN keys ELSE <<>>
<1>6. AWSNewClient(s, n) = Do("placeholder") \/ AWSNewClient(s, n) = x \o y \o Do("call")
  BY DEF AWSNewClient, AWSNewSession, credsFromSecretRef, credsFromServiceAccount
<1>7. third \in Q BY <1>3, <1>5
<1> HIDE DEF Q, get, jwt, third
<1>8. keys \in Q /\ role \in Q BY <1>2, <1>3, <1>5, <1>7
<1> HIDE DEF keys, role
<1>9. x \in Q /\ y \in Q BY <1>5, <1>8
<1>10. x \o y \in Q /\ x \o y \o Do("call") \in Q
  <2> HIDE DEF x, y
  <2> QED BY <1>2, <1>5, <1>9
<1>11. ASSUME NEW f \in Needed("aws", s) PROVE Touched(AWSNewClient(s, n), f)
  <2>1. \/ f \in {"a", "b"} /\ UsesStatic(s)
        \/ f = "sa" /\ UsesJWT(s) /\ IsSet(s, "sa")
    <3>1. s.method \in {"static", "jwt", "both", "env"} BY DEF Context, WellFormed, Methods
    <3> QED BY <3>1 DEF Needed, References, UsesStatic, UsesJWT
  <2>2. \A u, v \in Q : Touched(u, f) \/ Touched(v, f) => Touched(u \o v, f) BY Combine DEF Q, Tidied
  <2>3. /\ f = "a" => Touched(Check("a"), f)
        /\ f = "b" => Touched(Check("b"), f)
        /\ f = "sa" => Touched(Check("sa"), f)
    BY <1>1, Sight DEF Good
  <2>4. Touched(Do("placeholder"), f) BY Sight DEF Good, Dos, Stops
  <2>5. f \in {"a", "b"} => Touched(keys, f) BY <1>2, <1>3, <1>5, <1>7, <2>2, <2>3 DEF keys
  <2>6. f = "sa" /\ IsSet(s, "sa") => Touched(role, f) BY <1>2, <1>3, <2>2, <2>3 DEF role
  <2>7. Touched(x, f) \/ Touched(y, f) BY <2>1, <2>5, <2>6
  <2> HIDE DEF x, y
  <2>8. Touched(x \o y \o Do("call"), f) BY <1>2, <1>9, <1>10, <2>2, <2>7
  <2> QED BY <1>6, <2>4, <2>8
<1>12. AWSNewClient(s, n) \in Q
  <2> HIDE DEF x, y
  <2> QED BY <1>4, <1>6, <1>10
<1> QED BY <1>11, <1>12 DEF Q

(* Azure Key Vault: a login, or a refusal, is what comes last.             *)
LEMMA AzureGood ==
  ASSUME NEW s, NEW n, Context("azure", s, n)
  PROVE  LET q == AzureNewClient(s, n)
         IN  q \in Tidied("azure", s) /\ \A f \in Needed("azure", s) : Good(q, f)
<1> DEFINE Q == Tidied("azure", s)
           key(g) == Reading("Secret", g, InReferent(s, n, g), "present")
           acc == Reading("ServiceAccount", "sa", InReferent(s, n, "sa"), "present")
           tok == Reading("Token", "sa", InReferent(s, n, "sa"), "present")
           q == AzureNewClient(s, n)
<1>1. /\ {"a", "b", "sa"} \subseteq Fields /\ {"Secret", "ServiceAccount", "Token"} \subseteq Kinds
      /\ {"call", "panic", "login", "specerror"} \subseteq Plain \ {"read", "take", "check"}
  BY DEF Fields, Kinds, Plain, Dos
<1>2. Do("call") \in Q /\ Do("panic") \in Q /\ Do("login") \in Q /\ Do("specerror") \in Q
  BY <1>1, SortsOf, Pieces DEF Tidied
<1>3. key("a") \in Q /\ key("b") \in Q /\ acc \in Q /\ tok \in Q
  BY <1>1, SortsOf, Pieces, ReferentTyped DEF Tidied
<1>4. \A x, y \in Q : x \o y \in Q BY SortsOf, Pieces DEF Tidied
<1>5. s.method \in {"mi", "sp", "wi", "none"} BY DEF Context, WellFormed, Methods
<1>6. ASSUME NEW f \in Needed("azure", s)
      PROVE  /\ \A x, y \in Q : Touched(x, f) \/ Touched(y, f) => Touched(x \o y, f)
             /\ \A x, y \in Q : Touched(x, f) /\ Shut(y, f) => Good(x \o y, f)
             /\ Shut(Do("login"), f) /\ Good(Do("specerror"), f) /\ Good(Do("placeholder"), f)
             /\ f = "a" => Touched(key("a"), f)
             /\ f = "b" => Touched(key("b"), f)
             /\ f = "sa" => Touched(tok, f)
  <2>1. /\ \A x, y \in Q : Touched(x, f) \/ Touched(y, f) => Touched(x \o y, f)
        /\ \A x, y \in Q : Touched(x, f) /\ Shut(y, f) => Good(x \o y, f)
    BY Combine DEF Tidied
  <2>2. Shut(Do("login"), f) /\ Good(Do("specerror"), f) /\ Good(Do("placeholder"), f)
    BY Sight DEF Dos, Stops
  <2>3. /\ f = "a" => Touched(key("a"), f)
        /\ f = "b" => Touched(key("b"), f)
        /\ f = "sa" => Touched(tok, f)
    BY <1>1, Sight, ReferentTyped
  <2> QED BY <2>1, <2>2, <2>3
<1>7. ASSUME NEW f \in Needed("azure", s)
      PROVE  \/ f \in {"a", "b"} /\ s.method = "sp"
             \/ f = "sa" /\ s.method = "wi" /\ IsSet(s, "sa")
  BY <1>5, <1>7 DEF Needed, References
<1>8. CASE Cluster(s) /\ n = "" /\ AzureIsReferentSpec(s)
  <2>1. q = Do("placeholder") BY <1>8 DEF AzureNewClient
  <2>2. Sorts("azure", s) = Dos /\ "placeholder" \in Dos \ {"read", "take", "check"}
    BY <1>8 DEF Sorts, Defers, AzureValidate, Dos
  <2>3. q \in Q BY <2>1, <2>2, DoGood DEF Tidied
  <2> QED BY <1>6, <2>1, <2>3
<1>9. CASE ~(Cluster(s) /\ n = "" /\ AzureIsReferentSpec(s)) /\ s.method = "sp"
  <2> DEFINE x == key("a") \o key("b")
  <2>1. q = Do("specerror") \/ q = x \o Do("login")
    BY <1>9 DEF AzureNewClient, authorizerForServicePrincipal, AzureSecretKeyRef, SpecError
  <2> HIDE DEF Q, key, q
  <2>2. x \in Q BY <1>3, <1>4
  <2>3. \A f \in Needed("azure", s) : Touched(x, f) BY <1>3, <1>6, <1>7, <1>9
  <2> HIDE DEF x
  <2>4. q \in Q BY <1>2, <1>4, <2>1, <2>2
  <2>5. \A f \in Needed("azure", s) : Good(q, f) BY <1>2, <1>6, <2>1, <2>2, <2>3
  <2> QED BY <2>4, <2>5 DEF q, Q
<1>10. CASE ~(Cluster(s) /\ n = "" /\ AzureIsReferentSpec(s)) /\ s.method = "wi"
  <2> DEFINE x == IF IsSet(s, "sa") THEN acc \o tok ELSE Do("call")
  <2>1. q = x \o Do("login")
    BY <1>10 DEF AzureNewClient, authorizerForWorkloadIdentity, FetchSAToken
  <2> HIDE DEF Q, acc, tok, q
  <2>2. x \in Q BY <1>2, <1>3, <1>4
  <2>3. \A f \in Needed("azure", s) : Touched(x, f) BY <1>3, <1>6, <1>7, <1>10
  <2> HIDE DEF x
  <2>4. q \in Q BY <1>2, <1>4, <2>1, <2>2
  <2>5. \A f \in Needed("azure", s) : Good(q, f) BY <1>2, <1>6, <2>1, <2>2, <2>3
  <2> QED BY <2>4, <2>5 DEF q, Q
<1>11. CASE ~(Cluster(s) /\ n = "" /\ AzureIsReferentSpec(s)) /\ s.method \in {"mi", "none"}
  <2>1. q = Do("call") \/ q = Do("panic") BY <1>11 DEF AzureNewClient
  <2>2. \A f \in Needed("azure", s) : FALSE BY <1>7, <1>11
  <2> QED BY <1>2, <2>1, <2>2
<1> QED BY <1>5, <1>8, <1>9, <1>10, <1>11

(* GCP Secret Manager: so it is here.                                      *)
LEMMA GCPGood ==
  ASSUME NEW s, NEW n, Context("gcp", s, n)
  PROVE  LET q == GCPNewClient(s, n)
         IN  q \in Tidied("gcp", s) /\ \A f \in Needed("gcp", s) : Good(q, f)
<1> DEFINE Q == Tidied("gcp", s)
           key == Reading("Secret", "a", InReferent(s, n, "a"), "lax")
           acc == Reading("ServiceAccount", "sa", InReferent(s, n, "sa"), "lax")
           tok == Reading("Token", "sa", InReferent(s, n, "sa"), "present")
           q == GCPNewClient(s, n)
<1>1. /\ {"a", "sa"} \subseteq Fields /\ {"Secret", "ServiceAccount", "Token"} \subseteq Kinds
      /\ {"call", "login", "specerror"} \subseteq Plain \ {"read", "take", "check"}
  BY DEF Fields, Kinds, Plain, Dos
<1>2. Do("call") \in Q /\ Do("login") \in Q /\ Do("specerror") \in Q /\ Check("a") \in Q
  BY <1>1, SortsOf, Pieces DEF Tidied
<1>3. key \in Q /\ acc \in Q /\ tok \in Q
  BY <1>1, SortsOf, Pieces, ReferentTyped DEF Tidied
<1>4. \A x, y \in Q : x \o y \in Q BY SortsOf, Pieces DEF Tidied
<1>5. s.method \in {"key", "wi", "default"} BY DEF Context, WellFormed, Methods
<1>6. ASSUME NEW f \in Needed("gcp", s)
      PROVE  /\ \A x, y \in Q : Touched(x, f) \/ Touched(y, f) => Touched(x \o y, f)
             /\ \A x, y \in Q : Touched(x, f) /\ Shut(y, f) => Good(x \o y, f)
             /\ Shut(Do("login"), f) /\ Good(Do("specerror"), f) /\ Good(Do("placeholder"), f)
             /\ f = "a" => Touched(key, f)
             /\ f = "sa" => Touched(tok, f)
  <2>1. /\ \A x, y \in Q : Touched(x, f) \/ Touched(y, f) => Touched(x \o y, f)
        /\ \A x, y \in Q : Touched(x, f) /\ Shut(y, f) => Good(x \o y, f)
    BY Combine DEF Tidied
  <2>2. Shut(Do("login"), f) /\ Good(Do("specerror"), f) /\ Good(Do("placeholder"), f)
    BY Sight DEF Dos, Stops
  <2>3. (f = "a" => Touched(key, f)) /\ (f = "sa" => Touched(tok, f))
    BY <1>1, Sight, ReferentTyped
  <2> QED BY <2>1, <2>2, <2>3
<1>7. ASSUME NEW f \in Needed("gcp", s)
      PROVE  (f = "a" /\ s.method = "key") \/ (f = "sa" /\ s.method = "wi")
  BY <1>5, <1>7 DEF Needed, References
<1>8. CASE ~s.plain
  <2>1. q = Do("specerror") BY <1>8 DEF GCPNewClient, SpecError
  <2> QED BY <1>2, <1>6, <2>1
<1>9. CASE s.plain /\ n = "" /\ Cluster(s) /\ GCPIsReferentSpec(s)
  <2>1. q = Do("placeholder") BY <1>9 DEF GCPNewClient
  <2>2. Sorts("gcp", s) = Dos /\ "placeholder" \in Dos \ {"read", "take", "check"}
    BY <1>9 DEF Sorts, Defers, GCPValidate, Dos
  <2>3. q \in Q BY <2>1, <2>2, DoGood DEF Tidied
  <2> QED BY <1>6, <2>1, <2>3
<1>10. CASE s.plain /\ ~(n = "" /\ Cluster(s) /\ GCPIsReferentSpec(s))
  <2> DEFINE byKey == key \o Check("a")
             byAcc == Do("call") \o (acc \o tok \o Do("login"))
  <2>1. /\ s.method = "key" => q = byKey \o Do("login")
        /\ s.method = "wi" => q = byAcc \o Do("login")
        /\ s.method = "default" => q = Do("call") \o Do("login")
    BY <1>10 DEF GCPNewClient, NewTokenSource, serviceAccountTokenSource, GCPTokenSource, FetchSAToken
  <2> HIDE DEF Q, key, acc, tok, q
  <2>2. byKey \in Q BY <1>2, <1>3, <1>4
  <2>3. acc \o tok \in Q BY <1>3, <1>4
  <2>4. acc \o tok \o Do("login") \in Q BY <1>2, <1>4, <2>3
  <2>5. byAcc \in Q BY <1>2, <1>4, <2>4
  <2>6. \A f \in Needed("gcp", s) : f = "a" => Touched(byKey, f) BY <1>2, <1>3, <1>6
  <2>7. \A f \in Needed("gcp", s) : f = "sa" => Touched(acc \o tok, f) BY <1>3, <1>6
  <2>8. \A f \in Needed("gcp", s) : f = "sa" => Touched(acc \o tok \o Do("login"), f)
    BY <1>2, <1>6, <2>3, <2>7
  <2>9. \A f \in Needed("gcp", s) : f = "sa" => Touched(byAcc, f) BY <1>2, <1>6, <2>4, <2>8
  <2> HIDE DEF byKey, byAcc
  <2>10. q \in Q BY <1>2, <1>4, <1>5, <2>1, <2>2, <2>5
  <2>11. \A f \in Needed("gcp", s) : Good(q, f)
    BY <1>2, <1>6, <1>7, <2>1, <2>2, <2>5, <2>6, <2>9
  <2> QED BY <2>10, <2>11 DEF q, Q
<1> QED BY <1>8, <1>9, <1>10

(* Kubernetes: every value is checked where it is fetched.                 *)
LEMMA KubernetesGood ==
  ASSUME NEW s, NEW n, Context("kubernetes", s, n)
  PROVE  LET q == KubernetesNewClient(s, n)
         IN  q \in Tidied("kubernetes", s) /\ \A f \in Needed("kubernetes", s) : Good(q, f)
<1> DEFINE Q == Tidied("kubernetes", s)
           key(g) == Strictly(s, n, g, "present") \o Check(g)
           tok == Reading("Token", "sa", InReferent(s, n, "sa"), "present")
           ca == setCA(s, n)
           pair == key("a") \o key("b")
           q == KubernetesNewClient(s, n)
<1>1. /\ {"a", "b", "sa", "ca"} \subseteq Fields /\ {"Secret", "ConfigMap", "Token"} \subseteq Kinds
      /\ "specerror" \in Plain \ {"read", "take", "check"}
  BY DEF Fields, Kinds, Plain, Dos
<1>2. /\ Do("specerror") \in Q /\ \A g \in {"a", "b", "ca"} : Check(g) \in Q
      /\ \A g \in {"a", "b", "ca"} : Strictly(s, n, g, "present") \in Q
  BY <1>1, SortsOf, Pieces DEF Tidied
<1>3. tok \in Q BY <1>1, SortsOf, Pieces, ReferentTyped DEF Tidied
<1>4. <<>> \in Q /\ \A x, y \in Q : x \o y \in Q BY SortsOf, Pieces DEF Tidied
<1>5. s.method \in {"token", "sa", "cert", "none"} /\ s.ca \in {"none", "bundle", "Secret", "ConfigMap"}
  BY DEF Context, WellFormed, Methods, CAKinds
<1>6. \A g \in {"a", "b", "ca"} : key(g) \in Q
  <2> HIDE DEF Q
  <2> QED BY <1>2, <1>4
<1>7. ca \in Q
  <2> DEFINE ns == IF Cluster(s) THEN s.ns["ca"] ELSE n
             map == Reading("ConfigMap", "ca", ns, "present")
  <2>1. ~(Cluster(s) /\ ~HasNs(s, "ca")) => ns \in NsNames
    BY DEF Context, WellFormed, HasNs, NsNames, Namespaces, Fields
  <2>2. ~(Cluster(s) /\ ~HasNs(s, "ca")) => map \in Q
    BY <1>1, <2>1, SortsOf, Pieces DEF Tidied
  <2>3. ca \in {Do("specerror"), <<>>, key("ca")}
        \/ (~(Cluster(s) /\ ~HasNs(s, "ca")) /\ ca = map \o Check("ca"))
    BY <1>5 DEF setCA, fetchConfigMapKey, fetchSecretKey, SpecError
  <2> HIDE DEF Q, ca, map, key
  <2> QED BY <1>2, <1>4, <1>6, <2>2, <2>3
<1>8. ASSUME NEW f \in Needed("kubernetes", s)
      PROVE  /\ \A x, y \in Q : Good(y, f) => Good(x \o y, f)
             /\ \A x, y \in Q : Good(x, f) /\ Inert(y, f) => Good(x \o y, f)
             /\ \A x, y \in Q : Inert(x, f) /\ Inert(y, f) => Inert(x \o y, f)
             /\ Good(Do("placeholder"), f)
             /\ \A g \in {"a", "b"} : g = f => Good(Check(g), f)
             /\ \A g \in {"a", "b"} : g # f => Inert(Check(g), f) /\ Inert(Strictly(s, n, g, "present"), f)
             /\ f = "sa" => Good(tok, f)
  <2>1. /\ \A x, y \in Q : Good(y, f) => Good(x \o y, f)
        /\ \A x, y \in Q : Good(x, f) /\ Inert(y, f) => Good(x \o y, f)
        /\ \A x, y \in Q : Inert(x, f) /\ Inert(y, f) => Inert(x \o y, f)
    BY Combine DEF Tidied
  <2>2. Good(Do("placeholder"), f) BY Sight DEF Dos, Stops
  <2>3. /\ \A g \in {"a", "b"} : g = f => Good(Check(g), f)
        /\ \A g \in {"a", "b"} : g # f => Inert(Check(g), f) /\ Inert(Strictly(s, n, g, "present"), f)
    BY <1>1, Sight
  <2>4. f = "sa" => Good(tok, f) BY <1>1, Sight, ReferentTyped
  <2> QED BY <2>1, <2>2, <2>3, <2>4
<1>9. ASSUME NEW f \in Needed("kubernetes", s)
      PROVE  \/ f = "a" /\ s.method \in {"token", "cert"}
             \/ f = "b" /\ s.method = "cert"
             \/ f = "sa" /\ s.method = "sa"
  BY <1>5, <1>9 DEF Needed, References
<1>10. \A f \in Needed("kubernetes", s) :
         /\ \A g \in {"a", "b"} : g = f => Good(key(g), f)
         /\ \A g \in {"a", "b"} : g # f => Inert(key(g), f)
  <2> HIDE DEF Q, tok
  <2> QED BY <1>2, <1>8
<1>11. CASE Cluster(s) /\ n = "" /\ KubernetesIsReferentSpec(s)
  <2>1. q = Do("placeholder") BY <1>11 DEF KubernetesNewClient
  <2>2. Sorts("kubernetes", s) = Dos /\ "placeholder" \in Dos \ {"read", "take", "check"}
    BY <1>11 DEF Sorts, Defers, KubernetesValidate, Dos
  <2>3. q \in Q BY <2>1, <2>2, DoGood DEF Tidied
  <2> QED BY <1>8, <2>1, <2>3
<1>12. CASE ~(Cluster(s) /\ n = "" /\ KubernetesIsReferentSpec(s))
  <2>1. /\ s.method = "token" => q = ca \o key("a")
        /\ s.method = "sa" => q = ca \o tok
        /\ s.method = "cert" => q = ca \o pair
        /\ s.method = "none" => q = ca \o Do("specerror")
    BY <1>12 DEF KubernetesNewClient, KubernetesSetAuth, fetchSecretKey, setClientCert,
                 KubernetesServiceAccountToken, SpecError
  <2> HIDE DEF Q, ca, key, tok, q
  <2>2. pair \in Q BY <1>4, <1>6
  <2>3. \A f \in Needed("kubernetes", s) : f \in {"a", "b"} => Good(pair, f) BY <1>6, <1>8, <1>10
  <2> HIDE DEF pair
  <2>4. q \in Q BY <1>2, <1>3, <1>4, <1>5, <1>6, <1>7, <2>1, <2>2
  <2>5. ASSUME NEW f \in Needed("kubernetes", s) PROVE Good(q, f)
    <3>1. CASE s.method = "token" BY <1>6, <1>7, <1>8, <1>9, <1>10, <2>1, <3>1
    <3>2. CASE s.method = "sa" BY <1>3, <1>7, <1>8, <1>9, <2>1, <3>2
    <3>3. CASE s.method = "cert" BY <1>7, <1>8, <1>9, <2>1, <2>2, <2>3, <3>3
    <3> QED BY <1>9, <3>1, <3>2, <3>3
  <2> QED BY <2>4, <2>5 DEF q, Q
<1> QED BY <1>11, <1>12

(* Vault: what is used to log in is settled then, and the token of a store *)
(* that has one by the call of Validate.                                   *)
LEMMA VaultGood ==
  ASSUME NEW s, NEW n, Context("vault", s, n)
  PROVE  LET q == VaultNewClient(s, n)
         IN  q \in Tidied("vault", s) /\ \A f \in Needed("vault", s) : Touched(q, f)
<1> DEFINE Q == Tidied("vault", s)
           key(g) == Reading("Secret", g, InReferent(s, n, g), "present")
           tok == Reading("Token", "sa", InReferent(s, n, "sa"), "present")
           try == Reading("Secret", "sa", InReferent(s, n, "sa"), "try")
           log == Do("login")
           pool == VaultNewConfig(s, n)
           auth == VaultSetAuth(s, n)
           init == initClient(s, n)
<1>1. /\ {"a", "b", "sa", "ca"} \subseteq Fields /\ {"Secret", "ConfigMap", "Token"} \subseteq Kinds
      /\ {"call", "login", "specerror"} \subseteq Plain \ {"read", "take", "check"}
  BY DEF Fields, Kinds, Plain, Dos
<1>2. Do("specerror") \in Q /\ Do("call") \in Q /\ log \in Q /\ Check("ca") \in Q
  BY <1>1, SortsOf, Pieces DEF Tidied
<1>3. tok \in Q /\ \A g \in {"a", "b", "ca"} : key(g) \in Q
  BY <1>1, SortsOf, Pieces, ReferentTyped DEF Tidied
<1>4. s.method = "kubesa" => try \in Q
  <2> SUFFICES ASSUME s.method = "kubesa" PROVE try \in Q OBVIOUS
  <2>1. "read" \in Sorts("vault", s) /\ "sa" \in Tries("vault", s)
    BY SortsOf DEF Plain, Dos, Tries
  <2>2. InReferent(s, n, "sa") \in NsNames BY <1>1, ReferentTyped
  <2>3. "try" \in {"present", "lax", "try"} OBVIOUS
  <2> QED BY <1>1, <2>1, <2>2, <2>3, ReadGood DEF Tidied
<1>5. <<>> \in Q /\ \A x, y \in Q : x \o y \in Q BY SortsOf, Pieces DEF Tidied
<1>6. s.method \in VaultSecret \cup VaultAccount \cup {"kubefile", "jwtnone", "none"}
  BY DEF Context, WellFormed, Methods
<1>7. pool \in Q
  <2> DEFINE ns == IF HasNs(s, "ca") THEN s.ns["ca"] ELSE ""
             map == Reading("ConfigMap", "ca", ns, "present")
  <2>1. ns \in NsNames BY DEF Context, WellFormed, HasNs, NsNames, Namespaces, Fields
  <2>2. map \in Q BY <1>1, <2>1, SortsOf, Pieces DEF Tidied
  <2>3. pool \in {<<>>, Do("specerror"), key("ca") \o Check("ca"), map \o Check("ca")}
    BY DEF VaultNewConfig, CAPool, VaultSecretKeyRef, getCertFromConfigMap, SpecError
  <2> HIDE DEF Q, pool, map, key
  <2> QED BY <1>2, <1>3, <1>5, <2>2, <2>3
<1>8. auth \in \* the ways to log in
        (IF s.method = "token" THEN {key("a")}
         ELSE IF s.method \in {"approle", "ldap", "kubesecret", "jwt"} THEN {key("a") \o log}
         ELSE IF s.method = "kubesa" THEN {try \o tok \o log}
         ELSE IF s.method = "jwtsa" THEN {tok \o log}
         ELSE IF s.method = "cert" THEN {key("a") \o key("b") \o log}
         ELSE {Do("call") \o log, Do("specerror") \o log, Do("specerror")})
  BY <1>6 DEF VaultSetAuth, setSecretKeyToken, requestTokenWithAppRoleRef, requestTokenWithLdapAuth,
              requestTokenWithKubernetesAuth, getJwtString, requestTokenWithJwtAuth,
              requestTokenWithCertAuth, VaultSecretKeyRef, secretKeyRefForServiceAccount,
              VaultServiceAccountToken, VaultSecret, VaultAccount, SpecError
<1>9. VaultNewClient(s, n) = pool \o Do("call") \o init BY DEF VaultNewClient
<1>10. init = auth \/ (init = Do("placeholder") /\ Do("placeholder") \in Q)
  <2>1. CASE Cluster(s) /\ n = "" /\ VaultIsReferentSpec(s)
    <3>1. Sorts("vault", s) = Dos /\ "placeholder" \in Dos \ {"read", "take", "check"}
      BY <2>1 DEF Sorts, Defers, VaultValidate, Dos
    <3> QED BY <2>1, <3>1, DoGood DEF Tidied, initClient
  <2>2. CASE ~(Cluster(s) /\ n = "" /\ VaultIsReferentSpec(s)) BY <2>2 DEF initClient
  <2> QED BY <2>1, <2>2
<1>11. ASSUME NEW f \in Needed("vault", s)
      PROVE  /\ \A x, y \in Q : Touched(x, f) \/ Touched(y, f) => Touched(x \o y, f)
             /\ Touched(Do("placeholder"), f)
             /\ \A g \in {"a", "b"} : g = f => Touched(key(g), f)
             /\ f = "sa" => Touched(tok, f)
  <2>1. \A x, y \in Q : Touched(x, f) \/ Touched(y, f) => Touched(x \o y, f)
    BY Combine DEF Tidied
  <2>2. Touched(Do("placeholder"), f) BY Sight DEF Dos, Stops, Good
  <2>3. (\A g \in {"a", "b"} : g = f => Touched(key(g), f)) /\ (f = "sa" => Touched(tok, f))
    BY <1>1, Sight, ReferentTyped
  <2> QED BY <2>1, <2>2, <2>3
<1>12. ASSUME NEW f \in Needed("vault", s)
       PROVE  \/ f = "a" /\ s.method \in VaultSecret
              \/ f = "b" /\ s.method = "cert"
              \/ f = "sa" /\ s.method \in VaultAccount
  BY <1>6, <1>12 DEF Needed, References, VaultSecret, VaultAccount
<1> HIDE DEF Q, key, tok, try, log, pool, auth, init
<1>13. auth \in Q
  <2>1. key("a") \in Q /\ key("b") \in Q BY <1>3
  <2>2. key("a") \o key("b") \in Q BY <1>5, <2>1
  <2>3. key("a") \o log \in Q /\ key("a") \o key("b") \o log \in Q BY <1>2, <1>5, <2>1, <2>2
  <2>4. s.method = "kubesa" => try \o tok \in Q BY <1>3, <1>4, <1>5
  <2>5. s.method = "kubesa" => try \o tok \o log \in Q BY <1>2, <1>5, <2>4
  <2>6. tok \o log \in Q /\ Do("call") \o log \in Q /\ Do("specerror") \o log \in Q
    BY <1>2, <1>3, <1>5
  <2> QED BY <1>2, <1>8, <2>1, <2>3, <2>5, <2>6
<1>14. ASSUME NEW f \in Needed("vault", s) PROVE Touched(auth, f)
  <2>1. CASE f = "a" /\ s.method \in VaultSecret
    <3>1. key("a") \in Q /\ key("b") \in Q /\ log \in Q /\ Touched(key("a"), f)
      BY <1>2, <1>3, <1>11, <2>1
    <3>2. key("a") \o key("b") \in Q /\ Touched(key("a") \o key("b"), f) BY <1>5, <1>11, <3>1
    <3>3. /\ Touched(key("a") \o log, f)
          /\ Touched(key("a") \o key("b") \o log, f)
      BY <1>11, <3>1, <3>2
    <3>4. auth \in {key("a"), key("a") \o log, key("a") \o key("b") \o log}
      BY <1>8, <2>1 DEF VaultSecret
    <3> QED BY <3>1, <3>3, <3>4
  <2>2. CASE f = "b" /\ s.method = "cert"
    <3>1. key("a") \in Q /\ key("b") \in Q /\ log \in Q /\ Touched(key("b"), f)
      BY <1>2, <1>3, <1>11, <2>2
    <3>2. key("a") \o key("b") \in Q /\ Touched(key("a") \o key("b"), f) BY <1>5, <1>11, <3>1
    <3>3. Touched(key("a") \o key("b") \o log, f) BY <1>11, <3>1, <3>2
    <3>4. auth = key("a") \o key("b") \o log BY <1>8, <2>2
    <3> QED BY <3>3, <3>4
  <2>3. CASE f = "sa" /\ s.method = "kubesa"
    <3>1. try \in Q /\ tok \in Q /\ log \in Q /\ Touched(tok, f) BY <1>2, <1>3, <1>4, <1>11, <2>3
    <3>2. try \o tok \in Q /\ Touched(try \o tok, f) BY <1>5, <1>11, <3>1
    <3>3. auth = try \o tok \o log BY <1>8, <2>3
    <3> QED BY <1>11, <3>1, <3>2, <3>3
  <2>4. CASE f = "sa" /\ s.method = "jwtsa"
    <3>1. tok \in Q /\ log \in Q /\ Touched(tok, f) BY <1>2, <1>3, <1>11, <2>4
    <3>2. auth = tok \o log BY <1>8, <2>4
    <3> QED BY <1>11, <3>1, <3>2
  <2> QED BY <1>12, <2>1, <2>2, <2>3, <2>4 DEF VaultAccount
<1>15. init \in Q /\ \A f \in Needed("vault", s) : Touched(init, f) BY <1>10, <1>11, <1>13, <1>14
<1>16. pool \o Do("call") \in Q BY <1>2, <1>5, <1>7
<1>17. VaultNewClient(s, n) \in Q BY <1>5, <1>9, <1>15, <1>16
<1>18. \A f \in Needed("vault", s) : Touched(VaultNewClient(s, n), f) BY <1>9, <1>11, <1>15, <1>16
<1> QED BY <1>17, <1>18 DEF Q

(* The providers that read one Secret, or two: a check follows.            *)
LEMMA StrictCheckGood ==
  ASSUME NEW p, NEW s, NEW n, Context(p, s, n), NEW D, Plain \subseteq D, NEW G
  PROVE  LET Q == Seq(Tidy(D, G))
             key(g) == Strictly(s, n, g, "lax") \o Check(g)
         IN  \A g \in {"a", "b"} :
                /\ key(g) \in Q
                /\ \A f : (g = f => Good(key(g), f)) /\ (g # f => Inert(key(g), f))
<1> DEFINE Q == Seq(Tidy(D, G))
           key(g) == Strictly(s, n, g, "lax") \o Check(g)
<1> SUFFICES ASSUME NEW g \in {"a", "b"}, NEW f
             PROVE  key(g) \in Q /\ (g = f => Good(key(g), f)) /\ (g # f => Inert(key(g), f))
  OBVIOUS
<1>1. g \in Fields BY DEF Fields
<1>2. Strictly(s, n, g, "lax") \in Q /\ Check(g) \in Q BY <1>1, Pieces
<1>3. \A x, y \in Q : x \o y \in Q BY Pieces
<1>4. /\ \A x, y \in Q : Good(y, f) => Good(x \o y, f)
      /\ \A x, y \in Q : Inert(x, f) /\ Inert(y, f) => Inert(x \o y, f)
  BY Combine
<1>5. /\ g = f => Good(Check(g), f)
      /\ g # f => Inert(Check(g), f) /\ Inert(Strictly(s, n, g, "lax"), f)
  BY <1>1, Sight
<1> HIDE DEF Q
<1> QED BY <1>2, <1>3, <1>4, <1>5

(* Oracle.                                                                 *)
LEMMA OracleGood ==
  ASSUME NEW s, NEW n, Context("oracle", s, n)
  PROVE  LET q == OracleNewClient(s, n)
         IN  q \in Tidied("oracle", s) /\ \A f \in Needed("oracle", s) : Good(q, f)
<1> DEFINE Q == Tidied("oracle", s)
           get(g) == getSecretData(s, n, g)
           pair == get("a") \o Check("a") \o get("b") \o Check("b")
           q == OracleNewClient(s, n)
<1>1. /\ {"a", "b"} \subseteq Fields
      /\ {"call", "specerror"} \subseteq Plain \ {"read", "take", "check"}
  BY DEF Fields, Plain, Dos
<1>2. /\ Do("specerror") \in Q /\ Do("call") \in Q /\ \A g \in {"a", "b"} : Check(g) \in Q
      /\ \A g \in {"a", "b"} : Strictly(s, n, g, "lax") \in Q
  BY <1>1, SortsOf, Pieces DEF Tidied
<1>3. <<>> \in Q /\ \A x, y \in Q : x \o y \in Q BY SortsOf, Pieces DEF Tidied
<1>4. \A g \in {"a", "b"} : get(g) \in Q
  <2> HIDE DEF Q
  <2> QED BY <1>2 DEF getSecretData, Named, SpecError
<1>5. s.method \in {"user", "principal"} BY DEF Context, WellFormed, Methods
<1>6. ASSUME NEW f \in Needed("oracle", s)
      PROVE  /\ \A x, y \in Q : Good(y, f) => Good(x \o y, f)
             /\ \A x, y \in Q : Good(x, f) /\ Inert(y, f) => Good(x \o y, f)
             /\ Good(Do("specerror"), f) /\ Inert(Do("call"), f)
             /\ \A g \in {"a", "b"} : g = f => Good(Check(g), f)
             /\ \A g \in {"a", "b"} : g # f => Inert(Check(g), f) /\ Inert(get(g), f)
  <2>1. /\ \A x, y \in Q : Good(y, f) => Good(x \o y, f)
        /\ \A x, y \in Q : Good(x, f) /\ Inert(y, f) => Good(x \o y, f)
    BY Combine DEF Tidied
  <2>2. Good(Do("specerror"), f) /\ Inert(Do("specerror"), f) /\ Inert(Do("call"), f)
    BY Sight DEF Dos, Stops
  <2>3. /\ \A g \in {"a", "b"} : g = f => Good(Check(g), f)
        /\ \A g \in {"a", "b"} : g # f => Inert(Check(g), f) /\ Inert(Strictly(s, n, g, "lax"), f)
    BY <1>1, Sight
  <2>4. \A g \in {"a", "b"} : g # f => Inert(get(g), f)
    BY <2>2, <2>3 DEF getSecretData, Named, SpecError
  <2> QED BY <2>1, <2>2, <2>3, <2>4
<1>7. \A f \in Needed("oracle", s) : f \in {"a", "b"} /\ s.method = "user"
  BY <1>5 DEF Needed, References
<1>8. \/ q = Do("specerror")
      \/ s.method = "user" /\ q = pair \o Do("call")
      \/ s.method # "user" /\ q = <<>> \o Do("call")
  BY DEF OracleNewClient, getUserAuthConfigurationProvider, SpecError
<1> HIDE DEF Q, get, q
<1>9. get("a") \o Check("a") \in Q BY <1>2, <1>3, <1>4
<1>10. get("a") \o Check("a") \o get("b") \in Q BY <1>3, <1>4, <1>9
<1>11. pair \in Q BY <1>2, <1>3, <1>10
<1>12. ASSUME NEW f \in Needed("oracle", s) PROVE Good(pair, f)
  <2>1. CASE f = "a"
    <3>1. Good(get("a") \o Check("a"), f) BY <1>2, <1>4, <1>6, <2>1
    <3>2. Good(get("a") \o Check("a") \o get("b"), f) BY <1>4, <1>6, <1>9, <2>1, <3>1
    <3> QED BY <1>2, <1>6, <1>10, <2>1, <3>2
  <2>2. CASE f = "b" BY <1>2, <1>6, <1>10, <2>2
  <2> QED BY <1>7, <2>1, <2>2
<1> HIDE DEF pair
<1>13. q \in Q BY <1>2, <1>3, <1>8, <1>11
<1>14. \A f \in Needed("oracle", s) : Good(q, f) BY <1>2, <1>6, <1>7, <1>8, <1>11, <1>12
<1> QED BY <1>13, <1>14 DEF q, Q

(* GitLab and Doppler: one key, of a Secret that must be named.            *)
LEMMA OneKeyGood ==
  ASSUME NEW p \in {"gitlab", "doppler", "ibm"}, NEW s, NEW n, Context(p, s, n)
  PROVE  LET q == Named(s, "a", Strictly(s, n, "a", "lax") \o Check("a"))
         IN  q \in Tidied(p, s) /\ Good(q, "a")
<1> DEFINE Q == Tidied(p, s)
           key == Strictly(s, n, "a", "lax") \o Check("a")
<1>1. key \in Q /\ Good(key, "a") BY SortsOf, StrictCheckGood DEF Tidied
<1>2. "specerror" \in Plain \ {"read", "take", "check"} BY DEF Plain, Dos
<1>3. Do("specerror") \in Q BY <1>2, SortsOf, Pieces DEF Tidied
<1>4. Good(Do("specerror"), "a") BY Sight DEF Dos, Stops
<1> HIDE DEF Q, key
<1>5. Named(s, "a", key) \in Q /\ Good(Named(s, "a", key), "a") BY <1>1, <1>3, <1>4 DEF Named, SpecError
<1> QED BY <1>5 DEF Q, key

(* What follows a key that is seen to and leaves it alone.                 *)
LEMMA ThenCalls ==
  ASSUME NEW p, NEW s, NEW n, Context(p, s, n), NEW x \in Tidied(p, s), NEW f
  PROVE  /\ x \o Do("call") \in Tidied(p, s)
         /\ Good(x, f) => Good(x \o Do("call"), f)
         /\ x \o Do("call") \o Do("share") \in Tidied(p, s)
         /\ Good(x, f) => Good(x \o Do("call") \o Do("share"), f)
<1> DEFINE Q == Tidied(p, s)
<1>1. {"call", "share"} \subseteq Plain \ {"read", "take", "check"} BY DEF Plain, Dos
<1>2. Do("call") \in Q /\ Do("share") \in Q /\ \A u, v \in Q : u \o v \in Q
  BY <1>1, SortsOf, Pieces DEF Tidied
<1>3. Inert(Do("call"), f) /\ Inert(Do("share"), f) BY Sight DEF Dos
<1>4. \A u, v \in Q : Good(u, f) /\ Inert(v, f) => Good(u \o v, f) BY Combine DEF Tidied
<1> HIDE DEF Q
<1>5. x \in Q BY DEF Q
<1>6. x \o Do("call") \in Q /\ (Good(x, f) => Good(x \o Do("call"), f)) BY <1>2, <1>3, <1>4, <1>5
<1>7. x \o Do("call") \o Do("share") \in Q /\ (Good(x, f) => Good(x \o Do("call") \o Do("share"), f))
  BY <1>2, <1>3, <1>4, <1>6
<1> QED BY <1>6, <1>7 DEF Q

(* GitLab.                                                                 *)
LEMMA GitlabGood ==
  ASSUME NEW s, NEW n, Context("gitlab", s, n)
  PROVE  LET q == GitlabNewClient(s, n)
         IN  q \in Tidied("gitlab", s) /\ \A f \in Needed("gitlab", s) : Good(q, f)
<1>1. \A f \in Needed("gitlab", s) : f = "a"
  BY DEF Needed, References, Context, WellFormed, Methods
<1> DEFINE x == Named(s, "a", Strictly(s, n, "a", "lax") \o Check("a"))
<1>2. x \in Tidied("gitlab", s) /\ Good(x, "a") BY OneKeyGood
<1>3. GitlabNewClient(s, n) = x \o Do("call") \o Do("share") BY DEF GitlabNewClient, GitlabSetAuth
<1> HIDE DEF x
<1>4. GitlabNewClient(s, n) \in Tidied("gitlab", s) /\ Good(GitlabNewClient(s, n), "a")
  BY <1>2, <1>3, ThenCalls
<1> QED BY <1>1, <1>4

(* Doppler.                                                                *)
LEMMA DopplerGood ==
  ASSUME NEW s, NEW n, Context("doppler", s, n)
  PROVE  LET q == DopplerNewClient(s, n)
         IN  q \in Tidied("doppler", s) /\ \A f \in Needed("doppler", s) : Good(q, f)
<1>1. \A f \in Needed("doppler", s) : f = "a"
  BY DEF Needed, References, Context, WellFormed, Methods
<1> DEFINE x == Named(s, "a", Strictly(s, n, "a", "lax") \o Check("a"))
<1>2. x \in Tidied("doppler", s) /\ Good(x, "a") BY OneKeyGood
<1>3. DopplerNewClient(s, n) = x \o Do("call") BY DEF DopplerNewClient, DopplerSetAuth
<1> HIDE DEF x
<1>4. DopplerNewClient(s, n) \in Tidied("doppler", s) /\ Good(DopplerNewClient(s, n), "a")
  BY <1>2, <1>3, ThenCalls
<1> QED BY <1>1, <1>4

(* IBM.                                                                    *)
LEMMA IBMGood ==
  ASSUME NEW s, NEW n, Context("ibm", s, n)
  PROVE  LET q == IBMNewClient(s, n)
         IN  q \in Tidied("ibm", s) /\ \A f \in Needed("ibm", s) : Good(q, f)
<1> DEFINE Q == Tidied("ibm", s)
           x == Named(s, "a", Strictly(s, n, "a", "lax") \o Check("a"))
           u == IF s.method = "container" THEN Do("call") ELSE x
           v == IF s.plain THEN <<>> ELSE Do("panic")
<1>1. \A f \in Needed("ibm", s) : f = "a" /\ s.method # "container"
  BY DEF Needed, References, Context, WellFormed, Methods
<1>2. x \in Q /\ Good(x, "a") BY OneKeyGood
<1>3. {"call", "panic"} \subseteq Plain \ {"read", "take", "check"} BY DEF Plain, Dos
<1>4. Do("call") \in Q /\ Do("panic") \in Q /\ <<>> \in Q /\ \A y, z \in Q : y \o z \in Q
  BY <1>3, SortsOf, Pieces DEF Tidied
<1>5. Inert(Do("panic"), "a") BY Sight DEF Dos
<1>6. Inert(<<>>, "a") /\ \A y, z \in Q : Good(y, "a") /\ Inert(z, "a") => Good(y \o z, "a")
  BY Combine DEF Tidied
<1>7. IBMNewClient(s, n) = u \o v \o Do("call") \o Do("share") BY DEF IBMNewClient, IBMSetAuth
<1> HIDE DEF Q, x
<1>8. u \in Q /\ v \in Q /\ Inert(v, "a") /\ (s.method # "container" => Good(u, "a"))
  BY <1>2, <1>4, <1>5, <1>6
<1> HIDE DEF u, v
<1> DEFINE y == u \o v
<1>9. y \in Q /\ (s.method # "container" => Good(y, "a")) BY <1>4, <1>6, <1>8
<1>10. IBMNewClient(s, n) = y \o Do("call") \o Do("share") BY <1>7
<1> HIDE DEF y
<1>11. IBMNewClient(s, n) \in Q /\ (s.method # "container" => Good(IBMNewClient(s, n), "a"))
  BY <1>9, <1>10, ThenCalls DEF Q
<1> QED BY <1>1, <1>11 DEF Q

(* 1Password.                                                              *)
LEMMA OnePasswordGood ==
  ASSUME NEW s, NEW n, Context("onepassword", s, n)
  PROVE  LET q == OnePasswordNewClient(s, n)
         IN  q \in Tidied("onepassword", s) /\ \A f \in Needed("onepassword", s) : Good(q, f)
<1> DEFINE Q == Tidied("onepassword", s)
           u == IF Cluster(s) /\ ~HasNs(s, "a") THEN Do("panic") ELSE Strictly(s, n, "a", "lax")
<1>1. \A f \in Needed("onepassword", s) : f = "a"
  BY DEF Needed, References, Context, WellFormed, Methods
<1>2. {"share", "panic"} \subseteq Plain \ {"read", "take", "check"} /\ "a" \in Fields
  BY DEF Plain, Dos, Fields
<1>3. /\ Do("share") \in Q /\ Do("panic") \in Q /\ Strictly(s, n, "a", "lax") \in Q /\ Check("a") \in Q
      /\ \A y, z \in Q : y \o z \in Q
  BY <1>2, SortsOf, Pieces DEF Tidied
<1>4. Inert(Do("share"), "a") /\ Good(Check("a"), "a") BY <1>2, Sight DEF Dos
<1>5. /\ \A y, z \in Q : Good(y, "a") /\ Inert(z, "a") => Good(y \o z, "a")
      /\ \A y, z \in Q : Good(z, "a") => Good(y \o z, "a")
  BY Combine DEF Tidied
<1>6. OnePasswordNewClient(s, n) = u \o Check("a") \o Do("share") BY DEF OnePasswordNewClient
<1> HIDE DEF Q
<1>7. u \in Q BY <1>3
<1> HIDE DEF u
<1>8. u \o Check("a") \in Q /\ Good(u \o Check("a"), "a") BY <1>3, <1>4, <1>5, <1>7
<1>9. OnePasswordNewClient(s, n) \in Q /\ Good(OnePasswordNewClient(s, n), "a")
  BY <1>3, <1>4, <1>5, <1>6, <1>8
<1> QED BY <1>1, <1>9 DEF Q

(* Two keys, the second taken from the Secret of the first.                *)
LEMMA PairGood ==
  ASSUME NEW p \in {"alibaba", "onboardbase"}, NEW s, NEW n, Context(p, s, n), NEW z \in Tidied(p, s)
  PROVE  LET q == Named(s, "a", z \o Check("a") \o Take("b", "a") \o Check("b"))
         IN  q \in Tidied(p, s) /\ \A f \in {"a", "b"} : Good(q, f)
<1> DEFINE Q == Tidied(p, s)
           x == z \o Check("a")
           y == x \o Take("b", "a")
           w == y \o Check("b")
           q == Named(s, "a", w)
<1>1. "specerror" \in Plain \ {"read", "take", "check"} /\ {"a", "b"} \subseteq Fields
  BY DEF Plain, Dos, Fields
<1>2. /\ Do("specerror") \in Q /\ Check("a") \in Q /\ Check("b") \in Q /\ Take("b", "a") \in Q
      /\ \A u, v \in Q : u \o v \in Q
  BY <1>1, SortsOf, Pieces DEF Tidied
<1>3. /\ Good(Check("a"), "a") /\ Good(Check("b"), "b") /\ Inert(Check("b"), "a")
      /\ Inert(Take("b", "a"), "a")
      /\ Good(Do("specerror"), "a") /\ Good(Do("specerror"), "b")
  <2>1. "a" # "b" /\ "specerror" \in Dos \ {"read", "take", "check"} /\ "specerror" \in Stops
    BY DEF Dos, Stops
  <2> QED BY <1>1, <2>1, Sight
<1>4. /\ \A u, v \in Q : Good(u, "a") /\ Inert(v, "a") => Good(u \o v, "a")
      /\ \A u, v \in Q : Good(v, "a") => Good(u \o v, "a")
      /\ \A u, v \in Q : Good(v, "b") => Good(u \o v, "b")
  BY Combine DEF Tidied
<1>5. z \in Q OBVIOUS
<1> HIDE DEF Q
<1>6. x \in Q /\ Good(x, "a") BY <1>2, <1>3, <1>4, <1>5
<1> HIDE DEF x
<1>7. y \in Q /\ Good(y, "a") BY <1>2, <1>3, <1>4, <1>6
<1> HIDE DEF y
<1>8. w \in Q /\ Good(w, "a") /\ Good(w, "b") BY <1>2, <1>3, <1>4, <1>7
<1> HIDE DEF w
<1>9. q \in Q /\ Good(q, "a") /\ Good(q, "b") BY <1>2, <1>3, <1>8 DEF Named, SpecError
<1> HIDE DEF q
<1>10. q \in Q /\ \A f \in {"a", "b"} : Good(q, f) BY <1>9
<1> QED BY <1>10 DEF q, w, y, x, Q

(* Alibaba.                                                                *)
LEMMA AlibabaGood ==
  ASSUME NEW s, NEW n, Context("alibaba", s, n)
  PROVE  LET q == AlibabaNewClient(s, n)
         IN  q \in Tidied("alibaba", s) /\ \A f \in Needed("alibaba", s) : Good(q, f)
<1> DEFINE Q == Tidied("alibaba", s)
           r == IF Cluster(s) /\ ~HasNs(s, "b") THEN SpecError ELSE <<>>
           z == Strictly(s, n, "a", "lax") \o r
           x == Named(s, "a", z \o Check("a") \o Take("b", "a") \o Check("b"))
<1>1. \A f \in Needed("alibaba", s) : f \in {"a", "b"}
  BY DEF Needed, References, Context, WellFormed, Methods
<1>2. "specerror" \in Plain \ {"read", "take", "check"} /\ "a" \in Fields BY DEF Plain, Dos, Fields
<1>3. Do("specerror") \in Q /\ <<>> \in Q /\ Strictly(s, n, "a", "lax") \in Q /\ \A u, v \in Q : u \o v \in Q
  BY <1>2, SortsOf, Pieces DEF Tidied
<1>4. AlibabaNewClient(s, n) = x \o Do("call") \o Do("share") BY DEF AlibabaNewClient, AlibabaSetAuth
<1> HIDE DEF Q
<1>5. r \in Q BY <1>3 DEF SpecError
<1> HIDE DEF r
<1>6. z \in Q BY <1>3, <1>5
<1> HIDE DEF z
<1>7. x \in Q /\ \A f \in {"a", "b"} : Good(x, f) BY <1>6, PairGood DEF Q
<1> HIDE DEF x
<1>8. AlibabaNewClient(s, n) \in Q /\ \A f \in {"a", "b"} : Good(AlibabaNewClient(s, n), f)
  BY <1>4, <1>7, ThenCalls DEF Q
<1> QED BY <1>1, <1>8 DEF Q

(* Onboardbase.                                                            *)
LEMMA OnboardbaseGood ==
  ASSUME NEW s, NEW n, Context("onboardbase", s, n)
  PROVE  LET q == OnboardbaseNewClient(s, n)
         IN  q \in Tidied("onboardbase", s) /\ \A f \in Needed("onboardbase", s) : Good(q, f)
<1> DEFINE Q == Tidied("onboardbase", s)
           z == Strictly(s, n, "a", "lax")
           x == Named(s, "a", z \o Check("a") \o Take("b", "a") \o Check("b"))
<1>1. \A f \in Needed("onboardbase", s) : f \in {"a", "b"}
  BY DEF Needed, References, Context, WellFormed, Methods
<1>2. "a" \in Fields BY DEF Fields
<1>3. z \in Q BY <1>2, SortsOf, Pieces DEF Tidied
<1>4. OnboardbaseNewClient(s, n) = x \o Do("call") BY DEF OnboardbaseNewClient, OnboardbaseSetAuth
<1> HIDE DEF Q, z
<1>5. x \in Q /\ \A f \in {"a", "b"} : Good(x, f) BY <1>3, PairGood DEF Q
<1> HIDE DEF x
<1>6. OnboardbaseNewClient(s, n) \in Q /\ \A f \in {"a", "b"} : Good(OnboardbaseNewClient(s, n), f)
  BY <1>4, <1>5, ThenCalls DEF Q
<1> QED BY <1>1, <1>6 DEF Q

(* Senhasegura: the login settles what was read, or the process crashed.   *)
LEMMA SenhaseguraGood ==
  ASSUME NEW s, NEW n, Context("senhasegura", s, n)
  PROVE  LET q == SenhaseguraNewClient(s, n)
         IN  q \in Tidied("senhasegura", s) /\ \A f \in Needed("senhasegura", s) : Good(q, f)
<1> DEFINE Q == Tidied("senhasegura", s)
           x == Strictly(s, n, "a", "lax")
           y == IF s.plain THEN Do("login") ELSE Do("panic")
<1>1. \A f \in Needed("senhasegura", s) : f = "a"
  BY DEF Needed, References, Context, WellFormed, Methods
<1>2. {"login", "panic"} \subseteq Plain \ {"read", "take", "check"} /\ "a" \in Fields
  BY DEF Plain, Dos, Fields
<1>3. Do("login") \in Q /\ Do("panic") \in Q /\ x \in Q /\ \A u, v \in Q : u \o v \in Q
  BY <1>2, SortsOf, Pieces DEF Tidied
<1>4. Touched(x, "a") BY <1>2, Sight
<1>5. Shut(Do("login"), "a") /\ Shut(Do("panic"), "a") BY Sight DEF Dos, Stops, Good
<1>6. \A u, v \in Q : Touched(u, "a") /\ Shut(v, "a") => Good(u \o v, "a") BY Combine DEF Tidied
<1>7. SenhaseguraNewClient(s, n) = x \o y
  BY DEF SenhaseguraNewClient, getKubernetesSecret, GetIsoToken
<1> HIDE DEF Q, x
<1>8. y \in Q /\ Shut(y, "a") BY <1>3, <1>5
<1> HIDE DEF y
<1>9. SenhaseguraNewClient(s, n) \in Q /\ Good(SenhaseguraNewClient(s, n), "a")
  BY <1>3, <1>4, <1>6, <1>7, <1>8
<1> QED BY <1>1, <1>9 DEF Q

(* Keeper Security.                                                        *)
LEMMA KeeperGood ==
  ASSUME NEW s, NEW n, Context("keeper", s, n)
  PROVE  LET q == getKeeperSecurityAuth(s, n)
         IN  q \in Tidied("keeper", s) /\ \A f \in Needed("keeper", s) : Good(q, f)
<1> DEFINE Q == Tidied("keeper", s)
           x == IF IsSet(s, "a") THEN Strictly(s, n, "a", "lax") ELSE Reading("Secret", "a", n, "lax")
<1>1. \A f \in Needed("keeper", s) : f = "a"
  BY DEF Needed, References, Context, WellFormed, Methods
<1>2. "Secret" \in Kinds /\ "a" \in Fields /\ n \in NsNames BY DEF Kinds, Fields, Context
<1>3. /\ Strictly(s, n, "a", "lax") \in Q /\ Reading("Secret", "a", n, "lax") \in Q /\ Check("a") \in Q
      /\ \A u, v \in Q : u \o v \in Q
  BY <1>2, SortsOf, Pieces DEF Tidied
<1>4. Good(Check("a"), "a") BY <1>2, Sight
<1>5. \A u, v \in Q : Good(v, "a") => Good(u \o v, "a") BY Combine DEF Tidied
<1>6. getKeeperSecurityAuth(s, n) = x \o Check("a") BY DEF getKeeperSecurityAuth
<1> HIDE DEF Q
<1>7. x \in Q BY <1>3
<1> HIDE DEF x
<1>8. getKeeperSecurityAuth(s, n) \in Q /\ Good(getKeeperSecurityAuth(s, n), "a")
  BY <1>3, <1>4, <1>5, <1>6, <1>7
<1> QED BY <1>1, <1>8 DEF Q

(* The Yandex providers.                                                   *)
LEMMA YandexGood ==
  ASSUME NEW s, NEW n, Context("yandex", s, n)
  PROVE  LET q == YandexNewClient(s, n)
         IN  q \in Tidied("yandex", s) /\ \A f \in Needed("yandex", s) : Good(q, f)
<1> DEFINE Q == Tidied("yandex", s)
           key(g) == Strictly(s, n, g, "lax")
           ca == IF s.ca = "Secret" THEN key("ca") \o Check("ca") ELSE <<>>
           x == key("a") \o Check("a") \o ca
           y == IF ~YandexAdaptInput(s) THEN SpecError ELSE x
<1>1. \A f \in Needed("yandex", s) : f = "a"
  BY DEF Needed, References, Context, WellFormed, Methods
<1>2. /\ {"specerror", "getter", "login"} \subseteq Plain \ {"read", "take", "check"}
      /\ {"a", "ca"} \subseteq Fields
  BY DEF Plain, Dos, Fields
<1>3. /\ Do("specerror") \in Q /\ Do("getter") \in Q /\ Do("login") \in Q
      /\ key("a") \in Q /\ key("ca") \in Q /\ Check("a") \in Q /\ Check("ca") \in Q
      /\ <<>> \in Q /\ \A u, v \in Q : u \o v \in Q
  BY <1>2, SortsOf, Pieces DEF Tidied
<1>4. Touched(Check("a"), "a") BY <1>2, Sight DEF Good
<1>5. Shut(Do("login"), "a") /\ Touched(Do("specerror"), "a") BY Sight DEF Dos, Stops, Good
<1>6. /\ \A u, v \in Q : Touched(u, "a") /\ Shut(v, "a") => Good(u \o v, "a")
      /\ \A u, v \in Q : Touched(u, "a") \/ Touched(v, "a") => Touched(u \o v, "a")
  BY Combine DEF Tidied
<1>7. YandexNewClient(s, n) = y \o Do("getter") \o Do("login") BY DEF YandexNewClient, newIamToken
<1> HIDE DEF Q, key
<1>8. ca \in Q BY <1>3
<1> HIDE DEF ca
<1>9. key("a") \o Check("a") \in Q /\ Touched(key("a") \o Check("a"), "a") BY <1>3, <1>4, <1>6
<1>10. x \in Q /\ Touched(x, "a") BY <1>3, <1>6, <1>8, <1>9
<1> HIDE DEF x
<1>11. y \in Q /\ Touched(y, "a") BY <1>3, <1>5, <1>10 DEF SpecError
<1> HIDE DEF y
<1>12. y \o Do("getter") \in Q /\ Touched(y \o Do("getter"), "a") BY <1>3, <1>6, <1>11
<1>13. YandexNewClient(s, n) \in Q /\ Good(YandexNewClient(s, n), "a")
  BY <1>3, <1>5, <1>6, <1>7, <1>12
<1> QED BY <1>1, <1>13 DEF Q

-----------------------------------------------------------------------------
(* The plans of all providers whose stores read their credentials before   *)
(* they are Ready.                                                         *)
Eager == AllAuth \ (Lazy \cup Generators)

(* NewClient.                                                              *)
LEMMA NewClientGood ==
  ASSUME NEW p \in Eager, NEW s, NEW n, Context(p, s, n)
  PROVE  LET q == NewClient(p, s, n)
         IN  /\ q \in Tidied(p, s)
             /\ \A f \in Needed(p, s) : Touched(q, f) /\ (p \notin {"aws", "vault"} => Good(q, f))
<1> DEFINE Claim == /\ NewClient(p, s, n) \in Tidied(p, s)
                    /\ \A f \in Needed(p, s) :
                         /\ Touched(NewClient(p, s, n), f)
                         /\ p \notin {"aws", "vault"} => Good(NewClient(p, s, n), f)
<1> SUFFICES Claim OBVIOUS
<1>1. CASE p = "aws" BY <1>1, AWSGood DEF NewClient
<1>2. CASE p = "azure" BY <1>2, AzureGood DEF NewClient, Good
<1>3. CASE p = "gcp" BY <1>3, GCPGood DEF NewClient, Good
<1>4. CASE p = "kubernetes" BY <1>4, KubernetesGood DEF NewClient, Good
<1>5. CASE p = "vault" BY <1>5, VaultGood DEF NewClient
<1>6. CASE p = "oracle" BY <1>6, OracleGood DEF NewClient, Good
<1>7. CASE p = "gitlab" BY <1>7, GitlabGood DEF NewClient, Good
<1>8. CASE p = "alibaba" BY <1>8, AlibabaGood DEF NewClient, Good
<1>9. CASE p = "ibm" BY <1>9, IBMGood DEF NewClient, Good
<1>10. CASE p = "onepassword" BY <1>10, OnePasswordGood DEF NewClient, Good
<1>11. CASE p = "senhasegura" BY <1>11, SenhaseguraGood DEF NewClient, Good
<1>12. CASE p = "keeper" BY <1>12, KeeperGood DEF NewClient, Good
<1>13. CASE p = "doppler" BY <1>13, DopplerGood DEF NewClient, Good
<1>14. CASE p = "onboardbase" BY <1>14, OnboardbaseGood DEF NewClient, Good
<1>15. CASE p = "yandex" BY <1>15, YandexGood DEF NewClient, Good
<1>16. p \in {"aws", "azure", "gcp", "kubernetes", "vault", "oracle", "gitlab", "alibaba", "ibm",
              "onepassword", "senhasegura", "keeper", "doppler", "onboardbase", "yandex"}
  BY DEF Eager, AllAuth, Singletons, Generators, Lazy
<1> HIDE DEF Claim
<1> QED
  BY <1>1, <1>2, <1>3, <1>4, <1>5, <1>6, <1>7, <1>8, <1>9, <1>10, <1>11, <1>12, <1>13, <1>14,
     <1>15, <1>16

(* Validate.                                                               *)
LEMMA ValidateGood ==
  ASSUME NEW p \in Eager, NEW s, NEW n, Context(p, s, n)
  PROVE  LET q == ValidateCalls(p, s, n)
         IN  /\ q \in Tidied(p, s) /\ q \in Seq(Tidy(Plain, {}))
             /\ \A f : /\ p \in {"aws", "vault"} => Shut(q, f)
                       /\ Shut(q, f) \/ Inert(q, f)
             /\ p \in {"kubernetes", "oracle"} => q = Do("call")
<1>1. Plain \subseteq Sorts(p, s) /\ Plain \subseteq Plain BY SortsOf
<1>2. {"call", "login"} \subseteq Plain \ {"read", "take", "check"} BY DEF Plain, Dos
<1>3. "Token" \in Kinds /\ "sa" \in Fields /\ "present" \in {"present", "lax"} BY DEF Kinds, Fields
<1>4. InReferent(s, n, "sa") \in NsNames BY <1>3, ReferentTyped
<1> DEFINE tok == Reading("Token", "sa", InReferent(s, n, "sa"), "present")
           V == {Do("login"), Do("call"), Do("call") \o Do("login"), tok \o Do("login"),
                 <<>> \o Do("login"), <<>>}
<1>5. ASSUME NEW D, Plain \subseteq D, NEW G PROVE \A q \in V : q \in Seq(Tidy(D, G))
  <2> DEFINE Q == Seq(Tidy(D, G))
  <2>1. Do("login") \in Q /\ Do("call") \in Q /\ <<>> \in Q /\ \A x, y \in Q : x \o y \in Q
    BY <1>2, <1>5, Pieces
  <2>2. tok \in Q BY <1>3, <1>4, <1>5, Pieces
  <2> HIDE DEF tok, Q
  <2>3. \A q \in V : q \in Q BY <2>1, <2>2
  <2> QED BY <2>3 DEF Q
<1>6. ASSUME NEW f
      PROVE  /\ Shut(Do("login"), f) /\ Inert(Do("call"), f) /\ Inert(<<>>, f)
             /\ Shut(Do("call") \o Do("login"), f) /\ Shut(tok \o Do("login"), f)
             /\ Shut(<<>> \o Do("login"), f)
  <2> DEFINE Q == Seq(Tidy(Dos, {}))
  <2>1. Plain \subseteq Dos BY DEF Plain
  <2>2. Do("login") \in Q /\ Do("call") \in Q /\ <<>> \in Q BY <1>2, <2>1, Pieces
  <2>3. tok \in Q BY <1>3, <1>4, <2>1, Pieces
  <2>4. Shut(Do("login"), f) /\ Inert(Do("call"), f) BY Sight DEF Dos
  <2>5. Inert(<<>>, f) /\ \A x, y \in Q : Shut(y, f) => Shut(x \o y, f) BY Combine
  <2> HIDE DEF Q, tok
  <2> QED BY <2>2, <2>3, <2>4, <2>5
<1> DEFINE q == ValidateCalls(p, s, n)
<1>7. /\ p = "aws" => q \in {tok \o Do("login"), <<>> \o Do("login")}
      /\ p = "vault" => q = Do("login")
      /\ p \in {"kubernetes", "oracle"} => q = Do("call")
  BY DEF ValidateCalls, AWSValidate, FetchToken
<1>8. q \in V
  <2>1. p # "aws" => q \in {Do("login"), Do("call"), Do("call") \o Do("login"), <<>>}
    BY DEF Eager, AllAuth, Singletons, Generators, Lazy, ValidateCalls
  <2> HIDE DEF q, tok
  <2> QED BY <1>7, <2>1
<1>9. q \in Tidied(p, s) /\ q \in Seq(Tidy(Plain, {})) BY <1>1, <1>5, <1>8 DEF Tidied
<1> HIDE DEF q, tok
<1>10. \A f : (p \in {"aws", "vault"} => Shut(q, f)) /\ (Shut(q, f) \/ Inert(q, f))
  BY <1>6, <1>7, <1>8
<1>11. /\ q \in Tidied(p, s) /\ q \in Seq(Tidy(Plain, {}))
       /\ \A f : /\ p \in {"aws", "vault"} => Shut(q, f)
                 /\ Shut(q, f) \/ Inert(q, f)
       /\ p \in {"kubernetes", "oracle"} => q = Do("call")
  BY <1>7, <1>9, <1>10
<1> QED BY <1>11 DEF q

(* What a store needs is a field other than its CA, and the only one where *)
(* a plan has attempts.                                                    *)
LEMMA NeededFields ==
  ASSUME NEW p \in Eager, NEW s, NEW f \in Needed(p, s)
  PROVE  f \in {"a", "b", "sa"} /\ f \in Fields /\ Tries(p, s) \subseteq {f}
BY DEF Needed, References, Tries, Fields

(* From the start, each credential is seen to: by NewClient for a          *)
(* singleton, by NewClient and Validate for the others.                    *)
LEMMA SecuredStart ==
  ASSUME NEW p \in Eager, NEW s, NEW n, Context(p, s, n), NEW f \in Needed(p, s)
  PROVE  /\ p \in Singletons => Secured(NewClient(p, s, n), "", f)
         /\ Secured(NewClient(p, s, n) \o ValidateCalls(p, s, n), "", f)
<1> DEFINE q == NewClient(p, s, n)
           c == ValidateCalls(p, s, n)
           A == Tidy(Sorts(p, s), Tries(p, s))
<1>1. q \in Seq(A) /\ Touched(q, f) /\ (p \notin {"aws", "vault"} => Good(q, f))
  BY NewClientGood DEF Tidied
<1>2. c \in Seq(A) /\ (p \in {"aws", "vault"} => Shut(c, f)) /\ (Shut(c, f) \/ Inert(c, f))
  BY ValidateGood DEF Tidied
<1>3. Tries(p, s) \subseteq {f} BY NeededFields
<1> HIDE DEF q, c
<1>4. q \o c \in Seq(A) BY <1>1, <1>2
<1>5. Good(q \o c, f) BY <1>1, <1>2, Combine
<1>6. Secured(q \o c, "", f) BY <1>3, <1>4, <1>5, GoodSecured
<1>7. p \in Singletons => Secured(q, "", f) BY <1>1, <1>3, GoodSecured DEF Singletons
<1> QED BY <1>6, <1>7 DEF q, c

(* A client is only made without credentials where its store leaves them   *)
(* to each ExternalSecret.                                                 *)
LEMMA ExcusedStart ==
  ASSUME NEW p \in Eager, NEW s, NEW n, Context(p, s, n), NEW i \in 1 .. Len(NewClient(p, s, n)),
         NewClient(p, s, n)[i].do = "placeholder"
  PROVE  Defers(p, s, TRUE)
<1> DEFINE q == NewClient(p, s, n)
<1>1. q \in Seq(Tidy(Sorts(p, s), Tries(p, s))) BY NewClientGood DEF Tidied
<1> HIDE DEF q
<1>2. q[i] \in Tidy(Sorts(p, s), Tries(p, s)) BY <1>1 DEF q
<1>3. q[i].do \in Sorts(p, s) /\ q[i].do = "placeholder" BY <1>2 DEF Tidy, q
<1> QED BY <1>3 DEF Sorts, Plain

-----------------------------------------------------------------------------
(* The steps once more, and what they leave to be seen to.                 *)

(* The first of two plans goes first.                                      *)
LEMMA JoinHead ==
  ASSUME NEW A, NEW x \in Seq(A), x # <<>>, NEW y \in Seq(A)
  PROVE  /\ x \o y \in Seq(A) /\ x \o y # <<>>
         /\ Head(x \o y) = Head(x) /\ Tail(x \o y) = Tail(x) \o y
<1> DEFINE t == Tail(x)
           l == Tail(x \o y)
           r == t \o y
<1>1. /\ Len(x) \in Nat /\ Len(x) > 0 /\ t \in Seq(A) /\ Len(t) = Len(x) - 1 /\ Head(x) = x[1]
      /\ \A i \in 1 .. (Len(x) - 1) : t[i] = x[i + 1]
  BY TailIndex
<1>2. /\ x \o y \in Seq(A) /\ Len(x \o y) = Len(x) + Len(y) /\ Len(y) \in Nat
      /\ \A i \in 1 .. Len(x) : (x \o y)[i] = x[i]
      /\ \A i \in 1 .. Len(y) : (x \o y)[Len(x) + i] = y[i]
  BY JoinIndex
<1>3. x \o y # <<>> BY <1>1, <1>2
<1> DEFINE z == x \o y
<1>4. /\ l \in Seq(A) /\ Len(l) = Len(z) - 1 /\ Head(z) = z[1]
      /\ \A i \in 1 .. (Len(z) - 1) : l[i] = z[i + 1]
  BY <1>2, <1>3, TailIndex
<1> HIDE DEF t
<1>5. /\ r \in Seq(A) /\ Len(r) = Len(t) + Len(y)
      /\ \A i \in 1 .. Len(t) : r[i] = t[i]
      /\ \A i \in 1 .. Len(y) : r[Len(t) + i] = y[i]
  <2>1. t \in Seq(A) BY <1>1
  <2> QED BY <2>1, JoinIndex
<1> HIDE DEF l, r, z
<1>6. /\ Len(z) = Len(x) + Len(y)
      /\ \A i \in 1 .. Len(x) : z[i] = x[i]
      /\ \A i \in 1 .. Len(y) : z[Len(x) + i] = y[i]
  BY <1>2 DEF z
<1>7. Len(l) = Len(r) BY <1>1, <1>2, <1>4, <1>5, <1>6
<1>8. ASSUME NEW i \in 1 .. Len(l) PROVE l[i] = r[i]
  <2>1. i \in 1 .. (Len(z) - 1) /\ l[i] = z[i + 1] BY <1>2, <1>4, <1>6
  <2>2. CASE i <= Len(t)
    <3>1. i \in 1 .. Len(t) /\ i \in 1 .. (Len(x) - 1) /\ i + 1 \in 1 .. Len(x)
      BY <1>1, <2>2
    <3> QED BY <1>1, <1>5, <1>6, <2>1, <3>1
  <2>3. CASE i > Len(t)
    <3> DEFINE j == i - Len(t)
    <3>1. j \in 1 .. Len(y) /\ i = Len(t) + j /\ i + 1 = Len(x) + j
      BY <1>1, <1>2, <1>6, <2>1, <2>3
    <3> HIDE DEF j
    <3> QED BY <1>5, <1>6, <2>1, <3>1
  <2>4. i \in Nat /\ Len(t) \in Nat BY <1>1, <1>2, <1>4, <1>6
  <2> QED BY <2>2, <2>3, <2>4
<1>9. l = r BY <1>4, <1>5, <1>7, <1>8
<1>10. 1 \in 1 .. Len(x) BY <1>1
<1>11. Head(z) = Head(x) BY <1>1, <1>4, <1>6, <1>10
<1> QED BY <1>2, <1>3, <1>9, <1>11 DEF l, r, z, t

\* What a step may make of the value of a field.
Carries(st, f, v, u) ==
  /\ Opens(st, f) => u # ""
  /\ Vouches(st, f) => u = "value"
  /\ ~Opens(st, f) /\ ~Vouches(st, f) => u = v
  /\ st.do = "login" => v # "empty"

(* The values of a reconcile's credentials.                                *)
LEMMA ValueTyped == ASSUME NEW x \in WorkerType, NEW f \in Fields PROVE x.held[f].val \in Vals
BY DEF WorkerType, Creds, Vals

(* Plans and the calls of Validate are sequences of steps.                 *)
LEMMA ChecksTyped ==
  ASSUME NEW p \in Eager, NEW s, NEW n, Context(p, s, n)
  PROVE  ValidateCalls(p, s, n) \in Seq(StepType)
<1> DEFINE q == ValidateCalls(p, s, n)
<1>1. q \in Seq(Tidy(Plain, {})) BY ValidateGood
<1>2. Tidy(Plain, {}) \subseteq StepType BY DEF Tidy
<1> HIDE DEF q
<1>3. q \in Seq(StepType) BY <1>1, <1>2
<1> QED BY <1>3 DEF q

(* The store's own client takes a step.                                    *)
LEMMA CheckingStep ==
  ASSUME NEW p \in Eager, NEW s, NEW x \in WorkerType, NEW y \in WorkerType, x.plan # <<>>,
         Context(p, s, x.ns), Checking(p, s, x),
         y.pc = x.pc, y.ns = x.ns, y.deferred = x.deferred, y.plan = Tail(x.plan),
         \A f \in Needed(p, s) : Carries(Head(x.plan), f, x.held[f].val, y.held[f].val)
  PROVE  Checking(p, s, y)
<1> DEFINE q == x.plan
           c == ValidateCalls(p, s, x.ns)
<1>1. q \in Seq(StepType) /\ c \in Seq(StepType) /\ q # <<>> BY ChecksTyped DEF WorkerType
<1>2. ASSUME NEW z \in Seq(StepType), z # <<>>, Head(z) = Head(q), NEW f \in Needed(p, s),
             Secured(z, x.held[f].val, f)
      PROVE  Secured(Tail(z), y.held[f].val, f)
  <2>1. f \in Fields BY NeededFields
  <2>2. x.held[f].val \in Vals /\ y.held[f].val \in Vals BY <2>1, ValueTyped
  <2>3. Carries(Head(z), f, x.held[f].val, y.held[f].val) BY <1>2
  <2> QED BY <1>2, <2>2, <2>3, SecuredStep DEF Carries
<1> HIDE DEF c
<1>3. ASSUME y.pc = "new", ~y.deferred, NEW f \in Needed(p, s)
      PROVE  Secured(y.plan \o c, y.held[f].val, f)
  <2>1. Secured(q \o c, x.held[f].val, f) BY <1>3 DEF Checking, c
  <2>2. /\ q \o c \in Seq(StepType) /\ q \o c # <<>> /\ Head(q \o c) = Head(q)
        /\ Tail(q \o c) = Tail(q) \o c
    BY <1>1, JoinHead
  <2>3. Secured(Tail(q \o c), y.held[f].val, f) BY <1>2, <2>1, <2>2
  <2> QED BY <2>2, <2>3
<1>4. ASSUME y.pc = "validate", NEW f \in Needed(p, s) PROVE Secured(y.plan, y.held[f].val, f)
  <2>1. Secured(q, x.held[f].val, f) BY <1>4 DEF Checking
  <2> QED BY <1>1, <1>2, <2>1
<1>5. ASSUME y.pc = "validate", p \in {"kubernetes", "oracle"}, NEW i \in 1 .. Len(y.plan)
      PROVE  y.plan[i].do = "call"
  <2>1. \A j \in 1 .. Len(q) : q[j].do = "call" BY <1>5 DEF Checking
  <2>2. i + 1 \in 2 .. Len(q) /\ y.plan[i] = q[i + 1] /\ (\A j \in 2 .. Len(q) : j \in 1 .. Len(q))
    BY <1>1, <1>5, Shift
  <2> QED BY <2>1, <2>2
<1>6. ASSUME y.pc = "validate", NEW i \in 1 .. Len(y.plan) PROVE y.plan[i].do # "placeholder"
  <2>1. \A j \in 1 .. Len(q) : q[j].do # "placeholder" BY <1>6 DEF Checking
  <2>2. i + 1 \in 2 .. Len(q) /\ y.plan[i] = q[i + 1] /\ (\A j \in 2 .. Len(q) : j \in 1 .. Len(q))
    BY <1>1, <1>6, Shift
  <2> QED BY <2>1, <2>2
<1> QED BY <1>3, <1>4, <1>5, <1>6 DEF Checking, c

(* The client of a singleton takes a step.                                 *)
LEMMA PublishingStep ==
  ASSUME NEW p \in Eager, NEW s, NEW rec, NEW x \in WorkerType, NEW y \in WorkerType, x.plan # <<>>,
         Publishing(p, s, x, rec), y.pc = x.pc, y.plan = Tail(x.plan),
         x.pc = "new" => y.plan # <<>>,
         x.pc = "new" =>
           \A f \in Needed(p, s) : Carries(Head(x.plan), f, x.held[f].val, y.held[f].val)
  PROVE  Publishing(p, s, y, rec)
<1>1. x.plan \in Seq(StepType) BY DEF WorkerType
<1>2. ASSUME y.pc = "new", NEW f \in Needed(p, s) PROVE Secured(y.plan, y.held[f].val, f)
  <2>1. f \in Fields BY NeededFields
  <2>2. x.held[f].val \in Vals /\ y.held[f].val \in Vals BY <2>1, ValueTyped
  <2>3. Carries(Head(x.plan), f, x.held[f].val, y.held[f].val) BY <1>2
  <2>4. Secured(x.plan, x.held[f].val, f) BY <1>2 DEF Publishing
  <2> QED BY <1>1, <2>2, <2>3, <2>4, SecuredStep DEF Carries
<1> QED BY <1>2 DEF Publishing

(* A client is still excused.                                              *)
LEMMA ExcusedStep ==
  ASSUME NEW p, NEW s, NEW x \in WorkerType, NEW y, x.plan # <<>>, Excused(p, s, x),
         y.plan = Tail(x.plan), y.deferred => x.deferred \/ Head(x.plan).do = "placeholder"
  PROVE  Excused(p, s, y)
<1> DEFINE q == x.plan
<1>1. q \in Seq(StepType) BY DEF WorkerType
<1> HIDE DEF q
<1>2. /\ 1 \in 1 .. Len(q) /\ q[1] = Head(q)
      /\ \A i \in 1 .. Len(Tail(q)) : i + 1 \in 2 .. Len(q) /\ Tail(q)[i] = q[i + 1]
      /\ \A j \in 2 .. Len(q) : j \in 1 .. Len(q)
  BY <1>1, Shift DEF q
<1>3. ASSUME NEW i \in 1 .. Len(y.plan), y.plan[i].do = "placeholder" PROVE Defers(p, s, TRUE)
  <2>1. i + 1 \in 1 .. Len(q) /\ q[i + 1].do = "placeholder" BY <1>2, <1>3 DEF q
  <2> QED BY <2>1 DEF Excused, q
<1>4. y.deferred => Defers(p, s, TRUE) BY <1>2 DEF Excused, q
<1> QED BY <1>3, <1>4 DEF Excused

(* A client takes a step.                                                  *)
LEMMA UsableStep ==
  ASSUME NEW p \in Eager, NEW s, NEW rec, NEW x \in WorkerType, NEW y \in WorkerType, x.plan # <<>>,
         x.pc \in {"new", "validate", "use"}, Context(p, s, x.ns), Usable(p, s, x, rec),
         y.pc = x.pc, y.role = x.role, y.ns = x.ns, y.deferred = x.deferred, y.plan = Tail(x.plan),
         p \in Singletons /\ x.pc = "new" => y.plan # <<>>,
         p \in Singletons => x.pc = "new",
         \A f \in Needed(p, s) : Carries(Head(x.plan), f, x.held[f].val, y.held[f].val)
  PROVE  Usable(p, s, y, rec)
<1>1. x.pc = "new" => Excused(p, s, x) BY DEF Usable
<1>2. x.pc = "new" => Excused(p, s, y) BY <1>1, ExcusedStep
<1>3. p \notin Singletons /\ x.role = "store" => Checking(p, s, y) BY CheckingStep DEF Usable
<1>4. p \in Singletons => Publishing(p, s, y, rec) BY PublishingStep DEF Usable
<1> QED BY <1>2, <1>3, <1>4 DEF Usable, Outcome

(* The client of a singleton makes the calls of Validate.                  *)
LEMMA UsableCall ==
  ASSUME NEW p \in Singletons, NEW s, NEW rec, NEW x \in WorkerType, NEW y \in WorkerType,
         x.pc \in {"validate", "use"}, Usable(p, s, x, rec), y.pc = x.pc, y.role = x.role
  PROVE  Usable(p, s, y, rec)
BY DEF Usable, Publishing, Outcome

(* An attempt succeeds.                                                    *)
LEMMA UsableSkip ==
  ASSUME NEW p \in Eager, p \notin Singletons, NEW s, NEW rec,
         NEW x \in WorkerType, NEW y \in WorkerType, x.plan # <<>>, Tail(x.plan) # <<>>,
         x.pc \in {"new", "validate", "use"}, Context(p, s, x.ns), Usable(p, s, x, rec),
         y.pc = x.pc, y.role = x.role, y.ns = x.ns, y.deferred = x.deferred,
         y.plan = Tail(Tail(x.plan)), Head(x.plan).need = "try", Head(x.plan).do = "read",
         y.held[Head(x.plan).field].val = "value"
  PROVE  Usable(p, s, y, rec)
<1> DEFINE q == x.plan
           t == Tail(q)
           c == ValidateCalls(p, s, x.ns)
<1>1. q \in Seq(StepType) /\ q # <<>> /\ t # <<>> /\ c \in Seq(StepType) BY ChecksTyped DEF WorkerType
<1>2. t \in Seq(StepType) BY <1>1, TailIndex
<1>3. ASSUME NEW z \in Seq(StepType), z # <<>>, Tail(z) # <<>>, Head(z) = Head(q),
             NEW f \in Needed(p, s), Secured(z, x.held[f].val, f)
      PROVE  Secured(Tail(Tail(z)), y.held[f].val, f)
  <2>1. Secured(Tail(Tail(z)), "value", f) BY <1>3, SecuredSkip
  <2>2. 1 \in 1 .. Len(z) /\ z[1] = Head(z) BY <1>3, Shift
  <2>3. Head(z).field = f BY <1>3, <2>2 DEF Secured
  <2> QED BY <1>3, <2>1, <2>3
<1> HIDE DEF c, t
<1>4. ASSUME Checking(p, s, x) PROVE Checking(p, s, y)
  <2>1. ASSUME y.pc = "new", ~y.deferred, NEW f \in Needed(p, s)
        PROVE  Secured(y.plan \o c, y.held[f].val, f)
    <3>1. Secured(q \o c, x.held[f].val, f) BY <1>4, <2>1 DEF Checking, c
    <3>2. /\ q \o c \in Seq(StepType) /\ q \o c # <<>> /\ Head(q \o c) = Head(q)
          /\ Tail(q \o c) = Tail(q) \o c
      <4>1. q \in Seq(StepType) /\ q # <<>> /\ c \in Seq(StepType) BY <1>1
      <4> HIDE DEF q
      <4> QED BY <4>1, JoinHead
    <3>3. t \o c # <<>> /\ Tail(t \o c) = Tail(t) \o c BY <1>1, <1>2, JoinHead
    <3>4. Tail(q \o c) = t \o c BY <3>2 DEF t
    <3>5. Secured(Tail(Tail(q \o c)), y.held[f].val, f) BY <1>3, <3>1, <3>2, <3>3, <3>4
    <3> QED BY <3>3, <3>4, <3>5 DEF t
  <2>2. ASSUME y.pc = "validate", NEW f \in Needed(p, s) PROVE Secured(y.plan, y.held[f].val, f)
    <3>1. Secured(q, x.held[f].val, f) BY <1>4, <2>2 DEF Checking
    <3> QED BY <1>1, <1>3, <3>1 DEF t
  <2>3. ASSUME y.pc = "validate" PROVE p \notin {"kubernetes", "oracle"}
    <3>1. 1 \in 1 .. Len(q) /\ q[1] = Head(q) BY <1>1, Shift
    <3> QED BY <1>4, <2>3, <3>1 DEF Checking
  <2>4. ASSUME y.pc = "validate", NEW i \in 1 .. Len(y.plan) PROVE y.plan[i].do # "placeholder"
    <3>1. \A j \in 1 .. Len(q) : q[j].do # "placeholder" BY <1>4, <2>4 DEF Checking
    <3>2. \A j \in 1 .. Len(t) : j + 1 \in 2 .. Len(q) /\ t[j] = q[j + 1] BY <1>1, Shift DEF t
    <3>3. \A j \in 2 .. Len(q) : j \in 1 .. Len(q) BY <1>1, Shift
    <3>4. \A j \in 1 .. Len(t) : t[j].do # "placeholder" BY <3>1, <3>2, <3>3
    <3>5. y.plan = Tail(t) BY DEF t
    <3>6. t \in Seq(StepType) /\ t # <<>> BY <1>1, <1>2
    <3>7. /\ \A j \in 1 .. Len(Tail(t)) : j + 1 \in 2 .. Len(t) /\ Tail(t)[j] = t[j + 1]
          /\ \A j \in 2 .. Len(t) : j \in 1 .. Len(t)
      BY <3>6, Shift
    <3> QED BY <2>4, <3>4, <3>5, <3>7
  <2> QED BY <2>1, <2>2, <2>3, <2>4 DEF Checking, c
<1> DEFINE m == [x EXCEPT !.plan = t]
<1>5. x.pc = "new" => Excused(p, s, x) BY DEF Usable
<1>6. m \in WorkerType /\ m.plan = t /\ m.deferred = x.deferred BY <1>2 DEF WorkerType
<1> HIDE DEF m
<1>7. x.pc = "new" => Excused(p, s, m) BY <1>5, <1>6, ExcusedStep DEF t
<1>8. x.pc = "new" => Excused(p, s, y) BY <1>1, <1>6, <1>7, ExcusedStep DEF t
<1> QED BY <1>4, <1>8 DEF Usable, Outcome

(* A reconcile that ends without saying Ready.                             *)
LEMMA UsableEnd ==
  ASSUME NEW p, NEW s, NEW rec, NEW y, y.pc = "done", y.result \notin {"Ready", "Unknown"}
  PROVE  Usable(p, s, y, rec)
BY DEF Usable, Checking, Publishing, Outcome

(* The provider is one of those, or has no such stores.                    *)
LEMMA EagerProvider == ASSUME Inv, prov \notin Lazy \cup Generators PROVE prov \in Eager
BY DEF Inv, TypeOK, Eager

(* One reconcile changes, and the registered provider does not.            *)
LEMMA Updated4 ==
  ASSUME Inv, Inv3, NEW w \in Workers, NEW new,
         prov \in Eager => Usable(prov, stores[new.store], new, receiver),
         Only(w, new), prov' = prov, stores' = stores, receiver' = receiver
  PROVE  Inv3'
<1> SUFFICES ASSUME prov \notin Lazy \cup Generators
             PROVE  /\ Alike'
                    /\ \A v \in Workers : Usable(prov', stores'[worker'[v].store], worker'[v], receiver')
  BY DEF Inv3
<1>1. worker \in [Workers -> WorkerType] BY DEF Inv, TypeOK
<1>2. worker' = [worker EXCEPT ![w] = new] BY DEF Only
<1>3. Alike' BY DEF Inv3, Alike
<1>4. ASSUME NEW v \in Workers PROVE Usable(prov', stores'[worker'[v].store], worker'[v], receiver')
  <2>1. CASE v = w
    <3>1. worker'[v] = new BY <1>1, <1>2, <2>1
    <3> QED BY <3>1, EagerProvider
  <2>2. CASE v # w
    <3>1. worker'[v] = worker[v] BY <1>1, <1>2, <2>2
    <3>2. Usable(prov, stores[worker[v].store], worker[v], receiver) BY DEF Inv3
    <3> QED BY <3>1, <3>2
  <2> QED BY <2>1, <2>2
<1> QED BY <1>3, <1>4

(* What is known of the values of a reconcile that is under way.           *)
LEMMA AtStep3 ==
  ASSUME Inv, Inv3, prov \in Eager, NEW w \in Workers, worker[w].pc \in {"new", "validate", "use"}
  PROVE  /\ Usable(prov, Mine(w), worker[w], receiver)
         /\ worker[w] \in WorkerType /\ Context(prov, Mine(w), worker[w].ns)
<1>1. prov \notin Lazy \cup Generators BY DEF Eager
<1>2. Usable(prov, Mine(w), worker[w], receiver) BY <1>1 DEF Inv3, Mine
<1>3. WorkerOK(prov, Mine(w), worker[w]) /\ worker[w] \in WorkerType BY DEF Inv, TypeOK, Mine
<1>4. Context(prov, Mine(w), worker[w].ns) BY <1>3 DEF WorkerOK, Placed
<1> QED BY <1>2, <1>3, <1>4

(* Where a singleton's client has not been published, it will be.          *)
LEMMA NotYetShared ==
  ASSUME NEW x \in WorkerType, NEW rec, Sharing(x, rec), x.pc = "new", x.plan # <<>>
  PROVE  IF Head(x.plan).do = "share" THEN Len(x.plan) = 1 /\ Tail(x.plan) = <<>>
         ELSE Tail(x.plan) # <<>>
<1> DEFINE q == x.plan
<1>1. q \in Seq(StepType) /\ q # <<>> BY DEF WorkerType
<1>2. q[Len(q)].do = "share" /\ \A i \in 1 .. (Len(q) - 1) : q[i].do # "share" BY DEF Sharing
<1> HIDE DEF q
<1>3. Len(q) \in Nat /\ Len(q) > 0 /\ Head(q) = q[1] /\ Tail(q) \in Seq(StepType)
      /\ Len(Tail(q)) = Len(q) - 1
  BY <1>1, TailIndex
<1>4. Tail(q) = <<>> => Len(q) = 1 BY <1>1, Rest
<1>5. CASE q[1].do = "share"
  <2>1. ~(1 \in 1 .. (Len(q) - 1)) BY <1>2, <1>5
  <2>2. Len(q) = 1 BY <1>3, <2>1
  <2> DEFINE t == Tail(q)
  <2>3. t \in Seq(StepType) /\ Len(t) = 0 BY <1>3, <2>2
  <2> HIDE DEF t
  <2>4. t = <<>> BY <2>3, NoneLeft
  <2> QED BY <1>3, <1>5, <2>2, <2>4 DEF q, t
<1>6. CASE q[1].do # "share"
  <2>1. Len(q) # 1 BY <1>2, <1>6
  <2> QED BY <1>3, <1>4, <1>6, <2>1 DEF q
<1> QED BY <1>5, <1>6

(* A step is taken.                                                        *)
LEMMA StepsUse ==
  ASSUME Inv, Inv2, Inv3, NEW w \in Workers, Ready(w), Step(w).do # "share",
         NEW y \in WorkerType, Only(w, y), prov' = prov, stores' = stores, receiver' = receiver,
         y.pc = worker[w].pc, y.role = worker[w].role, y.ns = worker[w].ns,
         y.store = worker[w].store, y.deferred = worker[w].deferred, y.plan = Tail(worker[w].plan),
         prov \in Eager /\ (prov \in Singletons => worker[w].pc = "new") =>
           \A f \in Needed(prov, Mine(w)) : Carries(Step(w), f, worker[w].held[f].val, y.held[f].val)
  PROVE  Inv3'
<1> DEFINE x == worker[w]
           s == Mine(w)
<1>1. x \in WorkerType /\ x.pc \in {"new", "validate", "use"} /\ Step(w) = Head(x.plan) /\ x.plan # <<>>
  BY AtStep
<1>2. prov \in Singletons => Sharing(x, receiver) BY AtStep2
<1>3. prov \in Eager => Usable(prov, s, x, receiver) /\ Context(prov, s, x.ns) BY <1>1, AtStep3
<1>4. s = stores[y.store] BY DEF Mine
<1>5. /\ y.pc = x.pc /\ y.role = x.role /\ y.ns = x.ns /\ y.deferred = x.deferred
      /\ y.plan = Tail(x.plan) /\ Head(x.plan).do # "share"
      /\ prov \in Eager /\ (prov \in Singletons => x.pc = "new") =>
           \A f \in Needed(prov, s) : Carries(Head(x.plan), f, x.held[f].val, y.held[f].val)
  BY <1>1
<1> HIDE DEF x, s
<1>6. ASSUME prov \in Eager PROVE Usable(prov, s, y, receiver)
  <2>1. CASE prov \in Singletons => x.pc = "new"
    <3>1. prov \in Singletons /\ x.pc = "new" => y.plan # <<>> BY <1>1, <1>2, <1>5, NotYetShared
    <3> QED BY <1>1, <1>3, <1>5, <1>6, <2>1, <3>1, UsableStep
  <2>2. CASE prov \in Singletons /\ x.pc # "new" BY <1>1, <1>3, <1>5, <1>6, <2>2, UsableCall
  <2> QED BY <2>1, <2>2
<1> QED BY <1>4, <1>6, Updated4

(* A step fails: Validate may still leave the store Ready, for Kubernetes  *)
(* and Oracle, which has all it needs by then.                             *)
LEMMA FailsUse ==
  ASSUME Inv, Inv3, NEW w \in Workers, Ready(w), NEW z \in Failed(w), NEW y \in WorkerType,
         Only(w, y), prov' = prov, stores' = stores, receiver' = receiver,
         y.pc = "done", y.role = z.role, y.result = z.result, y.held = z.held, y.store = z.store
  PROVE  Inv3'
<1> DEFINE x == worker[w]
           s == Mine(w)
<1>1. x \in WorkerType /\ x.pc \in {"new", "validate", "use"} BY AtStep
<1>2. z.store = x.store /\ z.role = x.role /\ z.held = x.held BY Fails
<1>3. z.result = "Error" \/ (x.pc = "validate" /\ prov \in {"kubernetes", "oracle"})
  <2>1. PICK r \in {"Error", "Unknown"} :
          /\ z = [worker[w] EXCEPT !.pc = "done", !.result = r]
          /\ r = "Error" \/ (worker[w].pc = "validate" /\ prov \in {"kubernetes", "oracle"})
    BY DEF Failed, WhenCallFails
  <2>2. z.result = r BY <1>1, <2>1 DEF WorkerType
  <2> QED BY <2>1, <2>2
<1>4. s = stores[y.store] BY <1>2 DEF Mine
<1>5. prov \in Eager => Usable(prov, s, x, receiver) BY <1>1, AtStep3
<1> HIDE DEF x, s
<1>6. ASSUME prov \in Eager PROVE Usable(prov, s, y, receiver)
  <2>1. CASE z.result = "Error" BY <2>1, UsableEnd
  <2>2. CASE x.pc = "validate" /\ prov \in {"kubernetes", "oracle"}
    <3>1. prov \notin Singletons BY <2>2 DEF Singletons
    <3>2. ASSUME y.role = "store", NEW f \in Needed(prov, s) PROVE y.held[f].val = "value"
      <4>1. Checking(prov, s, x) BY <1>2, <1>5, <1>6, <3>1, <3>2 DEF Usable
      <4>2. Secured(x.plan, x.held[f].val, f) /\ \A i \in 1 .. Len(x.plan) : x.plan[i].do = "call"
        BY <2>2, <3>2, <4>1 DEF Checking
      <4>3. \A i \in 1 .. Len(x.plan) : ~Opens(x.plan[i], f) /\ ~Settles(x.plan[i], f)
        BY <4>2 DEF Opens, Settles, Vouches, Stops
      <4>4. f \in Fields BY <1>6, <3>2, NeededFields
      <4>5. x.held[f].val \in Vals BY <1>1, <4>4, ValueTyped
      <4>6. x.held[f].val = "value" BY <4>2, <4>3, <4>5, SecuredDone
      <4> QED BY <1>2, <4>6
    <3>3. Outcome(prov, s, y) BY <3>2 DEF Outcome, AllThere
    <3> QED BY <3>1, <3>3 DEF Usable, Checking
  <2> QED BY <1>3, <2>1, <2>2
<1> QED BY <1>4, <1>6, Updated4

(* A client is made.                                                       *)
LEMMA StartUses == ASSUME Inv, Inv3, NEW w \in Workers, Start(w) PROVE Inv3'
<1>1. PICK id \in StoreIds, role \in {"store", "secret"}, n \in NsNames :
        /\ n = "" => Cluster(stores[id])
        /\ Only(w, [Idle EXCEPT !.pc = "new", !.role = role, !.store = id, !.ns = n,
                                !.plan = NewClient(prov, stores[id], n)])
  BY DEF Start, NsNames
<1> DEFINE s == stores[id]
           q == NewClient(prov, s, n)
           new == [Idle EXCEPT !.pc = "new", !.role = role, !.store = id, !.ns = n, !.plan = q]
<1>2. Context(prov, s, n) BY <1>1 DEF Inv, TypeOK, Context
<1>3. /\ new.pc = "new" /\ new.store = id /\ new.plan = q /\ new.held = NoCreds /\ new.ns = n
      /\ new.deferred = FALSE
  BY DEF Idle
<1>4. prov \in Singletons => q # <<>> BY <1>2, SingletonPlan
<1>5. prov \in Eager => \A i \in 1 .. Len(q) : q[i].do = "placeholder" => Defers(prov, s, TRUE)
  BY <1>2, ExcusedStart
<1>6. prov \in Eager => \A f \in Needed(prov, s) :
        /\ prov \in Singletons => Secured(q, "", f)
        /\ Secured(q \o ValidateCalls(prov, s, n), "", f)
  BY <1>2, SecuredStart
<1>7. Only(w, new) BY <1>1
<1> HIDE DEF q, new
<1>8. \A f \in Fields : new.held[f].val = ""
  <2>1. \A f \in Fields : new.held[f] = Nothing BY <1>3 DEF NoCreds
  <2>2. Nothing.val = "" BY DEF Nothing
  <2> QED BY <2>1, <2>2
<1>9. ASSUME prov \in Eager PROVE Usable(prov, s, new, receiver)
  <2>1. Excused(prov, s, new) BY <1>3, <1>5, <1>9 DEF Excused
  <2>2. \A f \in Needed(prov, s) : new.held[f].val = "" BY <1>8, <1>9, NeededFields
  <2>3. Checking(prov, s, new) BY <1>3, <1>6, <1>9, <2>2 DEF Checking
  <2>4. prov \in Singletons => Publishing(prov, s, new, receiver)
    BY <1>3, <1>4, <1>6, <1>9, <2>2 DEF Publishing
  <2> QED BY <1>3, <2>1, <2>3, <2>4 DEF Usable, Outcome
<1>10. prov' = prov /\ stores' = stores /\ receiver' = receiver BY DEF Start
<1> QED BY <1>3, <1>7, <1>9, <1>10, Updated4

(* What a step does that leaves the credentials alone.                     *)
LEMMA CarriesSame ==
  ASSUME NEW st, NEW f, NEW v, st.do \notin {"take", "check"} \cup Stops,
         st.do = "read" => st.need = "try", st.do = "login" => v # "empty"
  PROVE  Carries(st, f, v, v)
BY DEF Carries, Opens, Vouches

(* A key of a Secret already read.                                         *)
LEMMA TakeUses == ASSUME Inv, Inv2, Inv3, NEW w \in Workers, TakeFrom(w) PROVE Inv3'
<1>1. Doing(w, "take") /\ Ready(w) /\ Step(w).do = "take" BY DEF TakeFrom, Doing
<1>2. prov' = prov /\ stores' = stores /\ receiver' = receiver BY DEF TakeFrom
<1>3. PICK val \in {"value", "empty"} :
        Only(w, [Advance(w) EXCEPT !.held[Step(w).field] =
                    [worker[w].held[Step(w).from] EXCEPT !.val = val]])
  BY DEF TakeFrom
<1> DEFINE x == worker[w]
           st == Step(w)
           y == [Advance(w) EXCEPT !.held[Step(w).field] =
                    [worker[w].held[Step(w).from] EXCEPT !.val = val]]
<1>4. /\ y \in WorkerType /\ y.plan = Tail(x.plan) /\ y.store = x.store /\ y.ns = x.ns
      /\ y.role = x.role /\ y.pc = x.pc /\ y.deferred = x.deferred
      /\ y.held = [x.held EXCEPT ![st.field] = [x.held[st.from] EXCEPT !.val = val]]
  BY <1>1, TakenTyped
<1>5. x \in WorkerType /\ st \in StepType BY <1>1, AtStep
<1>6. Only(w, y) BY <1>3
<1>7. st.do = "take" BY <1>1
<1> HIDE DEF y
<1>8. ASSUME prov \in Eager, NEW f \in Needed(prov, Mine(w))
      PROVE  Carries(st, f, x.held[f].val, y.held[f].val)
  <2>1. f \in Fields BY <1>8, NeededFields
  <2>2. x.held \in [Fields -> Creds] /\ st.field \in Fields /\ st.from \in Fields
    BY <1>5 DEF WorkerType, StepType
  <2> DEFINE c == [x.held[st.from] EXCEPT !.val = val]
  <2>3. c.val = val BY <2>2 DEF Creds
  <2>4. y.held = [x.held EXCEPT ![st.field] = c] BY <1>4
  <2> HIDE DEF c, x, st
  <2>5. y.held[f].val = IF st.field = f THEN val ELSE x.held[f].val BY <2>1, <2>2, <2>3, <2>4
  <2> QED BY <1>7, <2>5 DEF Carries, Opens, Vouches, Stops
<1>9. Step(w).do # "share" BY <1>1
<1> QED BY <1>1, <1>2, <1>4, <1>6, <1>8, <1>9, StepsUse

(* The credentials of a client that is not a singleton's, or is still      *)
(* being made.                                                             *)
LEMMA EffectiveOwn ==
  ASSUME Inv, NEW w \in Workers, prov \in Singletons => worker[w].pc = "new", NEW f \in {"a", "b", "sa"}
  PROVE  Effective(w)[f] = worker[w].held[f]
<1>1. worker[w] \in WorkerType BY DEF Inv, TypeOK
<1>2. worker[w].held \in [Fields -> Creds] BY <1>1 DEF WorkerType
<1> QED BY <1>2 DEF Effective, Fields

(* A check, a call or a login.                                             *)
LEMMA CallsUse ==
  ASSUME Inv, Inv2, Inv3, NEW w \in Workers, CheckValue(w) \/ CallOk(w) \/ CallFails(w)
  PROVE  Inv3'
<1>1. Ready(w) /\ Step(w).do \in {"check", "call", "login"}
  BY DEF CheckValue, CallOk, CallFails, Doing
<1>2. prov' = prov /\ stores' = stores /\ receiver' = receiver
  BY DEF CheckValue, CallOk, CallFails
<1> DEFINE x == worker[w]
           st == Step(w)
<1>3. \/ Fail(w)
      \/ Only(w, Advance(w)) /\ st.do = "check" /\ x.held[st.field].val = "value"
      \/ Only(w, Advance(w)) /\ st.do \in {"call", "login"} /\ (st.do = "login" => Accepted(w))
  BY DEF CheckValue, CallOk, CallFails, Doing
<1>4. CASE Fail(w)
  <2>1. PICK z \in Failed(w) : Only(w, z) BY <1>4 DEF Fail
  <2>2. z \in WorkerType /\ z.pc = "done" BY <1>1, Fails
  <2> QED BY <1>1, <1>2, <2>1, <2>2, FailsUse
<1>5. ASSUME Only(w, Advance(w)),
             \A f : prov \in Eager /\ (prov \in Singletons => x.pc = "new") /\ f \in Needed(prov, Mine(w))
                    => Carries(st, f, x.held[f].val, x.held[f].val)
      PROVE  Inv3'
  <2> DEFINE y == Advance(w)
  <2>1. /\ y \in WorkerType /\ y.plan = Tail(x.plan) /\ y.store = x.store /\ y.ns = x.ns
        /\ y.role = x.role /\ y.pc = x.pc /\ y.deferred = x.deferred /\ y.held = x.held
    BY <1>1, KeptTyped
  <2>2. Only(w, y) BY <1>5
  <2>3. Step(w).do # "share" BY <1>1
  <2> HIDE DEF y
  <2>4. prov \in Eager /\ (prov \in Singletons => worker[w].pc = "new") =>
          \A f \in Needed(prov, Mine(w)) : Carries(Step(w), f, worker[w].held[f].val, y.held[f].val)
    BY <1>5, <2>1
  <2> QED BY <1>1, <1>2, <2>1, <2>2, <2>3, <2>4, StepsUse
<1>6. CASE Only(w, Advance(w)) /\ st.do = "check" /\ x.held[st.field].val = "value"
  <2> HIDE DEF x, st
  <2>1. \A f : Carries(st, f, x.held[f].val, x.held[f].val)
    BY <1>6 DEF Carries, Opens, Vouches, Stops
  <2> QED BY <1>5, <1>6, <2>1
<1>7. CASE Only(w, Advance(w)) /\ st.do \in {"call", "login"} /\ (st.do = "login" => Accepted(w))
  <2>1. ASSUME prov \in Eager, prov \in Singletons => x.pc = "new", NEW f, f \in Needed(prov, Mine(w))
        PROVE  Carries(st, f, x.held[f].val, x.held[f].val)
    <3>1. f \in {"a", "b", "sa"} BY <2>1, NeededFields
    <3>2. Effective(w)[f] = x.held[f] BY <2>1, <3>1, EffectiveOwn
    <3>3. st.do = "login" => x.held[f].val # "empty" BY <1>7, <3>1, <3>2 DEF Accepted
    <3>4. st.do \notin {"take", "check"} \cup Stops /\ st.do # "read" BY <1>7 DEF Stops
    <3> HIDE DEF x, st
    <3> QED BY <3>3, <3>4, CarriesSame
  <2> QED BY <1>5, <1>7, <2>1
<1> QED BY <1>3, <1>4, <1>6, <1>7

(* A spec that does not do.                                                *)
LEMMA RefuseUses == ASSUME Inv, Inv3, NEW w \in Workers, Refuse(w) PROVE Inv3'
<1> DEFINE y == [worker[w] EXCEPT !.pc = "done", !.result = Step(w).do]
<1>1. Ready(w) /\ Step(w).do \in {"specerror", "panic"} BY DEF Refuse, Doing
<1>2. prov' = prov /\ stores' = stores /\ receiver' = receiver BY DEF Refuse
<1>3. Only(w, y) BY DEF Refuse
<1>4. worker[w] \in WorkerType BY <1>1, AtStep
<1>5. y.pc = "done" /\ y.result \notin {"Ready", "Unknown"} BY <1>1, <1>4 DEF WorkerType
<1> HIDE DEF y
<1>6. Usable(prov, stores[y.store], y, receiver) BY <1>5, UsableEnd
<1> QED BY <1>2, <1>3, <1>6, Updated4

(* A client that waits for a namespace: its store does too.                *)
LEMMA PlaceholderUses == ASSUME Inv, Inv3, NEW w \in Workers, Placeholder(w) PROVE Inv3'
<1> DEFINE x == worker[w]
           s == Mine(w)
           a == Advance(w)
           y == [a EXCEPT !.deferred = TRUE]
<1>1. Ready(w) /\ Step(w).do = "placeholder" BY DEF Placeholder, Doing
<1>2. prov' = prov /\ stores' = stores /\ receiver' = receiver BY DEF Placeholder
<1>3. Only(w, y) BY DEF Placeholder
<1>4. /\ a \in WorkerType /\ a.plan = Tail(x.plan) /\ a.store = x.store /\ a.role = x.role
      /\ a.pc = x.pc
  BY <1>1, KeptTyped
<1>5. /\ x \in WorkerType /\ x.plan # <<>> /\ x.pc \in {"new", "validate", "use"}
      /\ Head(x.plan).do = "placeholder"
  BY <1>1, AtStep
<1>6. s = stores[a.store] BY <1>4 DEF Mine
<1>7. prov \in Eager => Usable(prov, s, x, receiver) BY <1>5, AtStep3
<1> HIDE DEF a, x, s
<1>8. /\ y.plan = Tail(x.plan) /\ y.store = a.store /\ y.role = x.role /\ y.pc = x.pc
      /\ y.deferred = TRUE
  BY <1>4 DEF WorkerType
<1> HIDE DEF y
<1>9. ASSUME prov \in Eager PROVE Usable(prov, s, y, receiver)
  <2> DEFINE q == x.plan
  <2>1. q \in Seq(StepType) BY <1>5 DEF WorkerType
  <2>2. 1 \in 1 .. Len(q) /\ q[1].do = "placeholder" BY <1>5, <2>1, Shift
  <2>3. x.pc = "new" => Defers(prov, s, TRUE) BY <1>7, <1>9, <2>2 DEF Usable, Excused
  <2>4. x.pc = "new" => Excused(prov, s, y) BY <2>3 DEF Excused
  <2>5. prov \notin Singletons /\ x.role = "store" => x.pc # "validate"
    BY <1>7, <1>9, <2>2 DEF Usable, Checking
  <2>6. prov \notin Singletons /\ y.role = "store" => Checking(prov, s, y)
    BY <1>8, <2>5 DEF Checking
  <2>7. prov \in Singletons => x.pc # "new" BY <2>3 DEF Defers, Singletons
  <2>8. prov \in Singletons => Publishing(prov, s, y, receiver)
    BY <1>7, <1>8, <1>9, <2>7 DEF Usable, Publishing
  <2> QED BY <1>5, <1>7, <1>8, <1>9, <2>4, <2>6, <2>8 DEF Usable, Outcome
<1> QED BY <1>2, <1>3, <1>6, <1>8, <1>9, Updated4

(* The look-up of an object.                                               *)
LEMMA ReadUses == ASSUME Inv, Inv2, Inv3, NEW w \in Workers, Read(w) PROVE Inv3'
<1> DEFINE x == worker[w]
           s == Mine(w)
           st == Step(w)
           note(y) == [y EXCEPT !.reads = @ \cup {<<st.kind, st.ns>>}]
<1>1. Doing(w, "read") /\ Ready(w) /\ st.do = "read" BY DEF Read, Doing
<1>2. prov' = prov /\ stores' = stores /\ receiver' = receiver BY DEF Read
<1>3. PICK ans \in Answers(w) :
        LET val == IF ans = "value" THEN "value" ELSE "empty"
        IN  IF st.need = "try"
            THEN Only(w, note(IF ans = "value" THEN [Keep(w, st, val) EXCEPT !.plan = Tail(@)]
                                               ELSE Advance(w)))
            ELSE IF ans = "absent" \/ (ans = "nokey" /\ st.need = "present")
            THEN \E new \in Failed(w) : Only(w, note(new))
            ELSE Only(w, note(Keep(w, st, val)))
  BY DEF Read
<1> DEFINE val == IF ans = "value" THEN "value" ELSE "empty"
           c == [store |-> x.store, ns |-> st.ns, from |-> st.field, val |-> val]
           kept == Keep(w, st, val)
           skip == [kept EXCEPT !.plan = Tail(@)]
<1>4. val \in {"value", "empty"} /\ (ans = "value" => val = "value") OBVIOUS
<1>5. /\ x \in WorkerType /\ x.plan # <<>> /\ x.pc \in {"new", "validate", "use"}
      /\ st = Head(x.plan) /\ st \in StepType
  BY <1>1, AtStep
<1>6. x.plan \in Plans(prov, s, x.ns) /\ (prov \in Singletons => Sharing(x, receiver))
  BY <1>1, AtStep2
<1>7. /\ Advance(w) \in WorkerType /\ kept \in WorkerType
      /\ \A y \in {Advance(w), kept} :
           /\ y.plan = Tail(x.plan) /\ y.store = x.store /\ y.ns = x.ns /\ y.role = x.role
           /\ y.pc = x.pc /\ y.reads = x.reads /\ y.deferred = x.deferred
      /\ Advance(w).held = x.held /\ kept.held = [x.held EXCEPT ![st.field] = c]
  BY <1>1, <1>4, KeptTyped
<1>8. ASSUME NEW y \in WorkerType, y.reads = x.reads
      PROVE  /\ note(y) \in WorkerType /\ note(y).pc = y.pc /\ note(y).store = y.store
             /\ note(y).ns = y.ns /\ note(y).plan = y.plan /\ note(y).held = y.held
             /\ note(y).result = y.result /\ note(y).role = y.role
             /\ note(y).deferred = y.deferred
  BY <1>1, <1>8, NoteTyped
<1>9. s = stores[x.store] BY DEF Mine
<1>10. st.kind = "Token" /\ ans # "absent" => ans = "value" BY <1>3 DEF Answers
<1>11. x.held \in [Fields -> Creds] /\ st.field \in Fields BY <1>5 DEF WorkerType, StepType
<1>12. ASSUME NEW z \in WorkerType, Only(w, z), z.plan = Tail(x.plan), z.store = x.store,
              z.ns = x.ns, z.role = x.role, z.pc = x.pc, z.deferred = x.deferred,
              \A f \in Fields : Carries(st, f, x.held[f].val, z.held[f].val)
       PROVE  Inv3'
  <2>1. prov \in Eager => \A f \in Needed(prov, Mine(w)) : f \in Fields BY NeededFields
  <2>2. Step(w).do # "share" BY <1>1
  <2>3. prov \in Eager /\ (prov \in Singletons => worker[w].pc = "new") =>
          \A f \in Needed(prov, Mine(w)) : Carries(Step(w), f, worker[w].held[f].val, z.held[f].val)
    BY <1>12, <2>1
  <2> QED BY <1>1, <1>2, <1>12, <2>2, <2>3, StepsUse
<1>13. c.val = val OBVIOUS
<1> HIDE DEF x, s, st, val, kept, c, note
<1>14. ASSUME st.need = "try", Only(w, note(Advance(w))) PROVE Inv3'
  <2> DEFINE z == note(Advance(w))
  <2>1. /\ z \in WorkerType /\ z.plan = Tail(x.plan) /\ z.store = x.store /\ z.ns = x.ns
        /\ z.pc = x.pc /\ z.held = x.held /\ z.role = x.role /\ z.deferred = x.deferred
    BY <1>7, <1>8
  <2> HIDE DEF z
  <2>2. \A f \in Fields : Carries(st, f, x.held[f].val, z.held[f].val)
    BY <1>1, <1>14, <2>1, CarriesSame DEF Stops
  <2>3. Only(w, z) BY <1>14 DEF z
  <2> QED BY <1>12, <2>1, <2>2, <2>3
<1>15. ASSUME st.need # "try", ans # "absent", Only(w, note(kept)) PROVE Inv3'
  <2> DEFINE z == note(kept)
  <2>1. /\ z \in WorkerType /\ z.plan = Tail(x.plan) /\ z.store = x.store /\ z.ns = x.ns
        /\ z.pc = x.pc /\ z.held = [x.held EXCEPT ![st.field] = c] /\ z.role = x.role
        /\ z.deferred = x.deferred
    BY <1>7, <1>8
  <2> HIDE DEF z
  <2>2. ASSUME NEW f \in Fields PROVE Carries(st, f, x.held[f].val, z.held[f].val)
    <3>1. z.held[f].val = IF st.field = f THEN val ELSE x.held[f].val BY <1>11, <1>13, <2>1
    <3>2. st.kind = "Token" => val = "value" BY <1>4, <1>10, <1>15
    <3> QED BY <1>1, <1>4, <1>15, <3>1, <3>2 DEF Carries, Opens, Vouches, Stops
  <2>3. Only(w, z) BY <1>15 DEF z
  <2> QED BY <1>12, <2>1, <2>2, <2>3
<1>16. ASSUME st.need = "try", ans = "value", Only(w, note(skip)) PROVE Inv3'
  <2> DEFINE q == x.plan
  <2>1. Tail(q) # <<>> /\ Tail(Tail(q)) \in Plans(prov, s, x.ns) BY <1>5, <1>6, <1>16, StepOfPlan
  <2>2. Tail(Tail(q)) \in Seq(StepType) BY <2>1, PlanSteps
  <2>3. /\ skip \in WorkerType /\ skip.plan = Tail(Tail(q)) /\ skip.store = x.store
        /\ skip.ns = x.ns /\ skip.pc = x.pc /\ skip.reads = x.reads
        /\ skip.held = kept.held /\ skip.role = x.role /\ skip.deferred = x.deferred
    BY <1>7, <2>2 DEF WorkerType
  <2> DEFINE z == note(skip)
  <2> HIDE DEF skip
  <2>4. /\ z \in WorkerType /\ z.plan = Tail(Tail(q)) /\ z.store = x.store /\ z.ns = x.ns
        /\ z.pc = x.pc /\ z.held = kept.held /\ z.role = x.role /\ z.deferred = x.deferred
    BY <1>8, <2>3
  <2> HIDE DEF z
  <2>5. z.held[st.field].val = "value" BY <1>4, <1>7, <1>11, <1>13, <1>16, <2>4
  <2>6. q \in Seq(StepType) /\ q # <<>> BY <1>5 DEF WorkerType
  <2>7. 1 \in 1 .. Len(q) /\ q[1] = st BY <1>5, <2>6, Shift
  <2>8. prov \notin Singletons
    <3> SUFFICES ASSUME prov \in Singletons PROVE FALSE OBVIOUS
    <3>1. CASE x.pc = "new" BY <1>5, <1>6, <1>16, <2>7, <3>1 DEF Sharing
    <3>2. CASE x.pc # "new" BY <1>1, <1>6, <2>7, <3>2 DEF Sharing
    <3> QED BY <3>1, <3>2
  <2>9. prov \in Eager => Usable(prov, s, x, receiver) /\ Context(prov, s, x.ns)
    BY <1>5, AtStep3 DEF x, s
  <2>10. prov \in Eager => Usable(prov, s, z, receiver)
    BY <1>1, <1>5, <1>16, <2>1, <2>4, <2>5, <2>8, <2>9, UsableSkip
  <2>11. Only(w, z) BY <1>16 DEF z
  <2> QED BY <1>2, <1>9, <2>4, <2>10, <2>11, Updated4
<1>17. ASSUME NEW y \in Failed(w), Only(w, note(y)) PROVE Inv3'
  <2>1. y \in WorkerType /\ y.reads = x.reads /\ y.pc = "done" BY <1>1, Fails DEF x
  <2> DEFINE z == note(y)
  <2>2. /\ z \in WorkerType /\ z.pc = "done" /\ z.role = y.role /\ z.result = y.result
        /\ z.held = y.held /\ z.store = y.store
    BY <1>8, <2>1
  <2>3. Only(w, z) BY <1>17
  <2> HIDE DEF z
  <2> QED BY <1>1, <1>2, <2>2, <2>3, FailsUse
<1> QED BY <1>3, <1>14, <1>15, <1>16, <1>17 DEF val, kept

(* The connection of a Yandex endpoint.                                    *)
LEMMA GetterUses ==
  ASSUME Inv, Inv2, Inv3, NEW w \in Workers, GetOrCreateSecretGetter(w) PROVE Inv3'
<1> DEFINE x == worker[w]
           a == Advance(w)
           b == getter["ca"].store # worker[w].store
           y == [a EXCEPT !.rebound = b]
<1>1. Ready(w) /\ Step(w).do = "getter" BY DEF GetOrCreateSecretGetter, Doing
<1>2. prov' = prov /\ stores' = stores /\ receiver' = receiver BY DEF GetOrCreateSecretGetter
<1>3. /\ a \in WorkerType /\ a.plan = Tail(x.plan) /\ a.store = x.store /\ a.ns = x.ns
      /\ a.role = x.role /\ a.pc = x.pc /\ a.deferred = x.deferred /\ a.held = x.held
  BY <1>1, KeptTyped
<1>4. Only(w, y) \/ Only(w, a) \/ Fail(w) BY DEF GetOrCreateSecretGetter
<1>5. b \in BOOLEAN OBVIOUS
<1> HIDE DEF a, b
<1>6. /\ y \in WorkerType /\ y.plan = Tail(x.plan) /\ y.store = x.store /\ y.ns = x.ns
      /\ y.role = x.role /\ y.pc = x.pc /\ y.deferred = x.deferred /\ y.held = x.held
  BY <1>3, <1>5 DEF WorkerType
<1> HIDE DEF y
<1>7. \A f : Carries(Step(w), f, x.held[f].val, x.held[f].val) BY <1>1, CarriesSame DEF Stops
<1>8. Step(w).do # "share" BY <1>1
<1>9. ASSUME NEW z \in {a, y}, Only(w, z) PROVE Inv3'
  <2>1. /\ z \in WorkerType /\ z.plan = Tail(x.plan) /\ z.store = x.store /\ z.ns = x.ns
        /\ z.role = x.role /\ z.pc = x.pc /\ z.deferred = x.deferred /\ z.held = x.held
    BY <1>3, <1>6
  <2>2. \A f \in Needed(prov, Mine(w)) : Carries(Step(w), f, x.held[f].val, z.held[f].val)
    BY <1>7, <2>1
  <2> QED BY <1>1, <1>2, <1>8, <1>9, <2>1, <2>2, StepsUse
<1>10. CASE Fail(w)
  <2>1. PICK z \in Failed(w) : Only(w, z) BY <1>10 DEF Fail
  <2>2. z \in WorkerType /\ z.pc = "done" BY <1>1, Fails
  <2> QED BY <1>1, <1>2, <2>1, <2>2, FailsUse
<1> QED BY <1>4, <1>9, <1>10

(* The client of a singleton is published: it has what both stores refer   *)
(* to, and so have all that are using the one before it.                   *)
LEMMA ShareUses == ASSUME Inv, Inv2, Inv3, NEW w \in Workers, Share(w) PROVE Inv3'
<1> DEFINE x == worker[w]
           s == Mine(w)
           a == Advance(w)
           R(v) == worker[v].rebound \/ worker[v].pc \in {"validate", "use"}
                                     \/ (worker[v].pc = "new" /\ worker[v].plan = <<>>)
           other(v) == [worker[v] EXCEPT !.rebound = R(v)]
<1> SUFFICES ASSUME prov \notin Lazy \cup Generators PROVE Inv3' BY DEF Share, Inv3
<1>0. prov \in Eager BY EagerProvider
<1>1. Ready(w) /\ Step(w).do = "share" BY DEF Share, Doing
<1>2. prov' = prov /\ stores' = stores /\ receiver' = x.held BY DEF Share, Publish
<1>3. worker' = [v \in Workers |-> IF v = w THEN a ELSE other(v)] BY DEF Share, Publish
<1>4. /\ a \in WorkerType /\ a.plan = Tail(x.plan) /\ a.store = x.store /\ a.ns = x.ns
      /\ a.role = x.role /\ a.pc = x.pc /\ a.deferred = x.deferred /\ a.held = x.held
  BY <1>1, KeptTyped
<1>5. /\ x \in WorkerType /\ x.plan # <<>> /\ x.pc \in {"new", "validate", "use"}
      /\ Head(x.plan).do = "share" /\ Step(w) \in Allowed(prov, s, x.ns)
      /\ x.store \in StoreIds
  BY <1>1, AtStep
<1>6. prov \in Singletons BY <1>1, <1>5 DEF Allowed
<1>7. Sharing(x, receiver) BY <1>1, <1>6, AtStep2
<1>8. s = stores[x.store] BY DEF Mine
<1>9. Usable(prov, s, x, receiver) BY <1>0, <1>5, AtStep3
<1>10. \A v \in Workers : /\ worker[v] \in WorkerType
                          /\ Usable(prov, stores[worker[v].store], worker[v], receiver)
  BY DEF Inv, TypeOK, Inv3
<1>11. Alike BY DEF Inv3
<1> HIDE DEF x, a, s
<1>12. x.pc = "new"
  <2> DEFINE q == x.plan
  <2>1. q \in Seq(StepType) /\ q # <<>> BY <1>5 DEF WorkerType
  <2>2. 1 \in 1 .. Len(q) /\ q[1] = Head(q) BY <2>1, Shift
  <2> QED BY <1>5, <1>7, <2>2 DEF Sharing
<1>13. Len(x.plan) = 1 /\ Tail(x.plan) = <<>> BY <1>5, <1>7, <1>12, NotYetShared
<1>14. ASSUME NEW f \in Needed(prov, s) PROVE x.held[f].val = "value"
  <2> DEFINE q == x.plan
  <2>1. Secured(q, x.held[f].val, f) BY <1>5, <1>6, <1>9, <1>12 DEF Usable, Publishing
  <2>2. q \in Seq(StepType) /\ q # <<>> BY <1>5 DEF WorkerType
  <2>3. q[1].do = "share" BY <1>5, <2>2, Shift
  <2>4. Len(q) = 1 BY <1>13
  <2> HIDE DEF q
  <2>5. \A i \in 1 .. Len(q) : i = 1 BY <2>4
  <2>6. \A i \in 1 .. Len(q) : ~Opens(q[i], f) /\ ~Settles(q[i], f)
    BY <2>3, <2>5 DEF Opens, Settles, Vouches, Stops
  <2>7. f \in Fields BY <1>0, NeededFields
  <2>8. x.held[f].val \in Vals BY <1>5, <2>7, ValueTyped
  <2> QED BY <2>1, <2>6, <2>8, SecuredDone
<1>15. ASSUME NEW id \in StoreIds PROVE AllThere(prov, stores[id], x.held)
  <2>1. Needed(prov, stores[id]) = Needed(prov, s)
    BY <1>5, <1>6, <1>8, <1>11 DEF Alike, StoreIds
  <2> QED BY <1>14, <2>1 DEF AllThere
<1>16. Usable(prov, stores[a.store], a, x.held)
  <2>1. Excused(prov, s, x) BY <1>9, <1>12 DEF Usable
  <2>2. Excused(prov, s, a) BY <1>4, <1>5, <2>1, ExcusedStep
  <2>3. Publishing(prov, s, a, x.held) BY <1>4, <1>5, <1>8, <1>13, <1>15 DEF Publishing
  <2> QED BY <1>4, <1>6, <1>8, <1>12, <2>2, <2>3 DEF Usable, Outcome
<1>17. ASSUME NEW v \in Workers, v # w
       PROVE  Usable(prov, stores[other(v).store], other(v), x.held)
  <2> DEFINE o == worker[v]
             z == other(v)
  <2>1. o \in WorkerType /\ Usable(prov, stores[o.store], o, receiver) BY <1>10
  <2>2. z = [o EXCEPT !.rebound = R(v)] OBVIOUS
  <2> HIDE DEF R, o, other, z
  <2>3. /\ z.pc = o.pc /\ z.plan = o.plan /\ z.held = o.held /\ z.store = o.store /\ z.ns = o.ns
        /\ z.result = o.result /\ z.role = o.role /\ z.deferred = o.deferred
    BY <2>1, <2>2 DEF WorkerType
  <2> DEFINE t == stores[o.store]
  <2>4. AllThere(prov, t, x.held) BY <1>15, <2>1 DEF WorkerType
  <2>5. Usable(prov, t, o, receiver) BY <2>1
  <2> HIDE DEF t
  <2>6. o.pc = "new" => Excused(prov, t, z) BY <2>3, <2>5 DEF Usable, Excused
  <2>7. Publishing(prov, t, z, x.held) BY <1>6, <2>3, <2>4, <2>5 DEF Usable, Publishing
  <2>8. Outcome(prov, t, z) BY <2>3, <2>5 DEF Usable, Outcome
  <2>9. Usable(prov, t, z, x.held) BY <1>6, <2>3, <2>5, <2>6, <2>7, <2>8 DEF Usable
  <2> QED BY <2>3, <2>9 DEF t, z
<1> HIDE DEF other
<1>18. ASSUME NEW v \in Workers
       PROVE  Usable(prov', stores'[worker'[v].store], worker'[v], receiver')
  <2>1. CASE v = w BY <1>2, <1>3, <1>16, <2>1
  <2>2. CASE v # w BY <1>2, <1>3, <1>17, <2>2
  <2> QED BY <2>1, <2>2
<1>19. Alike' BY <1>2, <1>11 DEF Alike
<1> QED BY <1>18, <1>19 DEF Inv3

(* The client is made: Validate has nothing left to see to but what it     *)
(* sees to itself, unless the store leaves its credentials to others.      *)
LEMMA MadeUses == ASSUME Inv, Inv3, NEW w \in Workers, Made(w) PROVE Inv3'
<1> DEFINE x == worker[w]
           s == Mine(w)
           use == [x EXCEPT !.pc = "use", !.plan = UseClient(prov, s, x.ns)]
           val == [x EXCEPT !.pc = "validate", !.plan = ValidateCalls(prov, s, x.ns)]
           end == [x EXCEPT !.pc = "done", !.result = "Unknown"]
<1>1. x.pc = "new" /\ x.plan = <<>> BY DEF Made
<1>2. prov' = prov /\ stores' = stores /\ receiver' = receiver BY DEF Made
<1>3. x \in WorkerType /\ s = stores[x.store] BY DEF Inv, TypeOK, Mine
<1>4. prov \in Eager => Usable(prov, s, x, receiver) /\ Context(prov, s, x.ns) BY <1>1, AtStep3
<1>5. prov \in Eager /\ prov \in Singletons => AllThere(prov, s, receiver)
  BY <1>1, <1>4 DEF Usable, Publishing
<1>6. CASE x.role = "secret"
  <2>1. use.pc = "use" /\ use.role = "secret" /\ use.store = x.store BY <1>3, <1>6 DEF WorkerType
  <2>2. Only(w, use) BY <1>6 DEF Made
  <2> HIDE DEF use, x, s
  <2>3. prov \in Eager => Usable(prov, s, use, receiver)
    BY <1>5, <2>1 DEF Usable, Publishing, Outcome
  <2> QED BY <1>2, <1>3, <2>1, <2>2, <2>3, Updated4
<1>7. CASE x.role # "secret" /\ Defers(prov, s, x.deferred)
  <2>1. /\ end.pc = "done" /\ end.result = "Unknown" /\ end.deferred = x.deferred
        /\ end.store = x.store
    BY <1>3 DEF WorkerType
  <2>2. Only(w, end) BY <1>7 DEF Made
  <2> HIDE DEF end, x, s
  <2>3. Outcome(prov, s, end) BY <1>7, <2>1 DEF Outcome
  <2>4. Usable(prov, s, end, receiver) BY <2>1, <2>3 DEF Usable, Checking, Publishing
  <2> QED BY <1>2, <1>3, <2>1, <2>2, <2>4, Updated4
<1>8. CASE x.role # "secret" /\ ~Defers(prov, s, x.deferred)
  <2> DEFINE q == ValidateCalls(prov, s, x.ns)
  <2>1. /\ val.pc = "validate" /\ val.plan = q /\ val.store = x.store /\ val.held = x.held
        /\ val.ns = x.ns
    BY <1>3 DEF WorkerType
  <2>2. Only(w, val) BY <1>8 DEF Made
  <2>3. x.role = "store" BY <1>3, <1>8 DEF WorkerType
  <2> HIDE DEF val, x, s
  <2>4. ASSUME prov \in Eager PROVE Usable(prov, s, val, receiver)
    <3>1. Excused(prov, s, x) BY <1>1, <1>4, <2>4 DEF Usable
    <3>2. ~x.deferred BY <1>8, <3>1 DEF Excused, Defers
    <3>3. q \in Seq(Tidy(Plain, {})) /\ (prov \in {"kubernetes", "oracle"} => q = Do("call"))
      BY <1>4, <2>4, ValidateGood
    <3>4. prov \notin Singletons => \A f \in Needed(prov, s) : Secured(<<>> \o q, x.held[f].val, f)
      BY <1>1, <1>4, <2>3, <2>4, <3>2 DEF Usable, Checking
    <3> HIDE DEF q
    <3>5. <<>> \o q = q BY <3>3
    <3>6. \A i \in 1 .. Len(q) : q[i] \in Tidy(Plain, {}) BY <3>3
    <3>7. \A i \in 1 .. Len(q) : q[i].do # "placeholder" BY <3>6 DEF Tidy, Plain
    <3>8. ASSUME prov \in {"kubernetes", "oracle"} PROVE \A i \in 1 .. Len(q) : q[i].do = "call"
      <4> DEFINE st == [Blank EXCEPT !.do = "call"]
      <4>1. q = <<st>> BY <3>3, <3>8 DEF Do
      <4>2. st.do = "call" BY DEF Blank
      <4> HIDE DEF st
      <4> QED BY <4>1, <4>2
    <3>9. prov \notin Singletons => Checking(prov, s, val)
      BY <2>1, <3>4, <3>5, <3>7, <3>8 DEF Checking
    <3>10. prov \in Singletons => Publishing(prov, s, val, receiver)
      BY <1>5, <2>1, <2>4 DEF Publishing
    <3> QED BY <2>1, <3>9, <3>10 DEF Usable, Outcome
  <2> QED BY <1>2, <1>3, <2>1, <2>2, <2>4, Updated4
<1> QED BY <1>6, <1>7, <1>8

(* The reconcile has come to its end.                                      *)
LEMMA FinishUses == ASSUME Inv, Inv3, NEW w \in Workers, Finish(w) PROVE Inv3'
<1> DEFINE x == worker[w]
           s == Mine(w)
           h == Effective(w)
           r == IF worker[w].role = "store" THEN "Ready" ELSE "Used"
           y == [worker[w] EXCEPT !.pc = "done", !.held = Effective(w), !.result = r]
<1>1. x.pc \in {"validate", "use"} /\ x.plan = <<>> BY DEF Finish
<1>2. prov' = prov /\ stores' = stores /\ receiver' = receiver BY DEF Finish
<1>3. Only(w, y) BY DEF Finish
<1>4. x \in WorkerType /\ s = stores[x.store] BY DEF Inv, TypeOK, Mine
<1>5. y.pc = "done" /\ y.held = h /\ y.store = x.store /\ y.role = x.role
  BY <1>4 DEF WorkerType
<1>6. prov \in Eager => Usable(prov, s, x, receiver) BY <1>1, AtStep3
<1>7. prov \in Singletons => h = receiver BY <1>1 DEF Effective
<1>8. prov \notin Singletons => \A f \in {"a", "b", "sa"} : h[f] = x.held[f] BY EffectiveOwn
<1> HIDE DEF x, s, h, y
<1>9. ASSUME prov \in Eager PROVE Usable(prov, s, y, receiver)
  <2>1. CASE x.role # "store" BY <1>5, <2>1 DEF Usable, Outcome, Publishing
  <2>2. CASE x.role = "store" /\ prov \in Singletons
    <3>1. AllThere(prov, s, y.held) BY <1>1, <1>5, <1>6, <1>7, <1>9, <2>2 DEF Usable, Publishing
    <3> QED BY <1>5, <2>2, <3>1 DEF Usable, Publishing, Outcome
  <2>3. CASE x.role = "store" /\ prov \notin Singletons
    <3>1. x.pc = "validate" BY <1>1, <1>6, <1>9, <2>3 DEF Usable
    <3>2. ASSUME NEW f \in Needed(prov, s) PROVE y.held[f].val = "value"
      <4>1. Secured(<<>>, x.held[f].val, f) BY <1>1, <1>6, <1>9, <2>3, <3>1 DEF Usable, Checking
      <4>2. f \in {"a", "b", "sa"} /\ f \in Fields BY <1>9, NeededFields
      <4>3. x.held[f].val \in Vals BY <1>4, <4>2, ValueTyped
      <4>4. \A i \in 1 .. Len(<<>>) : FALSE OBVIOUS
      <4>5. x.held[f].val = "value" BY <4>1, <4>3, <4>4, SecuredDone
      <4> QED BY <1>5, <1>8, <2>3, <4>2, <4>5
    <3>3. AllThere(prov, s, y.held) BY <3>2 DEF AllThere
    <3> QED BY <1>5, <2>3, <3>3 DEF Usable, Checking, Outcome
  <2> QED BY <2>1, <2>2, <2>3
<1> QED BY <1>2, <1>3, <1>4, <1>5, <1>9, Updated4

(* A store names nothing that its method has no use for.                   *)
LEMMA OnlyReferences ==
  ASSUME NEW p \in Singletons, NEW s \in StoresOf(p)
  PROVE  \A f \in {"a", "b", "sa"} : IsSet(s, f) => f \in References(p, s.method)
<1> DEFINE K == IF p \in Generators THEN {"Generator"} ELSE {"SecretStore", "ClusterSecretStore"}
           Made1(m, ca) == {[kind |-> k, method |-> m, ns |-> ns, ca |-> ca, plain |-> pl] :
                              k \in K, ns \in NamedIn(p, m, ca), pl \in BOOLEAN}
<1>1. StoresOf(p) = UNION {UNION {Made1(m, ca) : ca \in CAKinds(p, m)} : m \in Methods(p)}
  BY DEF StoresOf
<1> HIDE DEF Made1
<1>2. PICK m \in Methods(p) : s \in UNION {Made1(m, ca) : ca \in CAKinds(p, m)} BY <1>1
<1>3. PICK ca \in CAKinds(p, m) : s \in Made1(m, ca) BY <1>2
<1>4. PICK k \in K, ns \in NamedIn(p, m, ca), pl \in BOOLEAN :
        s = [kind |-> k, method |-> m, ns |-> ns, ca |-> ca, plain |-> pl]
  BY <1>3 DEF Made1
<1>5. ASSUME NEW f \in {"a", "b", "sa"}, ns[f] # "unset" PROVE f \in References(p, m)
  <2> DEFINE refs == References(p, m) \cup (IF ca \in {"Secret", "ConfigMap"} THEN {"ca"} ELSE {})
  <2>1. PICK g \in [refs -> {"unset", "nil"} \cup Namespaces] :
               ns = [e \in Fields |-> IF e \in refs THEN g[e] ELSE "unset"]
    BY DEF NamedIn
  <2>2. f \in Fields /\ f # "ca" BY <1>5 DEF Fields
  <2>3. f \in refs => f \in References(p, m) BY <2>2
  <2> HIDE DEF refs
  <2> QED BY <1>5, <2>1, <2>2, <2>3
<1>6. s.method = m /\ s.ns = ns BY <1>4
<1> QED BY <1>5, <1>6 DEF IsSet

(* At the start nothing is claimed, and the stores of a singleton refer to *)
(* the same things.                                                        *)
LEMMA InitUses == Init => Inv3
<1> SUFFICES ASSUME Init PROVE Inv3 OBVIOUS
<1>1. Alike
  <2> SUFFICES ASSUME prov \in Singletons
               PROVE  Needed(prov, stores["s1"]) = Needed(prov, stores["s2"])
    BY DEF Alike
  <2>1. PICK x \in StoresOf(prov), y \in StoresOf(prov) :
          /\ \A f \in Fields : IsSet(y, f) <=> IsSet(x, f)
          /\ stores = [id \in StoreIds |-> IF id = "s1" THEN x ELSE y]
    BY DEF Init
  <2>2. stores["s1"] = x /\ stores["s2"] = y BY <2>1 DEF StoreIds
  <2>3. /\ \A f \in {"a", "b", "sa"} : IsSet(x, f) => f \in References(prov, x.method)
        /\ \A f \in {"a", "b", "sa"} : IsSet(y, f) => f \in References(prov, y.method)
    BY OnlyReferences
  <2>4. \A m : References(prov, m) \ {"c"} \subseteq {"a", "b", "sa"} BY DEF References
  <2>5. {"a", "b", "sa"} \subseteq Fields BY DEF Fields
  <2>6. \A f : f \in Needed(prov, x) <=> f \in {"a", "b", "sa"} /\ IsSet(x, f)
    BY <2>3, <2>4 DEF Needed
  <2>7. \A f : f \in Needed(prov, y) <=> f \in {"a", "b", "sa"} /\ IsSet(y, f)
    BY <2>3, <2>4 DEF Needed
  <2>8. Needed(prov, x) = Needed(prov, y) BY <2>1, <2>5, <2>6, <2>7
  <2> QED BY <2>2, <2>8
<1>2. worker = [w \in Workers |-> Idle] BY DEF Init
<1>3. Idle.pc = "idle" BY DEF Idle
<1>4. ASSUME NEW w \in Workers PROVE Usable(prov, stores[worker[w].store], worker[w], receiver)
  <2>1. worker[w].pc = "idle" BY <1>2, <1>3
  <2> QED BY <2>1 DEF Usable, Checking, Publishing, Outcome
<1> QED BY <1>1, <1>4 DEF Inv3

(* What is left of each plan, and the calls of Validate, see to every      *)
(* credential; the client that a singleton publishes has them all.         *)
THEOREM Usability == Spec => []Inv3
<1>1. Inv /\ Inv2 /\ Inv3 /\ [Next]_vars => Inv3'
  <2> SUFFICES ASSUME Inv, Inv2, Inv3, [Next]_vars PROVE Inv3' OBVIOUS
  <2>1. CASE Next
    <3>1. PICK w \in Workers :
            \/ Start(w) \/ Read(w) \/ TakeFrom(w) \/ CheckValue(w) \/ CallOk(w) \/ CallFails(w)
            \/ Refuse(w) \/ Placeholder(w) \/ Share(w) \/ GetOrCreateSecretGetter(w)
            \/ Made(w) \/ Finish(w)
      BY <2>1 DEF Next
    <3>2. CASE Start(w) BY <3>2, StartUses
    <3>3. CASE Read(w) BY <3>3, ReadUses
    <3>4. CASE TakeFrom(w) BY <3>4, TakeUses
    <3>5. CASE CheckValue(w) \/ CallOk(w) \/ CallFails(w) BY <3>5, CallsUse
    <3>6. CASE Refuse(w) BY <3>6, RefuseUses
    <3>7. CASE Placeholder(w) BY <3>7, PlaceholderUses
    <3>8. CASE Share(w) BY <3>8, ShareUses
    <3>9. CASE GetOrCreateSecretGetter(w) BY <3>9, GetterUses
    <3>10. CASE Made(w) BY <3>10, MadeUses
    <3>11. CASE Finish(w) BY <3>11, FinishUses
    <3> QED BY <3>1, <3>2, <3>3, <3>4, <3>5, <3>6, <3>7, <3>8, <3>9, <3>10, <3>11
  <2>2. CASE UNCHANGED vars BY <2>2 DEF vars, Inv3, Alike
  <2> QED BY <2>1, <2>2
<1> QED BY <1>1, InitUses, Invariance, Ownership, PTL DEF Spec

(* A store whose condition says Ready leaves its credentials to each       *)
(* ExternalSecret, or every Secret and ServiceAccount it refers to was     *)
(* found with a value, whatever the reconciles of other stores did to the  *)
(* client they share.                                                      *)
THEOREM ReadyStoresAreUsable == Spec => []ReadyMeansUsable
<1>1. Inv /\ Inv3 => ReadyMeansUsable
  <2> SUFFICES ASSUME Inv, Inv3, NEW w \in Workers, StoreReady(w), prov \notin Lazy
               PROVE  \/ worker[w].result = "Unknown" /\ Defers(prov, Mine(w), worker[w].deferred)
                      \/ \A f \in References(prov, Mine(w).method) \ {"c"} :
                           IsSet(Mine(w), f) => worker[w].held[f].val = "value"
    BY DEF ReadyMeansUsable
  <2>1. /\ worker[w].pc = "done" /\ worker[w].role = "store"
        /\ worker[w].result \in {"Ready", "Unknown"}
    BY DEF StoreReady
  <2>2. WorkerOK(prov, Mine(w), worker[w]) BY DEF Inv, Mine
  <2>3. prov \notin Generators BY <2>1, <2>2 DEF WorkerOK, Placed
  <2>4. Usable(prov, Mine(w), worker[w], receiver) BY <2>3 DEF Inv3, Mine
  <2>5. \/ worker[w].result = "Unknown" /\ Defers(prov, Mine(w), worker[w].deferred)
        \/ AllThere(prov, Mine(w), worker[w].held)
    BY <2>1, <2>4 DEF Usable, Outcome
  <2> QED BY <2>5 DEF AllThere, Needed
<1> QED BY <1>1, Invariance, Usability, PTL
=============================================================================
