--------------------------- MODULE SessionsProofs ---------------------------
(***************************************************************************)
(* For any number of reconciles, stores, roles, edits and rotations, and   *)
(* any size of the cache: a reconcile works with what was made for its own *)
(* store, its token is valid, its session acts in the store's role, and no *)
(* Vault token is left behind.                                             *)
(*                                                                         *)
(* The proof is in three layers, each an invariant that uses the ones      *)
(* before it: whose the clients and tokens are, who may share them, and    *)
(* where a token that has to be revoked is kept.                           *)
(***************************************************************************)
EXTENDS Sessions, SequenceTheorems, TLAPS

PCs == {"idle", "creds", "get", "remove", "make", "contains", "add", "check", "revoke", "clear",
        "init", "lookup", "login", "use", "close", "assume", "iam"}
Revoking == {"check", "revoke", "clear"}
NSs == {"n1", "n2", ""}
OwnerT == [store : Stores, rev : Nat, cred : Nat, ns : NSs]
RoleNames == {RoleToAssume(i) : i \in Nat}
ClientT == [owner : OwnerT, token : Nat, chain : Seq(RoleNames)]
TokenT == [owner : OwnerT, state : {"live", "revoked", "expired", "dropped"}, expires : Nat]
Keys == {<<s>> : s \in Stores} \cup (Stores \X NSs)
EntryT == [key : Keys, version : Nat, client : Nat]
WorkT == [pc : PCs, store : Stores \cup {""}, ns : NSs, rev : Nat, cred : Nat, client : Nat,
          victim : Nat, next : PCs, role : Nat, base : Seq(RoleNames), token : Nat, since : Nat]

\* Types of the variables.
Types ==
    /\ mode \in {"vault", "aws", "yandex"} /\ cacheOn \in BOOLEAN
    /\ auth \in [Stores -> {"login", "referent", "batch", "static"}]
    /\ rev \in [Stores -> Nat] /\ cred \in [Stores -> Nat]
    /\ cache \in Seq(EntryT) /\ clients \in Seq(ClientT) /\ tokens \in Seq(TokenT)
    /\ now \in Nat /\ work \in [Workers -> WorkT]
    /\ spent \in [runs : Nat, edits : Nat, faults : Nat] /\ overlap \in BOOLEAN

---------------------------------------------------------------------------
(* Whose the clients and tokens are. These operators have the state as     *)
(* arguments: they are used of the states before and after a step.         *)

OwnerOf(j) == [store |-> j.store, rev |-> j.rev, cred |-> j.cred, ns |-> j.ns]
KeyOf(m, o) == IF m = "aws" THEN <<o.store, o.ns>> ELSE <<o.store>>

\* o may be used by a reconcile that would make p.
Matches(m, on, o, p) ==
    /\ o.store = p.store /\ o.rev = p.rev
    /\ m = "aws" => o.ns = p.ns
    /\ ~on => o = p

\* Where a reconcile j can be, and what it has there.
Placed(m, on, j) ==
    /\ j.pc # "idle" => j.store \in Stores
    /\ j.pc \in {"creds", "get", "remove", "make", "iam"} => j.client = 0 /\ j.token = 0
    /\ j.pc \in {"contains", "add", "init", "lookup", "login", "assume", "close"} => j.client # 0
    /\ j.pc \in Revoking => /\ m = "vault" /\ j.victim # 0 /\ j.next \in {"make", "init", "idle"}
                            /\ j.next # "make" <=> j.client # 0
                            /\ ~on => j.next = "idle" /\ j.victim = j.client
    /\ m = "yandex" => /\ j.ns = "n1" /\ j.pc \in {"idle", "creds", "iam", "use"}
                       /\ j.pc = "use" => j.token # 0
    /\ m # "yandex" => j.token = 0 /\ j.pc # "iam" /\ (j.pc = "use" => j.client # 0)
    /\ m # "aws" => j.pc # "assume"
    /\ m = "vault" => j.pc # "creds"
    /\ m # "vault" => j.pc \notin {"contains", "lookup", "login", "close"}
    /\ ~on => j.pc \notin {"get", "remove", "contains", "add"}

\* What it has is its own.
Owned(m, on, cl, tk, j) ==
    /\ j.client \in 0..Len(cl) /\ j.victim \in 0..Len(cl) /\ j.token \in 0..Len(tk)
    /\ j.client # 0 => Matches(m, on, cl[j.client].owner, OwnerOf(j))
    /\ m = "yandex" /\ j.token # 0 => /\ tk[j.token].owner.store = j.store
                                      /\ tk[j.token].owner.cred = j.cred

Fit(m, on, cl, tk, j) == Placed(m, on, j) /\ Owned(m, on, cl, tk, j)
WorkFits == \A w \in Workers : Fit(mode, cacheOn, clients, tokens, work[w])

\* The token of a client was issued to the client's store.
TokenFits(on, tk, c) ==
    /\ c.token \in 0..Len(tk)
    /\ c.token # 0 => LET o == tk[c.token].owner
                      IN  /\ o.store = c.owner.store /\ o.rev = c.owner.rev
                          /\ ~on => o = c.owner
TokensFit == \A c \in 1..Len(clients) : TokenFits(cacheOn, tokens, clients[c])

EntryFits(m, cl, e) ==
    /\ e.client \in 1..Len(cl)
    /\ e.key = KeyOf(m, cl[e.client].owner) /\ e.version = cl[e.client].owner.rev
CacheFits ==
    /\ \A i \in 1..Len(cache) : EntryFits(mode, clients, cache[i])
    /\ ~cacheOn => cache = <<>>

YandexTokens ==
    mode = "yandex" => ~cacheOn /\ \A t \in 1..Len(tokens) : tokens[t].owner.ns = "n1"

Inv1 == Types /\ WorkFits /\ TokensFit /\ CacheFits /\ YandexTokens

---------------------------------------------------------------------------
(* Who may share clients and tokens.                                       *)

\* Until reconciles overlap there is one at a time.
OneAtATime == ~overlap => \A v, w \in Workers : v # w => At(v, "idle") \/ At(w, "idle")

\* Without a cache every reconcile has a client of its own, and always every
\* client has a token of its own.
OwnClients ==
    ~cacheOn => \A v, w \in Workers : v # w /\ work[v].client # 0 => work[v].client # work[w].client
OwnTokens ==
    \A c, d \in 1..Len(clients) :
        c # d /\ clients[c].token # 0 => clients[c].token # clients[d].token

\* An IAM token outlives the client that has it.
TokenOutlives ==
    mode = "yandex" => \A w \in Workers : At(w, "use") =>
        /\ work[w].since <= now /\ now <= work[w].since + Lifetime
        /\ work[w].since + Lifetime < tokens[work[w].token].expires

VaultTokenValid ==
    mode = "vault" /\ Apart => \A w \in Workers : At(w, "use") => Live(TokenOf(work[w].client))

\* The roles assumed so far.
ChainSoFar(on, chain, j) ==
    /\ j.role \in 1..(Len(Roles) + 1)
    /\ ~on => chain = SubSeq(Roles, 1, j.role - 1)
    /\ on /\ j.role > 1 => chain # <<>> /\ chain[Len(chain)] = Roles[j.role - 1]
    /\ j.pc = "assume" => j.role <= Len(Roles) /\ j.base = chain
    /\ j.pc = "use" => j.role = Len(Roles) + 1
RolesInOrder ==
    mode = "aws" /\ Apart => \A w \in Workers :
        /\ work[w].pc \in {"creds", "get", "remove", "make", "add"} => work[w].role = 1
        /\ work[w].pc \in {"init", "assume", "use"} =>
              ChainSoFar(cacheOn, clients[work[w].client].chain, work[w])

Inv2 == OneAtATime /\ OwnClients /\ OwnTokens /\ TokenOutlives /\ VaultTokenValid /\ RolesInOrder

---------------------------------------------------------------------------
(* Where a token that has to be revoked is kept.                           *)

\* Only what may be cached is cached, and only what was cached or logged in
\* for is revoked.
CachedStores ==
    mode = "vault" => \A w \in Workers :
        work[w].pc \in {"get", "remove", "contains", "add"} => UseCache(work[w].store)
NoUserToken ==
    /\ mode = "vault" => \A i \in 1..Len(cache) : auth[clients[cache[i].client].owner.store] # "static"
    /\ \A w \in Workers : work[w].pc \in Revoking =>
          auth[clients[work[w].victim].owner.store] # "static"
UserTokensKept == \A t \in 1..Len(tokens) : Static(t) => tokens[t].state # "revoked"

\* One entry per key, and no more than the cache may have.
OneEntry == \A i, k \in 1..Len(cache) : cache[i].key = cache[k].key => i = k
Bounded == Len(cache) <= CacheSize

Calm == mode = "vault" /\ spent.faults = 0 /\ Apart
Settled(j) == j.pc \in {"init", "lookup", "login", "use", "close"} \/ (j.pc \in Revoking /\ j.next = "init")
Missing(j) == j.pc \in {"make", "contains", "add"} \/ (j.pc \in Revoking /\ j.next = "make")
ClientCached ==
    Calm /\ cacheOn => \A w \in Workers : work[w].store \in Stores /\ UseCache(work[w].store) =>
        /\ Settled(work[w]) => \E i \in 1..Len(cache) : cache[i].client = work[w].client
        /\ Missing(work[w]) => ~Contains(cache, Key(w))

Revocable(t) == Live(t) /\ auth[tokens[t].owner.store] \in {"login", "referent"}
LoginDue == Calm => \A w \in Workers : At(w, "login") => ~Revocable(TokenOf(work[w].client))
ClearDue == Calm => \A w \in Workers : At(w, "clear") => ~Live(TokenOf(work[w].victim))

InCache(t) == \E i \in 1..Len(cache) : TokenOf(cache[i].client) = t
InUse(t) == \E w \in Workers : ~At(w, "idle") /\ work[w].client # 0 /\ TokenOf(work[w].client) = t
BeingRevoked(t) == \E w \in Workers : work[w].pc \in {"check", "revoke"} /\ TokenOf(work[w].victim) = t
Accounted ==
    Calm => \A t \in 1..Len(tokens) : Revocable(t) =>
        BeingRevoked(t) \/ (IF cacheOn THEN InCache(t) ELSE InUse(t))

Inv3 == /\ CachedStores /\ NoUserToken /\ UserTokensKept /\ OneEntry /\ Bounded
        /\ ClientCached /\ LoginDue /\ ClearDue /\ Accounted
---------------------------------------------------------------------------
(* Operations of the cache keep its entries.                               *)
LEMMA IndexInCache ==
    ASSUME NEW c, NEW k, Contains(c, k)
    PROVE  IndexOf(c, k) \in DOMAIN c /\ c[IndexOf(c, k)].key = k /\ EntryOf(c, k).key = k
BY DEF Contains, IndexOf, EntryOf

LEMMA RemovedEntries ==
    ASSUME NEW T, NEW c \in Seq(T), NEW i \in 1..Len(c)
    PROVE  /\ RemoveAt(c, i) \in Seq(T) /\ Len(RemoveAt(c, i)) = Len(c) - 1
           /\ \A n \in 1..(Len(c) - 1) : RemoveAt(c, i)[n] = IF n < i THEN c[n] ELSE c[n + 1]
<1> DEFINE a == SubSeq(c, 1, i - 1)
           b == SubSeq(c, i + 1, Len(c))
<1>1. a \in Seq(T) /\ Len(a) = i - 1 /\ \A n \in 1..(i - 1) : a[n] = c[n] OBVIOUS
<1>2. b \in Seq(T) /\ Len(b) = Len(c) - i /\ \A n \in 1..(Len(c) - i) : b[n] = c[n + i] OBVIOUS
<1> HIDE DEF a, b
<1>3. a \o b \in Seq(T) /\ Len(a \o b) = Len(c) - 1
  <2>1. a \o b \in Seq(T) /\ Len(a \o b) = Len(a) + Len(b) BY <1>1, <1>2, ConcatProperties
  <2>2. Len(c) \in Nat OBVIOUS
  <2> QED BY <1>1, <1>2, <2>1, <2>2
<1>4. \A n \in 1..(Len(c) - 1) : (a \o b)[n] = IF n < i THEN c[n] ELSE c[n + 1]
  BY <1>1, <1>2
<1> QED BY <1>3, <1>4 DEF RemoveAt, a, b

LEMMA PurgedEntries ==
    ASSUME NEW T, NEW c \in Seq(T), NEW k
    PROVE  /\ Purge(c, k) \in Seq(T) /\ Len(Purge(c, k)) <= Len(c)
           /\ \A n \in 1..Len(Purge(c, k)) : \E i \in 1..Len(c) : Purge(c, k)[n] = c[i]
<1>1. CASE Contains(c, k)
  <2> DEFINE i == IndexOf(c, k)
  <2>1. i \in 1..Len(c) BY <1>1, IndexInCache
  <2>2. Purge(c, k) = RemoveAt(c, i) BY <1>1 DEF Purge
  <2> HIDE DEF i
  <2>3. Len(c) \in Nat OBVIOUS
  <2>4. /\ RemoveAt(c, i) \in Seq(T) /\ Len(RemoveAt(c, i)) = Len(c) - 1
        /\ \A n \in 1..(Len(c) - 1) : RemoveAt(c, i)[n] = IF n < i THEN c[n] ELSE c[n + 1]
    BY <2>1, RemovedEntries
  <2>5. ASSUME NEW n \in 1..(Len(c) - 1) PROVE \E q \in 1..Len(c) : RemoveAt(c, i)[n] = c[q]
    <3>1. n \in 1..Len(c) /\ n + 1 \in 1..Len(c) BY <2>3
    <3> QED BY <2>4, <3>1
  <2> QED BY <2>2, <2>3, <2>4, <2>5
<1>2. CASE ~Contains(c, k) BY <1>2 DEF Purge
<1> QED BY <1>1, <1>2

LEMMA TouchedEntries ==
    ASSUME NEW T, NEW c \in Seq(T), NEW k
    PROVE  /\ Touch(c, k) \in Seq(T)
           /\ \A n \in 1..Len(Touch(c, k)) : \E i \in 1..Len(c) : Touch(c, k)[n] = c[i]
<1>1. CASE Contains(c, k)
  <2> DEFINE e == EntryOf(c, k)  p == Purge(c, k)
  <2>1. IndexOf(c, k) \in 1..Len(c) BY <1>1, IndexInCache
  <2>2. e \in T /\ e = c[IndexOf(c, k)] BY <2>1 DEF EntryOf
  <2>3. p \in Seq(T) /\ \A n \in 1..Len(p) : \E i \in 1..Len(c) : p[n] = c[i] BY PurgedEntries
  <2>4. Touch(c, k) = <<e>> \o p BY <1>1 DEF Touch
  <2> HIDE DEF e, p
  <2>5. <<e>> \o p \in Seq(T) /\ Len(<<e>> \o p) = Len(p) + 1 BY <2>2, <2>3
  <2>6. (<<e>> \o p)[1] = e /\ \A n \in 2..(Len(p) + 1) : (<<e>> \o p)[n] = p[n - 1] BY <2>2, <2>3
  <2>7. ASSUME NEW n \in 1..(Len(p) + 1) PROVE \E i \in 1..Len(c) : (<<e>> \o p)[n] = c[i]
    <3>1. CASE n = 1 BY <3>1, <2>1, <2>2, <2>6
    <3>2. CASE n # 1
      <4>1. n \in 2..(Len(p) + 1) /\ n - 1 \in 1..Len(p) BY <3>2, <2>3
      <4> QED BY <4>1, <2>3, <2>6
    <3> QED BY <3>1, <3>2
  <2> QED BY <2>4, <2>5, <2>7
<1>2. CASE ~Contains(c, k) BY <1>2 DEF Touch
<1> QED BY <1>1, <1>2

Entry(k, v, x) == [key |-> k, version |-> v, client |-> x]

LEMMA AddedEntries ==
    ASSUME NEW T, NEW c \in Seq(T), NEW size \in Nat \ {0}, NEW v, NEW k, NEW x, Entry(k, v, x) \in T
    PROVE  /\ Add(c, size, v, k, x) \in Seq(T) /\ Len(Add(c, size, v, k, x)) \in 1..size
           /\ Len(Add(c, size, v, k, x)) <= Len(Purge(c, k)) + 1
           /\ Len(Purge(c, k)) < size => Len(Add(c, size, v, k, x)) = Len(Purge(c, k)) + 1
           /\ ~(Len(Purge(c, k)) < size) => Len(Add(c, size, v, k, x)) = size
           /\ Add(c, size, v, k, x)[1] = Entry(k, v, x)
           /\ \A n \in 2..Len(Add(c, size, v, k, x)) :
                 n - 1 \in 1..Len(Purge(c, k)) /\ Add(c, size, v, k, x)[n] = Purge(c, k)[n - 1]
<1> DEFINE p == Purge(c, k)  e == Entry(k, v, x)  new == <<e>> \o p
<1>1. p \in Seq(T) BY PurgedEntries
<1>2. Add(c, size, v, k, x) = SubSeq(new, 1, IF Len(new) > size THEN size ELSE Len(new)) BY DEF Add, Entry
<1> HIDE DEF p, e
<1>3. /\ new \in Seq(T) /\ Len(new) = Len(p) + 1 /\ new[1] = e
      /\ \A n \in 2..Len(new) : new[n] = p[n - 1]
  BY <1>1 DEF e
<1> HIDE DEF new
<1> DEFINE top == IF Len(new) > size THEN size ELSE Len(new)
<1>4. Len(p) \in Nat /\ Len(new) \in Nat BY <1>1, <1>3
<1>5. /\ top \in 1..Len(new) /\ top <= size /\ (Len(p) < size => top = Len(p) + 1)
      /\ ~(Len(p) < size) => top = size
  BY <1>3, <1>4
<1> HIDE DEF top
<1>6. /\ SubSeq(new, 1, top) \in Seq(T) /\ Len(SubSeq(new, 1, top)) = top
      /\ \A n \in 1..top : SubSeq(new, 1, top)[n] = new[n]
  BY <1>3, <1>4, <1>5
<1> QED BY <1>2, <1>3, <1>4, <1>5, <1>6 DEF top, p, e
---------------------------------------------------------------------------
(* Clients and tokens keep their owners; a token that is over stays so.    *)
Grows(cl, tk, cl2, tk2) ==
    /\ Len(cl) <= Len(cl2) /\ \A c \in 1..Len(cl) : cl2[c].owner = cl[c].owner
    /\ Len(tk) <= Len(tk2)
    /\ \A t \in 1..Len(tk) : /\ tk2[t].owner = tk[t].owner /\ tk2[t].expires = tk[t].expires
                             /\ tk2[t].state = "live" => tk[t].state = "live"

LEMMA FitGrows ==
    ASSUME NEW m, NEW on, NEW cl \in Seq(ClientT), NEW cl2 \in Seq(ClientT),
           NEW tk \in Seq(TokenT), NEW tk2 \in Seq(TokenT), NEW j \in WorkT,
           Grows(cl, tk, cl2, tk2), Fit(m, on, cl, tk, j)
    PROVE  Fit(m, on, cl2, tk2, j)
<1>1. j.client \in 0..Len(cl2) /\ j.victim \in 0..Len(cl2) /\ j.token \in 0..Len(tk2)
  BY DEF Grows, Fit, Owned
<1>2. j.client # 0 => cl2[j.client].owner = cl[j.client].owner BY DEF Grows, Fit, Owned
<1>3. j.token # 0 => tk2[j.token].owner = tk[j.token].owner BY DEF Grows, Fit, Owned
<1> QED BY <1>1, <1>2, <1>3 DEF Fit, Owned

LEMMA IdleFits ==
    ASSUME NEW m, NEW on, NEW cl \in Seq(ClientT), NEW tk \in Seq(TokenT)
    PROVE  Idle \in WorkT /\ Fit(m, on, cl, tk, Idle)
<1>1. /\ Idle.pc = "idle" /\ Idle.client = 0 /\ Idle.victim = 0 /\ Idle.token = 0 /\ Idle.ns = "n1"
  BY DEF Idle
<1>2. Idle \in WorkT BY DEF Idle, WorkT, PCs, NSs
<1>3. 0 \in 0..Len(cl) /\ 0 \in 0..Len(tk) OBVIOUS
<1> QED BY <1>1, <1>2, <1>3 DEF Fit, Placed, Owned, Revoking

(* The step of a reconcile: it is enough to look at what it changes.       *)
LEMMA Layer1 ==
    ASSUME Inv1, NEW w \in Workers, NEW j \in WorkT, work' = [work EXCEPT ![w] = j],
           UNCHANGED <<mode, cacheOn, auth, rev, cred, now>>,
           cache' \in Seq(EntryT), clients' \in Seq(ClientT), tokens' \in Seq(TokenT),
           spent' \in [runs : Nat, edits : Nat, faults : Nat], overlap' \in BOOLEAN,
           Grows(clients, tokens, clients', tokens'),
           Fit(mode, cacheOn, clients', tokens', j),
           TokensFit', CacheFits', YandexTokens'
    PROVE  Inv1'
<1>1. Types' BY DEF Inv1, Types
<1>2. WorkFits'
  <2> SUFFICES ASSUME NEW v \in Workers PROVE Fit(mode, cacheOn, clients', tokens', work'[v])
    BY DEF WorkFits
  <2>1. CASE v = w BY <2>1 DEF Inv1, Types
  <2>2. CASE v # w
    <3>1. work'[v] = work[v] /\ work[v] \in WorkT BY <2>2 DEF Inv1, Types
    <3>2. Fit(mode, cacheOn, clients, tokens, work[v]) BY DEF Inv1, WorkFits
    <3>3. clients \in Seq(ClientT) /\ tokens \in Seq(TokenT) BY DEF Inv1, Types
    <3> QED BY <3>1, <3>2, <3>3, FitGrows
  <2> QED BY <2>1, <2>2
<1> QED BY <1>1, <1>2 DEF Inv1

LEMMA SameGrows ==
    ASSUME NEW cl \in Seq(ClientT), NEW tk \in Seq(TokenT) PROVE Grows(cl, tk, cl, tk)
BY DEF Grows

(* A step that changes nothing but the reconcile.                          *)
LEMMA WorkLayer1 ==
    ASSUME Inv1, NEW w \in Workers, NEW j \in WorkT, work' = [work EXCEPT ![w] = j],
           UNCHANGED <<mode, cacheOn, auth, rev, cred, now, cache, clients, tokens>>,
           spent' \in [runs : Nat, edits : Nat, faults : Nat], overlap' \in BOOLEAN,
           Fit(mode, cacheOn, clients, tokens, j)
    PROVE  Inv1'
<1>1. cache \in Seq(EntryT) /\ clients \in Seq(ClientT) /\ tokens \in Seq(TokenT) BY DEF Inv1, Types
<1>2. (TokensFit /\ CacheFits /\ YandexTokens)' BY DEF Inv1, TokensFit, CacheFits, YandexTokens
<1>3. Grows(clients, tokens, clients', tokens') BY <1>1, SameGrows
<1> QED BY <1>1, <1>2, <1>3, Layer1

LEMMA FaultType ==
    ASSUME Inv1, Fault \/ UNCHANGED spent PROVE spent' \in [runs : Nat, edits : Nat, faults : Nat]
BY DEF Fault, Inv1, Types

LEMMA InitLayer1 == Init => Inv1
<1> SUFFICES ASSUME Init PROVE Inv1
  OBVIOUS
<1> USE DEF Init
<1>1. mode \in {"vault", "aws", "yandex"} BY SessionKinds DEF SessionKinds
<1>2. auth \in [Stores -> {"login", "referent", "batch", "static"}]
  <2>1. auth \in [Stores -> IF mode = "vault" THEN Auths ELSE {"login"}] OBVIOUS
  <2>2. (IF mode = "vault" THEN Auths ELSE {"login"}) \subseteq {"login", "referent", "batch", "static"}
    BY SessionKinds DEF SessionKinds
  <2> QED BY <2>1, <2>2
<1>3. clients \in Seq(ClientT) /\ tokens \in Seq(TokenT) /\ cache \in Seq(EntryT)
      /\ Len(clients) = 0 /\ Len(tokens) = 0 /\ Len(cache) = 0
  OBVIOUS
<1>4. work \in [Workers -> WorkT] /\ WorkFits BY <1>3, IdleFits DEF WorkFits
<1>5. Types BY <1>1, <1>2, <1>3, <1>4 DEF Types
<1>6. TokensFit /\ CacheFits /\ YandexTokens BY <1>3 DEF TokensFit, CacheFits, YandexTokens
<1> QED BY <1>4, <1>5, <1>6 DEF Inv1

(* A reconcile starts, and reads the credentials of its store.             *)
LEMMA StartLayer1 ==
    ASSUME Inv1, NEW w \in Workers, Start(w) \/ ReadCredentials(w) PROVE Inv1'
<1> DEFINE F(j) == Fit(mode, cacheOn, clients, tokens, j)
<1>0. /\ clients \in Seq(ClientT) /\ tokens \in Seq(TokenT) /\ work \in [Workers -> WorkT]
      /\ rev \in [Stores -> Nat] /\ cred \in [Stores -> Nat] /\ work[w] \in WorkT /\ F(work[w])
      /\ mode \in {"vault", "aws", "yandex"}
  BY DEF Inv1, Types, WorkFits
<1>1. CASE Start(w)
  <2>0. PICK s \in Stores : \E n \in Namespaces(s) :
          work' = [work EXCEPT ![w] =
            [Idle EXCEPT !.pc = IF mode = "vault" THEN FirstStep(s) ELSE "creds",
                         !.store = s, !.ns = n, !.rev = rev[s]]]
    BY <1>1 DEF Start, Set
  <2>1. PICK n \in Namespaces(s) :
          work' = [work EXCEPT ![w] =
            [Idle EXCEPT !.pc = IF mode = "vault" THEN FirstStep(s) ELSE "creds",
                         !.store = s, !.ns = n, !.rev = rev[s]]]
    BY <2>0
  <2> DEFINE j == [Idle EXCEPT !.pc = IF mode = "vault" THEN FirstStep(s) ELSE "creds",
                               !.store = s, !.ns = n, !.rev = rev[s]]
  <2>2. n \in NSs /\ (mode = "yandex" => n = "n1")
    BY <1>0 DEF Namespaces, NSs
  <2>3. FirstStep(s) \in {"get", "make"} /\ (~cacheOn => FirstStep(s) = "make")
    BY DEF FirstStep, UseCache
  <2>4. /\ j \in WorkT /\ j.client = 0 /\ j.victim = 0 /\ j.token = 0 /\ j.store = s /\ j.ns = n
        /\ j.pc = IF mode = "vault" THEN FirstStep(s) ELSE "creds"
    <3> DEFINE q == IF mode = "vault" THEN FirstStep(s) ELSE "creds"
    <3>1. q \in PCs BY <2>3 DEF PCs
    <3>2. Idle \in WorkT BY <1>0, IdleFits
    <3>3. Idle.client = 0 /\ Idle.victim = 0 /\ Idle.token = 0 BY DEF Idle
    <3> HIDE DEF q
    <3>4. j = [Idle EXCEPT !.pc = q, !.store = s, !.ns = n, !.rev = rev[s]] BY DEF q
    <3>5. /\ j \in WorkT /\ j.client = 0 /\ j.victim = 0 /\ j.token = 0 /\ j.store = s /\ j.ns = n
          /\ j.pc = q
      BY <1>0, <2>2, <3>1, <3>2, <3>3, <3>4 DEF WorkT
    <3> QED BY <3>5 DEF q
  <2> HIDE DEF j
  <2>5. F(j) BY <1>0, <2>2, <2>3, <2>4 DEF Fit, Placed, Owned, Revoking
  <2>6. /\ UNCHANGED <<mode, cacheOn, auth, rev, cred, now, cache, clients, tokens>>
        /\ spent' = [spent EXCEPT !.runs = @ + 1]
    BY <1>1 DEF Start
  <2>9. spent' \in [runs : Nat, edits : Nat, faults : Nat]
    <3>1. spent \in [runs : Nat, edits : Nat, faults : Nat] BY DEF Inv1, Types
    <3>2. spent' = [spent EXCEPT !.runs = spent.runs + 1] BY <2>6
    <3> QED BY <3>1, <3>2
  <2>7. overlap' \in BOOLEAN
    <3>1. overlap' = (overlap \/ \E v \in Workers : ~At(v, "idle")) BY <1>1 DEF Start
    <3> QED BY <3>1
  <2>8. work' = [work EXCEPT ![w] = j] BY <2>1 DEF j
  <2> QED BY <2>4, <2>5, <2>6, <2>7, <2>8, <2>9, WorkLayer1
<1>2. CASE ReadCredentials(w)
  <2> DEFINE p == IF mode = "yandex" THEN "iam" ELSE FirstStep(work[w].store)
             j == [work[w] EXCEPT !.cred = cred[work[w].store], !.pc = p]
  <2>1. /\ work[w].pc = "creds" /\ work' = [work EXCEPT ![w] = j]
        /\ UNCHANGED <<mode, cacheOn, auth, rev, cred, now, cache, clients, tokens, spent, overlap>>
    BY <1>2 DEF ReadCredentials, Set, At, world
  <2>2. p \in {"iam", "get", "make"} /\ (~cacheOn => p \in {"iam", "make"})
        /\ (mode = "yandex" <=> p = "iam")
    BY DEF FirstStep, UseCache
  <2>3. work[w].store \in Stores BY <1>0, <2>1 DEF Fit, Placed
  <2> HIDE DEF p
  <2>4. /\ j \in WorkT /\ j.pc = p /\ j.client = work[w].client /\ j.victim = work[w].victim
        /\ j.token = work[w].token /\ j.store = work[w].store /\ j.ns = work[w].ns
        /\ j.rev = work[w].rev
    BY <1>0, <2>2, <2>3 DEF WorkT, PCs
  <2>5. work[w].client = 0 /\ work[w].token = 0 BY <1>0, <2>1 DEF Fit, Placed
  <2> HIDE DEF j
  <2>6. Placed(mode, cacheOn, j) /\ Owned(mode, cacheOn, clients, tokens, j)
    BY <1>0, <2>1, <2>2, <2>3, <2>4, <2>5 DEF Fit, Placed, Owned, Revoking
  <2>7. spent' \in [runs : Nat, edits : Nat, faults : Nat] /\ overlap' \in BOOLEAN
    BY <2>1 DEF Inv1, Types
  <2> QED BY <2>1, <2>4, <2>6, <2>7, WorkLayer1 DEF Fit
<1> QED BY <1>1, <1>2

(* Steps that only move a reconcile on.                                    *)
LEMMA MoveFits ==
    ASSUME Inv1, NEW w \in Workers, NEW p \in PCs, work[w].pc # "idle", Goto(w, p),
           p \in Revoking => work[w].pc \in Revoking,
           p \in {"get", "remove", "make"} =>
              work[w].client = 0 /\ mode # "yandex" /\ (p # "make" => cacheOn),
           p \in {"contains", "add"} => cacheOn,
           p = "contains" => mode = "vault", p = "assume" => mode = "aws",
           p \in {"lookup", "login", "close"} => mode = "vault",
           p \in {"contains", "add", "init", "lookup", "login", "assume", "close", "use"} =>
              work[w].client # 0 /\ mode # "yandex",
           p \notin {"creds", "iam"}
    PROVE  \E j \in WorkT : work' = [work EXCEPT ![w] = j] /\ Fit(mode, cacheOn, clients, tokens, j)
<1> DEFINE F(j) == Fit(mode, cacheOn, clients, tokens, j)
<1>0. /\ clients \in Seq(ClientT) /\ tokens \in Seq(TokenT) /\ work \in [Workers -> WorkT]
      /\ work[w] \in WorkT /\ F(work[w]) /\ mode \in {"vault", "aws", "yandex"}
  BY DEF Inv1, Types, WorkFits
<1> DEFINE j == IF p = "idle" THEN Idle ELSE [work[w] EXCEPT !.pc = p]
<1>1. work' = [work EXCEPT ![w] = j] BY DEF Goto, Set
<1>2. j \in WorkT /\ F(j)
  <2>1. CASE p = "idle" BY <1>0, <2>1, IdleFits
  <2>2. CASE p # "idle"
    <3>1. /\ j \in WorkT /\ j.pc = p /\ j.client = work[w].client /\ j.victim = work[w].victim
          /\ j.token = work[w].token /\ j.store = work[w].store /\ j.ns = work[w].ns
          /\ j.rev = work[w].rev /\ j.cred = work[w].cred /\ j.next = work[w].next
      BY <1>0, <2>2 DEF WorkT
    <3>2. OwnerOf(j) = OwnerOf(work[w]) BY <3>1 DEF OwnerOf
    <3> HIDE DEF j
    <3>3. Owned(mode, cacheOn, clients, tokens, j) BY <1>0, <3>1, <3>2 DEF Fit, Owned
    <3>4. Placed(mode, cacheOn, work[w]) BY <1>0 DEF Fit
    <3>5. work[w].store \in Stores BY <3>4 DEF Placed
    <3>6. p \in Revoking => Placed(mode, cacheOn, j)
      BY <1>0, <3>1, <3>4, <3>5 DEF Placed, Revoking
    <3>7. p \notin Revoking => Placed(mode, cacheOn, j)
      BY <1>0, <3>1, <3>4, <3>5, <2>2 DEF Placed, PCs, Revoking
    <3> QED BY <3>1, <3>3, <3>6, <3>7 DEF Fit
  <2> QED BY <2>1, <2>2
<1> HIDE DEF j
<1> QED BY <1>1, <1>2

LEMMA MoveLayer1 ==
    ASSUME Inv1, NEW w \in Workers, NEW p \in PCs, work[w].pc # "idle", Goto(w, p),
           UNCHANGED <<mode, cacheOn, auth, rev, cred, now, cache, clients, tokens, overlap>>,
           Fault \/ UNCHANGED spent,
           p \in Revoking => work[w].pc \in Revoking,
           p \in {"get", "remove", "make"} =>
              work[w].client = 0 /\ mode # "yandex" /\ (p # "make" => cacheOn),
           p \in {"contains", "add"} => cacheOn,
           p = "contains" => mode = "vault", p = "assume" => mode = "aws",
           p \in {"lookup", "login", "close"} => mode = "vault",
           p \in {"contains", "add", "init", "lookup", "login", "assume", "close", "use"} =>
              work[w].client # 0 /\ mode # "yandex",
           p \notin {"creds", "iam"}
    PROVE  Inv1'
<1>1. PICK j \in WorkT : work' = [work EXCEPT ![w] = j] /\ Fit(mode, cacheOn, clients, tokens, j)
  BY MoveFits
<1>2. overlap' \in BOOLEAN BY DEF Inv1, Types
<1> QED BY <1>1, <1>2, FaultType, WorkLayer1

(* The reconcile of w is where it says.                                    *)
LEMMA PlacedAt ==
    ASSUME Inv1, NEW w \in Workers
    PROVE  /\ work[w] \in WorkT /\ work \in [Workers -> WorkT]
           /\ Placed(mode, cacheOn, work[w]) /\ Owned(mode, cacheOn, clients, tokens, work[w])
           /\ clients \in Seq(ClientT) /\ tokens \in Seq(TokenT) /\ cache \in Seq(EntryT)
           /\ mode \in {"vault", "aws", "yandex"}
           /\ spent \in [runs : Nat, edits : Nat, faults : Nat] /\ overlap \in BOOLEAN
BY DEF Inv1, Types, WorkFits, Fit

(* Failures, look-ups and the ends of AWS and Yandex reconciles.           *)
LEMMA QuietLayer1 ==
    ASSUME Inv1, NEW w \in Workers,
           \/ MakeFails(w) \/ IsCached(w) \/ SetAuth(w) \/ LookupToken(w) \/ LoginFails(w)
           \/ SessionDone(w) \/ SecretsRead(w)
    PROVE  Inv1'
<1> USE PlacedAt
<1>1. CASE MakeFails(w) \/ LoginFails(w) \/ SessionDone(w) \/ SecretsRead(w)
  <2>1. /\ Goto(w, "idle") /\ (Fault \/ UNCHANGED spent) /\ work[w].pc # "idle"
        /\ UNCHANGED <<mode, cacheOn, auth, rev, cred, now, cache, clients, tokens, overlap>>
    BY <1>1 DEF MakeFails, LoginFails, SessionDone, SecretsRead, world, At
  <2> QED BY <2>1, MoveLayer1 DEF PCs, Revoking
<1>2. CASE IsCached(w)
  <2> DEFINE p == IF Contains(cache, Key(w)) THEN "init" ELSE "add"
  <2>1. /\ Goto(w, p) /\ UNCHANGED spent /\ work[w].pc = "contains"
        /\ UNCHANGED <<mode, cacheOn, auth, rev, cred, now, cache, clients, tokens, overlap>>
    BY <1>2 DEF IsCached, world, At
  <2>2. p \in {"init", "add"} OBVIOUS
  <2>3. work[w].client # 0 /\ mode = "vault" /\ cacheOn BY <2>1 DEF Placed
  <2> HIDE DEF p
  <2> QED BY <2>1, <2>2, <2>3, MoveLayer1 DEF PCs, Revoking
<1>3. CASE SetAuth(w)
  <2> DEFINE p == IF work[w].ns = "" THEN "close"
                  ELSE IF TokenOf(work[w].client) # 0 THEN "lookup" ELSE "login"
  <2>1. /\ Goto(w, p) /\ UNCHANGED spent /\ work[w].pc = "init" /\ mode = "vault"
        /\ UNCHANGED <<mode, cacheOn, auth, rev, cred, now, cache, clients, tokens, overlap>>
    BY <1>3 DEF SetAuth, InitClient, world, At
  <2>2. p \in {"close", "lookup", "login"} OBVIOUS
  <2>3. work[w].client # 0 BY <2>1 DEF Placed
  <2> HIDE DEF p
  <2> QED BY <2>1, <2>2, <2>3, MoveLayer1 DEF PCs, Revoking
<1>4. CASE LookupToken(w)
  <2>1. PICK p \in {"use", "login"} : Goto(w, p) /\ (Fault \/ UNCHANGED spent)
    BY <1>4 DEF LookupToken
  <2>2. /\ work[w].pc = "lookup"
        /\ UNCHANGED <<mode, cacheOn, auth, rev, cred, now, cache, clients, tokens, overlap>>
    BY <1>4 DEF LookupToken, world, At
  <2>3. work[w].client # 0 /\ mode = "vault" BY <2>2 DEF Placed
  <2> QED BY <2>1, <2>2, <2>3, MoveLayer1 DEF PCs, Revoking
<1> QED BY <1>1, <1>2, <1>3, <1>4

(* A revocation ends, and the reconcile goes on or ends.                   *)
LEMMA DoneFits ==
    ASSUME Inv1, NEW w \in Workers, work[w].pc \in Revoking, Done(w)
    PROVE  \E j \in WorkT : work' = [work EXCEPT ![w] = j] /\ Fit(mode, cacheOn, clients, tokens, j)
<1>0. work[w] \in WorkT /\ work[w].next \in PCs /\ "idle" \in PCs BY PlacedAt DEF WorkT, PCs
<1> DEFINE i == [work[w] EXCEPT !.pc = work[w].next, !.victim = 0, !.next = "idle"]
           j == IF work[w].next = "idle" THEN Idle ELSE i
<1>1. work' = [work EXCEPT ![w] = j] BY DEF Done, Set
<1>2. CASE work[w].next = "idle" BY <1>1, <1>2, PlacedAt, IdleFits
<1>3. CASE work[w].next # "idle"
  <2>1. /\ i \in WorkT /\ i.pc = work[w].next /\ i.client = work[w].client /\ i.victim = 0
        /\ i.token = work[w].token /\ i.store = work[w].store /\ i.ns = work[w].ns
        /\ i.rev = work[w].rev /\ i.cred = work[w].cred /\ i.next = "idle"
    BY <1>0 DEF WorkT
  <2>2. OwnerOf(i) = OwnerOf(work[w]) BY <2>1 DEF OwnerOf
  <2> HIDE DEF i
  <2>3. Owned(mode, cacheOn, clients, tokens, i) BY <2>1, <2>2, PlacedAt DEF Owned
  <2>4. i.pc \in {"make", "init"} /\ (i.pc # "make" <=> i.client # 0) /\ mode = "vault"
        /\ work[w].store \in Stores /\ i.token = 0
    BY <1>3, <2>1, PlacedAt DEF Placed, Revoking
  <2>5. Placed(mode, cacheOn, i) BY <2>1, <2>4 DEF Placed, Revoking
  <2> QED BY <1>1, <1>3, <2>1, <2>3, <2>5 DEF Fit
<1> QED BY <1>2, <1>3

(* A token changes its state, a client its token or its chain of roles.    *)
WithState(tk, t, st) == [tk EXCEPT ![t].state = st]
WithToken(cl, c, t) == [cl EXCEPT ![c].token = t]
WithChain(cl, c, q) == [cl EXCEPT ![c].chain = q]

LEMMA TokenState ==
    ASSUME NEW tk \in Seq(TokenT), NEW t \in 1..Len(tk), NEW tk2,
           NEW st \in {"live", "revoked", "expired", "dropped"}, tk2 = WithState(tk, t, st)
    PROVE  /\ tk2 \in Seq(TokenT) /\ Len(tk2) = Len(tk)
           /\ \A u \in 1..Len(tk) :
                 /\ tk2[u].owner = tk[u].owner /\ tk2[u].expires = tk[u].expires
                 /\ tk2[u].state = IF u = t THEN st ELSE tk[u].state
<1> DEFINE x == [tk[t] EXCEPT !.state = st]
<1>1. tk[t] \in TokenT OBVIOUS
<1>2. x \in TokenT /\ x.owner = tk[t].owner /\ x.expires = tk[t].expires /\ x.state = st
  BY <1>1 DEF TokenT
<1> HIDE DEF x
<1>3. /\ [tk EXCEPT ![t] = x] \in Seq(TokenT) /\ Len([tk EXCEPT ![t] = x]) = Len(tk)
      /\ \A u \in 1..Len(tk) : [tk EXCEPT ![t] = x][u] = IF u = t THEN x ELSE tk[u]
  BY <1>2, ExceptSeq
<1>4. tk2 = [tk EXCEPT ![t] = x] BY DEF x, WithState
<1> QED BY <1>2, <1>3, <1>4

LEMMA ClientToken ==
    ASSUME NEW cl \in Seq(ClientT), NEW c \in 1..Len(cl), NEW t \in Nat,
           NEW cl2, cl2 = WithToken(cl, c, t)
    PROVE  /\ cl2 \in Seq(ClientT) /\ Len(cl2) = Len(cl)
           /\ \A d \in 1..Len(cl) :
                 /\ cl2[d].owner = cl[d].owner /\ cl2[d].chain = cl[d].chain
                 /\ cl2[d].token = IF d = c THEN t ELSE cl[d].token
<1> DEFINE x == [cl[c] EXCEPT !.token = t]
<1>1. cl[c] \in ClientT OBVIOUS
<1>2. x \in ClientT /\ x.owner = cl[c].owner /\ x.chain = cl[c].chain /\ x.token = t
  BY <1>1 DEF ClientT
<1> HIDE DEF x
<1>3. /\ [cl EXCEPT ![c] = x] \in Seq(ClientT) /\ Len([cl EXCEPT ![c] = x]) = Len(cl)
      /\ \A u \in 1..Len(cl) : [cl EXCEPT ![c] = x][u] = IF u = c THEN x ELSE cl[u]
  BY <1>2, ExceptSeq
<1>4. cl2 = [cl EXCEPT ![c] = x] BY DEF x, WithToken
<1> QED BY <1>2, <1>3, <1>4

LEMMA ClientChain ==
    ASSUME NEW cl \in Seq(ClientT), NEW c \in 1..Len(cl), NEW q \in Seq(RoleNames),
           NEW cl2, cl2 = WithChain(cl, c, q)
    PROVE  /\ cl2 \in Seq(ClientT) /\ Len(cl2) = Len(cl)
           /\ \A d \in 1..Len(cl) :
                 /\ cl2[d].owner = cl[d].owner /\ cl2[d].token = cl[d].token
                 /\ cl2[d].chain = IF d = c THEN q ELSE cl[d].chain
<1> DEFINE x == [cl[c] EXCEPT !.chain = q]
<1>1. cl[c] \in ClientT OBVIOUS
<1>2. x \in ClientT /\ x.owner = cl[c].owner /\ x.token = cl[c].token /\ x.chain = q
  BY <1>1 DEF ClientT
<1> HIDE DEF x
<1>3. /\ [cl EXCEPT ![c] = x] \in Seq(ClientT) /\ Len([cl EXCEPT ![c] = x]) = Len(cl)
      /\ \A u \in 1..Len(cl) : [cl EXCEPT ![c] = x][u] = IF u = c THEN x ELSE cl[u]
  BY <1>2, ExceptSeq
<1>4. cl2 = [cl EXCEPT ![c] = x] BY DEF x, WithChain
<1> QED BY <1>2, <1>3, <1>4

(* What the first layer says of the tokens, the cache and Yandex when      *)
(* clients and tokens keep their owners.                                   *)
LEMMA RestGrows ==
    ASSUME Inv1, UNCHANGED <<mode, cacheOn, cache>>, clients' \in Seq(ClientT), tokens' \in Seq(TokenT),
           Grows(clients, tokens, clients', tokens'), Len(clients') = Len(clients),
           \A c \in 1..Len(clients) : clients'[c].token \in {0, clients[c].token},
           Len(tokens') = Len(tokens)
    PROVE  (TokensFit /\ CacheFits /\ YandexTokens)'
<1>0. clients \in Seq(ClientT) /\ tokens \in Seq(TokenT) BY DEF Inv1, Types
<1>1. TokensFit'
  <2> SUFFICES ASSUME NEW c \in 1..Len(clients) PROVE TokenFits(cacheOn, tokens', clients'[c])
    BY DEF TokensFit
  <2>1. TokenFits(cacheOn, tokens, clients[c]) BY DEF Inv1, TokensFit
  <2>2. clients'[c].owner = clients[c].owner BY DEF Grows
  <2>3. \A t \in 1..Len(tokens) : tokens'[t].owner = tokens[t].owner BY DEF Grows
  <2> QED BY <1>0, <2>1, <2>2, <2>3 DEF TokenFits
<1>2. CacheFits' BY DEF Inv1, CacheFits, EntryFits, Grows
<1>3. YandexTokens' BY DEF Inv1, YandexTokens, Grows
<1> QED BY <1>1, <1>2, <1>3

(* revokeTokenIfValid.                                                     *)
LEMMA RevokeLayer1 ==
    ASSUME Inv1, NEW w \in Workers, CheckVictim(w) \/ Revoke(w) \/ ClearToken(w) PROVE Inv1'
<1>0. /\ work[w].pc \in Revoking
      /\ UNCHANGED <<mode, cacheOn, auth, rev, cred, now, cache, overlap>>
      /\ Fault \/ UNCHANGED spent
  BY DEF CheckVictim, Revoke, ClearToken, At, Revoking, world
<1>1. work[w].victim \in 1..Len(clients) /\ clients \in Seq(ClientT) /\ tokens \in Seq(TokenT)
      /\ work[w].pc # "idle" /\ mode = "vault"
  BY <1>0, PlacedAt DEF Placed, Owned, Revoking
<1>2. TokenOf(work[w].victim) \in 0..Len(tokens)
  BY <1>1 DEF Inv1, TokensFit, TokenFits, TokenOf
<1>3. overlap' \in BOOLEAN /\ spent' \in [runs : Nat, edits : Nat, faults : Nat]
      /\ cache' \in Seq(EntryT)
  BY <1>0, FaultType DEF Inv1, Types
<1>4. ASSUME Done(w), UNCHANGED <<clients, tokens>> PROVE Inv1'
  <2>1. PICK j \in WorkT : work' = [work EXCEPT ![w] = j] /\ Fit(mode, cacheOn, clients, tokens, j)
    BY <1>0, <1>4, DoneFits
  <2> QED BY <1>0, <1>3, <1>4, <2>1, WorkLayer1
<1>5. ASSUME Goto(w, "revoke"), UNCHANGED <<clients, tokens>> PROVE Inv1'
  BY <1>0, <1>1, <1>5, MoveLayer1 DEF PCs, Revoking
<1>6. ASSUME Revoke(w), Live(TokenOf(work[w].victim)), Goto(w, "clear"),
             tokens' = [tokens EXCEPT ![TokenOf(work[w].victim)].state = "revoked"]
      PROVE  Inv1'
  <2> DEFINE t == TokenOf(work[w].victim)  j == [work[w] EXCEPT !.pc = "clear"]
  <2>1. t \in 1..Len(tokens) /\ tokens' = WithState(tokens, t, "revoked")
    BY <1>2, <1>6 DEF Live, WithState
  <2> HIDE DEF t
  <2>2. /\ tokens' \in Seq(TokenT) /\ Len(tokens') = Len(tokens)
        /\ \A u \in 1..Len(tokens) :
              /\ tokens'[u].owner = tokens[u].owner /\ tokens'[u].expires = tokens[u].expires
              /\ tokens'[u].state = IF u = t THEN "revoked" ELSE tokens[u].state
    <3>1. tokens \in Seq(TokenT) BY <1>1
    <3>2. tokens' \in Seq(TokenT) BY <2>1, <3>1, TokenState
    <3>3. Len(tokens') = Len(tokens) BY <2>1, <3>1, TokenState
    <3>4. \A u \in 1..Len(tokens) : tokens'[u].owner = tokens[u].owner /\ tokens'[u].expires = tokens[u].expires
      BY <2>1, <3>1, TokenState
    <3>5. \A u \in 1..Len(tokens) : tokens'[u].state = IF u = t THEN "revoked" ELSE tokens[u].state
      BY <2>1, <3>1, TokenState
    <3> QED BY <3>2, <3>3, <3>4, <3>5
  <2>3. clients' = clients BY <1>6 DEF Revoke
  <2>4. Grows(clients, tokens, clients', tokens') BY <1>1, <2>2, <2>3 DEF Grows
  <2>5. work' = [work EXCEPT ![w] = j] BY <1>6 DEF Goto, Set
  <2>6. /\ j \in WorkT /\ j.pc = "clear" /\ j.client = work[w].client /\ j.victim = work[w].victim
        /\ j.token = work[w].token /\ j.store = work[w].store /\ j.ns = work[w].ns
        /\ j.rev = work[w].rev /\ j.cred = work[w].cred /\ j.next = work[w].next
    BY PlacedAt DEF WorkT, PCs
  <2> HIDE DEF j
  <2>7. Placed(mode, cacheOn, j) BY <1>0, <1>1, <2>6, PlacedAt DEF Placed, Revoking
  <2>8. Owned(mode, cacheOn, clients, tokens, j) BY <2>6, PlacedAt DEF Owned, OwnerOf
  <2>9. Fit(mode, cacheOn, clients', tokens', j)
    BY <1>1, <2>2, <2>3, <2>4, <2>6, <2>7, <2>8, FitGrows DEF Fit
  <2>10. (TokensFit /\ CacheFits /\ YandexTokens)'
    BY <1>0, <1>1, <2>2, <2>3, <2>4, RestGrows DEF ClientT
  <2> QED BY <1>0, <1>1, <1>3, <2>2, <2>3, <2>4, <2>5, <2>6, <2>9, <2>10, Layer1
<1>7. ASSUME ClearToken(w) PROVE Inv1'
  <2>1. /\ clients' = WithToken(clients, work[w].victim, 0) /\ tokens' = tokens /\ Done(w)
    BY <1>7 DEF ClearToken, WithToken
  <2>2. /\ clients' \in Seq(ClientT) /\ Len(clients') = Len(clients)
        /\ \A d \in 1..Len(clients) :
              /\ clients'[d].owner = clients[d].owner
              /\ clients'[d].token = IF d = work[w].victim THEN 0 ELSE clients[d].token
    <3> DEFINE v == work[w].victim
    <3>1. v \in 1..Len(clients) /\ clients' = WithToken(clients, v, 0) /\ 0 \in Nat BY <1>1, <2>1
    <3> HIDE DEF v
    <3>2. clients \in Seq(ClientT) BY <1>1
    <3>3. clients' \in Seq(ClientT) BY <3>1, <3>2, ClientToken
    <3>4. Len(clients') = Len(clients) BY <3>1, <3>2, ClientToken
    <3>5. \A d \in 1..Len(clients) : clients'[d].owner = clients[d].owner BY <3>1, <3>2, ClientToken
    <3>6. \A d \in 1..Len(clients) : clients'[d].token = IF d = v THEN 0 ELSE clients[d].token
      BY <3>1, <3>2, ClientToken
    <3> QED BY <3>3, <3>4, <3>5, <3>6 DEF v
  <2>3. Grows(clients, tokens, clients', tokens') BY <1>1, <2>1, <2>2 DEF Grows
  <2>4. PICK j \in WorkT : work' = [work EXCEPT ![w] = j] /\ Fit(mode, cacheOn, clients, tokens, j)
    BY <1>0, <2>1, DoneFits
  <2>5. Fit(mode, cacheOn, clients', tokens', j) BY <1>1, <2>1, <2>2, <2>3, <2>4, FitGrows
  <2>6. (TokensFit /\ CacheFits /\ YandexTokens)' BY <1>0, <1>1, <2>1, <2>2, <2>3, RestGrows
  <2> QED BY <1>0, <1>1, <1>3, <2>1, <2>2, <2>3, <2>4, <2>5, <2>6, Layer1
<1>8. CASE CheckVictim(w) BY <1>4, <1>5, <1>8 DEF CheckVictim
<1>9. CASE Revoke(w) BY <1>4, <1>6, <1>9 DEF Revoke
<1> QED BY <1>7, <1>8, <1>9

LEMMA CloseLayer1 ==
    ASSUME Inv1, NEW w \in Workers, Close(w) PROVE Inv1'
<1> DEFINE j == [work[w] EXCEPT !.pc = "check", !.victim = work[w].client, !.next = "idle"]
<1>1. /\ work[w].pc = "close" \/ (work[w].pc = "use" /\ mode = "vault")
      /\ work' = [work EXCEPT ![w] = IF ClosesToken(w) THEN j ELSE Idle]
      /\ UNCHANGED <<mode, cacheOn, auth, rev, cred, now, cache, clients, tokens, spent, overlap>>
  BY DEF Close, At, Set, world
<1>2. /\ work[w] \in WorkT /\ Placed(mode, cacheOn, work[w])
      /\ Owned(mode, cacheOn, clients, tokens, work[w])
      /\ clients \in Seq(ClientT) /\ tokens \in Seq(TokenT)
      /\ spent \in [runs : Nat, edits : Nat, faults : Nat] /\ overlap \in BOOLEAN
  BY PlacedAt
<1>3. mode = "vault" /\ work[w].client # 0 /\ work[w].store \in Stores BY <1>1, <1>2 DEF Placed
<1>4. ASSUME ClosesToken(w) PROVE j \in WorkT /\ Fit(mode, cacheOn, clients, tokens, j)
  <2>1. ~cacheOn BY <1>4 DEF ClosesToken
  <2>2. /\ j \in WorkT /\ j.pc = "check" /\ j.client = work[w].client /\ j.victim = work[w].client
        /\ j.token = work[w].token /\ j.store = work[w].store /\ j.ns = work[w].ns
        /\ j.rev = work[w].rev /\ j.cred = work[w].cred /\ j.next = "idle"
    BY <1>2 DEF WorkT, PCs
  <2>3. OwnerOf(j) = OwnerOf(work[w]) BY <2>2 DEF OwnerOf
  <2> HIDE DEF j
  <2>4. Owned(mode, cacheOn, clients, tokens, j) BY <1>2, <2>2, <2>3 DEF Owned
  <2>5. Placed(mode, cacheOn, j) BY <1>2, <1>3, <2>1, <2>2 DEF Placed, Revoking
  <2> QED BY <2>2, <2>4, <2>5 DEF Fit
<1> HIDE DEF j
<1>5. CASE ClosesToken(w) BY <1>1, <1>2, <1>4, <1>5, WorkLayer1
<1>6. CASE ~ClosesToken(w) BY <1>1, <1>2, <1>6, IdleFits, WorkLayer1
<1> QED BY <1>5, <1>6

(* The cache loses or gains entries.                                       *)
LEMMA CacheLayer1 ==
    ASSUME Inv1, NEW w \in Workers, NEW j \in WorkT, work' = [work EXCEPT ![w] = j], cacheOn,
           Fit(mode, cacheOn, clients, tokens, j),
           UNCHANGED <<mode, cacheOn, auth, rev, cred, now, clients, tokens, spent, overlap>>,
           cache' \in Seq(EntryT),
           \A n \in 1..Len(cache') : EntryFits(mode, clients, cache'[n])
    PROVE  Inv1'
<1>1. clients \in Seq(ClientT) /\ tokens \in Seq(TokenT) BY DEF Inv1, Types
<1>2. TokensFit' /\ YandexTokens' /\ CacheFits' BY DEF Inv1, TokensFit, CacheFits, YandexTokens
<1>3. Grows(clients, tokens, clients', tokens') BY <1>1, SameGrows
<1>4. spent' \in [runs : Nat, edits : Nat, faults : Nat] /\ overlap' \in BOOLEAN BY DEF Inv1, Types
<1> QED BY <1>1, <1>2, <1>3, <1>4, Layer1

LEMMA CleanupFits ==
    ASSUME Inv1, NEW w \in Workers, NEW c \in 1..Len(clients), NEW p \in {"make", "init"}, cacheOn,
           work[w].pc = IF p = "make" THEN "remove" ELSE "add", Cleanup(w, c, p)
    PROVE  \E j \in WorkT : work' = [work EXCEPT ![w] = j] /\ Fit(mode, cacheOn, clients, tokens, j)
<1>1. /\ work[w] \in WorkT /\ Placed(mode, cacheOn, work[w])
      /\ Owned(mode, cacheOn, clients, tokens, work[w]) /\ clients \in Seq(ClientT)
  BY PlacedAt
<1>2. /\ work[w].pc # "idle" /\ (p = "make" <=> work[w].client = 0) /\ mode # "yandex"
      /\ work[w].store \in Stores
  BY <1>1 DEF Placed
<1>3. CASE mode = "vault"
  <2> DEFINE j == [work[w] EXCEPT !.pc = "check", !.victim = c, !.next = p]
  <2>1. work' = [work EXCEPT ![w] = j] BY <1>3 DEF Cleanup, Set
  <2>2. /\ j \in WorkT /\ j.pc = "check" /\ j.client = work[w].client /\ j.victim = c
        /\ j.token = work[w].token /\ j.store = work[w].store /\ j.ns = work[w].ns
        /\ j.rev = work[w].rev /\ j.cred = work[w].cred /\ j.next = p
    <3>1. c \in Nat /\ p \in PCs /\ "check" \in PCs BY DEF PCs
    <3> QED BY <1>1, <3>1 DEF WorkT
  <2>3. OwnerOf(j) = OwnerOf(work[w]) /\ c \in 0..Len(clients) BY <1>1, <2>2 DEF OwnerOf
  <2> HIDE DEF j
  <2>4. Owned(mode, cacheOn, clients, tokens, j) BY <1>1, <2>2, <2>3 DEF Owned
  <2>5. Placed(mode, cacheOn, j) BY <1>1, <1>2, <1>3, <2>2 DEF Placed, Revoking
  <2> QED BY <2>1, <2>2, <2>4, <2>5 DEF Fit
<1>4. CASE mode # "vault"
  <2>1. Goto(w, p) BY <1>4 DEF Cleanup
  <2> QED BY <1>2, <2>1, MoveFits DEF PCs, Revoking
<1> QED BY <1>3, <1>4

LEMMA GetLayer1 ==
    ASSUME Inv1, NEW w \in Workers, Get(w) PROVE Inv1'
<1> DEFINE k == Key(w)  e == EntryOf(cache, k)  j == [work[w] EXCEPT !.client = e.client, !.pc = "init"]
<1>1. /\ work[w].pc = "get" /\ cache' = Touch(cache, k)
      /\ IF Hit(cache, work[w].rev, k) THEN work' = [work EXCEPT ![w] = j]
                                       ELSE Goto(w, IF Contains(cache, k) THEN "remove" ELSE "make")
      /\ UNCHANGED <<mode, cacheOn, auth, rev, cred, now, clients, tokens, spent, overlap>>
  BY DEF Get, At, Set, world
<1>2. /\ work[w] \in WorkT /\ Placed(mode, cacheOn, work[w]) /\ cache \in Seq(EntryT)
      /\ Owned(mode, cacheOn, clients, tokens, work[w]) /\ clients \in Seq(ClientT)
  BY PlacedAt
<1>3. cacheOn /\ mode # "yandex" /\ work[w].store \in Stores /\ work[w].client = 0
  BY <1>1, <1>2 DEF Placed
<1>4. k = KeyOf(mode, OwnerOf(work[w])) BY DEF Key, KeyOf, OwnerOf
<1> HIDE DEF k
<1>5. cache' \in Seq(EntryT) /\ \A n \in 1..Len(cache') : \E i \in 1..Len(cache) : cache'[n] = cache[i]
  BY <1>1, <1>2, TouchedEntries
<1>6. \A n \in 1..Len(cache') : EntryFits(mode, clients, cache'[n])
  BY <1>5 DEF Inv1, CacheFits
<1>7. CASE Hit(cache, work[w].rev, k)
  <2>1. Contains(cache, k) /\ e.version = work[w].rev BY <1>7 DEF Hit
  <2>2. IndexOf(cache, k) \in 1..Len(cache) /\ e.key = k BY <1>2, <2>1, IndexInCache
  <2>3. EntryFits(mode, clients, e) BY <2>2 DEF EntryOf, Inv1, CacheFits
  <2> HIDE DEF e
  <2>4. e.client \in 1..Len(clients) /\ e.client \in Nat
        /\ KeyOf(mode, clients[e.client].owner) = KeyOf(mode, OwnerOf(work[w]))
        /\ clients[e.client].owner.rev = work[w].rev
    BY <1>2, <1>4, <2>1, <2>2, <2>3 DEF EntryFits
  <2>5. /\ j \in WorkT /\ j.pc = "init" /\ j.client = e.client /\ j.victim = work[w].victim
        /\ j.token = work[w].token /\ j.store = work[w].store /\ j.ns = work[w].ns
        /\ j.rev = work[w].rev /\ j.cred = work[w].cred /\ j.next = work[w].next
    BY <1>2, <2>4 DEF WorkT, PCs
  <2>6. OwnerOf(j) = OwnerOf(work[w]) /\ OwnerOf(work[w]).rev = work[w].rev BY <2>5 DEF OwnerOf
  <2> HIDE DEF j
  <2>7. Matches(mode, cacheOn, clients[j.client].owner, OwnerOf(j))
    BY <1>3, <2>4, <2>5, <2>6 DEF Matches, KeyOf
  <2>8. Owned(mode, cacheOn, clients, tokens, j)
    <3>1. e.client \in 0..Len(clients) BY <1>2, <2>4
    <3> QED BY <1>2, <1>3, <2>5, <2>7, <3>1 DEF Owned
  <2>9. Placed(mode, cacheOn, j) BY <1>1, <1>2, <1>3, <2>4, <2>5 DEF Placed, Revoking
  <2>10. work' = [work EXCEPT ![w] = j] BY <1>1, <1>7 DEF j, e
  <2> QED BY <1>1, <1>3, <1>5, <1>6, <2>5, <2>8, <2>9, <2>10, CacheLayer1 DEF Fit
<1>8. CASE ~Hit(cache, work[w].rev, k)
  <2>1. PICK p \in {"remove", "make"} : Goto(w, p) BY <1>1, <1>8
  <2>2. PICK i \in WorkT : work' = [work EXCEPT ![w] = i] /\ Fit(mode, cacheOn, clients, tokens, i)
    BY <1>1, <1>3, <2>1, MoveFits DEF PCs, Revoking
  <2> QED BY <1>1, <1>3, <1>5, <1>6, <2>2, CacheLayer1
<1> QED BY <1>7, <1>8

LEMMA RemoveLayer1 ==
    ASSUME Inv1, NEW w \in Workers, Remove(w) PROVE Inv1'
<1> DEFINE k == Key(w)  e == EntryOf(cache, k)
<1>1. /\ work[w].pc = "remove" /\ cache' = Purge(cache, k)
      /\ IF Contains(cache, k) THEN Cleanup(w, e.client, "make") ELSE lock' = lock /\ Goto(w, "make")
      /\ UNCHANGED <<mode, cacheOn, auth, rev, cred, now, clients, tokens, spent, overlap>>
  BY DEF Remove, At, world
<1>2. Placed(mode, cacheOn, work[w]) /\ cache \in Seq(EntryT) BY PlacedAt
<1>3. cacheOn /\ mode # "yandex" /\ work[w].client = 0 BY <1>1, <1>2 DEF Placed
<1> HIDE DEF k
<1>4. cache' \in Seq(EntryT) /\ \A n \in 1..Len(cache') : \E i \in 1..Len(cache) : cache'[n] = cache[i]
  BY <1>1, <1>2, PurgedEntries
<1>5. \A n \in 1..Len(cache') : EntryFits(mode, clients, cache'[n])
  BY <1>4 DEF Inv1, CacheFits
<1>6. CASE Contains(cache, k)
  <2>1. IndexOf(cache, k) \in 1..Len(cache) BY <1>2, <1>6, IndexInCache
  <2>2. EntryFits(mode, clients, e) BY <2>1 DEF EntryOf, Inv1, CacheFits
  <2> HIDE DEF e
  <2>3. e.client \in 1..Len(clients) BY <2>2 DEF EntryFits
  <2>4. Cleanup(w, e.client, "make") BY <1>1, <1>6 DEF e
  <2>5. PICK j \in WorkT : work' = [work EXCEPT ![w] = j] /\ Fit(mode, cacheOn, clients, tokens, j)
    BY <1>1, <1>3, <2>3, <2>4, CleanupFits
  <2> QED BY <1>1, <1>3, <1>4, <1>5, <2>5, CacheLayer1
<1>7. CASE ~Contains(cache, k)
  <2>1. Goto(w, "make") BY <1>1, <1>7
  <2>2. PICK j \in WorkT : work' = [work EXCEPT ![w] = j] /\ Fit(mode, cacheOn, clients, tokens, j)
    BY <1>1, <1>3, <2>1, MoveFits DEF PCs, Revoking
  <2> QED BY <1>1, <1>3, <1>4, <1>5, <2>2, CacheLayer1
<1> QED BY <1>6, <1>7

LEMMA AddLayer1 ==
    ASSUME Inv1, NEW w \in Workers, AddToCache(w) PROVE Inv1'
<1> DEFINE k == Key(w)  e == Entry(k, work[w].rev, work[w].client)
           p == Purge(cache, k)  o == Oldest(cache)
<1>1. /\ work[w].pc = "add" /\ cache' = Add(cache, CacheSize, work[w].rev, k, work[w].client)
      /\ IF Evicts(cache, CacheSize, k) THEN Cleanup(w, o.client, "init") ELSE lock' = lock /\ Goto(w, "init")
      /\ UNCHANGED <<mode, cacheOn, auth, rev, cred, now, clients, tokens, spent, overlap>>
  BY DEF AddToCache, At, world
<1>2. /\ Placed(mode, cacheOn, work[w]) /\ Owned(mode, cacheOn, clients, tokens, work[w])
      /\ cache \in Seq(EntryT) /\ work[w] \in WorkT /\ clients \in Seq(ClientT)
  BY PlacedAt
<1>3. /\ cacheOn /\ mode # "yandex" /\ work[w].client \in 1..Len(clients) /\ work[w].client # 0
      /\ work[w].store \in Stores
  BY <1>1, <1>2 DEF Placed, Owned
<1>4. Matches(mode, cacheOn, clients[work[w].client].owner, OwnerOf(work[w])) BY <1>2, <1>3 DEF Owned
<1>5. k = KeyOf(mode, clients[work[w].client].owner) /\ work[w].rev = clients[work[w].client].owner.rev
  BY <1>4 DEF Matches, OwnerOf, KeyOf, Key
<1>6. k \in Keys BY <1>2, <1>3 DEF Key, Keys, WorkT
<1> HIDE DEF k
<1>7. e \in EntryT BY <1>2, <1>6 DEF EntryT, WorkT, Entry
<1>8. EntryFits(mode, clients, e) BY <1>3, <1>5 DEF EntryFits, Entry
<1>9. p \in Seq(EntryT) /\ \A n \in 1..Len(p) : \E i \in 1..Len(cache) : p[n] = cache[i]
  BY <1>2, PurgedEntries
<1>10. CacheSize \in Nat \ {0} BY SessionBounds DEF SessionBounds
<1>11. /\ cache' \in Seq(EntryT) /\ cache'[1] = e /\ Len(cache') \in Nat
       /\ \A n \in 2..Len(cache') : n - 1 \in 1..Len(p) /\ cache'[n] = p[n - 1]
  <2> DEFINE v == work[w].rev  x == work[w].client
  <2>0. Entry(k, v, x) \in EntryT BY <1>7
  <2> HIDE DEF v, x
  <2>1. Add(cache, CacheSize, v, k, x) \in Seq(EntryT)
    BY <1>2, <1>10, <2>0, AddedEntries
  <2>2. Add(cache, CacheSize, v, k, x)[1] = Entry(k, v, x)
    BY <1>2, <1>10, <2>0, AddedEntries
  <2>3. \A n \in 2..Len(Add(cache, CacheSize, v, k, x)) :
            n - 1 \in 1..Len(Purge(cache, k)) /\ Add(cache, CacheSize, v, k, x)[n] = Purge(cache, k)[n - 1]
    BY <1>2, <1>10, <2>0, AddedEntries
  <2> QED BY <1>1, <2>1, <2>2, <2>3 DEF v, x
<1> HIDE DEF e, p
<1>12. ASSUME NEW n \in 1..Len(cache') PROVE EntryFits(mode, clients, cache'[n])
  <2>1. CASE n = 1 BY <2>1, <1>8, <1>11
  <2>2. CASE n # 1
    <3>1. n \in 2..Len(cache') BY <2>2, <1>11
    <3>2. PICK i \in 1..Len(cache) : cache'[n] = cache[i] BY <3>1, <1>9, <1>11
    <3> QED BY <3>2 DEF Inv1, CacheFits
  <2> QED BY <2>1, <2>2
<1>13. CASE Evicts(cache, CacheSize, k)
  <2>1. Len(cache) \in 1..Len(cache) BY <1>2, <1>10, <1>13 DEF Evicts
  <2>2. EntryFits(mode, clients, o) BY <2>1 DEF Inv1, CacheFits, Oldest
  <2> HIDE DEF o
  <2>3. o.client \in 1..Len(clients) BY <2>2 DEF EntryFits
  <2>4. Cleanup(w, o.client, "init") BY <1>1, <1>13 DEF o
  <2>5. PICK j \in WorkT : work' = [work EXCEPT ![w] = j] /\ Fit(mode, cacheOn, clients, tokens, j)
    BY <1>1, <1>3, <2>3, <2>4, CleanupFits
  <2> QED BY <1>1, <1>3, <1>11, <1>12, <2>5, CacheLayer1
<1>14. CASE ~Evicts(cache, CacheSize, k)
  <2>1. Goto(w, "init") BY <1>1, <1>14
  <2>2. PICK j \in WorkT : work' = [work EXCEPT ![w] = j] /\ Fit(mode, cacheOn, clients, tokens, j)
    BY <1>1, <1>3, <2>1, MoveFits DEF PCs, Revoking
  <2> QED BY <1>1, <1>3, <1>11, <1>12, <2>2, CacheLayer1
<1> QED BY <1>13, <1>14

(* A new client, made for its reconcile.                                   *)
LEMMA MakeLayer1 ==
    ASSUME Inv1, NEW w \in Workers, Make(w) PROVE Inv1'
<1> DEFINE x == [owner |-> Owner(w), token |-> 0, chain |-> <<>>]
           p == IF ~UseCache(work[w].store) THEN "init" ELSE IF mode = "vault" THEN "contains" ELSE "add"
           j == [work[w] EXCEPT !.client = Len(clients) + 1, !.pc = p]
<1>1. /\ work[w].pc = "make" /\ clients' = Append(clients, x) /\ work' = [work EXCEPT ![w] = j]
      /\ UNCHANGED <<mode, cacheOn, auth, rev, cred, now, cache, tokens, spent, overlap>>
  BY DEF Make, At, Set, world
<1>2. /\ Placed(mode, cacheOn, work[w]) /\ Owned(mode, cacheOn, clients, tokens, work[w])
      /\ cache \in Seq(EntryT) /\ work[w] \in WorkT /\ clients \in Seq(ClientT) /\ tokens \in Seq(TokenT)
      /\ mode \in {"vault", "aws", "yandex"}
      /\ spent \in [runs : Nat, edits : Nat, faults : Nat] /\ overlap \in BOOLEAN
  BY PlacedAt
<1>3. mode # "yandex" /\ work[w].store \in Stores /\ work[w].token = 0 BY <1>1, <1>2 DEF Placed
<1>4. x \in ClientT /\ x.token = 0 /\ x.owner = OwnerOf(work[w])
  <2> DEFINE o == Owner(w)
  <2>1. o \in OwnerT /\ o = OwnerOf(work[w]) BY <1>2, <1>3 DEF OwnerT, Owner, OwnerOf, WorkT
  <2> HIDE DEF o
  <2>2. <<>> \in Seq(RoleNames) OBVIOUS
  <2>3. x = [owner |-> o, token |-> 0, chain |-> <<>>] BY DEF o
  <2> HIDE DEF x
  <2> QED BY <2>1, <2>2, <2>3 DEF ClientT
<1>5. /\ p \in {"init", "contains", "add"} /\ (p = "contains" => mode = "vault")
      /\ (p \in {"contains", "add"} => cacheOn)
  BY DEF UseCache
<1> HIDE DEF x, p
<1>6. /\ clients' \in Seq(ClientT) /\ Len(clients') = Len(clients) + 1 /\ Len(clients) \in Nat
      /\ clients'[Len(clients) + 1] = x /\ \A c \in 1..Len(clients) : clients'[c] = clients[c]
  BY <1>1, <1>2, <1>4
<1>7. Grows(clients, tokens, clients', tokens') BY <1>1, <1>2, <1>6 DEF Grows
<1>8. TokensFit'
  <2> SUFFICES ASSUME NEW c \in 1..(Len(clients) + 1) PROVE TokenFits(cacheOn, tokens, clients'[c])
    BY <1>1, <1>6 DEF TokensFit
  <2>1. CASE c \in 1..Len(clients) BY <2>1, <1>6 DEF Inv1, TokensFit
  <2>2. CASE c = Len(clients) + 1
    <3>1. 0 \in 0..Len(tokens) BY <1>2
    <3> QED BY <2>2, <3>1, <1>4, <1>6 DEF TokenFits
  <2> QED BY <1>6, <2>1, <2>2
<1>9. CacheFits' BY <1>1, <1>6 DEF Inv1, CacheFits, EntryFits
<1>10. YandexTokens' BY <1>1 DEF Inv1, YandexTokens
<1>11. /\ j \in WorkT /\ j.pc = p /\ j.client = Len(clients) + 1 /\ j.victim = work[w].victim
       /\ j.token = work[w].token /\ j.store = work[w].store /\ j.ns = work[w].ns
       /\ j.rev = work[w].rev /\ j.cred = work[w].cred /\ j.next = work[w].next
  <2>1. p \in PCs /\ Len(clients) + 1 \in Nat BY <1>5, <1>6 DEF PCs
  <2> QED BY <1>2, <2>1 DEF WorkT
<1>12. OwnerOf(j) = OwnerOf(work[w]) BY <1>11 DEF OwnerOf
<1> HIDE DEF j
<1>13. Placed(mode, cacheOn, j) BY <1>1, <1>2, <1>3, <1>5, <1>6, <1>11 DEF Placed, Revoking
<1>14. Owned(mode, cacheOn, clients', tokens', j)
  <2>1. clients'[j.client].owner = OwnerOf(j) BY <1>4, <1>6, <1>11, <1>12
  <2>2. j.client \in 0..Len(clients') /\ j.victim \in 0..Len(clients') /\ j.token \in 0..Len(tokens')
    BY <1>1, <1>2, <1>6, <1>11 DEF Owned
  <2> QED BY <1>3, <2>1, <2>2, <1>11 DEF Owned, Matches
<1> QED BY <1>1, <1>2, <1>6, <1>7, <1>8, <1>9, <1>10, <1>11, <1>13, <1>14, Layer1 DEF Fit

(* A token is issued.                                                      *)
LEMMA IssuedToken ==
    ASSUME Inv1, NEW w \in Workers, work[w].store \in Stores, NEW tk \in Seq(TokenT)
    PROVE  LET x == Token(Owner(w), "live")
           IN  /\ x \in TokenT /\ x.owner = OwnerOf(work[w]) /\ x.state = "live" /\ x.expires = now + TTL
               /\ Append(tk, x) \in Seq(TokenT) /\ Len(Append(tk, x)) = Len(tk) + 1
               /\ Append(tk, x)[Len(tk) + 1] = x
               /\ \A t \in 1..Len(tk) : Append(tk, x)[t] = tk[t]
<1> DEFINE o == Owner(w)  x == Token(o, "live")
<1>1. work[w] \in WorkT BY PlacedAt
<1>2. o \in OwnerT /\ o = OwnerOf(work[w]) BY <1>1 DEF OwnerT, Owner, OwnerOf, WorkT
<1>3. now + TTL \in Nat BY SessionBounds DEF SessionBounds, Inv1, Types
<1> HIDE DEF o
<1>4. x \in TokenT /\ x.owner = o /\ x.state = "live" /\ x.expires = now + TTL
  BY <1>2, <1>3 DEF TokenT, Token
<1> HIDE DEF x
<1>5. /\ Append(tk, x) \in Seq(TokenT) /\ Len(Append(tk, x)) = Len(tk) + 1
      /\ Append(tk, x)[Len(tk) + 1] = x /\ \A t \in 1..Len(tk) : Append(tk, x)[t] = tk[t]
  BY <1>4
<1> QED BY <1>2, <1>4, <1>5 DEF x, o

LEMMA LoginLayer1 ==
    ASSUME Inv1, NEW w \in Workers, Login(w) PROVE Inv1'
<1> DEFINE x == Token(Owner(w), "live")  c == work[w].client
<1>1. /\ work[w].pc = "login" /\ tokens' = Append(tokens, x) /\ Goto(w, "use")
      /\ clients' = WithToken(clients, c, Len(tokens) + 1)
      /\ UNCHANGED <<mode, cacheOn, auth, rev, cred, now, cache, spent, overlap>>
  BY DEF Login, At, world, WithToken
<1>2. /\ Placed(mode, cacheOn, work[w]) /\ Owned(mode, cacheOn, clients, tokens, work[w])
      /\ cache \in Seq(EntryT) /\ clients \in Seq(ClientT) /\ tokens \in Seq(TokenT)
      /\ spent \in [runs : Nat, edits : Nat, faults : Nat] /\ overlap \in BOOLEAN
  BY PlacedAt
<1>3. mode = "vault" /\ work[w].store \in Stores /\ c \in 1..Len(clients) /\ c # 0
  BY <1>1, <1>2 DEF Placed, Owned
<1>4. Matches(mode, cacheOn, clients[c].owner, OwnerOf(work[w])) BY <1>2, <1>3 DEF Owned
<1>5. /\ x.owner = OwnerOf(work[w])
      /\ tokens' \in Seq(TokenT) /\ Len(tokens') = Len(tokens) + 1 /\ Len(tokens) \in Nat
      /\ tokens'[Len(tokens) + 1] = x /\ \A t \in 1..Len(tokens) : tokens'[t] = tokens[t]
  BY <1>1, <1>2, <1>3, IssuedToken
<1>6. PICK j \in WorkT : work' = [work EXCEPT ![w] = j] /\ Fit(mode, cacheOn, clients, tokens, j)
  BY <1>1, <1>3, MoveFits DEF PCs, Revoking
<1> HIDE DEF x, c
<1>7. /\ clients' \in Seq(ClientT) /\ Len(clients') = Len(clients)
      /\ \A d \in 1..Len(clients) :
            /\ clients'[d].owner = clients[d].owner /\ clients'[d].chain = clients[d].chain
            /\ clients'[d].token = IF d = c THEN Len(tokens) + 1 ELSE clients[d].token
  <2>1. Len(tokens) + 1 \in Nat BY <1>5
  <2> QED BY <1>1, <1>2, <1>3, <2>1, ClientToken
<1>8. Grows(clients, tokens, clients', tokens') BY <1>2, <1>5, <1>7 DEF Grows
<1>9. TokensFit'
  <2> SUFFICES ASSUME NEW d \in 1..Len(clients) PROVE TokenFits(cacheOn, tokens', clients'[d])
    BY <1>1, <1>7 DEF TokensFit
  <2>1. TokenFits(cacheOn, tokens, clients[d]) BY DEF Inv1, TokensFit
  <2>2. CASE d # c
    <3>1. clients'[d].token = clients[d].token /\ clients'[d].owner = clients[d].owner BY <2>2, <1>7
    <3> QED BY <2>1, <3>1, <1>5 DEF TokenFits
  <2>3. CASE d = c
    <3>1. clients'[d].token = Len(tokens) + 1 /\ clients'[d].owner = clients[c].owner BY <2>3, <1>7
    <3>2. tokens'[clients'[d].token].owner = OwnerOf(work[w]) BY <3>1, <1>5
    <3> QED BY <3>1, <3>2, <1>4, <1>5 DEF TokenFits, Matches
  <2> QED BY <2>2, <2>3
<1>10. CacheFits' BY <1>1, <1>7 DEF Inv1, CacheFits, EntryFits
<1>11. YandexTokens' BY <1>1, <1>3 DEF YandexTokens
<1>12. Fit(mode, cacheOn, clients', tokens', j) BY <1>2, <1>5, <1>6, <1>7, <1>8, FitGrows
<1> QED BY <1>1, <1>2, <1>5, <1>6, <1>7, <1>8, <1>9, <1>10, <1>11, <1>12, Layer1

(* Roles are assumed on a session.                                         *)
LEMMA RoleLayer1 ==
    ASSUME Inv1, NEW w \in Workers, NewSTSClient(w) \/ AssumeRole(w) PROVE Inv1'
<1> DEFINE c == work[w].client
<1>1. /\ work[w] \in WorkT /\ Placed(mode, cacheOn, work[w])
      /\ Owned(mode, cacheOn, clients, tokens, work[w])
      /\ cache \in Seq(EntryT) /\ clients \in Seq(ClientT) /\ tokens \in Seq(TokenT)
      /\ spent \in [runs : Nat, edits : Nat, faults : Nat] /\ overlap \in BOOLEAN
      /\ mode \in {"vault", "aws", "yandex"}
  BY PlacedAt
<1>2. CASE NewSTSClient(w)
  <2> DEFINE j == [work[w] EXCEPT !.pc = "assume", !.base = clients[c].chain]
  <2>1. /\ work[w].pc = "init" /\ mode = "aws"
        /\ Goto(w, "use") \/ work' = [work EXCEPT ![w] = j]
        /\ UNCHANGED <<mode, cacheOn, auth, rev, cred, now, cache, clients, tokens, spent, overlap>>
    BY <1>2 DEF NewSTSClient, At, Set, world
  <2>2. c \in 1..Len(clients) /\ c # 0 /\ work[w].store \in Stores BY <1>1, <2>1 DEF Placed, Owned
  <2>3. CASE Goto(w, "use") BY <2>1, <2>2, <2>3, MoveLayer1 DEF PCs, Revoking
  <2>4. CASE work' = [work EXCEPT ![w] = j]
    <3> DEFINE q == clients[c].chain
    <3>1. q \in Seq(RoleNames)
      <4>1. clients[c] \in ClientT BY <1>1, <2>2
      <4> QED BY <4>1 DEF ClientT
    <3> HIDE DEF q
    <3>2. j = [work[w] EXCEPT !.pc = "assume", !.base = q] BY DEF q
    <3>3. /\ j \in WorkT /\ j.pc = "assume" /\ j.client = work[w].client /\ j.victim = work[w].victim
          /\ j.token = work[w].token /\ j.store = work[w].store /\ j.ns = work[w].ns
          /\ j.rev = work[w].rev /\ j.cred = work[w].cred /\ j.next = work[w].next
      BY <1>1, <3>1, <3>2 DEF WorkT, PCs
    <3>4. OwnerOf(j) = OwnerOf(work[w]) BY <3>3 DEF OwnerOf
    <3> HIDE DEF j
    <3>5. Owned(mode, cacheOn, clients, tokens, j) BY <1>1, <3>3, <3>4 DEF Owned
    <3>6. Placed(mode, cacheOn, j) BY <1>1, <2>1, <2>2, <3>3 DEF Placed, Revoking
    <3>7. work' = [work EXCEPT ![w] = j] BY <2>4 DEF j
    <3> QED BY <1>1, <2>1, <3>3, <3>5, <3>6, <3>7, WorkLayer1 DEF Fit
  <2> QED BY <2>1, <2>3, <2>4
<1>3. CASE AssumeRole(w)
  <2> DEFINE q == Append(work[w].base, RoleToAssume(work[w].role))
             j == [work[w] EXCEPT !.pc = "init", !.role = work[w].role + 1]
  <2>1. /\ work[w].pc = "assume" /\ work' = [work EXCEPT ![w] = j]
        /\ clients' = WithChain(clients, c, q)
        /\ UNCHANGED <<mode, cacheOn, auth, rev, cred, now, cache, tokens, spent, overlap>>
    BY <1>3 DEF AssumeRole, At, Set, world, WithChain
  <2>2. c \in 1..Len(clients) /\ c # 0 /\ work[w].store \in Stores /\ mode = "aws"
    BY <1>1, <2>1 DEF Placed, Owned
  <2>3. q \in Seq(RoleNames) /\ work[w].role \in Nat /\ work[w].role + 1 \in Nat
    <3>1. work[w].role \in Nat /\ work[w].base \in Seq(RoleNames) BY <1>1 DEF WorkT
    <3>2. RoleToAssume(work[w].role) \in RoleNames BY <3>1 DEF RoleNames
    <3> QED BY <3>1, <3>2
  <2>4. /\ j \in WorkT /\ j.pc = "init" /\ j.client = work[w].client /\ j.victim = work[w].victim
        /\ j.token = work[w].token /\ j.store = work[w].store /\ j.ns = work[w].ns
        /\ j.rev = work[w].rev /\ j.cred = work[w].cred /\ j.next = work[w].next
    BY <1>1, <2>3 DEF WorkT, PCs
  <2>5. OwnerOf(j) = OwnerOf(work[w]) BY <2>4 DEF OwnerOf
  <2> HIDE DEF j, q
  <2>6. Owned(mode, cacheOn, clients, tokens, j) BY <1>1, <2>4, <2>5 DEF Owned
  <2>7. Placed(mode, cacheOn, j) BY <1>1, <2>1, <2>2, <2>4 DEF Placed, Revoking
  <2> HIDE DEF c
  <2>8. /\ clients' \in Seq(ClientT) /\ Len(clients') = Len(clients)
        /\ \A d \in 1..Len(clients) :
              /\ clients'[d].owner = clients[d].owner /\ clients'[d].token = clients[d].token
              /\ clients'[d].chain = IF d = c THEN q ELSE clients[d].chain
    BY <1>1, <2>1, <2>2, <2>3, ClientChain
  <2>9. Grows(clients, tokens, clients', tokens') BY <1>1, <2>1, <2>8 DEF Grows
  <2>10. (TokensFit /\ CacheFits /\ YandexTokens)' BY <1>1, <2>1, <2>8, <2>9, RestGrows
  <2>11. Fit(mode, cacheOn, clients', tokens', j)
    BY <1>1, <2>1, <2>4, <2>6, <2>7, <2>8, <2>9, FitGrows DEF Fit
  <2> QED BY <1>1, <2>1, <2>4, <2>8, <2>9, <2>10, <2>11, Layer1
<1> QED BY <1>2, <1>3

Dropped(tk, K) == [t \in DOMAIN tk |-> IF t \in K THEN [tk[t] EXCEPT !.state = "dropped"] ELSE tk[t]]

LEMMA DroppedTokens ==
    ASSUME NEW tk \in Seq(TokenT), NEW K
    PROVE  /\ Dropped(tk, K) \in Seq(TokenT) /\ Len(Dropped(tk, K)) = Len(tk)
           /\ \A t \in 1..Len(tk) :
                 /\ Dropped(tk, K)[t].owner = tk[t].owner /\ Dropped(tk, K)[t].expires = tk[t].expires
                 /\ Dropped(tk, K)[t].state = IF t \in K THEN "dropped" ELSE tk[t].state
<1> DEFINE x(t) == IF t \in K THEN [tk[t] EXCEPT !.state = "dropped"] ELSE tk[t]
           d == [t \in 1..Len(tk) |-> x(t)]
<1>1. \A t \in 1..Len(tk) : /\ x(t) \in TokenT /\ x(t).owner = tk[t].owner
                            /\ x(t).expires = tk[t].expires
                            /\ x(t).state = IF t \in K THEN "dropped" ELSE tk[t].state
  <2> TAKE t \in 1..Len(tk)
  <2>1. tk[t] \in TokenT OBVIOUS
  <2> QED BY <2>1 DEF TokenT
<1>2. Dropped(tk, K) = d BY DEF Dropped
<1> HIDE DEF x
<1>3. d \in Seq(TokenT) /\ Len(d) = Len(tk) /\ \A t \in 1..Len(tk) : d[t] = x(t) BY <1>1
<1> HIDE DEF d
<1> QED BY <1>1, <1>2, <1>3

(* A reconcile takes the IAM token that is kept, or fetches another.       *)
LEMMA IamFits ==
    ASSUME Inv1, NEW w \in Workers, work[w].pc = "iam", NEW tk \in Seq(TokenT), NEW t \in 1..Len(tk),
           tk[t].owner.store = work[w].store, tk[t].owner.cred = work[w].cred, Len(tokens) <= Len(tk),
           work' = [work EXCEPT ![w] = [work[w] EXCEPT !.pc = "use", !.token = t, !.since = now]]
    PROVE  \E j \in WorkT : work' = [work EXCEPT ![w] = j] /\ Fit(mode, cacheOn, clients, tk, j)
<1> DEFINE j == [work[w] EXCEPT !.pc = "use", !.token = t, !.since = now]
<1>1. /\ work[w] \in WorkT /\ Placed(mode, cacheOn, work[w]) /\ clients \in Seq(ClientT)
      /\ Owned(mode, cacheOn, clients, tokens, work[w]) /\ mode \in {"vault", "aws", "yandex"}
  BY PlacedAt
<1>2. mode = "yandex" /\ work[w].client = 0 /\ work[w].store \in Stores BY <1>1 DEF Placed
<1>3. /\ j \in WorkT /\ j.pc = "use" /\ j.client = work[w].client /\ j.victim = work[w].victim
      /\ j.token = t /\ j.store = work[w].store /\ j.ns = work[w].ns
      /\ j.rev = work[w].rev /\ j.cred = work[w].cred /\ j.next = work[w].next
  <2>1. t \in Nat /\ now \in Nat /\ "use" \in PCs BY DEF Inv1, Types, PCs
  <2> QED BY <1>1, <2>1 DEF WorkT
<1> HIDE DEF j
<1>4. t \in 0..Len(tk) /\ t # 0 OBVIOUS
<1>5. Owned(mode, cacheOn, clients, tk, j) BY <1>1, <1>2, <1>3, <1>4 DEF Owned
<1>6. Placed(mode, cacheOn, j) BY <1>1, <1>2, <1>3, <1>4 DEF Placed, Revoking
<1> QED BY <1>3, <1>5, <1>6 DEF Fit, j

LEMMA IamLayer1 ==
    ASSUME Inv1, NEW w \in Workers, GetOrCreateIamToken(w) PROVE Inv1'
<1>1. /\ work[w].pc = "iam"
      /\ UNCHANGED <<mode, cacheOn, auth, rev, cred, now, cache, clients, overlap>>
  BY DEF GetOrCreateIamToken, At, world
<1>2. /\ work[w] \in WorkT /\ Placed(mode, cacheOn, work[w])
      /\ cache \in Seq(EntryT) /\ clients \in Seq(ClientT) /\ tokens \in Seq(TokenT)
      /\ spent \in [runs : Nat, edits : Nat, faults : Nat] /\ overlap \in BOOLEAN
      /\ mode \in {"vault", "aws", "yandex"}
  BY PlacedAt
<1>3. /\ mode = "yandex" /\ work[w].store \in Stores /\ work[w].ns = "n1" /\ work[w].pc # "idle"
      /\ work[w].client = 0
  BY <1>1, <1>2 DEF Placed
<1>4. CASE \E t \in Kept(w) :
             /\ isIamTokenUsable(t)
             /\ Set(w, [work[w] EXCEPT !.pc = "use", !.token = t, !.since = now])
             /\ UNCHANGED <<tokens, spent>>
  <2>1. PICK t \in Kept(w) :
             /\ Set(w, [work[w] EXCEPT !.pc = "use", !.token = t, !.since = now])
             /\ UNCHANGED <<tokens, spent>>
    BY <1>4
  <2>2. /\ t \in 1..Len(tokens) /\ IamKey(tokens[t].owner) = IamKey(Owner(w)) BY <1>2 DEF Kept
  <2>3. tokens[t].owner.store = work[w].store /\ tokens[t].owner.cred = work[w].cred
    BY <2>2 DEF IamKey, Owner
  <2>4. PICK j \in WorkT : work' = [work EXCEPT ![w] = j] /\ Fit(mode, cacheOn, clients, tokens, j)
    <3>1. Len(tokens) <= Len(tokens) BY <1>2
    <3> QED BY <1>1, <1>2, <2>1, <2>2, <2>3, <3>1, IamFits DEF Set
  <2> QED BY <1>1, <1>2, <2>1, <2>4, WorkLayer1
<1>5. CASE /\ tokens' = Append(Dropped(tokens, Kept(w)), Token(Owner(w), "live"))
           /\ Set(w, [work[w] EXCEPT !.pc = "use", !.token = Len(tokens) + 1, !.since = now])
           /\ UNCHANGED spent
  <2> DEFINE d == Dropped(tokens, Kept(w))  x == Token(Owner(w), "live")
  <2>1. /\ d \in Seq(TokenT) /\ Len(d) = Len(tokens)
        /\ \A t \in 1..Len(tokens) :
              /\ d[t].owner = tokens[t].owner /\ d[t].expires = tokens[t].expires
              /\ d[t].state = IF t \in Kept(w) THEN "dropped" ELSE tokens[t].state
    BY <1>2, DroppedTokens
  <2> HIDE DEF d
  <2>2. /\ x \in TokenT /\ x.owner = OwnerOf(work[w])
        /\ Append(d, x) \in Seq(TokenT) /\ Len(Append(d, x)) = Len(d) + 1
        /\ Append(d, x)[Len(d) + 1] = x /\ \A t \in 1..Len(d) : Append(d, x)[t] = d[t]
    BY <1>3, <2>1, IssuedToken
  <2> HIDE DEF x
  <2>3. /\ tokens' \in Seq(TokenT) /\ Len(tokens') = Len(tokens) + 1 /\ Len(tokens) \in Nat
        /\ tokens'[Len(tokens) + 1].owner = OwnerOf(work[w])
        /\ \A t \in 1..Len(tokens) :
              /\ tokens'[t].owner = tokens[t].owner /\ tokens'[t].expires = tokens[t].expires
              /\ tokens'[t].state = IF t \in Kept(w) THEN "dropped" ELSE tokens[t].state
    BY <1>2, <1>5, <2>1, <2>2 DEF d, x
  <2>4. Grows(clients, tokens, clients', tokens')
    <3>1. \A t \in 1..Len(tokens) : tokens'[t].state = "live" => tokens[t].state = "live" BY <2>3
    <3>2. clients' = clients /\ Len(clients) <= Len(clients) BY <1>1, <1>2
    <3> QED BY <2>3, <3>1, <3>2 DEF Grows
  <2>5. TokensFit'
    <3> SUFFICES ASSUME NEW c \in 1..Len(clients) PROVE TokenFits(cacheOn, tokens', clients[c])
      BY <1>1 DEF TokensFit
    <3> QED BY <1>2, <2>3 DEF Inv1, TokensFit, TokenFits
  <2>6. CacheFits' BY <1>1 DEF Inv1, CacheFits, EntryFits
  <2>7. OwnerOf(work[w]).ns = "n1" /\ OwnerOf(work[w]).store = work[w].store
        /\ OwnerOf(work[w]).cred = work[w].cred
    BY <1>3 DEF OwnerOf
  <2>8. YandexTokens'
    <3>1. ASSUME NEW t \in 1..(Len(tokens) + 1) PROVE tokens'[t].owner.ns = "n1"
      <4>1. CASE t \in 1..Len(tokens) BY <1>3, <2>3, <4>1 DEF Inv1, YandexTokens
      <4>2. CASE t = Len(tokens) + 1 BY <2>3, <2>7, <4>2
      <4> QED BY <2>3, <4>1, <4>2
    <3> QED BY <1>1, <1>3, <2>3, <3>1 DEF Inv1, YandexTokens
  <2>9. PICK j \in WorkT : work' = [work EXCEPT ![w] = j] /\ Fit(mode, cacheOn, clients, tokens', j)
    <3> DEFINE t == Len(tokens) + 1
    <3>1. /\ t \in 1..Len(tokens') /\ tokens'[t].owner.store = work[w].store
          /\ tokens'[t].owner.cred = work[w].cred /\ Len(tokens) <= Len(tokens')
          /\ work' = [work EXCEPT ![w] = [work[w] EXCEPT !.pc = "use", !.token = t, !.since = now]]
      BY <1>5, <2>3, <2>7 DEF Set
    <3> HIDE DEF t
    <3> QED BY <1>1, <2>3, <3>1, IamFits
  <2> QED BY <1>1, <1>2, <1>5, <2>3, <2>4, <2>5, <2>6, <2>8, <2>9, Layer1
<1>6. CASE Fault /\ Goto(w, "idle") /\ UNCHANGED tokens
  BY <1>1, <1>3, <1>6, MoveLayer1 DEF PCs, Revoking
<1>7. \/ \E t \in Kept(w) :
            /\ isIamTokenUsable(t)
            /\ Set(w, [work[w] EXCEPT !.pc = "use", !.token = t, !.since = now])
            /\ UNCHANGED <<tokens, spent>>
      \/ /\ tokens' = Append(Dropped(tokens, Kept(w)), Token(Owner(w), "live"))
         /\ Set(w, [work[w] EXCEPT !.pc = "use", !.token = Len(tokens) + 1, !.since = now])
         /\ UNCHANGED spent
      \/ Fault /\ Goto(w, "idle") /\ UNCHANGED tokens
  BY DEF GetOrCreateIamToken, Dropped
<1> QED BY <1>4, <1>5, <1>6, <1>7

LEMMA SpentType ==
    ASSUME Inv1, spent' = [spent EXCEPT !.edits = spent.edits + 1]
    PROVE  spent' \in [runs : Nat, edits : Nat, faults : Nat]
<1>1. spent \in [runs : Nat, edits : Nat, faults : Nat] BY DEF Inv1, Types
<1> QED BY <1>1

(* Steps of the world.                                                     *)
LEMMA WorldLayer1 ==
    ASSUME Inv1, CleanUpIamTokenMap \/ Tick \/ (\E s \in Stores : Edit(s) \/ Rotate(s))
                 \/ (\E t \in DOMAIN tokens : Expire(t)) \/ UNCHANGED vars
    PROVE  Inv1'
<1>0. /\ clients \in Seq(ClientT) /\ tokens \in Seq(TokenT) /\ now \in Nat
      /\ rev \in [Stores -> Nat] /\ cred \in [Stores -> Nat]
      /\ spent \in [runs : Nat, edits : Nat, faults : Nat]
  BY DEF Inv1, Types
<1>1. ASSUME tokens' \in Seq(TokenT), Len(tokens') = Len(tokens),
             \A t \in 1..Len(tokens) : /\ tokens'[t].owner = tokens[t].owner
                                       /\ tokens'[t].expires = tokens[t].expires
                                       /\ tokens'[t].state = "live" => tokens[t].state = "live",
             UNCHANGED <<mode, cacheOn, auth, cache, clients, work, overlap>>,
             now' \in Nat, rev' \in [Stores -> Nat], cred' \in [Stores -> Nat],
             spent' \in [runs : Nat, edits : Nat, faults : Nat]
      PROVE  Inv1'
  <2>1. Grows(clients, tokens, clients', tokens') BY <1>0, <1>1 DEF Grows
  <2>2. (TokensFit /\ CacheFits /\ YandexTokens)' BY <1>0, <1>1, <2>1, RestGrows DEF ClientT
  <2>3. WorkFits'
    <3> SUFFICES ASSUME NEW w \in Workers PROVE Fit(mode, cacheOn, clients', tokens', work[w])
      BY <1>1 DEF WorkFits
    <3>1. work[w] \in WorkT /\ Fit(mode, cacheOn, clients, tokens, work[w])
      BY DEF Inv1, Types, WorkFits
    <3> QED BY <1>0, <1>1, <2>1, <3>1, FitGrows
  <2>4. Types' BY <1>1 DEF Inv1, Types
  <2> QED BY <2>2, <2>3, <2>4 DEF Inv1
<1>2. CASE CleanUpIamTokenMap
  <2> DEFINE K == {t \in DOMAIN tokens : tokens[t].state = "live" /\ now > tokens[t].expires}
  <2>1. /\ tokens' = Dropped(tokens, K)
        /\ UNCHANGED <<mode, cacheOn, auth, rev, cred, cache, clients, work, overlap, now, spent>>
    BY <1>2 DEF CleanUpIamTokenMap, Dropped, world
  <2> HIDE DEF K
  <2>2. /\ tokens' \in Seq(TokenT) /\ Len(tokens') = Len(tokens)
        /\ \A u \in 1..Len(tokens) :
              /\ tokens'[u].owner = tokens[u].owner /\ tokens'[u].expires = tokens[u].expires
              /\ tokens'[u].state = IF u \in K THEN "dropped" ELSE tokens[u].state
    <3> DEFINE d == Dropped(tokens, K)
    <3>1. /\ d \in Seq(TokenT) /\ Len(d) = Len(tokens)
          /\ \A u \in 1..Len(tokens) :
                /\ d[u].owner = tokens[u].owner /\ d[u].expires = tokens[u].expires
                /\ d[u].state = IF u \in K THEN "dropped" ELSE tokens[u].state
      BY <1>0, DroppedTokens
    <3> QED BY <2>1, <3>1
  <2>3. \A u \in 1..Len(tokens) : tokens'[u].state = "live" => tokens[u].state = "live" BY <2>2
  <2> QED BY <1>0, <1>1, <2>1, <2>2, <2>3
<1>3. CASE Tick
  <2>1. now' = now + 1 /\ UNCHANGED <<mode, cacheOn, auth, rev, cred, cache, clients, tokens, work, spent, overlap>>
    BY <1>3 DEF Tick
  <2> QED BY <1>0, <1>1, <2>1
<1>4. ASSUME NEW s \in Stores, Edit(s) PROVE Inv1'
  <2>1. /\ rev' = [rev EXCEPT ![s] = rev[s] + 1] /\ spent' = [spent EXCEPT !.edits = spent.edits + 1]
        /\ UNCHANGED <<mode, cacheOn, auth, cred, cache, clients, tokens, now, work, overlap>>
    BY <1>4 DEF Edit
  <2>2. rev' \in [Stores -> Nat] BY <1>0, <2>1
  <2>3. spent' \in [runs : Nat, edits : Nat, faults : Nat] BY <2>1, SpentType
  <2> QED BY <1>0, <1>1, <2>1, <2>2, <2>3
<1>5. ASSUME NEW s \in Stores, Rotate(s) PROVE Inv1'
  <2>1. /\ cred' = [cred EXCEPT ![s] = cred[s] + 1] /\ spent' = [spent EXCEPT !.edits = spent.edits + 1]
        /\ UNCHANGED <<mode, cacheOn, auth, rev, cache, clients, tokens, now, work, overlap>>
    BY <1>5 DEF Rotate
  <2>2. cred' \in [Stores -> Nat] BY <1>0, <2>1
  <2>3. spent' \in [runs : Nat, edits : Nat, faults : Nat] BY <2>1, SpentType
  <2> QED BY <1>0, <1>1, <2>1, <2>2, <2>3
<1>6. ASSUME NEW t \in DOMAIN tokens, Expire(t) PROVE Inv1'
  <2>1. /\ tokens' = WithState(tokens, t, "expired") /\ t \in 1..Len(tokens)
        /\ UNCHANGED <<mode, cacheOn, auth, rev, cred, cache, clients, work, overlap, now, spent>>
    BY <1>0, <1>6 DEF Expire, WithState, world
  <2>2. /\ tokens' \in Seq(TokenT) /\ Len(tokens') = Len(tokens)
        /\ \A u \in 1..Len(tokens) :
              /\ tokens'[u].owner = tokens[u].owner /\ tokens'[u].expires = tokens[u].expires
              /\ tokens'[u].state = IF u = t THEN "expired" ELSE tokens[u].state
    BY <1>0, <2>1, TokenState
  <2> QED BY <1>0, <1>1, <2>1, <2>2
<1>7. CASE UNCHANGED vars
  <2>1. UNCHANGED <<mode, cacheOn, auth, rev, cred, cache, clients, tokens, now, work, spent, overlap>>
    BY <1>7 DEF vars
  <2> QED BY <1>0, <1>1, <2>1
<1> QED BY <1>2, <1>3, <1>4, <1>5, <1>6, <1>7

LEMMA NextLayer1 ==
    ASSUME Inv1, [Next]_vars PROVE Inv1'
<1>1. ASSUME NEW w \in Workers,
             \/ Start(w) \/ ReadCredentials(w) \/ Get(w) \/ Remove(w) \/ Make(w) \/ MakeFails(w)
             \/ IsCached(w) \/ AddToCache(w) \/ CheckVictim(w) \/ Revoke(w) \/ ClearToken(w)
             \/ SetAuth(w) \/ LookupToken(w) \/ Login(w) \/ LoginFails(w) \/ Close(w)
             \/ NewSTSClient(w) \/ AssumeRole(w) \/ SessionDone(w) \/ GetOrCreateIamToken(w)
             \/ SecretsRead(w)
      PROVE  Inv1'
  BY <1>1, StartLayer1, GetLayer1, RemoveLayer1, MakeLayer1, QuietLayer1, AddLayer1, RevokeLayer1,
     LoginLayer1, CloseLayer1, RoleLayer1, IamLayer1
<1> QED BY <1>1, WorldLayer1 DEF Next

(* Clients, tokens and cached entries belong to the stores, revisions and  *)
(* credentials they are used for, whatever reconciles do.                  *)
THEOREM Ownership == Spec => []Inv1
BY InitLayer1, NextLayer1, PTL DEF Spec

(* A reconcile works with a client, a session or a token that was made for *)
(* its own store in the revision it read, without a cache with the         *)
(* credentials it read, and from its own namespace but for the Vault       *)
(* cache: getVaultClient, the AWS session cache and the map of IAM tokens  *)
(* never hand a reconcile what belongs to another store.                   *)
THEOREM SessionsAreOwn == Spec => []OwnSession
<1>1. Inv1 => OwnSession
  <2> SUFFICES ASSUME Inv1, NEW w \in Workers, At(w, "use")
               PROVE  /\ Made(w).store = work[w].store
                      /\ mode # "yandex" => Made(w).rev = work[w].rev
                      /\ ~cacheOn => Made(w).cred = work[w].cred
                      /\ Made(w).ns = work[w].ns \/ (cacheOn /\ mode = "vault")
    BY DEF OwnSession
  <2>1. /\ work[w] \in WorkT /\ Placed(mode, cacheOn, work[w]) /\ work[w].pc = "use"
        /\ Owned(mode, cacheOn, clients, tokens, work[w])
        /\ clients \in Seq(ClientT) /\ tokens \in Seq(TokenT) /\ mode \in {"vault", "aws", "yandex"}
    BY PlacedAt DEF At
  <2>2. CASE mode = "yandex"
    <3>1. work[w].token \in 1..Len(tokens) /\ tokens[work[w].token].owner.store = work[w].store
          /\ tokens[work[w].token].owner.cred = work[w].cred /\ work[w].ns = "n1"
      BY <2>1, <2>2 DEF Placed, Owned
    <3>2. tokens[work[w].token].owner.ns = "n1" BY <2>2, <3>1 DEF Inv1, YandexTokens
    <3> QED BY <2>2, <3>1, <3>2 DEF Made
  <2>3. CASE mode # "yandex"
    <3> DEFINE o == clients[work[w].client].owner
    <3>1. work[w].client \in 1..Len(clients) /\ Matches(mode, cacheOn, o, OwnerOf(work[w]))
      BY <2>1, <2>3 DEF Placed, Owned
    <3>2. /\ o.store = work[w].store /\ o.rev = work[w].rev /\ (mode = "aws" => o.ns = work[w].ns)
          /\ ~cacheOn => o.cred = work[w].cred /\ o.ns = work[w].ns
      BY <3>1 DEF Matches, OwnerOf
    <3>3. TokenFits(cacheOn, tokens, clients[work[w].client]) BY <3>1 DEF Inv1, TokensFit
    <3>4. CASE mode = "aws" BY <3>2, <3>4 DEF Made
    <3>5. CASE mode = "vault" BY <3>2, <3>3, <3>5 DEF Made, TokenOf, TokenFits
    <3> QED BY <2>1, <2>3, <3>4, <3>5
  <2> QED BY <2>2, <2>3
<1> QED BY <1>1, Ownership, PTL
---------------------------------------------------------------------------
(* What a step of a reconcile changes.                                     *)
WorkerStep(w) ==
    \/ Start(w) \/ ReadCredentials(w) \/ Get(w) \/ Remove(w) \/ Make(w) \/ MakeFails(w)
    \/ IsCached(w) \/ AddToCache(w) \/ CheckVictim(w) \/ Revoke(w) \/ ClearToken(w)
    \/ SetAuth(w) \/ LookupToken(w) \/ Login(w) \/ LoginFails(w) \/ Close(w)
    \/ NewSTSClient(w) \/ AssumeRole(w) \/ SessionDone(w) \/ GetOrCreateIamToken(w) \/ SecretsRead(w)
WorldStep ==
    \/ CleanUpIamTokenMap \/ Tick \/ (\E s \in Stores : Edit(s) \/ Rotate(s))
    \/ (\E t \in DOMAIN tokens : Expire(t)) \/ UNCHANGED vars

LEMMA NextSteps == [Next]_vars => (\E w \in Workers : WorkerStep(w)) \/ WorldStep
BY DEF Next, WorkerStep, WorldStep

LEMMA SetWork ==
    ASSUME Inv1, NEW w \in Workers, NEW j, work' = [work EXCEPT ![w] = j]
    PROVE  work'[w] = j /\ \A v \in Workers : v # w => work'[v] = work[v]
BY PlacedAt

LEMMA MovedTo ==
    ASSUME Inv1, NEW w \in Workers, NEW p \in PCs, Goto(w, p)
    PROVE  /\ \A v \in Workers : v # w => work'[v] = work[v]
           /\ work'[w].pc = p /\ work'[w].client \in {0, work[w].client}
           /\ p = "idle" => work'[w] = Idle
           /\ p # "idle" => /\ work'[w].client = work[w].client /\ work'[w].role = work[w].role
                            /\ work'[w].base = work[w].base /\ work'[w].store = work[w].store
                            /\ work'[w].rev = work[w].rev /\ work'[w].ns = work[w].ns
                            /\ work'[w].victim = work[w].victim /\ work'[w].next = work[w].next
<1>1. work' = [work EXCEPT ![w] = IF p = "idle" THEN Idle ELSE [work[w] EXCEPT !.pc = p]]
  BY DEF Goto, Set
<1>2. /\ work'[w] = IF p = "idle" THEN Idle ELSE [work[w] EXCEPT !.pc = p]
      /\ \A v \in Workers : v # w => work'[v] = work[v]
  BY <1>1, SetWork
<1>3. work[w] \in WorkT BY PlacedAt
<1>4. CASE p = "idle"
  <2>1. work'[w] = Idle BY <1>2, <1>4
  <2>2. Idle.pc = "idle" /\ Idle.client = 0 BY DEF Idle
  <2> QED BY <1>2, <1>4, <2>1, <2>2
<1>5. CASE p # "idle"
  <2>1. work'[w] = [work[w] EXCEPT !.pc = p] BY <1>2, <1>5
  <2> QED BY <1>2, <1>3, <1>5, <2>1 DEF WorkT
<1> QED BY <1>4, <1>5

LEMMA DoneStep ==
    ASSUME Inv1, NEW w \in Workers, work[w].pc \in Revoking, Done(w)
    PROVE  /\ \A v \in Workers : v # w => work'[v] = work[v]
           /\ work'[w].pc = work[w].next /\ work'[w].client \in {0, work[w].client}
           /\ work[w].next = "idle" => work'[w] = Idle
           /\ work[w].next # "idle" => /\ work'[w].client = work[w].client
                                       /\ work'[w].store = work[w].store
                                       /\ work'[w].rev = work[w].rev /\ work'[w].ns = work[w].ns
<1> DEFINE i == [work[w] EXCEPT !.pc = work[w].next, !.victim = 0, !.next = "idle"]
<1>1. work' = [work EXCEPT ![w] = IF work[w].next = "idle" THEN Idle ELSE i] BY DEF Done, Set
<1>2. /\ work'[w] = IF work[w].next = "idle" THEN Idle ELSE i
      /\ \A v \in Workers : v # w => work'[v] = work[v]
  BY <1>1, SetWork
<1>3. work[w] \in WorkT BY PlacedAt
<1>4. CASE work[w].next = "idle"
  <2>1. work'[w] = Idle BY <1>2, <1>4
  <2>2. Idle.pc = "idle" /\ Idle.client = 0 BY DEF Idle
  <2> QED BY <1>2, <1>4, <2>1, <2>2
<1>5. CASE work[w].next # "idle"
  <2>1. work'[w] = i BY <1>2, <1>5
  <2>2. i.pc = work[w].next /\ i.client = work[w].client /\ i.store = work[w].store
        /\ i.rev = work[w].rev /\ i.ns = work[w].ns
    BY <1>3 DEF WorkT
  <2> HIDE DEF i
  <2> QED BY <1>2, <1>5, <2>1, <2>2
<1> QED BY <1>4, <1>5

Same(w) == UNCHANGED <<mode, cacheOn, auth, now>> /\ \A v \in Workers : v # w => work'[v] = work[v]

(* The steps that keep clients, tokens and the clock.                      *)
LEMMA QuietSteps ==
    ASSUME Inv1, NEW w \in Workers,
           \/ ReadCredentials(w) \/ MakeFails(w) \/ IsCached(w) \/ SetAuth(w) \/ LookupToken(w)
           \/ LoginFails(w) \/ SessionDone(w) \/ SecretsRead(w) \/ Close(w)
           \/ CheckVictim(w) \/ NewSTSClient(w)
    PROVE  /\ Same(w) /\ UNCHANGED <<cache, clients, tokens, overlap>> /\ work[w].pc # "idle"
           /\ work'[w].client \in {0, work[w].client}
           /\ work'[w].pc = "use" => LookupToken(w) \/ NewSTSClient(w)
<1>0. /\ UNCHANGED <<mode, cacheOn, auth, now, cache, clients, tokens, overlap>> /\ work[w].pc # "idle"
  BY DEF ReadCredentials, MakeFails, IsCached, SetAuth, LookupToken, LoginFails, SessionDone,
         SecretsRead, Close, CheckVictim, NewSTSClient, world, At
<1>1. ASSUME NEW p \in PCs, Goto(w, p), p # "use" \/ LookupToken(w) \/ NewSTSClient(w)
      PROVE  /\ \A v \in Workers : v # w => work'[v] = work[v]
             /\ work'[w].client \in {0, work[w].client}
             /\ work'[w].pc = "use" => LookupToken(w) \/ NewSTSClient(w)
  BY <1>1, MovedTo
<1>2. work[w] \in WorkT /\ Placed(mode, cacheOn, work[w]) BY PlacedAt
<1>3. CASE MakeFails(w) \/ LoginFails(w) \/ SessionDone(w) \/ SecretsRead(w)
  BY <1>0, <1>1, <1>3 DEF MakeFails, LoginFails, SessionDone, SecretsRead, PCs, Same
<1>4. CASE IsCached(w)
  <2>1. Goto(w, "init") \/ Goto(w, "add") BY <1>4 DEF IsCached
  <2> QED BY <1>0, <1>1, <2>1 DEF PCs, Same
<1>5. CASE SetAuth(w)
  <2>1. Goto(w, "close") \/ Goto(w, "lookup") \/ Goto(w, "login") BY <1>5 DEF SetAuth, InitClient
  <2> QED BY <1>0, <1>1, <2>1 DEF PCs, Same
<1>6. CASE LookupToken(w)
  <2>1. Goto(w, "use") \/ Goto(w, "login") BY <1>6 DEF LookupToken
  <2> QED BY <1>0, <1>1, <1>6, <2>1 DEF PCs, Same
<1>7. CASE ReadCredentials(w)
  <2> DEFINE p == IF mode = "yandex" THEN "iam" ELSE FirstStep(work[w].store)
             j == [work[w] EXCEPT !.cred = cred[work[w].store], !.pc = p]
  <2>1. work' = [work EXCEPT ![w] = j] BY <1>7 DEF ReadCredentials, Set
  <2>2. p # "use" BY DEF FirstStep
  <2> HIDE DEF p
  <2>3. j.client = work[w].client /\ j.pc = p BY <1>2 DEF WorkT
  <2> HIDE DEF j
  <2> QED BY <1>0, <2>1, <2>2, <2>3, SetWork DEF Same
<1>8. CASE Close(w)
  <2> DEFINE i == [work[w] EXCEPT !.pc = "check", !.victim = work[w].client, !.next = "idle"]
             j == IF ClosesToken(w) THEN i ELSE Idle
  <2>1. work' = [work EXCEPT ![w] = j] BY <1>8 DEF Close, Set
  <2>2. i.client = work[w].client /\ i.pc = "check" BY <1>2 DEF WorkT
  <2>3. Idle.client = 0 /\ Idle.pc = "idle" BY DEF Idle
  <2> HIDE DEF i
  <2>4. j.client \in {0, work[w].client} /\ j.pc # "use" BY <2>2, <2>3
  <2> HIDE DEF j
  <2> QED BY <1>0, <2>1, <2>4, SetWork DEF Same
<1>9. CASE CheckVictim(w)
  <2>1. work[w].pc \in Revoking BY <1>9 DEF CheckVictim, At, Revoking
  <2>2. work[w].next # "use" BY <1>2, <2>1 DEF Placed
  <2>3. Goto(w, "revoke") \/ Done(w) BY <1>9 DEF CheckVictim
  <2>4. CASE Goto(w, "revoke") BY <1>0, <1>1, <2>4 DEF PCs, Same
  <2>5. CASE Done(w) BY <1>0, <2>1, <2>2, <2>5, DoneStep DEF Same
  <2> QED BY <2>3, <2>4, <2>5
<1>10. CASE NewSTSClient(w)
  <2> DEFINE q == clients[work[w].client].chain
             j == [work[w] EXCEPT !.pc = "assume", !.base = q]
  <2>1. Goto(w, "use") \/ work' = [work EXCEPT ![w] = j] BY <1>10 DEF NewSTSClient, Set
  <2> HIDE DEF q
  <2>2. j.client = work[w].client BY <1>2 DEF WorkT
  <2> HIDE DEF j
  <2>3. CASE Goto(w, "use") BY <1>0, <1>1, <1>10, <2>3 DEF PCs, Same
  <2>4. CASE work' = [work EXCEPT ![w] = j] BY <1>0, <1>10, <2>2, <2>4, SetWork DEF Same
  <2> QED BY <2>1, <2>3, <2>4
<1> QED BY <1>3, <1>4, <1>5, <1>6, <1>7, <1>8, <1>9, <1>10

LEMMA StartStep ==
    ASSUME Inv1, NEW w \in Workers, Start(w)
    PROVE  /\ Same(w) /\ UNCHANGED <<cache, clients, tokens>> /\ work[w].pc = "idle"
           /\ overlap' = (overlap \/ \E v \in Workers : work[v].pc # "idle")
           /\ work'[w].client = 0 /\ work'[w].role = 1
           /\ work'[w].pc = IF mode = "vault" THEN FirstStep(work'[w].store) ELSE "creds"
<1>0. /\ UNCHANGED <<mode, cacheOn, auth, now, cache, clients, tokens>> /\ work[w].pc = "idle"
      /\ overlap' = (overlap \/ \E v \in Workers : work[v].pc # "idle")
  BY DEF Start, At
<1>1. PICK s \in Stores : \E n \in Namespaces(s) :
        work' = [work EXCEPT ![w] =
            [Idle EXCEPT !.pc = IF mode = "vault" THEN FirstStep(s) ELSE "creds",
                         !.store = s, !.ns = n, !.rev = rev[s]]]
  BY DEF Start, Set
<1>2. PICK n \in Namespaces(s) :
        work' = [work EXCEPT ![w] =
            [Idle EXCEPT !.pc = IF mode = "vault" THEN FirstStep(s) ELSE "creds",
                         !.store = s, !.ns = n, !.rev = rev[s]]]
  BY <1>1
<1> DEFINE p == IF mode = "vault" THEN FirstStep(s) ELSE "creds"
           j == [Idle EXCEPT !.pc = p, !.store = s, !.ns = n, !.rev = rev[s]]
<1>3. work' = [work EXCEPT ![w] = j] BY <1>2
<1> HIDE DEF p
<1>4. j.client = 0 /\ j.role = 1 /\ j.store = s /\ j.pc = p BY DEF Idle
<1> HIDE DEF j
<1> QED BY <1>0, <1>3, <1>4, SetWork DEF Same, p

(* The steps that change the cache.                                        *)
LEMMA CacheSteps ==
    ASSUME Inv1, NEW w \in Workers, Get(w) \/ Remove(w) \/ AddToCache(w)
    PROVE  /\ Same(w) /\ UNCHANGED <<clients, tokens, overlap>> /\ cacheOn
           /\ work[w].pc \in {"get", "remove", "add"} /\ work'[w].pc # "use"
           /\ work'[w].role = work[w].role /\ work'[w].store = work[w].store
           /\ work'[w].pc \in {"remove", "make", "init", "check"}
<1>0. /\ UNCHANGED <<mode, cacheOn, auth, now, clients, tokens, overlap>>
      /\ work[w].pc \in {"get", "remove", "add"}
  BY DEF Get, Remove, AddToCache, world, At
<1>1. work[w] \in WorkT /\ Placed(mode, cacheOn, work[w]) BY PlacedAt
<1>2. cacheOn BY <1>0, <1>1 DEF Placed
<1>3. ASSUME NEW p \in {"remove", "make", "init"}, Goto(w, p)
      PROVE  /\ Same(w) /\ work'[w].pc = p /\ work'[w].role = work[w].role
             /\ work'[w].store = work[w].store
  BY <1>0, <1>3, MovedTo DEF PCs, Same
<1>4. ASSUME NEW c, NEW p \in {"make", "init"}, Cleanup(w, c, p)
      PROVE  /\ Same(w) /\ work'[w].pc \in {p, "check"} /\ work'[w].role = work[w].role
             /\ work'[w].store = work[w].store
  <2>1. CASE mode = "vault"
    <3> DEFINE j == [work[w] EXCEPT !.pc = "check", !.victim = c, !.next = p]
    <3>1. work' = [work EXCEPT ![w] = j] BY <1>4, <2>1 DEF Cleanup, Set
    <3>2. j.pc = "check" /\ j.role = work[w].role /\ j.store = work[w].store BY <1>1 DEF WorkT
    <3> HIDE DEF j
    <3> QED BY <1>0, <3>1, <3>2, SetWork DEF Same
  <2>2. CASE mode # "vault" BY <1>3, <1>4, <2>2 DEF Cleanup
  <2> QED BY <2>1, <2>2
<1>5. CASE Get(w)
  <2> DEFINE x == EntryOf(cache, Key(w)).client  j == [work[w] EXCEPT !.client = x, !.pc = "init"]
  <2>1. work' = [work EXCEPT ![w] = j] \/ Goto(w, "remove") \/ Goto(w, "make") BY <1>5 DEF Get, Set
  <2> HIDE DEF x
  <2>2. j.pc = "init" /\ j.role = work[w].role /\ j.store = work[w].store BY <1>1 DEF WorkT
  <2> HIDE DEF j
  <2>3. CASE work' = [work EXCEPT ![w] = j] BY <1>0, <1>2, <2>2, <2>3, SetWork DEF Same
  <2> QED BY <1>0, <1>2, <1>3, <2>1, <2>3
<1>6. CASE Remove(w)
  <2>1. Cleanup(w, EntryOf(cache, Key(w)).client, "make") \/ Goto(w, "make") BY <1>6 DEF Remove
  <2> QED BY <1>0, <1>2, <1>3, <1>4, <2>1
<1>7. CASE AddToCache(w)
  <2>1. Cleanup(w, Oldest(cache).client, "init") \/ Goto(w, "init") BY <1>7 DEF AddToCache
  <2> QED BY <1>0, <1>2, <1>3, <1>4, <2>1
<1> QED BY <1>5, <1>6, <1>7

(* The steps that change clients or tokens.                                *)
LEMMA MakeStep ==
    ASSUME Inv1, NEW w \in Workers, Make(w)
    PROVE  /\ Same(w) /\ UNCHANGED <<cache, tokens, overlap>> /\ work[w].pc = "make" /\ mode # "yandex"
           /\ Len(clients) \in Nat /\ Len(clients') = Len(clients) + 1
           /\ \A c \in 1..Len(clients) : clients'[c] = clients[c]
           /\ clients'[Len(clients) + 1] = [owner |-> OwnerOf(work[w]), token |-> 0, chain |-> <<>>]
           /\ work'[w].client = Len(clients) + 1 /\ work'[w].role = work[w].role
           /\ work'[w].store = work[w].store
           /\ work'[w].pc = IF ~UseCache(work[w].store) THEN "init"
                            ELSE IF mode = "vault" THEN "contains" ELSE "add"
<1> DEFINE x == [owner |-> Owner(w), token |-> 0, chain |-> <<>>]
           p == IF ~UseCache(work[w].store) THEN "init" ELSE IF mode = "vault" THEN "contains" ELSE "add"
           j == [work[w] EXCEPT !.client = Len(clients) + 1, !.pc = p]
<1>1. /\ work[w].pc = "make" /\ clients' = Append(clients, x) /\ work' = [work EXCEPT ![w] = j]
      /\ UNCHANGED <<mode, cacheOn, auth, now, cache, tokens, overlap>>
  BY DEF Make, At, Set, world
<1>2. /\ work[w] \in WorkT /\ Placed(mode, cacheOn, work[w]) /\ clients \in Seq(ClientT) BY PlacedAt
<1>3. x = [owner |-> OwnerOf(work[w]), token |-> 0, chain |-> <<>>] BY DEF Owner, OwnerOf
<1> HIDE DEF x, p
<1>4. /\ Len(clients) \in Nat /\ Len(clients') = Len(clients) + 1
      /\ clients'[Len(clients) + 1] = x /\ \A c \in 1..Len(clients) : clients'[c] = clients[c]
  BY <1>1, <1>2
<1>5. j.client = Len(clients) + 1 /\ j.role = work[w].role /\ j.store = work[w].store /\ j.pc = p
  BY <1>2 DEF WorkT
<1> HIDE DEF j
<1>6. work'[w] = j /\ Same(w) BY <1>1, SetWork DEF Same
<1>7. mode # "yandex" BY <1>1, <1>2 DEF Placed
<1> QED BY <1>1, <1>3, <1>4, <1>5, <1>6, <1>7 DEF p

LEMMA LoginStep ==
    ASSUME Inv1, NEW w \in Workers, Login(w)
    PROVE  /\ Same(w) /\ UNCHANGED <<cache, overlap, spent>> /\ work[w].pc = "login" /\ mode = "vault"
           /\ work[w].client \in 1..Len(clients) /\ Len(clients') = Len(clients)
           /\ \A d \in 1..Len(clients) :
                 /\ clients'[d].owner = clients[d].owner /\ clients'[d].chain = clients[d].chain
                 /\ clients'[d].token = IF d = work[w].client THEN Len(tokens) + 1 ELSE clients[d].token
           /\ Len(tokens) \in Nat /\ Len(tokens') = Len(tokens) + 1
           /\ \A t \in 1..Len(tokens) : tokens'[t] = tokens[t]
           /\ tokens'[Len(tokens) + 1].state = "live"
           /\ tokens'[Len(tokens) + 1].owner = OwnerOf(work[w])
           /\ work'[w].pc = "use" /\ work'[w].client = work[w].client /\ work'[w].store = work[w].store
<1> DEFINE x == Token(Owner(w), "live")  c == work[w].client
<1>1. /\ work[w].pc = "login" /\ tokens' = Append(tokens, x) /\ Goto(w, "use")
      /\ clients' = WithToken(clients, c, Len(tokens) + 1)
      /\ UNCHANGED <<mode, cacheOn, auth, now, cache, overlap, spent>>
  BY DEF Login, At, world, WithToken
<1>2. /\ Placed(mode, cacheOn, work[w]) /\ Owned(mode, cacheOn, clients, tokens, work[w])
      /\ clients \in Seq(ClientT) /\ tokens \in Seq(TokenT)
  BY PlacedAt
<1>3. mode = "vault" /\ work[w].store \in Stores /\ c \in 1..Len(clients)
  BY <1>1, <1>2 DEF Placed, Owned
<1>4. /\ x.owner = OwnerOf(work[w]) /\ x.state = "live"
      /\ Len(tokens') = Len(tokens) + 1 /\ Len(tokens) \in Nat
      /\ tokens'[Len(tokens) + 1] = x /\ \A t \in 1..Len(tokens) : tokens'[t] = tokens[t]
  BY <1>1, <1>2, <1>3, IssuedToken
<1>5. Same(w) /\ work'[w].pc = "use" /\ work'[w].client = work[w].client /\ work'[w].store = work[w].store
  BY <1>1, MovedTo DEF PCs, Same
<1> HIDE DEF x, c
<1>6. /\ Len(clients') = Len(clients)
      /\ \A d \in 1..Len(clients) :
            /\ clients'[d].owner = clients[d].owner /\ clients'[d].chain = clients[d].chain
            /\ clients'[d].token = IF d = c THEN Len(tokens) + 1 ELSE clients[d].token
  <2>1. Len(tokens) + 1 \in Nat BY <1>4
  <2> QED BY <1>1, <1>2, <1>3, <2>1, ClientToken
<1> QED BY <1>1, <1>3, <1>4, <1>5, <1>6 DEF c

LEMMA RevokeStep ==
    ASSUME Inv1, NEW w \in Workers, Revoke(w)
    PROVE  /\ Same(w) /\ UNCHANGED <<cache, clients, overlap>> /\ work[w].pc = "revoke" /\ mode = "vault"
           /\ work'[w].pc # "use" /\ work'[w].client \in {0, work[w].client}
           /\ work[w].victim \in 1..Len(clients) /\ Len(tokens') = Len(tokens)
           /\ \/ tokens' = tokens /\ Done(w) /\ (Fault \/ (~Live(TokenOf(work[w].victim)) /\ UNCHANGED spent))
              \/ /\ Live(TokenOf(work[w].victim)) /\ Goto(w, "clear") /\ UNCHANGED spent
                 /\ TokenOf(work[w].victim) \in 1..Len(tokens)
                 /\ \A u \in 1..Len(tokens) :
                       /\ tokens'[u].owner = tokens[u].owner
                       /\ tokens'[u].state = IF u = TokenOf(work[w].victim) THEN "revoked"
                                             ELSE tokens[u].state
<1> DEFINE t == TokenOf(work[w].victim)
<1>1. /\ work[w].pc = "revoke" /\ UNCHANGED <<mode, cacheOn, auth, now, cache, clients, overlap>>
      /\ \/ /\ Live(t) /\ tokens' = WithState(tokens, t, "revoked") /\ Goto(w, "clear")
            /\ UNCHANGED spent
         \/ Done(w) /\ tokens' = tokens /\ (Fault \/ (~Live(t) /\ UNCHANGED spent))
  BY DEF Revoke, At, world, WithState
<1>2. /\ Placed(mode, cacheOn, work[w]) /\ Owned(mode, cacheOn, clients, tokens, work[w])
      /\ clients \in Seq(ClientT) /\ tokens \in Seq(TokenT) /\ work[w].pc \in Revoking
  BY <1>1, PlacedAt DEF Revoking
<1>3. work[w].victim \in 1..Len(clients) /\ mode = "vault" /\ work[w].next # "use"
  BY <1>2 DEF Placed, Owned
<1>4. t \in 0..Len(tokens) BY <1>3 DEF Inv1, TokensFit, TokenFits, TokenOf
<1>5. CASE Done(w) /\ tokens' = tokens /\ (Fault \/ (~Live(t) /\ UNCHANGED spent))
  <2>1. Same(w) /\ work'[w].pc # "use" /\ work'[w].client \in {0, work[w].client}
    BY <1>1, <1>2, <1>3, <1>5, DoneStep DEF Same
  <2> QED BY <1>1, <1>3, <1>5, <2>1
<1>6. CASE Live(t) /\ tokens' = WithState(tokens, t, "revoked") /\ Goto(w, "clear") /\ UNCHANGED spent
  <2>1. t \in 1..Len(tokens) BY <1>4, <1>6 DEF Live
  <2>2. Same(w) /\ work'[w].pc # "use" /\ work'[w].client \in {0, work[w].client}
    BY <1>1, <1>6, MovedTo DEF Same, PCs
  <2>3. tokens' = WithState(tokens, t, "revoked") BY <1>6
  <2> HIDE DEF t
  <2>4. /\ Len(tokens') = Len(tokens)
        /\ \A u \in 1..Len(tokens) :
              /\ tokens'[u].owner = tokens[u].owner
              /\ tokens'[u].state = IF u = t THEN "revoked" ELSE tokens[u].state
    BY <1>2, <2>1, <2>3, TokenState
  <2> QED BY <1>1, <1>3, <1>6, <2>1, <2>2, <2>4 DEF t
<1> QED BY <1>1, <1>5, <1>6

LEMMA ClearStep ==
    ASSUME Inv1, NEW w \in Workers, ClearToken(w)
    PROVE  /\ Same(w) /\ UNCHANGED <<cache, tokens, overlap, spent>> /\ work[w].pc = "clear"
           /\ mode = "vault" /\ work'[w].pc # "use" /\ work'[w].client \in {0, work[w].client}
           /\ work[w].victim \in 1..Len(clients) /\ Len(clients') = Len(clients) /\ Done(w)
           /\ \A d \in 1..Len(clients) :
                 /\ clients'[d].owner = clients[d].owner
                 /\ clients'[d].token = IF d = work[w].victim THEN 0 ELSE clients[d].token
<1> DEFINE v == work[w].victim
<1>1. /\ work[w].pc = "clear" /\ UNCHANGED <<mode, cacheOn, auth, now, cache, tokens, overlap, spent>>
      /\ Done(w) /\ clients' = WithToken(clients, v, 0)
  BY DEF ClearToken, At, world, WithToken
<1>2. /\ Placed(mode, cacheOn, work[w]) /\ Owned(mode, cacheOn, clients, tokens, work[w])
      /\ clients \in Seq(ClientT) /\ work[w].pc \in Revoking
  BY <1>1, PlacedAt DEF Revoking
<1>3. v \in 1..Len(clients) /\ mode = "vault" /\ work[w].next # "use" /\ 0 \in Nat
  BY <1>2 DEF Placed, Owned
<1>4. Same(w) /\ work'[w].pc # "use" /\ work'[w].client \in {0, work[w].client}
  BY <1>1, <1>2, <1>3, DoneStep DEF Same
<1> HIDE DEF v
<1>5. /\ Len(clients') = Len(clients)
      /\ \A d \in 1..Len(clients) :
            /\ clients'[d].owner = clients[d].owner /\ clients'[d].chain = clients[d].chain
            /\ clients'[d].token = IF d = v THEN 0 ELSE clients[d].token
  BY <1>1, <1>2, <1>3, ClientToken
<1> QED BY <1>1, <1>3, <1>4, <1>5 DEF v

LEMMA RoleStep ==
    ASSUME Inv1, NEW w \in Workers, AssumeRole(w)
    PROVE  /\ Same(w) /\ UNCHANGED <<cache, tokens, overlap>> /\ work[w].pc = "assume" /\ mode = "aws"
           /\ work[w].client \in 1..Len(clients) /\ Len(clients') = Len(clients)
           /\ \A d \in 1..Len(clients) :
                 /\ clients'[d].owner = clients[d].owner /\ clients'[d].token = clients[d].token
                 /\ clients'[d].chain = IF d = work[w].client
                                        THEN Append(work[w].base, RoleToAssume(work[w].role))
                                        ELSE clients[d].chain
           /\ work'[w].pc = "init" /\ work'[w].client = work[w].client
           /\ work[w].role \in Nat /\ work'[w].role = work[w].role + 1
<1> DEFINE c == work[w].client  q == Append(work[w].base, RoleToAssume(work[w].role))
           j == [work[w] EXCEPT !.pc = "init", !.role = work[w].role + 1]
<1>1. /\ work[w].pc = "assume" /\ work' = [work EXCEPT ![w] = j] /\ clients' = WithChain(clients, c, q)
      /\ UNCHANGED <<mode, cacheOn, auth, now, cache, tokens, overlap>>
  BY DEF AssumeRole, At, Set, world, WithChain
<1>2. /\ work[w] \in WorkT /\ Placed(mode, cacheOn, work[w]) /\ clients \in Seq(ClientT)
      /\ Owned(mode, cacheOn, clients, tokens, work[w])
  BY PlacedAt
<1>3. c \in 1..Len(clients) /\ mode = "aws" BY <1>1, <1>2 DEF Placed, Owned
<1>4. work[w].role \in Nat /\ q \in Seq(RoleNames)
  <2>1. work[w].role \in Nat /\ work[w].base \in Seq(RoleNames) BY <1>2 DEF WorkT
  <2>2. RoleToAssume(work[w].role) \in RoleNames BY <2>1 DEF RoleNames
  <2> QED BY <2>1, <2>2
<1>5. j.pc = "init" /\ j.client = work[w].client /\ j.role = work[w].role + 1 BY <1>2, <1>4 DEF WorkT
<1> HIDE DEF j, c, q
<1>6. work'[w] = j /\ Same(w) BY <1>1, SetWork DEF Same
<1>7. /\ Len(clients') = Len(clients)
      /\ \A d \in 1..Len(clients) :
            /\ clients'[d].owner = clients[d].owner /\ clients'[d].token = clients[d].token
            /\ clients'[d].chain = IF d = c THEN q ELSE clients[d].chain
  BY <1>1, <1>2, <1>3, <1>4, ClientChain
<1> QED BY <1>1, <1>3, <1>4, <1>5, <1>6, <1>7 DEF c, q

LEMMA IamStep ==
    ASSUME Inv1, NEW w \in Workers, GetOrCreateIamToken(w)
    PROVE  /\ Same(w) /\ UNCHANGED <<cache, clients, overlap>> /\ work[w].pc = "iam" /\ mode = "yandex"
           /\ work'[w].client = 0 /\ Len(tokens) <= Len(tokens')
           /\ \A t \in 1..Len(tokens) : tokens'[t].expires = tokens[t].expires
           /\ \/ work'[w].pc = "idle"
              \/ /\ work'[w].pc = "use" /\ work'[w].since = now
                 /\ work'[w].token \in 1..Len(tokens')
                 /\ now + Lifetime < tokens'[work'[w].token].expires
<1>1. /\ work[w].pc = "iam" /\ UNCHANGED <<mode, cacheOn, auth, now, cache, clients, overlap>>
  BY DEF GetOrCreateIamToken, At, world
<1>2. /\ work[w] \in WorkT /\ Placed(mode, cacheOn, work[w]) /\ tokens \in Seq(TokenT)
      /\ mode \in {"vault", "aws", "yandex"}
  BY PlacedAt
<1>3. /\ mode = "yandex" /\ work[w].store \in Stores /\ work[w].client = 0 BY <1>1, <1>2 DEF Placed
<1>4. now \in Nat /\ Lifetime \in Nat /\ TTL \in Nat /\ Lifetime < TTL
  BY SessionBounds DEF SessionBounds, Inv1, Types
<1>5. ASSUME NEW t, Set(w, [work[w] EXCEPT !.pc = "use", !.token = t, !.since = now])
      PROVE  /\ Same(w) /\ work'[w].pc = "use" /\ work'[w].since = now /\ work'[w].token = t
             /\ work'[w].client = 0
  <2> DEFINE j == [work[w] EXCEPT !.pc = "use", !.token = t, !.since = now]
  <2>1. j.pc = "use" /\ j.since = now /\ j.token = t /\ j.client = 0 BY <1>2, <1>3 DEF WorkT
  <2>2. work' = [work EXCEPT ![w] = j] BY <1>5 DEF Set
  <2> HIDE DEF j
  <2> QED BY <1>1, <2>1, <2>2, SetWork DEF Same
<1>6. CASE \E t \in Kept(w) :
             /\ isIamTokenUsable(t)
             /\ Set(w, [work[w] EXCEPT !.pc = "use", !.token = t, !.since = now])
             /\ UNCHANGED <<tokens, spent>>
  <2>1. PICK t \in Kept(w) :
             /\ isIamTokenUsable(t)
             /\ Set(w, [work[w] EXCEPT !.pc = "use", !.token = t, !.since = now])
             /\ UNCHANGED <<tokens, spent>>
    BY <1>6
  <2>2. t \in 1..Len(tokens) /\ now + Lifetime < tokens[t].expires /\ tokens' = tokens
    BY <1>2, <2>1 DEF Kept, isIamTokenUsable
  <2>3. Len(tokens) <= Len(tokens) BY <1>2
  <2> QED BY <1>1, <1>3, <1>5, <2>1, <2>2, <2>3
<1>7. CASE /\ tokens' = Append(Dropped(tokens, Kept(w)), Token(Owner(w), "live"))
           /\ Set(w, [work[w] EXCEPT !.pc = "use", !.token = Len(tokens) + 1, !.since = now])
  <2> DEFINE d == Dropped(tokens, Kept(w))  x == Token(Owner(w), "live")
  <2>1. /\ d \in Seq(TokenT) /\ Len(d) = Len(tokens)
        /\ \A t \in 1..Len(tokens) : d[t].expires = tokens[t].expires
    BY <1>2, DroppedTokens
  <2> HIDE DEF d
  <2>2. /\ x.expires = now + TTL /\ Len(Append(d, x)) = Len(d) + 1
        /\ Append(d, x)[Len(d) + 1] = x /\ \A t \in 1..Len(d) : Append(d, x)[t] = d[t]
    BY <1>3, <2>1, IssuedToken
  <2> HIDE DEF x
  <2>3. /\ Len(tokens') = Len(tokens) + 1 /\ Len(tokens) \in Nat
        /\ tokens'[Len(tokens) + 1].expires = now + TTL
        /\ \A t \in 1..Len(tokens) : tokens'[t].expires = tokens[t].expires
    BY <1>2, <1>7, <2>1, <2>2 DEF d, x
  <2> DEFINE t == Len(tokens) + 1
  <2>4. t \in 1..Len(tokens') /\ now + Lifetime < tokens'[t].expires /\ Len(tokens) <= Len(tokens')
    BY <1>4, <2>3
  <2>5. Set(w, [work[w] EXCEPT !.pc = "use", !.token = t, !.since = now]) BY <1>7
  <2> HIDE DEF t
  <2> QED BY <1>1, <1>3, <1>5, <2>3, <2>4, <2>5
<1>8. CASE Goto(w, "idle") /\ UNCHANGED tokens
  <2>1. Same(w) /\ work'[w] = Idle BY <1>1, <1>8, MovedTo DEF PCs, Same
  <2>2. Idle.pc = "idle" /\ Idle.client = 0 BY DEF Idle
  <2>3. Len(tokens) <= Len(tokens) BY <1>2
  <2> QED BY <1>1, <1>3, <1>8, <2>1, <2>2, <2>3
<1> QED BY <1>6, <1>7, <1>8 DEF GetOrCreateIamToken, Dropped

LEMMA WorldSteps ==
    ASSUME Inv1, WorldStep
    PROVE  /\ UNCHANGED <<mode, cacheOn, auth, cache, clients, work, overlap>>
           /\ Len(tokens') = Len(tokens)
           /\ \A t \in 1..Len(tokens) : /\ tokens'[t].owner = tokens[t].owner
                                        /\ tokens'[t].expires = tokens[t].expires
                                        /\ tokens'[t].state = "live" => tokens[t].state = "live"
                                        /\ tokens'[t].state = "revoked" => tokens[t].state = "revoked"
           /\ mode # "vault" \/ tokens' = tokens
              \/ \E t \in 1..Len(tokens) : /\ Expire(t)
                                           /\ \A u \in 1..Len(tokens) : u # t => tokens'[u] = tokens[u]
           /\ now' = now \/ Tick
           /\ UNCHANGED spent \/ spent' = [spent EXCEPT !.edits = spent.edits + 1]
<1>0. tokens \in Seq(TokenT) BY DEF Inv1, Types
<1>1. CASE CleanUpIamTokenMap
  <2> DEFINE K == {t \in DOMAIN tokens : tokens[t].state = "live" /\ now > tokens[t].expires}
             d == Dropped(tokens, K)
  <2>1. /\ tokens' = d /\ mode = "yandex"
        /\ UNCHANGED <<mode, cacheOn, auth, cache, clients, work, overlap, now, spent>>
    BY <1>1 DEF CleanUpIamTokenMap, Dropped, world
  <2> HIDE DEF K
  <2>2. /\ Len(d) = Len(tokens)
        /\ \A u \in 1..Len(tokens) :
              /\ d[u].owner = tokens[u].owner /\ d[u].expires = tokens[u].expires
              /\ d[u].state = IF u \in K THEN "dropped" ELSE tokens[u].state
    BY <1>0, DroppedTokens
  <2> HIDE DEF d
  <2> QED BY <2>1, <2>2
<1>2. CASE Tick BY <1>0, <1>2 DEF Tick
<1>3. ASSUME NEW s \in Stores, Edit(s) \/ Rotate(s)
      PROVE  /\ UNCHANGED <<mode, cacheOn, auth, cache, clients, work, overlap, tokens, now>>
             /\ spent' = [spent EXCEPT !.edits = spent.edits + 1]
  BY <1>3 DEF Edit, Rotate
<1>4. ASSUME NEW t \in DOMAIN tokens, Expire(t)
      PROVE  /\ UNCHANGED <<mode, cacheOn, auth, cache, clients, work, overlap, now, spent>>
             /\ t \in 1..Len(tokens) /\ Len(tokens') = Len(tokens)
             /\ \A u \in 1..Len(tokens) :
                   /\ tokens'[u].owner = tokens[u].owner /\ tokens'[u].expires = tokens[u].expires
                   /\ tokens'[u].state = IF u = t THEN "expired" ELSE tokens[u].state
                   /\ u # t => tokens'[u] = tokens[u]
             /\ tokens[t].state = "live"
  <2>1. /\ tokens' = WithState(tokens, t, "expired") /\ t \in 1..Len(tokens) /\ tokens[t].state = "live"
        /\ UNCHANGED <<mode, cacheOn, auth, cache, clients, work, overlap, now, spent>>
    BY <1>0, <1>4 DEF Expire, Live, WithState, world
  <2>2. /\ Len(tokens') = Len(tokens)
        /\ \A u \in 1..Len(tokens) :
              /\ tokens'[u].owner = tokens[u].owner /\ tokens'[u].expires = tokens[u].expires
              /\ tokens'[u].state = IF u = t THEN "expired" ELSE tokens[u].state
    BY <1>0, <2>1, TokenState
  <2>3. \A u \in 1..Len(tokens) : u # t => tokens'[u] = tokens[u] BY <1>0, <2>1 DEF WithState
  <2> QED BY <2>1, <2>2, <2>3
<1>5. CASE \E s \in Stores : Edit(s) \/ Rotate(s) BY <1>0, <1>3, <1>5
<1>6. CASE \E t \in DOMAIN tokens : Expire(t) BY <1>4, <1>6
<1>7. CASE UNCHANGED vars BY <1>0, <1>7 DEF vars
<1> QED BY <1>1, <1>2, <1>5, <1>6, <1>7 DEF WorldStep
---------------------------------------------------------------------------
(* The second layer.                                                       *)
Quiet(w) == \/ ReadCredentials(w) \/ MakeFails(w) \/ IsCached(w) \/ SetAuth(w) \/ LookupToken(w)
            \/ LoginFails(w) \/ SessionDone(w) \/ SecretsRead(w) \/ Close(w)
            \/ CheckVictim(w) \/ NewSTSClient(w)

LEMMA WorkerSteps ==
    ASSUME NEW w, WorkerStep(w)
    PROVE  \/ Quiet(w) \/ Start(w) \/ Get(w) \/ Remove(w) \/ AddToCache(w) \/ Make(w) \/ Login(w)
           \/ Revoke(w) \/ ClearToken(w) \/ AssumeRole(w) \/ GetOrCreateIamToken(w)
BY DEF WorkerStep, Quiet

(* Other reconciles and the mode stay; only Start leaves idle.             *)
LEMMA OthersStay ==
    ASSUME Inv1, NEW w \in Workers, WorkerStep(w)
    PROVE  /\ Same(w)
           /\ \/ work[w].pc # "idle" /\ overlap' = overlap
              \/ overlap' = (overlap \/ \E v \in Workers : work[v].pc # "idle")
<1>1. CASE Quiet(w) BY <1>1, QuietSteps DEF Quiet
<1>2. CASE Start(w) BY <1>2, StartStep
<1>3. CASE Get(w) \/ Remove(w) \/ AddToCache(w) BY <1>3, CacheSteps
<1>4. CASE Make(w) BY <1>4, MakeStep
<1>5. CASE Login(w) BY <1>5, LoginStep
<1>6. CASE Revoke(w) BY <1>6, RevokeStep
<1>7. CASE ClearToken(w) BY <1>7, ClearStep
<1>8. CASE AssumeRole(w) BY <1>8, RoleStep
<1>9. CASE GetOrCreateIamToken(w) BY <1>9, IamStep
<1> QED BY <1>1, <1>2, <1>3, <1>4, <1>5, <1>6, <1>7, <1>8, <1>9, WorkerSteps

LEMMA OneAtATimeKept ==
    ASSUME Inv1, OneAtATime, NEW w \in Workers, WorkerStep(w) PROVE OneAtATime'
<1> SUFFICES ASSUME ~overlap', NEW u \in Workers, NEW v \in Workers, u # v
             PROVE  work'[u].pc = "idle" \/ work'[v].pc = "idle"
  BY DEF OneAtATime, At
<1>1. \A x \in Workers : x # w => work'[x] = work[x] BY OthersStay DEF Same
<1>2. overlap \in BOOLEAN BY DEF Inv1, Types
<1>3. CASE work[w].pc # "idle" /\ overlap' = overlap
  <2>1. \A x \in Workers : x # w => work[x].pc = "idle" BY <1>3 DEF OneAtATime, At
  <2> QED BY <1>1, <2>1
<1>4. CASE overlap' = (overlap \/ \E x \in Workers : work[x].pc # "idle")
  <2>1. \A x \in Workers : work[x].pc = "idle" BY <1>4
  <2> QED BY <1>1, <2>1
<1> QED BY <1>3, <1>4, OthersStay

(* Without a cache, or while reconciles do not overlap, a reconcile that   *)
(* has a client shares it with nobody.                                     *)
LEMMA NotShared ==
    ASSUME Inv1, OneAtATime, OwnClients, Apart, NEW v \in Workers, NEW w \in Workers, v # w,
           work[v].pc # "idle", work[w].pc # "idle", work[v].client # 0
    PROVE  ~cacheOn /\ work[v].client # work[w].client
<1>1. cacheOn \in BOOLEAN BY DEF Inv1, Types
<1> QED BY <1>1 DEF Apart, OneAtATime, At, OwnClients

LEMMA OwnClientsKept ==
    ASSUME Inv1, OwnClients, NEW w \in Workers, WorkerStep(w) PROVE OwnClients'
<1>0. cacheOn' = cacheOn /\ (\A v \in Workers : v # w => work'[v] = work[v]) BY OthersStay DEF Same
<1> SUFFICES ASSUME ~cacheOn, NEW u \in Workers, NEW v \in Workers, u # v, work'[u].client # 0
             PROVE  work'[u].client # work'[v].client
  BY <1>0 DEF OwnClients
<1>1. CASE work'[w].client \in {0, work[w].client} BY <1>0, <1>1 DEF OwnClients
<1>2. CASE Make(w)
  <2>1. work'[w].client = Len(clients) + 1 /\ Len(clients) \in Nat BY <1>2, MakeStep
  <2>2. \A x \in Workers : work[x].client \in 0..Len(clients) BY PlacedAt DEF Owned
  <2>3. \A x \in Workers : work[x].client # Len(clients) + 1 BY <2>1, <2>2
  <2> QED BY <1>0, <2>1, <2>3 DEF OwnClients
<1>3. CASE Quiet(w) BY <1>1, <1>3, QuietSteps DEF Quiet
<1>4. CASE Start(w) BY <1>1, <1>4, StartStep
<1>5. CASE Get(w) \/ Remove(w) \/ AddToCache(w) BY <1>5, CacheSteps
<1>6. CASE Login(w) BY <1>1, <1>6, LoginStep
<1>7. CASE Revoke(w) BY <1>1, <1>7, RevokeStep
<1>8. CASE ClearToken(w) BY <1>1, <1>8, ClearStep
<1>9. CASE AssumeRole(w) BY <1>1, <1>9, RoleStep
<1>10. CASE GetOrCreateIamToken(w) BY <1>1, <1>10, IamStep
<1> QED BY <1>2, <1>3, <1>4, <1>5, <1>6, <1>7, <1>8, <1>9, <1>10, WorkerSteps

LEMMA OwnTokensKept ==
    ASSUME Inv1, OwnTokens, NEW w \in Workers, WorkerStep(w) PROVE OwnTokens'
<1>1. CASE clients' = clients BY <1>1 DEF OwnTokens
<1>2. CASE Make(w)
  <2> SUFFICES ASSUME NEW c \in 1..(Len(clients) + 1), NEW d \in 1..(Len(clients) + 1), c # d,
                      clients'[c].token # 0
               PROVE  clients'[c].token # clients'[d].token
    BY <1>2, MakeStep DEF OwnTokens
  <2>1. /\ Len(clients) \in Nat /\ clients'[Len(clients) + 1].token = 0
        /\ \A x \in 1..Len(clients) : clients'[x] = clients[x]
    <3>1. clients'[Len(clients) + 1] = [owner |-> OwnerOf(work[w]), token |-> 0, chain |-> <<>>]
      BY <1>2, MakeStep
    <3>2. clients'[Len(clients) + 1].token = 0 BY <3>1
    <3> QED BY <1>2, <3>2, MakeStep
  <2>2. c \in 1..Len(clients) BY <2>1
  <2>3. d \in 1..Len(clients) \/ d = Len(clients) + 1 BY <2>1
  <2> QED BY <2>1, <2>2, <2>3 DEF OwnTokens
<1>3. CASE Login(w)
  <2> SUFFICES ASSUME NEW c \in 1..Len(clients), NEW d \in 1..Len(clients), c # d, clients'[c].token # 0
               PROVE  clients'[c].token # clients'[d].token
    BY <1>3, LoginStep DEF OwnTokens
  <2>1. \A x \in 1..Len(clients) : clients[x].token \in 0..Len(tokens) BY DEF Inv1, TokensFit, TokenFits
  <2>2. Len(tokens) \in Nat BY <1>3, LoginStep
  <2>3. \A x \in 1..Len(clients) : clients[x].token # Len(tokens) + 1 BY <2>1, <2>2
  <2>4. \A x \in 1..Len(clients) :
            clients'[x].token = IF x = work[w].client THEN Len(tokens) + 1 ELSE clients[x].token
    BY <1>3, LoginStep
  <2> QED BY <2>3, <2>4 DEF OwnTokens
<1>4. CASE ClearToken(w)
  <2> SUFFICES ASSUME NEW c \in 1..Len(clients), NEW d \in 1..Len(clients), c # d, clients'[c].token # 0
               PROVE  clients'[c].token # clients'[d].token
    BY <1>4, ClearStep DEF OwnTokens
  <2>1. \A x \in 1..Len(clients) : clients'[x].token = IF x = work[w].victim THEN 0 ELSE clients[x].token
    BY <1>4, ClearStep
  <2> QED BY <2>1 DEF OwnTokens
<1>5. CASE AssumeRole(w)
  <2>1. Len(clients') = Len(clients) /\ \A x \in 1..Len(clients) : clients'[x].token = clients[x].token
    BY <1>5, RoleStep
  <2> QED BY <2>1 DEF OwnTokens
<1>6. CASE Quiet(w) BY <1>1, <1>6, QuietSteps DEF Quiet
<1>7. CASE Start(w) BY <1>1, <1>7, StartStep
<1>8. CASE Get(w) \/ Remove(w) \/ AddToCache(w) BY <1>1, <1>8, CacheSteps
<1>9. CASE Revoke(w) BY <1>1, <1>9, RevokeStep
<1>10. CASE GetOrCreateIamToken(w) BY <1>1, <1>10, IamStep
<1> QED BY <1>2, <1>3, <1>4, <1>5, <1>6, <1>7, <1>8, <1>9, <1>10, WorkerSteps

LEMMA TokenOutlivesKept ==
    ASSUME Inv1, TokenOutlives, NEW w \in Workers, WorkerStep(w) PROVE TokenOutlives'
<1>0. mode' = mode /\ now' = now /\ (\A v \in Workers : v # w => work'[v] = work[v])
  BY OthersStay DEF Same
<1> SUFFICES ASSUME mode = "yandex", NEW v \in Workers, work'[v].pc = "use"
             PROVE  /\ work'[v].since <= now /\ now <= work'[v].since + Lifetime
                    /\ work'[v].since + Lifetime < tokens'[work'[v].token].expires
  BY <1>0 DEF TokenOutlives, At
<1>1. now \in Nat /\ Lifetime \in Nat BY SessionBounds DEF SessionBounds, Inv1, Types
<1>2. Placed(mode, cacheOn, work[w]) BY PlacedAt
<1>3. ASSUME v # w, \A t \in 1..Len(tokens) : tokens'[t].expires = tokens[t].expires
      PROVE  /\ work'[v].since <= now /\ now <= work'[v].since + Lifetime
             /\ work'[v].since + Lifetime < tokens'[work'[v].token].expires
  <2>1. work'[v] = work[v] /\ work[v].pc = "use" BY <1>0, <1>3
  <2>2. work[v].token \in 1..Len(tokens)
    <3>1. Placed(mode, cacheOn, work[v]) /\ Owned(mode, cacheOn, clients, tokens, work[v]) BY PlacedAt
    <3> QED BY <2>1, <3>1 DEF Placed, Owned
  <2> QED BY <1>3, <2>1, <2>2 DEF TokenOutlives, At
<1>4. CASE Quiet(w)
  <2>1. tokens' = tokens BY <1>4, QuietSteps DEF Quiet
  <2>2. work'[w].pc # "use"
    <3>1. ~LookupToken(w) /\ ~NewSTSClient(w) BY <1>2 DEF LookupToken, NewSTSClient, At, Placed
    <3> QED BY <1>4, <3>1, QuietSteps DEF Quiet
  <2> QED BY <1>3, <2>1, <2>2
<1>5. CASE Start(w)
  <2>1. tokens' = tokens /\ work'[w].pc = "creds" BY <1>5, StartStep
  <2> QED BY <1>3, <2>1
<1>6. CASE GetOrCreateIamToken(w)
  <2>1. \A t \in 1..Len(tokens) : tokens'[t].expires = tokens[t].expires BY <1>6, IamStep
  <2>2. work'[w].pc = "use" => /\ work'[w].since = now
                               /\ now + Lifetime < tokens'[work'[w].token].expires
    <3>1. work'[w].pc = "idle" \/ (work'[w].since = now /\ now + Lifetime < tokens'[work'[w].token].expires)
      BY <1>6, IamStep
    <3> QED BY <3>1
  <2>3. CASE v = w BY <1>1, <2>2, <2>3
  <2> QED BY <1>3, <2>1, <2>3
<1>7. CASE Get(w) \/ Remove(w) \/ AddToCache(w)
  <2>1. work[w].pc \in {"get", "remove", "add"} BY <1>7, CacheSteps
  <2> QED BY <1>2, <2>1 DEF Placed
<1>8. CASE Make(w) BY <1>8, MakeStep
<1>9. CASE Login(w) BY <1>9, LoginStep
<1>10. CASE Revoke(w) BY <1>10, RevokeStep
<1>11. CASE ClearToken(w) BY <1>11, ClearStep
<1>12. CASE AssumeRole(w) BY <1>12, RoleStep
<1> QED BY <1>4, <1>5, <1>6, <1>7, <1>8, <1>9, <1>10, <1>11, <1>12, WorkerSteps

(* Apart only gets weaker.                                                 *)
LEMMA ApartBefore ==
    ASSUME Inv1, NEW w \in Workers, WorkerStep(w), Apart' PROVE Apart
<1>1. overlap \in BOOLEAN /\ cacheOn \in BOOLEAN BY DEF Inv1, Types
<1>2. cacheOn' = cacheOn /\ (overlap' = overlap \/ overlap' = (overlap \/ \E v \in Workers : work[v].pc # "idle"))
  BY OthersStay DEF Same
<1> QED BY <1>1, <1>2 DEF Apart

LEMMA VaultTokenKept ==
    ASSUME Inv1, OneAtATime, OwnClients, OwnTokens, VaultTokenValid, NEW w \in Workers, WorkerStep(w)
    PROVE  VaultTokenValid'
<1>0. mode' = mode /\ cacheOn' = cacheOn /\ (\A v \in Workers : v # w => work'[v] = work[v])
  BY OthersStay DEF Same
<1> SUFFICES ASSUME mode = "vault", Apart', NEW v \in Workers, work'[v].pc = "use"
             PROVE  LET u == clients'[work'[v].client].token IN u # 0 /\ tokens'[u].state = "live"
  BY <1>0 DEF VaultTokenValid, At, Live, TokenOf
<1> DEFINE t == clients[work[v].client].token
           Valid(u) == u # 0 /\ tokens'[u].state = "live"
<1>1. Apart BY ApartBefore
<1>2. clients \in Seq(ClientT) /\ tokens \in Seq(TokenT) /\ Placed(mode, cacheOn, work[w]) BY PlacedAt
<1>3. ASSUME v # w
      PROVE  /\ work'[v] = work[v] /\ work[v].pc = "use" /\ work[v].client \in 1..Len(clients)
             /\ t # 0 /\ t \in 1..Len(tokens) /\ tokens[t].state = "live"
             /\ work[w].pc # "idle" => ~cacheOn /\ work[v].client # work[w].client
  <2>1. work'[v] = work[v] /\ work[v].pc = "use" BY <1>0, <1>3
  <2>2. Placed(mode, cacheOn, work[v]) /\ Owned(mode, cacheOn, clients, tokens, work[v]) BY PlacedAt
  <2>3. work[v].client \in 1..Len(clients) /\ work[v].client # 0 BY <2>1, <2>2 DEF Placed, Owned
  <2>4. t # 0 /\ tokens[t].state = "live" BY <1>1, <2>1 DEF VaultTokenValid, At, Live, TokenOf
  <2>5. t \in 1..Len(tokens) BY <2>3, <2>4 DEF Inv1, TokensFit, TokenFits
  <2>6. work[w].pc # "idle" => ~cacheOn /\ work[v].client # work[w].client
    BY <1>1, <1>3, <2>1, <2>3, NotShared
  <2> QED BY <2>1, <2>3, <2>4, <2>5, <2>6
<1>4. ASSUME v # w, \A c \in 1..Len(clients) : clients'[c] = clients[c], tokens' = tokens
      PROVE  Valid(clients'[work'[v].client].token)
  BY <1>3, <1>4 DEF Live, TokenOf
<1>5. CASE Quiet(w)
  <2>1. clients' = clients /\ tokens' = tokens /\ work'[w].client \in {0, work[w].client} BY <1>5, QuietSteps DEF Quiet
  <2>2. CASE v # w BY <1>4, <2>1, <2>2
  <2>3. CASE v = w
    <3>1. LookupToken(w) BY <1>5, <2>3, QuietSteps DEF Quiet, NewSTSClient
    <3>2. Goto(w, "use") /\ Live(TokenOf(work[w].client))
      <4>1. ~Goto(w, "login")
        <5>1. Goto(w, "login") => work'[w].pc = "login" BY MovedTo DEF PCs
        <5> QED BY <2>3, <5>1
      <4> QED BY <3>1, <4>1 DEF LookupToken, checkToken
    <3>3. work'[w].client = work[w].client BY <3>2, MovedTo DEF PCs
    <3> QED BY <2>1, <2>3, <3>2, <3>3 DEF Live, TokenOf
  <2> QED BY <2>2, <2>3
<1>6. CASE Start(w)
  <2>1. clients' = clients /\ tokens' = tokens /\ work'[w].pc # "use" BY <1>6, StartStep DEF FirstStep
  <2> QED BY <1>4, <2>1
<1>7. CASE Get(w) \/ Remove(w) \/ AddToCache(w)
  <2>1. clients' = clients /\ tokens' = tokens /\ work'[w].pc # "use" BY <1>7, CacheSteps
  <2> QED BY <1>4, <2>1
<1>8. CASE Make(w)
  <2>1. (\A c \in 1..Len(clients) : clients'[c] = clients[c]) /\ tokens' = tokens /\ work'[w].pc # "use"
    BY <1>8, MakeStep
  <2> QED BY <1>4, <2>1
<1>9. CASE Login(w)
  <2>1. /\ work[w].pc # "idle" /\ work[w].client \in 1..Len(clients) /\ Len(tokens) \in Nat
        /\ \A d \in 1..Len(clients) :
              clients'[d].token = IF d = work[w].client THEN Len(tokens) + 1 ELSE clients[d].token
        /\ \A u \in 1..Len(tokens) : tokens'[u] = tokens[u]
        /\ tokens'[Len(tokens) + 1].state = "live" /\ work'[w].client = work[w].client
    BY <1>9, LoginStep
  <2>2. CASE v = w
    <3>1. clients'[work'[v].client].token = Len(tokens) + 1 /\ Len(tokens) + 1 # 0 BY <2>1, <2>2
    <3> QED BY <2>1, <3>1 DEF Live, TokenOf
  <2>3. CASE v # w
    <3>1. clients'[work'[v].client].token = t /\ tokens'[t] = tokens[t] BY <1>3, <2>1, <2>3
    <3> QED BY <1>3, <2>3, <3>1 DEF Live, TokenOf
  <2> QED BY <2>2, <2>3
<1>10. CASE Revoke(w)
  <2>1. /\ work[w].pc = "revoke" /\ work'[w].pc # "use" /\ clients' = clients
        /\ work[w].victim \in 1..Len(clients)
        /\ \/ tokens' = tokens
           \/ /\ TokenOf(work[w].victim) \in 1..Len(tokens)
              /\ \A u \in 1..Len(tokens) :
                   tokens'[u].state = IF u = TokenOf(work[w].victim) THEN "revoked" ELSE tokens[u].state
    BY <1>10, RevokeStep
  <2>2. v # w BY <2>1
  <2>3. work[w].victim = work[w].client /\ work[v].client # work[w].client
    BY <1>2, <1>3, <2>1, <2>2 DEF Placed, Revoking
  <2>4. t # TokenOf(work[w].victim) BY <1>3, <2>1, <2>2, <2>3 DEF OwnTokens, TokenOf
  <2>5. tokens'[t].state = "live" BY <1>3, <2>1, <2>2, <2>4
  <2> QED BY <1>3, <2>1, <2>2, <2>5 DEF Live, TokenOf
<1>11. CASE ClearToken(w)
  <2>1. /\ work[w].pc = "clear" /\ work'[w].pc # "use" /\ tokens' = tokens
        /\ \A d \in 1..Len(clients) :
              clients'[d].token = IF d = work[w].victim THEN 0 ELSE clients[d].token
    BY <1>11, ClearStep
  <2>2. v # w BY <2>1
  <2>3. work[w].victim = work[w].client /\ work[v].client # work[w].client
    BY <1>2, <1>3, <2>1, <2>2 DEF Placed, Revoking
  <2>4. clients'[work'[v].client].token = t BY <1>3, <2>1, <2>2, <2>3
  <2> QED BY <1>3, <2>1, <2>2, <2>4 DEF Live, TokenOf
<1>12. CASE AssumeRole(w) BY <1>12, RoleStep
<1>13. CASE GetOrCreateIamToken(w) BY <1>13, IamStep
<1> QED BY <1>5, <1>6, <1>7, <1>8, <1>9, <1>10, <1>11, <1>12, <1>13, WorkerSteps

(* Assuming the next role.                                                 *)
LEMMA NextRole ==
    ASSUME NEW i \in 1..Len(Roles)
    PROVE  Append(SubSeq(Roles, 1, i - 1), Roles[i]) = SubSeq(Roles, 1, i)
<1>0. Roles \in Seq(STRING) BY SessionKinds DEF SessionKinds
<1>1. Len(Roles) \in Nat /\ i - 1 \in 0..Len(Roles) BY <1>0
<1>2. /\ SubSeq(Roles, 1, i - 1) \in Seq(STRING) /\ Len(SubSeq(Roles, 1, i - 1)) = i - 1
      /\ \A n \in 1..(i - 1) : SubSeq(Roles, 1, i - 1)[n] = Roles[n]
  BY <1>0, <1>1
<1>3. /\ SubSeq(Roles, 1, i) \in Seq(STRING) /\ Len(SubSeq(Roles, 1, i)) = i
      /\ \A n \in 1..i : SubSeq(Roles, 1, i)[n] = Roles[n]
  BY <1>0, <1>1
<1> DEFINE p == SubSeq(Roles, 1, i - 1)  q == SubSeq(Roles, 1, i)  a == Append(p, Roles[i])
<1> HIDE DEF p, q
<1>4. Roles[i] \in STRING BY <1>0
<1>5. a \in Seq(STRING) /\ Len(a) = i /\ a[i] = Roles[i] /\ \A n \in 1..(i - 1) : a[n] = p[n]
  BY <1>1, <1>2, <1>4 DEF p
<1> HIDE DEF a
<1>6. \A n \in 1..i : a[n] = q[n]
  <2> TAKE n \in 1..i
  <2>1. CASE n = i BY <2>1, <1>3, <1>5 DEF q
  <2>2. CASE n # i
    <3>1. n \in 1..(i - 1) BY <2>2, <1>1
    <3> QED BY <3>1, <1>2, <1>3, <1>5 DEF p, q
  <2> QED BY <2>1, <2>2
<1>7. q \in Seq(STRING) /\ Len(q) = i BY <1>3 DEF q
<1>8. a = q BY <1>5, <1>6, <1>7, SeqEqual
<1> QED BY <1>8 DEF a, p, q

RolesOf(m, j, cl) ==
    /\ j.pc \in {"creds", "get", "remove", "make", "add"} => j.role = 1
    /\ j.pc \in {"init", "assume", "use"} => ChainSoFar(m, cl[j.client].chain, j)

LEMMA RolesKept ==
    ASSUME Inv1, OneAtATime, OwnClients, RolesInOrder, NEW w \in Workers, WorkerStep(w)
    PROVE  RolesInOrder'
<1>0. mode' = mode /\ cacheOn' = cacheOn /\ (\A v \in Workers : v # w => work'[v] = work[v])
  BY OthersStay DEF Same
<1> SUFFICES ASSUME mode = "aws", Apart', NEW v \in Workers PROVE RolesOf(cacheOn, work'[v], clients')
  BY <1>0 DEF RolesInOrder, RolesOf
<1>1. Apart BY ApartBefore
<1>2. /\ clients \in Seq(ClientT) /\ work[w] \in WorkT /\ Placed(mode, cacheOn, work[w])
      /\ Owned(mode, cacheOn, clients, tokens, work[w])
  BY PlacedAt
<1>3. RolesOf(cacheOn, work[v], clients) /\ RolesOf(cacheOn, work[w], clients)
  BY <1>1 DEF RolesInOrder, RolesOf
<1>4. Len(Roles) \in Nat
  <2>1. Roles \in Seq(STRING) BY SessionKinds DEF SessionKinds
  <2> QED BY <2>1
<1>5. ASSUME v # w, \A c \in 1..Len(clients) : \/ clients'[c].chain = clients[c].chain
                                               \/ AssumeRole(w) /\ c = work[w].client
      PROVE  RolesOf(cacheOn, work'[v], clients')
  <2>1. work'[v] = work[v] BY <1>0, <1>5
  <2>2. Placed(mode, cacheOn, work[v]) /\ Owned(mode, cacheOn, clients, tokens, work[v]) BY PlacedAt
  <2>3. CASE work[v].pc \in {"init", "assume", "use"}
    <3>1. work[v].client \in 1..Len(clients) /\ work[v].client # 0 BY <2>2, <2>3 DEF Placed, Owned
    <3>2. AssumeRole(w) => work[v].client # work[w].client
      <4>1. AssumeRole(w) => work[w].pc # "idle" BY DEF AssumeRole, At
      <4> QED BY <1>1, <1>5, <2>3, <3>1, <4>1, NotShared
    <3>3. clients'[work[v].client].chain = clients[work[v].client].chain BY <1>5, <3>1, <3>2
    <3> QED BY <1>3, <2>1, <2>3, <3>3 DEF RolesOf
  <2>4. CASE work[v].pc \notin {"init", "assume", "use"} BY <1>3, <2>1, <2>4 DEF RolesOf
  <2> QED BY <2>3, <2>4
<1>6. ASSUME work'[w].pc \notin {"creds", "get", "remove", "make", "add", "init", "assume", "use"}
      PROVE  RolesOf(cacheOn, work'[w], clients')
  BY <1>6 DEF RolesOf
<1>7. CASE Quiet(w)
  <2>1. clients' = clients BY <1>7, QuietSteps DEF Quiet
  <2>2. CASE v # w BY <1>5, <2>1, <2>2
  <2>3. ReadCredentials(w) \/ MakeFails(w) \/ SessionDone(w) \/ NewSTSClient(w)
    BY <1>2, <1>7 DEF Quiet, IsCached, SetAuth, LookupToken, LoginFails, SecretsRead, Close, CheckVictim,
                      At, Placed, Revoking
  <2>4. CASE MakeFails(w) \/ SessionDone(w)
    <3>1. Goto(w, "idle") /\ "idle" \in PCs BY <2>4 DEF MakeFails, SessionDone, PCs
    <3>2. work'[w].pc = "idle" BY <3>1, MovedTo
    <3> QED BY <1>6, <2>2, <3>2
  <2>5. CASE ReadCredentials(w)
    <3> DEFINE p == FirstStep(work[w].store)
               j == [work[w] EXCEPT !.cred = cred[work[w].store], !.pc = p]
    <3>1. work' = [work EXCEPT ![w] = j] /\ work[w].pc = "creds" BY <2>5 DEF ReadCredentials, Set, At
    <3>2. p \in {"get", "make"} BY DEF FirstStep
    <3> HIDE DEF p
    <3>3. j.pc = p /\ j.role = work[w].role BY <1>2 DEF WorkT
    <3> HIDE DEF j
    <3>4. work'[w] = j BY <3>1, SetWork
    <3>5. RolesOf(cacheOn, work'[w], clients') BY <1>3, <3>1, <3>2, <3>3, <3>4 DEF RolesOf
    <3> QED BY <2>2, <3>5
  <2>6. CASE NewSTSClient(w)
    <3> DEFINE q == clients[work[w].client].chain  j == [work[w] EXCEPT !.pc = "assume", !.base = q]
    <3>1. /\ work[w].pc = "init"
          /\ IF work[w].role > Len(Roles) THEN Goto(w, "use") ELSE work' = [work EXCEPT ![w] = j]
      BY <2>6 DEF NewSTSClient, Set, At
    <3>2. ChainSoFar(cacheOn, q, work[w]) BY <1>3, <3>1 DEF RolesOf
    <3> HIDE DEF q
    <3>3. work[w].role \in 1..(Len(Roles) + 1) BY <3>2 DEF ChainSoFar
    <3>4. CASE work[w].role > Len(Roles)
      <4>1. /\ work'[w].pc = "use" /\ work'[w].role = work[w].role /\ work'[w].client = work[w].client
        BY <3>1, <3>4, MovedTo DEF PCs
      <4>2. work[w].role = Len(Roles) + 1 BY <1>4, <3>3, <3>4
      <4>3. ChainSoFar(cacheOn, q, work'[w]) BY <3>2, <4>1, <4>2 DEF ChainSoFar
      <4>4. RolesOf(cacheOn, work'[w], clients') BY <2>1, <4>1, <4>3 DEF RolesOf, q
      <4> QED BY <2>2, <4>4
    <3>5. CASE ~(work[w].role > Len(Roles))
      <4>1. j.pc = "assume" /\ j.base = q /\ j.role = work[w].role /\ j.client = work[w].client
        BY <1>2 DEF WorkT
      <4>2. work' = [work EXCEPT ![w] = j] BY <3>1, <3>5
      <4> HIDE DEF j
      <4>3. work'[w] = j BY <4>2, SetWork
      <4>4. work[w].role <= Len(Roles) BY <1>4, <3>3, <3>5
      <4>5. ChainSoFar(cacheOn, q, j) BY <3>2, <4>1, <4>4 DEF ChainSoFar
      <4>6. RolesOf(cacheOn, work'[w], clients') BY <2>1, <4>1, <4>3, <4>5 DEF RolesOf, q
      <4> QED BY <2>2, <4>6
    <3> QED BY <3>4, <3>5
  <2> QED BY <2>3, <2>4, <2>5, <2>6
<1>8. CASE Start(w)
  <2>1. clients' = clients /\ work'[w].pc = "creds" /\ work'[w].role = 1 BY <1>8, StartStep
  <2>2. RolesOf(cacheOn, work'[w], clients') BY <2>1 DEF RolesOf
  <2> QED BY <1>5, <2>1, <2>2
<1>9. CASE Get(w) \/ Remove(w) \/ AddToCache(w)
  <2>1. /\ clients' = clients /\ cacheOn /\ work[w].pc \in {"get", "remove", "add"}
        /\ work'[w].pc \in {"remove", "make", "init", "check"} /\ work'[w].role = work[w].role
    BY <1>9, CacheSteps
  <2>2. work'[w].role = 1 BY <1>3, <2>1 DEF RolesOf
  <2>3. 1 \in 1..(Len(Roles) + 1) BY <1>4
  <2>4. RolesOf(cacheOn, work'[w], clients') BY <2>1, <2>2, <2>3 DEF RolesOf, ChainSoFar
  <2> QED BY <1>5, <2>1, <2>4
<1>10. CASE Make(w)
  <2>1. /\ work[w].pc = "make" /\ work'[w].role = work[w].role /\ work'[w].client = Len(clients) + 1
        /\ clients'[Len(clients) + 1] = [owner |-> OwnerOf(work[w]), token |-> 0, chain |-> <<>>]
        /\ work'[w].pc = IF ~UseCache(work[w].store) THEN "init" ELSE "add"
        /\ \A c \in 1..Len(clients) : clients'[c] = clients[c]
    BY <1>10, MakeStep
  <2>2. work'[w].role = 1 BY <1>3, <2>1 DEF RolesOf
  <2>3. clients'[work'[w].client].chain = <<>> BY <2>1
  <2>4. 1 \in 1..(Len(Roles) + 1) BY <1>4
  <2>5. SubSeq(Roles, 1, 1 - 1) = <<>>
    <3>1. 1 \in Int /\ 1 - 1 \in Int /\ 1 - 1 < 1 OBVIOUS
    <3> QED BY <3>1, SubSeqEmpty
  <2>6. ChainSoFar(cacheOn, <<>>, work'[w]) \/ work'[w].pc = "add"
    BY <2>1, <2>2, <2>4, <2>5 DEF ChainSoFar
  <2>7. RolesOf(cacheOn, work'[w], clients') BY <2>1, <2>2, <2>3, <2>6 DEF RolesOf
  <2> QED BY <1>5, <2>1, <2>7
<1>11. CASE AssumeRole(w)
  <2> DEFINE r == work[w].role  a == Append(work[w].base, RoleToAssume(r))
  <2>1. /\ work[w].pc = "assume" /\ work[w].client \in 1..Len(clients)
        /\ \A d \in 1..Len(clients) : clients'[d].chain = IF d = work[w].client THEN a ELSE clients[d].chain
        /\ work'[w].pc = "init" /\ work'[w].client = work[w].client /\ r \in Nat /\ work'[w].role = r + 1
    BY <1>11, RoleStep
  <2>2. ChainSoFar(cacheOn, clients[work[w].client].chain, work[w]) BY <1>3, <2>1 DEF RolesOf
  <2>3. r \in 1..Len(Roles) /\ work[w].base = clients[work[w].client].chain
        /\ (~cacheOn => work[w].base = SubSeq(Roles, 1, r - 1))
    BY <1>4, <2>1, <2>2 DEF ChainSoFar
  <2>4. work[w].base \in Seq(RoleNames) /\ Roles[r] \in RoleNames
    <3>1. r \in Nat BY <2>1
    <3> QED BY <1>2, <3>1 DEF WorkT, RoleNames, RoleToAssume
  <2>5. a = Append(work[w].base, Roles[r]) BY DEF RoleToAssume
  <2>6. a # <<>> /\ a[Len(a)] = Roles[r]
    <3> DEFINE b == work[w].base  x == Roles[r]
    <3>1. b \in Seq(RoleNames) /\ x \in RoleNames BY <2>4
    <3> HIDE DEF b, x
    <3>2. Len(Append(b, x)) = Len(b) + 1 /\ Len(b) \in Nat /\ Append(b, x)[Len(b) + 1] = x BY <3>1
    <3>3. Append(b, x) # <<>> BY <3>2
    <3> QED BY <2>5, <3>2, <3>3 DEF b, x
  <2>7. ~cacheOn => a = SubSeq(Roles, 1, r) BY <2>3, <2>5, NextRole
  <2>8. clients'[work'[w].client].chain = a BY <2>1
  <2> HIDE DEF a, r
  <2>9. work'[w].role \in 1..(Len(Roles) + 1) /\ work'[w].role - 1 = r BY <1>4, <2>1, <2>3
  <2>10. ChainSoFar(cacheOn, a, work'[w]) BY <2>1, <2>6, <2>7, <2>9 DEF ChainSoFar
  <2>11. RolesOf(cacheOn, work'[w], clients') BY <2>1, <2>8, <2>10 DEF RolesOf
  <2>12. \A c \in 1..Len(clients) : \/ clients'[c].chain = clients[c].chain
                                    \/ AssumeRole(w) /\ c = work[w].client
    BY <1>11, <2>1
  <2> QED BY <1>5, <2>11, <2>12
<1>12. CASE Login(w) BY <1>12, LoginStep
<1>13. CASE Revoke(w) BY <1>13, RevokeStep
<1>14. CASE ClearToken(w) BY <1>14, ClearStep
<1>15. CASE GetOrCreateIamToken(w) BY <1>15, IamStep
<1> QED BY <1>7, <1>8, <1>9, <1>10, <1>11, <1>12, <1>13, <1>14, <1>15, WorkerSteps

LEMMA InitLayer2 == ASSUME Init PROVE Inv2
<1>1. \A w \in Workers : work[w].pc = "idle" /\ work[w].client = 0 BY DEF Init, Idle
<1>2. Len(clients) = 0 BY DEF Init
<1>3. OneAtATime /\ OwnClients /\ TokenOutlives /\ VaultTokenValid /\ RolesInOrder
  BY <1>1 DEF OneAtATime, OwnClients, TokenOutlives, VaultTokenValid, RolesInOrder, At
<1>4. OwnTokens BY <1>2 DEF OwnTokens
<1> QED BY <1>3, <1>4 DEF Inv2

LEMMA WorldLayer2 ==
    ASSUME Inv1, Inv2, WorldStep PROVE Inv2'
<1>0. UNCHANGED <<mode, cacheOn, clients, work, overlap>> BY WorldSteps
<1>1. (OneAtATime /\ OwnClients /\ OwnTokens /\ RolesInOrder)'
  BY <1>0 DEF Inv2, OneAtATime, OwnClients, OwnTokens, RolesInOrder, Apart, At
<1>2. TokenOutlives'
  <2> SUFFICES ASSUME mode = "yandex", NEW w \in Workers, work[w].pc = "use"
               PROVE  /\ work[w].since <= now' /\ now' <= work[w].since + Lifetime
                      /\ work[w].since + Lifetime < tokens'[work[w].token].expires
    BY <1>0 DEF TokenOutlives, At
  <2>1. now \in Nat /\ Lifetime \in Nat BY SessionBounds DEF SessionBounds, Inv1, Types
  <2>2. /\ work[w] \in WorkT /\ Placed(mode, cacheOn, work[w])
        /\ Owned(mode, cacheOn, clients, tokens, work[w])
    BY PlacedAt
  <2>3. work[w].token \in 1..Len(tokens) BY <2>2 DEF Placed, Owned
  <2>4. tokens'[work[w].token].expires = tokens[work[w].token].expires BY <2>3, WorldSteps
  <2>5. /\ work[w].since <= now /\ now <= work[w].since + Lifetime
        /\ work[w].since + Lifetime < tokens[work[w].token].expires
    BY DEF Inv2, TokenOutlives, At
  <2>6. now' = now \/ (now' = now + 1 /\ now < work[w].since + Lifetime) BY WorldSteps DEF Tick, At
  <2>7. work[w].since \in Nat BY <2>2 DEF WorkT
  <2> QED BY <2>1, <2>4, <2>5, <2>6, <2>7
<1>3. VaultTokenValid'
  <2> SUFFICES ASSUME mode = "vault", Apart, NEW w \in Workers, work[w].pc = "use"
               PROVE  LET u == clients[work[w].client].token IN u # 0 /\ tokens'[u].state = "live"
    BY <1>0 DEF VaultTokenValid, At, Apart, Live, TokenOf
  <2> DEFINE u == clients[work[w].client].token
  <2>1. u # 0 /\ tokens[u].state = "live" BY DEF Inv2, VaultTokenValid, At, Live, TokenOf
  <2>2. Placed(mode, cacheOn, work[w]) /\ Owned(mode, cacheOn, clients, tokens, work[w]) BY PlacedAt
  <2>3. work[w].client \in 1..Len(clients) /\ work[w].client # 0 BY <2>2 DEF Placed, Owned
  <2>4. u \in 1..Len(tokens) BY <2>1, <2>3 DEF Inv1, TokensFit, TokenFits
  <2>5. CASE tokens' = tokens BY <2>1, <2>5
  <2>6. ASSUME NEW t \in 1..Len(tokens), Expire(t),
               \A x \in 1..Len(tokens) : x # t => tokens'[x] = tokens[x]
        PROVE  tokens'[u] = tokens[u]
    <3>1. ~InHand(t) BY <2>6 DEF Expire
    <3>2. u # t BY <2>3, <3>1 DEF InHand, At, TokenOf
    <3> QED BY <2>4, <2>6, <3>2
  <2>7. tokens' = tokens \/ \E t \in 1..Len(tokens) :
            Expire(t) /\ \A x \in 1..Len(tokens) : x # t => tokens'[x] = tokens[x]
    BY WorldSteps
  <2> QED BY <2>1, <2>5, <2>6, <2>7
<1> QED BY <1>1, <1>2, <1>3 DEF Inv2

LEMMA NextLayer2 ==
    ASSUME Inv1, Inv2, [Next]_vars PROVE Inv2'
<1>1. CASE WorldStep BY <1>1, WorldLayer2
<1>2. ASSUME NEW w \in Workers, WorkerStep(w) PROVE Inv2'
  <2>1. OneAtATime' BY <1>2, OneAtATimeKept DEF Inv2
  <2>2. OwnClients' BY <1>2, OwnClientsKept DEF Inv2
  <2>3. OwnTokens' BY <1>2, OwnTokensKept DEF Inv2
  <2>4. TokenOutlives' BY <1>2, TokenOutlivesKept DEF Inv2
  <2>5. VaultTokenValid' BY <1>2, VaultTokenKept DEF Inv2
  <2>6. RolesInOrder' BY <1>2, RolesKept DEF Inv2
  <2> QED BY <2>1, <2>2, <2>3, <2>4, <2>5, <2>6 DEF Inv2
<1> QED BY <1>1, <1>2, NextSteps

(* Without a cache a reconcile has a client for itself; a client has its   *)
(* token for itself; and what a reconcile has in hand is valid.            *)
THEOREM Sharing == Spec => []Inv2
<1>1. Inv1 /\ Inv2 /\ [Next]_vars => Inv2' BY NextLayer2
<1> QED BY <1>1, InitLayer2, Ownership, PTL DEF Spec

(* A Vault token was looked up or issued before a reconcile works with it, *)
(* and neither Close nor an eviction nor its TTL takes it away meanwhile,  *)
(* unless reconciles that overlap share the cache; an IAM token is valid   *)
(* as long as its client lives, although other reconciles replace it in    *)
(* the map and the map is cleaned up.                                      *)
THEOREM TokensAreValid == Spec => []TokenValid
<1>1. Inv1 /\ Inv2 => TokenValid
  <2> SUFFICES ASSUME Inv1, Inv2, NEW w \in Workers, At(w, "use")
               PROVE  /\ mode = "vault" /\ Apart => Live(TokenOf(work[w].client))
                      /\ mode = "yandex" => now < tokens[work[w].token].expires
    BY DEF TokenValid
  <2>1. mode = "vault" /\ Apart => Live(TokenOf(work[w].client)) BY DEF Inv2, VaultTokenValid
  <2>2. ASSUME mode = "yandex" PROVE now < tokens[work[w].token].expires
    <3>1. /\ work[w].since <= now /\ now <= work[w].since + Lifetime
          /\ work[w].since + Lifetime < tokens[work[w].token].expires
      BY <2>2 DEF Inv2, TokenOutlives
    <3>2. now \in Nat /\ Lifetime \in Nat BY SessionBounds DEF SessionBounds, Inv1, Types
    <3>3. /\ work[w] \in WorkT /\ Placed(mode, cacheOn, work[w])
          /\ Owned(mode, cacheOn, clients, tokens, work[w]) /\ tokens \in Seq(TokenT)
      BY PlacedAt
    <3>4. work[w].token \in 1..Len(tokens) BY <2>2, <3>3 DEF Placed, Owned, At
    <3>5. tokens[work[w].token] \in TokenT BY <3>3, <3>4
    <3>6. work[w].since \in Nat /\ tokens[work[w].token].expires \in Nat BY <3>3, <3>5 DEF WorkT, TokenT
    <3> QED BY <3>1, <3>2, <3>6
  <2> QED BY <2>1, <2>2
<1> QED BY <1>1, Ownership, Sharing, PTL

(* awsauth.New assumes the additional roles and then the store's, in their *)
(* order, whatever other reconciles do with the sessions they have: the    *)
(* session a reconcile uses acts in the store's role.                      *)
THEOREM RolesAreAssumed == Spec => []ActsInRole
<1>1. Inv2 => ActsInRole
  <2> SUFFICES ASSUME Inv2, NEW w \in Workers, At(w, "use"), mode = "aws", Apart, Roles # <<>>
               PROVE  LET chain == clients[work[w].client].chain
                      IN  IF cacheOn THEN chain[Len(chain)] = Roles[Len(Roles)] ELSE chain = Roles
    BY DEF ActsInRole
  <2> DEFINE chain == clients[work[w].client].chain
  <2>1. ChainSoFar(cacheOn, chain, work[w]) /\ work[w].pc = "use" BY DEF Inv2, RolesInOrder, At
  <2> HIDE DEF chain
  <2>2. Roles \in Seq(STRING) BY SessionKinds DEF SessionKinds
  <2>3. Len(Roles) \in Nat /\ Len(Roles) > 0 BY <2>2
  <2>4. work[w].role = Len(Roles) + 1 BY <2>1 DEF ChainSoFar
  <2>5. work[w].role - 1 = Len(Roles) /\ work[w].role > 1 BY <2>3, <2>4
  <2>6. SubSeq(Roles, 1, Len(Roles)) = Roles BY <2>2, SubSeqFull
  <2>7. IF cacheOn THEN chain[Len(chain)] = Roles[Len(Roles)] ELSE chain = Roles
    BY <2>1, <2>5, <2>6 DEF ChainSoFar
  <2> QED BY <2>7 DEF chain
<1> QED BY <1>1, Sharing, PTL
---------------------------------------------------------------------------
(* The third layer: the cache has one entry per key and loses no other.    *)
Distinct(c) == \A i, n \in 1..Len(c) : c[i].key = c[n].key => i = n

LEMMA PurgedRest ==
    ASSUME NEW T, NEW c \in Seq(T), NEW k, Distinct(c)
    PROVE  /\ Distinct(Purge(c, k)) /\ \A n \in 1..Len(Purge(c, k)) : Purge(c, k)[n].key # k
           /\ \A i \in 1..Len(c) : c[i].key # k => \E n \in 1..Len(Purge(c, k)) : Purge(c, k)[n] = c[i]
           /\ Len(Purge(c, k)) = IF Contains(c, k) THEN Len(c) - 1 ELSE Len(c)
<1>0. Len(c) \in Nat OBVIOUS
<1>1. CASE ~Contains(c, k)
  <2>1. Purge(c, k) = c BY <1>1 DEF Purge
  <2>2. \A n \in 1..Len(c) : c[n].key # k BY <1>1 DEF Contains
  <2> QED BY <1>1, <2>1, <2>2
<1>2. CASE Contains(c, k)
  <2> DEFINE x == IndexOf(c, k)  r == RemoveAt(c, x)
  <2>1. x \in 1..Len(c) /\ c[x].key = k BY <1>2, IndexInCache
  <2>2. Purge(c, k) = r BY <1>2 DEF Purge
  <2> HIDE DEF x
  <2>3. /\ Len(r) = Len(c) - 1
        /\ \A n \in 1..(Len(c) - 1) : r[n] = IF n < x THEN c[n] ELSE c[n + 1]
    BY <2>1, RemovedEntries
  <2> HIDE DEF r
  <2> DEFINE at(n) == IF n < x THEN n ELSE n + 1
  <2>4. \A n \in 1..(Len(c) - 1) : at(n) \in 1..Len(c) /\ at(n) # x /\ r[n] = c[at(n)]
    BY <1>0, <2>1, <2>3
  <2>5. \A n, m \in 1..(Len(c) - 1) : at(n) = at(m) => n = m BY <1>0, <2>1
  <2>6. ASSUME NEW i \in 1..Len(c), c[i].key # k PROVE \E n \in 1..(Len(c) - 1) : r[n] = c[i]
    <3>1. i # x BY <2>1, <2>6
    <3>2. CASE i < x
      <4>1. i \in 1..(Len(c) - 1) BY <1>0, <2>1, <3>2
      <4> QED BY <2>3, <3>2, <4>1
    <3>3. CASE i > x
      <4>1. i - 1 \in 1..(Len(c) - 1) /\ ~(i - 1 < x) /\ (i - 1) + 1 = i BY <1>0, <2>1, <3>3
      <4> QED BY <2>3, <4>1
    <3> QED BY <2>1, <3>1, <3>2, <3>3
  <2> HIDE DEF at
  <2>7. \A n \in 1..(Len(c) - 1) : r[n].key # k BY <2>1, <2>4 DEF Distinct
  <2>8. ASSUME NEW n \in 1..(Len(c) - 1), NEW m \in 1..(Len(c) - 1), r[n].key = r[m].key PROVE n = m
    BY <2>4, <2>5, <2>8 DEF Distinct
  <2>9. Distinct(r) BY <2>3, <2>8 DEF Distinct
  <2> QED BY <1>2, <2>2, <2>3, <2>6, <2>7, <2>9
<1> QED BY <1>1, <1>2

LEMMA TouchedRest ==
    ASSUME NEW T, NEW c \in Seq(T), NEW k, Distinct(c)
    PROVE  /\ Distinct(Touch(c, k)) /\ Len(Touch(c, k)) = Len(c)
           /\ \A i \in 1..Len(c) : \E n \in 1..Len(c) : Touch(c, k)[n] = c[i]
           /\ ~Contains(c, k) => Touch(c, k) = c
<1>0. Len(c) \in Nat OBVIOUS
<1>1. CASE ~Contains(c, k)
  <2>1. Touch(c, k) = c BY <1>1 DEF Touch
  <2> QED BY <2>1
<1>2. CASE Contains(c, k)
  <2> DEFINE e == EntryOf(c, k)  p == Purge(c, k)  r == <<e>> \o p
  <2>1. IndexOf(c, k) \in 1..Len(c) /\ e.key = k /\ e = c[IndexOf(c, k)] BY <1>2, IndexInCache DEF EntryOf
  <2>2. /\ Distinct(p) /\ \A n \in 1..Len(p) : p[n].key # k
        /\ \A i \in 1..Len(c) : c[i].key # k => \E n \in 1..Len(p) : p[n] = c[i]
        /\ Len(p) = Len(c) - 1
    BY <1>2, PurgedRest
  <2>3. p \in Seq(T) /\ e \in T BY <2>1, PurgedEntries
  <2>4. Touch(c, k) = r BY <1>2 DEF Touch
  <2>5. e = c[IndexOf(c, k)] /\ \A i \in 1..Len(c) : c[i].key = k => c[i] = e BY <2>1 DEF Distinct
  <2> HIDE DEF e, p
  <2>6. Len(r) = Len(c) /\ r[1] = e /\ \A n \in 2..Len(c) : r[n] = p[n - 1]
    BY <1>0, <2>2, <2>3
  <2> HIDE DEF r
  <2>7. \A n \in 2..Len(c) : n - 1 \in 1..Len(p) BY <1>0, <2>2
  <2>8. ASSUME NEW n \in 1..Len(c), NEW m \in 1..Len(c), r[n].key = r[m].key PROVE n = m
    <3>1. \A q \in 1..Len(c) : q = 1 \/ q \in 2..Len(c) BY <1>0
    <3>2. \A q \in 2..Len(c) : r[q].key # k BY <2>2, <2>6, <2>7
    <3>3. CASE n = 1 \/ m = 1 BY <2>1, <2>6, <2>8, <3>1, <3>2, <3>3
    <3>4. CASE n \in 2..Len(c) /\ m \in 2..Len(c)
      <4>0. n - 1 \in 1..Len(p) /\ m - 1 \in 1..Len(p) /\ p[n - 1].key = p[m - 1].key
        BY <2>6, <2>7, <2>8, <3>4
      <4>1. n - 1 = m - 1 BY <2>2, <4>0 DEF Distinct
      <4> QED BY <4>1, <3>4
    <3> QED BY <3>1, <3>3, <3>4
  <2>9. Distinct(r) BY <2>6, <2>8 DEF Distinct
  <2>10. ASSUME NEW i \in 1..Len(c) PROVE \E n \in 1..Len(c) : r[n] = c[i]
    <3>1. 1 \in 1..Len(c) BY <1>0
    <3>2. CASE c[i].key = k BY <2>5, <2>6, <3>1, <3>2
    <3>3. CASE c[i].key # k
      <4>1. PICK m \in 1..Len(p) : p[m] = c[i] BY <2>2, <3>3
      <4>2. m + 1 \in 2..Len(c) /\ m + 1 \in 1..Len(c) /\ (m + 1) - 1 = m BY <1>0, <2>2
      <4> QED BY <2>6, <4>1, <4>2
    <3> QED BY <3>2, <3>3
  <2> QED BY <1>2, <2>4, <2>6, <2>9, <2>10
<1> QED BY <1>1, <1>2

LEMMA AddedRest ==
    ASSUME NEW T, NEW c \in Seq(T), NEW size \in Nat \ {0}, NEW v, NEW k, NEW x, Entry(k, v, x) \in T,
           Distinct(c)
    PROVE  /\ Distinct(Add(c, size, v, k, x))
           /\ ~Contains(c, k) /\ Len(c) <= size =>
                 \A i \in 1..Len(c) : i < size =>
                    \E n \in 1..Len(Add(c, size, v, k, x)) : Add(c, size, v, k, x)[n] = c[i]
<1> DEFINE r == Add(c, size, v, k, x)  p == Purge(c, k)  e == Entry(k, v, x)
<1>1. /\ r \in Seq(T) /\ (Len(p) < size => Len(r) = Len(p) + 1) /\ (~(Len(p) < size) => Len(r) = size)
      /\ r[1] = e /\ \A n \in 2..Len(r) : n - 1 \in 1..Len(p) /\ r[n] = p[n - 1]
  <2>1. r \in Seq(T) BY AddedEntries
  <2>2. Len(p) < size => Len(r) = Len(p) + 1 BY AddedEntries
  <2>5. ~(Len(p) < size) => Len(r) = size BY AddedEntries
  <2>3. r[1] = e BY AddedEntries
  <2>4. \A n \in 2..Len(r) : n - 1 \in 1..Len(p) /\ r[n] = p[n - 1] BY AddedEntries
  <2> HIDE DEF r, p, e
  <2> QED BY <2>1, <2>2, <2>3, <2>4, <2>5
<1>2. Distinct(p) /\ (\A n \in 1..Len(p) : p[n].key # k) BY PurgedRest
<1>3. ~Contains(c, k) => p = c BY DEF Purge
<1>4. e.key = k BY DEF Entry
<1>5. Len(c) \in Nat /\ Len(p) \in Nat /\ Len(r) \in Nat
  <2>1. p \in Seq(T) BY PurgedEntries
  <2> HIDE DEF p, r
  <2> QED BY <1>1, <2>1
<1> HIDE DEF r, p, e
<1>6. ASSUME NEW n \in 1..Len(r), NEW m \in 1..Len(r), r[n].key = r[m].key PROVE n = m
  <2>1. \A q \in 1..Len(r) : q = 1 \/ q \in 2..Len(r) BY <1>5
  <2>2. \A q \in 2..Len(r) : r[q].key # k BY <1>1, <1>2
  <2>3. CASE n = 1 \/ m = 1 BY <1>1, <1>4, <1>6, <2>1, <2>2, <2>3
  <2>4. CASE n \in 2..Len(r) /\ m \in 2..Len(r)
    <3>0. n - 1 \in 1..Len(p) /\ m - 1 \in 1..Len(p) /\ p[n - 1].key = p[m - 1].key
      BY <1>1, <1>6, <2>4
    <3>1. n - 1 = m - 1 BY <1>2, <3>0 DEF Distinct
    <3> QED BY <3>1, <2>4
  <2> QED BY <2>1, <2>3, <2>4
<1>7. ASSUME ~Contains(c, k), Len(c) <= size, NEW i \in 1..Len(c), i < size
      PROVE  \E n \in 1..Len(r) : r[n] = c[i]
  <2>1. p = c BY <1>3, <1>7
  <2>2. Len(r) = Len(c) + 1 \/ (Len(c) = size /\ Len(r) = size) BY <1>1, <1>5, <1>7, <2>1
  <2>3. CASE i + 1 \in 2..Len(r)
    <3>1. r[i + 1] = c[i] /\ i + 1 \in 1..Len(r) BY <1>1, <1>5, <2>1, <2>3
    <3> QED BY <3>1
  <2>4. CASE i + 1 \notin 2..Len(r)
    BY <1>5, <1>7, <2>2, <2>4
  <2> QED BY <2>3, <2>4
<1>8. Distinct(r) BY <1>6 DEF Distinct
<1> QED BY <1>7, <1>8 DEF r

(* The steps of Vault reconciles.                                          *)
Goes(w) == /\ work'[w].store = work[w].store /\ work'[w].client = work[w].client
           /\ work'[w].ns = work[w].ns /\ work'[w].rev = work[w].rev

LEMMA VaultQuiet ==
    ASSUME Inv1, NEW w \in Workers, Quiet(w), mode = "vault"
    PROVE  \/ Fault /\ work'[w] = Idle /\ work[w].pc \in {"make", "login"}
           \/ /\ Goes(w) /\ UNCHANGED spent
              /\ \/ /\ work[w].pc = "contains"
                    /\ work'[w].pc = IF Contains(cache, Key(w)) THEN "init" ELSE "add"
                 \/ work[w].pc = "init" /\ work'[w].pc \in {"close", "lookup"}
                 \/ work[w].pc = "init" /\ work'[w].pc = "login" /\ TokenOf(work[w].client) = 0
                 \/ work[w].pc = "lookup" /\ work'[w].pc = "use"
                 \/ work[w].pc = "lookup" /\ work'[w].pc = "login" /\ ~checkToken(TokenOf(work[w].client))
                 \/ /\ work[w].pc = "check" /\ work'[w].pc = "revoke"
                    /\ work'[w].victim = work[w].victim /\ work'[w].next = work[w].next
                 \/ /\ work[w].pc \in {"close", "use"} /\ ClosesToken(w) /\ work'[w].pc = "check"
                    /\ work'[w].victim = work[w].client /\ work'[w].next = "idle"
           \/ Fault /\ work[w].pc = "lookup" /\ work'[w].pc = "login" /\ Goes(w)
           \/ /\ work[w].pc \in {"close", "use"} /\ ~ClosesToken(w) /\ work'[w] = Idle /\ UNCHANGED spent
           \/ /\ work[w].pc = "check" /\ Done(w)
              /\ Fault \/ (~checkToken(TokenOf(work[w].victim)) /\ UNCHANGED spent)
<1>0. work[w] \in WorkT /\ Placed(mode, cacheOn, work[w]) BY PlacedAt
<1>1. ASSUME NEW p \in PCs, Goto(w, p), p # "idle"
      PROVE  /\ Goes(w) /\ work'[w].pc = p
             /\ work'[w].victim = work[w].victim /\ work'[w].next = work[w].next
  BY <1>1, MovedTo DEF Goes
<1>2. CASE MakeFails(w) \/ LoginFails(w)
  <2>1. Goto(w, "idle") /\ Fault /\ work[w].pc \in {"make", "login"} BY <1>2 DEF MakeFails, LoginFails, At
  <2>2. work'[w] = Idle BY <2>1, MovedTo DEF PCs
  <2> QED BY <2>1, <2>2
<1>3. CASE IsCached(w)
  <2> DEFINE p == IF Contains(cache, Key(w)) THEN "init" ELSE "add"
  <2>1. Goto(w, p) /\ work[w].pc = "contains" /\ UNCHANGED spent BY <1>3 DEF IsCached, At
  <2>2. p \in PCs /\ p # "idle" BY DEF PCs
  <2> HIDE DEF p
  <2>3. Goes(w) /\ work'[w].pc = p BY <1>1, <2>1, <2>2
  <2> QED BY <2>1, <2>3 DEF p
<1>4. CASE SetAuth(w)
  <2>1. /\ Goto(w, "close") \/ Goto(w, "lookup") \/ (Goto(w, "login") /\ TokenOf(work[w].client) = 0)
        /\ work[w].pc = "init" /\ UNCHANGED spent
    BY <1>4 DEF SetAuth, InitClient, At
  <2> QED BY <1>1, <2>1 DEF PCs
<1>5. CASE LookupToken(w)
  <2>1. /\ \/ Goto(w, "use") /\ UNCHANGED spent
           \/ Goto(w, "login") /\ ~checkToken(TokenOf(work[w].client)) /\ UNCHANGED spent
           \/ Goto(w, "login") /\ Fault
        /\ work[w].pc = "lookup"
    BY <1>5 DEF LookupToken, At
  <2> QED BY <1>1, <2>1 DEF PCs
<1>6. CASE CheckVictim(w)
  <2>1. /\ \/ Goto(w, "revoke") /\ UNCHANGED spent
           \/ Done(w) /\ ~checkToken(TokenOf(work[w].victim)) /\ UNCHANGED spent
           \/ Done(w) /\ Fault
        /\ work[w].pc = "check"
    BY <1>6 DEF CheckVictim, At
  <2>2. CASE Goto(w, "revoke") /\ UNCHANGED spent BY <1>1, <2>1, <2>2 DEF PCs
  <2> QED BY <2>1, <2>2
<1>7. CASE Close(w)
  <2> DEFINE i == [work[w] EXCEPT !.pc = "check", !.victim = work[w].client, !.next = "idle"]
  <2>1. /\ work[w].pc \in {"close", "use"} /\ UNCHANGED spent
        /\ work' = [work EXCEPT ![w] = IF ClosesToken(w) THEN i ELSE Idle]
    BY <1>7 DEF Close, At, Set
  <2>2. /\ i.pc = "check" /\ i.victim = work[w].client /\ i.next = "idle" /\ i.client = work[w].client
        /\ i.store = work[w].store /\ i.ns = work[w].ns /\ i.rev = work[w].rev
    BY <1>0 DEF WorkT
  <2> HIDE DEF i
  <2>3. work'[w] = IF ClosesToken(w) THEN i ELSE Idle BY <2>1, SetWork
  <2>4. CASE ClosesToken(w) BY <2>1, <2>2, <2>3, <2>4 DEF Goes
  <2>5. CASE ~ClosesToken(w) BY <2>1, <2>3, <2>5
  <2> QED BY <2>4, <2>5
<1>8. MakeFails(w) \/ LoginFails(w) \/ IsCached(w) \/ SetAuth(w) \/ LookupToken(w) \/ CheckVictim(w) \/ Close(w)
  BY <1>0 DEF Quiet, ReadCredentials, SessionDone, SecretsRead, NewSTSClient, At, Placed
<1> QED BY <1>2, <1>3, <1>4, <1>5, <1>6, <1>7, <1>8

LEMMA VaultCache ==
    ASSUME Inv1, NEW w \in Workers, Get(w) \/ Remove(w) \/ AddToCache(w), mode = "vault"
    PROVE  /\ UNCHANGED spent
           /\ work'[w].store = work[w].store /\ work'[w].ns = work[w].ns /\ work'[w].rev = work[w].rev
           /\ \/ /\ work[w].pc = "get" /\ cache' = Touch(cache, Key(w))
                 /\ \/ /\ Contains(cache, Key(w)) /\ work'[w].pc = "init"
                       /\ work'[w].client = EntryOf(cache, Key(w)).client
                    \/ Contains(cache, Key(w)) /\ work'[w].pc = "remove" /\ Goes(w)
                    \/ ~Contains(cache, Key(w)) /\ work'[w].pc = "make" /\ Goes(w)
              \/ /\ work[w].pc = "remove" /\ cache' = Purge(cache, Key(w)) /\ Goes(w)
                 /\ \/ ~Contains(cache, Key(w)) /\ work'[w].pc = "make"
                    \/ /\ Contains(cache, Key(w)) /\ work'[w].pc = "check" /\ work'[w].next = "make"
                       /\ work'[w].victim = EntryOf(cache, Key(w)).client
              \/ /\ work[w].pc = "add" /\ Goes(w)
                 /\ cache' = Add(cache, CacheSize, work[w].rev, Key(w), work[w].client)
                 /\ \/ ~Evicts(cache, CacheSize, Key(w)) /\ work'[w].pc = "init"
                    \/ /\ Evicts(cache, CacheSize, Key(w)) /\ work'[w].pc = "check"
                       /\ work'[w].next = "init" /\ work'[w].victim = Oldest(cache).client
<1>0. work[w] \in WorkT /\ Placed(mode, cacheOn, work[w]) BY PlacedAt
<1>1. ASSUME NEW p \in PCs, Goto(w, p), p # "idle" PROVE Goes(w) /\ work'[w].pc = p
  BY <1>1, MovedTo DEF Goes
<1>2. ASSUME NEW c, NEW p, Cleanup(w, c, p)
      PROVE  Goes(w) /\ work'[w].pc = "check" /\ work'[w].victim = c /\ work'[w].next = p
  <2> DEFINE j == [work[w] EXCEPT !.pc = "check", !.victim = c, !.next = p]
  <2>1. work' = [work EXCEPT ![w] = j] BY <1>2 DEF Cleanup, Set
  <2>2. /\ j.pc = "check" /\ j.victim = c /\ j.next = p /\ j.client = work[w].client
        /\ j.store = work[w].store /\ j.ns = work[w].ns /\ j.rev = work[w].rev
    BY <1>0 DEF WorkT
  <2> HIDE DEF j
  <2> QED BY <2>1, <2>2, SetWork DEF Goes
<1> DEFINE k == Key(w)
<1>3. CASE Get(w)
  <2> DEFINE x == EntryOf(cache, k).client  j == [work[w] EXCEPT !.client = x, !.pc = "init"]
  <2>1. /\ work[w].pc = "get" /\ cache' = Touch(cache, k) /\ UNCHANGED spent
        /\ \/ Contains(cache, k) /\ work' = [work EXCEPT ![w] = j]
           \/ Contains(cache, k) /\ Goto(w, "remove")
           \/ ~Contains(cache, k) /\ Goto(w, "make")
    BY <1>3 DEF Get, Hit, At, Set
  <2> HIDE DEF x, k
  <2>2. /\ j.pc = "init" /\ j.client = x
        /\ j.store = work[w].store /\ j.ns = work[w].ns /\ j.rev = work[w].rev
    BY <1>0 DEF WorkT
  <2> HIDE DEF j
  <2>3. CASE Contains(cache, k) /\ work' = [work EXCEPT ![w] = j]
    <3>1. work'[w] = j BY <2>3, SetWork
    <3> QED BY <2>1, <2>2, <2>3, <3>1 DEF x, k
  <2>4. CASE Contains(cache, k) /\ Goto(w, "remove")
    <3>1. Goes(w) /\ work'[w].pc = "remove" BY <1>1, <2>4 DEF PCs
    <3> QED BY <2>1, <2>4, <3>1 DEF k, Goes
  <2>5. CASE ~Contains(cache, k) /\ Goto(w, "make")
    <3>1. Goes(w) /\ work'[w].pc = "make" BY <1>1, <2>5 DEF PCs
    <3> QED BY <2>1, <2>5, <3>1 DEF k, Goes
  <2> QED BY <2>1, <2>3, <2>4, <2>5
<1>4. CASE Remove(w)
  <2> DEFINE x == EntryOf(cache, k).client
  <2>1. /\ work[w].pc = "remove" /\ cache' = Purge(cache, k) /\ UNCHANGED spent
        /\ \/ Contains(cache, k) /\ Cleanup(w, x, "make")
           \/ ~Contains(cache, k) /\ Goto(w, "make")
    BY <1>4 DEF Remove, At
  <2> HIDE DEF x, k
  <2>2. CASE Contains(cache, k) /\ Cleanup(w, x, "make")
    <3>1. Goes(w) /\ work'[w].pc = "check" /\ work'[w].victim = x /\ work'[w].next = "make" BY <1>2, <2>2
    <3> QED BY <2>1, <2>2, <3>1 DEF x, k, Goes
  <2>3. CASE ~Contains(cache, k) /\ Goto(w, "make")
    <3>1. Goes(w) /\ work'[w].pc = "make" BY <1>1, <2>3 DEF PCs
    <3> QED BY <2>1, <2>3, <3>1 DEF k, Goes
  <2> QED BY <2>1, <2>2, <2>3
<1>5. CASE AddToCache(w)
  <2> DEFINE x == Oldest(cache).client  ev == Evicts(cache, CacheSize, k)
             a == Add(cache, CacheSize, work[w].rev, k, work[w].client)
  <2>1. /\ work[w].pc = "add" /\ cache' = a /\ UNCHANGED spent
        /\ \/ ev /\ Cleanup(w, x, "init")
           \/ ~ev /\ Goto(w, "init")
    BY <1>5 DEF AddToCache, At
  <2> HIDE DEF x, k, a, ev
  <2>2. CASE ev /\ Cleanup(w, x, "init")
    <3>1. Goes(w) /\ work'[w].pc = "check" /\ work'[w].victim = x /\ work'[w].next = "init" BY <1>2, <2>2
    <3> QED BY <2>1, <2>2, <3>1 DEF x, k, a, ev, Goes
  <2>3. CASE ~ev /\ Goto(w, "init")
    <3>1. Goes(w) /\ work'[w].pc = "init" BY <1>1, <2>3 DEF PCs
    <3> QED BY <2>1, <2>3, <3>1 DEF k, a, ev, Goes
  <2> QED BY <2>1, <2>2, <2>3
<1> QED BY <1>3, <1>4, <1>5

(* Without faults and overlaps there were none before.                     *)
LEMMA CalmBefore ==
    ASSUME Inv1, NEW w \in Workers, WorkerStep(w), Calm' PROVE Calm /\ ~Fault
<1>1. spent \in [runs : Nat, edits : Nat, faults : Nat] BY PlacedAt
<1>2. mode' = mode BY OthersStay DEF Same
<1>3. Apart BY ApartBefore DEF Calm
<1>4. ~Fault BY <1>1 DEF Fault, Calm
<1>5. UNCHANGED spent \/ spent' = [spent EXCEPT !.runs = spent.runs + 1]
  BY <1>4 DEF WorkerStep, Start, ReadCredentials, Get, Remove, Make, MakeFails, IsCached, AddToCache,
              CheckVictim, Revoke, ClearToken, SetAuth, LookupToken, Login, LoginFails, Close,
              NewSTSClient, AssumeRole, SessionDone, GetOrCreateIamToken, SecretsRead
<1>6. spent.faults = 0 BY <1>1, <1>5 DEF Calm
<1> QED BY <1>2, <1>3, <1>4, <1>6 DEF Calm

(* With a cache they then are one at a time.                               *)
LEMMA OthersIdle ==
    ASSUME Inv1, OneAtATime, NEW w \in Workers, WorkerStep(w), Calm', cacheOn,
           NEW v \in Workers, v # w
    PROVE  work[v].pc = "idle" /\ work'[v].pc = "idle"
<1>1. cacheOn' = cacheOn /\ work'[v] = work[v] BY OthersStay DEF Same
<1>2. ~overlap' /\ ~overlap BY <1>1, CalmBefore DEF Calm, Apart
<1>3. CASE work[w].pc # "idle" /\ overlap' = overlap BY <1>1, <1>2, <1>3 DEF OneAtATime, At
<1>4. CASE overlap' = (overlap \/ \E x \in Workers : work[x].pc # "idle") BY <1>1, <1>2, <1>4
<1> QED BY <1>3, <1>4, OthersStay

(* Clients keep their owners.                                              *)
LEMMA OwnersStay ==
    ASSUME Inv1, NEW w \in Workers, WorkerStep(w)
    PROVE  Len(clients) <= Len(clients') /\ \A c \in 1..Len(clients) : clients'[c].owner = clients[c].owner
<1>0. clients \in Seq(ClientT) /\ Len(clients) \in Nat BY PlacedAt
<1>1. CASE Quiet(w) BY <1>0, <1>1, QuietSteps DEF Quiet
<1>2. CASE Start(w) BY <1>0, <1>2, StartStep
<1>3. CASE Get(w) \/ Remove(w) \/ AddToCache(w) BY <1>0, <1>3, CacheSteps
<1>4. CASE Make(w)
  <2>1. Len(clients') = Len(clients) + 1 /\ (\A c \in 1..Len(clients) : clients'[c] = clients[c])
    BY <1>4, MakeStep
  <2> QED BY <1>0, <2>1
<1>5. CASE Login(w) BY <1>0, <1>5, LoginStep
<1>6. CASE Revoke(w) BY <1>0, <1>6, RevokeStep
<1>7. CASE ClearToken(w) BY <1>0, <1>7, ClearStep
<1>8. CASE AssumeRole(w) BY <1>0, <1>8, RoleStep
<1>9. CASE GetOrCreateIamToken(w) BY <1>0, <1>9, IamStep
<1> QED BY <1>1, <1>2, <1>3, <1>4, <1>5, <1>6, <1>7, <1>8, <1>9, WorkerSteps

(* Only these steps change the cache.                                      *)
LEMMA CacheAfter ==
    ASSUME Inv1, NEW w \in Workers, WorkerStep(w)
    PROVE  \/ cache' = cache
           \/ Get(w) /\ cache' = Touch(cache, Key(w))
           \/ Remove(w) /\ cache' = Purge(cache, Key(w))
           \/ /\ AddToCache(w) /\ work[w].pc = "add" /\ cacheOn
              /\ cache' = Add(cache, CacheSize, work[w].rev, Key(w), work[w].client)
              /\ Entry(Key(w), work[w].rev, work[w].client) \in EntryT
<1>1. CASE Quiet(w) BY <1>1, QuietSteps DEF Quiet
<1>2. CASE Start(w) BY <1>2, StartStep
<1>3. CASE Get(w) BY <1>3 DEF Get
<1>4. CASE Remove(w) BY <1>4 DEF Remove
<1>5. CASE AddToCache(w)
  <2>1. work[w] \in WorkT /\ work[w].pc = "add" /\ work[w].store \in Stores /\ cacheOn
    BY <1>5, PlacedAt, CacheSteps DEF AddToCache, At, Placed
  <2>2. Key(w) \in Keys BY <2>1 DEF Key, Keys, WorkT
  <2>3. Entry(Key(w), work[w].rev, work[w].client) \in EntryT BY <2>1, <2>2 DEF Entry, EntryT, WorkT
  <2> QED BY <1>5, <2>1, <2>3 DEF AddToCache
<1>6. CASE Make(w) BY <1>6, MakeStep
<1>7. CASE Login(w) BY <1>7, LoginStep
<1>8. CASE Revoke(w) BY <1>8, RevokeStep
<1>9. CASE ClearToken(w) BY <1>9, ClearStep
<1>10. CASE AssumeRole(w) BY <1>10, RoleStep
<1>11. CASE GetOrCreateIamToken(w) BY <1>11, IamStep
<1> QED BY <1>1, <1>2, <1>3, <1>4, <1>5, <1>6, <1>7, <1>8, <1>9, <1>10, <1>11, WorkerSteps

LEMMA EntriesKept ==
    ASSUME Inv1, OneEntry, Bounded, NEW w \in Workers, WorkerStep(w) PROVE OneEntry' /\ Bounded'
<1>1. cache \in Seq(EntryT) /\ Distinct(cache) BY PlacedAt DEF OneEntry, Distinct
<1>2. CacheSize \in Nat \ {0} BY SessionBounds DEF SessionBounds
<1>3. Len(cache) \in Nat /\ Len(cache) <= CacheSize BY <1>1 DEF Bounded
<1> SUFFICES Distinct(cache') /\ Len(cache') <= CacheSize BY DEF OneEntry, Bounded, Distinct
<1>4. CASE cache' = cache BY <1>1, <1>3, <1>4
<1>5. CASE cache' = Touch(cache, Key(w)) BY <1>1, <1>3, <1>5, TouchedRest
<1>6. CASE cache' = Purge(cache, Key(w))
  <2>1. Distinct(Purge(cache, Key(w))) BY <1>1, PurgedRest
  <2>2. Len(Purge(cache, Key(w))) <= Len(cache) /\ Purge(cache, Key(w)) \in Seq(EntryT)
    BY <1>1, PurgedEntries
  <2> QED BY <1>2, <1>3, <1>6, <2>1, <2>2
<1>7. CASE /\ cache' = Add(cache, CacheSize, work[w].rev, Key(w), work[w].client)
           /\ Entry(Key(w), work[w].rev, work[w].client) \in EntryT
  <2>1. Distinct(Add(cache, CacheSize, work[w].rev, Key(w), work[w].client))
    BY <1>1, <1>2, <1>7, AddedRest
  <2>2. Len(Add(cache, CacheSize, work[w].rev, Key(w), work[w].client)) \in 1..CacheSize
    BY <1>1, <1>2, <1>7, AddedEntries
  <2> QED BY <1>2, <1>7, <2>1, <2>2
<1> QED BY <1>4, <1>5, <1>6, <1>7, CacheAfter

LEMMA CachedStoresKept ==
    ASSUME Inv1, CachedStores, NEW w \in Workers, WorkerStep(w) PROVE CachedStores'
<1>0. mode' = mode /\ cacheOn' = cacheOn /\ auth' = auth /\ (\A v \in Workers : v # w => work'[v] = work[v])
  BY OthersStay DEF Same
<1> SUFFICES ASSUME mode = "vault", NEW v \in Workers,
                    work'[v].pc \in {"get", "remove", "contains", "add"}
             PROVE  UseCache(work'[v].store)
  BY <1>0 DEF CachedStores, UseCache
<1>1. Placed(mode, cacheOn, work[w]) BY PlacedAt
<1>2. CASE v # w BY <1>0, <1>2 DEF CachedStores
<1>3. ASSUME v = w, Done(w), work[w].pc \in Revoking PROVE FALSE
  <2>1. work[w].next \in {"make", "init", "idle"} BY <1>1, <1>3 DEF Placed
  <2> QED BY <1>3, <2>1, DoneStep
<1>4. CASE v = w /\ Quiet(w)
  <2>1. Idle.pc = "idle" BY DEF Idle
  <2>2. ~(work[w].pc = "check" /\ Done(w)) BY <1>3, <1>4 DEF Revoking
  <2>3. work[w].pc = "contains" /\ Goes(w) BY <1>4, <2>1, <2>2, VaultQuiet
  <2> QED BY <1>4, <2>3 DEF CachedStores, Goes
<1>5. CASE v = w /\ Start(w) BY <1>5, StartStep DEF FirstStep
<1>6. CASE v = w /\ (Get(w) \/ Remove(w) \/ AddToCache(w))
  <2>1. work[w].pc = "get" /\ work'[w].store = work[w].store BY <1>6, VaultCache DEF Goes
  <2> QED BY <1>6, <2>1 DEF CachedStores
<1>7. CASE v = w /\ Make(w) BY <1>7, MakeStep
<1>8. CASE v = w /\ Login(w) BY <1>8, LoginStep
<1>9. CASE v = w /\ Revoke(w)
  <2>1. Done(w) \/ Goto(w, "clear") BY <1>9, RevokeStep
  <2>2. work[w].pc \in Revoking BY <1>9, RevokeStep DEF Revoking
  <2>3. Goto(w, "clear") => work'[w].pc = "clear" BY MovedTo DEF PCs
  <2> QED BY <1>3, <1>9, <2>1, <2>2, <2>3
<1>10. CASE v = w /\ ClearToken(w) BY <1>3, <1>10, ClearStep DEF Revoking
<1>11. CASE AssumeRole(w) BY <1>11, RoleStep
<1>12. CASE GetOrCreateIamToken(w) BY <1>12, IamStep
<1> QED BY <1>2, <1>4, <1>5, <1>6, <1>7, <1>8, <1>9, <1>10, <1>11, <1>12, WorkerSteps

(* An entry of the cache was there before, or is the one added.            *)
LEMMA EntryFrom ==
    ASSUME Inv1, NEW w \in Workers, WorkerStep(w), NEW n \in 1..Len(cache')
    PROVE  \/ \E i \in 1..Len(cache) : cache'[n] = cache[i]
           \/ work[w].pc = "add" /\ cache'[n].client = work[w].client
<1>1. cache \in Seq(EntryT) BY PlacedAt
<1>2. CASE cache' = cache BY <1>2
<1>3. CASE cache' = Touch(cache, Key(w)) BY <1>1, <1>3, TouchedEntries
<1>4. CASE cache' = Purge(cache, Key(w)) BY <1>1, <1>4, PurgedEntries
<1>5. CASE /\ cache' = Add(cache, CacheSize, work[w].rev, Key(w), work[w].client) /\ work[w].pc = "add"
           /\ Entry(Key(w), work[w].rev, work[w].client) \in EntryT
  <2>1. CacheSize \in Nat \ {0} BY SessionBounds DEF SessionBounds
  <2>2. /\ Len(cache') \in Nat
        /\ cache'[1] = Entry(Key(w), work[w].rev, work[w].client)
        /\ \A q \in 2..Len(cache') : /\ q - 1 \in 1..Len(Purge(cache, Key(w)))
                                     /\ cache'[q] = Purge(cache, Key(w))[q - 1]
    <3> DEFINE k == Key(w)  r == work[w].rev  x == work[w].client
    <3>0. cache' = Add(cache, CacheSize, r, k, x) BY <1>5
    <3>1. Entry(k, r, x) \in EntryT BY <1>5
    <3> HIDE DEF k, r, x
    <3>2. Add(cache, CacheSize, r, k, x) \in Seq(EntryT) BY <1>1, <2>1, <3>1, AddedEntries
    <3>3. Add(cache, CacheSize, r, k, x)[1] = Entry(k, r, x) BY <1>1, <2>1, <3>1, AddedEntries
    <3>4. \A q \in 2..Len(Add(cache, CacheSize, r, k, x)) :
             q - 1 \in 1..Len(Purge(cache, k)) /\ Add(cache, CacheSize, r, k, x)[q] = Purge(cache, k)[q - 1]
      BY <1>1, <2>1, <3>1, AddedEntries
    <3> QED BY <3>0, <3>2, <3>3, <3>4 DEF k, r, x
  <2>3. CASE n = 1 BY <1>5, <2>2, <2>3 DEF Entry
  <2>4. CASE n # 1
    <3>1. n \in 2..Len(cache') BY <2>2, <2>4
    <3> QED BY <1>1, <2>2, <3>1, PurgedEntries
  <2> QED BY <2>3, <2>4
<1> QED BY <1>2, <1>3, <1>4, <1>5, CacheAfter

(* The client a reconcile has is of its store.                             *)
LEMMA OwnStore ==
    ASSUME Inv1, NEW w \in Workers, work[w].client # 0
    PROVE  work[w].client \in 1..Len(clients) /\ clients[work[w].client].owner.store = work[w].store
<1>1. Owned(mode, cacheOn, clients, tokens, work[w]) BY PlacedAt
<1>2. Len(clients) \in Nat BY PlacedAt
<1> QED BY <1>1, <1>2 DEF Owned, Matches, OwnerOf

LEMMA NoUserTokenKept ==
    ASSUME Inv1, CachedStores, NoUserToken, Bounded, NEW w \in Workers, WorkerStep(w) PROVE NoUserToken'
<1>0. /\ mode' = mode /\ cacheOn' = cacheOn /\ auth' = auth
      /\ \A v \in Workers : v # w => work'[v] = work[v]
  BY OthersStay DEF Same
<1>1. /\ clients \in Seq(ClientT) /\ cache \in Seq(EntryT)
      /\ Placed(mode, cacheOn, work[w]) /\ Owned(mode, cacheOn, clients, tokens, work[w])
  BY PlacedAt
<1>2. \A c \in 1..Len(clients) : clients'[c].owner = clients[c].owner BY OwnersStay
<1>3. \A i \in 1..Len(cache) : cache[i].client \in 1..Len(clients) BY DEF Inv1, CacheFits, EntryFits
<1>4. ASSUME mode = "vault", NEW n \in 1..Len(cache')
      PROVE  auth[clients'[cache'[n].client].owner.store] # "static"
  <2>1. CASE \E i \in 1..Len(cache) : cache'[n] = cache[i]
    <3>1. PICK i \in 1..Len(cache) : cache'[n] = cache[i] BY <2>1
    <3>2. auth[clients[cache[i].client].owner.store] # "static" BY <1>4 DEF NoUserToken
    <3> QED BY <1>2, <1>3, <3>1, <3>2
  <2>2. CASE work[w].pc = "add" /\ cache'[n].client = work[w].client
    <3>1. work[w].client # 0 BY <1>1, <2>2 DEF Placed
    <3>2. UseCache(work[w].store) BY <1>4, <2>2 DEF CachedStores
    <3>3. auth[work[w].store] # "static" BY <1>4, <3>2 DEF UseCache
    <3> QED BY <1>2, <2>2, <3>1, <3>3, OwnStore
  <2> QED BY <2>1, <2>2, EntryFrom
<1> DEFINE Spared(c) == c \in 1..Len(clients) /\ auth[clients[c].owner.store] # "static"
<1>5. ASSUME NEW v \in Workers, work[v].pc \in Revoking PROVE Spared(work[v].victim)
  <2>1. Placed(mode, cacheOn, work[v]) /\ Owned(mode, cacheOn, clients, tokens, work[v]) BY PlacedAt
  <2>2. work[v].victim # 0 /\ work[v].victim \in 0..Len(clients) BY <1>5, <2>1 DEF Placed, Owned
  <2> QED BY <1>1, <1>5, <2>2 DEF NoUserToken
<1>6. ASSUME NEW v \in Workers, work'[v].pc \in Revoking PROVE Spared(work'[v].victim)
  <2>0. CASE v # w BY <1>0, <1>5, <1>6, <2>0
  <2>1. ASSUME v = w, Done(w), work[w].pc \in Revoking PROVE FALSE
    <3>1. work[w].next \in {"make", "init", "idle"} BY <1>1, <2>1 DEF Placed
    <3> QED BY <1>6, <2>1, <3>1, DoneStep DEF Revoking
  <2>2. CASE v = w /\ Quiet(w) /\ mode = "vault"
    <3>1. Idle.pc = "idle" BY DEF Idle
    <3>2. ~(work[w].pc = "check" /\ Done(w)) BY <2>1, <2>2 DEF Revoking
    <3>3. \/ work[w].pc = "check" /\ work'[w].victim = work[w].victim
          \/ work[w].pc \in {"close", "use"} /\ ClosesToken(w) /\ work'[w].victim = work[w].client
      BY <1>6, <2>2, <3>1, <3>2, VaultQuiet DEF Revoking
    <3>4. CASE work[w].pc = "check" /\ work'[w].victim = work[w].victim
      BY <1>5, <2>2, <3>4 DEF Revoking
    <3>5. CASE work[w].pc \in {"close", "use"} /\ ClosesToken(w) /\ work'[w].victim = work[w].client
      <4>1. work[w].client # 0 BY <1>1, <2>2, <3>5 DEF Placed
      <4> QED BY <2>2, <3>5, <4>1, OwnStore DEF ClosesToken
    <3> QED BY <3>3, <3>4, <3>5
  <2>3. CASE v = w /\ (Get(w) \/ Remove(w) \/ AddToCache(w)) /\ mode = "vault"
    <3>1. \/ Contains(cache, Key(w)) /\ work'[w].victim = EntryOf(cache, Key(w)).client
          \/ Evicts(cache, CacheSize, Key(w)) /\ work'[w].victim = Oldest(cache).client
      BY <1>6, <2>3, VaultCache DEF Revoking
    <3>2. \E i \in 1..Len(cache) : work'[w].victim = cache[i].client
      <4>1. CASE Contains(cache, Key(w)) /\ work'[w].victim = EntryOf(cache, Key(w)).client
        <5>1. IndexOf(cache, Key(w)) \in 1..Len(cache) BY <1>1, <4>1, IndexInCache
        <5> QED BY <4>1, <5>1 DEF EntryOf
      <4>2. CASE Evicts(cache, CacheSize, Key(w)) /\ work'[w].victim = Oldest(cache).client
        <5>1. CacheSize \in Nat \ {0} BY SessionBounds DEF SessionBounds
        <5>2. Len(cache) \in 1..Len(cache) BY <4>2, <5>1 DEF Evicts
        <5> QED BY <4>2, <5>2 DEF Oldest
      <4> QED BY <3>1, <4>1, <4>2
    <3> QED BY <1>3, <2>3, <3>2 DEF NoUserToken
  <2>4. CASE v = w /\ Start(w)
    <3>1. work'[w].pc \in {"get", "make", "creds"} BY <2>4, StartStep DEF FirstStep
    <3> QED BY <1>6, <2>4, <3>1 DEF Revoking
  <2>5. CASE v = w /\ Make(w)
    <3>1. work'[w].pc \in {"init", "contains", "add"} BY <2>5, MakeStep
    <3> QED BY <1>6, <2>5, <3>1 DEF Revoking
  <2>6. CASE v = w /\ Login(w)
    <3>1. work'[w].pc = "use" BY <2>6, LoginStep
    <3> QED BY <1>6, <2>6, <3>1 DEF Revoking
  <2>7. CASE v = w /\ Revoke(w)
    <3>1. (Done(w) \/ Goto(w, "clear")) /\ work[w].pc \in Revoking BY <2>7, RevokeStep DEF Revoking
    <3>2. Goto(w, "clear") BY <2>1, <2>7, <3>1
    <3>3. work'[w].victim = work[w].victim BY <3>2, MovedTo DEF PCs
    <3> QED BY <1>5, <2>7, <3>1, <3>3
  <2>8. CASE v = w /\ ClearToken(w) BY <2>1, <2>8, ClearStep DEF Revoking
  <2>9. CASE v = w /\ mode # "vault"
    <3>1. Inv1' BY NextLayer1 DEF Next, WorkerStep
    <3>2. Placed(mode', cacheOn', work'[w]) BY <3>1 DEF Inv1, WorkFits, Fit
    <3> QED BY <1>0, <1>6, <2>9, <3>2 DEF Placed
  <2>10. CASE AssumeRole(w) BY <2>10, <2>9, <2>0, RoleStep
  <2>11. CASE GetOrCreateIamToken(w) BY <2>11, <2>9, <2>0, IamStep
  <2> QED BY <2>0, <2>2, <2>3, <2>4, <2>5, <2>6, <2>7, <2>8, <2>9, <2>10, <2>11, WorkerSteps
<1>7. ASSUME NEW v \in Workers, work'[v].pc \in Revoking
      PROVE  auth[clients'[work'[v].victim].owner.store] # "static"
  BY <1>2, <1>6, <1>7
<1> QED BY <1>0, <1>4, <1>7 DEF NoUserToken

LEMMA UserTokensKeptWorker ==
    ASSUME Inv1, NoUserToken, UserTokensKept, NEW w \in Workers, WorkerStep(w) PROVE UserTokensKept'
<1>0. auth' = auth BY OthersStay DEF Same
<1>1. tokens \in Seq(TokenT) /\ Len(tokens) \in Nat BY PlacedAt
<1> SUFFICES ASSUME NEW t \in 1..Len(tokens'), tokens'[t].state = "revoked",
                    auth[tokens'[t].owner.store] = "static"
             PROVE  FALSE
  BY <1>0 DEF UserTokensKept, Static
<1>2. ASSUME t \in 1..Len(tokens), tokens[t].state = "revoked", tokens'[t].owner = tokens[t].owner
      PROVE  FALSE
  BY <1>2 DEF UserTokensKept, Static
<1>3. CASE tokens' = tokens BY <1>2, <1>3
<1>4. CASE Login(w)
  <2>1. /\ Len(tokens') = Len(tokens) + 1 /\ \A u \in 1..Len(tokens) : tokens'[u] = tokens[u]
        /\ tokens'[Len(tokens) + 1].state = "live"
    BY <1>4, LoginStep
  <2>2. t \in 1..Len(tokens) BY <1>1, <2>1
  <2> QED BY <1>2, <2>1, <2>2
<1>5. CASE Revoke(w)
  <2>1. /\ Len(tokens') = Len(tokens) /\ work[w].victim \in 1..Len(clients) /\ work[w].pc \in Revoking
        /\ \/ tokens' = tokens
           \/ /\ TokenOf(work[w].victim) \in 1..Len(tokens)
              /\ \A u \in 1..Len(tokens) :
                    /\ tokens'[u].owner = tokens[u].owner
                    /\ tokens'[u].state = IF u = TokenOf(work[w].victim) THEN "revoked" ELSE tokens[u].state
    BY <1>5, RevokeStep DEF Revoking
  <2>2. CASE t = TokenOf(work[w].victim) /\ tokens' # tokens
    <3>1. auth[clients[work[w].victim].owner.store] # "static" BY <2>1 DEF NoUserToken
    <3>2. TokenFits(cacheOn, tokens, clients[work[w].victim]) BY <2>1 DEF Inv1, TokensFit
    <3>3. t # 0 /\ tokens'[t].owner = tokens[t].owner BY <1>1, <2>1, <2>2
    <3>4. tokens[t].owner.store = clients[work[w].victim].owner.store
      BY <2>2, <3>2, <3>3 DEF TokenFits, TokenOf
    <3> QED BY <3>1, <3>3, <3>4
  <2>3. CASE t # TokenOf(work[w].victim) BY <1>2, <1>3, <2>1, <2>3
  <2> QED BY <1>3, <2>2, <2>3
<1>6. CASE GetOrCreateIamToken(w)
  <2>1. CASE tokens' = tokens BY <1>3, <2>1
  <2> DEFINE k == Dropped(tokens, Kept(w))
  <2>2. CASE tokens' = Append(k, Token(Owner(w), "live"))
    <3>1. k \in Seq(TokenT) /\ Len(k) = Len(tokens) BY <1>1, DroppedTokens
    <3>2. \A u \in 1..Len(tokens) : k[u].owner = tokens[u].owner /\ k[u].state \in {"dropped", tokens[u].state}
      BY <1>1, DroppedTokens
    <3> HIDE DEF k
    <3>3. Token(Owner(w), "live").state = "live" BY DEF Token
    <3> DEFINE x == Token(Owner(w), "live")
    <3> HIDE DEF x
    <3>4. /\ Len(tokens') = Len(tokens) + 1 /\ \A u \in 1..Len(tokens) : tokens'[u] = k[u]
          /\ tokens'[Len(tokens) + 1] = x
      BY <1>1, <2>2, <3>1 DEF x
    <3>5. t \in 1..Len(tokens) BY <1>1, <3>3, <3>4 DEF x
    <3> QED BY <1>2, <3>2, <3>4, <3>5
  <2>3. tokens' = tokens \/ tokens' = Append(k, Token(Owner(w), "live"))
    BY <1>6 DEF GetOrCreateIamToken, Dropped
  <2> QED BY <2>1, <2>2, <2>3
<1>7. CASE Quiet(w) BY <1>3, <1>7, QuietSteps DEF Quiet
<1>8. CASE Start(w) BY <1>3, <1>8, StartStep
<1>9. CASE Get(w) \/ Remove(w) \/ AddToCache(w) BY <1>3, <1>9, CacheSteps
<1>10. CASE Make(w) BY <1>3, <1>10, MakeStep
<1>11. CASE ClearToken(w) BY <1>3, <1>11, ClearStep
<1>12. CASE AssumeRole(w) BY <1>3, <1>12, RoleStep
<1> QED BY <1>4, <1>5, <1>6, <1>7, <1>8, <1>9, <1>10, <1>11, <1>12, WorkerSteps

(* The client of a reconcile stays in the cache, once it is there, and     *)
(* nobody else fills its place before.                                     *)
LEMMA ClientCachedKept ==
    ASSUME Inv1, OneAtATime, OneEntry, CachedStores, ClientCached, NEW w \in Workers, WorkerStep(w)
    PROVE  ClientCached'
<1>0. /\ mode' = mode /\ cacheOn' = cacheOn /\ auth' = auth
      /\ \A v \in Workers : v # w => work'[v] = work[v]
  BY OthersStay DEF Same
<1> DEFINE G == /\ Settled(work'[w]) => \E i \in 1..Len(cache') : cache'[i].client = work'[w].client
                /\ Missing(work'[w]) => ~Contains(cache', <<work'[w].store>>)
<1> SUFFICES ASSUME Calm', cacheOn, work'[w].store \in Stores, UseCache(work'[w].store) PROVE G
  <2>1. ASSUME Calm', cacheOn, NEW v \in Workers, v # w PROVE ~Settled(work'[v]) /\ ~Missing(work'[v])
    <3>1. work'[v].pc = "idle" BY <2>1, OthersIdle
    <3> QED BY <3>1 DEF Settled, Missing, Revoking
  <2>2. Calm' => mode = "vault" BY <1>0 DEF Calm
  <2>3. mode = "vault" => Key(w)' = <<work'[w].store>> BY <1>0 DEF Key
  <2> QED BY <1>0, <2>1, <2>2, <2>3 DEF ClientCached, UseCache
<1>1. Calm /\ ~Fault /\ mode = "vault" BY CalmBefore DEF Calm
<1>2. Placed(mode, cacheOn, work[w]) /\ cache \in Seq(EntryT) /\ Distinct(cache)
  BY PlacedAt DEF OneEntry, Distinct
<1>3. ASSUME work[w].store = work'[w].store
      PROVE  /\ Settled(work[w]) => \E i \in 1..Len(cache) : cache[i].client = work[w].client
             /\ Missing(work[w]) => ~Contains(cache, <<work[w].store>>)
  BY <1>1, <1>3 DEF ClientCached, Key
<1>4. ASSUME cache' = cache, Settled(work'[w]) => Settled(work[w]) /\ Goes(w),
             Missing(work'[w]) => Missing(work[w]) /\ work'[w].store = work[w].store
      PROVE  G
  BY <1>3, <1>4 DEF Goes
<1>5. ASSUME Done(w), cache' = cache, work[w].pc \in Revoking PROVE G
  <2>1. work[w].next \in {"make", "init", "idle"} BY <1>2, <1>5 DEF Placed
  <2>2. work'[w].pc = work[w].next /\ (work[w].next # "idle" => Goes(w)) BY <1>5, DoneStep DEF Goes
  <2>3. Settled(work'[w]) => work[w].next = "init" BY <2>1, <2>2 DEF Settled, Revoking
  <2>4. Missing(work'[w]) => work[w].next = "make" BY <2>1, <2>2 DEF Missing, Revoking
  <2>5. /\ work[w].next = "init" => Settled(work[w])
        /\ work[w].next = "make" => Missing(work[w])
    BY <1>5 DEF Settled, Missing
  <2> QED BY <1>4, <1>5, <2>2, <2>3, <2>4, <2>5 DEF Goes
<1>6. CASE Quiet(w)
  <2>0. cache' = cache BY <1>6, QuietSteps DEF Quiet
  <2>1. CASE work'[w] = Idle
    <3>0. Idle.pc = "idle" BY DEF Idle
    <3>1. work'[w].pc = "idle" BY <2>1, <3>0
    <3> QED BY <3>1 DEF Settled, Missing, Revoking
  <2>2. CASE work[w].pc = "contains" /\ Goes(w) /\ work'[w].pc = IF Contains(cache, Key(w)) THEN "init" ELSE "add"
    <3>1. Missing(work[w]) BY <2>2 DEF Missing
    <3>2. ~Contains(cache, <<work[w].store>>) /\ Key(w) = <<work[w].store>>
      BY <1>1, <1>3, <2>2, <3>1 DEF Goes, Key
    <3>3. work'[w].pc = "add" BY <2>2, <3>2
    <3>4. ~Settled(work'[w]) BY <3>3 DEF Settled, Revoking
    <3> QED BY <1>4, <2>0, <2>2, <3>1, <3>4 DEF Goes
  <2>3. CASE /\ Goes(w) /\ work[w].pc \in {"init", "lookup"}
             /\ work'[w].pc \in {"close", "lookup", "login", "use"}
    <3>1. Settled(work[w]) /\ ~Missing(work'[w]) BY <2>3 DEF Settled, Missing, Revoking
    <3> QED BY <1>4, <2>0, <2>3, <3>1
  <2>4. CASE /\ work[w].pc = "check" /\ work'[w].pc = "revoke" /\ Goes(w) /\ work'[w].next = work[w].next
    <3>1. /\ Settled(work'[w]) => Settled(work[w])
          /\ Missing(work'[w]) => Missing(work[w])
      BY <2>4 DEF Settled, Missing, Revoking
    <3> QED BY <1>4, <2>0, <2>4, <3>1 DEF Goes
  <2>5. CASE ClosesToken(w) BY <2>5 DEF ClosesToken
  <2>6. CASE work[w].pc = "check" /\ Done(w) BY <1>5, <2>0, <2>6 DEF Revoking
  <2> QED BY <1>1, <1>6, <2>1, <2>2, <2>3, <2>4, <2>5, <2>6, VaultQuiet
<1>7. CASE Start(w)
  <2>1. work'[w].pc = "get" BY <1>1, <1>7, StartStep DEF FirstStep
  <2> QED BY <2>1 DEF Settled, Missing, Revoking
<1>8. CASE Get(w) \/ Remove(w) \/ AddToCache(w)
  <2> DEFINE k == Key(w)
  <2>0. k = <<work[w].store>> BY <1>1 DEF Key
  <2> HIDE DEF k
  <2>1. CASE /\ work[w].pc = "get" /\ cache' = Touch(cache, k)
             /\ Contains(cache, k) /\ work'[w].pc = "init"
             /\ work'[w].client = EntryOf(cache, k).client
    <3>1. IndexOf(cache, k) \in 1..Len(cache) BY <1>2, <2>1, IndexInCache
    <3>2. /\ Len(Touch(cache, k)) = Len(cache)
          /\ \A i \in 1..Len(cache) : \E n \in 1..Len(cache) : Touch(cache, k)[n] = cache[i]
      BY <1>2, TouchedRest
    <3>3. PICK n \in 1..Len(cache) : Touch(cache, k)[n] = cache[IndexOf(cache, k)] BY <3>1, <3>2
    <3>4. cache'[n].client = work'[w].client /\ n \in 1..Len(cache') BY <2>1, <3>2, <3>3 DEF EntryOf
    <3>5. ~Missing(work'[w]) BY <2>1 DEF Missing, Revoking
    <3> QED BY <3>4, <3>5
  <2>2. CASE work[w].pc = "get" /\ work'[w].pc = "remove" BY <2>2 DEF Settled, Missing, Revoking
  <2>3. CASE /\ work[w].pc = "get" /\ cache' = Touch(cache, k) /\ Goes(w)
             /\ ~Contains(cache, k) /\ work'[w].pc = "make"
    <3>1. cache' = cache BY <1>2, <2>3, TouchedRest
    <3>2. ~Settled(work'[w]) BY <2>3 DEF Settled, Revoking
    <3> QED BY <2>0, <2>3, <3>1, <3>2 DEF Goes
  <2>4. CASE /\ work[w].pc = "remove" /\ cache' = Purge(cache, k) /\ Goes(w)
             /\ \/ work'[w].pc = "make"
                \/ work'[w].pc = "check" /\ work'[w].next = "make"
    <3>1. \A n \in 1..Len(Purge(cache, k)) : Purge(cache, k)[n].key # k BY <1>2, PurgedRest
    <3>2. Purge(cache, k) \in Seq(EntryT) BY <1>2, PurgedEntries
    <3>3. ~Contains(cache', k) BY <2>4, <3>1, <3>2 DEF Contains
    <3>4. ~Settled(work'[w]) BY <2>4 DEF Settled, Revoking
    <3> QED BY <2>0, <2>4, <3>3, <3>4 DEF Goes
  <2>5. CASE /\ work[w].pc = "add" /\ Goes(w) /\ AddToCache(w)
             /\ \/ work'[w].pc = "init"
                \/ work'[w].pc = "check" /\ work'[w].next = "init"
    <3>1. /\ cache' = Add(cache, CacheSize, work[w].rev, k, work[w].client)
          /\ Entry(k, work[w].rev, work[w].client) \in EntryT
      <4>1. work[w] \in WorkT /\ work[w].store \in Stores BY <1>2, <2>5, PlacedAt DEF Placed
      <4>2. k \in Keys BY <2>0, <4>1 DEF Keys
      <4> QED BY <2>5, <4>1, <4>2 DEF AddToCache, Entry, EntryT, WorkT, k
    <3>2. CacheSize \in Nat \ {0} BY SessionBounds DEF SessionBounds
    <3> DEFINE r == work[w].rev  x == work[w].client
    <3>3. Entry(k, r, x) \in EntryT BY <3>1
    <3>4. cache' = Add(cache, CacheSize, r, k, x) /\ x = work'[w].client BY <2>5, <3>1 DEF Goes
    <3> HIDE DEF r, x
    <3>5. Add(cache, CacheSize, r, k, x)[1] = Entry(k, r, x) BY <1>2, <3>2, <3>3, AddedEntries
    <3>6. Len(Add(cache, CacheSize, r, k, x)) \in 1..CacheSize BY <1>2, <3>2, <3>3, AddedEntries
    <3>7. 1 \in 1..Len(cache') /\ cache'[1].client = work'[w].client
      BY <3>2, <3>4, <3>5, <3>6 DEF Entry
    <3>8. ~Missing(work'[w]) BY <2>5 DEF Missing, Revoking
    <3> QED BY <3>7, <3>8
  <2>6. ASSUME work[w].pc = "add" PROVE AddToCache(w) BY <1>8, <2>6 DEF Get, Remove, At
  <2> QED BY <1>1, <1>8, <2>1, <2>2, <2>3, <2>4, <2>5, <2>6, VaultCache DEF k
<1>9. CASE Make(w)
  <2>1. cache' = cache /\ work[w].pc = "make" /\ work'[w].store = work[w].store /\ work'[w].pc = "contains"
    BY <1>1, <1>9, MakeStep
  <2>2. Missing(work[w]) /\ ~Settled(work'[w]) BY <2>1 DEF Missing, Settled, Revoking
  <2> QED BY <1>4, <2>1, <2>2
<1>10. CASE Login(w)
  <2>1. cache' = cache /\ work[w].pc = "login" /\ work'[w].pc = "use" /\ work'[w].client = work[w].client
        /\ work'[w].store = work[w].store
    BY <1>10, LoginStep
  <2>2. Settled(work[w]) /\ ~Missing(work'[w]) BY <2>1 DEF Missing, Settled, Revoking
  <2> QED BY <1>3, <2>1, <2>2
<1>11. CASE Revoke(w)
  <2>1. cache' = cache /\ work[w].pc \in Revoking /\ (Done(w) \/ Goto(w, "clear"))
    BY <1>11, RevokeStep DEF Revoking
  <2>2. CASE Goto(w, "clear")
    <3>1. work'[w].pc = "clear" /\ Goes(w) /\ work'[w].next = work[w].next BY <2>2, MovedTo DEF PCs, Goes
    <3>2. /\ Settled(work'[w]) => Settled(work[w])
          /\ Missing(work'[w]) => Missing(work[w])
      BY <2>1, <3>1 DEF Settled, Missing, Revoking
    <3> QED BY <1>4, <2>1, <3>1, <3>2 DEF Goes
  <2> QED BY <1>5, <2>1, <2>2
<1>12. CASE ClearToken(w) BY <1>5, <1>12, ClearStep DEF Revoking
<1>13. CASE AssumeRole(w) BY <1>1, <1>13, RoleStep
<1>14. CASE GetOrCreateIamToken(w) BY <1>1, <1>14, IamStep
<1> QED BY <1>6, <1>7, <1>8, <1>9, <1>10, <1>11, <1>12, <1>13, <1>14, WorkerSteps

(* Tokens keep their owners, and one that is over stays so.                *)
LEMMA VaultTokens ==
    ASSUME Inv1, NEW w \in Workers, WorkerStep(w), mode = "vault", NEW t \in 1..Len(tokens)
    PROVE  /\ t \in 1..Len(tokens') /\ tokens'[t].owner = tokens[t].owner
           /\ tokens'[t].state = "live" => tokens[t].state = "live"
<1>0. Len(tokens) \in Nat BY PlacedAt
<1>1. CASE tokens' = tokens BY <1>1
<1>2. CASE Login(w)
  <2>1. Len(tokens') = Len(tokens) + 1 /\ tokens'[t] = tokens[t] BY <1>2, LoginStep
  <2> QED BY <1>0, <2>1
<1>3. CASE Revoke(w)
  <2>1. /\ Len(tokens') = Len(tokens)
        /\ \/ tokens' = tokens
           \/ /\ tokens'[t].owner = tokens[t].owner
              /\ tokens'[t].state = IF t = TokenOf(work[w].victim) THEN "revoked" ELSE tokens[t].state
    BY <1>3, RevokeStep
  <2> QED BY <1>0, <2>1
<1>4. CASE Quiet(w) BY <1>1, <1>4, QuietSteps DEF Quiet
<1>5. CASE Start(w) BY <1>1, <1>5, StartStep
<1>6. CASE Get(w) \/ Remove(w) \/ AddToCache(w) BY <1>1, <1>6, CacheSteps
<1>7. CASE Make(w) BY <1>1, <1>7, MakeStep
<1>8. CASE ClearToken(w) BY <1>1, <1>8, ClearStep
<1>9. CASE AssumeRole(w) BY <1>9, RoleStep
<1>10. CASE GetOrCreateIamToken(w) BY <1>10, IamStep
<1> QED BY <1>2, <1>3, <1>4, <1>5, <1>6, <1>7, <1>8, <1>9, <1>10, WorkerSteps

(* Nobody changes the token of another one's client.                       *)
LEMMA OthersTokens ==
    ASSUME Inv1, OneAtATime, OwnClients, NEW w \in Workers, WorkerStep(w), Calm',
           NEW v \in Workers, v # w, work[v].pc # "idle", work[v].client # 0
    PROVE  /\ ~cacheOn /\ work[v].client \in 1..Len(clients) /\ TokenOf(work[v].client) \in 0..Len(tokens)
           /\ clients'[work[v].client].token = TokenOf(work[v].client)
<1>1. mode = "vault" /\ cacheOn \in BOOLEAN BY CalmBefore DEF Calm, Inv1, Types
<1>2. ~cacheOn BY <1>1, OthersIdle
<1>3. work[v].client \in 1..Len(clients) BY OwnStore
<1>4. TokenOf(work[v].client) \in 0..Len(tokens) BY <1>3 DEF Inv1, TokensFit, TokenFits, TokenOf
<1>5. work[v].client # work[w].client BY <1>2 DEF OwnClients
<1>6. Placed(mode, cacheOn, work[w]) BY PlacedAt
<1>7. ASSUME \A c \in 1..Len(clients) : clients'[c] = clients[c]
      PROVE  clients'[work[v].client].token = TokenOf(work[v].client)
  BY <1>3, <1>7 DEF TokenOf
<1>8. clients'[work[v].client].token = TokenOf(work[v].client)
  <2>1. CASE Quiet(w) BY <1>7, <2>1, QuietSteps DEF Quiet
  <2>2. CASE Start(w) BY <1>7, <2>2, StartStep
  <2>3. CASE Get(w) \/ Remove(w) \/ AddToCache(w) BY <1>7, <2>3, CacheSteps
  <2>4. CASE Make(w) BY <1>7, <2>4, MakeStep
  <2>5. CASE Login(w)
    <3>1. \A d \in 1..Len(clients) :
             clients'[d].token = IF d = work[w].client THEN Len(tokens) + 1 ELSE clients[d].token
      BY <2>5, LoginStep
    <3> QED BY <1>3, <1>5, <3>1 DEF TokenOf
  <2>6. CASE Revoke(w) BY <1>7, <2>6, RevokeStep
  <2>7. CASE ClearToken(w)
    <3>1. \A d \in 1..Len(clients) : clients'[d].token = IF d = work[w].victim THEN 0 ELSE clients[d].token
      BY <2>7, ClearStep
    <3>2. work[w].pc \in Revoking BY <2>7, ClearStep DEF Revoking
    <3>3. work[w].victim = work[w].client BY <1>2, <1>6, <3>2 DEF Placed
    <3> QED BY <1>3, <1>5, <3>1, <3>3 DEF TokenOf
  <2>8. CASE AssumeRole(w) BY <1>1, <2>8, RoleStep
  <2>9. CASE GetOrCreateIamToken(w) BY <1>1, <2>9, IamStep
  <2> QED BY <2>1, <2>2, <2>3, <2>4, <2>5, <2>6, <2>7, <2>8, <2>9, WorkerSteps
<1> QED BY <1>2, <1>3, <1>4, <1>8

LEMMA LoginDueKept ==
    ASSUME Inv1, OneAtATime, OwnClients, LoginDue, NEW w \in Workers, WorkerStep(w) PROVE LoginDue'
<1>0. auth' = auth /\ (\A v \in Workers : v # w => work'[v] = work[v]) BY OthersStay DEF Same
<1> SUFFICES ASSUME Calm', NEW v \in Workers, work'[v].pc = "login"
             PROVE  LET t == clients'[work'[v].client].token
                    IN  ~(t # 0 /\ tokens'[t].state = "live" /\ auth[tokens'[t].owner.store] \in {"login", "referent"})
  BY <1>0 DEF LoginDue, At, Revocable, Live, TokenOf
<1>1. Calm /\ ~Fault /\ mode = "vault" BY CalmBefore DEF Calm
<1>2. CASE v # w
  <2> DEFINE t == TokenOf(work[v].client)
  <2>1. work'[v] = work[v] /\ work[v].pc = "login" BY <1>0, <1>2
  <2>2. work[v].client # 0 BY <2>1, PlacedAt DEF Placed
  <2>3. clients'[work'[v].client].token = t /\ t \in 0..Len(tokens) BY <1>2, <2>1, <2>2, OthersTokens
  <2>4. ~Revocable(t) BY <1>1, <2>1 DEF LoginDue, At
  <2>5. Len(tokens) \in Nat BY PlacedAt
  <2> HIDE DEF t
  <2>6. CASE t # 0
    <3>1. t \in 1..Len(tokens) BY <2>3, <2>5, <2>6
    <3>2. tokens'[t].owner = tokens[t].owner /\ (tokens'[t].state = "live" => tokens[t].state = "live")
      BY <1>1, <3>1, VaultTokens
    <3> QED BY <2>3, <2>4, <2>6, <3>2 DEF Revocable, Live
  <2> QED BY <2>3, <2>6
<1>3. CASE v = w
  <2>1. ~Start(w) /\ ~Make(w) /\ ~Login(w)
    BY <1>1, <1>3, StartStep, MakeStep, LoginStep DEF FirstStep
  <2>2. ASSUME Done(w), work[w].pc \in Revoking PROVE FALSE
    <3>1. work[w].next \in {"make", "init", "idle"} BY <2>2, PlacedAt DEF Placed
    <3> QED BY <1>3, <2>2, <3>1, DoneStep
  <2>3. ~Revoke(w)
    <3> SUFFICES ASSUME Revoke(w) PROVE FALSE OBVIOUS
    <3>1. (Done(w) \/ Goto(w, "clear")) /\ work[w].pc \in Revoking BY RevokeStep DEF Revoking
    <3>2. Goto(w, "clear") => work'[w].pc = "clear" BY MovedTo DEF PCs
    <3> QED BY <1>3, <2>2, <3>1, <3>2
  <2>4. ~ClearToken(w) BY <2>2, ClearStep DEF Revoking
  <2>5. ~Get(w) /\ ~Remove(w) /\ ~AddToCache(w) BY <1>3, CacheSteps
  <2>6. ~AssumeRole(w) /\ ~GetOrCreateIamToken(w) BY <1>1, RoleStep, IamStep
  <2>7. Quiet(w) BY <2>1, <2>3, <2>4, <2>5, <2>6, WorkerSteps
  <2>8. clients' = clients /\ tokens' = tokens BY <2>7, QuietSteps DEF Quiet
  <2>9. Idle.pc = "idle" BY DEF Idle
  <2>10. ~(work[w].pc = "check" /\ Done(w)) BY <2>2 DEF Revoking
  <2>11. Goes(w) /\ (TokenOf(work[w].client) = 0 \/ ~checkToken(TokenOf(work[w].client)))
    BY <1>1, <1>3, <2>7, <2>9, <2>10, VaultQuiet
  <2>12. work'[v].client = work[w].client BY <1>3, <2>11 DEF Goes
  <2> QED BY <2>8, <2>11, <2>12 DEF checkToken, Live, Batch, TokenOf
<1> QED BY <1>2, <1>3

LEMMA ClearDueKept ==
    ASSUME Inv1, OneAtATime, OwnClients, ClearDue, NEW w \in Workers, WorkerStep(w) PROVE ClearDue'
<1>0. \A v \in Workers : v # w => work'[v] = work[v] BY OthersStay DEF Same
<1> SUFFICES ASSUME Calm', NEW v \in Workers, work'[v].pc = "clear"
             PROVE  LET t == clients'[work'[v].victim].token IN ~(t # 0 /\ tokens'[t].state = "live")
  BY DEF ClearDue, At, Live, TokenOf
<1>1. Calm /\ ~Fault /\ mode = "vault" BY CalmBefore DEF Calm
<1>2. CASE v # w
  <2> DEFINE t == TokenOf(work[v].client)
  <2>1. work'[v] = work[v] /\ work[v].pc = "clear" BY <1>0, <1>2
  <2>2. work[v].pc \in Revoking /\ work[v].pc # "idle" BY <2>1 DEF Revoking
  <2>3. ~cacheOn BY <1>2, <2>2, OthersIdle
  <2>4. work[v].victim = work[v].client /\ work[v].client # 0 BY <2>2, <2>3, PlacedAt DEF Placed
  <2>5. clients'[work'[v].victim].token = t /\ t \in 0..Len(tokens) BY <1>2, <2>1, <2>2, <2>4, OthersTokens
  <2>6. ~Live(t) BY <1>1, <2>1, <2>4 DEF ClearDue, At
  <2>7. Len(tokens) \in Nat BY PlacedAt
  <2> HIDE DEF t
  <2>8. CASE t # 0
    <3>1. t \in 1..Len(tokens) BY <2>5, <2>7, <2>8
    <3>2. tokens'[t].state = "live" => tokens[t].state = "live" BY <1>1, <3>1, VaultTokens
    <3> QED BY <2>5, <2>6, <2>8, <3>2 DEF Live
  <2> QED BY <2>5, <2>8
<1>3. CASE v = w
  <2>1. ~Start(w) /\ ~Make(w) /\ ~Login(w)
    BY <1>1, <1>3, StartStep, MakeStep, LoginStep DEF FirstStep
  <2>2. ASSUME Done(w), work[w].pc \in Revoking PROVE FALSE
    <3>1. work[w].next \in {"make", "init", "idle"} BY <2>2, PlacedAt DEF Placed
    <3> QED BY <1>3, <2>2, <3>1, DoneStep
  <2>3. ~Quiet(w)
    <3>1. Idle.pc = "idle" BY DEF Idle
    <3>2. ~(work[w].pc = "check" /\ Done(w)) BY <2>2 DEF Revoking
    <3> QED BY <1>1, <1>3, <3>1, <3>2, VaultQuiet
  <2>4. ~ClearToken(w) BY <2>2, ClearStep DEF Revoking
  <2>5. ~Get(w) /\ ~Remove(w) /\ ~AddToCache(w) BY <1>3, CacheSteps
  <2>6. ~AssumeRole(w) /\ ~GetOrCreateIamToken(w) BY <1>1, RoleStep, IamStep
  <2>7. Revoke(w) BY <2>1, <2>3, <2>4, <2>5, <2>6, WorkerSteps
  <2>8. /\ Goto(w, "clear") /\ clients' = clients /\ TokenOf(work[w].victim) \in 1..Len(tokens)
        /\ \A u \in 1..Len(tokens) :
              tokens'[u].state = IF u = TokenOf(work[w].victim) THEN "revoked" ELSE tokens[u].state
    <3>1. work[w].pc \in Revoking BY <2>7, RevokeStep DEF Revoking
    <3> QED BY <2>2, <2>7, <3>1, RevokeStep
  <2>9. work'[w].victim = work[w].victim BY <2>8, MovedTo DEF PCs
  <2> QED BY <1>3, <2>8, <2>9 DEF TokenOf
<1> QED BY <1>2, <1>3

(* A token that has to be revoked never gets out of sight: it is in the    *)
(* cache, or without a cache in the hands of a reconcile, or about to be   *)
(* revoked.                                                                *)
LEMMA AccountedKept ==
    ASSUME Inv1, Inv2, OneEntry, Bounded, CachedStores, ClientCached, LoginDue, ClearDue, Accounted,
           NEW w \in Workers, WorkerStep(w)
    PROVE  Accounted'
<1>0. /\ mode' = mode /\ cacheOn' = cacheOn /\ auth' = auth
      /\ \A v \in Workers : v # w => work'[v] = work[v]
  BY OthersStay DEF Same
<1> SUFFICES ASSUME Calm', NEW t \in 1..Len(tokens'), tokens'[t].state = "live",
                    auth[tokens'[t].owner.store] \in {"login", "referent"}
             PROVE  \/ \E v \in Workers : /\ work'[v].pc \in {"check", "revoke"}
                                          /\ clients'[work'[v].victim].token = t
                    \/ IF cacheOn THEN \E i \in 1..Len(cache') : clients'[cache'[i].client].token = t
                       ELSE \E v \in Workers : /\ work'[v].pc # "idle" /\ work'[v].client # 0
                                               /\ clients'[work'[v].client].token = t
  BY <1>0 DEF Accounted, Revocable, Live, TokenOf, At, BeingRevoked, InCache, InUse
<1> DEFINE Revoked == \E v \in Workers : /\ work'[v].pc \in {"check", "revoke"}
                                         /\ clients'[work'[v].victim].token = t
           Cached == \E i \in 1..Len(cache') : clients'[cache'[i].client].token = t
           Used == \E v \in Workers : /\ work'[v].pc # "idle" /\ work'[v].client # 0
                                      /\ clients'[work'[v].client].token = t
           Goal == Revoked \/ IF cacheOn THEN Cached ELSE Used
<1> USE DEF Inv2
<1>1. Calm /\ ~Fault /\ mode = "vault" BY CalmBefore DEF Calm
<1>2. /\ clients \in Seq(ClientT) /\ Len(clients) \in Nat /\ Len(tokens) \in Nat /\ cacheOn \in BOOLEAN
      /\ cache \in Seq(EntryT) /\ Distinct(cache) /\ Len(cache) \in Nat /\ Placed(mode, cacheOn, work[w])
  BY PlacedAt DEF Inv1, Types, OneEntry, Distinct
<1> DEFINE Old == t \in 1..Len(tokens)
           ByW == work[w].pc \in {"check", "revoke"} /\ TokenOf(work[w].victim) = t
           HadW == ~cacheOn /\ work[w].pc # "idle" /\ work[w].client # 0 /\ TokenOf(work[w].client) = t
<1>3. ASSUME Old PROVE Revocable(t) /\ t # 0
  <2>1. tokens'[t].owner = tokens[t].owner /\ (tokens'[t].state = "live" => tokens[t].state = "live")
    BY <1>1, <1>3, VaultTokens
  <2> QED BY <1>2, <1>3, <2>1 DEF Revocable, Live
<1>4. ASSUME Old, NEW v \in Workers, v # w, work[v].pc \in {"check", "revoke"}, TokenOf(work[v].victim) = t
      PROVE  Revoked
  <2>1. work[v].pc \in Revoking /\ work[v].pc # "idle" BY <1>4 DEF Revoking
  <2>2. ~cacheOn BY <1>4, <2>1, OthersIdle
  <2>3. work[v].victim = work[v].client /\ work[v].client # 0 BY <2>1, <2>2, PlacedAt DEF Placed
  <2>4. clients'[work[v].client].token = t BY <1>4, <2>1, <2>3, OthersTokens
  <2> QED BY <1>0, <1>4, <2>3, <2>4
<1>5. ASSUME Old, NEW v \in Workers, v # w, work[v].pc # "idle", work[v].client # 0,
             TokenOf(work[v].client) = t
      PROVE  Used
  <2>1. clients'[work[v].client].token = t BY <1>5, OthersTokens
  <2> QED BY <1>0, <1>5, <2>1
<1>6. ASSUME Old PROVE Goal \/ ByW \/ HadW \/ (cacheOn /\ InCache(t))
  <2>1. BeingRevoked(t) \/ (IF cacheOn THEN InCache(t) ELSE InUse(t))
    BY <1>1, <1>3, <1>6 DEF Accounted
  <2>2. CASE BeingRevoked(t) BY <1>4, <1>6, <2>2 DEF BeingRevoked
  <2>3. CASE ~cacheOn /\ InUse(t) BY <1>5, <1>6, <2>3 DEF InUse, At
  <2> QED BY <2>1, <2>2, <2>3
<1>7. ASSUME InCache(t), cache' = cache, \A c \in 1..Len(clients) : TokenOf(c) = t => clients'[c].token = t
      PROVE  Cached
  <2>1. PICK i \in 1..Len(cache) : TokenOf(cache[i].client) = t BY <1>7 DEF InCache
  <2>2. cache[i].client \in 1..Len(clients) BY DEF Inv1, CacheFits, EntryFits
  <2> QED BY <1>7, <2>1, <2>2
<1>8. ASSUME Old, Done(w), work[w].pc \in Revoking, cache' = cache, t # TokenOf(work[w].victim),
             \A c \in 1..Len(clients) : TokenOf(c) = t => clients'[c].token = t
      PROVE  Goal
  <2>1. ~ByW BY <1>8
  <2>2. ~HadW BY <1>2, <1>8 DEF Placed
  <2> QED BY <1>6, <1>7, <1>8, <2>1, <2>2
<1>9. CASE Quiet(w)
  <2>1. cache' = cache /\ clients' = clients /\ tokens' = tokens BY <1>9, QuietSteps DEF Quiet
  <2>2. Old /\ (\A c \in 1..Len(clients) : TokenOf(c) = t => clients'[c].token = t) BY <2>1 DEF TokenOf
  <2>3. cacheOn /\ InCache(t) => Goal BY <1>7, <2>1, <2>2
  <2>4. CASE work[w].pc \in {"close", "use"} /\ ~ClosesToken(w)
    <3>1. ~HadW
      <4> SUFFICES ASSUME HadW PROVE FALSE OBVIOUS
      <4>1. auth[work[w].store] = "static" BY <1>3, <2>2, <2>4 DEF ClosesToken
      <4>2. /\ work[w].client \in 1..Len(clients)
            /\ clients[work[w].client].owner.store = work[w].store
        BY OwnStore
      <4>3. tokens[t].owner.store = work[w].store
        BY <1>3, <2>2, <4>2 DEF Inv1, TokensFit, TokenFits, TokenOf
      <4> QED BY <1>3, <2>2, <4>1, <4>3 DEF Revocable
    <3> QED BY <1>6, <2>2, <2>3, <2>4, <3>1
  <2>5. CASE Goes(w) /\ work[w].pc # "check" /\ work'[w].pc # "idle" /\ work[w].pc # "revoke"
    <3>1. HadW => Used BY <2>1, <2>5 DEF Goes, TokenOf
    <3> QED BY <1>6, <2>2, <2>3, <2>5, <3>1
  <2>6. CASE /\ work[w].pc = "check" /\ work'[w].pc = "revoke" /\ Goes(w)
             /\ work'[w].victim = work[w].victim
    <3>1. HadW => Used BY <2>1, <2>6 DEF Goes, TokenOf
    <3>2. ByW => Revoked BY <2>1, <2>6 DEF TokenOf
    <3> QED BY <1>6, <2>2, <2>3, <3>1, <3>2
  <2>7. CASE work[w].pc = "check" /\ Done(w) /\ ~checkToken(TokenOf(work[w].victim))
    <3>1. t # TokenOf(work[w].victim) BY <1>3, <2>2, <2>7 DEF Revocable, checkToken, Batch
    <3> QED BY <1>8, <2>1, <2>2, <2>7, <3>1 DEF Revoking
  <2> QED BY <1>1, <1>9, <2>4, <2>5, <2>6, <2>7, VaultQuiet
<1>10. CASE Start(w)
  <2>1. cache' = cache /\ clients' = clients /\ tokens' = tokens /\ work[w].pc = "idle" BY <1>10, StartStep
  <2>2. Old /\ (\A c \in 1..Len(clients) : TokenOf(c) = t => clients'[c].token = t) BY <2>1 DEF TokenOf
  <2> QED BY <1>6, <1>7, <2>1, <2>2
<1>11. CASE Make(w)
  <2>1. /\ cache' = cache /\ tokens' = tokens /\ work[w].pc = "make"
        /\ \A c \in 1..Len(clients) : clients'[c] = clients[c]
    BY <1>11, MakeStep
  <2>2. Old /\ (\A c \in 1..Len(clients) : TokenOf(c) = t => clients'[c].token = t) BY <2>1 DEF TokenOf
  <2>3. work[w].client = 0 BY <1>2, <2>1 DEF Placed
  <2> QED BY <1>6, <1>7, <2>1, <2>2, <2>3
<1>12. CASE Get(w) \/ Remove(w) \/ AddToCache(w)
  <2> DEFINE k == Key(w)
  <2>1. /\ clients' = clients /\ tokens' = tokens /\ cacheOn /\ work[w].pc \in {"get", "remove", "add"}
    BY <1>12, CacheSteps
  <2>2. Old BY <2>1
  <2>3. CASE Goal BY <2>3
  <2>4. CASE InCache(t)
    <3>1. PICK i \in 1..Len(cache) : TokenOf(cache[i].client) = t BY <2>4 DEF InCache
    <3>2. ASSUME NEW n \in 1..Len(cache'), cache'[n] = cache[i] PROVE Goal BY <2>1, <3>1, <3>2 DEF TokenOf
    <3>3. ASSUME work'[w].pc = "check", work'[w].victim = cache[i].client PROVE Goal
      BY <2>1, <3>1, <3>3 DEF TokenOf
    <3> HIDE DEF k
    <3>4. CASE cache' = Touch(cache, k)
      <4>1. /\ Len(Touch(cache, k)) = Len(cache)
            /\ \A q \in 1..Len(cache) : \E n \in 1..Len(cache) : Touch(cache, k)[n] = cache[q]
        BY <1>2, TouchedRest
      <4> QED BY <3>2, <3>4, <4>1
    <3>5. CASE cache' = Purge(cache, k) /\ cache[i].key # k
      <4>1. \E n \in 1..Len(Purge(cache, k)) : Purge(cache, k)[n] = cache[i] BY <1>2, <3>5, PurgedRest
      <4> QED BY <3>2, <3>5, <4>1
    <3>6. CASE /\ cache[i].key = k
               /\ Contains(cache, k) => work'[w].pc = "check" /\ work'[w].victim = EntryOf(cache, k).client
      <4>1. Contains(cache, k) BY <1>2, <3>6 DEF Contains
      <4>2. IndexOf(cache, k) \in 1..Len(cache) /\ cache[IndexOf(cache, k)].key = k BY <1>2, <4>1, IndexInCache
      <4>3. IndexOf(cache, k) = i BY <1>2, <3>6, <4>2 DEF Distinct
      <4> QED BY <3>3, <3>6, <4>1, <4>3 DEF EntryOf
    <3>7. CASE /\ work[w].pc = "add" /\ cache' = Add(cache, CacheSize, work[w].rev, k, work[w].client)
               /\ \/ ~Evicts(cache, CacheSize, k)
                  \/ work'[w].pc = "check" /\ work'[w].victim = Oldest(cache).client
      <4>1. work[w] \in WorkT /\ work[w].store \in Stores BY <1>2, <3>7, PlacedAt DEF Placed
      <4>2. k = <<work[w].store>> BY <1>1 DEF Key, k
      <4>3. UseCache(work[w].store) BY <1>1, <3>7 DEF CachedStores
      <4>4. ~Contains(cache, k)
        <5>1. Missing(work[w]) BY <3>7 DEF Missing
        <5> QED BY <1>1, <2>1, <4>1, <4>3, <5>1 DEF ClientCached, k
      <4>5. k \in Keys BY <4>1, <4>2 DEF Keys
      <4>6. Entry(k, work[w].rev, work[w].client) \in EntryT BY <4>1, <4>5 DEF Entry, EntryT, WorkT
      <4>7. CacheSize \in Nat \ {0} /\ Len(cache) <= CacheSize BY SessionBounds DEF SessionBounds, Bounded
      <4>8. CASE i < CacheSize
        <5> DEFINE r == work[w].rev  x == work[w].client
        <5>1. Entry(k, r, x) \in EntryT BY <4>6
        <5>2. cache' = Add(cache, CacheSize, r, k, x) BY <3>7
        <5> HIDE DEF r, x
        <5>3. \E n \in 1..Len(Add(cache, CacheSize, r, k, x)) : Add(cache, CacheSize, r, k, x)[n] = cache[i]
          BY <1>2, <4>4, <4>7, <4>8, <5>1, AddedRest
        <5> QED BY <3>2, <5>2, <5>3
      <4>9. CASE ~(i < CacheSize)
        <5>1. Len(cache) = CacheSize /\ i = Len(cache) BY <1>2, <4>7, <4>9
        <5>2. Evicts(cache, CacheSize, k) BY <4>4, <5>1 DEF Evicts
        <5> QED BY <3>3, <3>7, <5>1, <5>2 DEF Oldest
      <4> QED BY <4>8, <4>9
    <3> QED BY <1>1, <1>12, <3>4, <3>5, <3>6, <3>7, VaultCache DEF k
  <2> QED BY <1>6, <2>1, <2>2, <2>3, <2>4
<1>13. CASE Login(w)
  <2> DEFINE c == work[w].client
  <2>1. cache' = cache /\ work[w].pc = "login" /\ c \in 1..Len(clients) /\ work'[w].pc = "use" /\ work'[w].client = c
    BY <1>13, LoginStep
  <2>2. /\ \A d \in 1..Len(clients) :
              clients'[d].token = IF d = c THEN Len(tokens) + 1 ELSE clients[d].token
        /\ Len(tokens') = Len(tokens) + 1 /\ tokens'[Len(tokens) + 1].owner = OwnerOf(work[w])
    BY <1>13, LoginStep
  <2>3. CASE Old
    <3>1. t # TokenOf(c) BY <1>1, <1>3, <2>1, <2>3 DEF LoginDue, At
    <3>2. \A d \in 1..Len(clients) : TokenOf(d) = t => clients'[d].token = t BY <2>2, <3>1 DEF TokenOf
    <3> QED BY <1>6, <1>7, <2>1, <2>3, <3>1, <3>2
  <2>4. CASE t = Len(tokens) + 1
    <3>1. clients'[c].token = t BY <2>1, <2>2, <2>4
    <3>2. CASE ~cacheOn
      <4>1. work'[w].pc # "idle" /\ work'[w].client # 0 BY <1>2, <2>1
      <4> QED BY <2>1, <3>1, <3>2, <4>1
    <3>3. CASE cacheOn
      <4>1. auth[work[w].store] \in {"login", "referent"} BY <2>2, <2>4 DEF OwnerOf
      <4>2. UseCache(work[w].store) BY <3>3, <4>1 DEF UseCache
      <4>3. work[w].store \in Stores BY <1>2, <2>1 DEF Placed
      <4>4. Settled(work[w]) BY <2>1 DEF Settled
      <4>5. \E i \in 1..Len(cache) : cache[i].client = c BY <1>1, <3>3, <4>2, <4>3, <4>4 DEF ClientCached
      <4> QED BY <2>1, <3>1, <3>3, <4>5
    <3> QED BY <3>2, <3>3
  <2> QED BY <1>2, <2>2, <2>3, <2>4
<1>14. CASE Revoke(w)
  <2>1. /\ cache' = cache /\ clients' = clients /\ Len(tokens') = Len(tokens) /\ work[w].pc = "revoke"
        /\ \/ Done(w) /\ ~Live(TokenOf(work[w].victim))
           \/ /\ Goto(w, "clear") /\ TokenOf(work[w].victim) \in 1..Len(tokens)
              /\ \A u \in 1..Len(tokens) :
                    tokens'[u].state = IF u = TokenOf(work[w].victim) THEN "revoked" ELSE tokens[u].state
    BY <1>1, <1>14, RevokeStep
  <2>2. Old /\ (\A c \in 1..Len(clients) : TokenOf(c) = t => clients'[c].token = t) BY <2>1 DEF TokenOf
  <2>3. t # TokenOf(work[w].victim) BY <1>3, <2>1, <2>2 DEF Revocable
  <2>4. CASE Done(w) BY <1>8, <2>1, <2>2, <2>3, <2>4 DEF Revoking
  <2>5. CASE Goto(w, "clear")
    <3>1. work'[w].pc = "clear" /\ work'[w].client = work[w].client BY <2>5, MovedTo DEF PCs
    <3>2. HadW => Used BY <2>1, <3>1 DEF TokenOf
    <3> QED BY <1>6, <1>7, <2>1, <2>2, <2>3, <3>2
  <2> QED BY <2>1, <2>4, <2>5
<1>15. CASE ClearToken(w)
  <2>1. /\ cache' = cache /\ tokens' = tokens /\ work[w].pc = "clear" /\ Done(w)
        /\ \A d \in 1..Len(clients) : clients'[d].token = IF d = work[w].victim THEN 0 ELSE clients[d].token
    BY <1>15, ClearStep
  <2>2. Old BY <2>1
  <2>3. t # TokenOf(work[w].victim) BY <1>1, <1>3, <2>1, <2>2 DEF ClearDue, Revocable, At
  <2>4. \A c \in 1..Len(clients) : TokenOf(c) = t => clients'[c].token = t BY <2>1, <2>3 DEF TokenOf
  <2> QED BY <1>8, <2>1, <2>2, <2>3, <2>4 DEF Revoking
<1>16. CASE AssumeRole(w) BY <1>1, <1>16, RoleStep
<1>17. CASE GetOrCreateIamToken(w) BY <1>1, <1>17, IamStep
<1>18. Goal
  BY <1>9, <1>10, <1>11, <1>12, <1>13, <1>14, <1>15, <1>16, <1>17, WorkerSteps
<1> QED BY <1>18

LEMMA InitLayer3 == ASSUME Init PROVE Inv3
<1>1. \A w \in Workers : work[w].pc = "idle" BY DEF Init, Idle
<1>2. Len(cache) = 0 /\ Len(tokens) = 0 BY DEF Init
<1>3. CachedStores /\ NoUserToken BY <1>1, <1>2 DEF CachedStores, NoUserToken, Revoking
<1>4. UserTokensKept /\ OneEntry /\ Accounted BY <1>2 DEF UserTokensKept, OneEntry, Accounted
<1>5. Bounded BY <1>2, SessionBounds DEF Bounded, SessionBounds
<1>6. ClientCached BY <1>1 DEF ClientCached, Settled, Missing, Revoking
<1>7. LoginDue /\ ClearDue BY <1>1 DEF LoginDue, ClearDue, At
<1> QED BY <1>3, <1>4, <1>5, <1>6, <1>7 DEF Inv3

LEMMA WorldLayer3 == ASSUME Inv1, Inv3, WorldStep PROVE Inv3'
<1>0. UNCHANGED <<mode, cacheOn, auth, cache, clients, work, overlap>> BY WorldSteps
<1>1. /\ Len(tokens') = Len(tokens)
      /\ \A t \in 1..Len(tokens) : /\ tokens'[t].owner = tokens[t].owner
                                   /\ tokens'[t].state = "live" => tokens[t].state = "live"
                                   /\ tokens'[t].state = "revoked" => tokens[t].state = "revoked"
  BY WorldSteps
<1>2. Calm' => Calm
  <2>1. spent \in [runs : Nat, edits : Nat, faults : Nat] BY DEF Inv1, Types
  <2>2. spent'.faults = spent.faults
    <3>1. UNCHANGED spent \/ spent' = [spent EXCEPT !.edits = spent.edits + 1] BY WorldSteps
    <3> QED BY <2>1, <3>1
  <2> QED BY <1>0, <2>2 DEF Calm, Apart
<1>3. (CachedStores /\ NoUserToken /\ OneEntry /\ Bounded)'
  BY <1>0 DEF Inv3, CachedStores, NoUserToken, OneEntry, Bounded, UseCache
<1>4. UserTokensKept' BY <1>0, <1>1 DEF Inv3, UserTokensKept, Static
<1>5. ClientCached' BY <1>0, <1>2 DEF Inv3, ClientCached, UseCache, Key
<1>6. \A c \in 1..Len(clients) : clients[c].token \in 0..Len(tokens) BY DEF Inv1, TokensFit, TokenFits
<1>7. ASSUME NEW t \in 0..Len(tokens)
      PROVE  /\ t # 0 /\ tokens'[t].state = "live" => Live(t)
             /\ t # 0 => tokens'[t].owner = tokens[t].owner
  BY <1>1 DEF Live
<1>8. LoginDue'
  <2> SUFFICES ASSUME Calm, NEW w \in Workers, work[w].pc = "login"
               PROVE  LET t == clients[work[w].client].token
                      IN  ~(t # 0 /\ tokens'[t].state = "live" /\ auth[tokens'[t].owner.store] \in {"login", "referent"})
    BY <1>0, <1>2 DEF LoginDue, At, Revocable, Live, TokenOf
  <2>1. work[w].client # 0 BY PlacedAt DEF Placed
  <2>2. work[w].client \in 1..Len(clients) BY <2>1, OwnStore
  <2> DEFINE t == clients[work[w].client].token
  <2>3. t \in 0..Len(tokens) BY <1>6, <2>2
  <2>4. ~Revocable(t) BY DEF Inv3, LoginDue, At, TokenOf
  <2> QED BY <1>7, <2>3, <2>4 DEF Revocable
<1>9. ClearDue'
  <2> SUFFICES ASSUME Calm, NEW w \in Workers, work[w].pc = "clear"
               PROVE  LET t == clients[work[w].victim].token IN ~(t # 0 /\ tokens'[t].state = "live")
    BY <1>0, <1>2 DEF ClearDue, At, Live, TokenOf
  <2>1. work[w].victim # 0 /\ work[w].victim \in 0..Len(clients) BY PlacedAt DEF Placed, Owned, Revoking
  <2>2. work[w].victim \in 1..Len(clients) BY <2>1, PlacedAt
  <2> DEFINE t == clients[work[w].victim].token
  <2>3. t \in 0..Len(tokens) BY <1>6, <2>2
  <2>4. ~Live(t) BY DEF Inv3, ClearDue, At, TokenOf
  <2> QED BY <1>7, <2>3, <2>4
<1>10. Accounted'
  <2> SUFFICES ASSUME Calm, NEW t \in 1..Len(tokens), tokens'[t].state = "live",
                      auth[tokens'[t].owner.store] \in {"login", "referent"}
               PROVE  BeingRevoked(t) \/ (IF cacheOn THEN InCache(t) ELSE InUse(t))
    BY <1>0, <1>1, <1>2 DEF Accounted, Revocable, Live, TokenOf, At, BeingRevoked, InCache, InUse
  <2>1. t # 0 BY DEF Inv1, Types
  <2>2. Revocable(t) BY <1>1, <2>1 DEF Revocable, Live
  <2> QED BY <2>2 DEF Inv3, Accounted
<1> QED BY <1>3, <1>4, <1>5, <1>8, <1>9, <1>10 DEF Inv3

LEMMA NextLayer3 ==
    ASSUME Inv1, Inv2, Inv3, [Next]_vars PROVE Inv3'
<1>1. CASE WorldStep BY <1>1, WorldLayer3
<1>2. ASSUME NEW w \in Workers, WorkerStep(w) PROVE Inv3'
  <2>1. CachedStores' BY <1>2, CachedStoresKept DEF Inv3
  <2>2. NoUserToken' BY <1>2, NoUserTokenKept DEF Inv3
  <2>3. UserTokensKept' BY <1>2, UserTokensKeptWorker DEF Inv3
  <2>4. OneEntry' /\ Bounded' BY <1>2, EntriesKept DEF Inv3
  <2>5. ClientCached' BY <1>2, ClientCachedKept DEF Inv2, Inv3
  <2>6. LoginDue' BY <1>2, LoginDueKept DEF Inv2, Inv3
  <2>7. ClearDue' BY <1>2, ClearDueKept DEF Inv2, Inv3
  <2>8. Accounted' BY <1>2, AccountedKept DEF Inv3
  <2> QED BY <2>1, <2>2, <2>3, <2>4, <2>5, <2>6, <2>7, <2>8 DEF Inv3
<1> QED BY <1>1, <1>2, NextSteps

(* A token that has to be revoked is kept where somebody will revoke it,   *)
(* and nothing but such tokens is cached or revoked.                       *)
THEOREM Tracking == Spec => []Inv3
<1>1. Inv1 /\ Inv2 /\ Inv3 /\ [Next]_vars => Inv3' BY NextLayer3
<1> QED BY <1>1, InitLayer3, Ownership, Sharing, PTL DEF Spec

(* Once the reconciles are over, a token that is still valid and may be    *)
(* revoked is the one of a cached client: Close, Remove, Add and the       *)
(* eviction leave none behind, unless a call fails or reconciles that      *)
(* overlap share the cache. The user's own tokens are never revoked. (The  *)
(* generator for Vault, which revokes nothing, is not part of the model.)  *)
THEOREM NoTokenIsLeft == Spec => []TokensAccounted
<1>1. Inv1 /\ Inv3 => TokensAccounted
  <2> SUFFICES ASSUME Inv1, Inv3 PROVE TokensAccounted
    OBVIOUS
  <2>0. DOMAIN tokens = 1..Len(tokens) /\ DOMAIN cache = 1..Len(cache) BY DEF Inv1, Types
  <2>1. NoneLeft
    <3> SUFFICES ASSUME Calm, \A w \in Workers : work[w].pc = "idle",
                        NEW t \in 1..Len(tokens), Revocable(t)
                 PROVE  InCache(t)
      BY <2>0 DEF NoneLeft, Calm, At, Revocable, InCache
    <3>1. BeingRevoked(t) \/ (IF cacheOn THEN InCache(t) ELSE InUse(t)) BY DEF Inv3, Accounted
    <3>2. ~BeingRevoked(t) /\ ~InUse(t) BY DEF BeingRevoked, InUse, At
    <3> QED BY <3>1, <3>2
  <2>2. \A t \in DOMAIN tokens : Static(t) => tokens[t].state # "revoked"
    BY <2>0 DEF Inv3, UserTokensKept
  <2> QED BY <2>1, <2>2 DEF TokensAccounted
<1> QED BY <1>1, Ownership, Tracking, PTL
===========================================================================
