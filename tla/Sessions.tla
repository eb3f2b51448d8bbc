------------------------------ MODULE Sessions ------------------------------
(***************************************************************************)
(* What outlives a reconcile: the Vault tokens it logs in for, with or     *)
(* without the token cache; the AWS sessions of the session cache, on      *)
(* which every reconcile assumes the store's roles; and the IAM tokens the *)
(* Yandex providers share. An instance has one provider; its stores are    *)
(* edited (a new resourceVersion) and their credentials rotated while      *)
(* several reconciles use them.                                            *)
(*                                                                         *)
(* A client is the object that carries the credentials: a Vault API client *)
(* with its token, or an AWS session with the chain of roles assumed on    *)
(* it. owner says from what a token or a session was made.                 *)
(***************************************************************************)
EXTENDS ClientCache, Integers, FiniteSets

CONSTANTS Workers,      \* reconciles
          Stores,       \* stores of the provider
          Modes,        \* the providers: "vault", "aws", "yandex"
          Auths,        \* Vault: "login", "referent", "batch", "static"
          Roles,        \* AWS: additionalRoles, then role
          CacheSize,    \* entries of the cache
          Lifetime,     \* Yandex: maxSecretsClientLifetime
          TTL,          \* Yandex: how long an IAM token lasts
          MaxRuns,      \* bound on the reconciles
          MaxEdits,     \* bound on edits and rotations
          MaxFaults,    \* bound on failing calls
          MaxTime       \* Yandex: bound on the clock

ASSUME SessionBounds ==
    /\ \A n \in {CacheSize, Lifetime, TTL, MaxRuns} : n \in Nat \ {0}
    /\ \A n \in {MaxEdits, MaxFaults, MaxTime} : n \in Nat
    /\ Lifetime < TTL
ASSUME SessionKinds ==
    /\ Modes \subseteq {"vault", "aws", "yandex"}
    /\ Auths \subseteq {"login", "referent", "batch", "static"}
    /\ Roles \in Seq(STRING) /\ "" \notin Stores

VARIABLES mode,     \* the provider
          cacheOn,  \* the flag that enables the cache
          auth,     \* Vault: how each store authenticates
          rev,      \* resourceVersion of each store
          cred,     \* version of the credentials of each store
          cache,    \* clientCache or sessionCache
          lock,     \* reconciles cleaning up under the cache's lock
          clients,  \* the objects made so far
          tokens,   \* the tokens issued so far
          now,      \* Yandex: the clock
          work,     \* the reconciles
          spent,    \* reconciles, edits and faults so far
          overlap   \* two reconciles were under way at once

vars == <<mode, cacheOn, auth, rev, cred, cache, lock, clients, tokens, now, work, spent, overlap>>
world == <<mode, cacheOn, auth, rev, cred, now, overlap>>

Idle == [pc |-> "idle", store |-> "", ns |-> "n1", rev |-> 1, cred |-> 1,
         client |-> 0, victim |-> 0, next |-> "idle", role |-> 1, base |-> <<>>, token |-> 0, since |-> 0]

Token(owner, state) == [owner |-> owner, state |-> state, expires |-> now + TTL]
Owner(w) == [store |-> work[w].store, rev |-> work[w].rev, cred |-> work[w].cred, ns |-> work[w].ns]

At(w, pc) == work[w].pc = pc
Set(w, new) == work' = [work EXCEPT ![w] = new]
Goto(w, pc) == Set(w, IF pc = "idle" THEN Idle ELSE [work[w] EXCEPT !.pc = pc])
Fault == spent.faults < MaxFaults /\ spent' = [spent EXCEPT !.faults = @ + 1]

(* Static tokens are never cached.                                         *)
UseCache(s) == cacheOn /\ (mode = "vault" => auth[s] # "static")
FirstStep(s) == IF UseCache(s) THEN "get" ELSE "make"

(* Vault stores are cached by name, namespace and kind, AWS sessions under *)
(* the namespace of the ExternalSecret.                                    *)
Key(w) == IF mode = "aws" THEN <<work[w].store, work[w].ns>> ELSE <<work[w].store>>

---------------------------------------------------------------------------
(* A reconcile reads its store. A referent store takes credentials from    *)
(* the namespace of the ExternalSecret; its own controller has none.       *)
Namespaces(s) ==
    CASE mode = "vault" /\ auth[s] = "referent" -> {"n1", "n2", ""}
      [] mode = "aws" -> {"n1", "n2"}
      [] OTHER -> {"n1"}
Start(w) ==
    /\ At(w, "idle") /\ spent.runs < MaxRuns
    /\ spent' = [spent EXCEPT !.runs = @ + 1]
    /\ overlap' = (overlap \/ \E v \in Workers : ~At(v, "idle"))
    /\ \E s \in Stores : \E n \in Namespaces(s) :
        Set(w, [Idle EXCEPT !.pc = IF mode = "vault" THEN FirstStep(s) ELSE "creds",
                            !.store = s, !.ns = n, !.rev = rev[s]])
    /\ UNCHANGED <<mode, cacheOn, auth, rev, cred, cache, lock, clients, tokens, now>>

(* AWS and Yandex read the credentials first, every time.                  *)
ReadCredentials(w) ==
    /\ At(w, "creds")
    /\ Set(w, [work[w] EXCEPT !.cred = cred[work[w].store],
                              !.pc = IF mode = "yandex" THEN "iam" ELSE FirstStep(work[w].store)])
    /\ UNCHANGED <<world, cache, lock, clients, tokens, spent>>

(* getVaultClient and getAWSSession. Get, and when the version differs     *)
(* Remove, of whatever is there by then.                                   *)
Get(w) ==
    /\ At(w, "get") /\ lock = {}
    /\ cache' = Touch(cache, Key(w))
    /\ IF Hit(cache, work[w].rev, Key(w))
       THEN Set(w, [work[w] EXCEPT !.client = EntryOf(cache, Key(w)).client, !.pc = "init"])
       ELSE Goto(w, IF Contains(cache, Key(w)) THEN "remove" ELSE "make")
    /\ UNCHANGED <<world, lock, clients, tokens, spent>>

(* The cleanup that New registers: Vault revokes the token of the client,  *)
(* AWS has none.                                                           *)
(* Mutant: no cleanup for Vault either.                                    *)
NoCleanup(w, victim, next) == lock' = lock /\ Goto(w, next)

Cleanup(w, victim, next) ==
    IF mode = "vault"
    THEN /\ lock' = lock \cup {w}
         /\ Set(w, [work[w] EXCEPT !.pc = "check", !.victim = victim, !.next = next])
    ELSE lock' = lock /\ Goto(w, next)

Remove(w) ==
    /\ At(w, "remove") /\ lock = {}
    /\ cache' = Purge(cache, Key(w))
    /\ IF Contains(cache, Key(w)) THEN Cleanup(w, EntryOf(cache, Key(w)).client, "make")
                                  ELSE lock' = lock /\ Goto(w, "make")
    /\ UNCHANGED <<world, clients, tokens, spent>>

(* NewVaultClient, NewSessionWithOptions.                                  *)
Make(w) ==
    /\ At(w, "make")
    /\ clients' = Append(clients, [owner |-> Owner(w), token |-> 0, chain |-> <<>>])
    /\ Set(w, [work[w] EXCEPT !.client = Len(clients) + 1,
                              !.pc = IF ~UseCache(work[w].store) THEN "init"
                                     ELSE IF mode = "vault" THEN "contains" ELSE "add"])
    /\ UNCHANGED <<world, cache, lock, tokens, spent>>
MakeFails(w) ==
    /\ At(w, "make") /\ Fault
    /\ Goto(w, "idle")
    /\ UNCHANGED <<world, cache, lock, clients, tokens>>

IsCached(w) ==
    /\ At(w, "contains") /\ lock = {}
    /\ Goto(w, IF Contains(cache, Key(w)) THEN "init" ELSE "add")
    /\ UNCHANGED <<world, cache, lock, clients, tokens, spent>>
AddToCache(w) ==
    /\ At(w, "add") /\ lock = {}
    /\ cache' = Add(cache, CacheSize, work[w].rev, Key(w), work[w].client)
    /\ IF Evicts(cache, CacheSize, Key(w)) THEN Cleanup(w, Oldest(cache).client, "init")
                                           ELSE lock' = lock /\ Goto(w, "init")
    /\ UNCHANGED <<world, clients, tokens, spent>>

---------------------------------------------------------------------------
(* revokeTokenIfValid, for an evicted client under the cache's lock or for *)
(* the own client in Close: look the token up, revoke the one the client   *)
(* has by then, forget it. An error ends it.                               *)
TokenOf(c) == clients[c].token
Live(t) == t # 0 /\ tokens[t].state = "live"
Batch(t) == auth[tokens[t].owner.store] = "batch"
checkToken(t) == Live(t) /\ ~Batch(t)

Done(w) ==
    /\ lock' = lock \ {w}
    /\ Set(w, IF work[w].next = "idle" THEN Idle
              ELSE [work[w] EXCEPT !.pc = work[w].next, !.victim = 0, !.next = "idle"])
CheckVictim(w) ==
    /\ At(w, "check")
    /\ \/ /\ IF checkToken(TokenOf(work[w].victim)) THEN lock' = lock /\ Goto(w, "revoke") ELSE Done(w)
          /\ UNCHANGED spent
       \/ Fault /\ Done(w)
    /\ UNCHANGED <<world, cache, clients, tokens>>
Revoke(w) ==
    /\ At(w, "revoke")
    /\ LET t == TokenOf(work[w].victim) IN
       \/ /\ Live(t)
          /\ tokens' = [tokens EXCEPT ![t].state = "revoked"]
          /\ Goto(w, "clear") /\ UNCHANGED <<lock, spent>>
       \/ ~Live(t) /\ Done(w) /\ UNCHANGED <<tokens, spent>>
       \/ Fault /\ Done(w) /\ UNCHANGED tokens
    /\ UNCHANGED <<world, cache, clients>>
ClearToken(w) ==
    /\ At(w, "clear")
    /\ clients' = [clients EXCEPT ![work[w].victim].token = 0]
    /\ Done(w)
    /\ UNCHANGED <<world, cache, tokens, spent>>

(* initClient and setAuth: a token the client has is looked up, and used   *)
(* if it is there; otherwise the store's method is.                        *)
(* Mutant: a token the client has is used.                                 *)
ReusesUnchecked(w) ==
    Goto(w, IF work[w].ns = "" THEN "close" ELSE IF TokenOf(work[w].client) # 0 THEN "use" ELSE "login")

InitClient(w) ==
    Goto(w, IF work[w].ns = "" THEN "close"
            ELSE IF TokenOf(work[w].client) # 0 THEN "lookup" ELSE "login")
SetAuth(w) ==
    /\ At(w, "init") /\ mode = "vault"
    /\ InitClient(w)
    /\ UNCHANGED <<world, cache, lock, clients, tokens, spent>>
LookupToken(w) ==
    /\ At(w, "lookup")
    /\ \/ /\ Goto(w, IF checkToken(TokenOf(work[w].client)) THEN "use" ELSE "login")
          /\ UNCHANGED spent
       \/ Fault /\ Goto(w, "login")
    /\ UNCHANGED <<world, cache, lock, clients, tokens>>
Login(w) ==
    /\ At(w, "login")
    /\ tokens' = Append(tokens, Token(Owner(w), "live"))
    /\ clients' = [clients EXCEPT ![work[w].client].token = Len(tokens) + 1]
    /\ Goto(w, "use")
    /\ UNCHANGED <<world, cache, lock, spent>>
LoginFails(w) ==
    /\ At(w, "login") /\ Fault
    /\ Goto(w, "idle")
    /\ UNCHANGED <<world, cache, lock, clients, tokens>>

(* Close revokes unless the cache is enabled or the token is the user's.   *)
ClosesToken(w) == ~cacheOn /\ TokenOf(work[w].client) # 0 /\ auth[work[w].store] # "static"
Close(w) ==
    /\ At(w, "close") \/ (At(w, "use") /\ mode = "vault")
    /\ Set(w, IF ClosesToken(w)
              THEN [work[w] EXCEPT !.pc = "check", !.victim = work[w].client, !.next = "idle"]
              ELSE Idle)
    /\ UNCHANGED <<world, cache, lock, clients, tokens, spent>>

---------------------------------------------------------------------------
(* awsauth.New: on the session, new or cached, the roles are assumed one   *)
(* after the other, each with the credentials of the one before.           *)
(* Mutant: the role first.                                                 *)
RoleFirst(i) == Roles[Len(Roles) + 1 - i]

RoleToAssume(i) == Roles[i]

(* The STS client takes the session's credentials, which are then replaced *)
(* by those of the role; other reconciles share a cached session.          *)
NewSTSClient(w) ==
    /\ At(w, "init") /\ mode = "aws"
    /\ IF work[w].role > Len(Roles)
       THEN Goto(w, "use")
       ELSE Set(w, [work[w] EXCEPT !.pc = "assume", !.base = clients[work[w].client].chain])
    /\ UNCHANGED <<world, cache, lock, clients, tokens, spent>>
AssumeRole(w) ==
    /\ At(w, "assume")
    /\ clients' = [clients EXCEPT ![work[w].client].chain =
                        Append(work[w].base, RoleToAssume(work[w].role))]
    /\ Set(w, [work[w] EXCEPT !.pc = "init", !.role = @ + 1])
    /\ UNCHANGED <<world, cache, lock, tokens, spent>>
SessionDone(w) ==
    /\ At(w, "use") /\ mode = "aws"
    /\ Goto(w, "idle")
    /\ UNCHANGED <<world, cache, lock, clients, tokens, spent>>

---------------------------------------------------------------------------
(* Yandex: tokens are kept per authorized key (owner: the store and its    *)
(* credentials) under a mutex, which is held while one is fetched.         *)
isIamTokenUsable(t) == now + Lifetime < tokens[t].expires
IamKey(o) == <<o.store, o.cred>>
Kept(w) == {t \in DOMAIN tokens : IamKey(tokens[t].owner) = IamKey(Owner(w)) /\ tokens[t].state = "live"}

GetOrCreateIamToken(w) ==
    /\ At(w, "iam")
    /\ \/ \E t \in Kept(w) :
            /\ isIamTokenUsable(t)
            /\ Set(w, [work[w] EXCEPT !.pc = "use", !.token = t, !.since = now])
            /\ UNCHANGED <<tokens, spent>>
       \/ /\ \A t \in Kept(w) : ~isIamTokenUsable(t)
          /\ tokens' = Append([t \in DOMAIN tokens |-> IF t \in Kept(w) THEN [tokens[t] EXCEPT !.state = "dropped"]
                                                       ELSE tokens[t]],
                              Token(Owner(w), "live"))
          /\ Set(w, [work[w] EXCEPT !.pc = "use", !.token = Len(tokens) + 1, !.since = now])
          /\ UNCHANGED spent
       \/ /\ \A t \in Kept(w) : ~isIamTokenUsable(t)
          /\ Fault /\ Goto(w, "idle") /\ UNCHANGED tokens
    /\ UNCHANGED <<world, cache, lock, clients>>
SecretsRead(w) ==
    /\ At(w, "use") /\ mode = "yandex"
    /\ Goto(w, "idle")
    /\ UNCHANGED <<world, cache, lock, clients, tokens, spent>>

CleanUpIamTokenMap ==
    /\ mode = "yandex"
    /\ \E t \in DOMAIN tokens : tokens[t].state = "live" /\ now > tokens[t].expires
    /\ tokens' = [t \in DOMAIN tokens |->
                    IF tokens[t].state = "live" /\ now > tokens[t].expires
                    THEN [tokens[t] EXCEPT !.state = "dropped"] ELSE tokens[t]]
    /\ UNCHANGED <<world, cache, lock, clients, work, spent>>

(* Time passes; a client does not outlive maxSecretsClientLifetime.        *)
Tick ==
    /\ mode = "yandex" /\ now < MaxTime
    /\ \A w \in Workers : At(w, "use") => now < work[w].since + Lifetime
    /\ now' = now + 1
    /\ UNCHANGED <<mode, cacheOn, auth, rev, cred, cache, lock, clients, tokens, work, spent, overlap>>

---------------------------------------------------------------------------
(* The world: stores are edited, their credentials rotated, and the tokens *)
(* Vault issued expire when no reconcile has them in hand.                 *)
Edit(s) ==
    /\ spent.edits < MaxEdits /\ mode # "yandex"
    /\ rev' = [rev EXCEPT ![s] = @ + 1]
    /\ spent' = [spent EXCEPT !.edits = @ + 1]
    /\ UNCHANGED <<mode, cacheOn, auth, cred, cache, lock, clients, tokens, now, work, overlap>>
Rotate(s) ==
    /\ spent.edits < MaxEdits /\ mode # "vault"
    /\ cred' = [cred EXCEPT ![s] = @ + 1]
    /\ spent' = [spent EXCEPT !.edits = @ + 1]
    /\ UNCHANGED <<mode, cacheOn, auth, rev, cache, lock, clients, tokens, now, work, overlap>>

InHand(t) == \E w \in Workers : ~At(w, "idle") /\ work[w].client # 0 /\ TokenOf(work[w].client) = t
(* A token is taken to outlive the reconcile that holds it: nothing in the *)
(* code looks at the time a token has left.                                *)
Expire(t) ==
    /\ mode = "vault" /\ Live(t) /\ ~InHand(t) /\ auth[tokens[t].owner.store] # "static"
    /\ tokens' = [tokens EXCEPT ![t].state = "expired"]
    /\ UNCHANGED <<world, cache, lock, clients, work, spent>>

---------------------------------------------------------------------------
Init ==
    /\ mode \in Modes
    /\ cacheOn \in BOOLEAN
    /\ mode = "yandex" => ~cacheOn
    /\ auth \in [Stores -> IF mode = "vault" THEN Auths ELSE {"login"}]
    /\ rev = [s \in Stores |-> 1] /\ cred = [s \in Stores |-> 1]
    /\ cache = <<>> /\ lock = {} /\ clients = <<>> /\ tokens = <<>> /\ now = 0
    /\ work = [w \in Workers |-> Idle]
    /\ spent = [runs |-> 0, edits |-> 0, faults |-> 0]
    /\ overlap = FALSE

Next ==
    \/ \E w \in Workers :
        \/ Start(w) \/ ReadCredentials(w) \/ Get(w) \/ Remove(w) \/ Make(w) \/ MakeFails(w)
        \/ IsCached(w) \/ AddToCache(w) \/ CheckVictim(w) \/ Revoke(w) \/ ClearToken(w)
        \/ SetAuth(w) \/ LookupToken(w) \/ Login(w) \/ LoginFails(w) \/ Close(w)
        \/ NewSTSClient(w) \/ AssumeRole(w) \/ SessionDone(w) \/ GetOrCreateIamToken(w) \/ SecretsRead(w)
    \/ CleanUpIamTokenMap \/ Tick
    \/ \E s \in Stores : Edit(s) \/ Rotate(s)
    \/ \E t \in DOMAIN tokens : Expire(t)

Spec == Init /\ [][Next]_vars

---------------------------------------------------------------------------
Owners == [store : Stores, rev : 1..(MaxEdits + 1), cred : 1..(MaxEdits + 1), ns : {"n1", "n2", ""}]

(* What happens to reconciles that share a cached client is not promised:  *)
(* one may evict and revoke what another one is using.                     *)
Apart == cacheOn => ~overlap

(* What a reconcile works with was made for its own store, in the revision *)
(* it read, with the credentials it read unless a cache is meant to keep   *)
(* the older ones, and from its own namespace; only the Vault cache hands  *)
(* the token of a referent store from one namespace to the next. This      *)
(* holds however reconciles, edits and evictions interleave.               *)
Made(w) ==
    CASE mode = "vault"  -> IF TokenOf(work[w].client) = 0 THEN clients[work[w].client].owner
                            ELSE tokens[TokenOf(work[w].client)].owner
      [] mode = "aws"    -> clients[work[w].client].owner
      [] mode = "yandex" -> tokens[work[w].token].owner
OwnSession ==
    \A w \in Workers : At(w, "use") =>
        /\ Made(w).store = work[w].store
        /\ mode # "yandex" => Made(w).rev = work[w].rev
        /\ ~cacheOn => Made(w).cred = work[w].cred
        /\ Made(w).ns = work[w].ns \/ (cacheOn /\ mode = "vault")

(* No Vault token is left behind: once all reconciles are over, a token    *)
(* that is still valid is the one of a cached client, so the next          *)
(* reconcile reuses it and an eviction revokes it. Failing calls may leave *)
(* tokens to their TTL, and batch tokens cannot be revoked. A token taken  *)
(* from a Secret is the user's: neither Close nor an eviction ever revokes *)
(* it.                                                                     *)
Static(t) == auth[tokens[t].owner.store] = "static"
NoneLeft ==
    mode = "vault" /\ spent.faults = 0 /\ Apart /\ (\A w \in Workers : At(w, "idle")) =>
        \A t \in DOMAIN tokens :
            Live(t) /\ auth[tokens[t].owner.store] \in {"login", "referent"} =>
                \E i \in DOMAIN cache : TokenOf(cache[i].client) = t
TokensAccounted == NoneLeft /\ \A t \in DOMAIN tokens : Static(t) => tokens[t].state # "revoked"

(* A reconcile works with a token that is valid. A Vault token is looked   *)
(* up before it is reused, and nobody revokes it under a reconcile that    *)
(* has it; an IAM token does not expire in the hands of a client that      *)
(* keeps to its lifetime, although it is shared and replaced meanwhile.    *)
TokenValid ==
    \A w \in Workers : At(w, "use") =>
        /\ mode = "vault" /\ Apart => Live(TokenOf(work[w].client))
        /\ mode = "yandex" => now < tokens[work[w].token].expires

(* A session acts in the store's role, assumed after the additional roles, *)
(* in their order and no others. On a cached session the roles are assumed *)
(* again by every reconcile, but the last one is still the store's.        *)
ActsInRole ==
    \A w \in Workers : At(w, "use") /\ mode = "aws" /\ Apart /\ Roles # <<>> =>
        LET chain == clients[work[w].client].chain
        IN  IF cacheOn THEN chain[Len(chain)] = Roles[Len(Roles)] ELSE chain = Roles
===========================================================================
