--------------------------- MODULE ManagedSecrets ---------------------------
(***************************************************************************)
(* What a provider that writes promises to everyone else who uses the      *)
(* remote store: an operation writes at most one secret, its target, and   *)
(* only if that secret was free (absent, managed by external-secrets, or   *)
(* without a value) at some moment since the operation began. Everybody    *)
(* else may change anything at any time. wrote keeps what the operation    *)
(* wrote, so that a write can not pass for somebody else's change.         *)
(***************************************************************************)
CONSTANTS Keys, NoKey, Free(_)

VARIABLES store, target, licensed, wrote

msVars == <<store, target, licensed, wrote>>

MSInit == target = NoKey /\ licensed = FALSE /\ wrote = {}

Start == \E k \in Keys :
    /\ target = NoKey
    /\ target' = k
    /\ licensed' = Free(store[k])
    /\ wrote' = {}
    /\ UNCHANGED store

Others == \E k \in Keys :
    /\ \A j \in Keys \ {k} : store'[j] = store[j]
    /\ licensed' = (licensed \/ (target = k /\ Free(store'[k])))
    /\ UNCHANGED <<target, wrote>>

Write ==
    /\ target # NoKey /\ licensed
    /\ wrote' = wrote \cup {store'[target]}
    /\ \A j \in Keys \ {target} : store'[j] = store[j]
    /\ UNCHANGED <<target, licensed>>

Stop ==
    /\ target' = NoKey /\ licensed' = FALSE /\ wrote' = {}
    /\ UNCHANGED store

MSNext == Start \/ Others \/ Write \/ Stop

MSSpec == MSInit /\ [][MSNext]_msVars
=============================================================================
