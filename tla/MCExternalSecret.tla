-------------------------- MODULE MCExternalSecret --------------------------
(* Instances of ExternalSecret for TLC. *)
EXTENDS ExternalSecret

CONSTANTS a, b, tgt, k1, k2, v1, v2

Get(k) == [kind |-> "get", keys |-> {k}]
Find(keys) == [kind |-> "find", keys |-> keys]
Generate(k) == [kind |-> "generate", keys |-> {k}]
T(creation, deletion, refs) ==
  [creation |-> creation, deletion |-> deletion, immutable |-> FALSE,
   once |-> FALSE, tpl |-> {}, refs |-> refs]
Once(spec) == [spec EXCEPT !.once = TRUE]
Immutable(spec) == [spec EXCEPT !.immutable = TRUE]
Templated(spec, keys) == [spec EXCEPT !.tpl = keys]

OneTarget == [e \in ES |-> tgt]

\* Every creation and deletion policy, edited into each other.
PolicySpecs ==
  [e \in ES |-> {T("Owner", "Delete", <<Get(k1), Find({k1, k2})>>),
                 T("Owner", "Merge", <<Get(k2)>>),
                 Once(T("None", "Retain", <<Get(k1)>>)),
                 Templated(T("Orphan", "Delete", <<Find({k1, k2})>>), {k1}),
                 T("Merge", "Retain", <<Find({k1})>>),
                 Immutable(Once(T("Owner", "Retain", <<Generate(k1)>>)))}]

\* Two ExternalSecrets with one Secret: both own it or both merge into it.
PairSpecs ==
  [e \in ES |-> IF e = a THEN {Once(T("Owner", "Retain", <<Get(k1)>>)), T("Merge", "Retain", <<Get(k1)>>)}
                ELSE {Once(T("Owner", "Delete", <<Get(k2)>>)), T("Merge", "Retain", <<Get(k2)>>)}]
PairInit == Init /\ \A e, f \in ES : es[e].spec.creation = es[f].spec.creation
PairSpec == PairInit /\ [][Next]_vars /\ Fairness

\* Polling, and fetching once.
RefreshSpecs ==
  [e \in ES |-> {T("Owner", "Retain", <<Get(k1)>>),
                 T("Owner", "Delete", <<Find({k1})>>),
                 Once(T("Owner", "Retain", <<Get(k1)>>))}]

DeleteSpecs == [e \in ES |-> {T("Owner", "Delete", <<Get(k1)>>)}]
=============================================================================
