----------------------------- MODULE MCSessions -----------------------------
(* Instances of Sessions for TLC. *)
EXTENDS Sessions, TLC

CONSTANTS w1, w2, s1, s2

\* Reconciles and stores are interchangeable.
Interchangeable == Permutations(Workers) \cup Permutations(Stores)

RoleChain == <<"additional", "role">>
===========================================================================
