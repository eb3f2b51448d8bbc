---------------------- MODULE MCClusterExternalSecret -----------------------
(* Instances of ClusterExternalSecret for TLC. *)
EXTENDS ClusterExternalSecret

CONSTANTS a, b, n1, n2, la, lb, x1, t1, t2

C(sel, tmpl) == [name |-> x1, sel |-> sel, tmpl |-> tmpl]

\* One that is edited.
EditedSpecs == [c \in CES |-> {C(la, t1), C(la, t2)}]
=============================================================================
