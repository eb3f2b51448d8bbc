---------------------------- MODULE MCPushSecret ----------------------------
(* Instances of PushSecret for TLC. *)
EXTENDS PushSecret

CONSTANTS s1, s2, k1, k2, v1, v2

P(policy, stores, data) == [policy |-> policy, stores |-> stores, data |-> data]

\* Keys and stores come and go, and the deletion policy changes.
EditedSpecs == {P("Delete", {s1}, {k1, k2}), P("Delete", {s1, s2}, {k2}), P("None", {s1}, {k1})}
=============================================================================
