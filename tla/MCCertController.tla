-------------------------- MODULE MCCertController --------------------------
(* Two CRDs, certificates of two lookahead periods, and a clock that passes one expiry. *)
EXTENDS CertController, TLC

CONSTANTS c1, c2

MCCrds == {c1, c2}
MCCAIds == 1 .. 10
=============================================================================
