--------------------------- MODULE MCSecretsClient ---------------------------
EXTENDS SecretsClient

CONSTANTS k1, k2, k3

MCKeys == {k1, k2, k3}
MCMatching == {k1, k2}
MCClashing == {k1, k2}
MCFirstPage == {k1}
=============================================================================
