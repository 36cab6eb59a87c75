----------------------------- MODULE MCCdmCache -----------------------------
EXTENDS CdmCache, TLC

CONSTANTS v1, v2, v3

Versions == {v1, v2, v3}
Keeps == {0, 1, 2}
Symmetric == Permutations(Versions)
=============================================================================
