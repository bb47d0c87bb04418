----------------------------- MODULE MCStateStore -----------------------------
(* Instances of StateStore: writers w1 and w2, reader r1.                      *)
EXTENDS StateStore

CONSTANTS w1, w2, r1, i1, i2, i3, i4, v1, v2
=============================================================================
