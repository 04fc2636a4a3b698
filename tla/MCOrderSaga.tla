----------------------------- MODULE MCOrderSaga -----------------------------
(* Constants of the TLC runs of OrderSaga.                                 *)
EXTENDS OrderSaga, TLC

CONSTANTS k1, k2, h1, h2, p1

Symmetry == Permutations({k1, k2}) \cup Permutations({h1, h2})
==============================================================================
