----------------------------- MODULE MCEventRelay -----------------------------
(* Constants of the TLC runs of EventRelay.                                *)
EXTENDS EventRelay, TLC

CONSTANTS o1, o2, r1, r2, c1, c2

Symmetry == Permutations({r1, r2})
==============================================================================
