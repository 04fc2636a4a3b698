--------------------------- MODULE MCHpaRehearsal ---------------------------
(* Model values and symmetry for HpaRehearsal. *)
EXTENDS HpaRehearsal, TLC
Symmetry == Permutations(Run) \cup Permutations(Page) \cup Permutations(Thread)
=============================================================================
