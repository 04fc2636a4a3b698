----------------------------- MODULE MCOmokRoom -----------------------------
(***************************************************************************)
(* Instances of OmokRoom for TLC.  Tabs and room codes are interchangeable; *)
(* the symmetry is used where no liveness is checked.                       *)
(***************************************************************************)
EXTENDS OmokRoom, TLC

Symmetry == Permutations(Tab) \cup Permutations(Room)
=============================================================================
