---------------------------- MODULE MCContentSync ----------------------------
(* The slugs and texts of ContentSync as model values.  There is no symmetry: *)
(* the run checks liveness.                                                 *)
EXTENDS ContentSync
=============================================================================
