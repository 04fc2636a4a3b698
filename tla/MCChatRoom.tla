----------------------------- MODULE MCChatRoom -----------------------------
(* Instances of ChatRoom for TLC. *)
EXTENDS ChatRoom, TLC

Symmetry == Permutations(Guest) \cup Permutations(Worker) \cup Permutations(Pod)
=============================================================================
