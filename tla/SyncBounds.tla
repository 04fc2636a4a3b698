----------------------------- MODULE SyncBounds -----------------------------
(***************************************************************************)
(* What the wiki and the blog are synced with: texts, and the bounds of the   *)
(* two models.                                                              *)
(***************************************************************************)
EXTENDS Integers, FiniteSets

CONSTANTS
    Text, None,
    MaxEdits,       \* bound: saves and deletions on the admin screen
    MaxWrites,      \* bound: texts written by the developer
    MaxFaults       \* bound: failing requests, lost answers, killed commands

ASSUME NoneAssumption == None \notin Text \cup Nat
ASSUME RecordAssumption == None \notin [text: Text, at: Nat, version: Nat]
ASSUME BoundAssumption == {MaxEdits, MaxWrites, MaxFaults} \subseteq Nat
=============================================================================
