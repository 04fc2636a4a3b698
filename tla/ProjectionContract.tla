-------------------------- MODULE ProjectionContract --------------------------
(***************************************************************************)
(* What the order screen promises about another service's data: it may lag *)
(* behind, but it shows nothing that has not happened, and it goes back    *)
(* only for an order over which two writers have raced.  EventRelay        *)
(* implements it.                                                          *)
(***************************************************************************)
EXTENDS Naturals

CONSTANT Order

VARIABLES
  payment,  \* what payment-api holds
  shown,    \* what the screen shows of it
  raced     \* orders whose screen two writers have been at together

vars == <<payment, shown, raced>>

Rank(s) == CASE s = "NONE" -> 0 [] s = "AUTHORIZED" -> 1 [] s = "CANCELLED" -> 2

Init ==
  /\ payment = [o \in Order |-> "NONE"]
  /\ shown = [o \in Order |-> "NONE"]
  /\ raced = {}

(* payment-api authorizes, then perhaps cancels.                           *)
Decide(o) ==
  /\ \/ payment[o] = "NONE" /\ payment' = [payment EXCEPT ![o] = "AUTHORIZED"]
     \/ payment[o] = "AUTHORIZED" /\ payment' = [payment EXCEPT ![o] = "CANCELLED"]
  /\ UNCHANGED <<shown, raced>>

(* The screen catches up, perhaps over a step it never showed; once raced  *)
(* over, it may show anything that was decided.                            *)
Show(o) ==
  /\ \E s \in {"AUTHORIZED", "CANCELLED"} :
       /\ Rank(shown[o]) < Rank(s) \/ o \in raced
       /\ Rank(s) <= Rank(payment[o])
       /\ shown' = [shown EXCEPT ![o] = s]
  /\ UNCHANGED <<payment, raced>>

Race(o) ==
  /\ raced' = raced \cup {o}
  /\ UNCHANGED <<payment, shown>>

Next == \E o \in Order : Decide(o) \/ Show(o) \/ Race(o)

Spec == Init /\ [][Next]_vars
==============================================================================
