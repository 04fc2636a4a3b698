---------------------------- MODULE OrderContract ----------------------------
(***************************************************************************)
(* What the order saga promises to a client and to the two participants,   *)
(* with nothing said of threads, transactions, retries or inventory.       *)
(* OrderSaga implements it.                                                *)
(***************************************************************************)
CONSTANT Key

VARIABLES
  status,    \* what a client is shown of the order
  payment,   \* what payment-api holds
  shipment   \* what shipping-api holds

vars == <<status, payment, shipment>>

Init ==
  /\ status = [k \in Key |-> "NONE"]
  /\ payment = [k \in Key |-> "NONE"]
  /\ shipment = [k \in Key |-> "NONE"]

(* A new order is taken in, or refused at once.                            *)
Take(k) ==
  /\ status[k] = "NONE"
  /\ \E s \in {"CREATED", "FAILED"} : status' = [status EXCEPT ![k] = s]
  /\ UNCHANGED <<payment, shipment>>

(* A participant may act on an order that has failed meanwhile, when its   *)
(* answer came too late.  It never changes anything for a confirmed one.   *)
Pay(k) ==
  /\ status[k] \in {"CREATED", "FAILED"}
  /\ payment[k] = "NONE"
  /\ payment' = [payment EXCEPT ![k] = "AUTHORIZED"]
  /\ UNCHANGED <<status, shipment>>

Cancel(k) ==
  /\ status[k] \in {"CREATED", "FAILED"}
  /\ payment[k] = "AUTHORIZED"
  /\ payment' = [payment EXCEPT ![k] = "CANCELLED"]
  /\ UNCHANGED <<status, shipment>>

Ship(k) ==
  /\ status[k] \in {"CREATED", "FAILED"}
  /\ payment[k] # "NONE"
  /\ shipment[k] = "NONE"
  /\ shipment' = [shipment EXCEPT ![k] = "REQUESTED"]
  /\ UNCHANGED <<status, payment>>

(* Both participants hold the order.                                       *)
Confirm(k) ==
  /\ status[k] = "CREATED"
  /\ payment[k] = "AUTHORIZED"
  /\ shipment[k] = "REQUESTED"
  /\ status' = [status EXCEPT ![k] = "CONFIRMED"]
  /\ UNCHANGED <<payment, shipment>>

Fail(k) ==
  /\ status[k] = "CREATED"
  /\ status' = [status EXCEPT ![k] = "FAILED"]
  /\ UNCHANGED <<payment, shipment>>

Next ==
  \E k \in Key : Take(k) \/ Pay(k) \/ Cancel(k) \/ Ship(k) \/ Confirm(k) \/ Fail(k)

Spec == Init /\ [][Next]_vars
==============================================================================
