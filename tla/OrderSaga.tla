------------------------------ MODULE OrderSaga ------------------------------
(***************************************************************************)
(* The order saga: OrderSagaService.run drives one order through a chain   *)
(* of short local transactions (OrderSagaSteps) and remote calls to        *)
(* payment-api and shipping-api that happen between them.  Several request *)
(* threads of several pods run it at once, a participant can answer late,  *)
(* twice or never, and a pod can die between any two steps.                *)
(*                                                                         *)
(* An order is named by its idempotency key (UNIQUE in tb_saga_order).     *)
(* One inventory row is modelled: rows of different products do not meet.  *)
(* Under READ COMMITTED, with neither @Version nor a lock, a transaction   *)
(* reads that row at one moment and writes every column of it back at      *)
(* commit; the two moments are two actions here.                           *)
(***************************************************************************)
EXTENDS Integers, FiniteSetsExt

CONSTANTS
  Key,          \* idempotency keys
  NoKey,        \* "no key": what an idle request thread holds
  Handler,      \* request threads of all the pods
  Replenisher,  \* the scheduled replenish() of each pod
  Quantity,     \* quantities a client may order (@Min(1))
  InitialStock, \* available at the start
  LowWater,     \* SagaInventoryReplenisher.LOW_WATER
  RefillTo      \* SagaInventoryReplenisher.REFILL_TO

ASSUME KeyAssumption      == NoKey \notin Key
ASSUME QuantityAssumption == Quantity \subseteq Nat \ {0}
ASSUME StockAssumption    == /\ InitialStock \in Nat
                             /\ LowWater \in Nat
                             /\ RefillTo \in Nat
                             /\ LowWater <= RefillTo

FailAt == {"NONE", "INVENTORY_RESERVE", "PAYMENT_AUTHORIZE", "SHIPPING_REQUEST"}
Request == [key : Key, quantity : Quantity, failAt : FailAt]

(* Why a saga is being compensated, and the log entry that says so.  The   *)
(* code logs one step name with a message; UNKNOWN stands for the message  *)
(* "Participant unavailable - outcome unknown".                            *)
Cause == {"NONE", "PAYMENT_REJECTED", "PAYMENT_UNKNOWN",
          "SHIPPING_REJECTED", "SHIPPING_UNKNOWN"}
Unknown == {"PAYMENT_UNKNOWN", "SHIPPING_UNKNOWN"}
Step == (Cause \ {"NONE"}) \cup
        {"ORDER_CREATED", "INVENTORY_RESERVED", "INVENTORY_REFUSED",
         "PAYMENT_AUTHORIZED", "SHIPPING_REQUESTED", "PAYMENT_CANCELLED",
         "INVENTORY_RELEASED", "ORDER_FAILED", "ORDER_CONFIRMED"}

OrderStatus == {"NONE", "CREATED", "CONFIRMED", "FAILED"}
Terminal    == {"CONFIRMED", "FAILED"}
Stock       == [available : Int, reserved : Int]

(* The control points of OrderSagaService.run.                             *)
PC == {"idle", "start", "reserve", "authorize", "record", "ship", "cancel",
       "cancelQuietly", "compensate", "release", "confirm", "commit"}

VARIABLES
  status,      \* tb_saga_order.status, which tb_saga_instance.status follows
  ordered,     \* tb_saga_order.quantity
  steps,       \* tb_saga_step: the log of each saga
  inventory,   \* the tb_saga_inventory row
  payment,     \* payment-api: tb_payment.status
  shipment,    \* shipping-api: tb_shipping.status
  asked,       \* requests ever sent to the participants
  pc,          \* where each request thread is in run()
  req,         \* the request it serves
  seen,        \* the inventory row its transaction loaded
  cause,       \* why it compensates
  refill,      \* the row a running replenish() loaded
  overlaps,    \* ghost: has the row been written from a stale read?
  stocked,     \* ghost: units ever put in stock
  stranded     \* ghost: why a thread left its saga STARTED

vars == <<status, ordered, steps, inventory, payment, shipment, asked,
          pc, req, seen, cause, refill, overlaps, stocked, stranded>>

NoRequest == [key |-> NoKey, quantity |-> 0, failAt |-> "NONE"]
NoRow     == [available |-> -1, reserved |-> 0]

Ask == [to : {"authorize", "cancel", "request"}, key : Key]

TypeOK ==
  /\ status \in [Key -> OrderStatus]
  /\ ordered \in [Key -> Quantity \cup {0}]
  /\ steps \in [Key -> SUBSET Step]
  /\ inventory \in Stock
  /\ payment \in [Key -> {"NONE", "AUTHORIZED", "CANCELLED"}]
  /\ shipment \in [Key -> {"NONE", "REQUESTED"}]
  /\ asked \subseteq Ask
  /\ pc \in [Handler -> PC]
  /\ req \in [Handler -> Request \cup {NoRequest}]
  /\ seen \in [Handler -> Stock]
  /\ cause \in [Handler -> Cause]
  /\ refill \in [Replenisher -> Stock]
  /\ overlaps \in {"no", "yes"}
  /\ stocked \in Int
  /\ stranded \in [Key -> {"no", "crash", "cancelFailed"}]

Init ==
  /\ status = [k \in Key |-> "NONE"]
  /\ ordered = [k \in Key |-> 0]
  /\ steps = [k \in Key |-> {}]
  /\ inventory = [available |-> InitialStock, reserved |-> 0]
  /\ payment = [k \in Key |-> "NONE"]
  /\ shipment = [k \in Key |-> "NONE"]
  /\ asked = {}
  /\ pc = [h \in Handler |-> "idle"]
  /\ req = [h \in Handler |-> NoRequest]
  /\ seen = [h \in Handler |-> NoRow]
  /\ cause = [h \in Handler |-> "NONE"]
  /\ refill = [p \in Replenisher |-> NoRow]
  /\ overlaps = "no"
  /\ stocked = InitialStock
  /\ stranded = [k \in Key |-> "no"]

------------------------------------------------------------------------------
(* Helpers.  A definition with an underscore in its name is a faulty form  *)
(* of the one that follows it: a slip the properties are there to notice.  *)

sagas        == <<status, ordered, steps>>   \* what a saga transaction writes
stock        == <<inventory, overlaps>>
participants == <<payment, shipment>>
ghosts       == <<stocked, stranded>>

threads      == <<pc, req, seen, cause>>

Goto(h, p) ==
  /\ pc' = [pc EXCEPT ![h] = p]
  /\ seen' = [seen EXCEPT ![h] = NoRow]
  /\ UNCHANGED <<req, cause>>
Leave(h) ==
  /\ pc' = [pc EXCEPT ![h] = "idle"]
  /\ req' = [req EXCEPT ![h] = NoRequest]
  /\ seen' = [seen EXCEPT ![h] = NoRow]
  /\ cause' = [cause EXCEPT ![h] = "NONE"]
Send(m, k)  == asked' = asked \cup {[to |-> m, key |-> k]}
Asked(m, k) == [to |-> m, key |-> k] \in asked
Log(k, new) == steps' = [steps EXCEPT ![k] = @ \cup new]

(* inventory(productCode): the row as this transaction first sees it.      *)
ReadInventory(h, p) ==
  /\ pc' = [pc EXCEPT ![h] = p]
  /\ seen' = [seen EXCEPT ![h] = inventory]
  /\ UNCHANGED <<req, cause>>

(* The flush at commit writes both columns from the entity, whatever       *)
(* another transaction committed since the entity was loaded.              *)
WriteInventory(loaded, new) ==
  /\ inventory' = new
  /\ overlaps' = IF inventory = loaded THEN overlaps ELSE "yes"

KeyIsFree_NotUnique(k) == TRUE
KeyIsFree(k) == status[k] = "NONE"

Enough(s, q) == s.available >= q

Reserve(s, q) == [available |-> s.available - q, reserved |-> s.reserved + q]
Release(s, q) == [available |-> s.available + q, reserved |-> s.reserved - q]
Commit_Forgotten(s, q) == s
Commit(s, q)  == [available |-> s.available, reserved |-> s.reserved - q]

------------------------------------------------------------------------------
(* OrderSagaService.run, step by step.                                     *)

(* findByIdempotencyKey found nothing.  When it finds a saga the request   *)
(* is answered with its view and nothing changes.                          *)
Receive(h, r) ==
  /\ pc[h] = "idle"
  /\ KeyIsFree(r.key)
  /\ pc' = [pc EXCEPT ![h] = "start"]
  /\ req' = [req EXCEPT ![h] = r]
  /\ UNCHANGED <<seen, cause>>
  /\ UNCHANGED <<sagas, stock, participants, asked, refill, ghosts>>

(* start() with the failure injected at the reservation: one transaction   *)
(* writes an order that is FAILED from birth.                              *)
StartFailed(h) ==
  LET k == req[h].key IN
  /\ pc[h] = "start"
  /\ req[h].failAt = "INVENTORY_RESERVE"
  /\ KeyIsFree(k)
  /\ status' = [status EXCEPT ![k] = "FAILED"]
  /\ ordered' = [ordered EXCEPT ![k] = req[h].quantity]
  /\ Log(k, {"ORDER_CREATED", "INVENTORY_REFUSED", "ORDER_FAILED"})
  /\ Leave(h)
  /\ UNCHANGED <<stock, participants, asked, refill, ghosts>>

(* start() reads the inventory row.                                        *)
StartRead(h) ==
  /\ pc[h] = "start"
  /\ req[h].failAt # "INVENTORY_RESERVE"
  /\ ReadInventory(h, "reserve")
  /\ UNCHANGED <<sagas, stock, participants, asked, refill, ghosts>>

(* start() rolls back as a whole: too little stock, or the UNIQUE key was  *)
(* taken by a request that ran at the same time.                           *)
StartRollback(h) ==
  /\ \/ /\ pc[h] \in {"start", "reserve"}
        /\ ~KeyIsFree(req[h].key)
     \/ /\ pc[h] = "reserve"
        /\ ~Enough(seen[h], req[h].quantity)
  /\ Leave(h)
  /\ UNCHANGED <<sagas, stock, participants, asked, refill, ghosts>>

(* start() commits the order, the saga and the reservation; the thread     *)
(* then calls payment-api.  With the failure injected there, payment-api   *)
(* refuses before it touches its database, so nothing is ever to process.  *)
StartCommit(h) ==
  LET k == req[h].key
      q == req[h].quantity
  IN
  /\ pc[h] = "reserve"
  /\ KeyIsFree(k)
  /\ Enough(seen[h], q)
  /\ status' = [status EXCEPT ![k] = "CREATED"]
  /\ ordered' = [ordered EXCEPT ![k] = q]
  /\ Log(k, {"ORDER_CREATED", "INVENTORY_RESERVED"})
  /\ WriteInventory(seen[h], Reserve(seen[h], q))
  /\ IF req[h].failAt = "PAYMENT_AUTHORIZE" THEN UNCHANGED asked
                                             ELSE Send("authorize", k)
  /\ Goto(h, "authorize")
  /\ UNCHANGED <<participants, refill, ghosts>>

(* payment-api answered 200.                                               *)
AuthorizeAccepted(h) ==
  /\ pc[h] = "authorize"
  /\ req[h].failAt # "PAYMENT_AUTHORIZE"
  /\ payment[req[h].key] # "NONE"
  /\ Goto(h, "record")
  /\ UNCHANGED <<sagas, stock, participants, asked, refill, ghosts>>

Compensate(h, why) ==
  /\ pc' = [pc EXCEPT ![h] = "compensate"]
  /\ cause' = [cause EXCEPT ![h] = why]
  /\ UNCHANGED <<req, seen>>

(* payment-api answered 409.                                               *)
AuthorizeRejected(h) ==
  /\ pc[h] = "authorize"
  /\ req[h].failAt = "PAYMENT_AUTHORIZE"
  /\ Compensate(h, "PAYMENT_REJECTED")
  /\ UNCHANGED <<sagas, stock, participants, asked, refill, ghosts>>

AuthorizeUnavailable_Uncaught(h) ==
  /\ pc[h] = "authorize"
  /\ Leave(h)
  /\ UNCHANGED <<sagas, stock, participants, asked, refill, ghosts>>

AuthorizeUnavailable_NoTimeout(h) == pc[h] = "authorize" /\ FALSE

(* Connection error or read timeout: the outcome is unknown.               *)
AuthorizeUnavailable(h) ==
  /\ pc[h] = "authorize"
  /\ Compensate(h, "PAYMENT_UNKNOWN")
  /\ UNCHANGED <<sagas, stock, participants, asked, refill, ghosts>>

(* recordPaymentAuthorized(); the thread then calls shipping-api.          *)
RecordPaymentAuthorized(h) ==
  LET k == req[h].key IN
  /\ pc[h] = "record"
  /\ Log(k, {"PAYMENT_AUTHORIZED"})
  /\ IF req[h].failAt = "SHIPPING_REQUEST" THEN UNCHANGED asked
                                            ELSE Send("request", k)
  /\ Goto(h, "ship")
  /\ UNCHANGED <<status, ordered, stock, participants, refill, ghosts>>

RequestAccepted_Unread(h) ==
  /\ pc[h] = "ship"
  /\ Goto(h, "confirm")
  /\ UNCHANGED <<sagas, stock, participants, asked, refill, ghosts>>

(* shipping-api answered 200.                                              *)
RequestAccepted(h) ==
  /\ pc[h] = "ship"
  /\ req[h].failAt # "SHIPPING_REQUEST"
  /\ shipment[req[h].key] = "REQUESTED"
  /\ Goto(h, "confirm")
  /\ UNCHANGED <<sagas, stock, participants, asked, refill, ghosts>>

RequestRejected_NoCancel(h) ==
  /\ pc[h] = "ship"
  /\ req[h].failAt = "SHIPPING_REQUEST"
  /\ Compensate(h, "SHIPPING_REJECTED")
  /\ UNCHANGED <<sagas, stock, participants, asked, refill, ghosts>>

(* shipping-api answered 409; the payment is cancelled before anything is  *)
(* written down.                                                           *)
RequestRejected(h) ==
  /\ pc[h] = "ship"
  /\ req[h].failAt = "SHIPPING_REQUEST"
  /\ Send("cancel", req[h].key)
  /\ Goto(h, "cancel")
  /\ UNCHANGED <<sagas, stock, participants, refill, ghosts>>

(* shipping-api could not be reached; cancelPaymentQuietly.                *)
RequestUnavailable(h) ==
  /\ pc[h] = "ship"
  /\ Send("cancel", req[h].key)
  /\ Goto(h, "cancelQuietly")
  /\ UNCHANGED <<sagas, stock, participants, refill, ghosts>>

CancelAccepted_Unread(h) ==
  /\ pc[h] = "cancel"
  /\ Compensate(h, "SHIPPING_REJECTED")
  /\ UNCHANGED <<sagas, stock, participants, asked, refill, ghosts>>

(* payment-api confirmed the cancellation after a 409.                     *)
CancelAccepted(h) ==
  /\ pc[h] = "cancel"
  /\ payment[req[h].key] = "CANCELLED"
  /\ Compensate(h, "SHIPPING_REJECTED")
  /\ UNCHANGED <<sagas, stock, participants, asked, refill, ghosts>>

(* The cancellation after a 409 failed.  Nothing catches the exception:    *)
(* the request ends with 503 and the saga is left where it was.            *)
CancelFailed(h) ==
  /\ pc[h] = "cancel"
  /\ stranded' = [stranded EXCEPT ![req[h].key] = "cancelFailed"]
  /\ Leave(h)
  /\ UNCHANGED <<sagas, stock, participants, asked, refill, stocked>>

CancelQuietly_Rethrown(h) ==
  /\ pc[h] = "cancelQuietly"
  /\ Leave(h)
  /\ UNCHANGED <<sagas, stock, participants, asked, refill, ghosts>>

(* cancelPaymentQuietly returns, whether the cancellation worked or not.   *)
CancelQuietly(h) ==
  /\ pc[h] = "cancelQuietly"
  /\ Compensate(h, "SHIPPING_UNKNOWN")
  /\ UNCHANGED <<sagas, stock, participants, asked, refill, ghosts>>

(* A compensating transaction reads the inventory row ...                  *)
CompensateRead(h) ==
  /\ pc[h] = "compensate"
  /\ ReadInventory(h, "release")
  /\ UNCHANGED <<sagas, stock, participants, asked, refill, ghosts>>

CancelStep(why) == IF why = "SHIPPING_REJECTED" THEN {"PAYMENT_CANCELLED"} ELSE {}

CompensateCommit_FallsThrough(h) ==
  LET k   == req[h].key
      why == cause[h]
  IN
  /\ pc[h] = "release"
  /\ Log(k, {why, "INVENTORY_RELEASED", "ORDER_FAILED"} \cup CancelStep(why))
  /\ WriteInventory(seen[h], Release(seen[h], req[h].quantity))
  /\ status' = [status EXCEPT ![k] = "FAILED"]
  /\ UNCHANGED ordered
  /\ Goto(h, "record")
  /\ UNCHANGED <<participants, asked, refill, ghosts>>

(* ... and commits: compensateAfterPaymentFailure,                         *)
(* compensateAfterShippingFailure, compensateAfterParticipantUnavailable.  *)
CompensateCommit(h) ==
  LET k   == req[h].key
      why == cause[h]
  IN
  /\ pc[h] = "release"
  /\ Log(k, {why, "INVENTORY_RELEASED", "ORDER_FAILED"} \cup CancelStep(why))
  /\ WriteInventory(seen[h], Release(seen[h], req[h].quantity))
  /\ status' = [status EXCEPT ![k] = "FAILED"]
  /\ UNCHANGED ordered
  /\ Leave(h)
  /\ UNCHANGED <<participants, asked, refill, ghosts>>

(* confirm() reads the inventory row ...                                   *)
ConfirmRead(h) ==
  /\ pc[h] = "confirm"
  /\ ReadInventory(h, "commit")
  /\ UNCHANGED <<sagas, stock, participants, asked, refill, ghosts>>

(* ... and commits the sale.                                               *)
ConfirmCommit(h) ==
  LET k == req[h].key IN
  /\ pc[h] = "commit"
  /\ Log(k, {"SHIPPING_REQUESTED", "ORDER_CONFIRMED"})
  /\ WriteInventory(seen[h], Commit(seen[h], req[h].quantity))
  /\ status' = [status EXCEPT ![k] = "CONFIRMED"]
  /\ UNCHANGED ordered
  /\ Leave(h)
  /\ UNCHANGED <<participants, asked, refill, ghosts>>

Started == {"authorize", "record", "ship", "cancel", "cancelQuietly",
            "compensate", "release", "confirm", "commit"}

(* The pod dies, or the transaction the thread is in fails.  What is open   *)
(* rolls back, and nothing takes up what was done before.                  *)
Crash(h) ==
  /\ pc[h] # "idle"
  /\ Leave(h)
  /\ stranded' = IF pc[h] \in Started
                   THEN [stranded EXCEPT ![req[h].key] = "crash"]
                   ELSE stranded
  /\ UNCHANGED <<sagas, stock, participants, asked, refill, stocked>>

------------------------------------------------------------------------------
(* The participants.  A request once sent may be processed late, more than *)
(* once (the HTTP client resends a POST on a broken connection) or never.  *)

(* tb_payment: insert ... on conflict (idempotency_key) do nothing.        *)
PaymentAuthorize(k) ==
  /\ Asked("authorize", k)
  /\ payment[k] = "NONE"
  /\ payment' = [payment EXCEPT ![k] = "AUTHORIZED"]
  /\ UNCHANGED <<sagas, stock, shipment, asked, threads, refill, ghosts>>

(* update tb_payment set status = 'CANCELLED' where id = ...               *)
PaymentCancel(k) ==
  /\ Asked("cancel", k)
  /\ payment[k] # "NONE"
  /\ payment' = [payment EXCEPT ![k] = "CANCELLED"]
  /\ UNCHANGED <<sagas, stock, shipment, asked, threads, refill, ghosts>>

(* tb_shipping: insert ... on conflict (idempotency_key) do nothing.       *)
ShippingRequest(k) ==
  /\ Asked("request", k)
  /\ shipment[k] = "NONE"
  /\ shipment' = [shipment EXCEPT ![k] = "REQUESTED"]
  /\ UNCHANGED <<sagas, stock, payment, asked, threads, refill, ghosts>>

------------------------------------------------------------------------------
(* SagaInventoryReplenisher.replenish, one transaction per pod and period. *)

ReplenishRead(p) ==
  /\ refill[p] = NoRow
  /\ inventory.available < LowWater
  /\ refill' = [refill EXCEPT ![p] = inventory]
  /\ UNCHANGED <<sagas, stock, participants, asked, threads, ghosts>>

Replenish(p) ==
  LET s == refill[p] IN
  /\ s # NoRow
  /\ WriteInventory(s, [available |-> RefillTo, reserved |-> s.reserved])
  /\ stocked' = stocked + (RefillTo - s.available)
  /\ refill' = [refill EXCEPT ![p] = NoRow]
  /\ UNCHANGED <<sagas, participants, asked, threads, stranded>>

------------------------------------------------------------------------------
Run(h) ==
  \/ StartFailed(h) \/ StartRead(h) \/ StartRollback(h) \/ StartCommit(h)
  \/ AuthorizeAccepted(h) \/ AuthorizeRejected(h) \/ AuthorizeUnavailable(h)
  \/ RecordPaymentAuthorized(h)
  \/ RequestAccepted(h) \/ RequestRejected(h) \/ RequestUnavailable(h)
  \/ CancelAccepted(h) \/ CancelFailed(h) \/ CancelQuietly(h)
  \/ CompensateRead(h) \/ CompensateCommit(h)
  \/ ConfirmRead(h) \/ ConfirmCommit(h)

Next ==
  \/ \E h \in Handler : \/ \E r \in Request : Receive(h, r)
                        \/ Run(h)
                        \/ Crash(h)
  \/ \E k \in Key : PaymentAuthorize(k) \/ PaymentCancel(k) \/ ShippingRequest(k)
  \/ \E p \in Replenisher : ReplenishRead(p) \/ Replenish(p)

Spec == Init /\ [][Next]_vars

(* A thread that is not killed goes on: the remote calls end within their  *)
(* 2 s and 5 s timeouts and the transactions are local.  Participants owe  *)
(* nothing: they may never process what was sent.                          *)
FairSpec == Spec /\ \A h \in Handler : WF_vars(Run(h))

------------------------------------------------------------------------------
(* Properties.                                                             *)

Running(k) == {h \in Handler : req[h].key = k /\ pc[h] \in Started}

(* An order is confirmed only while both participants hold it: the payment *)
(* is authorized, not cancelled, and the shipment is booked.  (run, lines  *)
(* 46-80: no path that asks for a cancellation may reach confirm.)         *)
ConfirmedMeansAccepted ==
  \A k \in Key : status[k] = "CONFIRMED" =>
                   payment[k] = "AUTHORIZED" /\ shipment[k] = "REQUESTED"

(* The step log a reader sees tells the truth about the other services:    *)
(* what it calls authorized, booked or cancelled is so in their databases. *)
LogIsTruthful ==
  \A k \in Key :
    /\ "PAYMENT_AUTHORIZED" \in steps[k] => payment[k] # "NONE"
    /\ "SHIPPING_REQUESTED" \in steps[k] => shipment[k] = "REQUESTED"
    /\ "PAYMENT_CANCELLED"  \in steps[k] => payment[k] = "CANCELLED"

(* A failed order leaves something behind at a participant only if the log *)
(* says that the outcome of a call was unknown; a rejection is undone.     *)
LeftoverIsLogged ==
  \A k \in Key : status[k] = "FAILED" =>
    /\ payment[k] = "AUTHORIZED" => steps[k] \cap Unknown # {}
    /\ shipment[k] = "REQUESTED" => "SHIPPING_UNKNOWN" \in steps[k]

(* Participants hold nothing for an order that does not exist, and nothing *)
(* is shipped that was not first paid for: start() commits before the      *)
(* first call and shipping is asked only after payment answered.           *)
NothingWithoutOrder ==
  \A k \in Key :
    /\ payment[k] # "NONE"  => status[k] # "NONE"
    /\ shipment[k] # "NONE" => payment[k] # "NONE"

(* Two requests with the same idempotency key never both get past start(). *)
OneRunPerKey == \A k \in Key : Cardinality(Running(k)) <= 1

(* A saga that stays STARTED with no thread on it was left by a pod that   *)
(* died or by a cancellation that failed after shipping refused: every     *)
(* other path, a timeout included, ends it.                                *)
StrandedIsExplained ==
  \A k \in Key : status[k] = "CREATED" /\ Running(k) = {} => stranded[k] # "no"

(* While no transaction wrote the row from a stale read, the row is exact: *)
(* reserved is what the unfinished sagas hold and, with what is available  *)
(* and what was sold, it adds up to what was put in stock.  Every failure  *)
(* path must therefore release exactly once.                               *)
Held(s) == {k \in Key : status[k] = s}
Units(S)     == MapThenSumSet(LAMBDA k : ordered[k], S)
InventoryIsExact ==
  overlaps = "no" =>
    /\ inventory.reserved = Units(Held("CREATED"))
    /\ inventory.available + inventory.reserved + Units(Held("CONFIRMED")) = stocked

(* Once an order is confirmed or failed, nothing about it changes again:   *)
(* not its status, not its log.                                            *)
OutcomeIsFinal ==
  [][\A k \in Key : status[k] \in Terminal =>
                      status'[k] = status[k] /\ steps'[k] = steps[k]]_vars

(* Every request that is not killed is answered: no wait is unbounded.     *)
EveryRequestIsAnswered ==
  \A h \in Handler : pc[h] # "idle" ~> pc[h] = "idle"

(* Every order that was begun is settled, unless its run was killed or its *)
(* cancellation failed.                                                    *)
EveryOrderSettles ==
  \A k \in Key : status[k] = "CREATED" ~>
                   status[k] \in Terminal \/ stranded[k] # "no"

(* The saga keeps the promise OrderContract states.                        *)
Contract == INSTANCE OrderContract
ContractHolds == Contract!Spec

(* What OrderSagaService.java:21-22 and :84-87 say: a failing cancellation *)
(* does not stop the compensation, and only a process that dies leaves a   *)
(* saga STARTED.  The code breaks it at line 70.                           *)
OnlyCrashStrands == \A k \in Key : stranded[k] # "cancelFailed"

(* What SagaInventoryReplenisher.java:18-19 says: a refill leaves reserved *)
(* alone.  The code breaks it: the flush writes every column of the entity *)
(* it loaded before another transaction committed.                         *)
RefillKeepsReserved ==
  [][\A p \in Replenisher : Replenish(p) => inventory'.reserved = inventory.reserved]_vars
==============================================================================
