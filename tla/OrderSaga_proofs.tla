-------------------------- MODULE OrderSaga_proofs --------------------------
(***************************************************************************)
(* Theorems of OrderSaga, for any number of orders, request threads and    *)
(* replenishers, any quantities and any stock.                             *)
(***************************************************************************)
EXTENDS OrderSaga, FiniteSetTheorems, TLAPS

------------------------------------------------------------------------------
(* Types.  TypeOK is not inductive: a thread sends the key of its request, *)
(* which is one only while the thread is busy, and logs the cause it       *)
(* compensates for, which is a step only when there is one.                *)

Busy == \A h \in Handler :
          /\ pc[h] # "idle" => req[h] \in Request
          /\ pc[h] \in {"compensate", "release"} => cause[h] # "NONE"

ThreadsType ==
  /\ pc \in [Handler -> PC]
  /\ req \in [Handler -> Request \cup {NoRequest}]
  /\ seen \in [Handler -> Stock]
  /\ cause \in [Handler -> Cause]
  /\ Busy

SagasType ==
  /\ status \in [Key -> OrderStatus]
  /\ ordered \in [Key -> Quantity \cup {0}]
  /\ steps \in [Key -> SUBSET Step]

StockType ==
  /\ inventory \in Stock
  /\ overlaps \in {"no", "yes"}
  /\ stocked \in Int

RestType ==
  /\ payment \in [Key -> {"NONE", "AUTHORIZED", "CANCELLED"}]
  /\ shipment \in [Key -> {"NONE", "REQUESTED"}]
  /\ asked \subseteq Ask
  /\ refill \in [Replenisher -> Stock]
  /\ stranded \in [Key -> {"no", "crash", "cancelFailed"}]

TypeInv == ThreadsType /\ SagasType /\ StockType /\ RestType

(* The type invariant and Busy, regrouped by what the actions change.      *)
LEMMA TypeInvSplit == TypeInv <=> TypeOK /\ Busy
BY DEF TypeInv, TypeOK, ThreadsType, SagasType, StockType, RestType

LEMMA InitType == Init => TypeInv
BY StockAssumption
   DEF Init, TypeInv, ThreadsType, SagasType, StockType, RestType, Busy,
       OrderStatus, Step, Stock, PC, Cause, NoRow, NoRequest

(* What the moves of a request thread preserve.                            *)
LEMMA LeaveType ==
  ASSUME ThreadsType, NEW h \in Handler, Leave(h) PROVE ThreadsType'
BY DEF Leave, ThreadsType, Busy, PC, Stock, NoRow, Cause

LEMMA GotoType ==
  ASSUME ThreadsType, NEW h \in Handler, pc[h] # "idle",
         NEW p \in PC \ {"compensate", "release"}, Goto(h, p)
  PROVE  ThreadsType'
BY DEF Goto, ThreadsType, Busy, Stock, NoRow

LEMMA ReadType ==
  ASSUME ThreadsType, StockType, NEW h \in Handler, pc[h] # "idle", NEW p \in PC,
         p = "release" => pc[h] = "compensate", p # "compensate",
         ReadInventory(h, p)
  PROVE  ThreadsType'
BY DEF ReadInventory, ThreadsType, StockType, Busy

LEMMA CompensateType ==
  ASSUME ThreadsType, NEW h \in Handler, pc[h] # "idle", NEW why \in Cause \ {"NONE"},
         Compensate(h, why)
  PROVE  ThreadsType'
BY DEF Compensate, ThreadsType, Busy, PC

(* A busy thread holds a key and a quantity; what it computes is a row.    *)
LEMMA BusyRequest ==
  ASSUME ThreadsType, NEW h \in Handler, pc[h] # "idle"
  PROVE  /\ req[h] \in Request /\ req[h].key \in Key
         /\ req[h].quantity \in Quantity /\ req[h].quantity \in Nat
BY QuantityAssumption DEF ThreadsType, Busy, Request

LEMMA RowType ==
  ASSUME NEW s \in Stock, NEW q \in Nat
  PROVE  Reserve(s, q) \in Stock /\ Release(s, q) \in Stock /\ Commit(s, q) \in Stock
BY DEF Reserve, Release, Commit, Stock

LEMMA WriteType ==
  ASSUME StockType, NEW s, NEW new \in Stock, WriteInventory(s, new), UNCHANGED stocked
  PROVE  StockType'
BY DEF WriteInventory, StockType

LEMMA SendType ==
  ASSUME asked \subseteq Ask, NEW k \in Key, NEW m \in {"authorize", "cancel", "request"},
         Send(m, k)
  PROVE  asked' \subseteq Ask
BY DEF Send, Ask

LEMMA RunType == ASSUME TypeInv, NEW h \in Handler, Run(h) PROVE TypeInv'
<1> USE DEF TypeInv, sagas, stock, participants, ghosts, threads
<1>1. CASE StartFailed(h)
  <2>1. ThreadsType' BY <1>1, LeaveType DEF StartFailed
  <2>2. SagasType' BY <1>1, BusyRequest
    DEF StartFailed, SagasType, Log, OrderStatus, Step, ThreadsType
  <2>3. StockType' BY <1>1 DEF StartFailed, StockType
  <2>4. RestType' BY <1>1 DEF StartFailed, RestType
  <2> QED BY <2>1, <2>2, <2>3, <2>4
<1>2. CASE StartRead(h)
  BY <1>2, ReadType DEF StartRead, PC, SagasType, StockType, RestType
<1>3. CASE StartRollback(h)
  BY <1>3, LeaveType DEF StartRollback, SagasType, StockType, RestType
<1>4. CASE StartCommit(h)
  <2>1. ThreadsType' BY <1>4, GotoType DEF StartCommit, PC
  <2>2. SagasType' BY <1>4, BusyRequest
    DEF StartCommit, SagasType, Log, OrderStatus, Step, ThreadsType
  <2>3. StockType'
    <3>1. seen[h] \in Stock /\ pc[h] # "idle" BY <1>4 DEF StartCommit, ThreadsType
    <3> QED BY <1>4, <3>1, BusyRequest, RowType, WriteType DEF StartCommit
  <2>4. RestType' BY <1>4, BusyRequest, SendType DEF StartCommit, RestType
  <2> QED BY <2>1, <2>2, <2>3, <2>4
<1>5. CASE AuthorizeAccepted(h)
  BY <1>5, GotoType DEF AuthorizeAccepted, PC, SagasType, StockType, RestType
<1>6. CASE AuthorizeRejected(h)
  BY <1>6, CompensateType DEF AuthorizeRejected, Cause, SagasType, StockType, RestType
<1>7. CASE AuthorizeUnavailable(h)
  BY <1>7, CompensateType DEF AuthorizeUnavailable, Cause, SagasType, StockType, RestType
<1>8. CASE RecordPaymentAuthorized(h)
  <2>1. ThreadsType' BY <1>8, GotoType DEF RecordPaymentAuthorized, PC
  <2>2. SagasType' BY <1>8, BusyRequest
    DEF RecordPaymentAuthorized, SagasType, Log, OrderStatus, Step, ThreadsType
  <2>3. StockType' BY <1>8 DEF RecordPaymentAuthorized, StockType
  <2>4. RestType' BY <1>8, BusyRequest, SendType DEF RecordPaymentAuthorized, RestType
  <2> QED BY <2>1, <2>2, <2>3, <2>4
<1>9. CASE RequestAccepted(h)
  BY <1>9, GotoType DEF RequestAccepted, PC, SagasType, StockType, RestType
<1>10. CASE RequestRejected(h)
  <2>1. ThreadsType' BY <1>10, GotoType DEF RequestRejected, PC
  <2>2. SagasType' BY <1>10 DEF RequestRejected, SagasType
  <2>3. StockType' BY <1>10 DEF RequestRejected, StockType
  <2>4. RestType' BY <1>10, BusyRequest, SendType DEF RequestRejected, RestType
  <2> QED BY <2>1, <2>2, <2>3, <2>4
<1>11. CASE RequestUnavailable(h)
  <2>1. ThreadsType' BY <1>11, GotoType DEF RequestUnavailable, PC
  <2>2. SagasType' BY <1>11 DEF RequestUnavailable, SagasType
  <2>3. StockType' BY <1>11 DEF RequestUnavailable, StockType
  <2>4. RestType' BY <1>11, BusyRequest, SendType DEF RequestUnavailable, RestType
  <2> QED BY <2>1, <2>2, <2>3, <2>4
<1>12. CASE CancelAccepted(h)
  BY <1>12, CompensateType DEF CancelAccepted, Cause, SagasType, StockType, RestType
<1>13. CASE CancelFailed(h)
  <2>1. ThreadsType' BY <1>13, LeaveType DEF CancelFailed
  <2>2. SagasType' BY <1>13 DEF CancelFailed, SagasType
  <2>3. StockType' BY <1>13 DEF CancelFailed, StockType
  <2>4. RestType' BY <1>13 DEF CancelFailed, RestType
  <2> QED BY <2>1, <2>2, <2>3, <2>4
<1>14. CASE CancelQuietly(h)
  BY <1>14, CompensateType DEF CancelQuietly, Cause, SagasType, StockType, RestType
<1>15. CASE CompensateRead(h)
  BY <1>15, ReadType DEF CompensateRead, PC, SagasType, StockType, RestType
<1>16. CASE CompensateCommit(h)
  <2>1. ThreadsType' BY <1>16, LeaveType DEF CompensateCommit
  <2>2. SagasType'
    <3>1. status' \in [Key -> OrderStatus]
      BY <1>16 DEF CompensateCommit, SagasType, OrderStatus
    <3>2. {cause[h], "INVENTORY_RELEASED", "ORDER_FAILED"} \cup CancelStep(cause[h])
             \subseteq Step
      BY <1>16 DEF CompensateCommit, ThreadsType, Busy, Step, Cause, CancelStep
    <3>3. steps' \in [Key -> SUBSET Step]
      BY <1>16, <3>2 DEF CompensateCommit, SagasType, Log
    <3> QED BY <1>16, <3>1, <3>3 DEF CompensateCommit, SagasType
  <2>3. StockType'
    <3>1. seen[h] \in Stock /\ pc[h] # "idle" BY <1>16 DEF CompensateCommit, ThreadsType
    <3> QED BY <1>16, <3>1, BusyRequest, RowType, WriteType DEF CompensateCommit
  <2>4. RestType' BY <1>16 DEF CompensateCommit, RestType
  <2> QED BY <2>1, <2>2, <2>3, <2>4
<1>17. CASE ConfirmRead(h)
  BY <1>17, ReadType DEF ConfirmRead, PC, SagasType, StockType, RestType
<1>18. CASE ConfirmCommit(h)
  <2>1. ThreadsType' BY <1>18, LeaveType DEF ConfirmCommit
  <2>2. SagasType'
    <3>1. status' \in [Key -> OrderStatus]
      BY <1>18 DEF ConfirmCommit, SagasType, OrderStatus
    <3>2. steps' \in [Key -> SUBSET Step]
      BY <1>18 DEF ConfirmCommit, SagasType, Log, Step
    <3> QED BY <1>18, <3>1, <3>2 DEF ConfirmCommit, SagasType
  <2>3. StockType'
    <3>1. seen[h] \in Stock /\ pc[h] # "idle" BY <1>18 DEF ConfirmCommit, ThreadsType
    <3> QED BY <1>18, <3>1, BusyRequest, RowType, WriteType DEF ConfirmCommit
  <2>4. RestType' BY <1>18 DEF ConfirmCommit, RestType
  <2> QED BY <2>1, <2>2, <2>3, <2>4
<1> QED
  BY <1>1, <1>2, <1>3, <1>4, <1>5, <1>6, <1>7, <1>8, <1>9, <1>10, <1>11, <1>12,
     <1>13, <1>14, <1>15, <1>16, <1>17, <1>18 DEF Run

LEMMA NextType == TypeInv /\ [Next]_vars => TypeInv'
<1> SUFFICES ASSUME TypeInv, [Next]_vars PROVE TypeInv'
  OBVIOUS
<1> USE DEF TypeInv, sagas, stock, participants, ghosts, threads
<1>1. ASSUME NEW h \in Handler, NEW r \in Request, Receive(h, r) PROVE TypeInv'
  <2>1. ThreadsType' BY <1>1 DEF Receive, ThreadsType, Busy, PC
  <2> QED BY <1>1, <2>1 DEF Receive, SagasType, StockType, RestType
<1>2. ASSUME NEW h \in Handler, Run(h) PROVE TypeInv'
  BY <1>2, RunType
<1>3. ASSUME NEW h \in Handler, Crash(h) PROVE TypeInv'
  BY <1>3, LeaveType DEF Crash, SagasType, StockType, RestType
<1>4. ASSUME NEW k \in Key, PaymentAuthorize(k) \/ PaymentCancel(k) \/ ShippingRequest(k)
      PROVE  TypeInv'
  BY <1>4 DEF PaymentAuthorize, PaymentCancel, ShippingRequest,
              ThreadsType, Busy, SagasType, StockType, RestType
<1>5. ASSUME NEW p \in Replenisher, ReplenishRead(p) PROVE TypeInv'
  BY <1>5 DEF ReplenishRead, ThreadsType, Busy, SagasType, StockType, RestType
<1>6. ASSUME NEW p \in Replenisher, Replenish(p) PROVE TypeInv'
  BY <1>6, StockAssumption
     DEF Replenish, WriteInventory, ThreadsType, Busy, SagasType, StockType, RestType,
         Stock, NoRow
<1>7. CASE UNCHANGED vars
  BY <1>7 DEF vars, ThreadsType, Busy, SagasType, StockType, RestType
<1> QED BY <1>1, <1>2, <1>3, <1>4, <1>5, <1>6, <1>7 DEF Next

LEMMA TypeInvariant == Spec => []TypeInv
BY InitType, NextType, PTL DEF Spec

(* Every variable keeps its type, whatever threads, participants and       *)
(* replenishers do and however often pods die.                             *)
THEOREM TypeCorrect == Spec => []TypeOK
<1>1. TypeInv => TypeOK BY TypeInvSplit
<1> QED BY TypeInvariant, <1>1, PTL
------------------------------------------------------------------------------
(* The inductive invariant.  RunInv(h) is what the thread h may rely on at *)
(* its place in run(), KeyInv(k) what holds of an order whoever is at it.  *)

Has(h, places) == pc[h] \in places

(* What the thread h knows of the order it runs.                           *)
RunInv(h) ==
  LET k == req[h].key IN
  /\ Has(h, Started) => status[k] = "CREATED"
  /\ Has(h, {"record", "ship", "cancel", "cancelQuietly", "confirm", "commit"})
       => payment[k] # "NONE"
  /\ Has(h, {"authorize", "record", "ship", "confirm", "commit"}) => ~Asked("cancel", k)
  /\ Has(h, {"authorize", "record"}) => ~Asked("request", k)
  /\ Has(h, {"confirm", "commit"}) => shipment[k] = "REQUESTED"
  /\ Has(h, {"authorize"}) /\ req[h].failAt = "PAYMENT_AUTHORIZE" => ~Asked("authorize", k)
  /\ Has(h, {"ship"}) /\ req[h].failAt = "SHIPPING_REQUEST" => ~Asked("request", k)
  /\ Has(h, {"cancel"}) => ~Asked("request", k)
  /\ Has(h, {"compensate", "release"}) =>
       /\ cause[h] = "PAYMENT_REJECTED" => ~Asked("authorize", k)
       /\ cause[h] = "SHIPPING_REJECTED" => payment[k] = "CANCELLED"
       /\ cause[h] # "SHIPPING_UNKNOWN" => ~Asked("request", k)

(* What was asked, what the participants did and what the order says.      *)
AskInv(k) ==
  /\ Asked("authorize", k) => status[k] # "NONE"
  /\ payment[k] # "NONE" => Asked("authorize", k)
  /\ Asked("cancel", k) => payment[k] # "NONE" /\ status[k] \in {"CREATED", "FAILED"}
  /\ payment[k] = "CANCELLED" => Asked("cancel", k)
  /\ Asked("request", k) => payment[k] # "NONE"
  /\ shipment[k] = "REQUESTED" => Asked("request", k)
  /\ status[k] = "CONFIRMED" => ~Asked("cancel", k) /\ shipment[k] = "REQUESTED"

(* What the log and the status say, and what may still happen.             *)
LogInv(k) ==
  /\ status[k] = "NONE" => steps[k] = {}
  /\ "PAYMENT_AUTHORIZED" \in steps[k] => payment[k] # "NONE"
  /\ "SHIPPING_REQUESTED" \in steps[k] => shipment[k] = "REQUESTED"
  /\ "PAYMENT_CANCELLED" \in steps[k] => payment[k] = "CANCELLED"
  /\ status[k] = "FAILED" =>
       /\ Asked("authorize", k) =>
            \/ payment[k] = "CANCELLED"
            \/ "PAYMENT_UNKNOWN" \in steps[k] \/ "SHIPPING_UNKNOWN" \in steps[k]
       /\ Asked("request", k) => "SHIPPING_UNKNOWN" \in steps[k]

Alone == \A g, h \in Handler :
           Has(g, Started) /\ Has(h, Started) /\ req[g].key = req[h].key => g = h

Explained == \A k \in Key :
  status[k] = "CREATED" /\ stranded[k] = "no" =>
    \E h \in Handler : Has(h, Started) /\ req[h].key = k

SagaInv ==
  /\ TypeInv
  /\ \A h \in Handler : RunInv(h)
  /\ \A k \in Key : AskInv(k) /\ LogInv(k)
  /\ Alone
  /\ Explained

LEMMA InitSaga == Init => SagaInv
<1> SUFFICES ASSUME Init PROVE SagaInv
  OBVIOUS
<1>1. TypeInv BY InitType
<1>2. \A h \in Handler : RunInv(h) BY DEF Init, RunInv, Has, Started
<1>3. \A k \in Key : AskInv(k) /\ LogInv(k) BY DEF Init, AskInv, LogInv, Asked
<1>4. Alone /\ Explained BY DEF Init, Alone, Explained, Has, Started
<1> QED BY <1>1, <1>2, <1>3, <1>4 DEF SagaInv

(* The other threads stay where they are.                                  *)
Still(h) == \A g \in Handler \ {h} :
              pc'[g] = pc[g] /\ req'[g] = req[g] /\ cause'[g] = cause[g]

LEMMA LeaveMove ==
  ASSUME TypeInv, NEW h \in Handler, Leave(h)
  PROVE  Still(h) /\ pc'[h] = "idle"
BY DEF Leave, Still, TypeInv, ThreadsType

LEMMA GotoMove ==
  ASSUME TypeInv, NEW h \in Handler, NEW p, Goto(h, p)
  PROVE  Still(h) /\ pc'[h] = p /\ req'[h] = req[h] /\ cause'[h] = cause[h]
BY DEF Goto, Still, TypeInv, ThreadsType

LEMMA ReadMove ==
  ASSUME TypeInv, NEW h \in Handler, NEW p, ReadInventory(h, p)
  PROVE  Still(h) /\ pc'[h] = p /\ req'[h] = req[h] /\ cause'[h] = cause[h]
BY DEF ReadInventory, Still, TypeInv, ThreadsType

LEMMA CompensateMove ==
  ASSUME TypeInv, NEW h \in Handler, NEW why, Compensate(h, why)
  PROVE  Still(h) /\ pc'[h] = "compensate" /\ req'[h] = req[h] /\ cause'[h] = why
BY DEF Compensate, Still, TypeInv, ThreadsType

(* A step that moves one thread, inside its saga or outside any, changes   *)
(* no order, and asks for nothing.                                         *)
LEMMA MoveKeeps ==
  ASSUME SagaInv, TypeInv', NEW h \in Handler, Still(h),
         UNCHANGED <<status, steps, payment, shipment, asked, stranded>>,
         \/ pc[h] \in Started /\ pc'[h] \in Started /\ req'[h] = req[h]
         \/ pc[h] \notin Started /\ pc'[h] \notin Started,
         RunInv(h)'
  PROVE  SagaInv'
<1> USE DEF SagaInv, Still
<1>1. \A g \in Handler : RunInv(g)' BY DEF RunInv, Has, Asked, Started
<1>2. \A k \in Key : AskInv(k)' /\ LogInv(k)' BY DEF AskInv, LogInv, Asked
<1>3. Alone' BY DEF Alone, Has
<1>4. Explained' BY DEF Explained, Has
<1> QED BY <1>1, <1>2, <1>3, <1>4

(* The steps of run() that write nothing but where the thread is.          *)
Quiet(h) ==
  \/ StartRead(h) \/ StartRollback(h) \/ AuthorizeAccepted(h)
  \/ AuthorizeRejected(h) \/ AuthorizeUnavailable(h) \/ RequestAccepted(h)
  \/ CancelAccepted(h) \/ CancelQuietly(h) \/ CompensateRead(h)
  \/ ConfirmRead(h)

LEMMA QuietKeeps ==
  ASSUME SagaInv, TypeInv', NEW h \in Handler, Quiet(h) PROVE SagaInv'
<1> SUFFICES /\ RunInv(h)' /\ Still(h)
             /\ \/ pc[h] \in Started /\ pc'[h] \in Started /\ req'[h] = req[h]
                \/ pc[h] \notin Started /\ pc'[h] \notin Started
             /\ UNCHANGED <<status, steps, payment, shipment, asked, stranded>>
  BY MoveKeeps
<1> USE DEF SagaInv, RunInv, Has, Asked, Started,
            sagas, stock, participants, ghosts, threads
<1>1. CASE StartRead(h) BY <1>1, ReadMove DEF StartRead
<1>2. CASE StartRollback(h) BY <1>2, LeaveMove DEF StartRollback
<1>3. CASE AuthorizeAccepted(h) BY <1>3, GotoMove DEF AuthorizeAccepted
<1>4. CASE AuthorizeRejected(h) BY <1>4, CompensateMove DEF AuthorizeRejected
<1>5. CASE AuthorizeUnavailable(h) BY <1>5, CompensateMove DEF AuthorizeUnavailable
<1>6. CASE RequestAccepted(h) BY <1>6, GotoMove DEF RequestAccepted
<1>7. CASE CancelAccepted(h) BY <1>7, CompensateMove DEF CancelAccepted
<1>8. CASE CancelQuietly(h) BY <1>8, CompensateMove DEF CancelQuietly
<1>9. CASE CompensateRead(h) BY <1>9, ReadMove DEF CompensateRead
<1>10. CASE ConfirmRead(h) BY <1>10, ReadMove DEF ConfirmRead
<1> QED BY <1>1, <1>2, <1>3, <1>4, <1>5, <1>6, <1>7, <1>8, <1>9, <1>10 DEF Quiet

(* What a step writes about one order does not touch the others.           *)
LEMMA LogEffect ==
  ASSUME SagasType, NEW k \in Key, NEW new, Log(k, new)
  PROVE  steps'[k] = steps[k] \cup new /\ \A j \in Key \ {k} : steps'[j] = steps[j]
BY DEF Log, SagasType

LEMMA SendEffect ==
  ASSUME NEW k \in Key, NEW m, Send(m, k)
  PROVE  \A n, j : Asked(n, j)' <=> Asked(n, j) \/ (n = m /\ j = k)
BY DEF Send, Asked

LEMMA OtherKeys ==
  ASSUME SagaInv, NEW j \in Key,
         status'[j] = status[j], steps'[j] = steps[j],
         payment'[j] = payment[j], shipment'[j] = shipment[j],
         \A m : Asked(m, j)' <=> Asked(m, j)
  PROVE  AskInv(j)' /\ LogInv(j)'
BY DEF SagaInv, AskInv, LogInv

LEMMA StartFailedKeeps ==
  ASSUME SagaInv, TypeInv', NEW h \in Handler, StartFailed(h) PROVE SagaInv'
<1> USE LeaveMove, BusyRequest DEF SagaInv, TypeInv, StartFailed, Still, sagas, participants
<1>1. \A g \in Handler : RunInv(g)'
  BY DEF Alone, RunInv, AskInv, Has, Asked, Started, Send, KeyIsFree, RestType, SagasType
<1>2. \A j \in Key : AskInv(j)' /\ LogInv(j)'
  <2>1. PICK k \in Key : k = req[h].key OBVIOUS
  <2>2. \A j \in Key \ {k} : AskInv(j)' /\ LogInv(j)'
    BY <2>1, LogEffect, SendEffect, OtherKeys DEF SagasType, Asked
  <2>3. AskInv(k)' BY <2>1, SendEffect
          DEF RunInv, AskInv, Has, Started, KeyIsFree, SagasType, Asked
  <2>4. LogInv(k)'
    <3>1. steps'[k] = steps[k] \cup {"ORDER_CREATED", "INVENTORY_REFUSED", "ORDER_FAILED"}
      BY <2>1, LogEffect
    <3>2. RunInv(h) /\ AskInv(k) /\ LogInv(k) /\ SagasType /\ ThreadsType
      OBVIOUS
    <3> HIDE DEF SagaInv, TypeInv
    <3> QED BY <2>1, <3>1, <3>2
            DEF RunInv, AskInv, LogInv, Has, Started, KeyIsFree, SagasType, Asked
  <2> QED BY <2>2, <2>3, <2>4
<1>3. Alone' BY DEF Alone, RunInv, Has, Started, KeyIsFree
<1>4. Explained'
  BY DEF Explained, RunInv, Has, Started, ghosts, KeyIsFree, SagasType, RestType
<1> QED BY <1>1, <1>2, <1>3, <1>4

LEMMA StartCommitKeeps ==
  ASSUME SagaInv, TypeInv', NEW h \in Handler, StartCommit(h) PROVE SagaInv'
<1> USE GotoMove, BusyRequest DEF SagaInv, TypeInv, StartCommit, Still, sagas, participants
<1>1. \A g \in Handler : RunInv(g)'
  BY DEF Alone, RunInv, AskInv, Has, Asked, Started, Send, KeyIsFree, RestType, SagasType
<1>2. \A j \in Key : AskInv(j)' /\ LogInv(j)'
  <2>1. PICK k \in Key : k = req[h].key OBVIOUS
  <2>2. \A j \in Key \ {k} : AskInv(j)' /\ LogInv(j)'
    BY <2>1, LogEffect, SendEffect, OtherKeys DEF SagasType, Asked
  <2>3. AskInv(k)' BY <2>1, SendEffect
          DEF RunInv, AskInv, Has, Started, KeyIsFree, SagasType, Asked
  <2>4. LogInv(k)'
    <3>1. steps'[k] = steps[k] \cup {"ORDER_CREATED", "INVENTORY_RESERVED"}
      BY <2>1, LogEffect
    <3>2. RunInv(h) /\ AskInv(k) /\ LogInv(k) /\ SagasType /\ ThreadsType
      OBVIOUS
    <3> HIDE DEF SagaInv, TypeInv
    <3> QED BY <2>1, <3>1, <3>2, SendEffect
            DEF RunInv, AskInv, LogInv, Has, Started, KeyIsFree, SagasType, Asked
  <2> QED BY <2>2, <2>3, <2>4
<1>3. Alone' BY DEF Alone, RunInv, Has, Started, KeyIsFree
<1>4. Explained'
  BY DEF Explained, RunInv, Has, Started, ghosts, KeyIsFree, SagasType, RestType
<1> QED BY <1>1, <1>2, <1>3, <1>4

LEMMA RecordPaymentAuthorizedKeeps ==
  ASSUME SagaInv, TypeInv', NEW h \in Handler, RecordPaymentAuthorized(h) PROVE SagaInv'
<1> USE GotoMove, BusyRequest
     DEF SagaInv, TypeInv, RecordPaymentAuthorized, Still, sagas, participants
<1>1. \A g \in Handler : RunInv(g)'
  BY DEF Alone, RunInv, AskInv, Has, Asked, Started, Send, KeyIsFree, RestType, SagasType
<1>2. \A j \in Key : AskInv(j)' /\ LogInv(j)'
  <2>1. PICK k \in Key : k = req[h].key OBVIOUS
  <2>2. \A j \in Key \ {k} : AskInv(j)' /\ LogInv(j)'
    BY <2>1, LogEffect, SendEffect, OtherKeys DEF SagasType, Asked
  <2>3. AskInv(k)' BY <2>1, SendEffect
          DEF RunInv, AskInv, Has, Started, KeyIsFree, SagasType, Asked
  <2>4. LogInv(k)'
    <3>1. steps'[k] = steps[k] \cup {"PAYMENT_AUTHORIZED"}
      BY <2>1, LogEffect
    <3>2. RunInv(h) /\ AskInv(k) /\ LogInv(k) /\ SagasType /\ ThreadsType
      OBVIOUS
    <3> HIDE DEF SagaInv, TypeInv
    <3> QED BY <2>1, <3>1, <3>2, SendEffect
            DEF RunInv, AskInv, LogInv, Has, Started, KeyIsFree, SagasType, Asked
  <2> QED BY <2>2, <2>3, <2>4
<1>3. Alone' BY DEF Alone, RunInv, Has, Started, KeyIsFree
<1>4. Explained'
  BY DEF Explained, RunInv, Has, Started, ghosts, KeyIsFree, SagasType, RestType
<1> QED BY <1>1, <1>2, <1>3, <1>4

LEMMA RequestRejectedKeeps ==
  ASSUME SagaInv, TypeInv', NEW h \in Handler, RequestRejected(h) PROVE SagaInv'
<1> USE GotoMove, BusyRequest DEF SagaInv, TypeInv, RequestRejected, Still, sagas, participants
<1>1. \A g \in Handler : RunInv(g)'
  BY DEF Alone, RunInv, AskInv, Has, Asked, Started, Send, KeyIsFree, RestType, SagasType
<1>2. \A j \in Key : AskInv(j)' /\ LogInv(j)'
  <2>1. PICK k \in Key : k = req[h].key OBVIOUS
  <2>2. \A j \in Key \ {k} : AskInv(j)' /\ LogInv(j)'
    BY <2>1, LogEffect, SendEffect, OtherKeys DEF SagasType, Asked
  <2>3. AskInv(k)' BY <2>1, SendEffect
          DEF RunInv, AskInv, Has, Started, KeyIsFree, SagasType, Asked
  <2>4. LogInv(k)' BY <2>1, SendEffect
          DEF LogInv, RunInv, AskInv, Has, Started, Asked, SagasType
  <2> QED BY <2>2, <2>3, <2>4
<1>3. Alone' BY DEF Alone, RunInv, Has, Started, KeyIsFree
<1>4. Explained'
  BY DEF Explained, RunInv, Has, Started, ghosts, KeyIsFree, SagasType, RestType
<1> QED BY <1>1, <1>2, <1>3, <1>4

LEMMA RequestUnavailableKeeps ==
  ASSUME SagaInv, TypeInv', NEW h \in Handler, RequestUnavailable(h) PROVE SagaInv'
<1> USE GotoMove, BusyRequest
     DEF SagaInv, TypeInv, RequestUnavailable, Still, sagas, participants
<1>1. \A g \in Handler : RunInv(g)'
  BY DEF Alone, RunInv, AskInv, Has, Asked, Started, Send, KeyIsFree, RestType, SagasType
<1>2. \A j \in Key : AskInv(j)' /\ LogInv(j)'
  <2>1. PICK k \in Key : k = req[h].key OBVIOUS
  <2>2. \A j \in Key \ {k} : AskInv(j)' /\ LogInv(j)'
    BY <2>1, LogEffect, SendEffect, OtherKeys DEF SagasType, Asked
  <2>3. AskInv(k)' BY <2>1, SendEffect
          DEF RunInv, AskInv, Has, Started, KeyIsFree, SagasType, Asked
  <2>4. LogInv(k)' BY <2>1, SendEffect
          DEF LogInv, RunInv, AskInv, Has, Started, Asked, SagasType
  <2> QED BY <2>2, <2>3, <2>4
<1>3. Alone' BY DEF Alone, RunInv, Has, Started, KeyIsFree
<1>4. Explained'
  BY DEF Explained, RunInv, Has, Started, ghosts, KeyIsFree, SagasType, RestType
<1> QED BY <1>1, <1>2, <1>3, <1>4

LEMMA CancelFailedKeeps ==
  ASSUME SagaInv, TypeInv', NEW h \in Handler, CancelFailed(h) PROVE SagaInv'
<1> USE LeaveMove, BusyRequest DEF SagaInv, TypeInv, CancelFailed, Still, sagas, participants
<1>1. \A g \in Handler : RunInv(g)'
  BY DEF Alone, RunInv, AskInv, Has, Asked, Started, Send, KeyIsFree, RestType, SagasType
<1>2. \A k \in Key : AskInv(k)' /\ LogInv(k)'
  BY DEF AskInv, LogInv, Asked
<1>3. Alone' BY DEF Alone, RunInv, Has, Started, KeyIsFree
<1>4. Explained'
  BY DEF Explained, RunInv, Has, Started, ghosts, KeyIsFree, SagasType, RestType
<1> QED BY <1>1, <1>2, <1>3, <1>4

LEMMA CompensateCommitKeeps ==
  ASSUME SagaInv, TypeInv', NEW h \in Handler, CompensateCommit(h) PROVE SagaInv'
<1> USE LeaveMove, BusyRequest
     DEF SagaInv, TypeInv, CompensateCommit, Still, sagas, participants
<1>1. \A g \in Handler : RunInv(g)'
  BY DEF Alone, RunInv, AskInv, Has, Asked, Started, Send, KeyIsFree, RestType, SagasType
<1>2. \A j \in Key : AskInv(j)' /\ LogInv(j)'
  <2>1. PICK k \in Key : k = req[h].key OBVIOUS
  <2>2. \A j \in Key \ {k} : AskInv(j)' /\ LogInv(j)'
    BY <2>1, LogEffect, SendEffect, OtherKeys DEF SagasType, Asked
  <2>3. AskInv(k)' BY <2>1, SendEffect
          DEF RunInv, AskInv, Has, Started, KeyIsFree, SagasType, Asked
  <2>4. LogInv(k)'
    <3>1. steps'[k] =
            steps[k] \cup ({cause[h], "INVENTORY_RELEASED", "ORDER_FAILED"} \cup CancelStep(cause[h]))
      BY <2>1, LogEffect
    <3>2. RunInv(h) /\ AskInv(k) /\ LogInv(k) /\ SagasType /\ ThreadsType
      OBVIOUS
    <3> HIDE DEF SagaInv, TypeInv
    <3> QED BY <2>1, <3>1, <3>2
            DEF RunInv, AskInv, LogInv, Has, Started, KeyIsFree, SagasType, ThreadsType,
                Cause, CancelStep, Busy, Asked
  <2> QED BY <2>2, <2>3, <2>4
<1>3. Alone' BY DEF Alone, RunInv, Has, Started, KeyIsFree
<1>4. Explained'
  BY DEF Explained, RunInv, Has, Started, ghosts, KeyIsFree, SagasType, RestType
<1> QED BY <1>1, <1>2, <1>3, <1>4

LEMMA ConfirmCommitKeeps ==
  ASSUME SagaInv, TypeInv', NEW h \in Handler, ConfirmCommit(h) PROVE SagaInv'
<1> USE LeaveMove, BusyRequest DEF SagaInv, TypeInv, ConfirmCommit, Still, sagas, participants
<1>1. \A g \in Handler : RunInv(g)'
  BY DEF Alone, RunInv, AskInv, Has, Asked, Started, Send, KeyIsFree, RestType, SagasType
<1>2. \A j \in Key : AskInv(j)' /\ LogInv(j)'
  <2>1. PICK k \in Key : k = req[h].key OBVIOUS
  <2>2. \A j \in Key \ {k} : AskInv(j)' /\ LogInv(j)'
    BY <2>1, LogEffect, SendEffect, OtherKeys DEF SagasType, Asked
  <2>3. AskInv(k)' BY <2>1, SendEffect
          DEF RunInv, AskInv, Has, Started, KeyIsFree, SagasType, Asked
  <2>4. LogInv(k)'
    <3>1. steps'[k] = steps[k] \cup {"SHIPPING_REQUESTED", "ORDER_CONFIRMED"}
      BY <2>1, LogEffect
    <3>2. RunInv(h) /\ AskInv(k) /\ LogInv(k) /\ SagasType /\ ThreadsType
      OBVIOUS
    <3> HIDE DEF SagaInv, TypeInv
    <3> QED BY <2>1, <3>1, <3>2
            DEF RunInv, AskInv, LogInv, Has, Started, KeyIsFree, SagasType, Asked
  <2> QED BY <2>2, <2>3, <2>4
<1>3. Alone' BY DEF Alone, RunInv, Has, Started, KeyIsFree
<1>4. Explained'
  BY DEF Explained, RunInv, Has, Started, ghosts, KeyIsFree, SagasType, RestType
<1> QED BY <1>1, <1>2, <1>3, <1>4

LEMMA CrashKeeps ==
  ASSUME SagaInv, TypeInv', NEW h \in Handler, Crash(h) PROVE SagaInv'
<1> USE LeaveMove, BusyRequest DEF SagaInv, TypeInv, Crash, Still, sagas, participants
<1>1. \A g \in Handler : RunInv(g)'
  BY DEF Alone, RunInv, AskInv, Has, Asked, Started, Send, KeyIsFree, RestType, SagasType
<1>2. \A k \in Key : AskInv(k)' /\ LogInv(k)'
  BY DEF AskInv, LogInv, Asked
<1>3. Alone' BY DEF Alone, RunInv, Has, Started, KeyIsFree
<1>4. Explained'
  BY DEF Explained, RunInv, Has, Started, ghosts, KeyIsFree, SagasType, RestType
<1> QED BY <1>1, <1>2, <1>3, <1>4

LEMMA ReceiveKeeps ==
  ASSUME SagaInv, TypeInv', NEW h \in Handler, NEW r \in Request, Receive(h, r)
  PROVE  SagaInv'
<1> USE DEF SagaInv, Receive, sagas, stock, participants, ghosts, threads
<1>1. Still(h) /\ pc'[h] = "start" BY DEF Still, TypeInv, ThreadsType
<1>2. RunInv(h)' BY <1>1 DEF RunInv, Has, Started
<1> QED BY <1>1, <1>2, MoveKeeps DEF Started

(* The participants act on one order; no thread and no saga moves.         *)
LEMMA ParticipantKeeps ==
  ASSUME SagaInv, TypeInv', NEW k \in Key,
         PaymentAuthorize(k) \/ PaymentCancel(k) \/ ShippingRequest(k)
  PROVE  SagaInv'
<1> USE DEF SagaInv, TypeInv, PaymentAuthorize, PaymentCancel, ShippingRequest,
            sagas, threads, ghosts, RestType
<1>1. \A g \in Handler : RunInv(g)'
  <2>1. CASE PaymentAuthorize(k)
    BY <2>1 DEF RunInv, AskInv, Has, Asked, Started
  <2>2. CASE PaymentCancel(k)
    BY <2>2 DEF RunInv, AskInv, Has, Asked, Started
  <2>3. CASE ShippingRequest(k)
    BY <2>3 DEF RunInv, AskInv, Has, Asked, Started
  <2> QED BY <2>1, <2>2, <2>3
<1>2. \A j \in Key : AskInv(j)' BY DEF AskInv, Asked
<1>3. \A j \in Key : LogInv(j)'
  <2>1. CASE PaymentAuthorize(k) BY <2>1 DEF LogInv, AskInv, Asked
  <2>2. CASE PaymentCancel(k) BY <2>2 DEF LogInv, AskInv, Asked
  <2>3. CASE ShippingRequest(k) BY <2>3 DEF LogInv, AskInv, Asked
  <2> QED BY <2>1, <2>2, <2>3
<1>4. Alone' /\ Explained' BY DEF Alone, Explained, Has
<1> QED BY <1>1, <1>2, <1>3, <1>4

LEMMA SameOrdersKeep ==
  ASSUME SagaInv, TypeInv',
         UNCHANGED <<status, steps, payment, shipment, asked, stranded, pc, req, cause>>
  PROVE  SagaInv'
BY DEF SagaInv, RunInv, AskInv, LogInv, Alone, Explained, Has, Asked

LEMMA NextSaga == SagaInv /\ [Next]_vars => SagaInv'
<1> SUFFICES ASSUME SagaInv, [Next]_vars PROVE SagaInv'
  OBVIOUS
<1>1. TypeInv' BY NextType DEF SagaInv
<1>2. ASSUME NEW h \in Handler, NEW r \in Request, Receive(h, r) PROVE SagaInv'
  BY <1>1, <1>2, ReceiveKeeps
<1>3. ASSUME NEW h \in Handler, Run(h) PROVE SagaInv'
  BY <1>1, <1>3, QuietKeeps, StartFailedKeeps, StartCommitKeeps,
     RecordPaymentAuthorizedKeeps, RequestRejectedKeeps, RequestUnavailableKeeps,
     CancelFailedKeeps, CompensateCommitKeeps, ConfirmCommitKeeps DEF Run, Quiet
<1>4. ASSUME NEW h \in Handler, Crash(h) PROVE SagaInv'
  BY <1>1, <1>4, CrashKeeps
<1>5. ASSUME NEW k \in Key, PaymentAuthorize(k) \/ PaymentCancel(k) \/ ShippingRequest(k)
      PROVE  SagaInv'
  BY <1>1, <1>5, ParticipantKeeps
<1>6. ASSUME NEW p \in Replenisher, ReplenishRead(p) \/ Replenish(p) PROVE SagaInv'
  BY <1>1, <1>6, SameOrdersKeep
     DEF ReplenishRead, Replenish, sagas, participants, threads, ghosts
<1>7. CASE UNCHANGED vars
  BY <1>1, <1>7, SameOrdersKeep DEF vars
<1> QED BY <1>2, <1>3, <1>4, <1>5, <1>6, <1>7 DEF Next

LEMMA SagaInvariant == Spec => []SagaInv
BY InitSaga, NextSaga, PTL DEF Spec

------------------------------------------------------------------------------
(* What the inductive invariant gives.                                     *)

(* No order is confirmed over a payment that was cancelled or never made,  *)
(* or over a shipment that was not booked (OrderSagaService.run).          *)
THEOREM ConfirmedIsAccepted == Spec => []ConfirmedMeansAccepted
<1>1. SagaInv => ConfirmedMeansAccepted
  BY DEF SagaInv, TypeInv, SagasType, RestType, AskInv, ConfirmedMeansAccepted
<1> QED BY <1>1, SagaInvariant, PTL

(* The step log never claims what the participants did not do.             *)
THEOREM LogTellsTruth == Spec => []LogIsTruthful
<1>1. SagaInv => LogIsTruthful
  BY DEF SagaInv, LogInv, LogIsTruthful
<1> QED BY <1>1, SagaInvariant, PTL

(* Whatever a failed order left at a participant, its log names the call   *)
(* whose outcome was unknown.                                              *)
THEOREM LeftoversAreLogged == Spec => []LeftoverIsLogged
<1>1. SagaInv => LeftoverIsLogged
  BY DEF SagaInv, AskInv, LogInv, LeftoverIsLogged, Unknown
<1> QED BY <1>1, SagaInvariant, PTL

(* The participants hold nothing for an order that was never taken, and    *)
(* nothing is shipped without a payment.                                   *)
THEOREM OrderComesFirst == Spec => []NothingWithoutOrder
<1>1. SagaInv => NothingWithoutOrder
  BY DEF SagaInv, TypeInv, RestType, AskInv, NothingWithoutOrder
<1> QED BY <1>1, SagaInvariant, PTL

(* A saga nobody runs any more was left by a crash or by a cancellation    *)
(* that failed.                                                            *)
THEOREM StrandingIsExplained == Spec => []StrandedIsExplained
<1>1. SagaInv => StrandedIsExplained
  BY DEF SagaInv, Explained, StrandedIsExplained, Running, Has
<1> QED BY <1>1, SagaInvariant, PTL

(* A settled order never changes again.                                    *)
THEOREM SettledIsFinal == Spec => OutcomeIsFinal
<1> DEFINE Final == \A k \in Key : status[k] \in Terminal =>
                      status'[k] = status[k] /\ steps'[k] = steps[k]
<1>1. SagaInv /\ [Next]_vars => [Final]_vars
  <2> SUFFICES ASSUME SagaInv, [Next]_vars PROVE Final
    OBVIOUS
  <2> USE DEF SagaInv, TypeInv, SagasType, Terminal, sagas
  <2>1. ASSUME NEW h \in Handler, Run(h) PROVE Final
    <3>1. CASE UNCHANGED sagas BY <3>1
    <3>2. CASE StartFailed(h) BY <3>2, BusyRequest, LogEffect DEF StartFailed, KeyIsFree
    <3>3. CASE StartCommit(h) BY <3>3, BusyRequest, LogEffect DEF StartCommit, KeyIsFree
    <3>4. CASE RecordPaymentAuthorized(h)
      BY <3>4, BusyRequest, LogEffect DEF RecordPaymentAuthorized, RunInv, Has, Started
    <3>5. CASE CompensateCommit(h)
      BY <3>5, BusyRequest, LogEffect DEF CompensateCommit, RunInv, Has, Started
    <3>6. CASE ConfirmCommit(h)
      BY <3>6, BusyRequest, LogEffect DEF ConfirmCommit, RunInv, Has, Started
    <3> HIDE DEF Final
    <3> QED
      BY <2>1, <3>1, <3>2, <3>3, <3>4, <3>5, <3>6
         DEF Run, StartRead, StartRollback, AuthorizeAccepted, AuthorizeRejected,
             AuthorizeUnavailable, RequestAccepted, RequestRejected, RequestUnavailable,
             CancelAccepted, CancelFailed, CancelQuietly, CompensateRead, ConfirmRead
  <2>2. CASE ~ \E h \in Handler : Run(h)
    BY <2>2 DEF Next, Receive, Crash, PaymentAuthorize, PaymentCancel, ShippingRequest,
                ReplenishRead, Replenish, vars
  <2> QED BY <2>1, <2>2
<1> QED BY <1>1, SagaInvariant, PTL DEF Spec, OutcomeIsFinal

(* Of several requests with one idempotency key at most one is ever past   *)
(* start().                                                                *)
THEOREM KeyIsRunOnce == Spec => []OneRunPerKey
<1>1. SagaInv => OneRunPerKey
  <2> SUFFICES ASSUME SagaInv, NEW k \in Key PROVE Cardinality(Running(k)) <= 1
    BY DEF OneRunPerKey
  <2>1. CASE Running(k) = {}
    BY <2>1, FS_EmptySet
  <2>2. CASE Running(k) # {}
    <3>1. PICK h \in Running(k) : TRUE BY <2>2
    <3>2. Running(k) = {h}
      BY <3>1 DEF SagaInv, Alone, Running, Has
    <3>3. Cardinality({h}) = 1 BY FS_Singleton
    <3> QED BY <3>2, <3>3
  <2> QED BY <2>1, <2>2
<1> QED BY <1>1, SagaInvariant, PTL

------------------------------------------------------------------------------
(* The stock.  A thread writes a row computed from the one it read, so the *)
(* rows in the threads' hands have to be sound as well.                    *)
StockInv ==
  /\ inventory.available >= 0
  /\ \A h \in Handler :
       pc[h] \in {"reserve", "release", "commit"} => seen[h].available >= 0

LEMMA InitStock == Init => StockInv
BY StockAssumption DEF Init, StockInv

LEMMA ReadSound ==
  ASSUME TypeInv, StockInv, NEW h \in Handler, NEW p, ReadInventory(h, p),
         UNCHANGED inventory
  PROVE  StockInv'
BY DEF StockInv, ReadInventory, TypeInv, ThreadsType

LEMMA MoveSound ==
  ASSUME TypeInv, StockInv, NEW h \in Handler, inventory'.available >= 0,
         \A g \in Handler \ {h} : pc'[g] = pc[g] /\ seen'[g] = seen[g],
         pc'[h] \notin {"reserve", "release", "commit"}
  PROVE  StockInv'
BY DEF StockInv

LEMMA RunStock ==
  ASSUME TypeInv, StockInv, NEW h \in Handler, Run(h) PROVE StockInv'
<1> USE DEF stock, TypeInv, ThreadsType
<1>1. CASE StartRead(h) \/ CompensateRead(h) \/ ConfirmRead(h)
  BY <1>1, ReadSound DEF StartRead, CompensateRead, ConfirmRead
<1>2. CASE StartCommit(h)
  <2>1. inventory'.available >= 0
    BY <1>2, BusyRequest
       DEF StartCommit, WriteInventory, Enough, Reserve, Stock
  <2> QED BY <1>2, <2>1, MoveSound DEF StartCommit, Goto
<1>3. CASE CompensateCommit(h)
  <2>1. inventory'.available >= 0
    BY <1>3, BusyRequest
       DEF CompensateCommit, WriteInventory, Release, Stock, StockInv
  <2> QED BY <1>3, <2>1, MoveSound DEF CompensateCommit, Leave
<1>4. CASE ConfirmCommit(h)
  <2>1. inventory'.available >= 0
    BY <1>4 DEF ConfirmCommit, WriteInventory, Commit, StockInv
  <2> QED BY <1>4, <2>1, MoveSound DEF ConfirmCommit, Leave
<1>5. CASE \/ StartFailed(h) \/ StartRollback(h) \/ CancelFailed(h)
  BY <1>5, MoveSound DEF StartFailed, StartRollback, CancelFailed, Leave, StockInv
<1>6. CASE \/ AuthorizeAccepted(h) \/ RequestAccepted(h) \/ RecordPaymentAuthorized(h)
           \/ RequestRejected(h) \/ RequestUnavailable(h)
  BY <1>6, MoveSound
     DEF AuthorizeAccepted, RequestAccepted, RecordPaymentAuthorized, RequestRejected,
         RequestUnavailable, Goto, StockInv
<1>7. CASE \/ AuthorizeRejected(h) \/ AuthorizeUnavailable(h)
           \/ CancelAccepted(h) \/ CancelQuietly(h)
  BY <1>7, MoveSound
     DEF AuthorizeRejected, AuthorizeUnavailable, CancelAccepted, CancelQuietly,
         Compensate, StockInv
<1> QED BY <1>1, <1>2, <1>3, <1>4, <1>5, <1>6, <1>7 DEF Run

LEMMA NextStock == TypeInv /\ StockInv /\ [Next]_vars => StockInv'
<1> SUFFICES ASSUME TypeInv, StockInv, [Next]_vars PROVE StockInv'
  OBVIOUS
<1> USE DEF stock, threads
<1>1. ASSUME NEW h \in Handler, NEW r \in Request, Receive(h, r) PROVE StockInv'
  BY <1>1, MoveSound DEF Receive, StockInv, TypeInv, ThreadsType
<1>2. ASSUME NEW h \in Handler, Run(h) PROVE StockInv'
  BY <1>2, RunStock
<1>3. ASSUME NEW h \in Handler, Crash(h) PROVE StockInv'
  BY <1>3, MoveSound DEF Crash, Leave, StockInv, TypeInv, ThreadsType
<1>4. ASSUME NEW p \in Replenisher, Replenish(p) PROVE StockInv'
  BY <1>4, StockAssumption DEF Replenish, WriteInventory, StockInv
<1>5. CASE UNCHANGED <<stock, threads>>
  BY <1>5 DEF StockInv
<1> QED
  BY <1>1, <1>2, <1>3, <1>4, <1>5
     DEF Next, PaymentAuthorize, PaymentCancel, ShippingRequest, ReplenishRead, vars

(* However the transactions overlap, the row's available never drops below *)
(* zero.  By itself that promises nothing to the orders: two transactions  *)
(* that read the same row reserve the same unit.                           *)
LEMMA AvailableIsCounted == Spec => [](inventory.available >= 0)
<1>1. Spec => []StockInv
  BY InitStock, NextStock, TypeInvariant, PTL DEF Spec
<1>2. StockInv => inventory.available >= 0
  BY DEF StockInv
<1> QED BY <1>1, <1>2, PTL

------------------------------------------------------------------------------
(* Sums over finite sets.  The library's induction theorems take an        *)
(* operator as a parameter, which no back end instantiates; the two below  *)
(* take a set, and follow from the least element of its complement.        *)

LEMMA NatSetInduction ==
  ASSUME NEW T, 0 \in T, \A n \in Nat : n \in T => n + 1 \in T
  PROVE  Nat \subseteq T
<1> SUFFICES ASSUME Nat \ T # {} PROVE FALSE
  OBVIOUS
<1>1. PICK n \in Nat \ T : \A m \in Nat \ T : ~ (<<m, n>> \in OpToRel(<, Nat))
  <2> DEFINE R == OpToRel(<, Nat)
  <2>1. IsWellFoundedOn(R, Nat)
    BY NatLessThanWellFounded
  <2>2. Nat \ T \subseteq Nat
    OBVIOUS
  <2> HIDE DEF R
  <2>3. \E x \in Nat \ T : \A y \in Nat \ T : ~ (<<y, x>> \in R)
    BY <2>1, <2>2, WFMin
  <2> QED BY <2>3 DEF R
<1>2. \A m \in Nat \ T : ~ (m < n)
  BY <1>1 DEF OpToRel
<1>3. n - 1 \in Nat /\ n - 1 \in T /\ (n - 1) + 1 = n
  BY <1>2
<1> QED BY <1>3

(* A set that holds {} and, with all the sets one element smaller, each    *)
(* non-empty subset of S, holds every subset of S.                         *)
LEMMA FiniteSetInduction ==
  ASSUME NEW S, IsFiniteSet(S), NEW T, {} \in T,
         \A U \in SUBSET S : U # {} /\ (\A x \in U : U \ {x} \in T) => U \in T
  PROVE  SUBSET S \subseteq T
<1> DEFINE N == {n \in Nat : \A U \in SUBSET S : Cardinality(U) = n => U \in T}
<1>1. 0 \in N
  <2> SUFFICES ASSUME NEW U \in SUBSET S, Cardinality(U) = 0 PROVE U \in T
    OBVIOUS
  <2> QED BY FS_Subset, FS_EmptySet
<1>2. \A n \in Nat : n \in N => n + 1 \in N
  <2> SUFFICES ASSUME NEW n \in Nat, n \in N,
                      NEW U \in SUBSET S, Cardinality(U) = n + 1
               PROVE  U \in T
    OBVIOUS
  <2>1. IsFiniteSet(U) BY FS_Subset
  <2>2. U # {} BY FS_EmptySet
  <2>3. ASSUME NEW x \in U PROVE Cardinality(U \ {x}) = n
    <3>1. Cardinality(U \ {x}) = Cardinality(U) - 1
      BY <2>1, FS_RemoveElement
    <3> QED BY <3>1
  <2>4. \A x \in U : U \ {x} \in T
    BY <2>3
  <2> QED BY <2>2, <2>4
<1>3. Nat \subseteq N
  <2> HIDE DEF N
  <2> QED BY <1>1, <1>2, NatSetInduction
<1> SUFFICES ASSUME NEW U \in SUBSET S PROVE U \in T
  OBVIOUS
<1>4. Cardinality(U) \in Nat BY FS_Subset, FS_CardinalityType
<1> QED BY <1>3, <1>4

(* The sum of f over S, and the recursive function that computes it: it    *)
(* takes Some element of a set away and goes on with the rest.             *)
Total(f, S) == MapThenSumSet(LAMBDA k : f[k], S)

Some(s) == CHOOSE x \in s : TRUE
Sums(g, f, D) == g = [s \in D |-> IF s = {} THEN 0 ELSE f[Some(s)] + g[s \ {Some(s)}]]

LEMMA SomeIn == ASSUME NEW s, s # {} PROVE Some(s) \in s
BY DEF Some

LEMMA TotalDef == ASSUME NEW f, NEW S PROVE Total(f, S) = (CHOOSE g : Sums(g, f, SUBSET S))[S]
BY Zenon DEF Total, MapThenSumSet, MapThenFoldSet, Sums, Some

(* The function exists: on the sets of up to n elements, for one n after   *)
(* the other.                                                              *)
Small(S, n) == {s \in SUBSET S : Cardinality(s) <= n}

LEMMA SumsExist ==
  ASSUME NEW f, NEW S, IsFiniteSet(S) PROVE \E g : Sums(g, f, SUBSET S)
<1> DEFINE T == {n \in Nat : \E g : Sums(g, f, Small(S, n))}
<1>0. ASSUME NEW s \in SUBSET S
      PROVE  /\ Cardinality(s) \in Nat /\ Cardinality(s) <= Cardinality(S)
             /\ s # {} => /\ s \ {Some(s)} \in SUBSET S
                          /\ Cardinality(s \ {Some(s)}) = Cardinality(s) - 1
             /\ Cardinality(s) = 0 <=> s = {}
  <2>1. IsFiniteSet(s) /\ Cardinality(s) <= Cardinality(S) BY FS_Subset
  <2>2. Cardinality(s) \in Nat BY <2>1, FS_CardinalityType
  <2>3. s # {} => Cardinality(s \ {Some(s)}) = Cardinality(s) - 1
    BY <2>1, SomeIn, FS_RemoveElement
  <2>4. Cardinality(s) = 0 <=> s = {} BY <2>1, FS_EmptySet
  <2> QED BY <2>1, <2>2, <2>3, <2>4
<1>1. 0 \in T
  <2> DEFINE g == [s \in Small(S, 0) |-> 0]
  <2>1. ASSUME NEW s \in Small(S, 0) PROVE s = {}
    <3>1. s \in SUBSET S /\ Cardinality(s) <= 0 BY DEF Small
    <3>2. Cardinality(s) \in Nat /\ (Cardinality(s) = 0 <=> s = {}) BY <1>0, <3>1
    <3> QED BY <3>1, <3>2
  <2>2. Sums(g, f, Small(S, 0)) BY <2>1 DEF Sums
  <2> QED BY <2>2
<1>2. \A n \in Nat : n \in T => n + 1 \in T
  <2> SUFFICES ASSUME NEW n \in Nat, n \in T PROVE \E g : Sums(g, f, Small(S, n + 1))
    OBVIOUS
  <2>1. PICK g : Sums(g, f, Small(S, n)) OBVIOUS
  <2> DEFINE h == [s \in Small(S, n + 1) |->
                     IF s = {} THEN 0 ELSE f[Some(s)] + g[s \ {Some(s)}]]
  <2>2. ASSUME NEW s \in Small(S, n) PROVE s \in Small(S, n + 1) /\ h[s] = g[s]
    <3>1. s \in SUBSET S /\ Cardinality(s) <= n BY DEF Small
    <3>2. s \in Small(S, n + 1)
      <4>1. Cardinality(s) \in Nat BY <1>0, <3>1
      <4>2. Cardinality(s) <= n + 1 BY <3>1, <4>1
      <4> QED BY <3>1, <4>2 DEF Small
    <3>3. g[s] = IF s = {} THEN 0 ELSE f[Some(s)] + g[s \ {Some(s)}] BY <2>1 DEF Sums
    <3> QED BY <3>2, <3>3
  <2>3. \A s \in Small(S, n + 1) : s # {} => s \ {Some(s)} \in Small(S, n)
    BY <1>0 DEF Small
  <2>4. Sums(h, f, Small(S, n + 1)) BY <2>2, <2>3 DEF Sums
  <2> QED BY <2>4
<1>3. Nat \subseteq T
  <2> HIDE DEF T
  <2> QED BY <1>1, <1>2, NatSetInduction
<1>4. Cardinality(S) \in Nat BY FS_CardinalityType
<1>5. Small(S, Cardinality(S)) = SUBSET S BY <1>0 DEF Small
<1> QED BY <1>3, <1>4, <1>5

(* Two such functions agree on a set they both reach, if what they add up  *)
(* agrees on its elements.                                                 *)
LEMMA SumsAgree ==
  ASSUME NEW f, NEW h, NEW S, IsFiniteSet(S), \A k \in S : f[k] = h[k],
         NEW A, S \subseteq A, NEW d, Sums(d, f, SUBSET A), NEW e, Sums(e, h, SUBSET S)
  PROVE  d[S] = e[S]
<1> DEFINE T == {s \in SUBSET S : d[s] = e[s]}
<1>1. {} \in T BY DEF Sums
<1>2. ASSUME NEW s \in SUBSET S, s # {}, \A x \in s : s \ {x} \in T PROVE s \in T
  <2>1. Some(s) \in s BY <1>2, SomeIn
  <2>2. d[s] = f[Some(s)] + d[s \ {Some(s)}] BY <1>2 DEF Sums
  <2>3. e[s] = h[Some(s)] + e[s \ {Some(s)}] BY <1>2 DEF Sums
  <2> QED BY <1>2, <2>1, <2>2, <2>3
<1>3. SUBSET S \subseteq T
  <2> HIDE DEF T
  <2> QED BY <1>1, <1>2, FiniteSetInduction
<1> QED BY <1>3

LEMMA TotalSums ==
  ASSUME NEW f, NEW S, IsFiniteSet(S) PROVE \E g : Sums(g, f, SUBSET S) /\ Total(f, S) = g[S]
BY TotalDef, SumsExist

(* The total over a finite set, element by element; whichever element is   *)
(* taken away first, it is the same.                                       *)
LEMMA TotalEmpty == ASSUME NEW f PROVE Total(f, {}) = 0
<1>1. IsFiniteSet({}) BY FS_EmptySet
<1> QED BY <1>1, TotalSums DEF Sums

LEMMA TotalSame ==
  ASSUME NEW f, NEW h, NEW S, IsFiniteSet(S), \A k \in S : f[k] = h[k]
  PROVE  Total(f, S) = Total(h, S)
<1>1. PICK d : Sums(d, f, SUBSET S) /\ Total(f, S) = d[S] BY TotalSums
<1>2. PICK e : Sums(e, h, SUBSET S) /\ Total(h, S) = e[S] BY TotalSums
<1> QED BY <1>1, <1>2, SumsAgree

LEMMA TotalSome ==
  ASSUME NEW f, NEW S, IsFiniteSet(S), S # {}
  PROVE  Total(f, S) = f[Some(S)] + Total(f, S \ {Some(S)})
<1> DEFINE R == S \ {Some(S)}
<1>1. IsFiniteSet(R) /\ R \subseteq S BY FS_RemoveElement
<1>2. PICK d : Sums(d, f, SUBSET S) /\ Total(f, S) = d[S] BY TotalSums
<1>3. PICK e : Sums(e, f, SUBSET R) /\ Total(f, R) = e[R] BY <1>1, TotalSums
<1>4. d[R] = e[R]
  <2> HIDE DEF R
  <2> QED BY <1>1, <1>2, <1>3, SumsAgree
<1>5. d[S] = f[Some(S)] + d[R] BY <1>2 DEF Sums
<1> QED BY <1>2, <1>3, <1>4, <1>5

LEMMA TotalInt ==
  ASSUME NEW f, NEW S, IsFiniteSet(S), \A k \in S : f[k] \in Int
  PROVE  Total(f, S) \in Int
<1> DEFINE T == {s \in SUBSET S : Total(f, s) \in Int}
<1>1. {} \in T BY TotalEmpty
<1>2. ASSUME NEW s \in SUBSET S, s # {}, \A x \in s : s \ {x} \in T PROVE s \in T
  <2>1. Some(s) \in s BY <1>2, SomeIn
  <2>2. Total(f, s) = f[Some(s)] + Total(f, s \ {Some(s)})
    BY <1>2, TotalSome, FS_Subset
  <2> QED BY <1>2, <2>1, <2>2
<1>3. SUBSET S \subseteq T
  <2> HIDE DEF T
  <2> QED BY <1>1, <1>2, FiniteSetInduction
<1> QED BY <1>3

LEMMA TotalRemove ==
  ASSUME NEW f, NEW S, IsFiniteSet(S), \A k \in S : f[k] \in Int
  PROVE  \A x \in S : Total(f, S) = f[x] + Total(f, S \ {x})
<1> DEFINE T == {s \in SUBSET S : \A x \in s : Total(f, s) = f[x] + Total(f, s \ {x})}
<1>1. {} \in T OBVIOUS
<1>2. ASSUME NEW s \in SUBSET S, s # {}, \A x \in s : s \ {x} \in T PROVE s \in T
  <2> DEFINE y == Some(s)
  <2>1. y \in s BY <1>2, SomeIn
  <2>2. Total(f, s) = f[y] + Total(f, s \ {y})
    BY <1>2, TotalSome, FS_Subset
  <2>3. ASSUME NEW x \in s PROVE Total(f, s) = f[x] + Total(f, s \ {x})
    <3>1. CASE x = y BY <3>1, <2>2
    <3>2. CASE x # y
      <4> HIDE DEF y
      <4> DEFINE both == (s \ {y}) \ {x}
      <4>1. Total(f, s \ {y}) = f[x] + Total(f, both) BY <1>2, <2>1, <3>2
      <4>2. both = (s \ {x}) \ {y} OBVIOUS
      <4>3. Total(f, s \ {x}) = f[y] + Total(f, both) BY <1>2, <2>1, <3>2, <4>2
      <4>4. f[x] \in Int /\ f[y] \in Int BY <2>1
      <4>5. Total(f, both) \in Int BY TotalInt, FS_Subset
      <4> HIDE DEF both, T
      <4> QED BY <2>2, <4>1, <4>3, <4>4, <4>5
    <3> QED BY <3>1, <3>2
  <2> QED BY <2>3
<1>3. SUBSET S \subseteq T
  <2> HIDE DEF T
  <2> QED BY <1>1, <1>2, FiniteSetInduction
<1> QED BY <1>3
------------------------------------------------------------------------------
(* The exact row.  What the unfinished orders hold is a sum over a set of  *)
(* orders that is finite because orders are taken one at a time.           *)
Exact ==
  overlaps = "no" =>
    /\ inventory.reserved = Total(ordered, Held("CREATED"))
    /\ inventory.available + inventory.reserved + Total(ordered, Held("CONFIRMED")) = stocked

StockIsExact ==
  /\ IsFiniteSet(Held("CREATED")) /\ IsFiniteSet(Held("CONFIRMED"))
  /\ Exact

LEMMA ExactUnits == Exact => InventoryIsExact
<1>1. \A s \in OrderStatus : Units(Held(s)) = Total(ordered, Held(s))
  BY DEF Units, Total, MapThenSumSet, MapThenFoldSet
<1> QED BY <1>1 DEF Exact, InventoryIsExact, OrderStatus

LEMMA InitExact == Init => StockIsExact
<1> SUFFICES ASSUME Init PROVE StockIsExact
  OBVIOUS
<1>1. Held("CREATED") = {} /\ Held("CONFIRMED") = {}
  BY DEF Init, Held
<1>2. IsFiniteSet({}) /\ Total(ordered, {}) = 0
  BY FS_EmptySet, TotalEmpty
<1>3. /\ inventory.available = InitialStock /\ inventory.reserved = 0
      /\ stocked = InitialStock /\ InitialStock \in Int
  BY StockAssumption DEF Init
<1>4. 0 = 0 /\ InitialStock + 0 + 0 = InitialStock
  BY <1>3
<1> QED BY <1>1, <1>2, <1>3, <1>4 DEF StockIsExact, Exact

LEMMA OrderedInt == SagasType => \A j \in Key : ordered[j] \in Int
<1>1. Quantity \cup {0} \subseteq Int BY QuantityAssumption
<1> QED BY <1>1 DEF SagasType

(* One order changes its status: the orders of a status, and their units.  *)
LEMMA OrderGoes ==
  ASSUME SagasType, NEW k \in Key, NEW s \in OrderStatus, status[k] # s,
         status' = [status EXCEPT ![k] = s], SagasType',
         \A j \in Key \ {k} : ordered'[j] = ordered[j],
         NEW t \in OrderStatus, IsFiniteSet(Held(t))
  PROVE  /\ IsFiniteSet(Held(t)')
         /\ Total(ordered, Held(t)) \in Int
         /\ t = s => Total(ordered', Held(t)') = Total(ordered, Held(t)) + ordered'[k]
         /\ t = status[k] => Total(ordered, Held(t)) = Total(ordered', Held(t)') + ordered[k]
         /\ t # s /\ t # status[k] => Total(ordered', Held(t)') = Total(ordered, Held(t))
<1>0. \A j \in Key : ordered[j] \in Int /\ ordered'[j] \in Int
  <2>1. \A j \in Key : ordered[j] \in Int BY OrderedInt
  <2>2. Quantity \cup {0} \subseteq Int BY QuantityAssumption
  <2> QED BY <2>1, <2>2 DEF SagasType
<1>1. Total(ordered, Held(t)) \in Int
  BY <1>0, TotalInt DEF Held
<1>2. CASE t = s
  <2>1. Held(t)' = Held(t) \cup {k} /\ k \notin Held(t)
    BY <1>2 DEF Held, SagasType
  <2>2. IsFiniteSet(Held(t)') BY <2>1, FS_AddElement
  <2>3. Total(ordered', Held(t)') = ordered'[k] + Total(ordered', Held(t)' \ {k})
    BY <1>0, <2>1, <2>2, TotalRemove DEF Held
  <2>4. Held(t)' \ {k} = Held(t) BY <2>1
  <2>5. Total(ordered', Held(t)) = Total(ordered, Held(t))
    BY <2>1, TotalSame DEF Held
  <2>6. ordered'[k] \in Int BY <1>0
  <2>7. Total(ordered', Held(t)' \ {k}) = Total(ordered, Held(t))
    BY <2>4, <2>5, Zenon
  <2>8. Total(ordered', Held(t)') = Total(ordered, Held(t)) + ordered'[k]
    BY <1>1, <2>3, <2>6, <2>7
  <2> QED BY <1>1, <1>2, <2>2, <2>8
<1>3. CASE t = status[k]
  <2>1. Held(t)' = Held(t) \ {k} /\ k \in Held(t)
    BY <1>3 DEF Held, SagasType
  <2>2. IsFiniteSet(Held(t)') BY <2>1, FS_RemoveElement
  <2>3. Total(ordered, Held(t)) = ordered[k] + Total(ordered, Held(t)')
    BY <1>0, <2>1, TotalRemove DEF Held
  <2>4. Total(ordered', Held(t)') = Total(ordered, Held(t)')
    BY <2>1, <2>2, TotalSame DEF Held
  <2>5. Total(ordered, Held(t)') \in Int
    BY <1>0, <2>1, <2>2, TotalInt DEF Held
  <2>6. ordered[k] \in Int BY <1>0
  <2>7. Total(ordered, Held(t)) = Total(ordered', Held(t)') + ordered[k]
    BY <2>3, <2>4, <2>5, <2>6
  <2> QED BY <1>1, <1>3, <2>2, <2>7
<1>4. CASE t # s /\ t # status[k]
  <2>1. Held(t)' = Held(t) /\ k \notin Held(t)
    BY <1>4 DEF Held, SagasType
  <2>2. Total(ordered', Held(t)) = Total(ordered, Held(t))
    BY <2>1, TotalSame DEF Held
  <2> QED BY <1>1, <1>4, <2>1, <2>2
<1> QED BY <1>2, <1>3, <1>4

(* A step that changes neither an order nor the row.                       *)
LEMMA SameStockExact ==
  ASSUME StockIsExact, UNCHANGED <<status, ordered, inventory, overlaps, stocked>>
  PROVE  StockIsExact'
BY DEF StockIsExact, Exact, Held

LEMMA StartFailedExact ==
  ASSUME SagaInv, StockIsExact, TypeInv', NEW h \in Handler, StartFailed(h)
  PROVE  StockIsExact'
<1>1. PICK k \in Key : k = req[h].key
  BY BusyRequest DEF StartFailed, SagaInv, TypeInv
<1>2. SagasType /\ SagasType' /\ k \in Key /\ status[k] = "NONE" /\ status' = [status EXCEPT ![k] = "FAILED"]
  BY <1>1 DEF StartFailed, KeyIsFree, SagaInv, TypeInv
<1>3. \A j \in Key \ {k} : ordered'[j] = ordered[j]
  BY <1>1, <1>2 DEF StartFailed, SagasType
<1>4. \A t \in {"CREATED", "CONFIRMED"} :
        IsFiniteSet(Held(t)') /\ Total(ordered', Held(t)') = Total(ordered, Held(t))
  BY <1>2, <1>3, OrderGoes DEF OrderStatus, StockIsExact
<1> QED BY <1>4 DEF StockIsExact, Exact, StartFailed, stock, ghosts

LEMMA StartCommitExact ==
  ASSUME SagaInv, StockIsExact, TypeInv', NEW h \in Handler, StartCommit(h)
  PROVE  StockIsExact'
<1>1. PICK k \in Key : k = req[h].key
  BY BusyRequest DEF StartCommit, SagaInv, TypeInv
<1>2. SagasType /\ SagasType' /\ StockType /\ status[k] = "NONE"
      /\ status' = [status EXCEPT ![k] = "CREATED"]
  BY <1>1 DEF StartCommit, KeyIsFree, SagaInv, TypeInv
<1>3. /\ \A j \in Key \ {k} : ordered'[j] = ordered[j]
      /\ ordered'[k] = req[h].quantity
  BY <1>1, <1>2 DEF StartCommit, SagasType
<1>4. /\ IsFiniteSet(Held("CREATED")') /\ IsFiniteSet(Held("CONFIRMED")')
      /\ Total(ordered', Held("CREATED")') = Total(ordered, Held("CREATED")) + req[h].quantity
      /\ Total(ordered', Held("CONFIRMED")') = Total(ordered, Held("CONFIRMED"))
      /\ Total(ordered, Held("CREATED")) \in Int /\ Total(ordered, Held("CONFIRMED")) \in Int
  BY <1>2, <1>3, OrderGoes DEF OrderStatus, StockIsExact
<1>5. req[h].quantity \in Int
  BY BusyRequest DEF StartCommit, SagaInv, TypeInv
<1>6. Exact'
  <2> SUFFICES ASSUME overlaps' = "no" 
               PROVE  /\ inventory'.reserved = Total(ordered', Held("CREATED")')
                      /\ inventory'.available + inventory'.reserved + Total(ordered', Held("CONFIRMED")') = stocked'
    BY DEF Exact
  <2>1. overlaps = "no" /\ inventory = seen[h]
    BY DEF StartCommit, WriteInventory
  <2>2. /\ inventory'.available = inventory.available - req[h].quantity
        /\ inventory'.reserved = inventory.reserved + req[h].quantity
        /\ stocked' = stocked
    BY <2>1 DEF StartCommit, WriteInventory, Reserve, ghosts
  <2>3. inventory.available \in Int /\ inventory.reserved \in Int
    BY <1>2 DEF StockType, Stock
  <2> QED BY <1>4, <1>5, <2>1, <2>2, <2>3 DEF StockIsExact, Exact
<1> QED BY <1>4, <1>6 DEF StockIsExact

(* A thread past start() runs the order for the quantity it asked for.     *)
OwnQuantity == \A h \in Handler :
  pc[h] \in Started => ordered[req[h].key] = req[h].quantity

LEMMA CompensateCommitExact ==
  ASSUME SagaInv, OwnQuantity, StockIsExact, TypeInv', NEW h \in Handler, CompensateCommit(h)
  PROVE  StockIsExact'
<1>1. PICK k \in Key : k = req[h].key /\ req[h].quantity \in Int
  BY BusyRequest DEF CompensateCommit, SagaInv, TypeInv
<1>2. /\ SagasType /\ SagasType' /\ StockType
      /\ status[k] = "CREATED" /\ status' = [status EXCEPT ![k] = "FAILED"]
  BY <1>1 DEF CompensateCommit, SagaInv, TypeInv, RunInv, Has, Started
<1>3. ordered' = ordered /\ ordered[k] = req[h].quantity
  BY <1>1 DEF CompensateCommit, OwnQuantity, Started
<1>4. /\ IsFiniteSet(Held("CREATED")') /\ IsFiniteSet(Held("CONFIRMED")')
      /\ Total(ordered, Held("CREATED")) = Total(ordered', Held("CREATED")') + req[h].quantity
      /\ Total(ordered', Held("CONFIRMED")') = Total(ordered, Held("CONFIRMED"))
      /\ Total(ordered, Held("CREATED")) \in Int /\ Total(ordered, Held("CONFIRMED")) \in Int
  BY <1>2, <1>3, OrderGoes DEF OrderStatus, StockIsExact
<1>5. Total(ordered', Held("CREATED")') \in Int
  <2>1. \A j \in Held("CREATED")' : ordered'[j] \in Int
    BY <1>2, <1>3, OrderedInt DEF Held
  <2> QED BY <1>4, <2>1, TotalInt
<1>6. Exact'
  <2> SUFFICES ASSUME overlaps' = "no"
               PROVE  /\ inventory'.reserved = Total(ordered', Held("CREATED")')
                      /\ inventory'.available + inventory'.reserved
                           + Total(ordered', Held("CONFIRMED")') = stocked'
    BY DEF Exact
  <2>1. overlaps = "no" /\ inventory = seen[h]
    BY DEF CompensateCommit, WriteInventory
  <2>2. /\ inventory'.available = inventory.available + req[h].quantity
        /\ inventory'.reserved = inventory.reserved - req[h].quantity
        /\ stocked' = stocked
    BY <2>1 DEF CompensateCommit, WriteInventory, Release, ghosts
  <2>3. inventory.available \in Int /\ inventory.reserved \in Int
    BY <1>2 DEF StockType, Stock
  <2> QED BY <1>1, <1>4, <1>5, <2>1, <2>2, <2>3 DEF StockIsExact, Exact
<1> QED BY <1>4, <1>6 DEF StockIsExact

LEMMA ConfirmCommitExact ==
  ASSUME SagaInv, OwnQuantity, StockIsExact, TypeInv', NEW h \in Handler, ConfirmCommit(h)
  PROVE  StockIsExact'
<1>1. PICK k \in Key : k = req[h].key /\ req[h].quantity \in Int
  BY BusyRequest DEF ConfirmCommit, SagaInv, TypeInv
<1>2. /\ SagasType /\ SagasType' /\ StockType
      /\ status[k] = "CREATED" /\ status' = [status EXCEPT ![k] = "CONFIRMED"]
  BY <1>1 DEF ConfirmCommit, SagaInv, TypeInv, RunInv, Has, Started
<1>3. ordered' = ordered /\ ordered[k] = req[h].quantity
  BY <1>1 DEF ConfirmCommit, OwnQuantity, Started
<1>4. /\ IsFiniteSet(Held("CREATED")') /\ IsFiniteSet(Held("CONFIRMED")')
      /\ Total(ordered, Held("CREATED")) = Total(ordered', Held("CREATED")') + req[h].quantity
      /\ Total(ordered', Held("CONFIRMED")') = Total(ordered, Held("CONFIRMED")) + req[h].quantity
      /\ Total(ordered, Held("CREATED")) \in Int /\ Total(ordered, Held("CONFIRMED")) \in Int
  BY <1>2, <1>3, OrderGoes DEF OrderStatus, StockIsExact
<1>5. Total(ordered', Held("CREATED")') \in Int
  <2>1. \A j \in Held("CREATED")' : ordered'[j] \in Int
    BY <1>2, <1>3, OrderedInt DEF Held
  <2> QED BY <1>4, <2>1, TotalInt
<1>6. Exact'
  <2> SUFFICES ASSUME overlaps' = "no"
               PROVE  /\ inventory'.reserved = Total(ordered', Held("CREATED")')
                      /\ inventory'.available + inventory'.reserved
                           + Total(ordered', Held("CONFIRMED")') = stocked'
    BY DEF Exact
  <2>1. overlaps = "no" /\ inventory = seen[h]
    BY DEF ConfirmCommit, WriteInventory
  <2>2. /\ inventory'.available = inventory.available
        /\ inventory'.reserved = inventory.reserved - req[h].quantity
        /\ stocked' = stocked
    BY <2>1 DEF ConfirmCommit, WriteInventory, Commit, ghosts
  <2>3. inventory.available \in Int /\ inventory.reserved \in Int
    BY <1>2 DEF StockType, Stock
  <2> QED BY <1>1, <1>4, <1>5, <2>1, <2>2, <2>3 DEF StockIsExact, Exact
<1> QED BY <1>4, <1>6 DEF StockIsExact

LEMMA InitQuantity == Init => OwnQuantity
BY DEF Init, OwnQuantity, Started

LEMMA NextQuantity ==
  SagaInv /\ SagaInv' /\ OwnQuantity /\ [Next]_vars => OwnQuantity'
<1> SUFFICES ASSUME SagaInv, SagaInv', OwnQuantity, [Next]_vars, NEW g \in Handler,
                    pc'[g] \in Started
             PROVE  ordered'[req'[g].key] = req'[g].quantity
  BY DEF OwnQuantity
<1> USE DEF SagaInv, TypeInv, ThreadsType, sagas, threads
<1>1. CASE pc[g] \in Started /\ req'[g] = req[g] /\ ordered' = ordered
  BY <1>1 DEF OwnQuantity
<1>2. ASSUME NEW h \in Handler, StartFailed(h) \/ StartCommit(h)
      PROVE  ordered'[req'[g].key] = req'[g].quantity
  <2>1. h # g => pc[g] \in Started /\ req'[g] = req[g]
    BY <1>2 DEF StartFailed, StartCommit, Goto, Leave, Started
  <2>2. h # g => req[g].key # req[h].key
    BY <1>2, <2>1 DEF StartFailed, StartCommit, KeyIsFree, RunInv, Has, Started
  <2>3. h # g => req[g].key \in Key
    BY <2>1, BusyRequest DEF Started
  <2>4. CASE h # g
    <3>1. \E q : ordered' = [ordered EXCEPT ![req[h].key] = q]
      BY <1>2 DEF StartFailed, StartCommit
    <3>2. ordered'[req[g].key] = ordered[req[g].key]
      BY <2>2, <2>3, <2>4, <3>1 DEF SagasType
    <3> QED BY <2>1, <2>4, <3>2 DEF OwnQuantity
  <2>5. CASE h = g
    <3>1. StartCommit(h) BY <1>2, <2>5 DEF StartFailed, Leave, Started
    <3>2. req'[h] = req[h] /\ req[h].key \in Key
      BY <3>1, BusyRequest DEF StartCommit, Goto
    <3> QED BY <2>5, <3>1, <3>2 DEF StartCommit, SagasType
  <2> QED BY <2>4, <2>5
<1>3. ASSUME NEW h \in Handler, Run(h), ~ StartFailed(h), ~ StartCommit(h)
      PROVE  pc[g] \in Started /\ req'[g] = req[g] /\ ordered' = ordered
  BY <1>3
     DEF Run, StartRead, StartRollback, AuthorizeAccepted, AuthorizeRejected,
         AuthorizeUnavailable, RecordPaymentAuthorized, RequestAccepted, RequestRejected,
         RequestUnavailable, CancelAccepted, CancelFailed, CancelQuietly,
         CompensateRead, CompensateCommit, ConfirmRead, ConfirmCommit,
         Goto, Leave, ReadInventory, Compensate, Started
<1>4. ASSUME NEW h \in Handler, Crash(h) \/ \E r \in Request : Receive(h, r)
      PROVE  pc[g] \in Started /\ req'[g] = req[g] /\ ordered' = ordered
  BY <1>4 DEF Crash, Receive, Leave, Started
<1>5. ASSUME NEW k \in Key, PaymentAuthorize(k) \/ PaymentCancel(k) \/ ShippingRequest(k)
      PROVE  pc[g] \in Started /\ req'[g] = req[g] /\ ordered' = ordered
  BY <1>5 DEF PaymentAuthorize, PaymentCancel, ShippingRequest
<1>6. ASSUME NEW p \in Replenisher, ReplenishRead(p) \/ Replenish(p)
      PROVE  pc[g] \in Started /\ req'[g] = req[g] /\ ordered' = ordered
  BY <1>6 DEF ReplenishRead, Replenish
<1>7. CASE UNCHANGED vars
  BY <1>1, <1>7 DEF vars
<1> HIDE DEF SagaInv, TypeInv, ThreadsType, sagas, threads
<1> QED BY <1>1, <1>2, <1>3, <1>4, <1>5, <1>6, <1>7 DEF Next

LEMMA ReplenishExact ==
  ASSUME SagaInv, StockIsExact, NEW p \in Replenisher, Replenish(p)
  PROVE  StockIsExact'
<1>1. Held("CREATED")' = Held("CREATED") /\ Held("CONFIRMED")' = Held("CONFIRMED")
      /\ ordered' = ordered
  BY DEF Replenish, sagas, Held
<1>2. IsFiniteSet(Held("CREATED")) /\ IsFiniteSet(Held("CONFIRMED"))
  BY DEF StockIsExact
<1>3. Total(ordered, Held("CONFIRMED")) \in Int
  BY <1>2, OrderedInt, TotalInt DEF SagaInv, TypeInv, Held
<1>4. /\ inventory.available \in Int /\ inventory.reserved \in Int
      /\ stocked \in Int /\ RefillTo \in Int
  BY StockAssumption DEF SagaInv, TypeInv, StockType, Stock
<1>5. overlaps' = "no" =>
        /\ overlaps = "no"
        /\ inventory'.available = RefillTo /\ inventory'.reserved = inventory.reserved
        /\ stocked' = stocked + (RefillTo - inventory.available)
  BY DEF Replenish, WriteInventory
<1>6. Exact' BY <1>1, <1>3, <1>4, <1>5 DEF StockIsExact, Exact
<1> QED BY <1>1, <1>2, <1>6 DEF StockIsExact

LEMMA NextExact ==
  SagaInv /\ SagaInv' /\ OwnQuantity /\ StockIsExact /\ [Next]_vars => StockIsExact'
<1> SUFFICES ASSUME SagaInv, SagaInv', OwnQuantity, StockIsExact, [Next]_vars
             PROVE  StockIsExact'
  OBVIOUS
<1>0. TypeInv' BY DEF SagaInv
<1> USE DEF sagas, stock, ghosts
<1>1. ASSUME NEW h \in Handler, Run(h) PROVE StockIsExact'
  <2>1. CASE StartFailed(h) BY <1>0, <2>1, StartFailedExact
  <2>2. CASE StartCommit(h) BY <1>0, <2>2, StartCommitExact
  <2>3. CASE CompensateCommit(h) BY <1>0, <2>3, CompensateCommitExact
  <2>4. CASE ConfirmCommit(h) BY <1>0, <2>4, ConfirmCommitExact
  <2>5. CASE UNCHANGED <<status, ordered, inventory, overlaps, stocked>>
    BY <2>5, SameStockExact
  <2> QED
    BY <1>1, <2>1, <2>2, <2>3, <2>4, <2>5
       DEF Run, StartRead, StartRollback, AuthorizeAccepted, AuthorizeRejected,
           AuthorizeUnavailable, RecordPaymentAuthorized, RequestAccepted, RequestRejected,
           RequestUnavailable, CancelAccepted, CancelFailed, CancelQuietly,
           CompensateRead, ConfirmRead
<1>2. ASSUME NEW h \in Handler, Crash(h) \/ \E r \in Request : Receive(h, r)
      PROVE  StockIsExact'
  BY <1>2, SameStockExact DEF Crash, Receive
<1>3. ASSUME NEW k \in Key, PaymentAuthorize(k) \/ PaymentCancel(k) \/ ShippingRequest(k)
      PROVE  StockIsExact'
  BY <1>3, SameStockExact DEF PaymentAuthorize, PaymentCancel, ShippingRequest
<1>4. ASSUME NEW p \in Replenisher, ReplenishRead(p) \/ Replenish(p)
      PROVE  StockIsExact'
  BY <1>4, SameStockExact, ReplenishExact DEF ReplenishRead
<1>5. CASE UNCHANGED vars
  BY <1>5, SameStockExact DEF vars
<1> QED BY <1>1, <1>2, <1>3, <1>4, <1>5 DEF Next

(* As long as no transaction writes from a stale read, reserved is what    *)
(* the unfinished orders hold, to the unit, and nothing is lost or made up *)
(* between the shelf, the reservations and the sales.                      *)
THEOREM StockAddsUp == Spec => []InventoryIsExact
<1>1. Spec => []OwnQuantity
  BY InitQuantity, NextQuantity, SagaInvariant, PTL DEF Spec
<1>2. Spec => []StockIsExact
  BY <1>1, InitExact, NextExact, SagaInvariant, PTL DEF Spec
<1>3. StockIsExact => InventoryIsExact
  BY ExactUnits DEF StockIsExact
<1> QED BY <1>2, <1>3, PTL

(* The shop does not sell what it has not put in stock: what it took       *)
(* orders for, open or confirmed, is within it.  Only as long as no        *)
(* transaction has written the row from a stale read: OrderSagaSteps.java, *)
(* line 231, loads and saves the row with no lock and no version, so two   *)
(* requests that overlap may reserve one unit twice, and this is lost.     *)
NothingOversold ==
  overlaps = "no" => Units(Held("CREATED")) + Units(Held("CONFIRMED")) <= stocked

THEOREM NeverOversold == Spec => []NothingOversold
<1>1. Spec => []OwnQuantity
  BY InitQuantity, NextQuantity, SagaInvariant, PTL DEF Spec
<1>2. Spec => []StockIsExact
  BY <1>1, InitExact, NextExact, SagaInvariant, PTL DEF Spec
<1>3. TypeInv /\ StockIsExact /\ inventory.available >= 0 => NothingOversold
  <2> SUFFICES ASSUME TypeInv, StockIsExact, inventory.available >= 0, overlaps = "no"
               PROVE  Units(Held("CREATED")) + Units(Held("CONFIRMED")) <= stocked
    BY DEF NothingOversold
  <2> DEFINE open == Units(Held("CREATED"))
             sold == Units(Held("CONFIRMED"))
  <2>1. /\ open = Total(ordered, Held("CREATED")) /\ sold = Total(ordered, Held("CONFIRMED"))
        /\ inventory.reserved = open
        /\ inventory.available + inventory.reserved + sold = stocked
    BY DEF Units, Total, MapThenSumSet, MapThenFoldSet, StockIsExact, Exact
  <2>2. open \in Int /\ sold \in Int
    <3>1. \A k \in Held("CREATED") \cup Held("CONFIRMED") : ordered[k] \in Int
      <4>1. ordered \in [Key -> Quantity \cup {0}]
        BY DEF TypeInv, SagasType
      <4>2. Quantity \cup {0} \subseteq Int
        BY QuantityAssumption
      <4>3. Held("CREATED") \cup Held("CONFIRMED") \subseteq Key
        BY DEF Held
      <4> HIDE DEF open, sold
      <4> QED BY <4>1, <4>2, <4>3, Zenon
    <3> QED BY <2>1, <3>1, TotalInt DEF StockIsExact
  <2>3. inventory.available \in Int /\ stocked \in Int
    BY DEF TypeInv, StockType, Stock
  <2> HIDE DEF open, sold
  <2>4. open + sold <= stocked
    BY <2>1, <2>2, <2>3
  <2> USE DEF open, sold
  <2> QED BY <2>4
<1> QED BY <1>2, <1>3, TypeInvariant, AvailableIsCounted, PTL

------------------------------------------------------------------------------
(* Refinement.                                                             *)

LEMMA StepRefines ==
  SagaInv /\ [Next]_vars => [Contract!Next]_(Contract!vars)
<1> SUFFICES ASSUME SagaInv, [Next]_vars
             PROVE  Contract!Next \/ UNCHANGED <<status, payment, shipment>>
  BY DEF Contract!vars
<1> USE DEF SagaInv, TypeInv, SagasType, RestType, sagas, participants
<1>1. ASSUME NEW h \in Handler, StartFailed(h) \/ StartCommit(h)
      PROVE  \E k \in Key : Contract!Take(k)
  BY <1>1, BusyRequest DEF StartFailed, StartCommit, KeyIsFree, Contract!Take
<1>2. ASSUME NEW h \in Handler, CompensateCommit(h)
      PROVE  \E k \in Key : Contract!Fail(k)
  <2>1. PICK k \in Key : k = req[h].key
    BY <1>2, BusyRequest DEF CompensateCommit
  <2>2. Contract!Fail(k)
    BY <1>2, <2>1 DEF CompensateCommit, RunInv, Has, Started, Contract!Fail
  <2> QED BY <2>2
<1>3. ASSUME NEW h \in Handler, ConfirmCommit(h)
      PROVE  \E k \in Key : Contract!Confirm(k)
  <2>1. PICK k \in Key : k = req[h].key
    BY <1>3, BusyRequest DEF ConfirmCommit
  <2>2. payment[k] = "AUTHORIZED" /\ shipment[k] = "REQUESTED" /\ status[k] = "CREATED"
    BY <1>3, <2>1 DEF ConfirmCommit, RunInv, AskInv, Has, Started
  <2>3. Contract!Confirm(k)
    BY <1>3, <2>1, <2>2 DEF ConfirmCommit, Contract!Confirm
  <2> QED BY <2>3
<1>4. ASSUME NEW k \in Key, PaymentAuthorize(k) PROVE Contract!Pay(k)
  BY <1>4 DEF PaymentAuthorize, AskInv, OrderStatus, Contract!Pay
<1>5. ASSUME NEW k \in Key, PaymentCancel(k)
      PROVE  Contract!Cancel(k) \/ UNCHANGED <<status, payment, shipment>>
  BY <1>5 DEF PaymentCancel, AskInv, Contract!Cancel
<1>6. ASSUME NEW k \in Key, ShippingRequest(k) PROVE Contract!Ship(k)
  BY <1>6 DEF ShippingRequest, AskInv, OrderStatus, Contract!Ship
<1>7. ASSUME NEW h \in Handler,
             \/ Quiet(h) \/ RecordPaymentAuthorized(h) \/ RequestRejected(h)
             \/ RequestUnavailable(h) \/ CancelFailed(h) \/ Crash(h)
             \/ \E r \in Request : Receive(h, r)
      PROVE  UNCHANGED <<status, payment, shipment>>
  BY <1>7
     DEF Quiet, StartRead, StartRollback, AuthorizeAccepted, AuthorizeRejected,
         AuthorizeUnavailable, RequestAccepted, CancelAccepted, CancelQuietly,
         CompensateRead, ConfirmRead, RecordPaymentAuthorized, RequestRejected,
         RequestUnavailable, CancelFailed, Crash, Receive
<1>8. ASSUME NEW p \in Replenisher, ReplenishRead(p) \/ Replenish(p)
      PROVE  UNCHANGED <<status, payment, shipment>>
  BY <1>8 DEF ReplenishRead, Replenish
<1>9. CASE UNCHANGED vars
  BY <1>9 DEF vars
<1> HIDE DEF SagaInv, TypeInv, SagasType, RestType, sagas, participants
<1> QED
  BY <1>1, <1>2, <1>3, <1>4, <1>5, <1>6, <1>7, <1>8, <1>9
     DEF Next, Run, Quiet, Contract!Next

(* The saga implements its contract: a client sees an order taken, then    *)
(* confirmed with both participants holding it or failed, and a confirmed  *)
(* order is left alone for good.                                           *)
THEOREM SagaKeepsContract == Spec => ContractHolds
<1>1. Init => Contract!Init
  BY DEF Init, Contract!Init
<1> QED BY <1>1, StepRefines, SagaInvariant, PTL DEF Spec, ContractHolds, Contract!Spec
=============================================================================
