-------------------------- MODULE KafkaDemo_proofs --------------------------
(***************************************************************************)
(* Proofs about KafkaDemo, for any orders, relays, failures and retries, and   *)
(* with listeners that go on after they have lost their partition: its types,  *)
(* that an order is closed when all three consumers have succeeded, and only   *)
(* then, that it is settled when nothing is left to handle unless a success    *)
(* was overwritten, and that it implements DemoContract.                       *)
(***************************************************************************)
EXTENDS KafkaDemo, TLAPS

Locking == {"counting", "ready", "notReady"}

(* The row of an order is locked exactly while one consumer counts; what it   *)
(* has counted stays true until it commits.                                 *)
LockOK(o) ==
  \A c \in Consumer, k \in Role : at[o][c][k] \in Locking => lock[o] = <<c, k>>
CountOK(o) ==
  \A c \in Consumer, k \in Role :
    /\ at[o][c][k] = "ready" => Consumer \ {c} \subseteq served[o]
    /\ at[o][c][k] = "notReady" => \E d \in Consumer \ {c} : result[o][d] # "SUCCESS"

(* A success is remembered, and closes the order when it is the last one.    *)
ServeOK(o) == \A c \in Consumer : result[o][c] = "SUCCESS" => c \in served[o]
CloseOK(o) ==
  (\A c \in Consumer : result[o][c] = "SUCCESS") => status[o] \in {"COMPLETED", "FAILED"}
CompleteOK(o) == status[o] = "COMPLETED" => Consumer \subseteq served[o]

OrderOK(o) == LockOK(o) /\ CountOK(o) /\ ServeOK(o) /\ CloseOK(o) /\ CompleteOK(o)

(* A cut-off listener is at work only while it holds a record.                *)
LeftOK(o) == \A l \in Listener : at[o][l]["cutOff"] # "idle" => left[o][l] > 0

Inv == TypeOK /\ \A o \in Order : LeftOK(o) /\ OrderOK(o)

LEMMA InitInv == Init => Inv
  <1> SUFFICES ASSUME Init PROVE Inv
    OBVIOUS
  <1>1. TypeOK
    BY NumberAssumption DEF Init, TypeOK, Step, Listener
  <1>2. \A o \in Order : LeftOK(o) /\ OrderOK(o)
    <2> SUFFICES ASSUME NEW o \in Order PROVE LeftOK(o) /\ OrderOK(o)
      OBVIOUS
    <2>1. /\ \A l \in Listener, k \in Role : at[o][l][k] = "idle"
          /\ Consumer \subseteq Listener /\ "cutOff" \in Role
          /\ \A c \in Consumer : result[o][c] = "NONE"
          /\ status[o] = "NONE"
      BY DEF Init, Listener, Role
    <2> QED BY <2>1 DEF LeftOK, OrderOK, LockOK, CountOK, ServeOK, CloseOK, CompleteOK, Locking,
                        Consumer
  <1> QED BY <1>1, <1>2 DEF Inv

-----------------------------------------------------------------------------
(* Types, action by action. *)

LEMMA FaultIsTyped == TypeOK /\ Fault => faults' \in 0..MaxFaults
  BY NumberAssumption DEF TypeOK, Fault

LEMMA RelayTypes ==
  ASSUME TypeOK, NEW r \in Relay, Publish(r) \/ RelayFails(r) \/ \E o \in Order : SendFails(r, o)
  PROVE  TypeOK'
  <1>1. CASE Claim(r)
    <2>1. Pending \subseteq Order
      BY DEF Pending, TypeOK
    <2> QED BY <1>1, <2>1 DEF Claim, TypeOK, demo, cursor, history
  <1>2. ASSUME NEW o \in Order, Send(r, o) PROVE TypeOK'
    BY <1>2 DEF Send, TypeOK, demo, cursor, history
  <1>3. ASSUME NEW o \in Order, MarkRow(r, o) PROVE TypeOK'
    BY <1>3 DEF MarkRow, TypeOK, demo, cursor, history
  <1>4. ASSUME NEW o \in Order, MarkPublished(r, o) PROVE TypeOK'
    BY <1>4 DEF MarkPublished, TypeOK, cursor, history
  <1>5. CASE RelayFails(r)
    BY <1>5, FaultIsTyped DEF RelayFails, TypeOK, demo, cursor
  <1>6. ASSUME NEW o \in Order, SendFails(r, o) PROVE TypeOK'
    <2>1. faults' \in 0..MaxFaults
      BY <1>6, FaultIsTyped DEF SendFails
    <2>2. records' \in [Order -> Nat]
      <3>1. [records EXCEPT ![o] = @ + 1] \in [Order -> Nat]
        BY DEF TypeOK
      <3> QED BY <1>6, <3>1 DEF SendFails, TypeOK
    <2>3. row' \in [Order -> {"NONE", "NEW", "CLAIMED", "PUBLISHED"}] /\ expired' \subseteq Order
      BY <1>6 DEF SendFails, TypeOK
    <2>4. batch' \in [Relay -> SUBSET Order]
      BY <1>6 DEF SendFails, TypeOK
    <2> QED BY <1>6, <2>1, <2>2, <2>3, <2>4 DEF SendFails, TypeOK, demo, cursor
  <1> QED BY <1>1, <1>2, <1>3, <1>4, <1>5, <1>6 DEF Publish

LEMMA OrderTypes ==
  ASSUME TypeOK, NEW o \in Order, Create(o) \/ ClaimExpires(o)
  PROVE  TypeOK'
  BY DEF Create, ClaimExpires, TypeOK, demo, cursor, history

Places == [Order -> [Listener -> Nat]]
Tried == [Order -> [Listener -> [Role -> 0..MaxRetries]]]
Stages == [Order -> [Listener -> [Role -> Step]]]
Holders == [Order -> (Consumer \X Role) \cup {Nobody}]
Results == [Order -> [Consumer -> {"NONE", "RETRYING", "SUCCESS", "DLQ"}]]

(* What a listener does to its place in the topic. *)
LEMMA HandledTypes ==
  ASSUME Inv, NEW o \in Order, NEW l \in Listener, NEW k \in Role, Handled(o, l, k),
         at[o][l][k] # "idle"
  PROVE  position' \in Places /\ committed' \in Places /\ left' \in Places /\ tries' \in Tried
  <1>1. tries' \in Tried /\ committed' \in Places
    BY NumberAssumption DEF Inv, Handled, TypeOK, Tried, Places
  <1>0. /\ position \in Places /\ left \in Places
        /\ position[o][l] \in Nat /\ left[o][l] \in Nat
    BY DEF Inv, TypeOK, Places
  <1>2. CASE k = "owner"
    <2>1. position' = [position EXCEPT ![o][l] = position[o][l] + 1] /\ left' = left
      BY <1>2 DEF Handled
    <2>2. position[o][l] + 1 \in Nat
      BY <1>0
    <2>3. position' \in Places
      BY <1>0, <2>1, <2>2 DEF Places
    <2> QED BY <1>0, <1>1, <2>1, <2>3
  <1>3. CASE k # "owner"
    <2>1. left' = [left EXCEPT ![o][l] = left[o][l] - 1] /\ position' = position
      BY <1>3 DEF Handled
    <2>2. left[o][l] - 1 \in Nat
      BY <1>0, <1>3 DEF Inv, LeftOK, Role
    <2>3. left' \in Places
      BY <1>0, <2>1, <2>2 DEF Places
    <2> QED BY <1>0, <1>1, <2>1, <2>3
  <1> QED BY <1>1, <1>2, <1>3

(* Where the listeners are after one of them has moved. *)
LEMMA GotoMoves ==
  ASSUME TypeOK, NEW o \in Order, NEW l \in Listener, NEW k \in Role, NEW step,
         Goto(o, l, k, step)
  PROVE  /\ \A d \in Listener, j \in Role :
              at'[o][d][j] = IF d = l /\ j = k THEN step ELSE at[o][d][j]
         /\ \A p \in Order : p # o => at'[p] = at[p]
  BY DEF Goto, TypeOK

LEMMA GotoTypes ==
  ASSUME TypeOK, NEW o \in Order, NEW l \in Listener, NEW k \in Role, NEW step \in Step,
         Goto(o, l, k, step)
  PROVE  at' \in Stages
  BY DEF Goto, TypeOK, Stages

LEMMA UnlockTypes ==
  ASSUME TypeOK, NEW o \in Order, NEW l, NEW k, Unlock(o, l, k)
  PROVE  lock' \in Holders
  BY DEF Unlock, TypeOK, Holders

LEMMA RetryingTypes ==
  ASSUME TypeOK, NEW o \in Order, NEW c \in Consumer, NEW k \in Role, Retrying(o, c, k)
  PROVE  result' \in Results /\ undone' \in [Order -> SUBSET Consumer]
         /\ UNCHANGED <<served, gaveUp, faults>>
  <1>1. result' \in Results
    BY DEF Retrying, TypeOK, Results
  <1>2. undone' \in [Order -> SUBSET Consumer]
    BY DEF Retrying, TypeOK
  <1> QED BY <1>1, <1>2 DEF Retrying
LEMMA ConsumeTypes ==
  ASSUME Inv, TypeOK, NEW o \in Order, NEW c \in Consumer, NEW k \in Role,
         \/ RecordAttempt(o, c, k) \/ RecordRetry(o, c, k) \/ BeginSuccess(o, c, k)
         \/ CountSuccess(o, c, k) \/ RecordSuccess(o, c, k)
  PROVE  TypeOK'
  <1>0. /\ c \in Listener
        /\ {"first", "again", "thrown", "counting", "ready", "notReady", "idle"} \subseteq Step
    BY DEF Listener, Step
  <1>1. CASE RecordAttempt(o, c, k)
    <2>1. at' \in Stages
      <3>1. PICK step \in Step : Goto(o, c, k, step)
        BY <1>0, <1>1 DEF RecordAttempt
      <3> QED BY <1>0, <3>1, GotoTypes
    <2>2. attempts' \in [Order -> [Consumer -> Nat]]
      BY <1>1 DEF RecordAttempt, TypeOK
    <2>3. /\ result' \in Results /\ undone' \in [Order -> SUBSET Consumer]
          /\ UNCHANGED <<served, gaveUp, faults>>
      BY <1>1, RetryingTypes DEF RecordAttempt
    <2> QED BY <1>1, <2>1, <2>2, <2>3 DEF RecordAttempt, TypeOK, relays, cursor, Stages, Results
  <1>2. CASE RecordRetry(o, c, k)
    <2>1. at' \in Stages
      BY <1>0, <1>2, GotoTypes DEF RecordRetry
    <2>2. /\ result' \in Results /\ undone' \in [Order -> SUBSET Consumer]
          /\ UNCHANGED <<served, gaveUp, faults>>
      BY <1>2, RetryingTypes DEF RecordRetry
    <2> QED BY <1>2, <2>1, <2>2 DEF RecordRetry, TypeOK, relays, cursor, Stages, Results
  <1>3. CASE BeginSuccess(o, c, k)
    <2>1. at' \in Stages
      BY <1>0, <1>3, GotoTypes DEF BeginSuccess
    <2>2. lock' \in Holders
      BY <1>3 DEF BeginSuccess, LockOrder, TypeOK, Holders
    <2> QED BY <1>3, <2>1, <2>2
        DEF BeginSuccess, TypeOK, demo, relays, cursor, history, Stages, Holders
  <1>4. CASE CountSuccess(o, c, k)
    <2>1. at' \in Stages
      <3>1. PICK step \in Step : Goto(o, c, k, step)
        BY <1>0, <1>4 DEF CountSuccess
      <3> QED BY <1>0, <3>1, GotoTypes
    <2> QED BY <1>4, <2>1 DEF CountSuccess, TypeOK, demo, relays, cursor, history, Stages
  <1>5. CASE RecordSuccess(o, c, k)
    <2>1. at' \in Stages
      BY <1>0, <1>5, GotoTypes DEF RecordSuccess
    <2>2. lock' \in Holders
      BY <1>5, UnlockTypes DEF RecordSuccess
    <2>3. position' \in Places /\ committed' \in Places /\ left' \in Places /\ tries' \in Tried
      BY <1>0, <1>5, HandledTypes DEF RecordSuccess
    <2>4. result' \in Results
          /\ status' \in [Order -> {"NONE", "ACCEPTED", "PUBLISHED", "COMPLETED", "FAILED"}]
      BY <1>5 DEF RecordSuccess, TypeOK, Results
    <2>5. served' \in [Order -> SUBSET Consumer] /\ undone' \in [Order -> SUBSET Consumer]
      BY <1>5 DEF RecordSuccess, TypeOK
    <2> QED BY <1>0, <1>5, <2>1, <2>2, <2>3, <2>4, <2>5
        DEF RecordSuccess, TypeOK, relays, Stages, Holders, Places, Tried, Results
  <1> QED BY <1>1, <1>2, <1>3, <1>4, <1>5
LEMMA DlqTypes ==
  ASSUME Inv, TypeOK, NEW o \in Order, NEW k \in Role,
         ReadDlq(o, k) \/ RecordDlq(o, k) \/ RecordDlqConflict(o, k)
  PROVE  TypeOK'
  <1>0. /\ "DLQ" \in Listener /\ "NOTIFICATION" \in Consumer
        /\ {"dlq", "idle", "thrown"} \subseteq Step
    BY DEF Listener, Step, Consumer
  <1>1. at' \in Stages
    BY <1>0, GotoTypes DEF ReadDlq, RecordDlq, RecordDlqConflict
  <1>2. CASE ReadDlq(o, k)
    <2> DEFINE found == IF result[o]["NOTIFICATION"] = "NONE" THEN {}
                        ELSE {attempts[o]["NOTIFICATION"]}
    <2>1. found \in SUBSET Nat
      BY <1>0 DEF TypeOK
    <2>2. seen' = [seen EXCEPT ![o][k] = found]
      BY <1>2 DEF ReadDlq
    <2>3. seen' \in [Order -> [Role -> SUBSET Nat]]
      BY <2>1, <2>2 DEF TypeOK
    <2> QED BY <1>1, <1>2, <2>3 DEF ReadDlq, TypeOK, demo, relays, cursor, history, Stages
  <1>3. CASE RecordDlq(o, k)
    <2> DEFINE n == IF seen[o][k] = {} THEN 0 ELSE CHOOSE m \in seen[o][k] : TRUE
    <2>1. n \in Nat
      BY DEF TypeOK
    <2>2. attempts' \in [Order -> [Consumer -> Nat]]
      BY <1>0, <1>3, <2>1 DEF RecordDlq, TypeOK
    <2>3. position' \in Places /\ committed' \in Places /\ left' \in Places /\ tries' \in Tried
      BY <1>0, <1>3, HandledTypes DEF RecordDlq
    <2>4. /\ result' \in Results
          /\ status' \in [Order -> {"NONE", "ACCEPTED", "PUBLISHED", "COMPLETED", "FAILED"}]
      BY <1>3 DEF RecordDlq, TypeOK, Results
    <2>5. seen' \in [Order -> [Role -> SUBSET Nat]]
      BY <1>3 DEF RecordDlq, TypeOK
    <2> QED BY <1>1, <1>3, <2>2, <2>3, <2>4, <2>5
        DEF RecordDlq, TypeOK, relays, history, Stages, Places, Tried, Results
  <1>4. CASE RecordDlqConflict(o, k)
    BY <1>1, <1>4 DEF RecordDlqConflict, TypeOK, demo, relays, cursor, history, Stages
  <1> QED BY <1>2, <1>3, <1>4

LEMMA LetGoTypes ==
  ASSUME TypeOK, NEW o \in Order, NEW l \in Listener, LetGo(o, l)
  PROVE  /\ position' \in Places /\ committed' \in Places /\ left' \in Places /\ tries' \in Tried
         /\ at' \in Stages
  <1>1. "cutOff" \in Role /\ "idle" \in Step
    BY DEF Role, Step
  <1>2. at' \in Stages
    BY <1>1, GotoTypes DEF LetGo
  <1>3. left' \in Places /\ UNCHANGED <<position, committed>>
    BY DEF LetGo, TypeOK, Places
  <1>4. tries' \in Tried
    BY <1>1, NumberAssumption DEF LetGo, TypeOK, Tried
  <1> QED BY <1>2, <1>3, <1>4 DEF TypeOK, Places

LEMMA ListenerTypes ==
  ASSUME Inv, TypeOK, NEW o \in Order, NEW l \in Listener, NEW k \in Role,
         TryAgain(o, l, k) \/ HandlerFails(o, l, k) \/ CommitOffset(o, l)
  PROVE  TypeOK'
  <1>0. {"idle", "thrown"} \subseteq Step /\ "owner" \in Role
    BY DEF Step, Role
  <1>1. CASE Retry(o, l)
    <2>1. at' \in Stages
      BY <1>0, <1>1, GotoTypes DEF Retry
    <2>2. tries' \in Tried
      <3>1. tries[o][l]["owner"] + 1 \in 0..MaxRetries
        BY <1>0, <1>1, NumberAssumption DEF Retry, TypeOK
      <3> QED BY <1>0, <1>1, <3>1 DEF Retry, TypeOK, Tried
    <2> QED BY <1>1, <2>1, <2>2 DEF Retry, TypeOK, demo, relays, history, Stages, Tried
  <1>2. CASE DropRetry(o, l)
    <2>1. /\ position' \in Places /\ committed' \in Places /\ left' \in Places /\ tries' \in Tried
          /\ at' \in Stages
      BY <1>2, LetGoTypes DEF DropRetry
    <2> QED BY <1>2, <2>1 DEF DropRetry, TypeOK, demo, relays, history, Stages, Places, Tried
  <1>3. CASE Recover(o, l, k)
    <2>1. /\ position' \in Places /\ committed' \in Places /\ left' \in Places /\ tries' \in Tried
          /\ at' \in Stages
      <3>1. CASE k = "owner"
        <4>1. Handled(o, l, k) /\ Goto(o, l, k, "idle") /\ at[o][l][k] # "idle"
          BY <1>3, <3>1 DEF Recover
        <4> QED BY <1>0, <4>1, HandledTypes, GotoTypes
      <3>2. CASE k # "owner"
        BY <1>3, <3>2, LetGoTypes DEF Recover
      <3> QED BY <3>1, <3>2
    <2>2. letters' \in [Order -> Nat]
      BY <1>3 DEF Recover, TypeOK
    <2>3. gaveUp' \in [Order -> SUBSET Listener]
      BY <1>3 DEF Recover, TypeOK
    <2> QED BY <1>3, <2>1, <2>2, <2>3
        DEF Recover, TypeOK, demo, relays, Stages, Places, Tried
  <1>4. CASE HandlerFails(o, l, k)
    <2>1. at' \in Stages
      BY <1>0, <1>4, GotoTypes DEF HandlerFails
    <2>2. lock' \in Holders
      BY <1>4, UnlockTypes DEF HandlerFails
    <2>3. faults' \in 0..MaxFaults
      BY <1>4, FaultIsTyped DEF HandlerFails, KeepsFailing, TypeOK
    <2>4. seen' \in [Order -> [Role -> SUBSET Nat]]
      BY <1>4 DEF HandlerFails, Forget, TypeOK
    <2> QED BY <1>4, <2>1, <2>2, <2>3, <2>4
        DEF HandlerFails, KeepsFailing, TypeOK, demo, relays, cursor, Stages, Holders
  <1>5. CASE CommitOffset(o, l)
    BY <1>5 DEF CommitOffset, TypeOK, demo, relays, history
  <1> QED BY <1>1, <1>2, <1>3, <1>4, <1>5 DEF TryAgain

LEMMA RebalanceTypes ==
  ASSUME TypeOK, NEW o \in Order, NEW l \in Listener, Rebalance(o, l)
  PROVE  TypeOK'
  <1>0. "idle" \in Step /\ Role = {"owner", "cutOff"} /\ 0 \in 0..MaxRetries
    BY NumberAssumption DEF Step, Role
  <1>1. position' \in Places /\ UNCHANGED <<demo, relays, records, letters, committed, served,
                                            gaveUp, undone>>
    BY DEF Rebalance, TypeOK, Places
  <1>2. faults' \in 0..MaxFaults
    BY FaultIsTyped DEF Rebalance
  <1>3. CASE Dies(o, l)
    <2>1. at' \in Stages /\ tries' \in Tried
      BY <1>0, <1>3 DEF Dies, TypeOK, Stages, Tried
    <2>2. lock' \in Holders
      BY <1>3, UnlockTypes DEF Dies
    <2>3. seen' \in [Order -> [Role -> SUBSET Nat]]
      BY <1>3 DEF Dies, TypeOK
    <2> QED BY <1>1, <1>2, <1>3, <2>1, <2>2, <2>3
        DEF Dies, TypeOK, demo, relays, Stages, Tried, Holders, Places
  <1>4. CASE GoesOn(o, l)
    <2>1. left' \in Places
      <3>1. position[o][l] \in Nat /\ End(o, l) \in Nat
        BY DEF TypeOK, End
      <3>2. PICK n \in 1..(End(o, l) - position[o][l]) : left' = [left EXCEPT ![o][l] = n]
        BY <1>4 DEF GoesOn
      <3>3. n \in Nat
        BY <3>1
      <3> QED BY <3>2, <3>3 DEF TypeOK, Places
    <2>2. at' \in Stages
      <3> DEFINE now == [owner |-> "idle", cutOff |-> at[o][l]["owner"]]
      <3>1. now \in [Role -> Step]
        BY <1>0 DEF TypeOK
      <3>2. at' = [at EXCEPT ![o][l] = now]
        BY <1>4 DEF GoesOn, TypeOK
      <3> HIDE DEF now
      <3> QED BY <3>1, <3>2 DEF TypeOK, Stages
    <2>3. tries' \in Tried
      <3> DEFINE now == [owner |-> 0, cutOff |-> tries[o][l]["owner"]]
      <3>1. now \in [Role -> 0..MaxRetries]
        BY <1>0 DEF TypeOK
      <3>2. tries' = [tries EXCEPT ![o][l] = now]
        BY <1>4 DEF GoesOn, TypeOK
      <3> HIDE DEF now
      <3> QED BY <3>1, <3>2 DEF TypeOK, Tried
    <2>4. lock' \in Holders
      <3>1. lock[o] \in (Consumer \X Role) \cup {Nobody}
        BY DEF TypeOK
      <3>2. CASE lock[o] = <<l, "owner">>
        <4> DEFINE now == <<l, "cutOff">>
        <4>1. now \in Consumer \X Role
          <5>1. <<l, "owner">> \in Listener \X Role
            BY <1>0
          <5>2. <<l, "owner">> \in Consumer \X Role
            BY <3>1, <3>2, <5>1, NobodyAssumption
          <5> QED BY <1>0, <5>2
        <4>2. lock' = [lock EXCEPT ![o] = now]
          BY <1>4, <3>2 DEF GoesOn, TypeOK
        <4> HIDE DEF now
        <4> QED BY <4>1, <4>2 DEF TypeOK, Holders
      <3>3. CASE lock[o] # <<l, "owner">>
        BY <1>4, <3>3 DEF GoesOn, TypeOK, Holders
      <3> QED BY <3>2, <3>3
    <2>5. seen' \in [Order -> [Role -> SUBSET Nat]]
      <3> DEFINE now == [owner |-> {}, cutOff |-> seen[o]["owner"]]
      <3>1. now \in [Role -> SUBSET Nat]
        BY <1>0 DEF TypeOK
      <3>2. seen' = seen \/ seen' = [seen EXCEPT ![o] = now]
        BY <1>4 DEF GoesOn, TypeOK
      <3> HIDE DEF now
      <3> QED BY <3>1, <3>2 DEF TypeOK
    <2> QED BY <1>1, <1>2, <1>4, <2>1, <2>2, <2>3, <2>4, <2>5
        DEF TypeOK, demo, relays, Stages, Tried, Holders, Places
  <1> QED BY <1>3, <1>4 DEF Rebalance

LEMMA StepTypes == Inv /\ [Next]_vars => TypeOK'
  <1> SUFFICES ASSUME Inv, TypeOK, [Next]_vars PROVE TypeOK'
    BY DEF Inv
  <1>1. CASE UNCHANGED vars
    BY <1>1 DEF vars, TypeOK
  <1>2. CASE Next
    <2>1. "DLQ" \in Listener /\ Consumer \subseteq Listener /\ "owner" \in Role
      BY DEF Listener, Role
    <2>2. ASSUME NEW o \in Order, NEW k \in Role, NEW c \in Consumer, Consume(o, c, k)
          PROVE  TypeOK'
      BY <2>1, <2>2, ConsumeTypes, ListenerTypes DEF Consume
    <2>3. ASSUME NEW o \in Order, NEW k \in Role, ConsumeDlq(o, k) PROVE TypeOK'
      BY <2>1, <2>3, DlqTypes, ListenerTypes DEF ConsumeDlq
    <2> QED BY <1>2, <2>1, <2>2, <2>3, RelayTypes, OrderTypes, ListenerTypes, RebalanceTypes
        DEF Next
  <1> QED BY <1>1, <1>2
-----------------------------------------------------------------------------
(* What a step of a listener does to its place and to its order.             *)

Works(o, l, k) ==
  \/ /\ l \in Consumer
     /\ \/ RecordAttempt(o, l, k) \/ RecordRetry(o, l, k) \/ BeginSuccess(o, l, k)
        \/ CountSuccess(o, l, k) \/ RecordSuccess(o, l, k)
  \/ l = "DLQ" /\ (ReadDlq(o, k) \/ RecordDlq(o, k) \/ RecordDlqConflict(o, k))
  \/ TryAgain(o, l, k) \/ HandlerFails(o, l, k)
Moves(o, l) == (\E k \in Role : Works(o, l, k)) \/ CommitOffset(o, l) \/ Rebalance(o, l)

LEMMA NextIs ==
  ASSUME Next
  PROVE  \/ \E o \in Order : Create(o) \/ ClaimExpires(o)
         \/ \E r \in Relay : Publish(r) \/ RelayFails(r) \/ \E o \in Order : SendFails(r, o)
         \/ \E o \in Order, l \in Listener : Moves(o, l)
  <1>1. "DLQ" \in Listener /\ Consumer \subseteq Listener
    BY DEF Listener
  <1>2. ASSUME NEW o \in Order, NEW k \in Role, ConsumeDlq(o, k) PROVE Moves(o, "DLQ")
    BY <1>2 DEF ConsumeDlq, Moves, Works
  <1>3. ASSUME NEW o \in Order, NEW k \in Role, NEW c \in Consumer, Consume(o, c, k)
        PROVE  Moves(o, c)
    BY <1>3 DEF Consume, Moves, Works
  <1>4. ASSUME NEW o \in Order, NEW k \in Role, NEW l \in Listener, HandlerFails(o, l, k)
        PROVE  Moves(o, l)
    BY <1>4 DEF Moves, Works
  <1>5. ASSUME NEW o \in Order, NEW l \in Listener, CommitOffset(o, l) \/ Rebalance(o, l)
        PROVE  Moves(o, l)
    BY <1>5 DEF Moves
  <1> QED BY <1>1, <1>2, <1>3, <1>4, <1>5 DEF Next

(* The other orders are as they were. *)
Untouched(p) ==
  /\ status'[p] = status[p] /\ result'[p] = result[p] /\ lock'[p] = lock[p]
  /\ at'[p] = at[p] /\ served'[p] = served[p] /\ left'[p] = left[p]
  /\ position'[p] = position[p] /\ committed'[p] = committed[p]
  /\ records'[p] = records[p] /\ letters'[p] = letters[p] /\ gaveUp'[p] = gaveUp[p]
  /\ undone'[p] = undone[p]

LEMMA OthersAreUntouched ==
  ASSUME TypeOK, NEW o \in Order, NEW l \in Listener, NEW p \in Order, p # o, Moves(o, l)
  PROVE  Untouched(p)
  <1>1. ASSUME NEW k \in Role, Works(o, l, k) PROVE Untouched(p)
    <2>1. status'[p] = status[p] /\ result'[p] = result[p]
      BY <1>1 DEF TypeOK, Works, TryAgain, RecordAttempt, RecordRetry, Retrying, BeginSuccess,
         CountSuccess, RecordSuccess, Retry, DropRetry, Recover, ReadDlq, RecordDlq,
         RecordDlqConflict, HandlerFails, demo
    <2>2. lock'[p] = lock[p] /\ records'[p] = records[p] /\ letters'[p] = letters[p]
      BY <1>1 DEF TypeOK, Works, TryAgain, RecordAttempt, RecordRetry, BeginSuccess,
         CountSuccess, RecordSuccess, Retry, DropRetry, Recover, ReadDlq, RecordDlq,
         RecordDlqConflict, HandlerFails, Unlock, LockOrder
    <2>3. at'[p] = at[p]
      BY <1>1 DEF TypeOK, Works, TryAgain, RecordAttempt, RecordRetry, BeginSuccess,
         CountSuccess, RecordSuccess, Retry, DropRetry, Recover, ReadDlq, RecordDlq,
         RecordDlqConflict, HandlerFails, Goto, LetGo
    <2>4. left'[p] = left[p] /\ position'[p] = position[p] /\ committed'[p] = committed[p]
      BY <1>1 DEF TypeOK, Works, TryAgain, RecordAttempt, RecordRetry, BeginSuccess,
         CountSuccess, RecordSuccess, Retry, DropRetry, Recover, ReadDlq, RecordDlq,
         RecordDlqConflict, HandlerFails, Handled, LetGo, cursor
    <2>5. served'[p] = served[p] /\ gaveUp'[p] = gaveUp[p] /\ undone'[p] = undone[p]
      BY <1>1 DEF TypeOK, Works, TryAgain, RecordAttempt, RecordRetry, Retrying, BeginSuccess,
         CountSuccess, RecordSuccess, Retry, DropRetry, Recover, ReadDlq, RecordDlq,
         RecordDlqConflict, HandlerFails, KeepsFailing, history
    <2> QED BY <2>1, <2>2, <2>3, <2>4, <2>5 DEF Untouched
  <1>2. CASE CommitOffset(o, l)
    BY <1>2 DEF CommitOffset, Untouched, TypeOK, demo, history
  <1>3. CASE Rebalance(o, l)
    <2>1. lock'[p] = lock[p] /\ at'[p] = at[p] /\ left'[p] = left[p]
      BY <1>3 DEF Rebalance, Dies, GoesOn, Unlock, TypeOK
    <2> QED BY <1>3, <2>1 DEF Rebalance, Untouched, TypeOK, demo
  <1> QED BY <1>1, <1>2, <1>3 DEF Moves

(* Nothing but the owner's death or its loss of the partition moves a        *)
(* listener without Goto.                                                   *)
LEMMA WorkGoes ==
  ASSUME NEW o \in Order, NEW l \in Listener, NEW k \in Role, Works(o, l, k)
  PROVE  \E step \in Step : Goto(o, l, k, step)
  <1>1. {"first", "again", "thrown", "counting", "ready", "notReady", "idle", "dlq"} \subseteq Step
    BY DEF Step
  <1>2. CASE TryAgain(o, l, k)
    BY <1>1, <1>2 DEF TryAgain, Retry, DropRetry, Recover, LetGo, Role
  <1> QED BY <1>1, <1>2 DEF Works, RecordAttempt, RecordRetry, BeginSuccess, CountSuccess,
                        RecordSuccess, ReadDlq, RecordDlq, RecordDlqConflict, HandlerFails

LEMMA WorkKeepsLeft ==
  ASSUME Inv, NEW o \in Order, NEW l \in Listener, NEW k \in Role, Works(o, l, k)
  PROVE  LeftOK(o)'
  <1> SUFFICES ASSUME NEW d \in Listener, at'[o][d]["cutOff"] # "idle"
               PROVE  left'[o][d] > 0
    BY DEF LeftOK
  <1>0. TypeOK /\ LeftOK(o) /\ "cutOff" \in Role
    BY DEF Inv, Role
  <1>1. PICK step \in Step : Goto(o, l, k, step)
    BY WorkGoes
  <1>2. at'[o][d]["cutOff"] = IF d = l /\ k = "cutOff" THEN step ELSE at[o][d]["cutOff"]
    BY <1>0, <1>1, GotoMoves
  <1>3. CASE d = l /\ k = "cutOff"
    <2>1. step # "idle"
      BY <1>2, <1>3
    <2>2. left' = left
      <3>1. ~(LetGo(o, l) \/ Goto(o, l, k, "idle"))
        <4>1. ASSUME Goto(o, l, k, "idle") PROVE FALSE
          BY <1>0, <1>2, <1>3, <2>1, <4>1, GotoMoves
        <4> QED BY <1>3, <4>1 DEF LetGo
      <3> QED BY <1>3, <3>1 DEF Works, TryAgain, RecordAttempt, RecordRetry, BeginSuccess,
                CountSuccess, RecordSuccess, Retry, DropRetry, Recover, ReadDlq, RecordDlq,
                RecordDlqConflict, HandlerFails, cursor
    <2>3. at[o][l]["cutOff"] # "idle" \/ Has(o, l, "cutOff")
      BY <1>3 DEF Works, TryAgain, RecordAttempt, RecordRetry, BeginSuccess,
         CountSuccess, RecordSuccess, Retry, DropRetry, Recover, ReadDlq, RecordDlq,
         RecordDlqConflict, HandlerFails
    <2> QED BY <1>0, <1>3, <2>2, <2>3 DEF LeftOK, Has
  <1>4. CASE ~(d = l /\ k = "cutOff")
    <2>1. left'[o][d] = left[o][d]
      BY <1>0, <1>4 DEF TypeOK, Works, TryAgain, RecordAttempt, RecordRetry, BeginSuccess,
         CountSuccess, RecordSuccess, Retry, DropRetry, Recover, ReadDlq, RecordDlq,
         RecordDlqConflict, HandlerFails, Handled, LetGo, cursor, Role
    <2> QED BY <1>0, <1>2, <1>4, <2>1 DEF LeftOK
  <1> QED BY <1>3, <1>4

LEMMA MoveKeepsLeft ==
  ASSUME Inv, NEW o \in Order, NEW l \in Listener, Moves(o, l)
  PROVE  LeftOK(o)'
  <1>0. TypeOK /\ LeftOK(o) /\ Role = {"owner", "cutOff"}
    BY DEF Inv, Role
  <1>1. CASE CommitOffset(o, l)
    BY <1>0, <1>1 DEF CommitOffset, LeftOK
  <1>2. CASE Rebalance(o, l) /\ Dies(o, l)
    <2>1. left' = left /\ \A d \in Listener : at'[o][d]["cutOff"] = at[o][d]["cutOff"]
      BY <1>0, <1>2 DEF Dies, TypeOK
    <2> QED BY <1>0, <2>1 DEF LeftOK
  <1>3. CASE Rebalance(o, l) /\ GoesOn(o, l)
    <2>1. position[o][l] \in Nat /\ End(o, l) \in Nat
      BY <1>0 DEF TypeOK, End
    <2>2. PICK n \in 1..(End(o, l) - position[o][l]) : left' = [left EXCEPT ![o][l] = n]
      BY <1>3 DEF GoesOn
    <2>3. n > 0 /\ left'[o][l] = n
      BY <1>0, <2>1, <2>2 DEF TypeOK
    <2>4. \A d \in Listener : d # l => left'[o][d] = left[o][d] /\ at'[o][d] = at[o][d]
      BY <1>0, <1>3, <2>2 DEF GoesOn, TypeOK
    <2> QED BY <1>0, <2>3, <2>4 DEF LeftOK
  <1> QED BY <1>1, <1>2, <1>3, WorkKeepsLeft DEF Moves, Rebalance
-----------------------------------------------------------------------------
(* Orders, action by action. *)

LEMMA SameKeeps ==
  ASSUME NEW p, OrderOK(p), status'[p] = status[p], result'[p] = result[p],
         lock'[p] = lock[p], at'[p] = at[p], served'[p] = served[p]
  PROVE  OrderOK(p)'
  BY DEF OrderOK, LockOK, CountOK, ServeOK, CloseOK, CompleteOK

(* A step may open or publish an order. *)
LEMMA MarkKeeps ==
  ASSUME NEW p, OrderOK(p), result'[p] = result[p], lock'[p] = lock[p], at'[p] = at[p],
         served'[p] = served[p], status[p] \in {"NONE", "ACCEPTED"},
         status'[p] \in {"ACCEPTED", "PUBLISHED"}
  PROVE  OrderOK(p)'
  BY DEF OrderOK, LockOK, CountOK, ServeOK, CloseOK, CompleteOK

(* A consumer, or the dead letter listener, moves outside the locked part, or *)
(* the one in the locked part is cut off there.                              *)
LEMMA MoveKeeps ==
  ASSUME NEW p \in Order, OrderOK(p),
         \A c \in Consumer, k \in Role :
           at'[p][c][k] \in Locking
             => lock'[p] = <<c, k>> /\ \E j \in Role : at[p][c][j] = at'[p][c][k],
         status'[p] \in {status[p], "FAILED"}, served'[p] = served[p],
         \A c \in Consumer : result'[p][c] = "SUCCESS" => result[p][c] = "SUCCESS"
  PROVE  OrderOK(p)'
  <1>1. LockOK(p)'
    BY DEF LockOK
  <1>2. CountOK(p)'
    <2>1. ASSUME NEW c \in Consumer, NEW k \in Role, at'[p][c][k] = "ready"
          PROVE  Consumer \ {c} \subseteq served'[p]
      <3>1. PICK j \in Role : at[p][c][j] = "ready"
        BY <2>1 DEF Locking
      <3> QED BY <3>1 DEF OrderOK, CountOK
    <2>2. ASSUME NEW c \in Consumer, NEW k \in Role, at'[p][c][k] = "notReady"
          PROVE  \E d \in Consumer \ {c} : result'[p][d] # "SUCCESS"
      <3>1. PICK j \in Role : at[p][c][j] = "notReady"
        BY <2>2 DEF Locking
      <3> QED BY <3>1 DEF OrderOK, CountOK
    <2> QED BY <2>1, <2>2 DEF CountOK
  <1>3. ServeOK(p)' /\ CloseOK(p)' /\ CompleteOK(p)'
    BY DEF OrderOK, ServeOK, CloseOK, CompleteOK
  <1> QED BY <1>1, <1>2, <1>3 DEF OrderOK

(* The same, of one listener that goes to a step outside the locked part.    *)
LEMMA LeaveKeeps ==
  ASSUME NEW o \in Order, Inv, NEW l \in Listener, NEW k \in Role, NEW step \in Step,
         step \notin Locking, Goto(o, l, k, step),
         lock'[o] = lock[o] \/ lock'[o] = (IF lock[o] = <<l, k>> THEN Nobody ELSE lock[o]),
         status'[o] \in {status[o], "FAILED"}, served'[o] = served[o],
         \A c \in Consumer : result'[o][c] = "SUCCESS" => result[o][c] = "SUCCESS"
  PROVE  OrderOK(o)'
  <1>1. TypeOK /\ OrderOK(o) /\ Consumer \subseteq Listener
    BY DEF Inv, Listener
  <1>2. ASSUME NEW c \in Consumer, NEW j \in Role, at'[o][c][j] \in Locking
        PROVE  lock'[o] = <<c, j>> /\ \E i \in Role : at[o][c][i] = at'[o][c][j]
    <2>1. at'[o][c][j] = IF c = l /\ j = k THEN step ELSE at[o][c][j]
      BY <1>1, GotoMoves
    <2>2. ~(c = l /\ j = k) /\ at'[o][c][j] = at[o][c][j]
      BY <1>2, <2>1
    <2>3. lock[o] = <<c, j>>
      BY <1>1, <1>2, <2>2 DEF OrderOK, LockOK
    <2>4. lock'[o] = lock[o]
      BY <2>2, <2>3
    <2> QED BY <2>2, <2>3, <2>4
  <1> QED BY <1>1, <1>2, MoveKeeps

LEMMA RelayKeeps ==
  ASSUME Inv, NEW r \in Relay, Publish(r) \/ RelayFails(r) \/ \E o \in Order : SendFails(r, o)
  PROVE  \A p \in Order : OrderOK(p)'
  <1>1. CASE Claim(r) \/ RelayFails(r)
    BY <1>1, SameKeeps DEF Claim, RelayFails, demo, history, Inv
  <1>2. ASSUME NEW o \in Order, Send(r, o) \/ MarkRow(r, o) \/ SendFails(r, o)
        PROVE  \A p \in Order : OrderOK(p)'
    BY <1>2, SameKeeps DEF Send, MarkRow, SendFails, demo, history, Inv
  <1>3. ASSUME NEW o \in Order, MarkPublished(r, o), NEW p \in Order PROVE OrderOK(p)'
    <2>1. UNCHANGED <<result, lock, at, served>>
      BY <1>3 DEF MarkPublished, history
    <2>2. CASE p = o /\ status[o] = "ACCEPTED"
      <3>1. status'[p] = "PUBLISHED"
        BY <1>3, <2>2 DEF MarkPublished, Inv, TypeOK
      <3> QED BY <2>1, <2>2, <3>1, MarkKeeps DEF Inv
    <2>3. CASE ~(p = o /\ status[o] = "ACCEPTED")
      <3>1. status'[p] = status[p]
        BY <1>3, <2>3 DEF MarkPublished, Inv, TypeOK
      <3> QED BY <2>1, <3>1, SameKeeps DEF Inv
    <2> QED BY <2>2, <2>3
  <1> QED BY <1>1, <1>2, <1>3 DEF Publish

LEMMA CreateKeeps ==
  ASSUME Inv, NEW o \in Order, Create(o) \/ ClaimExpires(o)
  PROVE  \A p \in Order : OrderOK(p)'
  <1>1. CASE ClaimExpires(o)
    BY <1>1, SameKeeps DEF ClaimExpires, demo, history, Inv
  <1>2. ASSUME Create(o), NEW p \in Order PROVE OrderOK(p)'
    <2>1. UNCHANGED <<result, lock, at, served>>
      BY <1>2 DEF Create, history
    <2>2. CASE p = o
      <3>1. status[p] = "NONE" /\ status'[p] = "ACCEPTED"
        BY <1>2, <2>2 DEF Create, Inv, TypeOK
      <3> QED BY <2>1, <3>1, MarkKeeps DEF Inv
    <2>3. CASE p # o
      <3>1. status'[p] = status[p]
        BY <1>2, <2>3 DEF Create, Inv, TypeOK
      <3> QED BY <2>1, <3>1, SameKeeps DEF Inv
    <2> QED BY <2>2, <2>3
  <1> QED BY <1>1, <1>2

(* An attempt marks the result, also one that was a success. *)
LEMMA AttemptKeeps ==
  ASSUME Inv, NEW o \in Order, NEW c \in Consumer, NEW k \in Role,
         RecordAttempt(o, c, k) \/ RecordRetry(o, c, k)
  PROVE  OrderOK(o)'
  <1>1. TypeOK /\ c \in Listener /\ UNCHANGED <<status, served, lock>>
    BY DEF Inv, Listener, RecordAttempt, RecordRetry, Retrying
  <1>2. PICK step \in Step : step \notin Locking /\ Goto(o, c, k, step)
    BY DEF RecordAttempt, RecordRetry, Step, Locking
  <1>3. \A d \in Consumer : result'[o][d] = "SUCCESS" => result[o][d] = "SUCCESS"
    BY <1>1 DEF RecordAttempt, RecordRetry, Retrying, TypeOK
  <1> QED BY <1>1, <1>2, <1>3, LeaveKeeps

LEMMA NobodyIsApart == \A c \in Listener, k \in Role : Nobody # <<c, k>>
  BY NobodyAssumption

(* The lock is taken when it is free ... *)
LEMMA BeginKeeps ==
  ASSUME Inv, NEW o \in Order, NEW c \in Consumer, NEW k \in Role, BeginSuccess(o, c, k)
  PROVE  OrderOK(o)'
  <1>1. /\ TypeOK /\ OrderOK(o) /\ Consumer \subseteq Listener /\ lock[o] = Nobody
        /\ lock'[o] = <<c, k>> /\ UNCHANGED <<status, result, served>>
    BY DEF Inv, Listener, BeginSuccess, LockOrder, TypeOK, demo, history
  <1>2. \A d \in Consumer, j \in Role :
          at'[o][d][j] = IF d = c /\ j = k THEN "counting" ELSE at[o][d][j]
    BY <1>1, GotoMoves DEF BeginSuccess
  <1>3. \A d \in Consumer, j \in Role : at[o][d][j] \notin Locking
    BY <1>1, NobodyIsApart DEF OrderOK, LockOK
  <1>4. LockOK(o)' /\ CountOK(o)'
    BY <1>1, <1>2, <1>3 DEF LockOK, CountOK, Locking
  <1> QED BY <1>1, <1>4 DEF OrderOK, ServeOK, CloseOK, CompleteOK

(* ... and the count is right while it is held. *)
LEMMA CountKeeps ==
  ASSUME Inv, NEW o \in Order, NEW c \in Consumer, NEW k \in Role, CountSuccess(o, c, k)
  PROVE  OrderOK(o)'
  <1>1. /\ TypeOK /\ OrderOK(o) /\ Consumer \subseteq Listener /\ at[o][c][k] = "counting"
        /\ UNCHANGED <<status, result, served, lock>>
    BY DEF Inv, Listener, CountSuccess, demo, history
  <1>2. lock[o] = <<c, k>>
    BY <1>1 DEF OrderOK, LockOK, Locking
  <1> DEFINE step == IF AllSucceeded(o, c) THEN "ready" ELSE "notReady"
  <1>3. \A d \in Consumer, j \in Role :
          at'[o][d][j] = IF d = c /\ j = k THEN step ELSE at[o][d][j]
    BY <1>1, GotoMoves DEF CountSuccess
  <1>4. \A d \in Consumer, j \in Role : at[o][d][j] \in Locking => d = c /\ j = k
    BY <1>1, <1>2 DEF OrderOK, LockOK
  <1>5. LockOK(o)'
    BY <1>1, <1>2, <1>3, <1>4 DEF LockOK
  <1>6. CountOK(o)'
    <2>1. AllSucceeded(o, c) => Consumer \ {c} \subseteq served[o]
      BY <1>1 DEF AllSucceeded, OrderOK, ServeOK
    <2>2. ~AllSucceeded(o, c) => \E d \in Consumer \ {c} : result[o][d] # "SUCCESS"
      BY DEF AllSucceeded
    <2>3. ASSUME NEW d \in Consumer, NEW j \in Role, at'[o][d][j] \in {"ready", "notReady"}
          PROVE  d = c /\ j = k /\ at'[o][d][j] = step
      BY <1>3, <1>4, <2>3 DEF Locking
    <2>4. ASSUME NEW d \in Consumer, NEW j \in Role, at'[o][d][j] = "ready"
          PROVE  Consumer \ {d} \subseteq served'[o]
      BY <1>1, <2>1, <2>3, <2>4
    <2>5. ASSUME NEW d \in Consumer, NEW j \in Role, at'[o][d][j] = "notReady"
          PROVE  \E e \in Consumer \ {d} : result'[o][e] # "SUCCESS"
      BY <1>1, <2>2, <2>3, <2>5
    <2> QED BY <2>4, <2>5 DEF CountOK
  <1> QED BY <1>1, <1>5, <1>6 DEF OrderOK, ServeOK, CloseOK, CompleteOK

(* The last success closes the order. *)
LEMMA SuccessKeeps ==
  ASSUME Inv, NEW o \in Order, NEW c \in Consumer, NEW k \in Role, RecordSuccess(o, c, k)
  PROVE  OrderOK(o)'
  <1>1. /\ TypeOK /\ OrderOK(o) /\ Consumer \subseteq Listener
        /\ at[o][c][k] \in {"ready", "notReady"} /\ lock[o] = <<c, k>>
    BY DEF Inv, Listener, RecordSuccess, OrderOK, LockOK, Locking
  <1>2. /\ served'[o] = served[o] \cup {c}
        /\ \A d \in Consumer : result'[o][d] = IF d = c THEN "SUCCESS" ELSE result[o][d]
        /\ status'[o] = IF at[o][c][k] = "ready" /\ status[o] # "FAILED" THEN "COMPLETED"
                        ELSE status[o]
    BY <1>1 DEF RecordSuccess, TypeOK
  <1>3. \A d \in Consumer, j \in Role :
          at'[o][d][j] = IF d = c /\ j = k THEN "idle" ELSE at[o][d][j]
    BY <1>1, GotoMoves DEF RecordSuccess
  <1>4. \A d \in Consumer, j \in Role : at'[o][d][j] \notin Locking
    BY <1>1, <1>3 DEF OrderOK, LockOK, Locking
  <1>5. LockOK(o)' /\ CountOK(o)'
    BY <1>4 DEF LockOK, CountOK, Locking
  <1>6. ServeOK(o)'
    BY <1>1, <1>2 DEF OrderOK, ServeOK
  <1>7. CASE at[o][c][k] = "ready"
    <2>1. Consumer \subseteq served'[o]
      BY <1>1, <1>2, <1>7 DEF OrderOK, CountOK
    <2>2. status'[o] \in {"COMPLETED", "FAILED"}
      BY <1>2, <1>7
    <2> QED BY <1>5, <1>6, <2>1, <2>2 DEF OrderOK, CloseOK, CompleteOK
  <1>8. CASE at[o][c][k] = "notReady"
    <2>1. status'[o] = status[o]
      BY <1>2, <1>8
    <2>2. \E d \in Consumer : result'[o][d] # "SUCCESS"
      BY <1>1, <1>2, <1>8 DEF OrderOK, CountOK
    <2>3. CompleteOK(o)'
      BY <1>1, <1>2, <2>1 DEF OrderOK, CompleteOK
    <2> QED BY <1>5, <1>6, <2>2, <2>3 DEF OrderOK, CloseOK
  <1> QED BY <1>1, <1>7, <1>8

LEMMA DlqKeeps ==
  ASSUME Inv, NEW o \in Order, NEW k \in Role,
         ReadDlq(o, k) \/ RecordDlq(o, k) \/ RecordDlqConflict(o, k)
  PROVE  OrderOK(o)'
  <1>1. TypeOK /\ "DLQ" \in Listener /\ lock' = lock /\ served' = served
    BY DEF Inv, Listener, ReadDlq, RecordDlq, RecordDlqConflict, history
  <1>2. PICK step \in Step : step \notin Locking /\ Goto(o, "DLQ", k, step)
    BY DEF ReadDlq, RecordDlq, RecordDlqConflict, Step, Locking
  <1>3. status'[o] \in {status[o], "FAILED"}
    BY <1>1 DEF ReadDlq, RecordDlq, RecordDlqConflict, demo, TypeOK
  <1>4. \A c \in Consumer : result'[o][c] = "SUCCESS" => result[o][c] = "SUCCESS"
    BY <1>1 DEF ReadDlq, RecordDlq, RecordDlqConflict, demo, TypeOK
  <1> QED BY <1>1, <1>2, <1>3, <1>4, LeaveKeeps

LEMMA ListenerKeeps ==
  ASSUME Inv, NEW o \in Order, NEW l \in Listener, NEW k \in Role,
         TryAgain(o, l, k) \/ HandlerFails(o, l, k)
  PROVE  OrderOK(o)'
  <1>1. TypeOK /\ UNCHANGED <<status, result, served>>
    BY DEF Inv, TryAgain, Retry, DropRetry, Recover, HandlerFails, KeepsFailing, demo, history
  <1>2. PICK step \in Step : step \notin Locking /\ Goto(o, l, k, step)
    BY DEF TryAgain, Retry, DropRetry, Recover, LetGo, HandlerFails, Step, Locking, Role
  <1>3. lock'[o] = lock[o] \/ lock'[o] = (IF lock[o] = <<l, k>> THEN Nobody ELSE lock[o])
    BY <1>1 DEF TryAgain, Retry, DropRetry, Recover, HandlerFails, Unlock, TypeOK
  <1> QED BY <1>1, <1>2, <1>3, LeaveKeeps

(* A consumer that counts keeps the lock when it is cut off, and loses it    *)
(* when it dies.                                                            *)
LEMMA RebalanceKeeps ==
  ASSUME Inv, NEW o \in Order, NEW l \in Listener, Rebalance(o, l)
  PROVE  OrderOK(o)'
  <1>1. /\ TypeOK /\ OrderOK(o) /\ Consumer \subseteq Listener /\ Role = {"owner", "cutOff"}
        /\ UNCHANGED <<status, result, served>>
    BY DEF Inv, Listener, Role, Rebalance, demo
  <1>2. ASSUME NEW c \in Consumer, NEW j \in Role, at'[o][c][j] \in Locking
        PROVE  lock'[o] = <<c, j>> /\ \E i \in Role : at[o][c][i] = at'[o][c][j]
    <2>0. \A i \in Role : at[o][c][i] \in Locking => lock[o] = <<c, i>>
      BY <1>1 DEF OrderOK, LockOK
    <2>1. CASE Dies(o, l)
      <3>1. at'[o][c][j] = IF c = l /\ j = "owner" THEN "idle" ELSE at[o][c][j]
        BY <1>1, <2>1 DEF Dies, TypeOK
      <3>2. ~(c = l /\ j = "owner") /\ at'[o][c][j] = at[o][c][j]
        BY <1>2, <3>1 DEF Locking
      <3>3. lock[o] = <<c, j>>
        BY <1>2, <2>0, <3>2
      <3>4. lock'[o] = IF lock[o] = <<l, "owner">> THEN Nobody ELSE lock[o]
        BY <1>1, <2>1 DEF Dies, Unlock, TypeOK
      <3> QED BY <3>2, <3>3, <3>4
    <2>2. CASE GoesOn(o, l)
      <3>1. lock'[o] = IF lock[o] = <<l, "owner">> THEN <<l, "cutOff">> ELSE lock[o]
        BY <1>1, <2>2 DEF GoesOn, TypeOK
      <3>2. CASE c = l
        <4>1. at'[o][c] = [owner |-> "idle", cutOff |-> at[o][c]["owner"]]
          BY <1>1, <2>2, <3>2 DEF GoesOn, TypeOK
        <4>2. j = "cutOff" /\ at'[o][c][j] = at[o][c]["owner"]
          BY <1>1, <1>2, <4>1 DEF Locking
        <4> QED BY <1>1, <1>2, <2>0, <3>1, <3>2, <4>2
      <3>3. CASE c # l
        <4>1. at'[o][c] = at[o][c]
          BY <1>1, <2>2, <3>3 DEF GoesOn, TypeOK
        <4> QED BY <1>2, <2>0, <3>1, <3>3, <4>1
      <3> QED BY <3>2, <3>3
    <2> QED BY <2>1, <2>2 DEF Rebalance
  <1> QED BY <1>1, <1>2, MoveKeeps

LEMMA StepInv == Inv /\ [Next]_vars => Inv'
  <1> SUFFICES ASSUME Inv, [Next]_vars PROVE Inv'
    OBVIOUS
  <1>0. TypeOK /\ \A p \in Order : LeftOK(p) /\ OrderOK(p)
    BY DEF Inv
  <1>1. TypeOK'
    BY StepTypes
  <1>2. ASSUME NEW p \in Order PROVE LeftOK(p)' /\ OrderOK(p)'
    <2>1. CASE UNCHANGED vars
      BY <1>0, <2>1, SameKeeps DEF vars, LeftOK
    <2>2. ASSUME NEW o \in Order, Create(o) \/ ClaimExpires(o) PROVE LeftOK(p)' /\ OrderOK(p)'
      <3>1. at' = at /\ left' = left
        BY <2>2 DEF Create, ClaimExpires, cursor
      <3> QED BY <1>0, <2>2, <3>1, CreateKeeps DEF LeftOK
    <2>3. ASSUME NEW r \in Relay,
                 Publish(r) \/ RelayFails(r) \/ \E o \in Order : SendFails(r, o)
          PROVE  LeftOK(p)' /\ OrderOK(p)'
      <3>1. at' = at /\ left' = left
        BY <2>3 DEF Publish, Claim, Send, MarkRow, MarkPublished, RelayFails, SendFails, cursor
      <3> QED BY <1>0, <2>3, <3>1, RelayKeeps DEF LeftOK
    <2>4. ASSUME NEW o \in Order, NEW l \in Listener, Moves(o, l)
          PROVE  LeftOK(p)' /\ OrderOK(p)'
      <3>1. CASE p = o
        <4>1. ASSUME NEW k \in Role, Works(o, l, k) PROVE OrderOK(o)'
          <5>1. CASE TryAgain(o, l, k) \/ HandlerFails(o, l, k)
            BY <5>1, ListenerKeeps
          <5>2. CASE ReadDlq(o, k) \/ RecordDlq(o, k) \/ RecordDlqConflict(o, k)
            BY <5>2, DlqKeeps
          <5>3. CASE l \in Consumer /\ (RecordAttempt(o, l, k) \/ RecordRetry(o, l, k))
            BY <5>3, AttemptKeeps
          <5>4. CASE l \in Consumer /\ (BeginSuccess(o, l, k) \/ CountSuccess(o, l, k))
            BY <5>4, BeginKeeps, CountKeeps
          <5>5. CASE l \in Consumer /\ RecordSuccess(o, l, k)
            BY <5>5, SuccessKeeps
          <5> QED BY <4>1, <5>1, <5>2, <5>3, <5>4, <5>5 DEF Works
        <4>2. ASSUME CommitOffset(o, l) PROVE OrderOK(o)'
          <5>1. UNCHANGED <<status, result, lock, at, served>>
            BY <4>2 DEF CommitOffset, demo, history
          <5> QED BY <1>0, <5>1, SameKeeps
        <4> QED BY <2>4, <3>1, <4>1, <4>2, RebalanceKeeps, MoveKeepsLeft DEF Moves
      <3>2. CASE p # o
        BY <1>0, <2>4, <3>2, OthersAreUntouched, SameKeeps DEF Untouched, LeftOK
      <3> QED BY <3>1, <3>2
    <2> QED BY <2>1, <2>2, <2>3, <2>4, NextIs
  <1> QED BY <1>1, <1>2 DEF Inv

-----------------------------------------------------------------------------
(* Orders, topics, listeners and claims keep their types. *)
THEOREM TypeCorrect == Spec => []TypeOK
  <1>1. Inv => TypeOK
    BY DEF Inv
  <1> QED BY <1>1, InitInv, StepInv, PTL DEF Spec

(* An order that all three consumers have succeeded with is not left open,    *)
(* however their transactions overlap, those of cut-off consumers included.   *)
THEOREM AllServedIsClosed == Spec => []NotLeftOpen
  <1>1. Inv => NotLeftOpen
    BY DEF Inv, OrderOK, CloseOK, NotLeftOpen
  <1> QED BY <1>1, InitInv, StepInv, PTL DEF Spec

(* What a step may do to the status of an order.                              *)
LEMMA StatusMoves ==
  ASSUME Inv, Next, NEW p \in Order
  PROVE  \/ status'[p] = status[p]
         \/ status[p] = "NONE" /\ status'[p] = "ACCEPTED"
         \/ status[p] = "ACCEPTED" /\ status'[p] = "PUBLISHED"
         \/ status[p] # "FAILED" /\ status'[p] = "COMPLETED"
         \/ status'[p] = "FAILED"
  <1>0. TypeOK
    BY DEF Inv
  <1>1. ASSUME NEW o \in Order, Create(o) \/ ClaimExpires(o)
        PROVE  status'[p] = status[p] \/ (status[p] = "NONE" /\ status'[p] = "ACCEPTED")
    BY <1>0, <1>1 DEF TypeOK, Create, ClaimExpires, demo
  <1>2. ASSUME NEW r \in Relay, Publish(r) \/ RelayFails(r) \/ \E o \in Order : SendFails(r, o)
        PROVE  status'[p] = status[p] \/ (status[p] = "ACCEPTED" /\ status'[p] = "PUBLISHED")
    BY <1>0, <1>2 DEF TypeOK, Publish, Claim, Send, MarkRow, MarkPublished, RelayFails,
       SendFails, demo
  <1>3. ASSUME NEW o \in Order, NEW l \in Listener, Moves(o, l)
        PROVE  \/ status'[p] = status[p] \/ status'[p] = "FAILED"
               \/ status[p] # "FAILED" /\ status'[p] = "COMPLETED"
    BY <1>0, <1>3 DEF TypeOK, Moves, Works, TryAgain, RecordAttempt, RecordRetry, BeginSuccess,
       CountSuccess, RecordSuccess, Retry, DropRetry, Recover, ReadDlq, RecordDlq,
       RecordDlqConflict, HandlerFails, CommitOffset, Rebalance, demo
  <1> QED BY <1>1, <1>2, <1>3, NextIs

(* An order moves forward only. *)
THEOREM OrdersOnlyAdvance == Spec => NeverGoesBack
  <1> DEFINE Forward == \A o \in Order : Rank(status'[o]) >= Rank(status[o])
  <1>1. Inv /\ [Next]_vars => [Forward]_vars
    <2> SUFFICES ASSUME Inv, Next, NEW p \in Order PROVE Rank(status'[p]) >= Rank(status[p])
      OBVIOUS
    <2>1. status[p] \in {"NONE", "ACCEPTED", "PUBLISHED", "COMPLETED", "FAILED"}
      BY DEF Inv, TypeOK
    <2> QED BY <2>1, StatusMoves DEF Rank
  <1> QED BY <1>1, InitInv, StepInv, PTL DEF Spec, NeverGoesBack
-----------------------------------------------------------------------------
(* What the topics still owe an order.  Whatever was marked as sent is in the *)
(* topic; nobody commits beyond what he has handled, nor handles what is not  *)
(* there; a consumer that is through with all records has succeeded, unless   *)
(* its success was overwritten, or has given one up; and a letter is handled  *)
(* only by failing the order.  The first letter is a consumer's: the dead     *)
(* letter listener gives up letters.                                        *)

SentOK(o) ==
  /\ row[o] = "PUBLISHED" => records[o] > 0
  /\ \A r \in Relay : sending[r][o] \in {"sent", "published"} => records[o] > 0
PlaceOK(o) ==
  \A l \in Listener :
    /\ committed[o][l] <= position[o][l]
    /\ position[o][l] <= End(o, l)
    /\ at[o][l]["owner"] # "idle" => position[o][l] < End(o, l)
    /\ left[o][l] > 0 => End(o, l) > 0
HandledOK(o) ==
  \A c \in Consumer :
    position[o][c] = records[o] /\ records[o] > 0
      => \/ result[o][c] \in {"SUCCESS", "DLQ"}
         \/ c \in gaveUp[o]
         \/ c \in undone[o]
         \/ status[o] = "FAILED"
LetterOK(o) ==
  /\ gaveUp[o] # {} => letters[o] > 0
  /\ letters[o] > 0 => position[o]["DLQ"] < letters[o] \/ status[o] = "FAILED"
  /\ \A c \in Consumer : result[o][c] = "DLQ" => status[o] = "FAILED"
  /\ letters[o] > 0 \/ status[o] = "FAILED" => gaveUp[o] \cap Consumer # {}

OwedOK(o) == PlaceOK(o) /\ HandledOK(o) /\ LetterOK(o)
OwedInv == Inv /\ \A o \in Order : SentOK(o) /\ OwedOK(o)

LEMMA InitOwed == Init => OwedInv
  <1> SUFFICES ASSUME Init, NEW o \in Order PROVE SentOK(o) /\ OwedOK(o)
    BY InitInv DEF OwedInv
  <1>1. /\ \A l \in Listener : /\ committed[o][l] = 0 /\ position[o][l] = 0 /\ left[o][l] = 0
                               /\ at[o][l]["owner"] = "idle"
        /\ \A c \in Consumer : result[o][c] = "NONE"
        /\ \A r \in Relay : sending[r][o] = "claimed"
        /\ row[o] = "NONE" /\ records[o] = 0 /\ letters[o] = 0 /\ gaveUp[o] = {}
        /\ status[o] = "NONE"
    BY DEF Init, Role
  <1> QED BY <1>1 DEF SentOK, OwedOK, PlaceOK, HandledOK, LetterOK, End

(* Numbers of an order. *)
LEMMA OwedTypes ==
  ASSUME TypeOK, NEW o \in Order, NEW l \in Listener
  PROVE  /\ position[o][l] \in Nat /\ committed[o][l] \in Nat /\ End(o, l) \in Nat
         /\ left[o][l] \in Nat /\ records[o] \in Nat /\ letters[o] \in Nat
  BY DEF TypeOK, End

LEMMA ConsumersListen ==
  /\ \A c \in Consumer : c \in Listener /\ c # "DLQ"
  /\ "DLQ" \in Listener /\ \A l \in Listener : l # "DLQ" => l \in Consumer
  BY DEF Listener, Consumer

(* No listener gets ahead of its topic, whatever is added to that.           *)
LEMMA PlaceMoves ==
  ASSUME TypeOK, NEW o \in Order, PlaceOK(o),
         \A d \in Listener :
           /\ committed'[o][d] = committed[o][d]
           /\ End(o, d)' \in {End(o, d), End(o, d) + 1}
           /\ left'[o][d] > 0 => left[o][d] > 0
           /\ \/ /\ position'[o][d] = position[o][d]
                 /\ at'[o][d]["owner"] # "idle" => position[o][d] < End(o, d)
              \/ /\ position'[o][d] = position[o][d] + 1
                 /\ at[o][d]["owner"] # "idle" /\ at'[o][d]["owner"] = "idle"
  PROVE  PlaceOK(o)'
  <1> SUFFICES ASSUME NEW d \in Listener
               PROVE  /\ committed'[o][d] <= position'[o][d]
                      /\ position'[o][d] <= End(o, d)'
                      /\ at'[o][d]["owner"] # "idle" => position'[o][d] < End(o, d)'
                      /\ left'[o][d] > 0 => End(o, d)' > 0
    BY DEF PlaceOK
  <1>1. /\ position[o][d] \in Nat /\ committed[o][d] \in Nat /\ End(o, d) \in Nat
        /\ End(o, d)' \in {End(o, d), End(o, d) + 1}
        /\ left'[o][d] > 0 => left[o][d] > 0
    BY OwedTypes
  <1>2. /\ committed[o][d] <= position[o][d] /\ position[o][d] <= End(o, d)
        /\ at[o][d]["owner"] # "idle" => position[o][d] < End(o, d)
        /\ left[o][d] > 0 => End(o, d) > 0
    BY DEF PlaceOK
  <1>3. committed'[o][d] = committed[o][d]
    OBVIOUS
  <1>4. CASE /\ position'[o][d] = position[o][d]
             /\ at'[o][d]["owner"] # "idle" => position[o][d] < End(o, d)
    BY <1>1, <1>2, <1>3, <1>4
  <1>5. CASE /\ position'[o][d] = position[o][d] + 1
             /\ at[o][d]["owner"] # "idle" /\ at'[o][d]["owner"] = "idle"
    BY <1>1, <1>2, <1>3, <1>5
  <1> QED BY <1>4, <1>5

(* A relay, or who creates the order, only adds records.                     *)
Offered(p) ==
  /\ records'[p] \in {records[p], records[p] + 1}
  /\ position'[p] = position[p] /\ committed'[p] = committed[p] /\ at'[p] = at[p]
  /\ left'[p] = left[p] /\ undone'[p] = undone[p]
  /\ letters'[p] = letters[p] /\ result'[p] = result[p] /\ gaveUp'[p] = gaveUp[p]
  /\ status[p] = "FAILED" <=> status'[p] = "FAILED"

LEMMA OfferKeeps ==
  ASSUME TypeOK, NEW p \in Order, OwedOK(p), Offered(p)
  PROVE  OwedOK(p)'
  <1>1. \A l \in Listener : End(p, l)' \in {End(p, l), End(p, l) + 1}
    BY DEF End, Offered
  <1>2. PlaceOK(p)'
    BY <1>1, PlaceMoves DEF Offered, OwedOK, PlaceOK
  <1>3. HandledOK(p)'
    <2> SUFFICES ASSUME NEW c \in Consumer, position'[p][c] = records'[p], records'[p] > 0
                 PROVE  \/ result'[p][c] \in {"SUCCESS", "DLQ"} \/ c \in gaveUp'[p]
                        \/ c \in undone'[p] \/ status'[p] = "FAILED"
      BY DEF HandledOK
    <2>1. /\ position[p][c] \in Nat /\ records[p] \in Nat /\ position[p][c] <= records[p]
      BY OwedTypes, ConsumersListen DEF OwedOK, PlaceOK, End
    <2>2. records'[p] = records[p]
      BY <2>1 DEF Offered
    <2> QED BY <2>2 DEF Offered, OwedOK, HandledOK
  <1>4. LetterOK(p)'
    BY DEF Offered, OwedOK, LetterOK
  <1> QED BY <1>2, <1>3, <1>4 DEF OwedOK

(* A listener at work holds a record ...                                     *)
LEMMA RecordIsHeld ==
  ASSUME Inv, NEW o \in Order, OwedOK(o), NEW l \in Listener, NEW k \in Role,
         at[o][l][k] # "idle" \/ Has(o, l, k)
  PROVE  End(o, l) > 0 /\ (k = "owner" => position[o][l] < End(o, l))
  <1>1. /\ position[o][l] \in Nat /\ End(o, l) \in Nat /\ PlaceOK(o) /\ LeftOK(o)
    BY OwedTypes DEF Inv, OwedOK
  <1>2. CASE k = "owner"
    <2>1. position[o][l] < End(o, l)
      BY <1>1, <1>2 DEF PlaceOK, Has
    <2> QED BY <1>1, <1>2, <2>1
  <1>3. CASE k # "owner"
    <2>1. left[o][l] > 0
      BY <1>1, <1>3 DEF LeftOK, Has, Role
    <2> QED BY <1>1, <1>3, <2>1 DEF PlaceOK
  <1> QED BY <1>2, <1>3

(* ... at which it stays, or is through with it.                              *)
LEMMA WorkStays ==
  ASSUME Inv, NEW o \in Order, NEW l \in Listener, NEW k \in Role, Works(o, l, k)
  PROVE  /\ at[o][l][k] # "idle" \/ Has(o, l, k)
         /\ \/ position' = position
            \/ /\ k = "owner" /\ at[o][l][k] # "idle" /\ Goto(o, l, k, "idle")
               /\ position' = [position EXCEPT ![o][l] = @ + 1]
  <1>1. CASE TryAgain(o, l, k)
    BY <1>1 DEF TryAgain, Retry, DropRetry, Recover, Handled, LetGo, Role
  <1>2. CASE HandlerFails(o, l, k)
    BY <1>2 DEF HandlerFails, cursor
  <1>3. CASE l = "DLQ" /\ (ReadDlq(o, k) \/ RecordDlqConflict(o, k))
    BY <1>3 DEF Works, ReadDlq, RecordDlqConflict, cursor
  <1> QED BY <1>1, <1>2, <1>3 DEF Works, RecordAttempt, RecordRetry, BeginSuccess,
      CountSuccess, RecordSuccess, RecordDlq, ReadDlq, RecordDlqConflict, Handled, cursor

LEMMA WorkKeepsPlace ==
  ASSUME Inv, NEW o \in Order, NEW l \in Listener, NEW k \in Role, OwedOK(o), Works(o, l, k)
  PROVE  PlaceOK(o)' /\ \A d \in Listener : d # l => position'[o][d] = position[o][d]
  <1>0. TypeOK /\ Role = {"owner", "cutOff"}
    BY DEF Inv, Role
  <1>1. committed' = committed /\ records' = records /\ letters'[o] \in {letters[o], letters[o] + 1}
    BY <1>0 DEF TypeOK, Works, TryAgain, RecordAttempt, RecordRetry, BeginSuccess,
       CountSuccess, RecordSuccess, Retry, DropRetry, Recover, ReadDlq, RecordDlq,
       RecordDlqConflict, HandlerFails, Handled, LetGo, cursor
  <1>2. \A d \in Listener : End(o, d)' \in {End(o, d), End(o, d) + 1}
    BY <1>1 DEF End
  <1>3. ASSUME NEW d \in Listener PROVE left'[o][d] > 0 => left[o][d] > 0
    <2>1. \/ left' = left
          \/ left' = [left EXCEPT ![o][l] = @ - 1]
          \/ left' = [left EXCEPT ![o][l] = 0]
      BY DEF Works, TryAgain, RecordAttempt, RecordRetry, BeginSuccess,
         CountSuccess, RecordSuccess, Retry, DropRetry, Recover, ReadDlq, RecordDlq,
         RecordDlqConflict, HandlerFails, Handled, LetGo, cursor
    <2>2. left[o][d] \in Nat
      BY <1>0, OwedTypes
    <2>3. left'[o][d] \in {left[o][d], left[o][d] - 1, 0}
      BY <1>0, <2>1 DEF TypeOK
    <2> QED BY <2>2, <2>3
  <1>4. PICK step \in Step : Goto(o, l, k, step)
    BY WorkGoes
  <1>5. \A d \in Listener :
          at'[o][d]["owner"] = IF d = l /\ k = "owner" THEN step ELSE at[o][d]["owner"]
    BY <1>0, <1>4, GotoMoves
  <1>6. k = "owner" => position[o][l] < End(o, l)
    BY WorkStays, RecordIsHeld
  <1>7. ASSUME NEW d \in Listener
        PROVE  \/ /\ position'[o][d] = position[o][d]
                  /\ at'[o][d]["owner"] # "idle" => position[o][d] < End(o, d)
               \/ /\ position'[o][d] = position[o][d] + 1 /\ d = l
                  /\ at[o][d]["owner"] # "idle" /\ at'[o][d]["owner"] = "idle"
    <2>0. at[o][d]["owner"] # "idle" => position[o][d] < End(o, d)
      BY DEF OwedOK, PlaceOK
    <2>1. CASE position' = position
      BY <1>5, <1>6, <2>0, <2>1
    <2>2. CASE /\ k = "owner" /\ at[o][l][k] # "idle" /\ Goto(o, l, k, "idle")
               /\ position' = [position EXCEPT ![o][l] = @ + 1]
      <3>1. at'[o][l]["owner"] = "idle"
        BY <1>0, <2>2, GotoMoves
      <3>2. position'[o][d] = IF d = l THEN position[o][d] + 1 ELSE position[o][d]
        BY <1>0, <2>2 DEF TypeOK
      <3> QED BY <1>5, <2>0, <2>2, <3>1, <3>2
    <2> QED BY <2>1, <2>2, WorkStays
  <1>8. PlaceOK(o)'
    BY <1>0, <1>1, <1>2, <1>3, <1>7, PlaceMoves DEF OwedOK
  <1>9. ASSUME NEW d \in Listener, d # l PROVE position'[o][d] = position[o][d]
    BY <1>7, <1>9
  <1> QED BY <1>8, <1>9
(* An attempt of the owner leaves its record owed; one of a cut-off consumer  *)
(* may undo a success, which is remembered.                                  *)
LEMMA RetryingOwes ==
  ASSUME Inv, NEW o \in Order, NEW c \in Consumer, NEW k \in Role, OwedOK(o),
         RecordAttempt(o, c, k) \/ RecordRetry(o, c, k)
  PROVE  HandledOK(o)' /\ LetterOK(o)'
  <1>1. /\ TypeOK /\ c \in Listener /\ c # "DLQ" /\ Role = {"owner", "cutOff"}
        /\ HandledOK(o) /\ LetterOK(o)
    BY ConsumersListen DEF Inv, Role, OwedOK
  <1>2. UNCHANGED <<position, records, letters, gaveUp, status>>
    BY DEF RecordAttempt, RecordRetry, Retrying, cursor
  <1>3. \A d \in Consumer : result'[o][d] = IF d = c THEN "RETRYING" ELSE result[o][d]
    BY <1>1 DEF RecordAttempt, RecordRetry, Retrying, TypeOK
  <1>4. /\ undone[o] \subseteq undone'[o]
        /\ k = "cutOff" /\ result[o][c] = "SUCCESS" => c \in undone'[o]
    BY <1>1 DEF RecordAttempt, RecordRetry, Retrying, TypeOK
  <1>5. k = "owner" => position[o][c] < End(o, c)
    <2>1. at[o][c][k] # "idle" \/ Has(o, c, k)
      BY DEF RecordAttempt, RecordRetry
    <2> QED BY <1>1, <2>1, RecordIsHeld
  <1>6. HandledOK(o)'
    <2> SUFFICES ASSUME NEW d \in Consumer, position[o][d] = records[o], records[o] > 0
                 PROVE  \/ result'[o][d] \in {"SUCCESS", "DLQ"} \/ d \in gaveUp[o]
                        \/ d \in undone'[o] \/ status[o] = "FAILED"
      BY <1>2 DEF HandledOK
    <2>1. CASE d # c
      BY <1>1, <1>3, <1>4, <2>1 DEF HandledOK
    <2>2. CASE d = c /\ k = "owner"
      <3>1. position[o][d] < records[o] /\ records[o] \in Nat
        BY <1>1, <1>5, <2>2, OwedTypes DEF End
      <3> QED BY <3>1
    <2>3. CASE d = c /\ k = "cutOff"
      <3>1. result[o][c] = "DLQ" => status[o] = "FAILED"
        BY <1>1 DEF LetterOK
      <3> QED BY <1>1, <1>4, <2>3, <3>1 DEF HandledOK
    <2> QED BY <1>1, <2>1, <2>2, <2>3
  <1>7. LetterOK(o)'
    BY <1>1, <1>2, <1>3 DEF LetterOK
  <1> QED BY <1>6, <1>7

LEMMA SuccessOwes ==
  ASSUME Inv, NEW o \in Order, NEW c \in Consumer, NEW k \in Role, OwedOK(o),
         RecordSuccess(o, c, k)
  PROVE  HandledOK(o)' /\ LetterOK(o)'
  <1>1. /\ TypeOK /\ c \in Listener /\ c # "DLQ" /\ "DLQ" \in Listener
        /\ HandledOK(o) /\ LetterOK(o)
    BY ConsumersListen DEF Inv, OwedOK
  <1>2. /\ records' = records /\ letters' = letters /\ gaveUp' = gaveUp
        /\ status[o] = "FAILED" <=> status'[o] = "FAILED"
        /\ \A d \in Consumer : result'[o][d] = IF d = c THEN "SUCCESS" ELSE result[o][d]
        /\ undone'[o] = undone[o] \ {c}
    BY <1>1 DEF RecordSuccess, TypeOK
  <1>3. \A d \in Listener : d # c => position'[o][d] = position[o][d]
    BY <1>1, WorkKeepsPlace DEF Works
  <1>4. HandledOK(o)'
    BY <1>1, <1>2, <1>3, ConsumersListen DEF HandledOK
  <1>5. LetterOK(o)'
    BY <1>1, <1>2, <1>3 DEF LetterOK
  <1> QED BY <1>4, <1>5

(* What a listener gives up becomes a letter; a letter given up, another.    *)
LEMMA RecoverOwes ==
  ASSUME Inv, NEW o \in Order, NEW l \in Listener, NEW k \in Role, OwedOK(o), Recover(o, l, k)
  PROVE  HandledOK(o)' /\ LetterOK(o)'
  <1>1. TypeOK /\ "DLQ" \in Listener /\ HandledOK(o) /\ LetterOK(o)
    BY ConsumersListen DEF Inv, OwedOK
  <1>2. /\ records' = records /\ letters'[o] = letters[o] + 1
        /\ UNCHANGED <<result, status, undone>> /\ gaveUp'[o] = gaveUp[o] \cup {l}
    BY <1>1 DEF Recover, TypeOK, demo
  <1>3. PlaceOK(o)' /\ \A d \in Listener : d # l => position'[o][d] = position[o][d]
    BY WorkKeepsPlace DEF Works, TryAgain
  <1>4. HandledOK(o)'
    BY <1>1, <1>2, <1>3, ConsumersListen DEF HandledOK
  <1>5. /\ position[o]["DLQ"] \in Nat /\ letters[o] \in Nat /\ position[o]["DLQ"] <= letters[o]
        /\ l = "DLQ" /\ k = "owner" => position[o]["DLQ"] < letters[o]
        /\ l = "DLQ" => letters[o] > 0
    <2>1. PlaceOK(o)
      BY DEF OwedOK
    <2>2. at[o][l][k] # "idle"
      BY DEF Recover
    <2>3. l = "DLQ" => End(o, l) > 0 /\ (k = "owner" => position[o][l] < End(o, l))
      BY <2>2, RecordIsHeld
    <2> QED BY <1>1, <2>1, <2>3, OwedTypes DEF PlaceOK, End
  <1>6. position'[o]["DLQ"] \in {position[o]["DLQ"], position[o]["DLQ"] + 1}
        /\ (position'[o]["DLQ"] # position[o]["DLQ"] => l = "DLQ" /\ k = "owner")
    BY <1>1 DEF Recover, Handled, LetGo, TypeOK
  <1>7. letters'[o] > 0 /\ position'[o]["DLQ"] < letters'[o]
    BY <1>2, <1>5, <1>6
  <1>8. gaveUp'[o] \cap Consumer # {}
    <2>1. CASE l = "DLQ"
      BY <1>1, <1>2, <1>5, <2>1 DEF LetterOK
    <2>2. CASE l # "DLQ"
      BY <1>2, <2>2, ConsumersListen
    <2> QED BY <2>1, <2>2
  <1>9. LetterOK(o)'
    BY <1>1, <1>2, <1>7, <1>8 DEF LetterOK
  <1> QED BY <1>4, <1>9

LEMMA DlqOwes ==
  ASSUME Inv, NEW o \in Order, NEW k \in Role, OwedOK(o), RecordDlq(o, k)
  PROVE  HandledOK(o)' /\ LetterOK(o)'
  <1>1. TypeOK /\ "DLQ" \in Listener /\ LetterOK(o)
    BY ConsumersListen DEF Inv, OwedOK
  <1>2. letters' = letters /\ gaveUp' = gaveUp /\ status'[o] = "FAILED"
    BY <1>1 DEF RecordDlq, TypeOK, history
  <1>3. letters[o] > 0
    <2>1. at[o]["DLQ"][k] # "idle"
      BY DEF RecordDlq
    <2> QED BY <1>1, <2>1, RecordIsHeld DEF End
  <1> QED BY <1>1, <1>2, <1>3 DEF HandledOK, LetterOK

(* All other work changes nothing that is owed.                              *)
LEMMA IdleWorkOwes ==
  ASSUME Inv, NEW o \in Order, NEW l \in Listener, NEW k \in Role, OwedOK(o),
         \/ BeginSuccess(o, l, k) \/ CountSuccess(o, l, k)
         \/ l = "DLQ" /\ (ReadDlq(o, k) \/ RecordDlqConflict(o, k))
         \/ HandlerFails(o, l, k) \/ Retry(o, l) \/ DropRetry(o, l)
  PROVE  HandledOK(o)' /\ LetterOK(o)'
  <1>1. UNCHANGED <<position, records, letters, gaveUp, undone, status, result>>
    BY DEF BeginSuccess, CountSuccess, ReadDlq, RecordDlqConflict, HandlerFails, KeepsFailing,
       Retry, DropRetry, LetGo, demo, cursor, history
  <1> QED BY <1>1 DEF OwedOK, HandledOK, LetterOK

LEMMA WorkOwes ==
  ASSUME Inv, NEW o \in Order, NEW l \in Listener, NEW k \in Role, OwedOK(o), Works(o, l, k)
  PROVE  OwedOK(o)'
  <1>1. PlaceOK(o)'
    BY WorkKeepsPlace
  <1>2. CASE l \in Consumer /\ (RecordAttempt(o, l, k) \/ RecordRetry(o, l, k))
    BY <1>1, <1>2, RetryingOwes DEF OwedOK
  <1>3. CASE l \in Consumer /\ RecordSuccess(o, l, k)
    BY <1>1, <1>3, SuccessOwes DEF OwedOK
  <1>4. CASE Recover(o, l, k)
    BY <1>1, <1>4, RecoverOwes DEF OwedOK
  <1>5. CASE RecordDlq(o, k)
    BY <1>1, <1>5, DlqOwes DEF OwedOK
  <1>6. CASE \/ BeginSuccess(o, l, k) \/ CountSuccess(o, l, k)
             \/ l = "DLQ" /\ (ReadDlq(o, k) \/ RecordDlqConflict(o, k))
             \/ HandlerFails(o, l, k) \/ Retry(o, l) \/ DropRetry(o, l)
    BY <1>1, <1>6, IdleWorkOwes DEF OwedOK
  <1> QED BY <1>2, <1>3, <1>4, <1>5, <1>6 DEF Works, TryAgain

(* Who falls back to the committed offset owes what he has handled since;     *)
(* who is cut off keeps some of what there is.                               *)
LEMMA CursorOwes ==
  ASSUME Inv, NEW o \in Order, NEW l \in Listener, OwedOK(o),
         CommitOffset(o, l) \/ Rebalance(o, l)
  PROVE  OwedOK(o)'
  <1>1. TypeOK /\ "DLQ" \in Listener /\ Role = {"owner", "cutOff"}
    BY ConsumersListen DEF Inv, Role
  <1>2. UNCHANGED <<records, letters, gaveUp, undone, status, result>>
    BY DEF CommitOffset, Rebalance, demo, history
  <1>3. ASSUME NEW d \in Listener
        PROVE  /\ committed'[o][d] <= position'[o][d] /\ position'[o][d] <= position[o][d]
               /\ at'[o][d]["owner"] # "idle"
                    => at[o][d]["owner"] # "idle" /\ position'[o][d] = position[o][d]
               /\ position'[o][d] \in Nat
               /\ left'[o][d] > 0 => left[o][d] > 0 \/ position[o][d] < End(o, d)
    <2>1. /\ position[o][d] \in Nat /\ committed[o][d] \in Nat /\ committed[o][d] <= position[o][d]
          /\ End(o, d) \in Nat
      BY <1>1, OwedTypes DEF OwedOK, PlaceOK
    <2>2. CASE CommitOffset(o, l)
      <3>1. /\ position' = position /\ at' = at /\ left' = left
            /\ committed'[o][d] = IF d = l THEN position[o][d] ELSE committed[o][d]
        BY <1>1, <2>2 DEF CommitOffset, TypeOK
      <3> QED BY <2>1, <3>1
    <2>3. CASE Rebalance(o, l)
      <3>1. /\ committed' = committed
            /\ position'[o][d] = IF d = l THEN committed[o][d] ELSE position[o][d]
        BY <1>1, <2>3 DEF Rebalance, TypeOK
      <3>2. at'[o][d]["owner"] = IF d = l THEN "idle" ELSE at[o][d]["owner"]
        BY <1>1, <2>3 DEF Rebalance, Dies, GoesOn, TypeOK
      <3>3. left'[o][d] > 0 => left[o][d] > 0 \/ position[o][d] < End(o, d)
        <4>1. CASE Dies(o, l)
          BY <4>1 DEF Dies
        <4>2. CASE GoesOn(o, l)
          <5>1. PICK n \in 1..(End(o, l) - position[o][l]) : left' = [left EXCEPT ![o][l] = n]
            BY <4>2 DEF GoesOn
          <5>2. CASE d = l
            BY <2>1, <5>1, <5>2
          <5>3. CASE d # l
            BY <1>1, <5>1, <5>3 DEF TypeOK
          <5> QED BY <5>2, <5>3
        <4> QED BY <2>3, <4>1, <4>2 DEF Rebalance
      <3> QED BY <2>1, <3>1, <3>2, <3>3
    <2> QED BY <2>2, <2>3
  <1>4. PlaceOK(o)'
    <2> SUFFICES ASSUME NEW d \in Listener
                 PROVE  /\ committed'[o][d] <= position'[o][d]
                        /\ position'[o][d] <= End(o, d)'
                        /\ at'[o][d]["owner"] # "idle" => position'[o][d] < End(o, d)'
                        /\ left'[o][d] > 0 => End(o, d)' > 0
      BY DEF PlaceOK
    <2>1. End(o, d)' = End(o, d)
      BY <1>2 DEF End
    <2>2. position[o][d] \in Nat /\ End(o, d) \in Nat
      BY <1>1, OwedTypes
    <2>3. /\ position[o][d] <= End(o, d)
          /\ at[o][d]["owner"] # "idle" => position[o][d] < End(o, d)
          /\ left[o][d] > 0 => End(o, d) > 0
      BY DEF OwedOK, PlaceOK
    <2> QED BY <1>3, <2>1, <2>2, <2>3
  <1>5. HandledOK(o)'
    <2> SUFFICES ASSUME NEW c \in Consumer, position'[o][c] = records[o], records[o] > 0
                 PROVE  \/ result[o][c] \in {"SUCCESS", "DLQ"} \/ c \in gaveUp[o]
                        \/ c \in undone[o] \/ status[o] = "FAILED"
      BY <1>2 DEF HandledOK
    <2>1. /\ position[o][c] \in Nat /\ position'[o][c] <= position[o][c]
          /\ position[o][c] <= records[o] /\ records[o] \in Nat
      BY <1>1, <1>3, ConsumersListen, OwedTypes DEF OwedOK, PlaceOK, End
    <2>2. position[o][c] = records[o]
      BY <2>1
    <2> QED BY <2>2 DEF OwedOK, HandledOK
  <1>6. LetterOK(o)'
    <2>1. position'[o]["DLQ"] \in Nat /\ position[o]["DLQ"] \in Nat /\ letters[o] \in Nat
          /\ position'[o]["DLQ"] <= position[o]["DLQ"]
      BY <1>1, <1>3, OwedTypes
    <2> QED BY <1>2, <2>1 DEF OwedOK, LetterOK
  <1> QED BY <1>4, <1>5, <1>6 DEF OwedOK
(* The relay, and who creates the order. *)
LEMMA RelayOffers ==
  ASSUME Inv, NEW p \in Order,
         \/ \E o \in Order : Create(o) \/ ClaimExpires(o)
         \/ \E r \in Relay : Publish(r) \/ RelayFails(r) \/ \E o \in Order : SendFails(r, o)
  PROVE  Offered(p)
  <1>0. TypeOK
    BY DEF Inv
  <1>1. UNCHANGED <<position, committed, left, at, letters, result, gaveUp, undone>>
    BY DEF Create, ClaimExpires, Publish, Claim, Send, MarkRow, MarkPublished, RelayFails,
       SendFails, demo, cursor, history
  <1>2. records'[p] \in {records[p], records[p] + 1}
    BY <1>0 DEF TypeOK, Create, ClaimExpires, Publish, Claim, Send, MarkRow, MarkPublished,
       RelayFails, SendFails
  <1>3. status[p] = "FAILED" <=> status'[p] = "FAILED"
    BY <1>0 DEF TypeOK, Create, ClaimExpires, Publish, Claim, Send, MarkRow, MarkPublished,
       RelayFails, SendFails, demo
  <1> QED BY <1>1, <1>2, <1>3 DEF Offered

(* No row is marked before its record is in the topic. *)
LEMMA RelaySent ==
  ASSUME Inv, NEW p \in Order, SentOK(p),
         \/ \E o \in Order : Create(o) \/ ClaimExpires(o)
         \/ \E r \in Relay : Publish(r) \/ RelayFails(r) \/ \E o \in Order : SendFails(r, o)
  PROVE  SentOK(p)'
  <1>0. TypeOK /\ records[p] \in Nat
    BY DEF Inv, TypeOK
  <1>1. records'[p] \in {records[p], records[p] + 1}
    BY RelayOffers DEF Offered
  <1>2. records[p] > 0 => records'[p] > 0
    BY <1>0, <1>1
  <1>3. row'[p] = "PUBLISHED" => row[p] = "PUBLISHED" \/ \E r \in Relay : sending[r][p] = "sent"
    BY <1>0 DEF TypeOK, Create, ClaimExpires, Publish, Claim, Send, MarkRow, MarkPublished,
       RelayFails, SendFails
  <1>4. ASSUME NEW r \in Relay, sending'[r][p] \in {"sent", "published"}
        PROVE  sending[r][p] \in {"sent", "published"} \/ records'[p] = records[p] + 1
    <2>1. ASSUME NEW q \in Relay, NEW o \in Order, Send(q, o)
          PROVE  sending'[r][p] = sending[r][p] \/ records'[p] = records[p] + 1
      BY <1>0, <2>1 DEF Send, TypeOK
    <2>2. ASSUME NEW q \in Relay, NEW o \in Order, MarkRow(q, o)
          PROVE  sending[r][p] \in {"sent", "published"}
      BY <1>0, <1>4, <2>2 DEF MarkRow, TypeOK
    <2>3. ASSUME NEW q \in Relay, NEW o \in Order, MarkPublished(q, o)
          PROVE  sending'[r][p] \in {sending[r][p], "claimed"}
      BY <1>0, <2>3 DEF MarkPublished, TypeOK
    <2>4. ASSUME NEW q \in Relay, RelayFails(q)
          PROVE  sending'[r][p] \in {sending[r][p], "claimed"}
      BY <1>0, <2>4 DEF RelayFails, TypeOK
    <2>5. CASE \/ \E o \in Order : Create(o) \/ ClaimExpires(o)
               \/ \E q \in Relay : Claim(q) \/ \E o \in Order : SendFails(q, o)
      BY <1>4, <2>5 DEF Create, ClaimExpires, Claim, SendFails
    <2> QED BY <1>4, <2>1, <2>2, <2>3, <2>4, <2>5 DEF Publish
  <1>5. row'[p] = "PUBLISHED" => records'[p] > 0
    BY <1>2, <1>3 DEF SentOK
  <1>6. ASSUME NEW r \in Relay, sending'[r][p] \in {"sent", "published"} PROVE records'[p] > 0
    BY <1>0, <1>2, <1>4, <1>6 DEF SentOK
  <1> QED BY <1>5, <1>6 DEF SentOK

LEMMA ListenerSent ==
  ASSUME NEW p \in Order, SentOK(p), UNCHANGED <<row, sending, records>>
  PROVE  SentOK(p)'
  BY DEF SentOK

LEMMA StepOwed == OwedInv /\ [Next]_vars => OwedInv'
  <1> SUFFICES ASSUME OwedInv, [Next]_vars, NEW p \in Order PROVE SentOK(p)' /\ OwedOK(p)'
    BY StepInv DEF OwedInv
  <1>0. Inv /\ TypeOK /\ SentOK(p) /\ OwedOK(p)
    BY DEF OwedInv, Inv
  <1>1. CASE UNCHANGED vars
    <2>1. Offered(p)
      BY <1>1 DEF Offered, vars
    <2> QED BY <1>0, <1>1, <2>1, OfferKeeps, ListenerSent DEF vars
  <1>2. CASE \/ \E o \in Order : Create(o) \/ ClaimExpires(o)
             \/ \E r \in Relay : Publish(r) \/ RelayFails(r) \/ \E o \in Order : SendFails(r, o)
    <2>1. SentOK(p)'
      BY <1>0, <1>2, RelaySent
    <2>2. Offered(p)
      BY <1>0, <1>2, RelayOffers
    <2> QED BY <1>0, <2>1, <2>2, OfferKeeps
  <1>3. ASSUME NEW o \in Order, NEW l \in Listener, Moves(o, l) PROVE SentOK(p)' /\ OwedOK(p)'
    <2>1. UNCHANGED <<row, sending, records>>
      BY <1>3 DEF Moves, Works, TryAgain, ReadDlq, RecordDlq, RecordDlqConflict, RecordAttempt,
         RecordRetry, BeginSuccess, CountSuccess, RecordSuccess, Retry, DropRetry, Recover,
         HandlerFails, CommitOffset, Rebalance, relays
    <2>2. SentOK(p)'
      BY <1>0, <2>1, ListenerSent
    <2>3. CASE p # o
      <3>1. Untouched(p)
        BY <1>0, <1>3, <2>3, OthersAreUntouched
      <3>2. Offered(p)
        BY <3>1 DEF Untouched, Offered
      <3> QED BY <1>0, <2>2, <3>2, OfferKeeps
    <2>4. CASE p = o
      BY <1>0, <1>3, <2>2, <2>4, WorkOwes, CursorOwes DEF Moves
    <2> QED BY <2>3, <2>4
  <1> QED BY <1>1, <1>2, <1>3, NextIs

(* When the row of an order is published and its topics are handled to the   *)
(* end, the order is settled: nothing that could still settle it is missing,  *)
(* unless a cut-off consumer has overwritten a success (AllServedIsSettled    *)
(* shows that it may).  The order may have any number of records and letters, *)
(* and any listener may be cut off, at any point, any number of times.        *)
THEOREM RestIsSettled == Spec => []QuietMeansSettled
  <1>1. OwedInv => QuietMeansSettled
    <2> SUFFICES ASSUME OwedInv, NEW o \in Order, Quiet(o), undone[o] = {} PROVE Ended(o)
      BY DEF QuietMeansSettled
    <2>1. TypeOK /\ OrderOK(o) /\ SentOK(o) /\ OwedOK(o)
      BY DEF OwedInv, Inv
    <2>2. /\ row[o] = "PUBLISHED" /\ position[o]["DLQ"] = letters[o]
          /\ \A c \in Consumer : position[o][c] = records[o]
      BY ConsumersListen DEF Quiet, End
    <2>3. \A c \in Consumer :
            result[o][c] \in {"SUCCESS", "DLQ"} \/ c \in gaveUp[o] \/ status[o] = "FAILED"
      BY <2>1, <2>2 DEF SentOK, OwedOK, HandledOK
    <2>4. gaveUp[o] # {} => status[o] = "FAILED"
      <3>1. letters[o] \in Nat
        BY <2>1 DEF TypeOK
      <3> QED BY <2>1, <2>2, <3>1 DEF OwedOK, LetterOK
    <2>5. (\E c \in Consumer : result[o][c] = "DLQ") => status[o] = "FAILED"
      BY <2>1 DEF OwedOK, LetterOK
    <2>6. (\A c \in Consumer : result[o][c] = "SUCCESS") => status[o] \in {"COMPLETED", "FAILED"}
      BY <2>1 DEF OrderOK, CloseOK
    <2> QED BY <2>3, <2>4, <2>5, <2>6 DEF Ended
  <1>2. Init => OwedInv
    BY InitOwed
  <1> QED BY <1>1, <1>2, StepOwed, PTL DEF Spec

-----------------------------------------------------------------------------
(* The life of an order.  Its row exists once the order does.                 *)
BornOK(o) ==
  status[o] = "NONE" => row[o] = "NONE" /\ o \notin expired /\ \A r \in Relay : o \notin batch[r]
LifeInv == OwedInv /\ \A o \in Order : BornOK(o)

LEMMA InitLife == Init => LifeInv
  <1> SUFFICES ASSUME Init PROVE LifeInv
    OBVIOUS
  <1>1. \A o \in Order : BornOK(o)
    BY DEF Init, BornOK
  <1> QED BY <1>1, InitOwed DEF LifeInv

(* No step takes an order back to before it was created. *)
LEMMA StaysBorn ==
  ASSUME Inv, [Next]_vars, NEW p \in Order, status'[p] = "NONE"
  PROVE  status[p] = "NONE"
  <1>1. CASE UNCHANGED vars
    BY <1>1 DEF vars
  <1>2. CASE Next
    BY <1>2, StatusMoves
  <1> QED BY <1>1, <1>2

LEMMA StepBorn ==
  ASSUME Inv, [Next]_vars, NEW p \in Order, BornOK(p)
  PROVE  BornOK(p)'
  <1> SUFFICES ASSUME status'[p] = "NONE"
               PROVE  row'[p] = "NONE" /\ p \notin expired' /\ \A r \in Relay : p \notin batch'[r]
    BY DEF BornOK
  <1>0. TypeOK
    BY DEF Inv
  <1>1. row[p] = "NONE" /\ p \notin expired /\ \A r \in Relay : p \notin batch[r]
    BY StaysBorn DEF BornOK
  <1>2. CASE UNCHANGED relays
    BY <1>1, <1>2 DEF relays
  <1>3. ASSUME NEW o \in Order, Create(o)
        PROVE  row'[p] = "NONE" /\ p \notin expired' /\ \A r \in Relay : p \notin batch'[r]
    <2>1. p # o
      BY <1>0, <1>3 DEF Create, TypeOK
    <2> QED BY <1>0, <1>1, <1>3, <2>1 DEF Create, TypeOK
  <1>4. ASSUME NEW o \in Order, ClaimExpires(o)
        PROVE  row'[p] = "NONE" /\ p \notin expired' /\ \A r \in Relay : p \notin batch'[r]
    BY <1>1, <1>4 DEF ClaimExpires
  <1>5. ASSUME NEW q \in Relay, Claim(q)
        PROVE  row'[p] = "NONE" /\ p \notin expired' /\ \A r \in Relay : p \notin batch'[r]
    <2>1. p \notin Pending
      BY <1>1 DEF Pending
    <2> QED BY <1>0, <1>1, <1>5, <2>1 DEF Claim, TypeOK
  <1>6. ASSUME NEW q \in Relay, NEW o \in Order,
               Send(q, o) \/ MarkRow(q, o) \/ MarkPublished(q, o) \/ SendFails(q, o)
        PROVE  row'[p] = "NONE" /\ p \notin expired' /\ \A r \in Relay : p \notin batch'[r]
    <2>1. p # o
      BY <1>1, <1>6 DEF Send, MarkRow, MarkPublished, SendFails, Current
    <2>2. row'[p] = row[p] /\ expired' \subseteq expired
      BY <1>0, <1>6, <2>1 DEF TypeOK, Send, MarkRow, MarkPublished, SendFails
    <2>3. batch' = batch \/ batch' = [batch EXCEPT ![q] = @ \ {o}]
      BY <1>6 DEF Send, MarkRow, MarkPublished, SendFails
    <2>4. \A r \in Relay : p \notin batch'[r]
      BY <1>0, <1>1, <2>3 DEF TypeOK
    <2> QED BY <1>1, <2>2, <2>4
  <1>7. ASSUME NEW q \in Relay, RelayFails(q)
        PROVE  row'[p] = "NONE" /\ p \notin expired' /\ \A r \in Relay : p \notin batch'[r]
    BY <1>0, <1>1, <1>7 DEF RelayFails, TypeOK
  <1>8. \/ UNCHANGED relays
        \/ \E o \in Order : Create(o) \/ ClaimExpires(o)
        \/ \E q \in Relay : Claim(q) \/ RelayFails(q)
        \/ \E q \in Relay, o \in Order :
             Send(q, o) \/ MarkRow(q, o) \/ MarkPublished(q, o) \/ SendFails(q, o)
    <2>1. ASSUME NEW o \in Order, NEW l \in Listener, Moves(o, l) PROVE UNCHANGED relays
      BY <2>1 DEF Moves, Works, TryAgain, RecordAttempt, RecordRetry, BeginSuccess,
         CountSuccess, RecordSuccess, Retry, DropRetry, Recover, ReadDlq, RecordDlq,
         RecordDlqConflict, HandlerFails, CommitOffset, Rebalance
    <2>2. CASE Next
      BY <2>1, <2>2, NextIs DEF Publish
    <2> QED BY <2>2 DEF vars, relays
  <1> QED BY <1>2, <1>3, <1>4, <1>5, <1>6, <1>7, <1>8

LEMMA StepLife == LifeInv /\ [Next]_vars => LifeInv'
  BY StepOwed, StepBorn DEF LifeInv, OwedInv

(* ... and KafkaDemo's steps are steps of DemoContract.                      *)
InTopic == {o \in Order : records[o] > 0}
GivenUp == [o \in Order |-> gaveUp[o] \cap Consumer]

LEMMA SendRefines ==
  ASSUME LifeInv, NEW r \in Relay, NEW o \in Order, o \in batch[r],
         records' = [records EXCEPT ![o] = @ + 1], UNCHANGED <<status, served, gaveUp>>
  PROVE  Contract!Send(o)
  <1>1. TypeOK /\ BornOK(o)
    BY DEF LifeInv, OwedInv, Inv
  <1>2. status[o] # "NONE"
    BY <1>1 DEF BornOK
  <1>3. InTopic' = InTopic \cup {o}
    <2>1. records[o] \in Nat /\ records'[o] = records[o] + 1
      BY <1>1 DEF TypeOK
    <2>2. \A p \in Order : p # o => records'[p] = records[p]
      BY <1>1 DEF TypeOK
    <2>3. records'[o] > 0
      BY <2>1
    <2> QED BY <2>2, <2>3 DEF InTopic
  <1> QED BY <1>2, <1>3 DEF Contract!Send, InTopic

LEMMA PublishRefines ==
  ASSUME LifeInv, NEW r \in Relay, NEW o \in Order, MarkPublished(r, o)
  PROVE  Contract!Publish(o) \/ UNCHANGED <<status, records, served, gaveUp>>
  <1>1. TypeOK /\ SentOK(o)
    BY DEF LifeInv, OwedInv, Inv
  <1>2. UNCHANGED <<records, served, gaveUp>>
    BY DEF MarkPublished, history
  <1>3. CASE status[o] = "ACCEPTED"
    <2>1. o \in InTopic
      BY <1>1 DEF SentOK, MarkPublished, InTopic
    <2>2. status' = [status EXCEPT ![o] = "PUBLISHED"]
      BY <1>1, <1>3 DEF MarkPublished, TypeOK
    <2> QED BY <1>2, <1>3, <2>1, <2>2 DEF Contract!Publish, InTopic
  <1>4. CASE status[o] # "ACCEPTED"
    <2>1. status' = status
      BY <1>1, <1>4 DEF MarkPublished, TypeOK
    <2> QED BY <1>2, <2>1
  <1> QED BY <1>3, <1>4

(* A listener in the midst of a record has it before it.                     *)
LEMMA RecordIsThere ==
  ASSUME LifeInv, NEW o \in Order, NEW l \in Listener, NEW k \in Role, at[o][l][k] # "idle"
  PROVE  /\ l # "DLQ" => o \in InTopic
         /\ l = "DLQ" => GivenUp[o] # {}
  <1>1. LetterOK(o) /\ End(o, l) > 0
    BY RecordIsHeld DEF LifeInv, OwedInv, OwedOK
  <1>2. l # "DLQ" => o \in InTopic
    BY <1>1 DEF End, InTopic
  <1>3. l = "DLQ" => GivenUp[o] # {}
    BY <1>1 DEF End, LetterOK, GivenUp
  <1> QED BY <1>2, <1>3

LEMMA ServeRefines ==
  ASSUME LifeInv, NEW o \in Order, NEW c \in Consumer, NEW k \in Role,
         RecordSuccess(o, c, k)
  PROVE  Contract!Serve(o, c)
  <1>1. TypeOK /\ CountOK(o) /\ c \in Listener /\ c # "DLQ"
    BY ConsumersListen DEF LifeInv, OwedInv, Inv, OrderOK
  <1>2. o \in InTopic
    BY <1>1, RecordIsThere DEF RecordSuccess
  <1>3. served' = [served EXCEPT ![o] = @ \cup {c}] /\ UNCHANGED <<records, gaveUp>>
    BY DEF RecordSuccess
  <1>4. UNCHANGED status \/ /\ served'[o] = Consumer
                            /\ status[o] # "FAILED"
                            /\ status' = [status EXCEPT ![o] = "COMPLETED"]
    <2>1. CASE at[o][c][k] = "ready" /\ status[o] # "FAILED"
      <3>1. Consumer \ {c} \subseteq served[o] /\ served[o] \subseteq Consumer
        BY <1>1, <2>1 DEF CountOK, TypeOK
      <3>2. served'[o] = served[o] \cup {c}
        BY <1>1, <1>3 DEF TypeOK
      <3>3. served'[o] = Consumer
        BY <3>1, <3>2
      <3>4. status' = [status EXCEPT ![o] = "COMPLETED"]
        BY <1>1, <2>1 DEF RecordSuccess, TypeOK
      <3> QED BY <2>1, <3>3, <3>4
    <2>2. CASE ~(at[o][c][k] = "ready" /\ status[o] # "FAILED")
      BY <1>1, <2>2 DEF RecordSuccess, TypeOK
    <2> QED BY <2>1, <2>2
  <1> QED BY <1>2, <1>3, <1>4 DEF Contract!Serve, InTopic

LEMMA GiveUpRefines ==
  ASSUME LifeInv, NEW o \in Order, NEW l \in Listener, NEW k \in Role, Recover(o, l, k)
  PROVE  (l \in Consumer /\ Contract!GiveUp(o, l)) \/ UNCHANGED Contract!vars
  <1>1. TypeOK
    BY DEF LifeInv, OwedInv, Inv
  <1>2. UNCHANGED <<status, records, served>>
    BY DEF Recover, demo
  <1>3. gaveUp' = [gaveUp EXCEPT ![o] = @ \cup {l}]
    BY DEF Recover
  <1>4. CASE l \in Consumer
    <2>1. GivenUp' = [GivenUp EXCEPT ![o] = @ \cup {l}]
      BY <1>1, <1>3, <1>4 DEF TypeOK, GivenUp
    <2>2. o \in InTopic
      BY <1>4, RecordIsThere, ConsumersListen DEF Recover
    <2> QED BY <1>2, <1>4, <2>1, <2>2 DEF Contract!GiveUp, InTopic, GivenUp
  <1>5. CASE l \notin Consumer
    <2>1. GivenUp' = GivenUp
      BY <1>1, <1>3, <1>5 DEF TypeOK, GivenUp
    <2> QED BY <1>2, <2>1 DEF Contract!vars, GivenUp
  <1> QED BY <1>4, <1>5

LEMMA FailRefines ==
  ASSUME LifeInv, NEW o \in Order, NEW k \in Role, RecordDlq(o, k)
  PROVE  Contract!Fail(o)
  <1>1. GivenUp[o] # {}
    BY RecordIsThere, ConsumersListen DEF RecordDlq
  <1> QED BY <1>1 DEF RecordDlq, Contract!Fail, history, GivenUp

LEMMA StepRefines == LifeInv /\ [Next]_vars => [Contract!Next]_(Contract!vars)
  <1> SUFFICES ASSUME LifeInv, [Next]_vars PROVE Contract!Next \/ UNCHANGED Contract!vars
    OBVIOUS
  <1>1. ASSUME UNCHANGED <<status, records, served, gaveUp>> PROVE UNCHANGED Contract!vars
    BY <1>1 DEF Contract!vars
  <1>2. ASSUME NEW o \in Order, Create(o) PROVE Contract!Next
    <2>1. Contract!Accept(o)
      BY <1>2 DEF Create, Contract!Accept, history
    <2> QED BY <2>1 DEF Contract!Next
  <1>3. ASSUME NEW r \in Relay, NEW o \in Order, Send(r, o) PROVE Contract!Next
    <2>1. Contract!Send(o)
      BY <1>3, SendRefines DEF Send, Current, demo, history
    <2> QED BY <2>1 DEF Contract!Next
  <1>4. ASSUME NEW r \in Relay, NEW o \in Order, SendFails(r, o)
        PROVE  Contract!Next \/ UNCHANGED Contract!vars
    <2>1. Contract!Send(o) \/ UNCHANGED <<status, records, served, gaveUp>>
      BY <1>4, SendRefines DEF SendFails, Current, demo
    <2> QED BY <1>1, <2>1 DEF Contract!Next
  <1>5. ASSUME NEW r \in Relay, NEW o \in Order, MarkPublished(r, o)
        PROVE  Contract!Next \/ UNCHANGED Contract!vars
    BY <1>1, <1>5, PublishRefines DEF Contract!Next
  <1>6. ASSUME NEW o \in Order, NEW c \in Consumer, NEW k \in Role, RecordSuccess(o, c, k)
        PROVE  Contract!Next
    BY <1>6, ServeRefines DEF Contract!Next
  <1>7. ASSUME NEW o \in Order, NEW l \in Listener, NEW k \in Role, Recover(o, l, k)
        PROVE  Contract!Next \/ UNCHANGED Contract!vars
    BY <1>7, GiveUpRefines DEF Contract!Next
  <1>8. ASSUME NEW o \in Order, NEW k \in Role, RecordDlq(o, k) PROVE Contract!Next
    BY <1>8, FailRefines DEF Contract!Next
  <1>9. CASE Next
    <2>1. ASSUME NEW o \in Order, NEW l \in Listener, Moves(o, l)
          PROVE  \/ UNCHANGED <<status, records, served, gaveUp>>
                 \/ \E k \in Role : \/ RecordDlq(o, k) \/ Recover(o, l, k)
                                    \/ l \in Consumer /\ RecordSuccess(o, l, k)
      BY <2>1 DEF Moves, Works, TryAgain, RecordAttempt, RecordRetry, Retrying, BeginSuccess,
         CountSuccess, Retry, DropRetry, ReadDlq, RecordDlqConflict, HandlerFails, KeepsFailing,
         CommitOffset, Rebalance, demo, history
    <2>2. ASSUME NEW o \in Order, NEW l \in Listener, Moves(o, l)
          PROVE  Contract!Next \/ UNCHANGED Contract!vars
      BY <1>1, <1>6, <1>7, <1>8, <2>1, <2>2
    <2>3. ASSUME NEW o \in Order, ClaimExpires(o) PROVE UNCHANGED Contract!vars
      BY <1>1, <2>3 DEF ClaimExpires, demo, history
    <2>4. ASSUME NEW r \in Relay, Claim(r) \/ RelayFails(r) PROVE UNCHANGED Contract!vars
      BY <1>1, <2>4 DEF Claim, RelayFails, demo, history
    <2>5. ASSUME NEW r \in Relay, NEW o \in Order, MarkRow(r, o) PROVE UNCHANGED Contract!vars
      BY <1>1, <2>5 DEF MarkRow, demo, history
    <2> QED BY <1>2, <1>3, <1>4, <1>5, <1>9, <2>2, <2>3, <2>4, <2>5, NextIs DEF Publish
  <1>10. CASE UNCHANGED vars
    BY <1>1, <1>10 DEF vars
  <1> QED BY <1>9, <1>10

(* KafkaDemo implements DemoContract: whatever relays, listeners and faults  *)
(* do, an order is published, completed or failed only when that is earned.  *)
THEOREM DemoKeepsContract == Spec => ContractHolds
  <1>1. Init => Contract!Init
    <2> SUFFICES ASSUME Init PROVE Contract!Init
      OBVIOUS
    <2>1. InTopic = {} /\ GivenUp = [o \in Order |-> {}]
      BY DEF Init, InTopic, GivenUp
    <2> QED BY <2>1 DEF Init, Contract!Init, InTopic, GivenUp
  <1> QED BY <1>1, InitLife, StepLife, StepRefines, PTL DEF Spec, Contract!Spec, ContractHolds

OutcomeIsEarned ==
  \A o \in Order : /\ status[o] = "COMPLETED" => served[o] = Consumer
                   /\ status[o] = "FAILED" => gaveUp[o] \cap Consumer # {}

(* The outcome is earned: completed by all three, failed by one of them at    *)
(* least, though which one the result row does not always tell.              *)
THEOREM OutcomesAreEarned == Spec => []OutcomeIsEarned
  <1>1. OwedInv => OutcomeIsEarned
    <2> SUFFICES ASSUME OwedInv, NEW o \in Order
                 PROVE  /\ status[o] = "COMPLETED" => served[o] = Consumer
                        /\ status[o] = "FAILED" => gaveUp[o] \cap Consumer # {}
      BY DEF OutcomeIsEarned
    <2>1. TypeOK /\ CompleteOK(o) /\ LetterOK(o)
      BY DEF OwedInv, Inv, OrderOK, OwedOK
    <2>2. served[o] \subseteq Consumer
      BY <2>1 DEF TypeOK
    <2> QED BY <2>1, <2>2 DEF CompleteOK, LetterOK
  <1> QED BY <1>1, InitOwed, StepOwed, PTL DEF Spec
=============================================================================
