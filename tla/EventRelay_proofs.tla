--------------------------- MODULE EventRelay_proofs ---------------------------
(***************************************************************************)
(* Theorems of EventRelay, for any number of orders, relays, consumers,    *)
(* events and faults.                                                      *)
(***************************************************************************)
EXTENDS EventRelay, TLAPS

------------------------------------------------------------------------------
(* Types.  TypeOK is not inductive: mark_sent and release write to the row *)
(* a relay is at, which is one once its send has ended.                    *)

OutboxType ==
  /\ payment \in [Order -> {"NONE", "AUTHORIZED", "CANCELLED"}]
  /\ event \in Seq([order : Order, status : {"AUTHORIZED", "CANCELLED"}])
  /\ row \in [Row -> {"NEW", "CLAIMED", "SENT"}]
  /\ expired \subseteq Row

RelayType ==
  /\ mode \in [Relay -> {"down", "up", "off"}]
  /\ batch \in [Relay -> SUBSET Row]
  /\ sending \in [Relay -> Row \cup {0}]
  /\ outcome \in [Relay -> {"none", "sent", "failed"}]
  /\ \A r \in Relay : outcome[r] # "none" => sending[r] \in Row

GroupType ==
  /\ topic \in [Order -> Seq(Row)]
  /\ position \in [Order -> Nat]
  /\ committed \in [Order -> Nat]
  /\ owner \in [Order -> Consumer]
  /\ tries \in [Order -> 0..MaxRetries]

ViewType ==
  /\ hand \in [Consumer -> {Nothing} \cup [order : Order, id : Row, read : Row \cup {0}]]
  /\ shown \in [Order -> Row \cup {0}]
  /\ dropped \subseteq Row
  /\ raced \subseteq Order

FaultType == broker \in {"up", "down"} /\ faults \in 0..MaxFaults

TypeInv == OutboxType /\ RelayType /\ GroupType /\ ViewType /\ FaultType

LEMMA TypeInvImplies == TypeInv => TypeOK
BY DEF TypeInv, TypeOK, OutboxType, RelayType, GroupType, ViewType, FaultType

LEMMA InitType == Init => TypeInv
BY NumberAssumption
   DEF Init, TypeInv, OutboxType, RelayType, GroupType, ViewType, FaultType, Row

(* Rows are added and never change their event.                            *)
LEMMA Appended ==
  ASSUME OutboxType, NEW o \in Order, NEW s \in {"AUTHORIZED", "CANCELLED"},
         AppendOutbox(o, s)
  PROVE  /\ Len(event) \in Nat
         /\ Len(event') = Len(event) + 1
         /\ \A e \in Row : e \in Row' /\ event'[e] = event[e] /\ row'[e] = row[e]
         /\ event'[Len(event')] = [order |-> o, status |-> s]
         /\ row'[Len(event')] = "NEW"
         /\ event' \in Seq([order : Order, status : {"AUTHORIZED", "CANCELLED"}])
         /\ row' \in [Row' -> {"NEW", "CLAIMED", "SENT"}]
<1> DEFINE Status == {"NEW", "CLAIMED", "SENT"}
           Event  == [order : Order, status : {"AUTHORIZED", "CANCELLED"}]
<1>1. event \in Seq(Event) /\ Len(event) \in Nat
  BY DEF OutboxType
<1>2. row \in Seq(Status) /\ Len(row) = Len(event)
  <2>1. row \in [1..Len(event) -> Status]
    BY DEF OutboxType, Row
  <2> QED BY <1>1, <2>1
<1>3. event' \in Seq(Event) /\ Len(event') = Len(event) + 1
  BY <1>1 DEF AppendOutbox
<1>4. row' \in Seq(Status) /\ Len(row') = Len(event')
  BY <1>1, <1>2, <1>3 DEF AppendOutbox
<1>5. row' \in [Row' -> Status]
  BY <1>3, <1>4 DEF Row
<1>6. \A e \in Row : e \in Row' /\ event'[e] = event[e] /\ row'[e] = row[e]
  BY <1>1, <1>2, <1>3 DEF AppendOutbox, Row
<1>7. /\ event'[Len(event')] = [order |-> o, status |-> s]
      /\ row'[Len(event')] = "NEW"
  BY <1>1, <1>2, <1>3 DEF AppendOutbox
<1> QED BY <1>1, <1>3, <1>5, <1>6, <1>7


LEMMA EventType ==
  ASSUME OutboxType, NEW e \in Row
  PROVE  event[e].order \in Order /\ event[e].status \in {"AUTHORIZED", "CANCELLED"}
<1> DEFINE Event == [order : Order, status : {"AUTHORIZED", "CANCELLED"}]
<1>1. event \in Seq(Event) /\ e \in 1..Len(event)
  BY DEF OutboxType, Row
<1>2. event[e] \in Event
  <2> HIDE DEF Event
  <2> QED BY <1>1
<1> QED BY <1>2

(* A longer outbox disturbs no type.                                       *)
LEMMA AppendType ==
  ASSUME TypeInv, NEW o \in Order, NEW s \in {"AUTHORIZED", "CANCELLED"},
         AppendOutbox(o, s), payment' = [payment EXCEPT ![o] = s],
         UNCHANGED <<expired, broker, relays, topic, group, view, faults>>
  PROVE  TypeInv'
<1>1. Row \subseteq Row'
  BY Appended DEF TypeInv
<1>2. OutboxType'
  <2>1. payment' \in [Order -> {"NONE", "AUTHORIZED", "CANCELLED"}]
    BY DEF TypeInv, OutboxType
  <2>2. expired' \subseteq Row'
    BY <1>1 DEF TypeInv, OutboxType
  <2> QED BY <2>1, <2>2, Appended DEF TypeInv, OutboxType
<1>3. RelayType'
  <2>1. batch \in [Relay -> SUBSET Row'] /\ sending \in [Relay -> Row' \cup {0}]
    BY <1>1 DEF TypeInv, RelayType
  <2> QED BY <1>1, <2>1 DEF TypeInv, RelayType, relays
<1>4. GroupType'
  <2>1. topic \in [Order -> Seq(Row')]
    <3>1. ASSUME NEW t \in Seq(Row) PROVE t \in Seq(Row')
      BY <1>1, <3>1
    <3> QED BY <3>1 DEF TypeInv, GroupType
  <2> QED BY <2>1 DEF TypeInv, GroupType, group
<1>5. ViewType'
  BY <1>1 DEF TypeInv, ViewType, view
<1>6. FaultType'
  BY DEF TypeInv, FaultType
<1> QED BY <1>2, <1>3, <1>4, <1>5, <1>6 DEF TypeInv

LEMMA RelayStepType ==
  ASSUME TypeInv, NEW r \in Relay,
         Boot(r) \/ Drain(r) \/ CycleFails(r) \/ Crash(r)
           \/ \E e \in Row : SendUnacknowledged(r, e)
  PROVE  TypeInv'
<1> USE DEF TypeInv, api, outbox, relays, group, view
<1>1. CASE Boot(r)
  BY <1>1 DEF Boot, OutboxType, RelayType, GroupType, ViewType, FaultType, Row
<1>2. CASE Claim(r)
  <2>1. Row' = Row
    BY <1>2 DEF Claim, Row
  <2>2. Oldest(Pending) \subseteq Row
    BY DEF Oldest, Pending, OutboxType
  <2>3. OutboxType'
    BY <1>2, <2>1, <2>2 DEF Claim, OutboxType
  <2>4. RelayType'
    BY <1>2, <2>1, <2>2 DEF Claim, RelayType
  <2> QED BY <1>2, <2>1, <2>3, <2>4 DEF Claim, GroupType, ViewType, FaultType
<1>3. ASSUME NEW e \in Row, NEW how \in {"sent", "failed"}, Ended(r, e, how),
             UNCHANGED <<event, mode, batch>>
      PROVE  RelayType'
  BY <1>3 DEF Ended, RelayType, Row
<1>4. ASSUME NEW e \in Row, Publish(e), UNCHANGED <<event, group>>
      PROVE  GroupType'
  <2>1. event[e].order \in Order /\ Row' = Row
    BY <1>4, EventType DEF Row
  <2>2. topic' \in [Order -> Seq(Row)]
    BY <1>4, <2>1 DEF Publish, GroupType
  <2> QED BY <1>4, <2>1, <2>2 DEF GroupType
<1>5. ASSUME NEW e \in Row, SendSucceeds(r, e) PROVE TypeInv'
  BY <1>3, <1>4, <1>5 DEF SendSucceeds, OutboxType, ViewType, FaultType, Row
<1>6. ASSUME NEW e \in Row, SendRefused(r, e) PROVE TypeInv'
  BY <1>3, <1>6 DEF SendRefused, OutboxType, GroupType, ViewType, FaultType, Row
<1>7. ASSUME NEW e \in Row, SendUnacknowledged(r, e) PROVE TypeInv'
  BY <1>3, <1>4, <1>7, NumberAssumption
     DEF SendUnacknowledged, Fault, OutboxType, ViewType, FaultType, Row
<1>8. CASE MarkSent(r) \/ Release(r)
  <2>1. Row' = Row /\ sending[r] \in Row
    BY <1>8 DEF MarkSent, Release, Row, RelayType
  <2>2. OutboxType'
    BY <1>8, <2>1 DEF MarkSent, Release, OutboxType
  <2>3. RelayType'
    BY <1>8, <2>1 DEF MarkSent, Release, Done, RelayType
  <2> QED BY <1>8, <2>1, <2>2, <2>3 DEF MarkSent, Release, GroupType, ViewType, FaultType
<1>9. CASE CycleFails(r) \/ Crash(r)
  <2>1. Row' = Row
    BY <1>9 DEF CycleFails, Crash, Row
  <2>2. RelayType'
    BY <1>9, <2>1 DEF CycleFails, Crash, Forget, RelayType
  <2> QED BY <1>9, <2>1, <2>2, NumberAssumption
          DEF CycleFails, Crash, Fault, OutboxType, GroupType, ViewType, FaultType
<1> HIDE DEF TypeInv, api, outbox, relays, group, view
<1> QED BY <1>1, <1>2, <1>5, <1>6, <1>7, <1>8, <1>9 DEF Drain

LEMMA HandOrder ==
  ASSUME ViewType, NEW c \in Consumer, hand[c] # Nothing
  PROVE  /\ hand[c] \in [order : Order, id : Row, read : Row \cup {0}]
         /\ hand[c].order \in Order /\ hand[c].id \in Row
         /\ hand[c].read \in Row \cup {0}
BY DEF ViewType

LEMMA AdvanceType ==
  ASSUME GroupType, ViewType, NEW c \in Consumer, hand[c] # Nothing, Advance(c),
         UNCHANGED <<event, topic>>
  PROVE  GroupType' /\ hand' \in [Consumer -> {Nothing} \cup
                                    [order : Order, id : Row', read : Row' \cup {0}]]
<1>1. hand[c].order \in Order /\ Row' = Row
  BY HandOrder DEF Row
<1>2. hand' \in [Consumer -> {Nothing} \cup [order : Order, id : Row, read : Row \cup {0}]]
  BY DEF Advance, ViewType
<1>3. GroupType'
  <2>1. PICK o \in Order : o = hand[c].order
    BY <1>1
  <2>2. position' \in [Order -> Nat]
    BY <2>1 DEF Advance, GroupType
  <2>3. tries' \in [Order -> 0..MaxRetries]
    BY <2>1, NumberAssumption DEF Advance, GroupType
  <2> QED BY <1>1, <2>2, <2>3 DEF Advance, GroupType
<1> QED BY <1>1, <1>2, <1>3

LEMMA GroupStepType ==
  ASSUME TypeInv, NEW c \in Consumer, NEW o \in Order,
         Read(c, o) \/ Save(c) \/ HandlerFails(c) \/ Drop(c) \/ Rebalance(o, c) \/ Commit(o)
  PROVE  TypeInv'
<1> USE DEF TypeInv, api, outbox, relays, group, view
<1>1. Row' = Row /\ OutboxType' /\ RelayType' /\ broker' = broker
  BY DEF Read, Save, HandlerFails, Drop, Rebalance, Commit, OutboxType, RelayType, Row
<1>2. CASE Read(c, o)
  <2>1. topic[o][position[o] + 1] \in Row
    BY <1>2 DEF Read, GroupType
  <2>2. ViewType'
    BY <1>1, <1>2, <2>1 DEF Read, ViewType
  <2> QED BY <1>1, <1>2, <2>2 DEF Read, GroupType, FaultType
<1>3. CASE Save(c)
  <2>1. shown' \in [Order -> Row \cup {0}]
    BY <1>3, HandOrder DEF Save, ViewType
  <2> QED BY <1>1, <1>3, <2>1, AdvanceType DEF Save, ViewType, FaultType
<1>4. CASE HandlerFails(c)
  <2>1. GroupType'
    <3>1. hand[c].order \in Order
      BY <1>4, HandOrder DEF HandlerFails
    <3> QED BY <1>1, <1>4, <3>1, NumberAssumption DEF HandlerFails, GroupType
  <2>2. ViewType'
    BY <1>1, <1>4 DEF HandlerFails, ViewType
  <2> QED BY <1>1, <1>4, <2>1, <2>2, NumberAssumption DEF HandlerFails, KeepsFailing, Fault, FaultType
<1>5. CASE Drop(c)
  <2>1. dropped' \subseteq Row
    BY <1>5, HandOrder DEF Drop, ViewType
  <2> QED BY <1>1, <1>5, <2>1, AdvanceType, NumberAssumption DEF Drop, KeepsFailing, Fault, ViewType, FaultType
<1>6. CASE Rebalance(o, c)
  <2>1. GroupType'
    BY <1>1, <1>6, NumberAssumption DEF Rebalance, GroupType
  <2>2. ViewType'
    BY <1>1, <1>6 DEF Rebalance, ViewType, GroupType
  <2> QED BY <1>1, <1>6, <2>1, <2>2, NumberAssumption DEF Rebalance, Fault, FaultType
<1>7. CASE Commit(o)
  BY <1>1, <1>7 DEF Commit, GroupType, ViewType, FaultType
<1> QED BY <1>2, <1>3, <1>4, <1>5, <1>6, <1>7

LEMMA NextType == TypeInv /\ [Next]_vars => TypeInv'
<1> SUFFICES ASSUME TypeInv, [Next]_vars PROVE TypeInv'
  OBVIOUS
<1>1. ASSUME NEW o \in Order, Authorize(o) \/ Cancel(o) PROVE TypeInv'
  BY <1>1, AppendType DEF Authorize, Cancel
<1>2. ASSUME NEW r \in Relay,
             Boot(r) \/ Drain(r) \/ CycleFails(r) \/ Crash(r)
               \/ \E e \in Row : SendUnacknowledged(r, e)
      PROVE  TypeInv'
  BY <1>2, RelayStepType
<1>3. ASSUME NEW e \in Row, ClaimExpires(e) PROVE TypeInv'
  BY <1>3 DEF ClaimExpires, TypeInv, OutboxType, RelayType, GroupType, ViewType, FaultType,
              api, relays, group, view, Row
<1>4. ASSUME NEW c \in Consumer, Handle(c) \/ HandlerFails(c) \/ Drop(c)
             \/ \E o \in Order : Rebalance(o, c)
      PROVE  TypeInv'
  <2>1. ASSUME Save(c) \/ HandlerFails(c) \/ Drop(c) PROVE TypeInv'
    <3>1. hand[c].order \in Order
      BY <2>1, HandOrder DEF Save, HandlerFails, Drop, TypeInv
    <3> QED BY <2>1, <3>1, GroupStepType
  <2>2. ASSUME NEW o \in Order, Read(c, o) \/ Rebalance(o, c) PROVE TypeInv'
    BY <2>2, GroupStepType
  <2> QED BY <1>4, <2>1, <2>2 DEF Handle
<1>5. ASSUME NEW o \in Order, Commit(o) PROVE TypeInv'
  <2>1. PICK c \in Consumer : c = owner[o]
    BY DEF TypeInv, GroupType
  <2> QED BY <1>5, <2>1, GroupStepType
<1>6. CASE BrokerFails \/ BrokerReturns
  <2>1. FaultType'
    BY <1>6, NumberAssumption DEF BrokerFails, BrokerReturns, Fault, TypeInv, FaultType
  <2>2. UNCHANGED <<api, outbox, relays, topic, group, view>>
    BY <1>6 DEF BrokerFails, BrokerReturns
  <2> QED BY <2>1, <2>2
          DEF TypeInv, OutboxType, RelayType, GroupType, ViewType, api, outbox, relays,
              group, view, Row
<1>7. CASE UNCHANGED vars
  BY <1>7 DEF vars, TypeInv, OutboxType, RelayType, GroupType, ViewType, FaultType, Row
<1> QED BY <1>1, <1>2, <1>3, <1>4, <1>5, <1>6, <1>7 DEF Next

(* In every reachable state the variables have the types TypeOK gives.     *)
THEOREM TypeCorrect == Spec => []TypeOK
<1> QED BY InitType, NextType, TypeInvImplies, PTL DEF Spec

------------------------------------------------------------------------------
(* No event is lost.  The invariant also says it of the row a relay has    *)
(* sent and not yet marked.                                                *)

Published(e) == \E i \in 1..Len(topic[event[e].order]) : topic[event[e].order][i] = e

SentInv ==
  /\ \A e \in Row : row[e] = "SENT" => Published(e)
  /\ \A r \in Relay : outcome[r] = "sent" => Published(sending[r])

(* What Kafka holds, it keeps.                                             *)
LEMMA StaysPublished ==
  ASSUME TypeInv, NEW e \in Row, Published(e), UNCHANGED event,
         \/ UNCHANGED topic
         \/ \E d \in Row : Publish(d)
  PROVE  Published(e)'
<1>1. CASE UNCHANGED topic
  BY <1>1 DEF Published
<1>2. ASSUME NEW d \in Row, Publish(d) PROVE Published(e)'
  <2>1. PICK o \in Order : o = event[e].order
    BY EventType DEF TypeInv
  <2>2. PICK i \in 1..Len(topic[o]) : topic[o][i] = e
    BY <2>1 DEF Published
  <2>3. topic \in [Order -> Seq(Row)]
    BY DEF TypeInv, GroupType
  <2>4. i \in 1..Len(topic'[o]) /\ topic'[o][i] = e
    BY <1>2, <2>2, <2>3 DEF Publish
  <2> QED BY <2>1, <2>4 DEF Published
<1> QED BY <1>1, <1>2

LEMMA PublishPublishes ==
  ASSUME TypeInv, NEW e \in Row, Publish(e), UNCHANGED event
  PROVE  Published(e)'
<1>1. PICK o \in Order : o = event[e].order
  BY EventType DEF TypeInv
<1>2. topic \in [Order -> Seq(Row)]
  BY DEF TypeInv, GroupType
<1>3. /\ Len(topic'[o]) \in 1..Len(topic'[o])
      /\ topic'[o][Len(topic'[o])] = e
  BY <1>1, <1>2 DEF Publish
<1> QED BY <1>1, <1>3 DEF Published

LEMMA NextSent == TypeInv /\ SentInv /\ [Next]_vars => SentInv'
<1> SUFFICES ASSUME TypeInv, SentInv, [Next]_vars PROVE SentInv'
  OBVIOUS
<1>1. ASSUME NEW o \in Order, Authorize(o) \/ Cancel(o) PROVE SentInv'
  <2>1. PICK s \in {"AUTHORIZED", "CANCELLED"} : AppendOutbox(o, s)
    BY <1>1 DEF Authorize, Cancel
  <2>2. ASSUME NEW e \in Row, Published(e) PROVE Published(e)'
    BY <1>1, <2>1, <2>2, Appended DEF TypeInv, Authorize, Cancel, Published
  <2>3. \A e \in Row' \ Row : row'[e] = "NEW"
    <3>1. Len(event) \in Nat /\ Len(event') = Len(event) + 1 /\ row'[Len(event')] = "NEW"
      BY <2>1, Appended DEF TypeInv
    <3> QED BY <3>1 DEF Row
  <2>4. \A e \in Row : row'[e] = row[e]
    BY <2>1, Appended DEF TypeInv
  <2>5. UNCHANGED <<sending, outcome>>
    BY <1>1 DEF Authorize, Cancel, relays
  <2> QED BY <2>2, <2>3, <2>4, <2>5 DEF SentInv, TypeInv, RelayType
<1>2. ASSUME NEW r \in Relay, Drain(r) \/ \E e \in Row : SendUnacknowledged(r, e)
      PROVE  SentInv'
  <2>1. UNCHANGED event /\ (UNCHANGED topic \/ \E d \in Row : Publish(d))
    BY <1>2 DEF Drain, Claim, MarkSent, Release, SendSucceeds, SendRefused,
                SendUnacknowledged, api
  <2>2. \A e \in Row : Published(e) => Published(e)'
    BY <2>1, StaysPublished
  <2>3. Row' = Row
    BY <2>1 DEF Row
  <2>4. CASE Claim(r)
    BY <2>2, <2>3, <2>4 DEF Claim, SentInv, TypeInv, RelayType, relays
  <2>5. ASSUME NEW e \in Row,
               SendSucceeds(r, e) \/ SendRefused(r, e) \/ SendUnacknowledged(r, e)
        PROVE  SentInv'
    <3>1. SendSucceeds(r, e) => Published(e)'
      BY <2>1, PublishPublishes DEF SendSucceeds
    <3>2. UNCHANGED row
      BY <2>5 DEF SendSucceeds, SendRefused, SendUnacknowledged, outbox
    <3>3. ASSUME NEW q \in Relay, outcome'[q] = "sent" PROVE Published(sending[q])'
      <4>1. CASE q = r
        BY <2>5, <3>1, <3>3, <4>1
           DEF SendSucceeds, SendRefused, SendUnacknowledged, Ended, TypeInv, RelayType
      <4>2. CASE q # r
        <5>1. outcome'[q] = outcome[q] /\ sending'[q] = sending[q]
          BY <2>5, <4>2
             DEF SendSucceeds, SendRefused, SendUnacknowledged, Ended, TypeInv, RelayType
        <5> QED BY <2>2, <3>3, <5>1 DEF SentInv, TypeInv, RelayType
      <4> QED BY <4>1, <4>2
    <3> QED BY <2>2, <2>3, <3>2, <3>3 DEF SentInv
  <2>6. CASE MarkSent(r) \/ Release(r)
    <3>1. \A e \in Row : row'[e] = "SENT" => Published(e)'
      BY <2>2, <2>6 DEF MarkSent, Release, SentInv, TypeInv, OutboxType
    <3>2. \A q \in Relay : outcome'[q] = "sent" => Published(sending[q])'
      BY <2>2, <2>6 DEF MarkSent, Release, Done, SentInv, TypeInv, RelayType
    <3> QED BY <2>3, <3>1, <3>2 DEF SentInv
  <2> QED BY <1>2, <2>4, <2>5, <2>6 DEF Drain
<1>3. ASSUME NEW r \in Relay, CycleFails(r) \/ Crash(r) PROVE SentInv'
  <2>1. UNCHANGED <<event, row, topic>>
    BY <1>3 DEF CycleFails, Crash, api, outbox
  <2>2. \A q \in Relay : outcome'[q] = "sent" => outcome[q] = "sent" /\ sending'[q] = sending[q]
    BY <1>3 DEF CycleFails, Crash, Forget, TypeInv, RelayType
  <2>3. Row' = Row /\ \A e \in Row : Published(e) => Published(e)'
    BY <2>1 DEF Published, Row
  <2> QED BY <2>1, <2>2, <2>3 DEF SentInv, TypeInv, RelayType
<1>4. CASE UNCHANGED <<event, row, topic, sending, outcome>>
  BY <1>4 DEF SentInv, Published, Row
<1>5. ASSUME NEW o \in Order, Commit(o) PROVE UNCHANGED <<event, row, topic, sending, outcome>>
  BY <1>5 DEF Commit, api, outbox, relays
<1>6. ASSUME NEW r \in Relay, Boot(r) PROVE UNCHANGED <<event, row, topic, sending, outcome>>
  BY <1>6 DEF Boot, api, outbox, relays
<1>7. ASSUME NEW e \in Row, ClaimExpires(e)
      PROVE  UNCHANGED <<event, row, topic, sending, outcome>>
  BY <1>7 DEF ClaimExpires, api, relays
<1>8. ASSUME NEW c \in Consumer, Handle(c) \/ HandlerFails(c) \/ Drop(c)
             \/ \E o \in Order : Rebalance(o, c)
      PROVE  UNCHANGED <<event, row, topic, sending, outcome>>
  BY <1>8 DEF Handle, Read, Save, HandlerFails, Drop, Rebalance, api, outbox, relays
<1>9. CASE BrokerFails \/ BrokerReturns \/ UNCHANGED vars
  BY <1>4, <1>9 DEF BrokerFails, BrokerReturns, vars, api, outbox, relays
<1> QED BY <1>1, <1>2, <1>3, <1>4, <1>5, <1>6, <1>7, <1>8, <1>9 DEF Next

(* A row is marked SENT only when Kafka holds its record, however many     *)
(* relays run, die, overtake each other's claims and fail to send.         *)
THEOREM NothingIsLost == Spec => []SentIsPublished
<1>1. Init => SentInv
  BY DEF Init, SentInv, Row
<1>2. SentInv => SentIsPublished
  BY DEF SentInv, SentIsPublished, Published
<1> QED BY <1>1, <1>2, InitType, NextType, NextSent, PTL DEF Spec

------------------------------------------------------------------------------
(* The screen.  What keeps it right is that nobody else writes the         *)
(* projection between a consumer's read and its save: said below of every  *)
(* order that two consumers never had in hand at once.                     *)

(* What payment-api holds of an order, its events tell: an authorization,  *)
(* then cancellations.                                                     *)
EventInv ==
  /\ \A o \in Order :
       /\ payment[o] # "NONE" => \E e \in Row : event[e].order = o
       /\ payment[o] = "CANCELLED" =>
            \E e \in Row : event[e].order = o /\ event[e].status = "CANCELLED"
  /\ \A e \in Row :
       /\ payment[event[e].order] # "NONE"
       /\ event[e].status = "CANCELLED" => payment[event[e].order] = "CANCELLED"
  /\ \A d, e \in Row :
       d < e /\ event[d].order = event[e].order => event[e].status = "CANCELLED"

(* A record is of the order whose partition it lies in, in a consumer's    *)
(* hand and on the screen as well.                                         *)
TopicInv ==
  /\ \A o \in Order : \A i \in 1..Len(topic[o]) : event[topic[o][i]].order = o
  /\ \A o \in Order : shown[o] # 0 => event[shown[o]].order = o

OwnInv ==
  /\ TopicInv
  /\ \A c \in Consumer : hand[c] # Nothing => event[hand[c].id].order = hand[c].order

(* The record in the owner's hand is the next one.  While an order has not *)
(* been raced over, nobody else has it in hand, and the projection is      *)
(* still as it was read.                                                   *)
Alone(c) == \A d \in Consumer : d # c => hand[d].order # hand[c].order

HandInv ==
  \A c \in Consumer : hand[c] # Nothing =>
    /\ owner[hand[c].order] = c =>
         /\ position[hand[c].order] < Len(topic[hand[c].order])
         /\ hand[c].id = topic[hand[c].order][position[hand[c].order] + 1]
    /\ hand[c].order \notin raced => Alone(c) /\ hand[c].read = shown[hand[c].order]

(* Each record that was handled is dropped, or shown, or was outdated.     *)
HandledInv ==
  \A o \in Order :
    /\ committed[o] <= position[o]
    /\ position[o] <= Len(topic[o])
    /\ o \notin raced =>
         \A i \in 1..position[o] : topic[o][i] \in dropped \/ topic[o][i] <= shown[o]

ScreenInv == EventInv /\ OwnInv /\ HandInv /\ HandledInv

(* An authorization is an order's first event, a cancellation a later one. *)
LEMMA AppendEvents ==
  ASSUME TypeInv, EventInv, NEW o \in Order, NEW s \in {"AUTHORIZED", "CANCELLED"},
         AppendOutbox(o, s), payment' = [payment EXCEPT ![o] = s],
         s = "AUTHORIZED" <=> payment[o] = "NONE"
  PROVE  EventInv'
<1> DEFINE n == Len(event')
<1>1. /\ Len(event) \in Nat /\ n = Len(event) + 1
      /\ event'[n].order = o /\ event'[n].status = s
      /\ \A e \in Row : event'[e] = event[e]
  <2>1. OutboxType
    BY DEF TypeInv
  <2>2. event'[n] = [order |-> o, status |-> s]
    BY <2>1, Appended
  <2> HIDE DEF n
  <2>3. event'[n].order = o /\ event'[n].status = s
    BY <2>2
  <2> USE DEF n
  <2> QED BY <2>1, <2>3, Appended
<1>2. /\ \A e \in Row : e < n
      /\ Row' = Row \cup {n}
  BY <1>1 DEF Row
<1>3. payment' \in [Order -> {"NONE", "AUTHORIZED", "CANCELLED"}]
  BY DEF TypeInv, OutboxType
<1>4. \A e \in Row : event[e].order \in Order
  BY EventType DEF TypeInv
<1>5. ASSUME NEW k \in Order
      PROVE  /\ payment'[k] # "NONE" => \E e \in Row' : event'[e].order = k
             /\ payment'[k] = "CANCELLED" =>
                  \E e \in Row' : event'[e].order = k /\ event'[e].status = "CANCELLED"
  <2> HIDE DEF n
  <2>1. CASE k = o
    <3>1. payment'[k] = s
      BY <2>1 DEF TypeInv, OutboxType
    <3> QED BY <1>1, <1>2, <2>1, <3>1
  <2>2. CASE k # o
    <3>1. payment'[k] = payment[k]
      BY <2>2 DEF TypeInv, OutboxType
    <3> QED BY <1>1, <1>2, <3>1 DEF EventInv
  <2> QED BY <2>1, <2>2
<1>6. ASSUME NEW e \in Row'
      PROVE  /\ payment'[event'[e].order] # "NONE"
             /\ event'[e].status = "CANCELLED" => payment'[event'[e].order] = "CANCELLED"
  <2> HIDE DEF n
  <2>1. CASE e = n
    BY <1>1, <2>1 DEF TypeInv, OutboxType
  <2>2. CASE e \in Row
    <3>1. PICK k \in Order : k = event[e].order
      BY <1>4, <2>2
    <3>2. payment[k] # "NONE" /\ (event[e].status = "CANCELLED" => payment[k] = "CANCELLED")
      BY <2>2, <3>1 DEF EventInv
    <3>3. payment'[k] = IF k = o THEN s ELSE payment[k]
      BY DEF TypeInv, OutboxType
    <3> QED BY <1>1, <2>2, <3>1, <3>2, <3>3
  <2> QED BY <1>2, <2>1, <2>2
<1>7. ASSUME NEW d \in Row', NEW e \in Row', d < e, event'[d].order = event'[e].order
      PROVE  event'[e].status = "CANCELLED"
  <2> HIDE DEF n
  <2>1. d \in Row /\ d # n
    BY <1>1, <1>2, <1>7 DEF Row
  <2>2. CASE e \in Row
    BY <1>1, <1>7, <2>1, <2>2 DEF EventInv
  <2>3. CASE e = n
    <3>1. event[d].order = o
      BY <1>1, <1>7, <2>1, <2>3
    <3>2. payment[o] # "NONE"
      BY <2>1, <3>1 DEF EventInv
    <3> QED BY <1>1, <2>3, <3>2
  <2> QED BY <1>2, <2>2, <2>3
<1> HIDE DEF n
<1> QED BY <1>5, <1>6, <1>7 DEF EventInv

(* The rest of a step that leaves hands alone, or empties them.            *)
LEMMA LetGoOwn ==
  ASSUME TypeInv, OwnInv, UNCHANGED <<event, topic, shown>>,
         \A c \in Consumer : hand'[c] \in {hand[c], Nothing}
  PROVE  OwnInv'
BY DEF OwnInv, TopicInv

LEMMA AppendOwn ==
  ASSUME TypeInv, OwnInv, NEW o \in Order, NEW s \in {"AUTHORIZED", "CANCELLED"},
         AppendOutbox(o, s), UNCHANGED <<topic, shown, hand>>
  PROVE  OwnInv'
<1>1. \A e \in Row : event'[e] = event[e]
  BY Appended DEF TypeInv
<1>2. /\ \A k \in Order : \A i \in 1..Len(topic[k]) : topic[k][i] \in Row
      /\ \A k \in Order : shown[k] # 0 => shown[k] \in Row
  BY DEF TypeInv, GroupType, ViewType
<1>3. \A c \in Consumer : hand[c] # Nothing => hand[c].id \in Row
  BY HandOrder DEF TypeInv
<1> QED BY <1>1, <1>2, <1>3 DEF OwnInv, TopicInv

LEMMA PublishOwn ==
  ASSUME TypeInv, OwnInv, NEW e \in Row, Publish(e), UNCHANGED <<event, shown, hand>>
  PROVE  OwnInv'
<1>1. PICK o \in Order : o = event[e].order
  BY EventType DEF TypeInv
<1>2. ASSUME NEW k \in Order, NEW i \in 1..Len(topic'[k]) PROVE event[topic'[k][i]].order = k
  <2>1. topic[k] \in Seq(Row)
    BY DEF TypeInv, GroupType
  <2>2. topic'[k] = IF k = o THEN Append(topic[k], e) ELSE topic[k]
    BY <1>1 DEF Publish, TypeInv, GroupType
  <2>3. CASE i \in 1..Len(topic[k])
    <3>1. topic'[k][i] = topic[k][i]
      BY <2>1, <2>2, <2>3
    <3> QED BY <2>3, <3>1 DEF OwnInv, TopicInv
  <2>4. CASE i \notin 1..Len(topic[k])
    <3>1. k = o /\ topic'[k][i] = e
      BY <1>2, <2>1, <2>2, <2>4
    <3> QED BY <1>1, <3>1
  <2> QED BY <2>3, <2>4
<1> QED BY <1>2 DEF OwnInv, TopicInv

LEMMA ReadOwn ==
  ASSUME TypeInv, OwnInv, NEW c \in Consumer, NEW o \in Order, Read(c, o)
  PROVE  OwnInv'
<1>1. UNCHANGED <<event, topic, shown>>
  BY DEF Read, api
<1>2. position[o] + 1 \in 1..Len(topic[o])
  BY DEF Read, TypeInv, GroupType
<1>3. hand'[c].order = o /\ hand'[c].id = topic[o][position[o] + 1]
  BY DEF Read, TypeInv, ViewType
<1>4. \A d \in Consumer : d # c => hand'[d] = hand[d]
  BY DEF Read, TypeInv, ViewType
<1>5. event[hand'[c].id].order = hand'[c].order
  BY <1>2, <1>3 DEF OwnInv, TopicInv
<1> QED BY <1>1, <1>4, <1>5 DEF OwnInv, TopicInv

LEMMA SaveOwn ==
  ASSUME TypeInv, OwnInv, NEW c \in Consumer, Save(c)
  PROVE  OwnInv'
<1>1. /\ UNCHANGED <<event, topic>>
      /\ \A d \in Consumer : hand'[d] \in {hand[d], Nothing}
  BY DEF Save, Advance, api, TypeInv, ViewType
<1>2. \A o \in Order : shown'[o] # shown[o] => o = hand[c].order /\ shown'[o] = hand[c].id
  BY DEF Save, TypeInv, ViewType
<1>3. event[hand[c].id].order = hand[c].order
  BY DEF Save, OwnInv
<1>4. \A o \in Order : shown'[o] # 0 => event[shown'[o]].order = o
  BY <1>2, <1>3 DEF OwnInv, TopicInv
<1> QED BY <1>1, <1>4 DEF OwnInv, TopicInv

LEMMA NextOwn ==
  TypeInv /\ EventInv /\ OwnInv /\ [Next]_vars => EventInv' /\ OwnInv'
<1> SUFFICES ASSUME TypeInv, EventInv, OwnInv, [Next]_vars PROVE EventInv' /\ OwnInv'
  OBVIOUS
<1>1. ASSUME NEW o \in Order, Authorize(o) PROVE EventInv' /\ OwnInv'
  BY <1>1, AppendEvents, AppendOwn DEF Authorize, view
<1>2. ASSUME NEW o \in Order, Cancel(o) PROVE EventInv' /\ OwnInv'
  BY <1>2, AppendEvents, AppendOwn DEF Cancel, view
<1>3. ASSUME UNCHANGED api PROVE EventInv'
  BY <1>3 DEF EventInv, api, Row
<1>4. ASSUME UNCHANGED <<api, topic, view>> PROVE EventInv' /\ OwnInv'
  BY <1>3, <1>4, LetGoOwn DEF api, view
<1>5. ASSUME NEW r \in Relay, NEW e \in Row,
             SendSucceeds(r, e) \/ SendRefused(r, e) \/ SendUnacknowledged(r, e)
      PROVE  EventInv' /\ OwnInv'
  BY <1>3, <1>4, <1>5, PublishOwn DEF SendSucceeds, SendRefused, SendUnacknowledged, api, view
<1>6. ASSUME NEW r \in Relay, Boot(r) \/ Claim(r) \/ MarkSent(r) \/ Release(r)
                                \/ CycleFails(r) \/ Crash(r)
      PROVE  EventInv' /\ OwnInv'
  BY <1>4, <1>6 DEF Boot, Claim, MarkSent, Release, CycleFails, Crash
<1>7. ASSUME NEW e \in Row, ClaimExpires(e) PROVE EventInv' /\ OwnInv'
  BY <1>4, <1>7 DEF ClaimExpires
<1>8. ASSUME NEW c \in Consumer, NEW o \in Order, Read(c, o) PROVE EventInv' /\ OwnInv'
  BY <1>3, <1>8, ReadOwn DEF Read
<1>9. ASSUME NEW c \in Consumer, Save(c) PROVE EventInv' /\ OwnInv'
  BY <1>3, <1>9, SaveOwn DEF Save
<1>10. ASSUME NEW c \in Consumer, HandlerFails(c) \/ Drop(c) PROVE EventInv' /\ OwnInv'
  <2>1. UNCHANGED <<api, topic, shown>>
    BY <1>10 DEF HandlerFails, Drop
  <2>2. \A d \in Consumer : hand'[d] \in {hand[d], Nothing}
    BY <1>10 DEF HandlerFails, Drop, Advance, TypeInv, ViewType
  <2> QED BY <1>3, <2>1, <2>2, LetGoOwn DEF api
<1>11. ASSUME NEW c \in Consumer, NEW o \in Order, Rebalance(o, c) PROVE EventInv' /\ OwnInv'
  <2>1. UNCHANGED <<api, topic, shown>>
    BY <1>11 DEF Rebalance
  <2>2. \A d \in Consumer : hand'[d] \in {hand[d], Nothing}
    BY <1>11 DEF Rebalance, TypeInv, ViewType
  <2> QED BY <1>3, <2>1, <2>2, LetGoOwn DEF api
<1>12. ASSUME NEW o \in Order, Commit(o) PROVE EventInv' /\ OwnInv'
  BY <1>4, <1>12 DEF Commit
<1>13. CASE BrokerFails \/ BrokerReturns \/ UNCHANGED vars
  BY <1>4, <1>13 DEF BrokerFails, BrokerReturns, vars, api, view
<1> QED BY <1>1, <1>2, <1>5, <1>6, <1>7, <1>8, <1>9, <1>10, <1>11, <1>12, <1>13
        DEF Next, Drain, Handle
------------------------------------------------------------------------------
(* How a step leaves the hands and what was handled.                       *)

(* What Kafka appends leaves what was handled, and what is next, as is.    *)
LEMMA PublishHands ==
  ASSUME TypeInv, HandInv, HandledInv, NEW e \in Row, Publish(e), UNCHANGED <<group, view>>
  PROVE  HandInv' /\ HandledInv'
<1>1. PICK o \in Order : o = event[e].order
  BY EventType DEF TypeInv
<1>2. \A k \in Order : topic[k] \in Seq(Row) /\ position[k] \in Nat
  BY DEF TypeInv, GroupType
<1>3. topic' = [topic EXCEPT ![o] = Append(@, e)] /\ topic[o] \in Seq(Row)
  BY <1>1, <1>2 DEF Publish
<1>4. ASSUME NEW k \in Order
      PROVE  /\ Len(topic[k]) \in Nat /\ Len(topic'[k]) \in Nat
             /\ Len(topic[k]) <= Len(topic'[k])
             /\ \A i \in 1..Len(topic[k]) : topic'[k][i] = topic[k][i]
  <2>1. CASE k = o
    <3>1. topic'[k] = Append(topic[k], e)
      BY <1>3, <2>1 DEF TypeInv, GroupType
    <3> QED BY <1>2, <2>1, <3>1
  <2>2. CASE k # o
    <3>1. topic'[k] = topic[k]
      BY <1>3, <2>2 DEF TypeInv, GroupType
    <3> QED BY <1>2, <3>1
  <2> QED BY <2>1, <2>2
<1>5. HandInv'
  <2> SUFFICES ASSUME NEW c \in Consumer, hand[c] # Nothing
               PROVE  owner[hand[c].order] = c =>
                        /\ position[hand[c].order] < Len(topic'[hand[c].order])
                        /\ hand[c].id = topic'[hand[c].order][position[hand[c].order] + 1]
    BY DEF HandInv, Alone, group, view
  <2>1. PICK k \in Order : k = hand[c].order
    BY HandOrder DEF TypeInv
  <2>2. CASE owner[k] # c
    BY <2>1, <2>2
  <2>3. CASE owner[k] = c
    <3>1. position[k] < Len(topic[k]) /\ hand[c].id = topic[k][position[k] + 1]
      BY <2>1, <2>3 DEF HandInv
    <3>2. position[k] + 1 \in 1..Len(topic[k])
      BY <1>2, <1>4, <3>1
    <3> QED BY <1>2, <1>4, <2>1, <3>1, <3>2
  <2> QED BY <2>2, <2>3
<1>6. HandledInv'
  <2> SUFFICES ASSUME NEW k \in Order
               PROVE  /\ committed[k] <= position[k]
                      /\ position[k] <= Len(topic'[k])
                      /\ k \notin raced => \A i \in 1..position[k] :
                           topic'[k][i] \in dropped \/ topic'[k][i] <= shown[k]
    BY DEF HandledInv, group, view
  <2> QED BY <1>2, <1>4 DEF HandledInv
<1> QED BY <1>5, <1>6

(* Whoever takes a record of an order that another has in hand, races.     *)
LEMMA ReadHands ==
  ASSUME TypeInv, HandInv, HandledInv, NEW c \in Consumer, NEW o \in Order, Read(c, o)
  PROVE  HandInv' /\ HandledInv'
<1>1. UNCHANGED <<topic, position, committed, owner, shown, dropped>> /\ raced \subseteq raced'
  BY DEF Read, group
<1>2. /\ hand'[c].order = o /\ hand'[c].id = topic[o][position[o] + 1]
      /\ hand'[c].read = shown[o]
      /\ \A d \in Consumer : d # c => hand'[d] = hand[d]
      /\ position[o] < Len(topic[o])
  BY DEF Read, TypeInv, ViewType
<1>3. o \notin raced' => \A d \in Consumer : d # c => hand[d].order # o
  BY DEF Read
<1>4. HandInv'
  <2> SUFFICES ASSUME NEW d \in Consumer, hand'[d] # Nothing
               PROVE  /\ owner[hand'[d].order] = d =>
                           /\ position[hand'[d].order] < Len(topic[hand'[d].order])
                           /\ hand'[d].id = topic[hand'[d].order][position[hand'[d].order] + 1]
                      /\ hand'[d].order \notin raced' =>
                           Alone(d)' /\ hand'[d].read = shown[hand'[d].order]
    BY <1>1 DEF HandInv
  <2>1. CASE d = c
    BY <1>2, <1>3, <2>1 DEF Alone
  <2>2. CASE d # c
    <3>1. hand'[d] = hand[d]
      BY <1>2, <2>2
    <3>2. hand[d].order \notin raced' => Alone(d)'
      BY <1>1, <1>2, <1>3, <2>2, <3>1 DEF HandInv, Alone
    <3> QED BY <1>1, <3>1, <3>2 DEF HandInv
  <2> QED BY <2>1, <2>2
<1>5. HandledInv'
  BY <1>1 DEF HandledInv
<1> QED BY <1>4, <1>5

(* Hands that are emptied disturb nobody.                                  *)
LEMMA LetGoHands ==
  ASSUME TypeInv, HandInv, NEW d \in Consumer, hand'[d] = hand[d], hand[d] # Nothing,
         \A c \in Consumer : hand'[c] \in {hand[c], Nothing}
  PROVE  Alone(d) => Alone(d)'
<1>1. hand[d].order # NoConsumer
  BY HandOrder, ConsumerAssumption DEF TypeInv
<1> QED BY <1>1 DEF Alone, Nothing

(* The consumer saves the record in its hand, or gives it up: the owner    *)
(* goes on to the next, one that was cut off does not.                     *)
LEMMA AdvanceHands ==
  ASSUME TypeInv, HandInv, HandledInv, NEW c \in Consumer, Save(c) \/ Drop(c)
  PROVE  HandInv' /\ HandledInv'
<1>1. PICK o \in Order : o = hand[c].order
  BY HandOrder DEF Save, Drop, TypeInv
<1>2. /\ topic[o] \in Seq(Row) /\ position \in [Order -> Nat] /\ committed \in [Order -> Nat]
      /\ hand[c].id \in Row /\ hand[c].read \in Row \cup {0}
      /\ shown \in [Order -> Row \cup {0}] /\ owner[o] \in Consumer
      /\ hand[c] # Nothing
  BY HandOrder DEF Save, Drop, TypeInv, GroupType, ViewType
<1>3. /\ position' = IF owner[o] = c THEN [position EXCEPT ![o] = @ + 1] ELSE position
      /\ hand' = [hand EXCEPT ![c] = Nothing]
      /\ UNCHANGED <<topic, committed, owner, raced>>
  BY <1>1 DEF Save, Drop, Advance
<1>4. /\ dropped \subseteq dropped'
      /\ \A k \in Order : k # o => shown'[k] = shown[k]
      /\ shown'[o] \in {shown[o], hand[c].id}
      /\ o \notin raced => shown[o] <= shown'[o]
      /\ o \notin raced => hand[c].id \in dropped' \/ hand[c].id <= shown'[o]
  <2>1. hand[c].id \in Int /\ shown[o] \in Int /\ hand[c].read \in Int
    BY <1>2 DEF Row
  <2>2. CASE Save(c)
    <3>1. shown' = IF hand[c].read > hand[c].id THEN shown
                   ELSE [shown EXCEPT ![o] = hand[c].id]
      BY <1>1, <2>2 DEF Save, Stale
    <3>2. o \notin raced => hand[c].read = shown[o]
      BY <1>1, <1>2 DEF HandInv
    <3>3. dropped' = dropped
      BY <2>2 DEF Save
    <3> QED BY <1>2, <2>1, <3>1, <3>2, <3>3
  <2>3. CASE Drop(c)
    BY <2>1, <2>3 DEF Drop
  <2> QED BY <2>2, <2>3
<1>5. HandInv'
  <2> SUFFICES ASSUME NEW d \in Consumer, hand'[d] # Nothing
               PROVE  /\ owner[hand'[d].order] = d =>
                           /\ position'[hand'[d].order] < Len(topic[hand'[d].order])
                           /\ hand'[d].id = topic[hand'[d].order][position'[hand'[d].order] + 1]
                      /\ hand'[d].order \notin raced =>
                           Alone(d)' /\ hand'[d].read = shown'[hand'[d].order]
    BY <1>3 DEF HandInv
  <2>1. d # c /\ hand'[d] = hand[d]
    BY <1>3 DEF TypeInv, ViewType
  <2>2. PICK k \in Order : k = hand[d].order
    BY <2>1, HandOrder DEF TypeInv
  <2>3. owner[k] = d => position'[k] = position[k]
    BY <1>2, <1>3, <2>1
  <2>4. k \notin raced => k # o
    BY <1>1, <2>1, <2>2 DEF HandInv, Alone
  <2>5. k \notin raced => Alone(d)'
    <3>1. \A b \in Consumer : hand'[b] \in {hand[b], Nothing}
      BY <1>3 DEF TypeInv, ViewType
    <3> QED BY <2>1, <2>2, <3>1, LetGoHands DEF HandInv
  <2> QED BY <1>4, <2>1, <2>2, <2>3, <2>4, <2>5 DEF HandInv
<1>6. HandledInv'
  <2> SUFFICES ASSUME NEW k \in Order
               PROVE  /\ committed[k] <= position'[k]
                      /\ position'[k] <= Len(topic[k])
                      /\ k \notin raced => \A i \in 1..position'[k] :
                           topic[k][i] \in dropped' \/ topic[k][i] <= shown'[k]
    BY <1>3 DEF HandledInv
  <2>1. ASSUME NEW i \in 1..position[k], k \notin raced
        PROVE  topic[k][i] \in dropped' \/ topic[k][i] <= shown'[k]
    <3>1. topic[k] \in Seq(Row) /\ position[k] \in Nat /\ position[k] <= Len(topic[k])
      BY DEF TypeInv, GroupType, HandledInv
    <3>2. topic[k][i] \in Row
      BY <3>1
    <3>3. topic[k][i] \in Int /\ shown[k] \in Int /\ hand[c].id \in Int
      BY <1>2, <3>2 DEF Row
    <3>4. shown[k] <= shown'[k] /\ shown'[k] \in Int
      BY <1>4, <2>1, <3>3
    <3>5. topic[k][i] \in dropped \/ topic[k][i] <= shown[k]
      BY <2>1 DEF HandledInv
    <3> QED BY <1>4, <3>3, <3>4, <3>5
  <2>2. CASE k # o \/ owner[o] # c
    <3>1. position'[k] = position[k]
      BY <1>2, <1>3, <2>2
    <3> QED BY <2>1, <3>1 DEF HandledInv
  <2>3. CASE k = o /\ owner[o] = c
    <3>1. position'[o] = position[o] + 1 /\ committed[o] <= position[o]
      BY <1>2, <1>3, <2>3 DEF HandledInv
    <3>2. position[o] \in Nat /\ committed[o] \in Nat /\ Len(topic[o]) \in Nat
      BY <1>2
    <3>3. position[o] < Len(topic[o]) /\ hand[c].id = topic[o][position[o] + 1]
      BY <1>1, <1>2, <2>3 DEF HandInv
    <3>4. committed[o] <= position'[o] /\ position'[o] <= Len(topic[o])
      BY <3>1, <3>2, <3>3
    <3>5. \A i \in 1..position'[o] : i \in 1..position[o] \/ i = position[o] + 1
      BY <3>1, <3>2
    <3> QED BY <1>4, <2>1, <2>3, <3>3, <3>4, <3>5
  <2> QED BY <2>2, <2>3
<1> QED BY <1>5, <1>6(* The new owner reads on from the committed offset and has nothing of the *)
(* partition in hand; the old one is its owner no more.                    *)
LEMMA RebalanceHands ==
  ASSUME TypeInv, HandInv, HandledInv, NEW c \in Consumer, NEW o \in Order, Rebalance(o, c)
  PROVE  HandInv' /\ HandledInv'
<1>1. /\ UNCHANGED <<topic, committed, shown, dropped, raced>>
      /\ position' = [position EXCEPT ![o] = committed[o]]
      /\ owner' = [owner EXCEPT ![o] = c]
  BY DEF Rebalance
<1>2. /\ \A d \in Consumer : hand'[d] \in {hand[d], Nothing}
      /\ hand'[c] # Nothing => hand'[c].order # o
  BY DEF Rebalance, TypeInv, ViewType, GroupType
<1>3. HandInv'
  <2> SUFFICES ASSUME NEW d \in Consumer, hand'[d] # Nothing
               PROVE  /\ owner'[hand'[d].order] = d =>
                           /\ position'[hand'[d].order] < Len(topic[hand'[d].order])
                           /\ hand'[d].id = topic[hand'[d].order][position'[hand'[d].order] + 1]
                      /\ hand'[d].order \notin raced =>
                           Alone(d)' /\ hand'[d].read = shown[hand'[d].order]
    BY <1>1 DEF HandInv
  <2>1. hand'[d] = hand[d] /\ hand[d] # Nothing
    BY <1>2
  <2>2. PICK k \in Order : k = hand[d].order
    BY <2>1, HandOrder DEF TypeInv
  <2>3. owner'[k] = d => k # o /\ owner[k] = d
    BY <1>1, <1>2, <2>1, <2>2 DEF TypeInv, GroupType
  <2>4. k # o => position'[k] = position[k]
    BY <1>1 DEF TypeInv, GroupType
  <2>5. k \notin raced => Alone(d)'
    BY <1>2, <2>1, <2>2, LetGoHands DEF HandInv
  <2> QED BY <2>1, <2>2, <2>3, <2>4, <2>5 DEF HandInv
<1>4. HandledInv'
  BY <1>1 DEF HandledInv, TypeInv, GroupType
<1> QED BY <1>3, <1>4

LEMMA FailHands ==
  ASSUME TypeInv, HandInv, HandledInv, NEW c \in Consumer, HandlerFails(c)
  PROVE  HandInv' /\ HandledInv'
<1>1. UNCHANGED <<topic, position, committed, owner, shown, dropped, raced>>
  BY DEF HandlerFails
<1>2. \A d \in Consumer : hand'[d] \in {hand[d], Nothing}
  BY DEF HandlerFails, TypeInv, ViewType
<1>3. HandInv'
  <2> SUFFICES ASSUME NEW d \in Consumer, hand'[d] # Nothing
               PROVE  /\ owner[hand'[d].order] = d =>
                           /\ position[hand'[d].order] < Len(topic[hand'[d].order])
                           /\ hand'[d].id = topic[hand'[d].order][position[hand'[d].order] + 1]
                      /\ hand'[d].order \notin raced =>
                           Alone(d)' /\ hand'[d].read = shown[hand'[d].order]
    BY <1>1 DEF HandInv
  <2>1. hand'[d] = hand[d] /\ hand[d] # Nothing
    BY <1>2
  <2>2. Alone(d) => Alone(d)'
    BY <1>2, <2>1, LetGoHands
  <2> QED BY <2>1, <2>2 DEF HandInv
<1> QED BY <1>1, <1>3 DEF HandledInv

LEMMA CommitHands ==
  ASSUME TypeInv, HandInv, HandledInv, NEW o \in Order, Commit(o)
  PROVE  HandInv' /\ HandledInv'
<1>1. HandledInv'
  BY DEF Commit, HandledInv, TypeInv, GroupType, view
<1> QED BY <1>1 DEF Commit, HandInv, Alone, view

LEMMA NextScreen == TypeInv /\ ScreenInv /\ [Next]_vars => ScreenInv'
<1> SUFFICES ASSUME TypeInv, ScreenInv, [Next]_vars PROVE ScreenInv'
  OBVIOUS
<1>1. EventInv /\ OwnInv /\ HandInv /\ HandledInv
  BY DEF ScreenInv
<1>2. EventInv' /\ OwnInv'
  BY <1>1, NextOwn
<1>3. ASSUME UNCHANGED <<topic, group, view>> PROVE HandInv' /\ HandledInv'
  BY <1>1, <1>3 DEF HandInv, HandledInv, Alone, group, view
<1>4. ASSUME NEW o \in Order, Authorize(o) \/ Cancel(o) PROVE HandInv' /\ HandledInv'
  BY <1>3, <1>4 DEF Authorize, Cancel
<1>5. ASSUME NEW r \in Relay, NEW e \in Row,
             SendSucceeds(r, e) \/ SendRefused(r, e) \/ SendUnacknowledged(r, e)
      PROVE  HandInv' /\ HandledInv'
  BY <1>1, <1>3, <1>5, PublishHands DEF SendSucceeds, SendRefused, SendUnacknowledged
<1>6. ASSUME NEW r \in Relay, Boot(r) \/ Claim(r) \/ MarkSent(r) \/ Release(r)
                                \/ CycleFails(r) \/ Crash(r)
      PROVE  HandInv' /\ HandledInv'
  BY <1>3, <1>6 DEF Boot, Claim, MarkSent, Release, CycleFails, Crash
<1>7. ASSUME NEW e \in Row, ClaimExpires(e) PROVE HandInv' /\ HandledInv'
  BY <1>3, <1>7 DEF ClaimExpires
<1>8. ASSUME NEW c \in Consumer, \/ Save(c) \/ HandlerFails(c) \/ Drop(c)
                                 \/ \E o \in Order : Read(c, o) \/ Rebalance(o, c)
      PROVE  HandInv' /\ HandledInv'
  BY <1>1, <1>8, ReadHands, AdvanceHands, FailHands, RebalanceHands
<1>9. ASSUME NEW o \in Order, Commit(o) PROVE HandInv' /\ HandledInv'
  BY <1>1, <1>9, CommitHands
<1>10. ASSUME BrokerFails \/ BrokerReturns \/ UNCHANGED vars PROVE HandInv' /\ HandledInv'
  BY <1>3, <1>10 DEF BrokerFails, BrokerReturns, vars, group, view
<1>11. HandInv' /\ HandledInv'
  BY <1>4, <1>5, <1>6, <1>7, <1>8, <1>9, <1>10 DEF Next, Drain, Handle
<1> QED BY <1>2, <1>11 DEF ScreenInv

LEMMA ScreenInvariant == Spec => [](TypeInv /\ ScreenInv)
<1>1. Init => ScreenInv
  BY NumberAssumption
     DEF Init, ScreenInv, EventInv, OwnInv, TopicInv, HandInv, HandledInv, Row
<1> QED BY <1>1, InitType, NextType, NextScreen, PTL DEF Spec

(* However many consumers save what they once read, an order's screen      *)
(* never shows another order's event, nor an authorization or cancellation *)
(* that payment-api has not decided.                                       *)
OnlyDecided ==
  \A o \in Order :
    /\ shown[o] # 0 => event[shown[o]].order = o /\ payment[o] # "NONE"
    /\ ShownStatus(o) = "CANCELLED" => payment[o] = "CANCELLED"

THEOREM NothingIsMadeUp == Spec => []OnlyDecided
<1>1. TypeInv /\ ScreenInv => OnlyDecided
  <2> SUFFICES ASSUME TypeInv, ScreenInv, NEW o \in Order
               PROVE  /\ shown[o] # 0 => event[shown[o]].order = o /\ payment[o] # "NONE"
                      /\ ShownStatus(o) = "CANCELLED" => payment[o] = "CANCELLED"
    BY DEF OnlyDecided
  <2>1. shown[o] \in Row \cup {0}
    BY DEF TypeInv, ViewType
  <2> QED BY <2>1 DEF ScreenInv, OwnInv, TopicInv, EventInv, ShownStatus
<1> QED BY <1>1, ScreenInvariant, PTL

(* A committed offset skips nothing: each record before it was dropped to  *)
(* the dead letters, or the screen has come at least as far, unless two    *)
(* consumers have raced over the order.                                    *)
NothingSkipped ==
  \A o \in Order \ raced : \A i \in 1..committed[o] :
    i \in 1..Len(topic[o]) /\ (topic[o][i] \in dropped \/ topic[o][i] <= shown[o])

THEOREM CommitsAreEarned == Spec => []NothingSkipped
<1>1. TypeInv /\ ScreenInv => NothingSkipped
  <2> SUFFICES ASSUME TypeInv, ScreenInv, NEW o \in Order \ raced, NEW i \in 1..committed[o]
               PROVE  /\ i \in 1..Len(topic[o])
                      /\ topic[o][i] \in dropped \/ topic[o][i] <= shown[o]
    BY DEF NothingSkipped
  <2>1. /\ committed[o] \in Nat /\ position[o] \in Nat /\ Len(topic[o]) \in Nat
        /\ committed[o] <= position[o] /\ position[o] <= Len(topic[o])
    BY DEF TypeInv, GroupType, ScreenInv, HandledInv
  <2>2. i \in 1..position[o] /\ i \in 1..Len(topic[o])
    BY <2>1
  <2> QED BY <2>2 DEF ScreenInv, HandledInv
<1> QED BY <1>1, ScreenInvariant, PTL(* Once everything has come to rest and nothing was dropped, the screen    *)
(* shows what payment-api holds, whatever was repeated or reordered and    *)
(* whichever consumers took over, unless two have raced over the order.    *)
THEOREM RestIsRight == Spec => []QuietMeansShown
<1>1. TypeInv /\ SentInv /\ ScreenInv => QuietMeansShown
  <2> SUFFICES ASSUME TypeInv, SentInv, ScreenInv,
                      \A e \in Row : row[e] = "SENT",
                      \A o \in Order : position[o] = Len(topic[o]),
                      dropped = {},
                      NEW o \in Order \ raced
               PROVE  ShownStatus(o) = payment[o]
    BY DEF QuietMeansShown
  <2>1. /\ shown[o] \in Row \cup {0}
        /\ payment[o] \in {"NONE", "AUTHORIZED", "CANCELLED"}
        /\ topic[o] \in Seq(Row)
    BY DEF TypeInv, ViewType, OutboxType, GroupType
  <2>2. \A e \in Row : event[e].order = o => e <= shown[o]
    <3> SUFFICES ASSUME NEW e \in Row, event[e].order = o PROVE e <= shown[o]
      OBVIOUS
    <3>1. PICK i \in 1..Len(topic[o]) : topic[o][i] = e
      BY DEF SentInv, Published
    <3> QED BY <3>1 DEF ScreenInv, HandledInv
  <2>3. shown[o] # 0 => event[shown[o]].order = o
    BY DEF ScreenInv, OwnInv, TopicInv
  <2>4. CASE payment[o] = "NONE"
    BY <2>1, <2>3, <2>4 DEF ScreenInv, EventInv, ShownStatus
  <2>5. CASE payment[o] = "AUTHORIZED"
    <3>1. shown[o] # 0
      BY <2>1, <2>2, <2>5 DEF ScreenInv, EventInv, Row
    <3>2. event[shown[o]].status \in {"AUTHORIZED", "CANCELLED"}
      BY <2>1, <3>1, EventType DEF TypeInv
    <3> QED BY <2>1, <2>3, <2>5, <3>1, <3>2 DEF ScreenInv, EventInv, ShownStatus
  <2>6. CASE payment[o] = "CANCELLED"
    <3>1. PICK e \in Row : event[e].order = o /\ event[e].status = "CANCELLED"
      BY <2>6 DEF ScreenInv, EventInv
    <3>2. shown[o] \in Row /\ (shown[o] = e \/ e < shown[o])
      BY <2>1, <2>2, <3>1 DEF Row
    <3>3. event[shown[o]].status = "CANCELLED"
      BY <2>3, <3>1, <3>2 DEF ScreenInv, EventInv, Row
    <3> QED BY <2>6, <3>2, <3>3 DEF ShownStatus, Row
  <2> QED BY <2>1, <2>4, <2>5, <2>6
<1>2. Init => SentInv
  BY DEF Init, SentInv, Row
<1>3. Spec => []SentInv
  BY <1>2, InitType, NextType, NextSent, PTL DEF Spec
<1> QED BY <1>1, <1>3, ScreenInvariant, PTL

(* What changes the screen: a consumer, with an event of the same order, a *)
(* newer one unless the order was raced over.                              *)
LEMMA ShownMoves ==
  ASSUME TypeInv, ScreenInv, [Next]_vars
  PROVE  \/ UNCHANGED shown
         \/ \E o \in Order, e \in Row :
              /\ shown' = [shown EXCEPT ![o] = e]
              /\ shown[o] <= e \/ o \in raced
              /\ event[e].order = o
              /\ UNCHANGED <<api, raced>>
<1>1. ASSUME NEW c \in Consumer, Save(c), ~UNCHANGED shown
      PROVE  \E o \in Order, e \in Row :
               /\ shown' = [shown EXCEPT ![o] = e] /\ (shown[o] <= e \/ o \in raced)
               /\ event[e].order = o /\ UNCHANGED <<api, raced>>
  <2>1. PICK o \in Order, e \in Row : o = hand[c].order /\ e = hand[c].id
    BY <1>1, HandOrder DEF Save, TypeInv
  <2>2. event[e].order = o
    BY <1>1, <2>1 DEF Save, ScreenInv, OwnInv
  <2>3. o \notin raced => hand[c].read = shown[o]
    BY <1>1, <2>1 DEF Save, ScreenInv, HandInv
  <2>4. shown[o] \in Int /\ e \in Int
    BY DEF TypeInv, ViewType, Row
  <2>5. shown' = [shown EXCEPT ![o] = e] /\ ~(hand[c].read > e)
    BY <1>1, <2>1 DEF Save, Stale
  <2>6. UNCHANGED <<api, raced>>
    BY <1>1 DEF Save
  <2>7. shown[o] <= e \/ o \in raced
    BY <2>3, <2>4, <2>5
  <2> QED BY <2>2, <2>5, <2>6, <2>7
<1>2. ASSUME NEW o \in Order, Authorize(o) \/ Cancel(o) \/ Commit(o) PROVE UNCHANGED shown
  BY <1>2 DEF Authorize, Cancel, Commit, view
<1>3. ASSUME NEW r \in Relay, \/ Boot(r) \/ Drain(r) \/ CycleFails(r) \/ Crash(r)
                              \/ \E e \in Row : SendUnacknowledged(r, e)
      PROVE  UNCHANGED shown
  BY <1>3 DEF Boot, Drain, Claim, SendSucceeds, SendRefused, SendUnacknowledged, MarkSent,
              Release, CycleFails, Crash, view
<1>4. ASSUME NEW c \in Consumer, \/ HandlerFails(c) \/ Drop(c)
                                 \/ \E o \in Order : Read(c, o) \/ Rebalance(o, c)
      PROVE  UNCHANGED shown
  BY <1>4 DEF HandlerFails, Drop, Read, Rebalance
<1>5. ASSUME NEW e \in Row, ClaimExpires(e) PROVE UNCHANGED shown
  BY <1>5 DEF ClaimExpires, view
<1>6. ASSUME BrokerFails \/ BrokerReturns \/ UNCHANGED vars PROVE UNCHANGED shown
  BY <1>6 DEF BrokerFails, BrokerReturns, vars, view
<1> QED BY <1>1, <1>2, <1>3, <1>4, <1>5, <1>6 DEF Next, Handle

(* The comparison of times is enough, through repetition, reordering and   *)
(* takeovers, wherever two consumers have not raced.                       *)
THEOREM ScreenTurnsBackOnlyRaced == Spec => OnlyRacesGoBack
<1>1. TypeInv /\ ScreenInv /\ [Next]_vars
        => [\A o \in Order : shown'[o] >= shown[o] \/ o \in raced]_vars
  <2> SUFFICES ASSUME TypeInv, ScreenInv, [Next]_vars, NEW o \in Order, o \notin raced
               PROVE  shown'[o] >= shown[o]
    OBVIOUS
  <2>1. shown \in [Order -> Row \cup {0}] /\ shown[o] \in Int
    BY DEF TypeInv, ViewType, Row
  <2> QED BY <2>1, ShownMoves DEF Row
<1> QED BY <1>1, ScreenInvariant, PTL DEF Spec, OnlyRacesGoBack

------------------------------------------------------------------------------
(* Refinement.                                                             *)

(* Only a read tells of a race.                                            *)
LEMMA RacedMoves ==
  ASSUME TypeInv, [Next]_vars
  PROVE  \/ UNCHANGED raced
         \/ /\ UNCHANGED <<api, shown>>
            /\ \E o \in Order : raced' = raced \cup {o}
<1>1. ASSUME NEW c \in Consumer, NEW o \in Order, Read(c, o)
      PROVE  \/ UNCHANGED raced
             \/ /\ UNCHANGED <<api, shown>>
                /\ \E k \in Order : raced' = raced \cup {k}
  <2>1. raced' = raced \/ raced' = raced \cup {o}
    BY <1>1 DEF Read
  <2> QED BY <1>1, <2>1 DEF Read
<1>2. ASSUME NEW o \in Order, Authorize(o) \/ Cancel(o) \/ Commit(o) PROVE UNCHANGED raced
  BY <1>2 DEF Authorize, Cancel, Commit, view
<1>3. ASSUME NEW r \in Relay, \/ Boot(r) \/ Drain(r) \/ CycleFails(r) \/ Crash(r)
                              \/ \E e \in Row : SendUnacknowledged(r, e)
      PROVE  UNCHANGED raced
  BY <1>3 DEF Boot, Drain, Claim, SendSucceeds, SendRefused, SendUnacknowledged, MarkSent,
              Release, CycleFails, Crash, view
<1>4. ASSUME NEW c \in Consumer, \/ Save(c) \/ HandlerFails(c) \/ Drop(c)
                                 \/ \E o \in Order : Rebalance(o, c)
      PROVE  UNCHANGED raced
  BY <1>4 DEF Save, HandlerFails, Drop, Rebalance
<1>5. ASSUME NEW e \in Row, ClaimExpires(e) PROVE UNCHANGED raced
  BY <1>5 DEF ClaimExpires, view
<1>6. ASSUME BrokerFails \/ BrokerReturns \/ UNCHANGED vars PROVE UNCHANGED raced
  BY <1>6 DEF BrokerFails, BrokerReturns, vars, view
<1> QED BY <1>1, <1>2, <1>3, <1>4, <1>5, <1>6 DEF Next, Handle

LEMMA StepRefines ==
  TypeInv /\ ScreenInv /\ [Next]_vars => [Contract!Next]_(Contract!vars)
<1> SUFFICES ASSUME TypeInv, ScreenInv, [Next]_vars
             PROVE  Contract!Next \/ UNCHANGED Contract!vars
  OBVIOUS
<1> DEFINE screen == [o \in Order |-> ShownStatus(o)]
<1>1. /\ payment \in [Order -> {"NONE", "AUTHORIZED", "CANCELLED"}]
      /\ shown \in [Order -> Row \cup {0}]
  BY DEF TypeInv, OutboxType, ViewType
<1>2. ASSUME NEW o \in Order, Authorize(o) \/ Cancel(o)
      PROVE  Contract!Next \/ UNCHANGED Contract!vars
  <2>1. PICK s \in {"AUTHORIZED", "CANCELLED"} :
          /\ AppendOutbox(o, s) /\ payment' = [payment EXCEPT ![o] = s]
          /\ s = "AUTHORIZED" <=> payment[o] = "NONE"
    BY <1>2 DEF Authorize, Cancel
  <2>2. \A e \in Row : event'[e] = event[e]
    BY <2>1, Appended DEF TypeInv
  <2>3. UNCHANGED <<shown, raced>>
    BY <1>2 DEF Authorize, Cancel, view
  <2>4. UNCHANGED screen
    BY <1>1, <2>2, <2>3 DEF ShownStatus
  <2>5. CASE payment[o] = s
    <3>1. UNCHANGED payment
      BY <1>1, <2>1, <2>5
    <3> QED BY <2>3, <2>4, <3>1 DEF Contract!vars
  <2>6. CASE payment[o] # s
    <3>1. Contract!Decide(o)
      BY <1>1, <2>1, <2>3, <2>4, <2>6 DEF Contract!Decide
    <3> QED BY <3>1 DEF Contract!Next
  <2> QED BY <2>5, <2>6
<1>3. ASSUME UNCHANGED api, UNCHANGED shown PROVE UNCHANGED screen
  BY <1>3 DEF ShownStatus, api
<1>4. ASSUME NEW o \in Order, NEW e \in Row, shown' = [shown EXCEPT ![o] = e],
             shown[o] <= e \/ o \in raced, event[e].order = o, UNCHANGED <<api, raced>>
      PROVE  Contract!Next \/ UNCHANGED Contract!vars
  <2>1. screen' = [screen EXCEPT ![o] = event[e].status]
    <3>1. UNCHANGED event /\ e # 0
      BY <1>4 DEF api, Row
    <3> QED BY <1>1, <1>4, <3>1 DEF ShownStatus
  <2>2. screen[o] = ShownStatus(o) /\ UNCHANGED <<payment, raced>>
    BY <1>4 DEF api
  <2>3. event[e].status \in {"AUTHORIZED", "CANCELLED"} /\ payment[o] # "NONE"
        /\ (event[e].status = "CANCELLED" => payment[o] = "CANCELLED")
    BY <1>4, EventType DEF TypeInv, ScreenInv, EventInv
  <2>4. o \notin raced => ShownStatus(o) \in {"NONE", "AUTHORIZED", event[e].status}
    <3>1. CASE shown[o] = 0 \/ shown[o] = e
      BY <1>4, <3>1 DEF ShownStatus
    <3>2. CASE shown[o] # 0 /\ shown[o] # e /\ o \notin raced
      <4>1. shown[o] \in Row /\ shown[o] < e /\ event[shown[o]].order = o
        BY <1>1, <1>4, <3>2 DEF ScreenInv, OwnInv, TopicInv, Row
      <4>2. event[e].status = "CANCELLED"
        BY <1>4, <4>1 DEF ScreenInv, EventInv
      <4> QED BY <3>2, <4>1, <4>2, EventType DEF ShownStatus, TypeInv
    <3> QED BY <3>1, <3>2
  <2>5. CASE ShownStatus(o) = event[e].status
    <3>1. UNCHANGED screen
      BY <2>1, <2>2, <2>5
    <3> QED BY <2>2, <3>1 DEF Contract!vars
  <2>6. CASE ShownStatus(o) # event[e].status
    <3>1. /\ Contract!Rank(screen[o]) < Contract!Rank(event[e].status) \/ o \in raced
          /\ Contract!Rank(event[e].status) <= Contract!Rank(payment[o])
      BY <1>1, <2>2, <2>3, <2>4, <2>6 DEF Contract!Rank
    <3>2. Contract!Show(o)
      BY <2>1, <2>2, <2>3, <3>1 DEF Contract!Show
    <3> QED BY <3>2 DEF Contract!Next
  <2> QED BY <2>5, <2>6
<1>5. CASE ~UNCHANGED shown
  BY <1>4, <1>5, ShownMoves
<1>6. CASE UNCHANGED shown /\ ~UNCHANGED api
  <2>1. \E o \in Order : Authorize(o) \/ Cancel(o)
    BY <1>6
       DEF Next, Drain, Handle, Commit, Boot, CycleFails, Crash, SendUnacknowledged, Claim,
           MarkSent, Release, SendSucceeds, SendRefused, ClaimExpires, Save, Read,
           HandlerFails, Drop, Rebalance, BrokerFails, BrokerReturns, vars, api
  <2> QED BY <1>2, <2>1
<1>7. CASE UNCHANGED shown /\ UNCHANGED api
  <2>1. UNCHANGED screen /\ UNCHANGED payment
    BY <1>3, <1>7 DEF api
  <2>2. CASE UNCHANGED raced
    BY <2>1, <2>2 DEF Contract!vars
  <2>3. ASSUME NEW o \in Order, raced' = raced \cup {o} PROVE Contract!Next
    BY <2>1, <2>3 DEF Contract!Next, Contract!Race
  <2> QED BY <2>2, <2>3, RacedMoves
<1> QED BY <1>5, <1>6, <1>7

(* The order screen implements its contract: it shows what payment-api     *)
(* has decided or something earlier of the same order, and moves forward   *)
(* except over orders that two consumers have raced over.                  *)
THEOREM ScreenKeepsContract == Spec => ContractHolds
<1>1. Init => Contract!Init
  BY DEF Init, Contract!Init, ShownStatus
<1>2. TypeInv /\ ScreenInv /\ [Next]_vars => [Contract!Next]_(Contract!vars)
  BY StepRefines
<1> QED BY <1>1, <1>2, ScreenInvariant, PTL DEF Spec, ContractHolds, Contract!Spec
==============================================================================
