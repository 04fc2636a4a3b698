------------------------------ MODULE EventRelay ------------------------------
(***************************************************************************)
(* How what payment-api decided reaches the order screen.  payment-api     *)
(* writes a payment and an outbox row in one transaction; relays, one in   *)
(* each of its pods, claim rows and publish them to Kafka outside of any   *)
(* transaction; PaymentEventConsumer of the monolith copies them into      *)
(* tb_payment_projection.  shipping-api, its relay and                     *)
(* ShippingEventConsumer are the same code over shipments, which are never *)
(* cancelled: the behaviours below in which Cancel does not occur.         *)
(*                                                                         *)
(* Events are numbered in the order of their occurredAt, which is          *)
(* updated_at of the payment row, set by the database clock.  A payment is *)
(* cancelled under an id that its authorization returned, so the two       *)
(* times of one order are in that order too.                               *)
(***************************************************************************)
EXTENDS Integers, Sequences, FiniteSets

CONSTANTS
  Order,       \* orders; each is a Kafka key, hence lies in one partition
  Relay,       \* the pods of payment-api
  Consumer,    \* the pods of the monolith, a consumer group
  NoConsumer,  \* "nobody" and "nothing in hand"
  CLAIM_LIMIT, \* rows claimed at once
  MaxRetries,  \* app.kafka-demo.max-retries
  MaxEvents,   \* bound on outbox rows
  MaxFaults    \* bound on faults

ASSUME ConsumerAssumption == NoConsumer \notin Consumer \cup Order
ASSUME NumberAssumption   == /\ CLAIM_LIMIT \in Nat \ {0}
                             /\ MaxRetries \in Nat
                             /\ MaxEvents \in Nat
                             /\ MaxFaults \in Nat

VARIABLES
  payment,   \* tb_payment.status of each order
  event,     \* tb_payment_outbox: what each row says
  row,       \* tb_payment_outbox.status of each row
  expired,   \* CLAIMED rows whose claimed_at is over CLAIM_TIMEOUT ago
  broker,    \* can Kafka be reached?
  mode,      \* of each pod: "down", "up", or "off", serving without a relay
  batch,     \* rows a relay claimed and has not dealt with
  sending,   \* the row it is at, 0 when between rows
  outcome,   \* how the send of that row ended
  topic,     \* what the partition holds for each order
  position,  \* how much of it the group has handled
  committed, \* the offset the group has committed
  owner,     \* the consumer that the partition is assigned to
  hand,      \* the record a consumer is handling, with the projection it read
  tries,     \* failed attempts at the next record
  shown,     \* tb_payment_projection: the event each order's row is copied from
  dropped,   \* events given up to the dead letter topic
  raced,     \* history: orders of which two consumers had a record in hand at once
  faults     \* faults so far

api      == <<payment, event>>
outbox   == <<row, expired>>
relays   == <<mode, batch, sending, outcome>>
group    == <<position, committed, owner, tries>>
view     == <<hand, shown, dropped, raced>>
vars == <<payment, event, row, expired, broker, mode, batch, sending, outcome, topic,
          position, committed, owner, hand, tries, shown, dropped, raced, faults>>

Row     == 1..Len(event)
Nothing == [order |-> NoConsumer, id |-> 0, read |-> 0]

TypeOK ==
  /\ payment \in [Order -> {"NONE", "AUTHORIZED", "CANCELLED"}]
  /\ event \in Seq([order : Order, status : {"AUTHORIZED", "CANCELLED"}])
  /\ row \in [Row -> {"NEW", "CLAIMED", "SENT"}]
  /\ expired \subseteq Row
  /\ broker \in {"up", "down"}
  /\ mode \in [Relay -> {"down", "up", "off"}]
  /\ batch \in [Relay -> SUBSET Row]
  /\ sending \in [Relay -> Row \cup {0}]
  /\ outcome \in [Relay -> {"none", "sent", "failed"}]
  /\ topic \in [Order -> Seq(Row)]
  /\ position \in [Order -> Nat]
  /\ committed \in [Order -> Nat]
  /\ owner \in [Order -> Consumer]
  /\ hand \in [Consumer -> {Nothing} \cup [order : Order, id : Row, read : Row \cup {0}]]
  /\ tries \in [Order -> 0..MaxRetries]
  /\ shown \in [Order -> Row \cup {0}]
  /\ dropped \subseteq Row
  /\ raced \subseteq Order
  /\ faults \in 0..MaxFaults

Init ==
  /\ payment = [o \in Order |-> "NONE"]
  /\ event = <<>>
  /\ row = <<>>
  /\ expired = {}
  /\ broker \in {"up", "down"}
  /\ mode = [r \in Relay |-> "down"]
  /\ batch = [r \in Relay |-> {}]
  /\ sending = [r \in Relay |-> 0]
  /\ outcome = [r \in Relay |-> "none"]
  /\ topic = [o \in Order |-> <<>>]
  /\ position = [o \in Order |-> 0]
  /\ committed = [o \in Order |-> 0]
  /\ owner \in [Order -> Consumer]
  /\ hand = [c \in Consumer |-> Nothing]
  /\ tries = [o \in Order |-> 0]
  /\ shown = [o \in Order |-> 0]
  /\ dropped = {}
  /\ raced = {}
  /\ faults = 0

Fault == faults < MaxFaults /\ faults' = faults + 1

------------------------------------------------------------------------------
(* payment-api: the payment and its event in one transaction.              *)

AppendOutbox(o, s) ==
  /\ Len(event) < MaxEvents
  /\ event' = Append(event, [order |-> o, status |-> s])
  /\ row' = Append(row, "NEW")

Serving == \E r \in Relay : mode[r] # "down"

(* on conflict (idempotency_key) do nothing: a repeated call finds the row *)
(* and leaves no second event.                                             *)
Authorize(o) ==
  /\ Serving
  /\ payment[o] = "NONE"
  /\ payment' = [payment EXCEPT ![o] = "AUTHORIZED"]
  /\ AppendOutbox(o, "AUTHORIZED")
  /\ UNCHANGED <<expired, broker, relays, topic, group, view, faults>>

Cancel_WithoutEvent(o) ==
  /\ Serving
  /\ payment[o] # "NONE"
  /\ payment' = [payment EXCEPT ![o] = "CANCELLED"]
  /\ UNCHANGED <<event, row, expired, broker, relays, topic, group, view, faults>>

(* A repeated cancellation writes a second event.                          *)
Cancel(o) ==
  /\ Serving
  /\ payment[o] # "NONE"
  /\ payment' = [payment EXCEPT ![o] = "CANCELLED"]
  /\ AppendOutbox(o, "CANCELLED")
  /\ UNCHANGED <<expired, broker, relays, topic, group, view, faults>>

------------------------------------------------------------------------------
(* A relay: start_relay, then drain_once for ever.                         *)

(* A pod starts.  Without a broker it serves on without a relay, and       *)
(* nothing starts one later.                                               *)
Boot(r) ==
  /\ mode[r] = "down"
  /\ mode' = [mode EXCEPT ![r] = IF broker = "up" THEN "up" ELSE "off"]
  /\ UNCHANGED <<api, outbox, broker, batch, sending, outcome, topic, group, view, faults>>

(* NEW rows and rows whose claimant let CLAIM_TIMEOUT pass, oldest first.  *)
Pending_NewOnly == {e \in Row : row[e] = "NEW"}
Pending    == {e \in Row : row[e] = "NEW"} \cup expired
Oldest(es) == {e \in es : Cardinality({d \in es : d < e}) < CLAIM_LIMIT}

Claim(r) ==
  /\ mode[r] = "up"
  /\ batch[r] = {}
  /\ Pending # {}
  /\ batch' = [batch EXCEPT ![r] = Oldest(Pending)]
  /\ row' = [e \in Row |-> IF e \in Oldest(Pending) THEN "CLAIMED" ELSE row[e]]
  /\ expired' = expired \ Oldest(Pending)
  /\ UNCHANGED <<api, broker, mode, sending, outcome, topic, group, view, faults>>

(* RETURNING lists the claimed rows in no particular order: the next one   *)
(* is any of them.                                                         *)
Ended(r, e, how) ==
  /\ e \in batch[r]
  /\ sending[r] = 0
  /\ sending' = [sending EXCEPT ![r] = e]
  /\ outcome' = [outcome EXCEPT ![r] = how]
Publish(e) == topic' = [topic EXCEPT ![event[e].order] = Append(@, e)]

SendSucceeds(r, e) ==
  /\ broker = "up"
  /\ Ended(r, e, "sent")
  /\ Publish(e)
  /\ UNCHANGED <<api, outbox, broker, mode, batch, group, view, faults>>

SendRefused_Unawaited(r, e) ==
  /\ broker = "down"
  /\ Ended(r, e, "sent")
  /\ UNCHANGED <<api, outbox, broker, mode, batch, topic, group, view, faults>>

(* Without a broker the send fails ...                                     *)
SendRefused(r, e) ==
  /\ broker = "down"
  /\ Ended(r, e, "failed")
  /\ UNCHANGED <<api, outbox, broker, mode, batch, topic, group, view, faults>>

(* ... and when the acknowledgement is lost it fails although the record   *)
(* was appended.                                                           *)
SendUnacknowledged(r, e) ==
  /\ Ended(r, e, "failed")
  /\ Publish(e)
  /\ Fault
  /\ UNCHANGED <<api, outbox, broker, mode, batch, group, view>>

Done(r) ==
  /\ batch' = [batch EXCEPT ![r] = @ \ {sending[r]}]
  /\ sending' = [sending EXCEPT ![r] = 0]
  /\ outcome' = [outcome EXCEPT ![r] = "none"]

(* mark_sent and release write by id, whoever claims the row by then.      *)
MarkSent(r) ==
  /\ outcome[r] = "sent"
  /\ row' = [row EXCEPT ![sending[r]] = "SENT"]
  /\ expired' = expired \ {sending[r]}
  /\ Done(r)
  /\ UNCHANGED <<api, broker, mode, topic, group, view, faults>>

Release(r) ==
  /\ outcome[r] = "failed"
  /\ row' = [row EXCEPT ![sending[r]] = "NEW"]
  /\ expired' = expired \ {sending[r]}
  /\ Done(r)
  /\ UNCHANGED <<api, broker, mode, topic, group, view, faults>>

Forget(r) ==
  /\ batch' = [batch EXCEPT ![r] = {}]
  /\ sending' = [sending EXCEPT ![r] = 0]
  /\ outcome' = [outcome EXCEPT ![r] = "none"]

(* A database error in drain_once ends the cycle; its rows stay CLAIMED.   *)
CycleFails(r) ==
  /\ batch[r] # {}
  /\ Forget(r)
  /\ Fault
  /\ UNCHANGED <<api, outbox, broker, mode, topic, group, view>>

(* The pod dies or is shut down, possibly between a send and mark_sent.    *)
Crash(r) ==
  /\ mode[r] # "down"
  /\ mode' = [mode EXCEPT ![r] = "down"]
  /\ Forget(r)
  /\ Fault
  /\ UNCHANGED <<api, outbox, broker, topic, group, view>>

(* A claim grows old, its claimant dead or not: the rows of a batch share  *)
(* one claimed_at and are sent one by one, each send waiting up to the     *)
(* producer's 40 s, each statement as long as the database takes.          *)
ClaimExpires(e) ==
  /\ row[e] = "CLAIMED"
  /\ e \notin expired
  /\ expired' = expired \cup {e}
  /\ UNCHANGED <<api, row, broker, relays, topic, group, view, faults>>

------------------------------------------------------------------------------
(* The consumer group.                                                     *)

(* The listener is given the next record and reads the projection, which   *)
(* another consumer may be about to write.                                 *)
Read(c, o) ==
  /\ hand[c] = Nothing
  /\ owner[o] = c
  /\ position[o] < Len(topic[o])
  /\ hand' = [hand EXCEPT ![c] = [order |-> o, id |-> topic[o][position[o] + 1],
                                  read |-> shown[o]]]
  /\ raced' = raced \cup {k \in {o} : \E d \in Consumer \ {c} : hand[d].order = k}
  /\ UNCHANGED <<api, outbox, broker, relays, topic, group, shown, dropped, faults>>

Stale_Unchecked(h) == FALSE
Stale(h) == h.read > h.id

(* The record is done with: the owner goes on to the next.                 *)
Advance(c) ==
  LET o == hand[c].order IN
  /\ hand' = [hand EXCEPT ![c] = Nothing]
  /\ IF owner[o] = c
       THEN /\ position' = [position EXCEPT ![o] = @ + 1]
            /\ tries' = [tries EXCEPT ![o] = 0]
       ELSE UNCHANGED <<position, tries>>
  /\ UNCHANGED <<committed, owner>>

(* The transaction commits.  save() merges: it writes the row, whatever    *)
(* the row has become since it was read.                                   *)
Save(c) ==
  LET h == hand[c] IN
  /\ h # Nothing
  /\ shown' = IF Stale(h) THEN shown ELSE [shown EXCEPT ![h.order] = h.id]
  /\ Advance(c)
  /\ UNCHANGED <<api, outbox, broker, relays, topic, dropped, raced, faults>>

(* A record that keeps failing is one fault, however often it is tried.    *)
KeepsFailing(o) == IF tries[o] = 0 THEN Fault ELSE UNCHANGED faults

(* The handler throws: the record is tried again, up to MaxRetries times.  *)
HandlerFails(c) ==
  LET o == hand[c].order IN
  /\ hand[c] # Nothing
  /\ owner[o] = c
  /\ tries[o] < MaxRetries
  /\ hand' = [hand EXCEPT ![c] = Nothing]
  /\ tries' = [tries EXCEPT ![o] = @ + 1]
  /\ KeepsFailing(o)
  /\ UNCHANGED <<api, outbox, broker, relays, topic, position, committed, owner,
                 shown, dropped, raced>>

(* ... and then goes to the dead letter topic, which nothing brings back.  *)
Drop(c) ==
  LET o == hand[c].order IN
  /\ hand[c] # Nothing
  /\ owner[o] = c
  /\ tries[o] = MaxRetries
  /\ dropped' = dropped \cup {hand[c].id}
  /\ Advance(c)
  /\ KeepsFailing(o)
  /\ UNCHANGED <<api, outbox, broker, relays, topic, shown, raced>>

Commit(o) ==
  /\ committed[o] < position[o]
  /\ committed' = [committed EXCEPT ![o] = position[o]]
  /\ UNCHANGED <<api, outbox, broker, relays, topic, position, owner, tries, view, faults>>

(* The partition is assigned anew and read again from the committed        *)
(* offset.  A consumer that was cut off without noticing has its database  *)
(* transaction still open; one that died has not.  It joins again only     *)
(* after its poll loop has come round, with nothing of it in hand.         *)
Rebalance(o, c) ==
  /\ c # owner[o] => hand[c].order # o
  /\ owner' = [owner EXCEPT ![o] = c]
  /\ position' = [position EXCEPT ![o] = committed[o]]
  /\ tries' = [tries EXCEPT ![o] = 0]
  /\ IF c = owner[o]
       THEN hand' = [hand EXCEPT ![c] = IF @.order = o THEN Nothing ELSE @]
       ELSE \E died \in BOOLEAN :
              hand' = IF died THEN [hand EXCEPT ![owner[o]] = Nothing] ELSE hand
  /\ Fault
  /\ UNCHANGED <<api, outbox, broker, relays, topic, committed, shown, dropped, raced>>

BrokerFails ==
  /\ broker = "up"
  /\ broker' = "down"
  /\ Fault
  /\ UNCHANGED <<api, outbox, relays, topic, group, view>>

BrokerReturns ==
  /\ broker = "down"
  /\ broker' = "up"
  /\ UNCHANGED <<api, outbox, relays, topic, group, view, faults>>

------------------------------------------------------------------------------
Drain(r) ==
  \/ Claim(r) \/ MarkSent(r) \/ Release(r)
  \/ \E e \in Row : SendSucceeds(r, e) \/ SendRefused(r, e)

Handle(c) == Save(c) \/ \E o \in Order : Read(c, o)

Next ==
  \/ \E o \in Order : Authorize(o) \/ Cancel(o) \/ Commit(o)
  \/ \E r \in Relay : \/ Boot(r) \/ Drain(r)
                      \/ CycleFails(r) \/ Crash(r)
                      \/ \E e \in Row : SendUnacknowledged(r, e)
  \/ \E e \in Row : ClaimExpires(e)
  \/ \E c \in Consumer : \/ Handle(c) \/ HandlerFails(c) \/ Drop(c)
                         \/ \E o \in Order : Rebalance(o, c)
  \/ BrokerFails \/ BrokerReturns

Spec == Init /\ [][Next]_vars

(* Pods are restarted, relays and listeners loop for ever, time passes and *)
(* the broker does not stay away.  Faults are finitely many, by MaxFaults. *)
FairSpec ==
  /\ Spec
  /\ \A r \in Relay : WF_vars(Boot(r)) /\ WF_vars(Drain(r))
  /\ \A e \in 1..MaxEvents : WF_vars(e \in Row /\ ClaimExpires(e))
  /\ \A c \in Consumer : WF_vars(Handle(c))
  /\ WF_vars(BrokerReturns)

------------------------------------------------------------------------------
(* Properties.                                                             *)

(* A row is marked SENT only when Kafka has its record: no relay loses an  *)
(* event, however sends fail, claims expire and relays die.                *)
SentIsPublished ==
  \A e \in Row : row[e] = "SENT" =>
    \E i \in 1..Len(topic[event[e].order]) : topic[event[e].order][i] = e

ShownStatus(o) == IF shown[o] = 0 THEN "NONE" ELSE event[shown[o]].status

(* When all is said and done the screen is right: with every row sent,     *)
(* every record handled and none dropped, it shows what payment-api holds, *)
(* although records may have come twice and in the wrong order, and their  *)
(* consumers been replaced.  Only an order that two consumers have had in  *)
(* hand at once may be left showing the past (NeverGoesBack).              *)
QuietMeansShown ==
  (/\ \A e \in Row : row[e] = "SENT"
   /\ \A o \in Order : position[o] = Len(topic[o])
   /\ \A c \in Consumer : hand[c] = Nothing
   /\ dropped = {})
  => \A o \in Order \ raced : ShownStatus(o) = payment[o]

(* The comparison of the two times keeps the screen from turning back, for *)
(* repeated and reordered records and when a consumer is cut off and       *)
(* another takes over: it fails only once both have had a record of the    *)
(* order in hand at the same time.                                         *)
OnlyRacesGoBack == [][\A o \in Order : shown'[o] >= shown[o] \/ o \in raced]_vars

(* What PaymentEventConsumer.java:54-55 says: a late record of the past    *)
(* does not turn the screen back.  The code breaks it with two consumers:  *)
(* one that was cut off saves over what its successor has shown.           *)
NeverGoesBack == [][\A o \in Order : shown'[o] >= shown[o]]_vars

(* A cancellation is shown in the end, if a relay keeps running, the       *)
(* record is not dropped and no two consumers race over the order.         *)
CancellationIsShown ==
  <>[](\E r \in Relay : mode[r] = "up") /\ [](dropped = {}) =>
    \A o \in Order : payment[o] = "CANCELLED" ~> ShownStatus(o) = "CANCELLED" \/ o \in raced

(* The screen keeps the promise ProjectionContract states.                 *)
Contract == INSTANCE ProjectionContract
              WITH shown <- [o \in Order |-> ShownStatus(o)]
ContractHolds == Contract!Spec

(* What relay.py:131-135 says: events that pile up while the broker is     *)
(* away go out when it is back.  The code breaks it: a pod that starts     *)
(* without a broker never gets a relay.                                    *)
PiledUpIsSent ==
  \A e \in 1..MaxEvents :
    (e \in Row /\ row[e] = "NEW") ~> (e \in Row /\ row[e] = "SENT")
==============================================================================
