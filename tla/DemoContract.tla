----------------------------- MODULE DemoContract -----------------------------
(***************************************************************************)
(* The life of an order of the Kafka demo as its screen tells it, with     *)
(* nothing said of rows, offsets, locks, attempts or pods: what each       *)
(* change of the status presupposes.  KafkaDemo implements it.             *)
(***************************************************************************)
CONSTANTS
  Order,
  Consumer  \* those who have to handle an order

VARIABLES
  status,  \* what the screen shows of an order
  sent,    \* the orders whose event is in the topic
  served,  \* the consumers that have succeeded with it
  gaveUp   \* the consumers that have given a record of it up

vars == <<status, sent, served, gaveUp>>

Init ==
  /\ status = [o \in Order |-> "NONE"]
  /\ sent = {}
  /\ served = [o \in Order |-> {}]
  /\ gaveUp = [o \in Order |-> {}]

Accept(o) ==
  /\ status[o] = "NONE"
  /\ status' = [status EXCEPT ![o] = "ACCEPTED"]
  /\ UNCHANGED <<sent, served, gaveUp>>

Send(o) ==
  /\ status[o] # "NONE"
  /\ sent' = sent \cup {o}
  /\ UNCHANGED <<status, served, gaveUp>>

(* Later than the consumers, perhaps, and then of no effect.               *)
Publish(o) ==
  /\ status[o] = "ACCEPTED"
  /\ o \in sent
  /\ status' = [status EXCEPT ![o] = "PUBLISHED"]
  /\ UNCHANGED <<sent, served, gaveUp>>

(* A consumer succeeds, once or again.  Only with all of them does that    *)
(* complete the order, and not after it has failed.                        *)
Serve(o, c) ==
  /\ o \in sent
  /\ served' = [served EXCEPT ![o] = @ \cup {c}]
  /\ \/ UNCHANGED status
     \/ /\ served'[o] = Consumer
        /\ status[o] # "FAILED"
        /\ status' = [status EXCEPT ![o] = "COMPLETED"]
  /\ UNCHANGED <<sent, gaveUp>>

GiveUp(o, c) ==
  /\ o \in sent
  /\ gaveUp' = [gaveUp EXCEPT ![o] = @ \cup {c}]
  /\ UNCHANGED <<status, sent, served>>

(* What one consumer gave up fails the order, a completed one too.         *)
Fail(o) ==
  /\ gaveUp[o] # {}
  /\ status' = [status EXCEPT ![o] = "FAILED"]
  /\ UNCHANGED <<sent, served, gaveUp>>

Next ==
  \E o \in Order :
    \/ Accept(o) \/ Send(o) \/ Publish(o) \/ Fail(o)
    \/ \E c \in Consumer : Serve(o, c) \/ GiveUp(o, c)

Spec == Init /\ [][Next]_vars
==============================================================================
