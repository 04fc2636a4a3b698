------------------------------- MODULE KafkaDemo -------------------------------
(***************************************************************************)
(* The Kafka order demo: an order and its outbox row are written in one    *)
(* transaction, relays (one per pod) claim the row and publish it, three   *)
(* consumer groups record what they did with the record, and the order is  *)
(* COMPLETED once all three have succeeded.  A record that keeps failing   *)
(* goes to the dead letter topic, whose listener declares the order        *)
(* FAILED.  Each method of KafkaDemoEventService is a transaction.         *)
(*                                                                         *)
(* A listener that loses its partition, late with its next poll, goes on   *)
(* with the records it has polled, beside the one that owns it now.        *)
(*                                                                         *)
(* All records of an order are alike and lie in one partition, so a topic  *)
(* is the number of records it holds for each order.                       *)
(***************************************************************************)
EXTENDS Naturals

CONSTANTS
  Order,
  Relay,      \* the pods of the monolith
  Nobody,     \* holds the row lock of an order when no one does
  FailMode,   \* the failures that orders ask for
  MaxRetries, \* app.kafka-demo.max-retries
  MaxFaults   \* bound on faults

ASSUME ModeAssumption ==
  FailMode \subseteq {"NONE", "NOTIFICATION_RETRY", "NOTIFICATION_ALWAYS_FAIL"}
ASSUME NumberAssumption == MaxRetries \in Nat /\ MaxFaults \in Nat

Consumer == {"INVENTORY", "NOTIFICATION", "ANALYTICS"}
Listener == Consumer \cup {"DLQ"}
Role == {"owner", "cutOff"}   \* of the partition
ASSUME NobodyAssumption == Nobody \notin Listener \X Role

VARIABLES
  failMode,  \* of each order
  status,    \* tb_kafka_demo_order.status
  result,    \* tb_kafka_demo_consumer_result.status
  attempts,  \* ... and its attempt_count
  lock,      \* who holds the order's row for update
  row,       \* tb_outbox_event.status
  expired,   \* claims older than CLAIM_TIMEOUT
  batch,     \* rows a relay claimed and has not dealt with
  sending,   \* where a relay is with a row
  records,   \* records in the order topic
  letters,   \* records in the dead letter topic
  position,  \* how many of them the owner has handled
  committed, \* the offset of the group
  left,      \* how many polled ones a cut-off listener still holds
  tries,     \* failed attempts at the next one
  at,        \* where a listener is with it
  seen,      \* the attempt_count recordDlq has read, {} if there was no row
  served,    \* history: consumers that have succeeded
  gaveUp,    \* history: listeners whose record became a dead letter
  undone,    \* history: consumers whose success a cut-off one has overwritten
  faults     \* faults so far

demo    == <<failMode, status, result, attempts>>
relays  == <<row, expired, batch, sending>>
cursor  == <<position, committed, left, tries>>
history == <<served, gaveUp, undone, faults>>
vars == <<failMode, status, result, attempts, lock, row, expired, batch, sending, records,
          letters, position, committed, left, tries, at, seen, served, gaveUp, undone,
          faults>>

Step == {"idle", "first", "again", "retry", "counting", "ready", "notReady", "dlq", "thrown"}

TypeOK ==
  /\ failMode \in [Order -> FailMode]
  /\ status \in [Order -> {"NONE", "ACCEPTED", "PUBLISHED", "COMPLETED", "FAILED"}]
  /\ result \in [Order -> [Consumer -> {"NONE", "RETRYING", "SUCCESS", "DLQ"}]]
  /\ attempts \in [Order -> [Consumer -> Nat]]
  /\ lock \in [Order -> (Consumer \X Role) \cup {Nobody}]
  /\ row \in [Order -> {"NONE", "NEW", "CLAIMED", "PUBLISHED"}]
  /\ expired \subseteq Order
  /\ batch \in [Relay -> SUBSET Order]
  /\ sending \in [Relay -> [Order -> {"claimed", "sent", "published"}]]
  /\ records \in [Order -> Nat]
  /\ letters \in [Order -> Nat]
  /\ position \in [Order -> [Listener -> Nat]]
  /\ committed \in [Order -> [Listener -> Nat]]
  /\ left \in [Order -> [Listener -> Nat]]
  /\ tries \in [Order -> [Listener -> [Role -> 0..MaxRetries]]]
  /\ at \in [Order -> [Listener -> [Role -> Step]]]
  /\ seen \in [Order -> [Role -> SUBSET Nat]]
  /\ served \in [Order -> SUBSET Consumer]
  /\ gaveUp \in [Order -> SUBSET Listener]
  /\ undone \in [Order -> SUBSET Consumer]
  /\ faults \in 0..MaxFaults

Init ==
  /\ failMode \in [Order -> FailMode]
  /\ status = [o \in Order |-> "NONE"]
  /\ result = [o \in Order |-> [c \in Consumer |-> "NONE"]]
  /\ attempts = [o \in Order |-> [c \in Consumer |-> 0]]
  /\ lock = [o \in Order |-> Nobody]
  /\ row = [o \in Order |-> "NONE"]
  /\ expired = {}
  /\ batch = [r \in Relay |-> {}]
  /\ sending = [r \in Relay |-> [o \in Order |-> "claimed"]]
  /\ records = [o \in Order |-> 0]
  /\ letters = [o \in Order |-> 0]
  /\ position = [o \in Order |-> [l \in Listener |-> 0]]
  /\ committed = [o \in Order |-> [l \in Listener |-> 0]]
  /\ left = [o \in Order |-> [l \in Listener |-> 0]]
  /\ tries = [o \in Order |-> [l \in Listener |-> [k \in Role |-> 0]]]
  /\ at = [o \in Order |-> [l \in Listener |-> [k \in Role |-> "idle"]]]
  /\ seen = [o \in Order |-> [k \in Role |-> {}]]
  /\ served = [o \in Order |-> {}]
  /\ gaveUp = [o \in Order |-> {}]
  /\ undone = [o \in Order |-> {}]
  /\ faults = 0

Fault == faults < MaxFaults /\ faults' = faults + 1

(* The order and its outbox row, in one transaction.                       *)
Create(o) ==
  /\ status[o] = "NONE"
  /\ status' = [status EXCEPT ![o] = "ACCEPTED"]
  /\ row' = [row EXCEPT ![o] = "NEW"]
  /\ UNCHANGED <<failMode, result, attempts, lock, expired, batch, sending, records, letters,
                 cursor, at, seen, history>>

------------------------------------------------------------------------------
(* KafkaDemoOutboxRelay, in each pod.                                      *)

Pending == {o \in Order : row[o] = "NEW"} \cup expired

(* One cycle takes up to 10 rows; the bounds leave fewer.                  *)
Claim(r) ==
  /\ batch[r] = {}
  /\ Pending # {}
  /\ batch' = [batch EXCEPT ![r] = Pending]
  /\ row' = [o \in Order |-> IF o \in Pending THEN "CLAIMED" ELSE row[o]]
  /\ expired' = {}
  /\ UNCHANGED <<demo, lock, sending, records, letters, cursor, at, seen, history>>

(* The relay deals with one row after the other, in any order.             *)
Current(r, o) == o \in batch[r] /\ \A k \in batch[r] \ {o} : sending[r][k] = "claimed"

Send(r, o) ==
  /\ Current(r, o)
  /\ sending[r][o] = "claimed"
  /\ records' = [records EXCEPT ![o] = @ + 1]
  /\ sending' = [sending EXCEPT ![r][o] = "sent"]
  /\ UNCHANGED <<demo, lock, row, expired, batch, letters, cursor, at, seen, history>>

MarkRow_Unsent(r, o) ==
  /\ Current(r, o)
  /\ sending[r][o] \in {"claimed", "sent"}
  /\ row' = [row EXCEPT ![o] = "PUBLISHED"]
  /\ expired' = expired \ {o}
  /\ sending' = [sending EXCEPT ![r][o] = "published"]
  /\ UNCHANGED <<demo, lock, batch, records, letters, cursor, at, seen, history>>

MarkRow(r, o) ==
  /\ o \in batch[r]
  /\ sending[r][o] = "sent"
  /\ row' = [row EXCEPT ![o] = "PUBLISHED"]
  /\ expired' = expired \ {o}
  /\ sending' = [sending EXCEPT ![r][o] = "published"]
  /\ UNCHANGED <<demo, lock, batch, records, letters, cursor, at, seen, history>>

MarkPublished_Unchecked(r, o) ==
  /\ o \in batch[r]
  /\ sending[r][o] = "published"
  /\ lock[o] = Nobody
  /\ status' = [status EXCEPT ![o] = "PUBLISHED"]
  /\ batch' = [batch EXCEPT ![r] = @ \ {o}]
  /\ sending' = [sending EXCEPT ![r][o] = "claimed"]
  /\ UNCHANGED <<failMode, result, attempts, lock, row, expired, records, letters, cursor, at,
                 seen, history>>

(* Waits for the order's row, which the consumers may have completed.      *)
MarkPublished(r, o) ==
  /\ o \in batch[r]
  /\ sending[r][o] = "published"
  /\ lock[o] = Nobody
  /\ status' = [status EXCEPT ![o] = IF @ = "ACCEPTED" THEN "PUBLISHED" ELSE @]
  /\ batch' = [batch EXCEPT ![r] = @ \ {o}]
  /\ sending' = [sending EXCEPT ![r][o] = "claimed"]
  /\ UNCHANGED <<failMode, result, attempts, lock, row, expired, records, letters, cursor, at,
                 seen, history>>

(* The send fails, or is given up after 5 s although the record gets       *)
(* there: the row is released.                                             *)
SendFails(r, o) ==
  /\ Current(r, o)
  /\ sending[r][o] = "claimed"
  /\ row' = [row EXCEPT ![o] = "NEW"]
  /\ expired' = expired \ {o}
  /\ batch' = [batch EXCEPT ![r] = @ \ {o}]
  /\ records' \in {records, [records EXCEPT ![o] = @ + 1]}
  /\ Fault
  /\ UNCHANGED <<demo, lock, sending, letters, cursor, at, seen, served, gaveUp, undone>>

(* The pod dies, or a database or Kafka client error that publish does not *)
(* catch leaves publishPending: what was claimed stays claimed.            *)
RelayFails(r) ==
  /\ batch[r] # {}
  /\ batch' = [batch EXCEPT ![r] = {}]
  /\ sending' = [sending EXCEPT ![r] = [o \in Order |-> "claimed"]]
  /\ Fault
  /\ UNCHANGED <<demo, lock, row, expired, records, letters, cursor, at, seen, served, gaveUp, undone>>

ClaimExpires(o) ==
  /\ row[o] = "CLAIMED"
  /\ o \notin expired
  /\ expired' = expired \cup {o}
  /\ UNCHANGED <<demo, lock, row, batch, sending, records, letters, cursor, at, seen, history>>

------------------------------------------------------------------------------
(* The listeners.                                                          *)

Goto(o, l, k, step) == at' = [at EXCEPT ![o][l][k] = step]

End(o, l) == IF l = "DLQ" THEN letters[o] ELSE records[o]
Has(o, l, k) == IF k = "owner" THEN position[o][l] < End(o, l) ELSE left[o][l] > 0

(* The listener returns: the container goes on to the next record.         *)
Handled(o, l, k) ==
  /\ IF k = "owner" THEN position' = [position EXCEPT ![o][l] = @ + 1] /\ UNCHANGED left
     ELSE left' = [left EXCEPT ![o][l] = @ - 1] /\ UNCHANGED position
  /\ tries' = [tries EXCEPT ![o][l][k] = 0]
  /\ UNCHANGED committed

(* The row of a result is written, and so held, from the count of a         *)
(* recordSuccess to its commit.                                            *)
RowFree(o, c) == \A k \in Role : at[o][c][k] \notin {"ready", "notReady"}

Retrying(o, c, k) ==
  /\ RowFree(o, c)
  /\ result' = [result EXCEPT ![o][c] = "RETRYING"]
  /\ undone' = IF k = "cutOff" /\ result[o][c] = "SUCCESS"
                 THEN [undone EXCEPT ![o] = @ \cup {c}] ELSE undone
  /\ UNCHANGED <<served, gaveUp, faults>>

(* recordAttempt.  Where two overlap, the second to insert fails           *)
(* (HandlerFails), and the second to update counts one less than here,      *)
(* which is 1 only where a dead letter has inserted the row and FAILED the  *)
(* order.                                                                  *)
RecordAttempt(o, c, k) ==
  /\ at[o][c][k] = "idle"
  /\ Has(o, c, k)
  /\ attempts' = [attempts EXCEPT ![o][c] = @ + 1]
  /\ Retrying(o, c, k)
  /\ Goto(o, c, k, IF attempts'[o][c] = 1 THEN "first" ELSE "again")
  /\ UNCHANGED <<failMode, status, lock, relays, records, letters, cursor, seen>>

(* The failures that the demo asks for.                                    *)
Forced(o, c, k) ==
  /\ c = "NOTIFICATION"
  /\ \/ failMode[o] = "NOTIFICATION_RETRY" /\ at[o][c][k] = "first"
     \/ failMode[o] = "NOTIFICATION_ALWAYS_FAIL"

RecordRetry(o, c, k) ==
  /\ at[o][c][k] \in {"first", "again"}
  /\ Forced(o, c, k)
  /\ Retrying(o, c, k)
  /\ Goto(o, c, k, "thrown")
  /\ UNCHANGED <<failMode, status, attempts, lock, relays, records, letters, cursor, seen>>

LockOrder_Unlocked(o, c, k) == UNCHANGED lock
LockOrder(o, c, k) ==
  /\ lock[o] = Nobody
  /\ lock' = [lock EXCEPT ![o] = <<c, k>>]

Unlock(o, l, k) == lock' = [lock EXCEPT ![o] = IF @ = <<l, k>> THEN Nobody ELSE @]

(* recordSuccess: completeIfReady locks the order's row ...                *)
BeginSuccess(o, c, k) ==
  /\ at[o][c][k] \in {"first", "again"}
  /\ ~Forced(o, c, k)
  /\ LockOrder(o, c, k)
  /\ Goto(o, c, k, "counting")
  /\ UNCHANGED <<demo, relays, records, letters, cursor, seen, history>>

AllSucceeded_Any(o, c) == \E d \in Consumer \ {c} : result[o][d] = "SUCCESS"
AllSucceeded(o, c) == \A d \in Consumer \ {c} : result[o][d] = "SUCCESS"

(* ... counts the successes, its own and those committed so far ...        *)
CountSuccess(o, c, k) ==
  /\ at[o][c][k] = "counting"
  /\ Goto(o, c, k, IF AllSucceeded(o, c) THEN "ready" ELSE "notReady")
  /\ UNCHANGED <<demo, lock, relays, records, letters, cursor, seen, history>>

(* ... and commits.                                                        *)
RecordSuccess(o, c, k) ==
  /\ at[o][c][k] \in {"ready", "notReady"}
  /\ result' = [result EXCEPT ![o][c] = "SUCCESS"]
  /\ status' = [status EXCEPT ![o] = IF at[o][c][k] = "ready" /\ @ # "FAILED"
                                       THEN "COMPLETED" ELSE @]
  /\ served' = [served EXCEPT ![o] = @ \cup {c}]
  /\ undone' = [undone EXCEPT ![o] = @ \ {c}]
  /\ Unlock(o, c, k)
  /\ Handled(o, c, k)
  /\ Goto(o, c, k, "idle")
  /\ UNCHANGED <<failMode, attempts, relays, records, letters, seen, gaveUp, faults>>

(* The dead letter listener takes every letter for NOTIFICATION's.  It     *)
(* reads the result ...                                                    *)
ReadDlq(o, k) ==
  /\ at[o]["DLQ"][k] = "idle"
  /\ Has(o, "DLQ", k)
  /\ seen' = [seen EXCEPT ![o][k] = IF result[o]["NOTIFICATION"] = "NONE"
                                      THEN {} ELSE {attempts[o]["NOTIFICATION"]}]
  /\ Goto(o, "DLQ", k, "dlq")
  /\ UNCHANGED <<demo, lock, relays, records, letters, cursor, history>>

(* ... and writes it back as a whole, or inserts one, and fails the order, *)
(* whatever its status, when the row is free.                              *)
RecordDlq(o, k) ==
  /\ at[o]["DLQ"][k] = "dlq"
  /\ lock[o] = Nobody
  /\ seen[o][k] = {} => result[o]["NOTIFICATION"] = "NONE"
  /\ result' = [result EXCEPT ![o]["NOTIFICATION"] = "DLQ"]
  /\ attempts' = [attempts EXCEPT ![o]["NOTIFICATION"] =
                    IF seen[o][k] = {} THEN 0 ELSE CHOOSE n \in seen[o][k] : TRUE]
  /\ status' = [status EXCEPT ![o] = "FAILED"]
  /\ seen' = [seen EXCEPT ![o][k] = {}]
  /\ Handled(o, "DLQ", k)
  /\ Goto(o, "DLQ", k, "idle")
  /\ UNCHANGED <<failMode, lock, relays, records, letters, history>>

(* unique (order_id, consumer_name): the insert comes too late.            *)
RecordDlqConflict(o, k) ==
  /\ at[o]["DLQ"][k] = "dlq"
  /\ seen[o][k] = {}
  /\ result[o]["NOTIFICATION"] # "NONE"
  /\ Goto(o, "DLQ", k, "thrown")
  /\ UNCHANGED <<demo, lock, relays, records, letters, cursor, seen, history>>

Forget(o, l, k) == seen' = IF l = "DLQ" THEN [seen EXCEPT ![o][k] = {}] ELSE seen

(* A record that keeps failing is one fault, however often it is tried.    *)
KeepsFailing(o, l, k) ==
  /\ IF tries[o][l][k] = 0 THEN Fault ELSE UNCHANGED faults
  /\ UNCHANGED <<served, gaveUp, undone>>

(* A transaction of the handler fails.                                     *)
HandlerFails(o, l, k) ==
  /\ at[o][l][k] # "thrown"
  /\ at[o][l][k] = "idle" => Has(o, l, k)
  /\ Goto(o, l, k, "thrown")
  /\ Unlock(o, l, k)
  /\ Forget(o, l, k)
  /\ KeepsFailing(o, l, k)
  /\ UNCHANGED <<demo, relays, records, letters, cursor>>

(* DefaultErrorHandler: try again, up to MaxRetries times ...              *)
Retry(o, l) ==
  /\ at[o][l]["owner"] = "thrown"
  /\ tries[o][l]["owner"] < MaxRetries
  /\ tries' = [tries EXCEPT ![o][l]["owner"] = @ + 1]
  /\ Goto(o, l, "owner", "idle")
  /\ UNCHANGED <<demo, lock, relays, records, letters, position, committed, left, seen,
                 history>>

(* ... but the poll that would bring the record again is where a cut-off   *)
(* listener learns that the partition is gone.                             *)
LetGo(o, l) ==
  /\ left' = [left EXCEPT ![o][l] = 0]
  /\ tries' = [tries EXCEPT ![o][l]["cutOff"] = 0]
  /\ Goto(o, l, "cutOff", "idle")
  /\ UNCHANGED <<position, committed>>
DropRetry(o, l) ==
  /\ at[o][l]["cutOff"] = "thrown"
  /\ tries[o][l]["cutOff"] < MaxRetries
  /\ LetGo(o, l)
  /\ UNCHANGED <<demo, lock, relays, records, letters, seen, history>>

Recover_Lost(o, l, k) ==
  /\ at[o][l][k] = "thrown"
  /\ tries[o][l][k] = MaxRetries
  /\ Handled(o, l, k)
  /\ Goto(o, l, k, "idle")
  /\ UNCHANGED <<demo, lock, relays, records, letters, seen, history>>

(* ... and then a dead letter, also when it was a dead letter that failed. *)
(* The records after it are polled again.                                  *)
Recover(o, l, k) ==
  /\ at[o][l][k] = "thrown"
  /\ tries[o][l][k] = MaxRetries
  /\ letters' = [letters EXCEPT ![o] = @ + 1]
  /\ gaveUp' = [gaveUp EXCEPT ![o] = @ \cup {l}]
  /\ IF k = "owner" THEN Handled(o, l, k) /\ Goto(o, l, k, "idle") ELSE LetGo(o, l)
  /\ UNCHANGED <<demo, lock, relays, records, seen, served, undone, faults>>

CommitOffset(o, l) ==
  /\ committed[o][l] < position[o][l]
  /\ committed' = [committed EXCEPT ![o][l] = position[o][l]]
  /\ UNCHANGED <<demo, lock, relays, records, letters, position, left, tries, at, seen,
                 history>>

(* The owner dies or loses the partition: another listener reads on from   *)
(* the committed offset.  One that lives keeps the records it has polled    *)
(* and its place in the handler.  Bound: one cut-off listener at a time.    *)
Dies(o, l) ==
  /\ UNCHANGED left
  /\ at' = [at EXCEPT ![o][l]["owner"] = "idle"]
  /\ tries' = [tries EXCEPT ![o][l]["owner"] = 0]
  /\ Unlock(o, l, "owner")
  /\ seen' = IF l = "DLQ" THEN [seen EXCEPT ![o]["owner"] = {}] ELSE seen

GoesOn(o, l) ==
  /\ at[o][l]["owner"] = "idle" => tries[o][l]["owner"] = 0
  /\ \E n \in 1..(End(o, l) - position[o][l]) : left' = [left EXCEPT ![o][l] = n]
  /\ at' = [at EXCEPT ![o][l] = [owner |-> "idle", cutOff |-> @["owner"]]]
  /\ tries' = [tries EXCEPT ![o][l] = [owner |-> 0, cutOff |-> @["owner"]]]
  /\ lock' = [lock EXCEPT ![o] = IF @ = <<l, "owner">> THEN <<l, "cutOff">> ELSE @]
  /\ seen' = IF l = "DLQ" THEN [seen EXCEPT ![o] = [owner |-> {}, cutOff |-> @["owner"]]]
             ELSE seen

Rebalance(o, l) ==
  /\ left[o][l] = 0
  /\ \/ at[o][l]["owner"] # "idle" \/ committed[o][l] < position[o][l]
     \/ tries[o][l]["owner"] > 0 \/ Has(o, l, "owner")
  /\ position' = [position EXCEPT ![o][l] = committed[o][l]]
  /\ Dies(o, l) \/ GoesOn(o, l)
  /\ Fault
  /\ UNCHANGED <<demo, relays, records, letters, committed, served, gaveUp, undone>>

------------------------------------------------------------------------------
Publish(r) == Claim(r) \/ \E o \in Order : Send(r, o) \/ MarkRow(r, o) \/ MarkPublished(r, o)

TryAgain(o, l, k) ==
  \/ IF k = "owner" THEN Retry(o, l) ELSE DropRetry(o, l)
  \/ Recover(o, l, k)

Consume(o, c, k) ==
  \/ RecordAttempt(o, c, k) \/ RecordRetry(o, c, k)
  \/ BeginSuccess(o, c, k) \/ CountSuccess(o, c, k) \/ RecordSuccess(o, c, k)
  \/ TryAgain(o, c, k)

ConsumeDlq(o, k) ==
  \/ ReadDlq(o, k) \/ RecordDlq(o, k) \/ RecordDlqConflict(o, k)
  \/ TryAgain(o, "DLQ", k)

Next ==
  \/ \E o \in Order : Create(o) \/ ClaimExpires(o)
  \/ \E r \in Relay : Publish(r) \/ RelayFails(r) \/ \E o \in Order : SendFails(r, o)
  \/ \E o \in Order, k \in Role :
       \/ ConsumeDlq(o, k)
       \/ \E c \in Consumer : Consume(o, c, k)
       \/ \E l \in Listener : HandlerFails(o, l, k)
  \/ \E o \in Order, l \in Listener : CommitOffset(o, l) \/ Rebalance(o, l)

Spec == Init /\ [][Next]_vars

(* The relays poll for ever, time passes, the listeners loop.  A consumer   *)
(* that waits for an order's row gets it, for with finitely many faults the *)
(* others come to lock it finitely often.                                  *)
FairSpec ==
  /\ Spec
  /\ \A r \in Relay : WF_vars(Publish(r))
  /\ \A o \in Order : WF_vars(ClaimExpires(o))
  /\ \A o \in Order, k \in Role :
       WF_vars(ConsumeDlq(o, k)) /\ \A c \in Consumer : WF_vars(Consume(o, c, k))

------------------------------------------------------------------------------
(* Properties.                                                             *)

(* Of consumers that finish at the same moment one sees that all have: an  *)
(* order all three have succeeded with is not left open.                   *)
NotLeftOpen ==
  \A o \in Order :
    (lock[o] = Nobody /\ \A c \in Consumer : result[o][c] = "SUCCESS")
      => status[o] \in {"COMPLETED", "FAILED"}

(* When nothing is left to do for an order it is settled: once its row is  *)
(* published, the consumers have handled every record and the listener of  *)
(* the dead letters every letter, though relays repeated records, handlers *)
(* gave up and consumers fell back to their committed offsets.  The one    *)
(* exception is a success that the late attempt of a cut-off consumer has   *)
(* overwritten, see AllServedIsSettled.                                    *)
Quiet(o) ==
  /\ row[o] = "PUBLISHED"
  /\ \A l \in Listener : position[o][l] = End(o, l)
Ended(o) == status[o] \in {"COMPLETED", "FAILED"}
QuietMeansSettled == \A o \in Order : Quiet(o) => Ended(o) \/ undone[o] # {}

(* An order moves forward, and FAILED is final: the relay that marks it    *)
(* published late does not undo what the consumers did.                    *)
Rank(s) == CASE s = "NONE" -> 0 [] s = "ACCEPTED" -> 1 [] s = "PUBLISHED" -> 2
             [] s = "COMPLETED" -> 3 [] s = "FAILED" -> 4
NeverGoesBack == [][\A o \in Order : Rank(status'[o]) >= Rank(status[o])]_vars

(* Each change of an order's status is earned: none is published before    *)
(* its event is in the topic, none completed without all three consumers,  *)
(* and none failed unless one of them gave a record up, however letters    *)
(* of letters, repeated records and late updates mix.                      *)
Contract == INSTANCE DemoContract
  WITH sent <- {o \in Order : records[o] > 0},
       gaveUp <- [o \in Order |-> gaveUp[o] \cap Consumer]
ContractHolds == Contract!Spec

(* Every order comes to an end, through failed sends, dead relays, crashed *)
(* and cut-off consumers and failed handlers, unless the success of one    *)
(* stays overwritten by a cut-off consumer's attempt.                      *)
EveryOrderSettles ==
  \A o \in Order : <>[](undone[o] = {}) => (status[o] = "ACCEPTED" ~> Ended(o))

(* KafkaDemoEventServiceIntegrationTest.java:42: when the required         *)
(* consumers have all succeeded the order is COMPLETED (or a dead letter   *)
(* has failed it), at the latest when nobody is at work on it any more.    *)
AllServedIsSettled ==
  \A o \in Order :
    (Consumer \subseteq served[o] /\ Quiet(o) /\ \A l \in Listener : left[o][l] = 0)
      => Ended(o)

(* What recordDlq writes down (KafkaDemoConsumers.java:113): an event of   *)
(* NOTIFICATION was given up.  The code says so of any consumer's.         *)
DlqIsNotifications ==
  \A o \in Order : result[o]["NOTIFICATION"] = "DLQ" => "NOTIFICATION" \in gaveUp[o]
==============================================================================
