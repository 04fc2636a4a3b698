# Verification of jay-wiki

TLA+ modules of the parts of jay-wiki whose correctness depends on interleaving,
failure and order, the TLC configurations that check them on small instances, and
TLAPS proofs for every value of their constants. Module names in `code font`;
Java paths are below `src/spring/src/main/java/cloud/leneu/jaywiki/`.

Contents: [inventory](#1-the-system), [modules](#2-modules-and-code),
[runs](#3-runs-bounds-and-fairness), [proofs](#4-proofs),
[disagreements found](#5-disagreements-found), [limits](#6-what-is-not-modelled),
[what is left](#7-what-is-left).

## 1. The system

A personal wiki and blog (Next.js front end, Spring Boot monolith, PostgreSQL, Redis,
Kafka, OpenSearch, MinIO, k3s) with a set of live demonstrations of distributed-systems
techniques. The wiki is rows and queries; what is hard is in the demonstrations and in the
small services beside the monolith. The monolith runs in two or more pods (the HPA's
`minReplicas` is 2), so every handler below runs concurrently in several processes.

| Component | State | Operations | Talks to | Hard behaviour | What makes it correct |
|---|---|---|---|---|---|
| **Order saga** `saga/OrderSagaService`, `OrderSagaSteps`, `PaymentClient`, `ShippingClient`, `SagaInventoryReplenisher`; `src/services/{payment,shipping}-api` | order, saga instance, step log, one inventory row per product; payments and shipments in two other databases | place an order: reserve, authorize, ship, confirm, or compensate; replenish the stock | HTTP with time limits to both services | answers that come late, never or twice; a pod that dies between steps; transactions that read and write back one row without a lock; two requests with one key | confirmed means paid and booked; failed leaves nothing that is not logged; one run per key; outcome final; stock adds up; every request answered |
| **Event relay** `payment_api/{db,relay}.py`, `shipping_api`'s twin, `saga/PaymentEventConsumer`, `ShippingEventConsumer` | outbox rows with claims, Kafka partitions and offsets, the projection rows | write a payment with its event; claim, publish, mark; consume into the projection | Kafka | relay dies after the send; claims that expire under a slow relay; duplicates and reordering; a consumer that has lost its partition and goes on; dead letters; no broker at start | no event lost; the screen turns back, or rests on the past, only where two consumers raced; a cancellation is shown in the end |
| **Kafka order demo** `kafka/*` | demo order, outbox row, a result row per consumer, order topic, dead letter topic | create, relay, three consumers, retry, dead letter | Kafka | three consumers finish at once; the relay's late status update; redelivery; a consumer that has lost its partition and goes on; a failing handler at every step | completed means served by all three; not left open; nothing left to handle means settled; status only advances; every order ends |
| **Chat waiting room** `chat/*` | Redis set of members, sorted set of waiting users, heartbeats, profiles; the sockets of each pod | connect, ping, disconnect, sweep of stale users, virtual users, reset | Redis (Lua scripts), WebSocket | handlers of many Redis calls interleave over pods; a pod or a call fails half way; ghosts | never over capacity; nobody twice; a free slot is owed to the queue; ghosts leave |
| **Omok server** `src/services/omok/server.js`, the seat-keeping part of `public/app.js` | rooms, seats, clocks, undo requests, results, snapshot file; each tab's connection and ticket | create, join, reconnect, take over a seat, move, undo, resign, rematch, leave, expire, save, restore | WebSocket, disk | half-open connections, late closes, takeovers, grace period, restart, room limit | seats, sockets and pages agree; the clock runs exactly in play; a result stands and is seen by both; changes survive a restart; nobody waits for ever |
| **HPA rehearsal** `ops/HpaRehearsalService`, its web route and panel | Redis lock, current and latest run, status of a run; the load Job, the replicas | start, cancel, and the polls that derive and store the status | Redis, Kubernetes API | viewers change state; a lock released without an owner check; polls overlap; a failed reading; an autoscaler that never goes below two replicas | one rehearsal at a time; a cancellation lasts; a rehearsal that did not scale ends as such |
| **Wiki articles and their sync** `wiki/ArticleService`, `src/scripts/wiki-sync.mjs` | article, revisions; manifest and files of a checkout, `sync-state.json`, backups, git | save, revert, delete; compare, pull, back up, push, record the base | PostgreSQL, HTTP, git | edits on both sides, also while the command runs; a command that dies between two writes | no text is lost; the base is true; a push replaces what is known; both sides agree in the end |
| **Blog posts and their sync** `blog/BlogContentSyncService`, `src/scripts/{blog-sync,publish-blog-drafts,publish-blog-post,stamp-blog-dates}.mjs` | post; draft with its stamp, a cache of comparisons | compare, publish, stamp; edit and delete on the admin screen | PostgreSQL (row lock), HTTP | an edit between comparison and publication; an answer that is lost; a cache keyed by a time | only what the draft has had is replaced; same means same |
| **Content sync command** `src/scripts/content-sync.mjs` | none of its own | both syncs, one after the other | the two above | one fails, the other goes on | as the two above |
| Wiki assets `wiki/asset/WikiAssetService` | asset rows, objects in MinIO | upload, attach, delete | PostgreSQL, MinIO | an object deleted before the commit | what an article refers to exists (not modelled) |
| Partner API rehearsal `domainlab/Partner*`, `partner-simulator` | a map of awaited callbacks | call, time out, accept a callback | HTTP | a late or forged callback | not modelled, see 6 |
| Authentication `auth/*` | revoked tokens, attempts and used codes in Redis | log in, out, verify | Redis | requests of one step | not modelled, see 6 |
| Blog CRUD, board, search, statistics, game scores, domain labs, alert drills, service control | single rows, indexes, counters | CRUD and queries | PostgreSQL, OpenSearch, Kubernetes | best-effort follow-up of a commit | not modelled, see 6 |
| Web front end, scripts, manifests, contents | none of the system's | | | | not modelled, see 6 |

How they interact: the saga and the event relay share the payment and shipment services.
The saga asks them over HTTP and keeps its own record; what the *screen* shows of them
comes through the event relay, later and on its own. The Kafka demo and the event relay
share the listener container factory (`kafka/KafkaDemoConfig`). `content-sync.mjs` runs the
wiki's and the blog's sync, which share neither a table nor a file; `ContentSync` composes them.
The chat room, the omok service and the HPA rehearsal are alone.
The two sides of the payment service are modelled apart: `OrderSaga` takes its database
(`payment`) to be changed by requests that may arrive late, twice or never; `EventRelay`
starts where that database changes. What the two have in common, the life of a payment
NONE, AUTHORIZED, CANCELLED, is a step of `OrderContract` (`Pay`, `Cancel`) and of
`ProjectionContract` (`Decide`), so what the screen shows in one is what the saga left
in the other.

## 2. Modules and code

`PROJECT.json` gives the lines of every definition. An action is a handler, or the piece of
a handler between two moments at which others can interfere: a database transaction, a
Redis command or script, a message sent or received. A definition with an underscore in
its name (`Leave_Unread`) is a plausible slip in the definition it precedes; the runs must
notice each of them. Every module numbers its bounds among the CONSTANTS.

### OrderSaga, OrderContract, OrderSaga_proofs
`status`, `ordered`, `steps` are the saga tables, `inventory` the stock row, `payment` and
`shipment` the participants' databases, `asked` the requests ever sent (they can arrive at
any later time and, being kept, any number of times; both participants refuse a second
one of a kind by their unique keys). `pc`, `req`, `seen`, `cause` are the request threads.

`OrderSagaService.run` is `Receive`, `StartFailed`, `StartRead`/`StartCommit` (the duplicate
key ends in `StartRollback`), `AuthorizeAccepted`/`Rejected`/`Unavailable`,
`RecordPaymentAuthorized`, `RequestAccepted`/`Rejected`/`Unavailable`,
`CancelAccepted`/`CancelFailed`/`CancelQuietly`, `CompensateRead`/`CompensateCommit`,
`ConfirmRead`/`ConfirmCommit`. A transaction over the stock row is two actions: PostgreSQL
runs READ COMMITTED, the entity has neither `@Version` nor a lock, so the row is read at
one moment and all its columns written at commit. `ReplenishRead`/`Replenish` do the same.
`PaymentAuthorize`, `PaymentCancel`, `ShippingRequest` are the participants acting on
what was sent. `Crash` kills a thread anywhere.

`OrderContract` is what a client and the participants are promised: an order is taken,
paid, cancelled, shipped, confirmed only with both participants holding it, or failed.
`OrderSaga` implements it (checked, and proved).

### EventRelay, ProjectionContract, EventRelay_proofs
`payment`, `event`, `row`, `expired` are `tb_payment` and `tb_payment_outbox`, rows
numbered in the order of `occurredAt`; `mode`, `batch`, `sending`, `outcome` the relay of
each pod; `topic`, `position`, `committed`, `owner`, `tries` the partition and the consumer
group; `hand` the record and the projection row a consumer has read; `shown` the projection; `raced` (history) the
orders of which two consumers have had a record in hand at once.
Actions: `Authorize`, `Cancel` (row and event in one transaction); `Boot` (line 141-144: one
attempt to reach the broker), `Claim`, `SendSucceeds`, `SendRefused`, `SendUnacknowledged`
(in the log, but reported failed), `MarkSent`, `Release`, `CycleFails`, `Crash`,
`ClaimExpires`; `Read`, `Save`, `HandlerFails`, `Drop`, `Commit`, `Rebalance`; `BrokerFails`,
`BrokerReturns`. A consumer that `Rebalance` cuts off without its noticing keeps what it has in hand and
saves it, beside its successor. `ProjectionContract` says that the screen lags, and goes back only for an order that was `raced`.
shipping-api and its consumer are the same code without `Cancel`.

### KafkaDemo, DemoContract, KafkaDemo_proofs
The order, its outbox row, the relays, three consumers and the dead letter listener, each
method of `KafkaDemoEventService` a transaction or, where it reads, waits for a row lock
and writes (`recordSuccess` with `completeIfReady`, `recordDlq`), several actions. All
records of one order are alike and in one partition: a topic is a count. Each listener has two roles: the owner of the
partition, and (`cutOff`) the one that lost it in a `Rebalance`, which goes on with the records it had polled (`left`), every
transaction of its handler included, until it has handled them or polls again (`LetGo`). `served`,
`gaveUp` and `undone` (successes that a cut-off one has overwritten) are history. `DemoContract` is the order's life without rows, offsets, locks or attempts: what each change of
its status presupposes, `Publish` the event in the topic, `Serve` with `COMPLETED` all three consumers, `Fail` one that gave up.

### ChatRoom, ChatRoom_proofs
`members`, `queue`, `beats`, `virtual` are the Redis keys every pod shares (`queue` is the sorted set in the order of its
scores, `Without` is `ZREM`); `sessions` and
`open` the sockets of a pod and whether a browser is still behind them; `job` the handler
each thread is in, and its next Redis call. `Connect`, `Ping`, `Disconnect`, `Vanish` are the
WebSocket handler; `SaveProfile`, `Heartbeat`, `Enter` are `join`; `Leave`, `ClearBeat`,
`ClearProfile`, `Promote` are `leave`; `StartSweep`, `ReadMembers`, `ReadQueue`, `Check`,
`Checked` the scheduled cleanup; `AddVirtualUsers`, `RemoveVirtualUsers`, `Scan`, `Delete` the
controller. `Fail` is a Redis call that throws, `Crash` a pod that dies, `Expire` the
heartbeat's time to live. Things the model makes visible and no promise forbids: a
newcomer can take a slot between the script that frees it and the promotion of the one
who waits; after a reset, or after the leave of an older socket of theirs, users who are
connected and keep pinging are in neither list until they connect again (a ping sets the
heartbeat only).

### OmokRoom, OmokRoom_proofs
The server is one thread: a message, a closed socket or a timer is one step, with every
helper it calls (`Clock`, `Finish`, `Away`, `Attach`, `FinishAbsent`, ...). `rooms` is the Map,
`at` is `ws.room`, `up` and `due` whether the server runs and a save is scheduled; `cur`,
`session` and `recorded` are a tab's socket, its ticket in `sessionStorage` and the results it
has received. A page may send any message at any time, so that a message sent from an old
picture is covered; what it is sent, it handles in the same step.
`Create`, `Join`, `Reconnect` (the page's own ticket), `Recover` (the list of kept
seats, also over a seat that is connected), `Leave`, `Move`, `UndoRequest`, `UndoRespond`, `Resign`,
`Rematch` are messages; `Lose`, `CloseTab` break a connection on the page's side only and `Close`
is the server noticing it; `UndoRunsOut`, `ClockRunsOut`, `GraceRunsOut` are time passing and `Maintain`, `Expire`
the maintenance that acts on it; `Save`, `Stop`, `Start` are the snapshot, a shutdown
or crash, and the restart. A room code is not used twice (`Unused`; the code draws six characters
at random), a token stands for (room, seat, holder), and a crash finds every change saved: what a crash loses
in the 100 ms before a save is documented (`src/services/omok/README.md:61`) and not asked about.
`disconnectedAt` is the order of the two seats (`rank`) and whether the grace is over (`late`).

### HpaRehearsal, HpaRehearsal_proofs
Every request (`req`) is a thread, every Redis command or call to the cluster that another one
can tell apart a step: `StartLock`, `StartCurrent`, `StartRecord`, `StartJob`, `StartUndo`/`StartUndone`;
`CancelWho`, `CancelJob`, `CancelMark`, `CancelFree`/`CancelFreed`; `Find` and
`ViewRead`, `ViewDerive`, `ViewWrite`, `ViewEnd`/`ViewEnded` (a view changes state: it stores the status
it derives, and deletes lock and current run when the run is over); `Answer` and `TimeOut` (the web
route gives up, the request goes on). `Poll`, `Start`, `Cancel` are the panel, with the buttons its last
answer enables; `Post` is a start without the panel, where the service does not run in the cluster (`available`; a view then
records UNAVAILABLE, `derive` 124). The Job is external. So is the autoscaler, which keeps the two to three replicas of
`src/infra/k8s/backend/jaywiki-hpa.yaml` (`ScaleOut`, `ScaleIn`, `Raise`); `Deploy` applies the manifest, whose `replicas: 1`
(`jaywiki.yaml:9`, `src/scripts/apply-application-manifests.sh`) takes the deployment to one until the autoscaler acts. `robbed`
(history) has the runs whose lock was deleted while they were at work. Things the model makes visible:
- a start that fails before the Job leaves a run in LATEST that no Job will end: STARTING, and SCALED_OUT as soon as a view
  finds two replicas. The panel shows it as live, with the start button disabled and nothing to cancel once the keys are gone;
- CANCELLED stays for every view that reads it, but a view or a start that is under way may still overwrite it;
- FAILED does not stay: `derive` asks the Job, which is gone 300 s later, and the run is SCALED_OUT again. NO_SCALE and
  COMPLETED, which one replica during a deployment makes possible, are revived when the second is back.

### WikiSync, BlogSync, ContentSync, SyncBounds
`WikiSync`: `article`, `revision` are the tables behind `ArticleService` (`Edit`, `Revert`, `Delete`; a `Save`
is one transaction, and of two that overlap the second fails at `unique (slug, version)`,
`V2__content_db.sql:45`, and changes nothing). `local`, `git`, `base`, `backup` are the developer's
checkout; `Write` and `Commit` the developer. The command is `Look` (the listing), `Fetch` and `Plan` (the
decision for each article, `Direction`), `Pull` and `PullDone`, `Backup`, `Push` with
`PushRefused` and `PushUnanswered`, `SaveState`; `Interrupted` kills it anywhere. A run
that pulls and pushes fails at its check for uncommitted files after pulling; the next run
goes on from there, and the model has it so.

`BlogSync`: `post` is the table; `draft` has a text, the `updatedAt` and the hash stamped in its head; `cache` is
keyed as the script keys it. `Look`, `Fetch`, `Plan`, `Push` (with `Publish`, `Accepts`, `Refuses`: the server's check under
the row lock), `PushRefused`, `PushUnanswered`, `PushDone`, `Stamp`, `Interrupted`; `Edit`, `Delete`
the admin screen, `Write`, `TakeOver` the developer. Things the model makes visible: a draft that is refused
(409) stops the ones after it; a synced post that an administrator deleted blocks the
command until its draft is removed.

`ContentSync` holds an instance of each and `part`, which says at which of the two one looks: they share no
state, so every behaviour of the command is an interleaving of one of each. `SyncBounds` declares
what both take from the configuration.

## 3. Runs, bounds and fairness

| Run | Configuration | What it asks |
|---|---|---|
| `saga` | 2 keys, 2 threads, 1 replenisher, 1 unit in stock, refill to 2 | all safety properties of the saga and that it implements `OrderContract` |
| `saga_live` | 1 key, 2 threads, stock 2 | every request is answered, every order settles |
| `relay` | 1 order, 2 relays, 2 consumers, 2 events, 1 retry, 1 fault | safety, also with a cut-off consumer; `ProjectionContract`; and that a cancellation is shown |
| `kafka_demo` | 1 order, every failure mode, 1 relay, 1 retry, 1 fault | safety, also at rest (`QuietMeansSettled`), `DemoContract`, and that every order ends |
| `chat` | 1 pod with its cleanup, 2 request threads, a guest and a virtual user, 2 connections, 1 place, 1 fault, 1 reset or removal | safety of the room; that ghosts leave and slots are taken |
| `omok` | 2 tabs, 3 connections, 2 room codes, a limit of 1 room, a timed game on 2 intersections, 1 undo request each, no restart | seats, sockets and pages agree; clock; limit; saves; results |
| `omok_live` | 2 tabs, 3 connections, 1 room, an untimed game on 1 intersection, 1 shutdown or crash | nobody waits for ever for a player who is gone |
| `hpa` | 2 runs, 1 panel, 2 requests at a time, 1 fault | two rehearsals are at work only after a deleted lock; a cancellation lasts |
| `content_sync` | 2 articles, 1 post, 2 texts, 2 edits on the admin screen, 1 by the developer, 1 fault | no text lost, true base, pushes over what is known, agreement in the end |
| `zombie_consumer` | 1 order, 1 relay, 2 consumers, 2 events, 1 fault | a statement of a comment that the code breaks, see 5 |
| `one_rehearsal` | 3 runs, 1 panel, 2 requests at a time, no fault | a statement of a document that the code breaks, see 5 |
| `stale_cache` | 1 article, 1 post, 1 edit on the admin screen, 2 by the developer, no fault | a statement of a comment that the code breaks, see 5 |

The last three end with a counterexample, the others with none.

Why the bounds are enough to be interesting. *Saga*: two keys over one unit make the
second order find the row empty, refilled, or in the middle of another's transaction; two
threads are enough for the race on one key, which is between two; more of the same adds
no new pair of transactions. *Relay*: two relays are needed for a claim to be taken over,
two events for their order to matter, one fault for a lost acknowledgement, a dead
relay, a rebalance, or a record that fails once or until it is given up (`KeepsFailing`);
combinations of several faults are covered by the proofs, which bound nothing. The second consumer
takes over from the first one, which may go on with what it has in hand. *Kafka demo*:
the consumers are always three, so one order has every interleaving of them, each with one that was cut off from the same
group (one at a time: a second one would need another takeover before the first has polled); orders share
nothing but the relay's batch.
*Chat*: one place and two users give both a member and a waiting user; the second connection is a reconnection
of the guest while the leave of its first one still runs, in the other request thread. Two request
threads and the cleanup give every pair, and every triple, of a join, a leave, a promotion, a sweep and an
administrator's call; which pod a thread belongs to makes no difference in Redis. Two pods matter for a
user with a socket on each, and for what survives when one dies: the proofs cover them, for any number.
*Omok*: a room has two seats, so two tabs fill it; the third connection is a reconnection or a
takeover while the old connection is half open; with two codes and a limit of one room a closed room
that keeps its result competes with a new one; two intersections give both a winning move and a full board,
and a stone to take back. Restarts are in `omok_live`, where one suffices: it forgets every connection. Everything `omok` checks is
also proved, for any number of tabs, rooms, connections and restarts.
*Rehearsal*: what can be confused are a start, a cancellation and a poll, or two polls; two requests at a
time give each pair. A second run is what a first one's late steps can disturb; `one_rehearsal` needs three: one that is over, one
whose lock the first one's view deletes, and one that then starts.
*Sync*: two articles make one go up and another down in one command; two texts and two edits on the admin
screen let a text change and change back, one fault loses an answer or kills the command at each point.

Bounds that cut behaviour off: `MaxEvents`, `MaxFaults`, `MaxRetries` (the code's setting, 2 by
default), `MaxJoins`, `MaxAdmin`, `MaxRestarts`, `MaxEdits`, `MaxWrites`. `BoardSize`, `MaxRooms`,
`UndoLimit` and `Capacity` are constants of the code (225, 100, 3, 3), given small values. Symmetry is
used where no liveness is checked. Deadlock is not checked where the
system may come to rest with all orders settled (saga, relay, demo); it is in the other
runs, where a timer or a user always has a step.

Fairness, and why the code gives it:
- saga: `WF(Run(h))`. A thread that is not killed goes on: remote calls end within their
  connect and read timeouts (2 s and 5 s), the rest is local. Nothing is assumed of the participants.
- relay: pods restart (Kubernetes), relays and listeners are endless loops, `CLAIM_TIMEOUT`
  passes, the broker does not stay away for ever. Nothing makes a client cancel.
- demo: as the relay. A consumer that waits for the row of its order gets it: weak fairness
  is enough, for the others come to lock it finitely often.
- chat: threads run, `@Scheduled` starts the cleanup again and again, and a heartbeat that nobody
  renews expires.
- omok: maintenance and heartbeat are intervals of the server, the two minutes of grace pass, Kubernetes starts
  a server that stopped. Nothing makes a player move, return or leave.
- rehearsal (`MCHpaRehearsalNoScale` only): requests are served, a Job's pod starts and has `activeDeadlineSeconds` (210 s), keys have a TTL, and the
  autoscaler keeps its minimum (`Raise`). An open panel polls again and again (`SF`: the threads may all be busy in
  between). Nothing is assumed of scaling out under load, nor of an extra replica going.
- wiki sync: the command goes on unless it is killed, the developer runs it again and commits what it
  asks to be committed (`SF`: the working tree can be changed and committed by turns). Edits are
  finitely many (`MaxEdits`, `MaxWrites`), without which the two sides need never agree. Nothing is assumed of the blog.

## 4. Proofs

Checked by `tlapm` with no assumption but the named ASSUMEs on constants (which TLC evaluates). Every safety invariant and
every action property of a passing run is proved here, and so are the three refinements; each module's `TypeCorrect` is its type
invariant, which no run repeats. Every theorem is one of `Spec`, with no further hypothesis. `PROJECT.json` lists the theorems with
what they establish.

**`OrderSaga_proofs`** holds for any keys, threads, replenishers, quantities, stock. The
inductive invariant is `SagaInv`: types, and
- `RunInv(h)`: what a thread knows at each control point; past `authorize` a
  payment exists; on the way to `confirm` no cancellation was ever sent; at `confirm` the
  shipment is booked;
- `AskInv(k)`, `LogInv(k)`: what was sent, done and logged of an order agree. This is what
  makes late requests harmless: a cancellation exists only for a run that goes on to fail;
- `Alone`: two threads past `start` have different keys (without it another thread could
  end the order under a thread's feet, and `RunInv` would not be kept);
- `Explained`: an open order has a thread, or a reason why not.

From it: `ConfirmedIsAccepted`, `LogTellsTruth`, `LeftoversAreLogged`, `OrderComesFirst`,
`StrandingIsExplained`, `SettledIsFinal`, `KeyIsRunOnce` and the refinement
`SagaKeepsContract`. `StockAddsUp` says where every unit is: while no transaction has written the stock row from a stale
read (`overlaps`), a thread's copy is the row, and each change of an order's
status moves its units from one side of the equation to the other. `NeverOversold` is what it means for the shop: what open and confirmed
orders take is within what was put in stock. Both are lost with the first stale write (two
requests that overlap at `OrderSagaSteps.java:231` reserve one unit twice); what remains then is that the column `available`
is not negative (`AvailableIsCounted`), because a new value is computed from the copy that was checked. The equation takes sums over finite sets of orders: the first part of the
module proves that such a sum does not depend on the order of summation and grows by what is added to the set. These
are inductions on the size of a set, put in first-order form: a smallest set for which the claim
fails exists, because `<` is well founded on the naturals, and has a smaller one.

**`EventRelay_proofs`**, for any orders, relays, consumers and faults: `TypeCorrect`, `NothingIsLost`, `NothingIsMadeUp`, `CommitsAreEarned`,
`RestIsRight`, `ScreenTurnsBackOnlyRaced` and the refinement `ScreenKeepsContract`.
`SentInv`: a send that is recorded as successful is in the topic; topics only grow. `ScreenInv` is inductive: events tell the
payment (`EventInv`), topics, hands and the screen hold their order's events (`OwnInv`), a consumer that is alone with an
order has the row as it was read, and the owner's record is the next one (`HandInv`), every handled record is
dropped, shown or outdated (`HandledInv`). The last two are about orders that are not `raced`: a takeover alone
does not break them, for what a cut-off consumer saves while it is alone is from the row as it is; a second reader
beside it does, and from then on the order is `raced`. `NothingIsMadeUp` needs no such exception: the screen of any order shows
only its own events and nothing that payment-api has not decided (`OwnInv`).

**`KafkaDemo_proofs`**, for any orders, relays, retries and faults: `TypeCorrect`, `AllServedIsClosed`,
`OrdersOnlyAdvance`, `RestIsSettled`, `OutcomesAreEarned`, `DemoKeepsContract`. `Inv` adds to the types, for each order: the row lock is held exactly by the consumer that
counts the results (`LockOK`), be it owner or cut off; whom it counted has succeeded, whom it missed has not (`CountOK`); a success is
remembered (`ServeOK`), and closes the order when it is the last one (`CloseOK`, `CompleteOK`).
`CountOK` is what the pessimistic lock of `completeIfReady` is for: without it the last two
consumers each count the other as missing. `RestIsSettled` adds `OwedInv`, what the topics still owe an order: a
row is marked only when its record is in the topic (`SentOK`), nobody commits beyond what he handled or handles what is not
there (`PlaceOK`), a consumer that is through with all records has succeeded, given one up or been overwritten (`HandledOK`), and what
was given up is a letter that is unhandled or has failed the order (`LetterOK`). It is the safety half of `EveryOrderSettles`,
for any number of relays, retries and faults. The refinement of `DemoContract` needs all of this, and that a row
exists only once its order does (`BornOK`): `RecordIsThere` says that a listener in the midst of a record has it, so a success or a
failure presupposes the event in the topic, and a handled letter goes back to a consumer's, because the first
letter of an order cannot be a letter's.

**`ChatRoom_proofs`**, for any pods, threads, users, capacities and faults: `TypeCorrect`, `RoomIsKept`, `PlacesAreDistinct`, `SlotsAreOwed`,
`FirstComeFirstServed`. `ChatInv` is the types, with a user for every handler that serves one (`Served`), and `RoomInv`: the
members are finitely many and at most `Capacity`, no one is a member and waiting, or waiting twice. Each Redis script keeps it
by itself, which is why interleaving, failures and dead pods cannot break it. `SlotsAreOwed` is an argument about debts: a slot becomes
free only in a step of a thread that owes a promotion from then on; a thread leaves that debt only by promoting, after which the
room is full or the queue empty, or by a failure, a crash or a reset, which `dropped` records. `FirstComeFirstServed` follows
two users through a step (`TurnsAreKept`): `ZREM` keeps the order of the others, promotion takes the head, and only a user's own join lets it in
ahead of those before it or costs it its place. It rests on lemmas about `RemoveAt`, `SubSeq` and `Append`.

**`OmokRoom_proofs`**, for any tabs, rooms, connections, limits and restarts: `TypeCorrect`, `ClockKept`, `SeatsKept`,
`PagesKept`, `RoomsAreLimited`, `ChangesSaved`, `ResultsStand`, `ResultsAreKept`. The inductive invariant is `IInv`:
- `RoomsOK`, of each room on its own: its clock is right, an undo request presupposes a stone, a seat
  that is taken has a holder, a closed room has nobody connected. Each helper of the server is a lemma about one
  record (`Core` and what it does to the seats), so that a handler's proof only composes them;
- `Linked`, between seats' sockets, sockets' rooms, pages' sockets and tickets. It is proved of these four
  functions in the abstract, for the five things handlers do to them: empty a seat, forget a
  socket, seat a new one, give a page a ticket, remove a room. A handler is then shown to be one of these
  or two in a row. It is needed because `SeatsAreServed` alone does not exclude that a page with a ticket talks
  through a socket that has come to another seat.

Results are action properties: each step either stands on a result or is a rematch that both want (`Stands`), and a room
of two goes only when both pages have its result, it has aged, or a connection was lost unnoticed, which takes `RInv` (who has received a closed room's result has recorded it). `RoomsAreLimited` takes
`CInv`: only finitely many rooms are open, so that counting them means something.

**`HpaRehearsal_proofs`**, for any runs, panels, requests and faults: `TypeCorrect`, `LockAdmitsOne`, `CancelledForGood`. The first
of the two promises follows from `LockOK`: a run that is being started or has a Job at work holds the lock unless a request has
deleted it meanwhile (`robbed`), which `ViewEnd`, `CancelFree` and `StartUndo` do without looking whose it is. So a second rehearsal
beside a first is always their doing; expiry, late answers, crashes and replicas are no further cause. The second follows a
recorded cancellation through each step: nobody comes to overwrite it later (`NoneBegins`), because a view that reads CANCELLED
derives CANCELLED; only requests that were already on their way can, and `Settled` excludes them.

**`WikiSync_proofs`, `ContentSync_proofs`**, for any articles, posts, texts and bounds: types of both, `BaseTellsTruth`
(a base with production's `updatedAt` has production's text: `TrueOf` of the recorded base, and of
what a running command has seen and is about to record), `OnlySeenIsReplaced` (the server's check under
the row lock), `NothingGetsLost` and `PushesReplaceKnown`. The last two rest on `KInv`, which adds what a running command
knows: every text it compares with was served once (`HadOK`: production forgets no text, so a file that a pull
overwrites, being the base's, is in a revision, in production or deleted by hand); times grow from the listing to the fetch to the article
(`OrderOK`); and why each article is pushed or pulled (`PushKnown`, `PullKnown`, from `Direction`). A push is then over the base, or over
something newer than the listing, in every state with a push to come. The composition's theorems are those of the parts: `ContentSync_proofs` instantiates the wiki's
proofs, proves the blog's (`BlogInv`, `Seen`) and shows that neither part disturbs the other's invariant.

Only model-checked: liveness (`EveryRequestIsAnswered`, `EveryOrderSettles` of the saga and of the demo, `CancellationIsShown`, `GhostsLeave`,
`SlotIsTaken`, `NobodyWaitsForEver`, `SyncSettles`), for the provers cannot reason about ENABLED and fairness; and
the statements that the code breaks.

## 5. Disagreements found

The first three are runs; the others can be shown again with `tlc -config <name>.cfg <module>`, where the module is the
part of the name that an MC module has.

| Configuration | Code | What is said |
|---|---|---|
| `MCEventRelayZombie` (run `zombie_consumer`) | `PaymentEventConsumer.java:48-65` reads, compares and saves without lock or version; a consumer cut off by a rebalance saves its older event over the cancellation its successor has shown | `:54-55` a late event of the past does not turn the screen back |
| `MCHpaRehearsalTwo` (run `one_rehearsal`) | `HpaRehearsalService.java:86-89`: a view of a run that is over deletes lock and current run, whosever they are by now. Two views of a failed run: the first frees the lock, a second rehearsal takes it, the other view deletes that lock, and a third starts while the second one's Job runs | `src/docs/admin-totp-hpa-rehearsal.md:28` the Redis lock limits rehearsals to one at a time |
| `MCContentSyncStale` (run `stale_cache`) | `blog-sync.mjs:141`: the cache is keyed by the draft's hash and production's `updatedAt`, and a push keeps `updatedAt`; a draft turned back to its older text counts as the same | `:16-17` another text with the base's `updatedAt` is pushed |
| `MCHpaRehearsalNoScale` | `HpaRehearsalService.java:128`: two replicas count as a scale-out, and the autoscaler's minimum is two (`src/infra/k8s/backend/jaywiki-hpa.yaml:7`): a rehearsal is SCALED_OUT from the first view on, and again after its success, and never ends | `src/docs/admin-totp-hpa-rehearsal.md:31` a Job that succeeds without a scale-out being observed ends as `NO_SCALE` |
| `MCKafkaDemoLate` | `KafkaDemoEventService.java:46-55,70-78` set a result RETRYING whatever it is; a NOTIFICATION consumer that lost its partition does so after the new owner's success, the last consumer counts two of three, and nobody comes back: the order stays PUBLISHED | `KafkaDemoEventServiceIntegrationTest.java:42` when all required consumers have succeeded the order is marked completed |
| `MCOrderSagaOnlyCrashStrands` | `OrderSagaService.java:70`: the cancellation after a shipping refusal is not caught; if payment-api is unreachable, `run` throws, nothing is compensated, the saga stays STARTED | `:21-22` only a process that dies leaves it so; `:84-87` a failed cancellation must not stop the compensation |
| `MCOrderSagaRefillKeepsReserved` | `SagaInventoryReplenisher.java:36-38` writes back the whole row it loaded; a reservation committed meanwhile is undone | `:18-19` the refill leaves the reserved units alone |
| `MCEventRelayPiledUp` | `relay.py:141-144`: a service that starts without a broker never starts its relay | `relay.py:133-134` events pile up in the outbox and go out when the broker is back |
| `MCKafkaDemoLetter` | `KafkaDemoConsumers.java:112` records every dead letter as NOTIFICATION's, though all listeners share the topic | its own log text, `:113` |
| `MCChatRoomPlace` | `ChatWebSocketHandler.java:85` leaves the queue on close and `JOIN_SCRIPT` gives a new score | `:34` the user id is sent so that the place in the queue is not lost |
| `MCOmokRoomHalfOpen` | `server.js:137-138`: a result is taken as delivered when the opponent's connection looks open; one that is lost but not yet noticed swallows it, and the room is gone when the player returns | `src/services/omok/README.md:75` the result of a room that was left is kept for an opponent who is not connected |

Also seen, without a configuration:
- the stock row is read and written back without a lock or a version (`OrderSagaSteps.java:231`): two orders that overlap
  take one unit twice, or a release is lost. `StockAddsUp` and `NeverOversold` say what holds until then;
- a claim of a relay that is slow but alive expires (`db.py:200` looks at the age only), so two replicas
  publish one event without any fault, where `db.py:183` says that claiming prevents it; the
  consumer bears the duplicate, which `relay` checks;
- `ArticleService.java:102-104`: an article that is deleted and created again starts at version 1 while its old revisions
  stay, so its next save collides with `unique (slug, version)`, and so does every later one; the comment
  at `:57` says that a save of an existing article leaves its former text in a revision. `SyncSettles` counts such an article as
  something to decide (`Refused`).

## 6. What is not modelled

Components:
- Wiki assets: images in an object store and the rows that name them. A deletion removes the object before its
  transaction commits, and checks for references before it; both are listed as a hazard without a property.
- Partner rehearsal: one call with its timeout and its callback. The map of awaited callbacks lives as long as the request,
  no other operation touches it, and the row is written once, at its end.
- Authentication: cryptography and cookies over a revocation list and a counter; a protocol of one request.
- Blog CRUD, board, search, statistics, game scores, domain labs, drills and service control: single transactions,
  queries, or a value passed on. What follows a commit (search events) is best effort and has no state of its own.
- Web, scripts, manifests, contents: pages, deployment, input and output of other programs, or data. This is by far the larger
  part of the TypeScript and JavaScript of the repository (pages, layout, catalogues, benchmarks), which is
  why the modules stand for a small share of those lines: the concurrency is in the Java and Python
  services, in the omok server and in the sync scripts.

In modelled components:
- chat: the rate counter, event stream and broadcasts;
- saga: the products other than one; messages and logs everywhere; Kafka's own replication. Clocks
  are assumed to agree (chat scores; `occurredAt` is the database's);
- omok: the rules of the game (a stone may or may not win), the computer opponent, rate limits, the
  timeline, previews, a data file that cannot be read or written, a page that resumes both seats over one connection
  (`app.js` never does), and changes a crash loses before they are saved;
- rehearsal: pods, samples, load figures and events, which are only displayed, and failures of Redis;
- wiki sync: tabs, featured articles, moves, previews, an article's metadata written apart from its body (a kill between the two
  leaves a body without its manifest), fields that revisions do not hold;
- blog sync: images, categories, series, publication dates, the copies a pull writes under `posts/`;
- the dead letter topic that the demo shares with the payment and shipping listeners: a letter of the latter fails in
  the demo's listener and comes back to the same topic without end. It changes no row, which is why no property covers it.

## 7. What is left

1. An abstract `WaitingRoom` (members, a sequence of those who wait; enter, wait, leave, promote) that
   `ChatRoom` implements up to the gap between leave and promote, and an abstract match that `OmokRoom` implements.
2. `WikiAssets`: upload, attach, delete over the read and the commit, and the object store: an asset an article refers to
   exists in both.
3. Larger instances of `omok` with restarts, once the state space allows; today the proofs stand in for them.
