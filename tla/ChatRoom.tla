------------------------------ MODULE ChatRoom ------------------------------
(***************************************************************************)
(* The waiting room of the chat demo (ChatRoomService, ChatWebSocketHandler,*)
(* ChatController).  The room and its queue are two Redis keys shared by    *)
(* every pod of the backend; each pod keeps only the map of the sockets     *)
(* attached to it.  A Lua script or a Redis command is one step; a handler  *)
(* is several of them, and the handlers of all pods interleave.             *)
(*                                                                         *)
(* A job is a handler in progress: the thread that runs it is a worker, or  *)
(* the pod itself for the scheduled cleanup.  Its field "pc" names the      *)
(* Redis call it makes next.                                                *)
(*                                                                         *)
(* The clocks of the pods are assumed to agree and two requests to be a     *)
(* millisecond apart, so that the queue's score order is the order in which *)
(* the requests were added to it.  The event stream, the broadcasts and the *)
(* message rate counter are left out: nothing modelled here reads them.     *)
(***************************************************************************)
EXTENDS Integers, FiniteSets, SequencesExt

CONSTANTS
    Guest,      \* user ids sent by browsers
    Bot,        \* the fresh ids of virtual users
    Pod,        \* replicas of the backend
    Worker,     \* request threads, of any pod
    Nobody,     \* no user
    Capacity,   \* chat.room-capacity
    MaxJoins,   \* bound: sockets opened in a behaviour
    MaxFaults,  \* bound: failed Redis calls and pod crashes in a behaviour
    MaxAdmin    \* bound: simulate/leave and reset calls in a behaviour

ASSUME CapacityAssumption == Capacity \in Nat \ {0}
ASSUME BoundAssumption == {MaxJoins, MaxFaults, MaxAdmin} \subseteq Nat
ASSUME NameAssumption ==
    Guest \cap Bot = {} /\ Worker \cap Pod = {} /\ Nobody \notin Guest \cup Bot

User == Guest \cup Bot
Thread == Worker \cup Pod

VARIABLES
    members,    \* SET   chat:room:main:members
    queue,      \* ZSET  chat:room:main:queue, by score
    beats,      \* the users whose heartbeat key exists
    virtual,    \* the users whose profile hash exists and says virtual
    sessions,   \* the sessions map of each pod's ChatWebSocketHandler
    open,       \* those of them whose browser is still there
    job,        \* what each thread is doing
    fresh,      \* virtual users not yet created
    dropped,    \* history: 1 after a promotion that was due was lost
    joins, faults, admin

redis == <<members, queue, beats, virtual>>
sockets == <<sessions, open>>
counters == <<joins, faults, admin>>
vars == <<redis, sockets, job, fresh, dropped, counters>>

(* A job calls join or leave for "who" and then for each user of "todo".   *)
(* "found" is what a sweep or a scan has collected, "keys" the shared keys a *)
(* scan has met, "removed" the answer of LEAVE_SCRIPT.                       *)
Op == {"idle", "join", "leave", "sweep", "drop", "reset"}
Step == {"done", "save", "beat", "enter",
         "leave", "clearBeat", "clearProfile", "promote",
         "members", "queue", "check", "delete"}
Job == [op : Op, pod : Pod \cup {Nobody}, pc : Step, who : User \cup {Nobody},
        todo : SUBSET User, found : SUBSET User,
        keys : SUBSET {"members", "queue"}, removed : {0, 1}]

Call(o, p, step, u, us) ==
    [op |-> o, pod |-> p, pc |-> step, who |-> u, todo |-> us,
     found |-> {}, keys |-> {}, removed |-> 0]
Idle == Call("idle", Nobody, "done", Nobody, {})

At(t, step) == job[t].pc = step
Become(t, j) == job' = [job EXCEPT ![t] = j]
Goto(t, step) == job' = [job EXCEPT ![t].pc = step]

(* The job goes on with one of the users it has left, or is over. *)
GoOn(t, step) ==
    \/ job[t].todo = {} /\ Become(t, Idle)
    \/ \E u \in job[t].todo :
         Become(t, Call(job[t].op, job[t].pod, step, u, job[t].todo \ {u}))

Queued == {queue[i] : i \in 1 .. Len(queue)}
InRoom == members \cup Queued

(* ZREM: the one place u may have in the queue is given up. *)
Without(u) ==
    IF u \in Queued
        THEN RemoveAt(queue, CHOOSE i \in 1 .. Len(queue) : queue[i] = u)
        ELSE queue

SlotIsFree == Cardinality(members) < Capacity
Running(p) == {t \in Thread : job[t].pod = p}

(* The job t has freed a slot that it has not offered to the queue yet. *)
OwesPromotion(t) ==
    job[t].removed = 1 /\ job[t].pc \in {"clearBeat", "clearProfile", "promote"}

Init ==
    /\ members = {} /\ queue = <<>> /\ beats = {}
    /\ virtual = {}
    /\ sessions = [p \in Pod |-> {}] /\ open = [p \in Pod |-> {}]
    /\ job = [t \in Thread |-> Idle]
    /\ fresh = Bot /\ dropped = 0
    /\ joins = 0 /\ faults = 0 /\ admin = 0

-----------------------------------------------------------------------------
(* Sockets.                                                                *)

(* A browser connects with its id to a pod that has no socket of that id;   *)
(* one that has refuses and changes nothing.                                *)
Connect(t, p, u) ==
    /\ job[t] = Idle
    /\ joins < MaxJoins
    /\ u \notin sessions[p]
    /\ sessions' = [sessions EXCEPT ![p] = @ \cup {u}]
    /\ open' = [open EXCEPT ![p] = @ \cup {u}]
    /\ Become(t, Call("join", p, "save", u, {}))
    /\ joins' = joins + 1
    /\ UNCHANGED <<redis, fresh, dropped, faults, admin>>

(* The container calls a socket's handlers one after another: it is not     *)
(* closed or pinged while it is still being joined.                         *)
Joined(p, u) ==
    /\ u \in sessions[p]
    /\ \A t \in Running(p) : job[t].op = "join" => job[t].who # u

(* The browser, its machine or its network goes without a close frame.      *)
Vanish(p, u) ==
    /\ u \in open[p]
    /\ open' = [open EXCEPT ![p] = @ \ {u}]
    /\ UNCHANGED <<redis, sessions, job, fresh, dropped, counters>>

Ping(p, u) ==
    /\ u \in open[p] /\ Joined(p, u)
    /\ beats' = beats \cup {u}
    /\ UNCHANGED <<members, queue, virtual, sockets, job, fresh, dropped, counters>>

(* afterConnectionClosed: the close frame arrived, a send failed, or the     *)
(* socket timed out.                                                        *)
Disconnect(t, p, u) ==
    /\ job[t] = Idle
    /\ Joined(p, u)
    /\ sessions' = [sessions EXCEPT ![p] = @ \ {u}]
    /\ open' = [open EXCEPT ![p] = @ \ {u}]
    /\ Become(t, Call("leave", p, "leave", u, {}))
    /\ UNCHANGED <<redis, fresh, dropped, counters>>

(* The heartbeat key lives 30 seconds after the last set. *)
Expire(u) ==
    /\ u \in beats
    /\ beats' = beats \ {u}
    /\ UNCHANGED <<members, queue, virtual, sockets, job, fresh, dropped, counters>>

-----------------------------------------------------------------------------
(* join and leave, one Redis call at a time.                               *)

SaveProfile(t) ==
    /\ At(t, "save")
    /\ virtual' = virtual \cup ({job[t].who} \cap Bot)
    /\ Goto(t, "beat")
    /\ UNCHANGED <<members, queue, beats, sockets, fresh, dropped, counters>>

Heartbeat(t) ==
    /\ At(t, "beat")
    /\ beats' = beats \cup {job[t].who}
    /\ Goto(t, "enter")
    /\ UNCHANGED <<members, queue, virtual, sockets, fresh, dropped, counters>>

JoinScript_OffByOne(u) ==
    LET others == members \ {u}
    IN  \/ /\ Cardinality(others) <= Capacity
           /\ members' = others \cup {u}
           /\ queue' = Without(u)
        \/ /\ Cardinality(others) > Capacity
           /\ members' = others
           /\ queue' = Append(Without(u), u)

JoinScript_StillQueued(u) ==
    LET others == members \ {u}
    IN  \/ /\ Cardinality(others) < Capacity
           /\ members' = others \cup {u}
           /\ UNCHANGED queue
        \/ /\ Cardinality(others) >= Capacity
           /\ members' = others
           /\ queue' = Append(Without(u), u)

JoinScript(u) ==
    LET others == members \ {u}
    IN  \/ /\ Cardinality(others) < Capacity
           /\ members' = others \cup {u}
           /\ queue' = Without(u)
        \/ /\ Cardinality(others) >= Capacity
           /\ members' = others
           /\ queue' = Append(Without(u), u)

Enter(t) ==
    /\ At(t, "enter")
    /\ JoinScript(job[t].who)
    /\ GoOn(t, "save")
    /\ UNCHANGED <<beats, virtual, sockets, fresh, dropped, counters>>

Leave_Unread(t) ==
    LET u == job[t].who
    IN  /\ At(t, "leave")
        /\ members' = members \ {u}
        /\ queue' = Without(u)
        /\ Goto(t, "clearBeat")
        /\ UNCHANGED <<beats, virtual, sockets, fresh, dropped, counters>>

Leave(t) ==
    LET u == job[t].who
    IN  /\ At(t, "leave")
        /\ members' = members \ {u}
        /\ queue' = Without(u)
        /\ job' = [job EXCEPT ![t].pc = "clearBeat",
                              ![t].removed = IF u \in members THEN 1 ELSE 0]
        /\ UNCHANGED <<beats, virtual, sockets, fresh, dropped, counters>>

ClearBeat(t) ==
    /\ At(t, "clearBeat")
    /\ beats' = beats \ {job[t].who}
    /\ Goto(t, "clearProfile")
    /\ UNCHANGED <<members, queue, virtual, sockets, fresh, dropped, counters>>

ClearProfile_SweepForgets(t) ==
    /\ At(t, "clearProfile")
    /\ virtual' = virtual \ {job[t].who}
    /\ \/ job[t].removed = 1 /\ job[t].op # "sweep" /\ Goto(t, "promote")
       \/ (job[t].removed = 0 \/ job[t].op = "sweep") /\ GoOn(t, "leave")
    /\ UNCHANGED <<members, queue, beats, sockets, fresh, dropped, counters>>

(* The last of the user's keys; a slot that became free is then offered to   *)
(* the queue.                                                               *)
ClearProfile(t) ==
    /\ At(t, "clearProfile")
    /\ virtual' = virtual \ {job[t].who}
    /\ \/ job[t].removed = 1 /\ Goto(t, "promote")
       \/ job[t].removed = 0 /\ GoOn(t, "leave")
    /\ UNCHANGED <<members, queue, beats, sockets, fresh, dropped, counters>>

(* PROMOTE_SCRIPT's loop: the front of the queue, as far as the slots go. *)
Promoted ==
    LET slots == Capacity - Cardinality(members)
    IN  IF slots < Len(queue) THEN slots ELSE Len(queue)

Promote(t) ==
    /\ At(t, "promote")
    /\ members' = members \cup {queue[i] : i \in 1 .. Promoted}
    /\ queue' = SubSeq(queue, Promoted + 1, Len(queue))
    /\ dropped' = 0
    /\ GoOn(t, "leave")
    /\ UNCHANGED <<beats, virtual, sockets, fresh, counters>>

-----------------------------------------------------------------------------
(* The cleanup every pod runs, and the demo's administration.              *)

StartSweep(p) ==
    /\ job[p] = Idle
    /\ Become(p, Call("sweep", p, "members", Nobody, {}))
    /\ UNCHANGED <<redis, sockets, fresh, dropped, counters>>

AddVirtualUsers(t, p, us) ==
    /\ job[t] = Idle
    /\ us # {}
    /\ fresh' = fresh \ us
    /\ \E u \in us : Become(t, Call("join", p, "save", u, us \ {u}))
    /\ UNCHANGED <<redis, sockets, dropped, counters>>

RemoveVirtualUsers(t, p) ==
    /\ job[t] = Idle
    /\ admin < MaxAdmin
    /\ Become(t, Call("drop", p, "members", Nobody, {}))
    /\ admin' = admin + 1
    /\ UNCHANGED <<redis, sockets, fresh, dropped, joins, faults>>

(* members() and queue() are read one after the other, with the profiles.   *)
(* A user without a profile is taken for a real one.                        *)
Wanted(t, us) == IF job[t].op = "drop" THEN us \cap virtual ELSE us \ virtual

ReadMembers(t) ==
    /\ At(t, "members")
    /\ job' = [job EXCEPT ![t].todo = Wanted(t, members), ![t].pc = "queue"]
    /\ UNCHANGED <<redis, sockets, fresh, dropped, counters>>

ReadQueue_MembersOnly(t) ==
    /\ At(t, "queue")
    /\ job[t].op = "sweep"
    /\ Goto(t, "check")
    /\ UNCHANGED <<redis, sockets, fresh, dropped, counters>>

(* removeVirtualUsers takes "count" of the users it found. *)
ReadQueue(t) ==
    /\ At(t, "queue")
    /\ LET us == job[t].todo \cup Wanted(t, Queued)
       IN  \/ /\ job[t].op = "sweep"
              /\ job' = [job EXCEPT ![t].todo = us, ![t].pc = "check"]
           \/ /\ job[t].op = "drop" /\ us # {}
              /\ \E some \in SUBSET us, u \in us :
                   Become(t, Call("drop", job[t].pod, "leave", u, some \ {u}))
           \/ job[t].op = "drop" /\ us = {} /\ Become(t, Idle)
    /\ UNCHANGED <<redis, sockets, fresh, dropped, counters>>

(* hasKey for one participant after the other; then those without are left. *)
Check(t, u) ==
    /\ At(t, "check")
    /\ u \in job[t].todo
    /\ job' = [job EXCEPT ![t].todo = @ \ {u},
                          ![t].found = IF u \in beats THEN @ ELSE @ \cup {u}]
    /\ UNCHANGED <<redis, sockets, fresh, dropped, counters>>

Checked(t) ==
    /\ At(t, "check")
    /\ job[t].todo = {}
    /\ \/ job[t].found = {} /\ Become(t, Idle)
       \/ \E u \in job[t].found :
            Become(t, Call("sweep", job[t].pod, "leave", u, job[t].found \ {u}))
    /\ UNCHANGED <<redis, sockets, fresh, dropped, counters>>

(* reset collects the keys that exist (todo: heartbeats, found: profiles)   *)
(* and deletes those, whatever they hold by then.                           *)
Scan(t, p) ==
    /\ job[t] = Idle
    /\ admin < MaxAdmin
    /\ Become(t, [Call("reset", p, "delete", Nobody, beats) EXCEPT
                     !.found = virtual,
                     !.keys = (IF members = {} THEN {} ELSE {"members"})
                              \cup (IF queue = <<>> THEN {} ELSE {"queue"})])
    /\ admin' = admin + 1
    /\ UNCHANGED <<redis, sockets, fresh, dropped, joins, faults>>

Delete(t) ==
    /\ At(t, "delete")
    /\ members' = IF "members" \in job[t].keys THEN {} ELSE members
    /\ queue' = IF "queue" \in job[t].keys THEN <<>> ELSE queue
    /\ beats' = beats \ job[t].todo
    /\ virtual' = virtual \ job[t].found
    /\ dropped' = IF members' = {} /\ queue' # <<>> THEN 1 ELSE dropped
    /\ Become(t, Idle)
    /\ UNCHANGED <<sockets, fresh, counters>>

-----------------------------------------------------------------------------
(* Faults.                                                                 *)

(* A Redis call or a send fails and the rest of the handler is skipped.  A   *)
(* socket whose join fails is closed by the container, which calls           *)
(* afterConnectionClosed.                                                   *)
Fail(t) ==
    LET p == job[t].pod
        u == job[t].who
    IN  /\ job[t] # Idle
        /\ faults < MaxFaults
        /\ faults' = faults + 1
        /\ dropped' = IF OwesPromotion(t) THEN 1 ELSE dropped
        /\ \/ /\ job[t].op = "join" /\ u \in Guest
              /\ sessions' = [sessions EXCEPT ![p] = @ \ {u}]
              /\ open' = [open EXCEPT ![p] = @ \ {u}]
              /\ Become(t, Call("leave", p, "leave", u, {}))
           \/ /\ ~ (job[t].op = "join" /\ u \in Guest)
              /\ Become(t, Idle)
              /\ UNCHANGED sockets
        /\ UNCHANGED <<redis, fresh, joins, admin>>

(* A pod dies with its sockets and handlers, and is replaced. *)
Crash(p) ==
    /\ faults < MaxFaults
    /\ faults' = faults + 1
    /\ sessions' = [sessions EXCEPT ![p] = {}]
    /\ open' = [open EXCEPT ![p] = {}]
    /\ job' = [t \in Thread |-> IF t \in Running(p) THEN Idle ELSE job[t]]
    /\ dropped' = IF \E t \in Running(p) : OwesPromotion(t) THEN 1 ELSE dropped
    /\ UNCHANGED <<redis, fresh, joins, admin>>
-----------------------------------------------------------------------------
Socket(p) ==
    \E u \in Guest :
      Vanish(p, u) \/ Ping(p, u) \/ \E t \in Worker : Connect(t, p, u) \/ Disconnect(t, p, u)

Administer(t) ==
    \E p \in Pod :
      \/ \E us \in SUBSET fresh : AddVirtualUsers(t, p, us)
      \/ RemoveVirtualUsers(t, p)
      \/ Scan(t, p)

Advance(t) ==
    \/ SaveProfile(t) \/ Heartbeat(t) \/ Enter(t)
    \/ Leave(t) \/ ClearBeat(t) \/ ClearProfile(t) \/ Promote(t)
    \/ ReadMembers(t) \/ ReadQueue(t)
    \/ \E u \in User : Check(t, u)
    \/ Checked(t) \/ Delete(t)

Next ==
    \/ \E p \in Pod : Socket(p) \/ StartSweep(p) \/ Crash(p)
    \/ \E t \in Worker : Administer(t)
    \/ \E t \in Thread : Advance(t) \/ Fail(t)
    \/ \E u \in User : Expire(u)

Spec == Init /\ [][Next]_vars

(* A user is gone when no browser and no handler of a pod stands for it. *)
Gone(u) ==
    /\ \A p \in Pod : u \notin open[p]
    /\ \A t \in Thread : job[t].op = "join" => u \notin job[t].todo \cup {job[t].who}

(* Threads run, the scheduler starts the cleanup again and again, and the    *)
(* heartbeat key of a user nobody pings for expires.                        *)
Fairness ==
    /\ \A t \in Thread : WF_vars(Advance(t))
    /\ \A p \in Pod : WF_vars(StartSweep(p))
    /\ \A u \in User : WF_vars(Gone(u) /\ Expire(u))

FairSpec == Spec /\ Fairness

-----------------------------------------------------------------------------
(* Properties.                                                             *)

(* Every variable keeps its type. *)
TypeOK ==
    /\ members \subseteq User /\ queue \in Seq(User) /\ beats \subseteq User
    /\ virtual \subseteq Bot
    /\ sessions \in [Pod -> SUBSET Guest] /\ open \in [Pod -> SUBSET Guest]
    /\ job \in [Thread -> Job]
    /\ fresh \subseteq Bot /\ dropped \in {0, 1}
    /\ joins \in 0 .. MaxJoins /\ faults \in 0 .. MaxFaults /\ admin \in 0 .. MaxAdmin

(* However many pods admit and promote at once, the room never holds more    *)
(* users than its capacity (JOIN_SCRIPT, PROMOTE_SCRIPT).                   *)
RoomIsNotOverfull == Cardinality(members) <= Capacity

(* A user is in the room or in the queue, and there once, however its joins, *)
(* leaves and reconnections on several pods overlap.                        *)
NobodyIsTwice ==
    /\ members \cap Queued = {}
    /\ \A i, j \in 1 .. Len(queue) : queue[i] = queue[j] => i = j

(* Nobody waits before a free slot, unless the handler that freed it is      *)
(* about to promote, or died (or a reset came) before it did: nothing else   *)
(* wakes the queue.                                                         *)
FreeSlotIsOwed ==
    SlotIsFree /\ queue # <<>> => dropped = 1 \/ \E t \in Thread : OwesPromotion(t)

(* A guest whose browser is gone, with or without a close frame or its pod,  *)
(* does not hold a place in the room or in the queue forever.               *)
GhostsLeave == \A u \in Guest : Gone(u) ~> u \notin InRoom \/ ~ Gone(u)

(* A free slot goes to somebody, as long as the promotion it owes is not     *)
(* lost.                                                                    *)
SlotIsTaken ==
    SlotIsFree /\ queue # <<>> ~> ~ SlotIsFree \/ queue = <<>> \/ dropped = 1

(* A user who connects again while queued keeps the place before those who   *)
(* came later.                                                              *)
Before(u, v) == \E i, j \in 1 .. Len(queue) : i < j /\ queue[i] = u /\ queue[j] = v
ReconnectKeepsPlace ==
    [][\A u, v \in User : Before(u, v) /\ {u, v} \subseteq Queued' => ~ Before(v, u)']_vars
=============================================================================
