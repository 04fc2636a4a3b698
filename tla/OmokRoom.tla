------------------------------ MODULE OmokRoom ------------------------------
(***************************************************************************)
(* Online play of the omok service: the rooms of services/omok/server.js    *)
(* and the part of public/app.js that keeps a seat across lost connections, *)
(* reloads and a second tab.                                                *)
(*                                                                         *)
(* The server is one thread, so a message, a closed socket or a timer is    *)
(* one step, with every helper it calls.  A page reads what it is sent in   *)
(* that same step; it may ask for anything at any time, which covers what   *)
(* it asks from an older picture.  A connection may be lost on the page's   *)
(* side alone: the server notices when the heartbeat fails.                 *)
(*                                                                         *)
(* The board is the number of stones on it, and a stone may or may not win; *)
(* clock values are abstracted to "has run out".  Left out: the rules of    *)
(* the game, the timeline, names, previews that fail, the rate limits and   *)
(* a data file that cannot be read or written.                              *)
(***************************************************************************)
EXTENDS Integers, FiniteSets

CONSTANTS
    Tab,            \* browser tabs
    Room,           \* room codes
    Socket,         \* WebSocket connections, 1..n
    None,
    TimeControl,    \* the choices of "seconds": is there a limit for a move?
    MaxRooms,       \* MAX_ROOMS
    UndoLimit,      \* UNDO_LIMIT
    BoardSize,      \* intersections; 225 in the code
    MaxRestarts     \* bound: shutdowns and crashes of the server

ASSUME SizeAssumption == {MaxRooms, BoardSize, UndoLimit} \subseteq Nat \ {0}
ASSUME RestartAssumption == MaxRestarts \in Nat
ASSUME NoneAssumption ==
    /\ None \notin Tab \cup Room \cup Socket
    /\ None \notin [room: Room, seat: 1..2, to: Tab]
ASSUME SocketAssumption == Socket \subseteq Nat /\ IsFiniteSet(Socket)
ASSUME TimeControlAssumption == TimeControl \subseteq BOOLEAN

VARIABLES
    rooms,      \* the Map of rooms; a room that is not in it has no players
    at,         \* ws.room
    up,         \* the server runs
    due,        \* a save is scheduled
    cur,        \* the page's socket
    session,    \* the seat in the page's sessionStorage
    recorded,   \* the results of the present games that a player's page has
    restarts

server == <<rooms, at, up, due>>
pages == <<cur, session, recorded>>
vars == <<server, pages, restarts>>

Seat == 1..2
Draw == 3

(* A room.  Seat 1 is the host's; "first" is the colour it plays.  "undo" is *)
(* the colour that asks to take a stone back, "over" that its 30 seconds are *)
(* gone; "running" that deadline is set and "spent" that no time remains;    *)
(* "rank" orders the seats by disconnectedAt and "late" are those whose      *)
(* grace period is over.                                                    *)
RoomRec ==
    [n: 0..2, ws: [Seat -> Socket \cup {None}], holder: [Seat -> Tab \cup {None}],
     first: 1..2, moves: 0..BoardSize, winner: 0..Draw,
     asked: [1..2 -> 0..UndoLimit], undo: 0..2, over: BOOLEAN, votes: SUBSET (1..2),
     timed: BOOLEAN, running: BOOLEAN, spent: BOOLEAN,
     closed: BOOLEAN, received: SUBSET Seat, rank: [Seat -> 0..2], late: SUBSET Seat]

NoRoom ==
    [n |-> 0, ws |-> [k \in Seat |-> None], holder |-> [k \in Seat |-> None],
     first |-> 1, moves |-> 0, winner |-> 0,
     asked |-> [c \in 1..2 |-> 0], undo |-> 0, over |-> FALSE, votes |-> {},
     timed |-> FALSE, running |-> FALSE, spent |-> FALSE,
     closed |-> FALSE, received |-> {}, rank |-> [k \in Seat |-> 0], late |-> {}]

Ticket == [room: Room, seat: Seat, to: Tab]     \* what a token stands for

TypeOK ==
    /\ rooms \in [Room -> RoomRec]
    /\ at \in [Socket -> Room \cup {None}]
    /\ up \in BOOLEAN /\ due \in BOOLEAN
    /\ cur \in [Tab -> Socket \cup {None}]
    /\ session \in [Tab -> Ticket \cup {None}]
    /\ recorded \subseteq Room \X Seat
    /\ restarts \in 0..MaxRestarts

-----------------------------------------------------------------------------
(* Helpers of the server, on one room. *)

Exists(r) == rooms[r].n # 0
Colour(rm, k) == IF k = 1 THEN rm.first ELSE 3 - rm.first
Turn(rm) == 1 + (rm.moves % 2)
Online(rm) == rm.n = 2 /\ \A k \in Seat : rm.ws[k] # None

(* clock(room), and clock(room, true). *)
Clock(rm) ==
    [rm EXCEPT !.running = rm.timed /\ rm.winner = 0 /\ rm.undo = 0 /\ Online(rm)]
NewClock(rm) == Clock([rm EXCEPT !.spent = FALSE])

EndUndo(rm) == [rm EXCEPT !.undo = 0, !.over = FALSE]
ExpireUndo(rm) == IF rm.over THEN Clock(EndUndo(rm)) ELSE rm

(* When a game is over nobody waits for an absent player any more. *)
Finish(rm, w) ==
    [EndUndo(rm) EXCEPT !.winner = w, !.running = FALSE, !.votes = {},
                        !.rank = NoRoom.rank, !.late = {}]

(* The players whose grace is over lose; when it is over for both, a draw. *)
FinishAbsent(rm) ==
    IF rm.n = 2 /\ rm.winner = 0 /\ rm.late # {}
    THEN Finish(rm, IF rm.late = Seat THEN Draw
                    ELSE CHOOSE c \in 1..2 : \A k \in rm.late : c # Colour(rm, k))
    ELSE rm

FinishTimeout(rm) ==
    IF rm.running /\ rm.spent THEN Finish(rm, 3 - Turn(rm)) ELSE rm

NewGame(rm) ==
    [rm EXCEPT !.moves = 0, !.winner = 0, !.asked = NoRoom.asked, !.undo = 0,
               !.over = FALSE, !.votes = {}, !.running = FALSE, !.spent = FALSE]

First(rank) == IF rank = 0 THEN 0 ELSE 1
Away(rm, k) ==
    [rm EXCEPT !.ws[k] = None,
               !.rank = [j \in Seat |->
                   IF rm.winner # 0 THEN 0
                   ELSE IF j = k THEN 1 + First(rm.rank[3 - k]) ELSE First(@[j])]]

Attach(rm, k, w) ==
    Clock([rm EXCEPT !.ws[k] = w, !.late = @ \ {k},
                     !.rank = [j \in Seat |-> IF j = k THEN 0 ELSE First(@[j])]])

Seats(rm, w) == {k \in Seat : rm.ws[k] = w /\ w # None}
SeatIn(rm, w) == CHOOSE k \in Seats(rm, w) : \A j \in Seats(rm, w) : k <= j

Quit_Deletes(rm, k) ==
    LET away == EndUndo(Away(rm, k))
        ended == IF rm.n = 2 /\ rm.winner = 0
                 THEN Finish(away, 3 - Colour(rm, k)) ELSE away
        o == 3 - k
        waits == rm.n = 2 /\ rm.ws[o] = None /\ o \notin rm.received
    IN IF waits /\ rm.winner # 0
       THEN [ended EXCEPT !.running = FALSE, !.votes = {}, !.closed = TRUE,
                          !.received = @ \cup {k}]
       ELSE NoRoom

(* detach(ws, true): the game is lost, the room closes, and it is kept only  *)
(* while its result waits for an opponent who is not connected.             *)
Quit(rm, k) ==
    LET away == EndUndo(Away(rm, k))
        ended == IF rm.n = 2 /\ rm.winner = 0
                 THEN Finish(away, 3 - Colour(rm, k)) ELSE away
        o == 3 - k
        waits == rm.n = 2 /\ rm.ws[o] = None /\ o \notin rm.received
    IN IF waits
       THEN [ended EXCEPT !.running = FALSE, !.votes = {}, !.closed = TRUE,
                          !.received = @ \cup {k}]
       ELSE NoRoom

(* What those who are sent the end of a game by Quit read. *)
EndOf(r, rm, k) ==
    IF rm.n = 2 THEN {<<r, j>> : j \in {i \in Seat : rm.ws[i] # None}} ELSE {}

Drop_ClockGoesOn(rm, k) == EndUndo(Away(rm, k))

(* detach(ws): the seat stays and its grace period begins. *)
Drop(rm, k) == Clock(EndUndo(Away(rm, k)))

(* What startup makes of a saved room. *)
Saved(rm) ==
    [rm EXCEPT !.ws = NoRoom.ws, !.undo = 0, !.over = FALSE, !.running = FALSE,
               !.spent = rm.spent /\ ~rm.running,
               !.rank = [k \in Seat |-> IF k <= rm.n /\ rm.winner = 0 THEN 1 ELSE 0],
               !.late = {}]
Snapshot == [r \in Room |-> Saved(rooms[r])]

-----------------------------------------------------------------------------
(* Connections and pages. *)

Live(w) == \E t \in Tab : cur[t] = w            \* the page is there
Free == {w \in Socket : at[w] = None /\ ~Live(w)}
NextSocket == CHOOSE w \in Free : \A v \in Free : w <= v
Wire(t) == IF cur[t] # None THEN cur[t] ELSE NextSocket
CanCall(t) == up /\ (cur[t] # None \/ Free # {})
CanEnter(t) == CanCall(t) /\ (cur[t] # None \/ session[t] = None)

(* connect(): the page's socket, opened if need be. *)
Connect(t) == cur' = [cur EXCEPT ![t] = Wire(t)]

(* The results that publish shows, to the pages that are there. *)
Shown(r, rm) ==
    IF rm.winner = 0 THEN {}
    ELSE {<<r, k>> : k \in {j \in Seat : rm.ws[j] # None /\ Live(rm.ws[j])}}
Published(r, rm) ==
    /\ rooms' = [rooms EXCEPT ![r] = rm]
    /\ recorded' = recorded \cup Shown(r, rm)
    /\ due' = TRUE

Forget_Nothing(ws) ==
    [t \in Tab |-> session[t]]

(* Pages whose room is closed, or whose seat is taken over, forget it. *)
Forget(ws) ==
    [t \in Tab |-> IF cur[t] \in ws THEN None ELSE session[t]]

Init ==
    /\ rooms = [r \in Room |-> NoRoom]
    /\ at = [w \in Socket |-> None]
    /\ up = TRUE
    /\ due = FALSE
    /\ cur = [t \in Tab |-> None]
    /\ session = [t \in Tab |-> None]
    /\ recorded = {}
    /\ restarts = 0

-----------------------------------------------------------------------------
(* create and join *)

(* The rooms and the results read after detach(ws, true) on the caller's     *)
(* present room, if it has one; "out" are the sockets that leave it.         *)
Old(w) == at[w]
InRoom(w) == Old(w) # None /\ Exists(Old(w)) /\ Seats(rooms[Old(w)], w) # {}
OldSeat(w) == SeatIn(rooms[Old(w)], w)
RoomsWithout(w) ==
    IF InRoom(w) THEN [rooms EXCEPT ![Old(w)] = Quit(@, OldSeat(w))] ELSE rooms
Leaving(w) ==
    IF InRoom(w) THEN {v \in Socket : \E k \in Seat : rooms[Old(w)].ws[k] = v} ELSE {}
Ends(w) ==
    IF InRoom(w)
    THEN {e \in EndOf(Old(w), rooms[Old(w)], OldSeat(w)) :
            Live(rooms[Old(w)].ws[e[2]])}
    ELSE {}

Count == Cardinality({r \in Room : Exists(r)})
RetainsResult(rm) ==
    rm.n = 2 /\ \E k \in Seat : rm.ws[k] = None /\ k \notin rm.received
HasCapacity_AnyRoom(w) ==
    LET freed == IF at[w] # None /\ Exists(at[w])
                 THEN 1 ELSE 0
    IN Count - freed < MaxRooms

HasCapacity(w) ==
    LET freed == IF at[w] # None /\ Exists(at[w]) /\ ~RetainsResult(rooms[at[w]])
                 THEN 1 ELSE 0
    IN Count - freed < MaxRooms

(* The history need not remember a room that is gone. *)
Known == {e \in recorded : Exists(e[1])}

Seated(r, k, t, rm, w) ==
    /\ rooms' = [RoomsWithout(w) EXCEPT ![r] = rm]
    /\ at' = [v \in Socket |-> IF v = w THEN r
                               ELSE IF v \in Leaving(w) THEN None ELSE at[v]]
    /\ session' = [Forget(Leaving(w)) EXCEPT ![t] = [room |-> r, seat |-> k, to |-> t]]
    /\ recorded' = (Known \cup Ends(w)) \ ({r} \X Seat)
    /\ due' = TRUE

(* A random code that no room has; old tokens do not fit its seats.         *)
Unused(r) ==
    /\ ~Exists(r)
    /\ \A t \in Tab : session[t] # None => session[t].room # r

Create(t) ==
    /\ CanEnter(t)
    /\ HasCapacity(Wire(t))
    /\ Connect(t)
    /\ \E r \in Room, timed \in TimeControl :
        /\ Unused(r)
        /\ Seated(r, 1, t,
                  Attach([NoRoom EXCEPT !.n = 1, !.holder[1] = t, !.timed = timed],
                         1, Wire(t)), Wire(t))
    /\ UNCHANGED <<up, restarts>>

Join(t, r) ==
    /\ CanEnter(t)
    /\ LET rm == rooms[r]
           w == Wire(t)
       IN /\ rm.n = 1 /\ rm.winner = 0
          /\ rm.ws[1] \notin {None, w}
          /\ Seated(r, 2, t,
                    Attach([rm EXCEPT !.n = 2, !.holder[2] = t], 2, w), w)
    /\ Connect(t)
    /\ UNCHANGED <<up, restarts>>

-----------------------------------------------------------------------------
(* resume *)

Valid(tk) == LET rm == rooms[tk.room] IN tk.seat <= rm.n /\ rm.holder[tk.seat] = tk.to

(* The room is gone: the page forgets its seat. *)
ResumeExpired(t, tk) ==
    /\ ~Valid(tk)
    /\ session' = [session EXCEPT ![t] = None]
    /\ UNCHANGED <<rooms, at, due, recorded>>

ResumeClosed_NotSaved(t, tk) ==
    LET rm == rooms[tk.room]
        received == rm.received \cup {tk.seat}
    IN /\ Valid(tk) /\ rm.closed
       /\ rooms' = [rooms EXCEPT ![tk.room] =
                        IF received = Seat THEN NoRoom
                        ELSE [rm EXCEPT !.received = received]]
       /\ recorded' = recorded \cup {<<tk.room, tk.seat>>}
       /\ session' = [session EXCEPT ![t] = None]
       /\ UNCHANGED <<at, due>>

(* A closed room hands over its result, and goes when everybody has it. *)
ResumeClosed(t, tk) ==
    LET rm == rooms[tk.room]
        received == rm.received \cup {tk.seat}
    IN /\ Valid(tk) /\ rm.closed
       /\ rooms' = [rooms EXCEPT ![tk.room] =
                        IF received = Seat THEN NoRoom
                        ELSE [rm EXCEPT !.received = received]]
       /\ recorded' = recorded \cup {<<tk.room, tk.seat>>}
       /\ session' = [session EXCEPT ![t] = None]
       /\ due' = TRUE
       /\ UNCHANGED at

ResumeSeat_KeepsOld(t, tk, w) ==
    LET rm == FinishAbsent(rooms[tk.room])
        old == rm.ws[tk.seat]
        back == Attach(rm, tk.seat, w)
    IN /\ Valid(tk) /\ ~rm.closed
       /\ rooms' = [rooms EXCEPT ![tk.room] = back]
       /\ at' = [v \in Socket |-> IF v = w THEN tk.room
                                  ELSE at[v]]
       /\ session' = [u \in Tab |-> IF u = t THEN tk
                                    ELSE IF old # None /\ cur[u] = old THEN None
                                    ELSE session[u]]
       /\ recorded' = recorded \cup Shown(tk.room, back)
                        \cup (IF back.winner # 0 THEN {<<tk.room, tk.seat>>} ELSE {})
       /\ due' = TRUE

(* The seat is taken back, from another connection if one still holds it. *)
ResumeSeat(t, tk, w) ==
    LET rm == FinishAbsent(rooms[tk.room])
        old == rm.ws[tk.seat]
        back == Attach(rm, tk.seat, w)
    IN /\ Valid(tk) /\ ~rm.closed
       /\ rooms' = [rooms EXCEPT ![tk.room] = back]
       /\ at' = [v \in Socket |-> IF v = w THEN tk.room
                                  ELSE IF v = old THEN None ELSE at[v]]
       /\ session' = [u \in Tab |-> IF u = t THEN tk
                                    ELSE IF old # None /\ cur[u] = old THEN None
                                    ELSE session[u]]
       /\ recorded' = recorded \cup Shown(tk.room, back)
                        \cup (IF back.winner # 0 THEN {<<tk.room, tk.seat>>} ELSE {})
       /\ due' = TRUE

(* A replaced page gives its connection up. *)
Opened(t, w, old) ==
    cur' = [u \in Tab |-> IF u = t THEN w
                          ELSE IF old # None /\ cur[u] = old THEN None ELSE cur[u]]

ResumeAs(t, tk) ==
    LET w == Wire(t)
        old == IF Valid(tk) THEN rooms[tk.room].ws[tk.seat] ELSE None
    IN /\ \/ ResumeExpired(t, tk)
          \/ ResumeClosed(t, tk)
          \/ ResumeSeat(t, tk, w)
       /\ Opened(t, w, old)
       /\ UNCHANGED <<up, restarts>>

(* The page reconnects, or is loaded again, with its seat in sessionStorage. *)
Reconnect(t) ==
    /\ CanCall(t) /\ cur[t] = None /\ session[t] # None
    /\ ResumeAs(t, session[t])

(* A page without a seat takes one that this browser has saved, or that its  *)
(* player has brought from another device.                                  *)
Recover(t, r, k) ==
    /\ CanCall(t) /\ session[t] = None
    /\ k <= rooms[r].n
    /\ ResumeAs(t, [room |-> r, seat |-> k, to |-> rooms[r].holder[k]])

-----------------------------------------------------------------------------
(* Messages of a seated page. *)

(* leave: the opponent's page is told, and the room closes. *)
Leave(t) ==
    LET w == cur[t]
    IN /\ up /\ w # None
       /\ InRoom(w)
       /\ rooms' = RoomsWithout(w)
       /\ at' = [v \in Socket |-> IF v \in Leaving(w) THEN None ELSE at[v]]
       /\ session' = Forget(Leaving(w))
       /\ recorded' = recorded \cup Ends(w)
       /\ cur' = [cur EXCEPT ![t] = None]
       /\ due' = TRUE
       /\ UNCHANGED <<up, restarts>>

(* Every other message begins by ending a request to take back that has     *)
(* expired; when the deadline has passed the game ends instead (Maintain).  *)
Here(t) == cur[t] # None /\ InRoom(cur[t])
Mine(t) == at[cur[t]]
MySeat(t) == OldSeat(cur[t])
Now(t) == ExpireUndo(rooms[Mine(t)])
InTime(rm) == ~(rm.running /\ rm.spent)
MyColour(t) == Colour(Now(t), MySeat(t))
CanAct(t) == up /\ Here(t) /\ InTime(Now(t))

Answer(t, rm) ==
    /\ Published(Mine(t), rm)
    /\ UNCHANGED <<at, up, cur, session, restarts>>

Playing(rm) == rm.n = 2 /\ rm.winner = 0

(* A stone wins, fills the board or leaves the opponent nothing, or none.    *)
Stone(rm, end) ==
    LET next == [rm EXCEPT !.moves = @ + 1]
    IN CASE end = "five" -> Finish(next, Turn(rm))
         [] end = "draw" -> Finish(next, Draw)
         [] OTHER -> NewClock(next)

Move(t) ==
    LET rm == Now(t)
    IN /\ CanAct(t)
       /\ rm.undo = 0 /\ Online(rm) /\ rm.winner = 0
       /\ Turn(rm) = MyColour(t) /\ rm.moves < BoardSize
       /\ \E end \in {"five", "draw", "no"} :
            /\ rm.moves + 1 = BoardSize => end # "no"
            /\ Answer(t, Stone(rm, end))

UndoRequest(t) ==
    LET rm == Now(t)
        c == MyColour(t)
    IN /\ CanAct(t)
       /\ Online(rm) /\ rm.winner = 0 /\ rm.moves > 0
       /\ rm.undo = 0 /\ rm.asked[c] < UndoLimit
       /\ Answer(t, Clock([rm EXCEPT !.asked[c] = @ + 1, !.undo = c]))

UndoRespond(t) ==
    LET rm == Now(t)
    IN /\ CanAct(t)
       /\ Online(rm) /\ rm.winner = 0
       /\ rm.undo # 0 /\ rm.undo # MyColour(t)
       /\ \/ Answer(t, NewClock([EndUndo(rm) EXCEPT !.moves = @ - 1]))
          \/ Answer(t, Clock(EndUndo(rm)))

Resign_Twice(t) ==
    LET rm == Now(t)
    IN /\ CanAct(t)
       /\ rm.n = 2
       /\ Answer(t, Finish(rm, 3 - MyColour(t)))

Resign(t) ==
    LET rm == Now(t)
    IN /\ CanAct(t)
       /\ rm.n = 2 /\ rm.winner = 0
       /\ Answer(t, Finish(rm, 3 - MyColour(t)))

(* The second of two wishes for a rematch swaps the colours. *)
Rematch(t) ==
    LET r == Mine(t)
        rm == rooms[r]
    IN /\ up /\ Here(t)
       /\ rm.winner # 0 /\ Online(rm) /\ MyColour(t) \notin rm.votes
       /\ IF rm.votes = {}
          THEN /\ rooms' = [rooms EXCEPT ![r].votes = {MyColour(t)}]
               /\ UNCHANGED recorded
          ELSE /\ rooms' = [rooms EXCEPT ![r] =
                                Clock(NewGame([rm EXCEPT !.first = 3 - @]))]
               /\ recorded' = recorded \ ({r} \X Seat)
       /\ due' = TRUE
       /\ UNCHANGED <<at, up, cur, session, restarts>>

-----------------------------------------------------------------------------
(* Connections end. *)

(* The page loses its connection or is reloaded; the server does not know. *)
Lose(t) ==
    /\ cur[t] # None
    /\ cur' = [cur EXCEPT ![t] = None]
    /\ UNCHANGED <<server, session, recorded, restarts>>

(* The tab is closed for good; what it has saved can be recovered. *)
CloseTab(t) ==
    /\ cur[t] # None \/ session[t] # None
    /\ cur' = [cur EXCEPT ![t] = None]
    /\ session' = [session EXCEPT ![t] = None]
    /\ UNCHANGED <<server, recorded, restarts>>

(* The server learns that a seat's connection is gone: ws.on('close').  For  *)
(* a connection without a room detach returns at once.                      *)
Close(w) ==
    /\ up /\ ~Live(w) /\ at[w] # None
    /\ at' = [at EXCEPT ![w] = None]
    /\ IF InRoom(w)
       THEN Published(at[w], Drop(rooms[at[w]], OldSeat(w)))
       ELSE UNCHANGED <<rooms, recorded, due>>
    /\ UNCHANGED <<up, cur, session, restarts>>

-----------------------------------------------------------------------------
(* Time and the maintenance of every second. *)

UndoRunsOut(r) ==
    /\ up /\ rooms[r].undo # 0 /\ ~rooms[r].over
    /\ rooms' = [rooms EXCEPT ![r].over = TRUE]
    /\ UNCHANGED <<at, up, due, pages, restarts>>

ClockRunsOut(r) ==
    /\ up /\ rooms[r].running /\ ~rooms[r].spent
    /\ rooms' = [rooms EXCEPT ![r].spent = TRUE]
    /\ UNCHANGED <<at, up, due, pages, restarts>>

(* Two minutes after a seat was lost: those lost before it are late as well. *)
GraceRunsOut(r) ==
    /\ up
    /\ \E k \in Seat :
        /\ rooms[r].rank[k] # 0 /\ k \notin rooms[r].late
        /\ rooms' = [rooms EXCEPT ![r].late =
                {j \in Seat : rooms[r].rank[j] \in 1..rooms[r].rank[k]}]
    /\ UNCHANGED <<at, up, due, pages, restarts>>

Maintain_NoGrace(r) ==
    LET after == FinishTimeout(ExpireUndo(rooms[r]))
    IN /\ up /\ Exists(r)
       /\ after # rooms[r]
       /\ Published(r, after)
       /\ UNCHANGED <<at, up, cur, session, restarts>>

Maintain(r) ==
    LET after == FinishTimeout(FinishAbsent(ExpireUndo(rooms[r])))
    IN /\ up /\ Exists(r)
       /\ after # rooms[r]
       /\ Published(r, after)
       /\ UNCHANGED <<at, up, cur, session, restarts>>

(* expireRooms: nobody came for 10 minutes, the game has been over for 5, a  *)
(* result was kept for 2, or nothing happened for two hours.                *)
Aged(rm) ==
    \/ rm.n = 1
    \/ rm.winner # 0
    \/ Online(rm) /\ ~rm.running

Expire(r) ==
    LET out == {v \in Socket : \E k \in Seat : rooms[r].ws[k] = v}
    IN /\ up /\ Exists(r) /\ Aged(rooms[r])
       /\ rooms' = [rooms EXCEPT ![r] = NoRoom]
       /\ at' = [v \in Socket |-> IF v \in out THEN None ELSE at[v]]
       /\ session' = Forget(out)
       /\ due' = TRUE
       /\ UNCHANGED <<up, cur, recorded, restarts>>

-----------------------------------------------------------------------------
(* The data file, shutdown and restart. *)

Save ==
    /\ up /\ due
    /\ due' = FALSE
    /\ UNCHANGED <<rooms, at, up, pages, restarts>>

(* shutdown() stops the clocks and saves what is left of them; a crash finds *)
(* the deadlines in the file, and loses what was not saved yet.  Only the    *)
(* crash that loses nothing is modelled.  "rooms" is what startup restores.  *)
Stop(graceful) ==
    /\ up /\ restarts < MaxRestarts
    /\ graceful \/ ~due
    /\ restarts' = restarts + 1
    /\ up' = FALSE
    /\ due' = FALSE
    /\ rooms' = [r \in Room |->
            Saved(IF graceful THEN [rooms[r] EXCEPT !.running = FALSE] ELSE rooms[r])]
    /\ at' = [w \in Socket |-> None]
    /\ cur' = [t \in Tab |-> None]
    /\ UNCHANGED <<session, recorded>>

Start ==
    /\ ~up
    /\ up' = TRUE
    /\ UNCHANGED <<rooms, at, due, pages, restarts>>

-----------------------------------------------------------------------------
Next ==
    \/ \E t \in Tab :
        \/ Create(t) \/ \E r \in Room : Join(t, r)
        \/ Reconnect(t) \/ \E r \in Room, k \in Seat : Recover(t, r, k)
        \/ Leave(t) \/ Move(t) \/ UndoRequest(t) \/ UndoRespond(t)
        \/ Resign(t) \/ Rematch(t)
        \/ Lose(t) \/ CloseTab(t)
    \/ \E w \in Socket : Close(w)
    \/ \E r \in Room :
        \/ UndoRunsOut(r) \/ ClockRunsOut(r) \/ GraceRunsOut(r)
        \/ Maintain(r) \/ Expire(r)
    \/ \E graceful \in BOOLEAN : Stop(graceful)
    \/ Save
    \/ Start

Spec == Init /\ [][Next]_vars

(* Maintenance and the heartbeat run on timers, time passes, and Kubernetes  *)
(* starts the server again.                                                 *)
Fairness ==
    /\ \A r \in Room :
        /\ WF_vars(Maintain(r)) /\ WF_vars(GraceRunsOut(r))
    /\ \A w \in Socket : WF_vars(Close(w))
    /\ WF_vars(Start)
FairSpec == Spec /\ Fairness

-----------------------------------------------------------------------------
(* Properties *)

(* A seat's socket and the room of a socket are written in many handlers;    *)
(* they agree: a seat is held by an open connection of that very room, and a *)
(* connection holds at most one seat, so that a late close or a message      *)
(* never touches a seat that somebody else holds by now.                    *)
SeatsAreServed ==
    /\ \A r \in Room, k \in Seat :
        LET w == rooms[r].ws[k]
        IN w # None => k <= rooms[r].n /\ at[w] = r
    /\ \A w \in Socket : at[w] # None => \E k \in Seat : Seats(rooms[at[w]], w) = {k}

(* A page with a seat and a connection is the one that the server has in     *)
(* that seat: after a takeover, a rematch, a closed room or a restart no     *)
(* page goes on with a seat that is not its own.                            *)
PageIsSeated ==
    \A t \in Tab :
        (cur[t] # None /\ session[t] # None) =>
            rooms[session[t].room].ws[session[t].seat] = cur[t]

(* The clock of a timed game runs exactly while both players are connected,  *)
(* the game is on and no request to take a stone back waits, whichever       *)
(* handler came last.                                                       *)
ClockIsRight ==
    \A r \in Room :
        rooms[r].running = ( /\ rooms[r].timed /\ rooms[r].winner = 0
                             /\ rooms[r].undo = 0 /\ Online(rooms[r]) )

(* Every handler that changes what a restart would restore schedules a save. *)
ChangesAreSaved == [][(up /\ up' /\ Snapshot' # Snapshot) => due']_vars

(* Rooms whose result waits for an absent player count against the limit,    *)
(* also when the player who closed one opens the next.                      *)
CapacityKept == Count <= MaxRooms

(* A result changes only through a rematch that both wanted; a crash may     *)
(* lose it while it is not saved.                                           *)
ResultStands ==
    [][\A r \in Room :
        (Exists(r) /\ rooms[r].winner # 0 /\ up /\ up' /\ rooms'[r].n # 0) =>
            \/ rooms'[r].winner = rooms[r].winner
            \/ /\ rooms'[r].winner = 0
               /\ \E c \in 1..2 : rooms[r].votes = {c}
               /\ Online(rooms[r])]_vars

(* A room of two that closes before it has aged has shown its result to both *)
(* players, unless a connection was lost and the server did not know yet.    *)
ResultIsKept ==
    [][\A r \in Room :
        (rooms[r].n = 2 /\ rooms'[r].n = 0 /\ up' /\ ~Expire(r)) =>
            \A k \in Seat :
                \/ <<r, k>> \in recorded'
                \/ rooms[r].ws[k] # None /\ ~Live(rooms[r].ws[k])]_vars

(* README, line 75: the result waits for an opponent who is not connected    *)
(* when the other player leaves.                                            *)
ResultWaitsForTheAbsent ==
    [][\A r \in Room :
        (rooms[r].n = 2 /\ rooms'[r].n = 0 /\ up' /\ ~Expire(r)) =>
            \A k \in Seat : <<r, k>> \in recorded']_vars

(* No player is kept waiting for ever: in an unfinished game no seat stays   *)
(* empty for good.  The heartbeat finds the dead connection, the grace       *)
(* period runs out, maintenance ends the game.                              *)
Present(r, k) == rooms[r].ws[k] # None /\ Live(rooms[r].ws[k])
NobodyWaitsForEver ==
    \A r \in Room, k \in Seat : []<>(~Playing(rooms[r]) \/ Present(r, k))
=============================================================================
