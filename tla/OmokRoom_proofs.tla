-------------------------- MODULE OmokRoom_proofs --------------------------
(***************************************************************************)
(* Proofs about OmokRoom, for any tabs, rooms, connections, board and        *)
(* number of restarts: types, the clock, the seats and the pages that hold   *)
(* them, results that stand and are received, the saving of every change,    *)
(* and the limit on rooms.                                                  *)
(***************************************************************************)
EXTENDS OmokRoom, FiniteSetTheorems, WellFoundedInduction, TLAPS

USE SizeAssumption, NoneAssumption

-----------------------------------------------------------------------------
(* One room: what the helpers of the server make of it. *)

Right(rm) ==
    rm.running = (rm.timed /\ rm.winner = 0 /\ rm.undo = 0 /\ Online(rm))
Core(rm) == rm \in RoomRec /\ Right(rm) /\ (rm.undo # 0 => rm.moves > 0)

(* The same players, on the same connections. *)
SameSeats(a, b) ==
    /\ a.n = b.n /\ a.ws = b.ws /\ a.holder = b.holder /\ a.closed = b.closed
    /\ a.received = b.received

(* A room of which one part is changed is a room. *)
LEMMA Put ==
  ASSUME NEW rm \in RoomRec
  PROVE  /\ \A v \in 0..2 : [rm EXCEPT !.n = v] \in RoomRec
         /\ \A v \in [Seat -> Socket \cup {None}] : [rm EXCEPT !.ws = v] \in RoomRec
         /\ \A v \in [Seat -> Tab \cup {None}] : [rm EXCEPT !.holder = v] \in RoomRec
         /\ \A v \in 1..2 : [rm EXCEPT !.first = v] \in RoomRec
         /\ \A v \in 0..BoardSize : [rm EXCEPT !.moves = v] \in RoomRec
         /\ \A v \in 0..Draw : [rm EXCEPT !.winner = v] \in RoomRec
         /\ \A v \in [1..2 -> 0..UndoLimit] : [rm EXCEPT !.asked = v] \in RoomRec
         /\ \A v \in 0..2 : [rm EXCEPT !.undo = v] \in RoomRec
         /\ \A v \in BOOLEAN : [rm EXCEPT !.over = v] \in RoomRec
         /\ \A v \in SUBSET (1..2) : [rm EXCEPT !.votes = v] \in RoomRec
         /\ \A v \in BOOLEAN : [rm EXCEPT !.timed = v] \in RoomRec
         /\ \A v \in BOOLEAN : [rm EXCEPT !.running = v] \in RoomRec
         /\ \A v \in BOOLEAN : [rm EXCEPT !.spent = v] \in RoomRec
         /\ \A v \in BOOLEAN : [rm EXCEPT !.closed = v] \in RoomRec
         /\ \A v \in SUBSET Seat : [rm EXCEPT !.received = v] \in RoomRec
         /\ \A v \in [Seat -> 0..2] : [rm EXCEPT !.rank = v] \in RoomRec
         /\ \A v \in SUBSET Seat : [rm EXCEPT !.late = v] \in RoomRec
  BY DEF RoomRec

LEMMA NoRoomOK == Core(NoRoom) /\ NoRoom.n = 0 /\ \A k \in Seat : NoRoom.ws[k] = None
  <1>1. /\ NoRoom.ws \in [Seat -> Socket \cup {None}] /\ NoRoom.holder \in [Seat -> Tab \cup {None}]
        /\ NoRoom.asked \in [1..2 -> 0..UndoLimit] /\ NoRoom.rank \in [Seat -> 0..2]
    BY DEF NoRoom, Seat
  <1>2. NoRoom \in RoomRec
    BY <1>1 DEF NoRoom, RoomRec, Draw, Seat
  <1> QED BY <1>2 DEF Core, NoRoom, Right, Online

LEMMA ClockOK ==
  ASSUME NEW rm \in RoomRec, rm.undo # 0 => rm.moves > 0
  PROVE  Core(Clock(rm)) /\ SameSeats(Clock(rm), rm) /\ Clock(rm).winner = rm.winner
         /\ Clock(rm).votes = rm.votes
  <1> DEFINE on == rm.timed /\ rm.winner = 0 /\ rm.undo = 0 /\ Online(rm)
  <1>1. on \in BOOLEAN
    OBVIOUS
  <1>2. Clock(rm) = [rm EXCEPT !.running = on]
    BY DEF Clock
  <1> HIDE DEF on
  <1>3. Clock(rm) \in RoomRec
    BY <1>1, <1>2, Put
  <1>4. /\ Clock(rm).running = on /\ Clock(rm).n = rm.n /\ Clock(rm).ws = rm.ws
        /\ Clock(rm).timed = rm.timed /\ Clock(rm).winner = rm.winner
        /\ Clock(rm).undo = rm.undo /\ Clock(rm).moves = rm.moves
        /\ Clock(rm).votes = rm.votes /\ Clock(rm).closed = rm.closed
        /\ Clock(rm).holder = rm.holder /\ Clock(rm).received = rm.received
    BY <1>2 DEF RoomRec
  <1> QED BY <1>3, <1>4 DEF Core, Right, Online, SameSeats, on

LEMMA EndUndoTyped ==
  ASSUME NEW rm \in RoomRec
  PROVE  /\ EndUndo(rm) \in RoomRec /\ SameSeats(EndUndo(rm), rm) /\ EndUndo(rm).undo = 0
         /\ EndUndo(rm).winner = rm.winner /\ EndUndo(rm).votes = rm.votes
         /\ EndUndo(rm).moves = rm.moves
  <1> DEFINE a == [rm EXCEPT !.undo = 0]
  <1>1. a \in RoomRec
    <2>1. 0 \in 0..2
      OBVIOUS
    <2> QED BY <2>1, Put
  <1>2. EndUndo(rm) = [a EXCEPT !.over = FALSE]
    BY DEF EndUndo
  <1>3. EndUndo(rm) \in RoomRec
    <2> HIDE DEF a
    <2> QED BY <1>1, <1>2, Put
  <1> QED BY <1>3 DEF RoomRec, EndUndo, SameSeats

LEMMA ExpireUndoOK ==
  ASSUME NEW rm, Core(rm)
  PROVE  /\ Core(ExpireUndo(rm)) /\ SameSeats(ExpireUndo(rm), rm)
         /\ ExpireUndo(rm).winner = rm.winner /\ ExpireUndo(rm).votes = rm.votes
  <1>1. CASE rm.over
    <2>1. EndUndo(rm) \in RoomRec /\ EndUndo(rm).undo = 0
      BY EndUndoTyped DEF Core
    <2>2. ExpireUndo(rm) = Clock(EndUndo(rm))
      BY <1>1 DEF ExpireUndo
    <2> QED BY <2>1, <2>2, EndUndoTyped, ClockOK DEF Core, SameSeats
  <1>2. CASE ~rm.over
    BY <1>2 DEF ExpireUndo, SameSeats
  <1> QED BY <1>1, <1>2

LEMMA ColourTyped == ASSUME NEW rm \in RoomRec, NEW k \in Seat PROVE Colour(rm, k) \in 1..2
  BY DEF RoomRec, Colour, Seat

LEMMA FinishOK ==
  ASSUME NEW rm \in RoomRec, NEW w \in 1..Draw
  PROVE  /\ Core(Finish(rm, w)) /\ SameSeats(Finish(rm, w), rm) /\ Finish(rm, w).winner = w
  <1> DEFINE b == EndUndo(rm)
             c == [b EXCEPT !.winner = w]
             d == [c EXCEPT !.running = FALSE]
             e == [d EXCEPT !.votes = {}]
             f == [e EXCEPT !.rank = NoRoom.rank]
             g == [f EXCEPT !.late = {}]
  <1>1. b \in RoomRec /\ SameSeats(b, rm) /\ b.undo = 0
    BY EndUndoTyped
  <1>2. Finish(rm, w) = g
    BY DEF Finish
  <1> HIDE DEF b
  <1>3. c \in RoomRec
    <2>1. w \in 0..Draw
      BY DEF Draw
    <2> QED BY <1>1, <2>1, Put
  <1>4. d \in RoomRec
    <2> HIDE DEF c
    <2> QED BY <1>3, Put
  <1>5. e \in RoomRec
    <2> HIDE DEF d
    <2> QED BY <1>4, Put
  <1>6. f \in RoomRec
    <2> HIDE DEF e
    <2>1. NoRoom.rank \in [Seat -> 0..2]
      BY DEF NoRoom, Seat
    <2> QED BY <1>5, <2>1, Put
  <1>7. g \in RoomRec
    <2> HIDE DEF f
    <2> QED BY <1>6, Put
  <1>8. /\ g.winner = w /\ g.running = FALSE /\ g.undo = 0 /\ SameSeats(g, rm)
    BY <1>1 DEF RoomRec, SameSeats
  <1>9. w # 0
    BY DEF Draw
  <1> HIDE DEF g
  <1> QED BY <1>2, <1>7, <1>8, <1>9 DEF Core, Right

LEMMA FinishAbsentOK ==
  ASSUME NEW rm, Core(rm)
  PROVE  /\ Core(FinishAbsent(rm)) /\ SameSeats(FinishAbsent(rm), rm)
         /\ rm.winner # 0 => FinishAbsent(rm) = rm
  <1>1. CASE ~(rm.n = 2 /\ rm.winner = 0 /\ rm.late # {})
    BY <1>1 DEF FinishAbsent, SameSeats
  <1>2. CASE rm.n = 2 /\ rm.winner = 0 /\ rm.late # {}
    <2> DEFINE loser == CHOOSE c \in 1..2 : \A k \in rm.late : c # Colour(rm, k)
               w == IF rm.late = Seat THEN Draw ELSE loser
    <2>1. FinishAbsent(rm) = Finish(rm, w)
      BY <1>2 DEF FinishAbsent
    <2>2. rm.late # Seat => \E c \in 1..2 : \A k \in rm.late : c # Colour(rm, k)
      <3> SUFFICES ASSUME rm.late # Seat PROVE \E c \in 1..2 : \A k \in rm.late : c # Colour(rm, k)
        OBVIOUS
      <3>1. rm.late \subseteq Seat
        BY DEF Core, RoomRec
      <3>2. rm.late = {1} \/ rm.late = {2}
        BY <1>2, <3>1 DEF Seat
      <3>3. rm.first = 1 \/ rm.first = 2
        BY DEF Core, RoomRec
      <3> QED BY <3>2, <3>3 DEF Colour
    <2>3. w \in 1..Draw
      BY <2>2 DEF Draw
    <2> HIDE DEF w
    <2> QED BY <1>2, <2>1, <2>3, FinishOK DEF Core
  <1> QED BY <1>1, <1>2

LEMMA FinishTimeoutOK ==
  ASSUME NEW rm, Core(rm)
  PROVE  /\ Core(FinishTimeout(rm)) /\ SameSeats(FinishTimeout(rm), rm)
         /\ rm.winner # 0 => FinishTimeout(rm) = rm
  <1>1. CASE ~(rm.running /\ rm.spent)
    BY <1>1 DEF FinishTimeout, SameSeats
  <1>2. CASE rm.running /\ rm.spent
    <2>1. rm.winner = 0
      BY <1>2 DEF Core, Right
    <2>2. 3 - Turn(rm) \in 1..Draw
      BY DEF Core, RoomRec, Turn, Draw
    <2>3. FinishTimeout(rm) = Finish(rm, 3 - Turn(rm))
      BY <1>2 DEF FinishTimeout
    <2> QED BY <2>1, <2>2, <2>3, FinishOK DEF Core
  <1> QED BY <1>1, <1>2

LEMMA NewGameOK ==
  ASSUME NEW rm \in RoomRec
  PROVE  Core(Clock(NewGame(rm))) /\ SameSeats(Clock(NewGame(rm)), rm)
         /\ Clock(NewGame(rm)).winner = 0
  <1> DEFINE a == [rm EXCEPT !.moves = 0]
             b == [a EXCEPT !.winner = 0]
             c == [b EXCEPT !.asked = NoRoom.asked]
             d == [c EXCEPT !.undo = 0]
             e == [d EXCEPT !.over = FALSE]
             f == [e EXCEPT !.votes = {}]
             g == [f EXCEPT !.running = FALSE]
             h == [g EXCEPT !.spent = FALSE]
  <1>0. 0 \in 0..2 /\ 0 \in 0..Draw /\ 0 \in 0..BoardSize
    BY DEF Draw
  <1>1. NewGame(rm) = h
    BY DEF NewGame
  <1>2. a \in RoomRec
    BY <1>0, Put
  <1>3. b \in RoomRec
    <2> HIDE DEF a
    <2> QED BY <1>0, <1>2, Put
  <1>4. c \in RoomRec
    <2> HIDE DEF b
    <2>1. NoRoom.asked \in [1..2 -> 0..UndoLimit]
      BY DEF NoRoom
    <2> QED BY <1>3, <2>1, Put
  <1>5. d \in RoomRec
    <2> HIDE DEF c
    <2> QED BY <1>0, <1>4, Put
  <1>6. e \in RoomRec
    <2> HIDE DEF d
    <2> QED BY <1>5, Put
  <1>7. f \in RoomRec
    <2> HIDE DEF e
    <2> QED BY <1>6, Put
  <1>8. g \in RoomRec
    <2> HIDE DEF f
    <2> QED BY <1>7, Put
  <1>9. h \in RoomRec
    <2> HIDE DEF g
    <2> QED BY <1>8, Put
  <1>10. h.undo = 0 /\ h.winner = 0 /\ SameSeats(h, rm)
    BY DEF RoomRec, SameSeats
  <1> HIDE DEF h
  <1> QED BY <1>1, <1>9, <1>10, ClockOK DEF SameSeats

LEMMA AwayTyped ==
  ASSUME NEW rm \in RoomRec, NEW k \in Seat
  PROVE  /\ Away(rm, k) \in RoomRec /\ Away(rm, k).n = rm.n
         /\ Away(rm, k).ws = [rm.ws EXCEPT ![k] = None] /\ Away(rm, k).winner = rm.winner
         /\ Away(rm, k).closed = rm.closed /\ Away(rm, k).holder = rm.holder
         /\ Away(rm, k).moves = rm.moves /\ Away(rm, k).received = rm.received
  <1> DEFINE a == [rm EXCEPT !.ws = [rm.ws EXCEPT ![k] = None]]
             rank == [j \in Seat |-> IF rm.winner # 0 THEN 0
                                     ELSE IF j = k THEN 1 + First(rm.rank[3 - k])
                                     ELSE First(rm.rank[j])]
  <1>1. [rm.ws EXCEPT ![k] = None] \in [Seat -> Socket \cup {None}]
    BY DEF RoomRec
  <1>2. a \in RoomRec
    BY <1>1, Put
  <1>3. rank \in [Seat -> 0..2]
    BY DEF First
  <1>4. Away(rm, k) = [a EXCEPT !.rank = rank]
    BY DEF Away, RoomRec
  <1>5. [a EXCEPT !.rank = rank] \in RoomRec
    <2> HIDE DEF a, rank
    <2> QED BY <1>2, <1>3, Put
  <1> QED BY <1>4, <1>5 DEF RoomRec

LEMMA DropOK ==
  ASSUME NEW rm \in RoomRec, NEW k \in Seat
  PROVE  /\ Core(Drop(rm, k)) /\ Drop(rm, k).n = rm.n
         /\ Drop(rm, k).ws = [rm.ws EXCEPT ![k] = None] /\ Drop(rm, k).winner = rm.winner
         /\ Drop(rm, k).holder = rm.holder /\ Drop(rm, k).closed = rm.closed
         /\ Drop(rm, k).received = rm.received
  <1>1. /\ Away(rm, k) \in RoomRec /\ EndUndo(Away(rm, k)) \in RoomRec
        /\ EndUndo(Away(rm, k)).undo = 0
    BY AwayTyped, EndUndoTyped
  <1> QED BY <1>1, AwayTyped, EndUndoTyped, ClockOK DEF Drop, SameSeats

LEMMA AttachOK ==
  ASSUME NEW rm \in RoomRec, NEW k \in Seat, NEW w \in Socket, rm.undo # 0 => rm.moves > 0
  PROVE  /\ Core(Attach(rm, k, w)) /\ Attach(rm, k, w).n = rm.n
         /\ Attach(rm, k, w).ws = [rm.ws EXCEPT ![k] = w]
         /\ Attach(rm, k, w).winner = rm.winner /\ Attach(rm, k, w).holder = rm.holder
         /\ Attach(rm, k, w).closed = rm.closed /\ Attach(rm, k, w).received = rm.received
  <1> DEFINE a == [rm EXCEPT !.ws = [rm.ws EXCEPT ![k] = w]]
             b == [a EXCEPT !.late = rm.late \ {k}]
             rank == [j \in Seat |-> IF j = k THEN 0 ELSE First(rm.rank[j])]
             c == [b EXCEPT !.rank = rank]
  <1>1. [rm.ws EXCEPT ![k] = w] \in [Seat -> Socket \cup {None}]
    BY DEF RoomRec
  <1>2. a \in RoomRec
    BY <1>1, Put
  <1>3. rank \in [Seat -> 0..2] /\ rm.late \ {k} \in SUBSET Seat
    BY DEF First, RoomRec
  <1>4. Attach(rm, k, w) = Clock(c)
    BY DEF Attach, RoomRec
  <1>5. b \in RoomRec
    <2> HIDE DEF a
    <2> QED BY <1>2, <1>3, Put
  <1>6. c \in RoomRec
    <2> HIDE DEF b, rank
    <2> QED BY <1>3, <1>5, Put
  <1>7. /\ c.n = rm.n /\ c.ws = [rm.ws EXCEPT ![k] = w] /\ c.winner = rm.winner
        /\ c.holder = rm.holder /\ c.closed = rm.closed /\ c.undo = rm.undo /\ c.moves = rm.moves
        /\ c.received = rm.received
    BY DEF RoomRec
  <1> HIDE DEF c
  <1> QED BY <1>4, <1>6, <1>7, ClockOK DEF SameSeats

LEMMA QuitOK ==
  ASSUME NEW rm \in RoomRec, NEW k \in Seat
  PROVE  /\ Core(Quit(rm, k)) /\ \A j \in Seat : Quit(rm, k).ws[j] = None
         /\ Quit(rm, k).n \in {0, rm.n}
         /\ Quit(rm, k).n # 0 => RetainsResult(rm) /\ Quit(rm, k).holder = rm.holder
         /\ (Quit(rm, k).n # 0 /\ rm.winner # 0) => Quit(rm, k).winner = rm.winner
         /\ Quit(rm, k).n # 0 => /\ rm.n = 2 /\ Quit(rm, k).closed
                                 /\ Quit(rm, k).received = rm.received \cup {k}
         /\ rm.n = 2 /\ Quit(rm, k).n = 0 => rm.ws[3 - k] # None \/ 3 - k \in rm.received
  <1> DEFINE away == EndUndo(Away(rm, k))
             ended == IF rm.n = 2 /\ rm.winner = 0
                      THEN Finish(away, 3 - Colour(rm, k)) ELSE away
             o == 3 - k
             waits == rm.n = 2 /\ rm.ws[o] = None /\ o \notin rm.received
             a == [ended EXCEPT !.running = FALSE]
             b == [a EXCEPT !.votes = {}]
             c == [b EXCEPT !.closed = TRUE]
             d == [c EXCEPT !.received = ended.received \cup {k}]
  <1>1. Quit(rm, k) = IF waits THEN d ELSE NoRoom
    BY EndUndoTyped, AwayTyped DEF Quit, RoomRec
  <1>2. CASE ~waits
    BY <1>1, <1>2, NoRoomOK
  <1>3. CASE waits
    <2>1. /\ away \in RoomRec /\ away.n = rm.n /\ away.ws = [rm.ws EXCEPT ![k] = None]
          /\ away.undo = 0 /\ away.winner = rm.winner /\ away.holder = rm.holder
          /\ away.received = rm.received
      BY AwayTyped, EndUndoTyped DEF SameSeats
    <2>2. /\ ended \in RoomRec /\ ended.n = rm.n /\ ended.ws = [rm.ws EXCEPT ![k] = None]
          /\ ended.undo = 0 /\ ended.winner # 0 /\ (rm.winner # 0 => ended.winner = rm.winner)
          /\ ended.holder = rm.holder /\ ended.received = rm.received
      <3>1. CASE rm.winner = 0
        <4>1. 3 - Colour(rm, k) \in 1..Draw
          BY ColourTyped DEF Draw
        <4>2. ended = Finish(away, 3 - Colour(rm, k))
          BY <1>3, <3>1
        <4>3. Finish(away, 3 - Colour(rm, k)).undo = 0
          BY <2>1 DEF Finish, EndUndo, RoomRec
        <4>4. 3 - Colour(rm, k) # 0
          BY <4>1
        <4> HIDE DEF away, ended
        <4> QED BY <2>1, <3>1, <4>1, <4>2, <4>3, <4>4, FinishOK DEF Core, SameSeats
      <3>2. CASE rm.winner # 0
        BY <2>1, <3>2
      <3> QED BY <3>1, <3>2
    <2> HIDE DEF ended
    <2>3. a \in RoomRec
      BY <2>2, Put
    <2>4. b \in RoomRec
      <3> HIDE DEF a
      <3> QED BY <2>3, Put
    <2>5. c \in RoomRec
      <3> HIDE DEF b
      <3> QED BY <2>4, Put
    <2>6. d \in RoomRec
      <3> HIDE DEF c
      <3>1. ended.received \cup {k} \in SUBSET Seat
        BY <2>2 DEF RoomRec
      <3> QED BY <2>5, <3>1, Put
    <2>7. /\ d.running = FALSE /\ d.n = rm.n /\ d.ws = [rm.ws EXCEPT ![k] = None]
          /\ d.undo = 0 /\ d.winner = ended.winner /\ d.holder = rm.holder
          /\ d.closed /\ d.received = rm.received \cup {k}
      BY <2>2 DEF RoomRec
    <2> HIDE DEF d
    <2>8. Core(d)
      BY <2>2, <2>6, <2>7 DEF Core, Right
    <2>9. \A j \in Seat : d.ws[j] = None
      BY <1>3, <2>7 DEF RoomRec, Seat
    <2>10. RetainsResult(rm)
      BY <1>3 DEF RetainsResult, Seat
    <2>11. Quit(rm, k) = d /\ rm.n = 2
      BY <1>1, <1>3
    <2> HIDE DEF away, waits, o
    <2>12. d.n = 2 /\ d.n # 0
      BY <2>7, <2>11
    <2>13. Core(Quit(rm, k)) /\ \A j \in Seat : Quit(rm, k).ws[j] = None
      BY <2>8, <2>9, <2>11
    <2>14. Quit(rm, k).n = rm.n /\ Quit(rm, k).n # 0 /\ Quit(rm, k).holder = rm.holder
           /\ (rm.winner # 0 => Quit(rm, k).winner = rm.winner)
      BY <2>2, <2>7, <2>11, <2>12
    <2>15. Quit(rm, k).closed /\ Quit(rm, k).received = rm.received \cup {k}
      BY <2>7, <2>11
    <2> QED BY <2>10, <2>11, <2>13, <2>14, <2>15
  <1> QED BY <1>2, <1>3

LEMMA SavedOK ==
  ASSUME NEW rm \in RoomRec
  PROVE  Core(Saved(rm)) /\ Saved(rm).n = rm.n /\ Saved(rm).holder = rm.holder
         /\ Saved(rm).closed = rm.closed /\ Saved(rm).received = rm.received
         /\ \A k \in Seat : Saved(rm).ws[k] = None
  <1> DEFINE rank == [k \in Seat |-> IF k <= rm.n /\ rm.winner = 0 THEN 1 ELSE 0]
             a == [rm EXCEPT !.ws = NoRoom.ws]
             b == [a EXCEPT !.undo = 0]
             c == [b EXCEPT !.over = FALSE]
             d == [c EXCEPT !.running = FALSE]
             e == [d EXCEPT !.spent = (rm.spent /\ ~rm.running)]
             f == [e EXCEPT !.rank = rank]
             g == [f EXCEPT !.late = {}]
  <1>1. Saved(rm) = g
    BY DEF Saved, RoomRec
  <1>2. a \in RoomRec
    <2>1. NoRoom.ws \in [Seat -> Socket \cup {None}]
      BY DEF NoRoom
    <2> QED BY <2>1, Put
  <1>3. b \in RoomRec
    <2> HIDE DEF a
    <2>1. 0 \in 0..2
      OBVIOUS
    <2> QED BY <1>2, <2>1, Put
  <1>4. c \in RoomRec
    <2> HIDE DEF b
    <2> QED BY <1>3, Put
  <1>5. d \in RoomRec
    <2> HIDE DEF c
    <2> QED BY <1>4, Put
  <1>6. e \in RoomRec
    <2>1. (rm.spent /\ ~rm.running) \in BOOLEAN
      OBVIOUS
    <2> HIDE DEF d
    <2> QED BY <1>5, <2>1, Put
  <1>7. f \in RoomRec
    <2>1. rank \in [Seat -> 0..2]
      OBVIOUS
    <2> HIDE DEF e, rank
    <2> QED BY <1>6, <2>1, Put
  <1>8. g \in RoomRec
    <2> HIDE DEF f
    <2> QED BY <1>7, Put
  <1>9. /\ g.running = FALSE /\ g.undo = 0 /\ g.n = rm.n /\ g.holder = rm.holder
        /\ g.closed = rm.closed /\ g.received = rm.received /\ \A k \in Seat : g.ws[k] = None
    BY DEF RoomRec, NoRoom
  <1>10. ~Online(g)
    BY <1>9 DEF Online, Seat
  <1> HIDE DEF g
  <1> QED BY <1>1, <1>8, <1>9, <1>10 DEF Core, Right

LEMMA NewClockOK ==
  ASSUME NEW rm \in RoomRec, rm.undo # 0 => rm.moves > 0
  PROVE  Core(NewClock(rm)) /\ SameSeats(NewClock(rm), rm)
  <1> DEFINE a == [rm EXCEPT !.spent = FALSE]
  <1>1. a \in RoomRec
    BY Put
  <1>2. SameSeats(a, rm) /\ a.undo = rm.undo /\ a.moves = rm.moves
    BY DEF RoomRec, SameSeats
  <1>3. NewClock(rm) = Clock(a)
    BY DEF NewClock
  <1> HIDE DEF a
  <1> QED BY <1>1, <1>2, <1>3, ClockOK DEF SameSeats

LEMMA MovesTyped ==
  ASSUME NEW rm \in RoomRec, NEW m \in 0..BoardSize
  PROVE  /\ [rm EXCEPT !.moves = m] \in RoomRec /\ SameSeats([rm EXCEPT !.moves = m], rm)
         /\ [rm EXCEPT !.moves = m].undo = rm.undo /\ [rm EXCEPT !.moves = m].moves = m
  <1>1. [rm EXCEPT !.moves = m] \in RoomRec
    BY Put
  <1> QED BY <1>1 DEF RoomRec, SameSeats

LEMMA StoneOK ==
  ASSUME NEW rm \in RoomRec, NEW end \in {"five", "draw", "no"}, rm.undo = 0,
         rm.moves < BoardSize
  PROVE  Core(Stone(rm, end)) /\ SameSeats(Stone(rm, end), rm)
  <1> DEFINE m == rm.moves + 1
             next == [rm EXCEPT !.moves = m]
  <1>1. m \in 0..BoardSize
    BY DEF RoomRec
  <1>2. next \in RoomRec /\ SameSeats(next, rm) /\ next.undo = 0
    BY <1>1, MovesTyped
  <1>3. Turn(rm) \in 1..Draw /\ Draw \in 1..Draw
    BY DEF Turn, RoomRec, Draw
  <1>4. Stone(rm, end) = CASE end = "five" -> Finish(next, Turn(rm))
                          [] end = "draw" -> Finish(next, Draw)
                          [] OTHER -> NewClock(next)
    BY DEF Stone
  <1> HIDE DEF next
  <1>5. CASE end = "five"
    BY <1>2, <1>3, <1>4, <1>5, FinishOK DEF SameSeats
  <1>6. CASE end = "draw"
    BY <1>2, <1>3, <1>4, <1>6, FinishOK DEF SameSeats
  <1>7. CASE end = "no"
    BY <1>2, <1>4, <1>7, NewClockOK DEF SameSeats
  <1> QED BY <1>5, <1>6, <1>7

LEMMA AskOK ==
  ASSUME NEW rm \in RoomRec, NEW c \in 1..2, rm.moves > 0, rm.asked[c] < UndoLimit
  PROVE  LET asks == Clock([rm EXCEPT !.asked[c] = @ + 1, !.undo = c])
         IN Core(asks) /\ SameSeats(asks, rm)
  <1> DEFINE asked == [rm.asked EXCEPT ![c] = rm.asked[c] + 1]
             a == [rm EXCEPT !.asked = asked]
             b == [a EXCEPT !.undo = c]
  <1>1. asked \in [1..2 -> 0..UndoLimit]
    BY DEF RoomRec
  <1>2. a \in RoomRec
    <2> HIDE DEF asked
    <2> QED BY <1>1, Put
  <1>3. b \in RoomRec
    <2> HIDE DEF a
    <2>1. c \in 0..2
      OBVIOUS
    <2> QED BY <1>2, <2>1, Put
  <1>4. SameSeats(b, rm) /\ b.moves = rm.moves
    BY DEF RoomRec, SameSeats
  <1>5. [rm EXCEPT !.asked[c] = @ + 1, !.undo = c] = b
    BY DEF RoomRec
  <1> HIDE DEF b
  <1> QED BY <1>3, <1>4, <1>5, ClockOK DEF SameSeats

-----------------------------------------------------------------------------
(* Seats, connections and pages.  W gives the sockets in the seats of each    *)
(* room, N the number of its players, A the room of each socket, C the        *)
(* socket and S the ticket of each page.                                    *)

LinkTypes(W, N, A, C, S) ==
    /\ W \in [Room -> [Seat -> Socket \cup {None}]] /\ N \in [Room -> 0..2]
    /\ A \in [Socket -> Room \cup {None}]
    /\ C \in [Tab -> Socket \cup {None}] /\ S \in [Tab -> Ticket \cup {None}]
Served(W, N, A) ==
    /\ \A r \in Room, k \in Seat : W[r][k] # None => k <= N[r] /\ A[W[r][k]] = r
    /\ \A w \in Socket : A[w] # None => \E k \in Seat : W[A[w]][k] = w
    /\ \A r \in Room : W[r][1] # None => W[r][1] # W[r][2]
Paged(W, A, C, S) ==
    /\ \A t \in Tab : (C[t] # None /\ S[t] # None) => W[S[t].room][S[t].seat] = C[t]
    /\ \A t \in Tab : (C[t] # None /\ S[t] = None) => A[C[t]] = None
    /\ \A t, u \in Tab : (C[t] # None /\ C[t] = C[u]) => t = u
Linked(W, N, A, C, S) == LinkTypes(W, N, A, C, S) /\ Served(W, N, A) /\ Paged(W, A, C, S)

(* What leaving and taking a seat make of A, C and S. *)
Leaves(A, out) == [v \in Socket |-> IF v \in out THEN None ELSE A[v]]
Forgets(C, S, out) == [t \in Tab |-> IF C[t] \in out THEN None ELSE S[t]]
SeatedAt(A, w, q, old) ==
    [v \in Socket |-> IF v = w THEN q ELSE IF v = old THEN None ELSE A[v]]
SeatedBy(C, t, w, old) ==
    [u \in Tab |-> IF u = t THEN w ELSE IF old # None /\ C[u] = old THEN None ELSE C[u]]
SeatedAs(C, S, t, tk, old) ==
    [u \in Tab |-> IF u = t THEN tk ELSE IF old # None /\ C[u] = old THEN None ELSE S[u]]

(* All who are in a room leave it. *)
LEMMA Vacate ==
  ASSUME NEW W, NEW N, NEW A, NEW C, NEW S, Linked(W, N, A, C, S), NEW q \in Room,
         NEW seats \in [Seat -> {None}], NEW n \in 0..2, NEW out,
         out = {v \in Socket : \E k \in Seat : W[q][k] = v}
  PROVE  Linked([W EXCEPT ![q] = seats], [N EXCEPT ![q] = n], Leaves(A, out), C,
                Forgets(C, S, out))
  <1> DEFINE W2 == [W EXCEPT ![q] = seats]
             N2 == [N EXCEPT ![q] = n]
             A2 == [v \in Socket |-> IF v \in out THEN None ELSE A[v]]
             S2 == [t \in Tab |-> IF C[t] \in out THEN None ELSE S[t]]
  <1>1. LinkTypes(W2, N2, A2, C, S2)
    BY DEF Linked, LinkTypes
  <1>2. Served(W2, N2, A2)
    <2>1. ASSUME NEW r \in Room, NEW k \in Seat, W2[r][k] # None
          PROVE  k <= N2[r] /\ A2[W2[r][k]] = r
      <3>1. r # q /\ W2[r][k] = W[r][k] /\ N2[r] = N[r] /\ W[r][k] \in Socket
        BY <2>1 DEF Linked, LinkTypes
      <3>2. k <= N[r] /\ A[W[r][k]] = r
        BY <2>1, <3>1 DEF Linked, Served
      <3>3. W[r][k] \notin out
        BY <3>1, <3>2 DEF Linked, Served
      <3> QED BY <3>1, <3>2, <3>3
    <2>2. ASSUME NEW w \in Socket, A2[w] # None PROVE \E k \in Seat : W2[A2[w]][k] = w
      <3>1. w \notin out /\ A2[w] = A[w]
        BY <2>2
      <3>2. PICK k \in Seat : W[A[w]][k] = w
        BY <2>2, <3>1 DEF Linked, Served
      <3>3. A[w] # q /\ A[w] \in Room
        BY <2>2, <3>1, <3>2 DEF Linked, LinkTypes
      <3> QED BY <3>1, <3>2, <3>3 DEF Linked, LinkTypes
    <2>3. ASSUME NEW r \in Room, W2[r][1] # None PROVE W2[r][1] # W2[r][2]
      BY <2>3 DEF Linked, LinkTypes, Served, Seat
    <2> HIDE DEF W2, N2, A2
    <2> QED BY <2>1, <2>2, <2>3 DEF Served
  <1>3. Paged(W2, A2, C, S2)
    <2>1. ASSUME NEW t \in Tab, C[t] # None, S2[t] # None
          PROVE  W2[S2[t].room][S2[t].seat] = C[t]
      <3>1. C[t] \notin out /\ S2[t] = S[t]
        BY <2>1
      <3>2. W[S[t].room][S[t].seat] = C[t]
        BY <2>1, <3>1 DEF Linked, Paged
      <3>3. S[t].room \in Room /\ S[t].seat \in Seat /\ C[t] \in Socket
        BY <2>1, <3>1 DEF Linked, LinkTypes, Ticket
      <3>4. S[t].room # q
        BY <3>1, <3>2, <3>3
      <3> QED BY <3>1, <3>2, <3>3, <3>4 DEF Linked, LinkTypes
    <2>2. ASSUME NEW t \in Tab, C[t] # None, S2[t] = None PROVE A2[C[t]] = None
      BY <2>2 DEF Linked, LinkTypes, Paged
    <2>3. \A t, u \in Tab : (C[t] # None /\ C[t] = C[u]) => t = u
      BY DEF Linked, Paged
    <2> HIDE DEF W2, A2, S2
    <2> QED BY <2>1, <2>2, <2>3 DEF Paged
  <1> QED BY <1>1, <1>2, <1>3 DEF Linked, Leaves, Forgets

(* A page gives up its connection, and perhaps its ticket. *)
LEMMA Unhook ==
  ASSUME NEW W, NEW N, NEW A, NEW C, NEW S, Linked(W, N, A, C, S), NEW t \in Tab,
         NEW tk \in {S[t], None}
  PROVE  Linked(W, N, A, [C EXCEPT ![t] = None], [S EXCEPT ![t] = tk])
  BY DEF Linked, LinkTypes, Served, Paged

(* A page without a seat connects. *)
LEMMA Hook ==
  ASSUME NEW W, NEW N, NEW A, NEW C, NEW S, Linked(W, N, A, C, S), NEW t \in Tab,
         NEW w \in Socket, A[w] = None, \A u \in Tab \ {t} : C[u] # w
  PROVE  Linked(W, N, A, [C EXCEPT ![t] = w], [S EXCEPT ![t] = None])
  BY DEF Linked, LinkTypes, Served, Paged

(* A connection that no page has any more is taken out of its seat. *)
LEMMA Unseat ==
  ASSUME NEW W, NEW N, NEW A, NEW C, NEW S, Linked(W, N, A, C, S), NEW w \in Socket,
         \A t \in Tab : C[t] # w, NEW k \in Seat, A[w] # None, W[A[w]][k] = w
  PROVE  Linked([W EXCEPT ![A[w]] = [W[A[w]] EXCEPT ![k] = None]], N, [A EXCEPT ![w] = None],
                C, S)
  <1> DEFINE W2 == [W EXCEPT ![A[w]] = [W[A[w]] EXCEPT ![k] = None]]
             A2 == [A EXCEPT ![w] = None]
  <1>0. A[w] \in Room /\ w # None
    BY DEF Linked, LinkTypes
  <1>1. LinkTypes(W2, N, A2, C, S)
    BY <1>0 DEF Linked, LinkTypes
  <1>2. Served(W2, N, A2)
    <2>1. ASSUME NEW r \in Room, NEW j \in Seat, W2[r][j] # None
          PROVE  j <= N[r] /\ A2[W2[r][j]] = r
      <3>1. W2[r][j] = W[r][j] /\ ~(r = A[w] /\ j = k)
        BY <1>0, <2>1 DEF Linked, LinkTypes
      <3>2. j <= N[r] /\ A[W[r][j]] = r /\ W[r][j] \in Socket
        BY <2>1, <3>1 DEF Linked, LinkTypes, Served
      <3>3. W[r][j] # w
        <4> SUFFICES ASSUME W[r][j] = w PROVE FALSE
          OBVIOUS
        <4>1. r = A[w] /\ j # k
          BY <3>1, <3>2
        <4>2. W[r][1] = w /\ W[r][2] = w
          BY <4>1 DEF Seat
        <4> QED BY <1>0, <4>2 DEF Linked, Served
      <3> QED BY <3>1, <3>2, <3>3 DEF Linked, LinkTypes
    <2>2. ASSUME NEW v \in Socket, A2[v] # None PROVE \E j \in Seat : W2[A2[v]][j] = v
      <3>1. v # w /\ A2[v] = A[v] /\ A[v] \in Room
        BY <2>2 DEF Linked, LinkTypes
      <3>2. PICK j \in Seat : W[A[v]][j] = v
        BY <2>2, <3>1 DEF Linked, Served
      <3>3. W2[A[v]][j] = v
        BY <1>0, <3>1, <3>2 DEF Linked, LinkTypes
      <3> QED BY <3>1, <3>3
    <2>3. ASSUME NEW r \in Room, W2[r][1] # None PROVE W2[r][1] # W2[r][2]
      BY <1>0, <2>3 DEF Linked, LinkTypes, Served, Seat
    <2> HIDE DEF W2, A2
    <2> QED BY <2>1, <2>2, <2>3 DEF Served
  <1>3. Paged(W2, A2, C, S)
    <2>1. ASSUME NEW t \in Tab, C[t] # None, S[t] # None
          PROVE  W2[S[t].room][S[t].seat] = C[t]
      <3>1. W[S[t].room][S[t].seat] = C[t] /\ C[t] # w
        BY <2>1 DEF Linked, Paged
      <3>2. S[t].room \in Room /\ S[t].seat \in Seat
        BY <2>1 DEF Linked, LinkTypes, Ticket
      <3> QED BY <1>0, <3>1, <3>2 DEF Linked, LinkTypes
    <2>2. ASSUME NEW t \in Tab, C[t] # None, S[t] = None PROVE A2[C[t]] = None
      BY <2>2 DEF Linked, LinkTypes, Paged
    <2>3. \A t, u \in Tab : (C[t] # None /\ C[t] = C[u]) => t = u
      BY DEF Linked, Paged
    <2> HIDE DEF W2, A2
    <2> QED BY <2>1, <2>2, <2>3 DEF Paged
  <1> QED BY <1>1, <1>2, <1>3 DEF Linked

(* A page takes a seat, from the connection that is in it if there is one. *)
LEMMA Take ==
  ASSUME NEW W, NEW N, NEW A, NEW C, NEW S, Linked(W, N, A, C, S), NEW t \in Tab,
         NEW w \in Socket, A[w] = None, \A u \in Tab \ {t} : C[u] # w,
         NEW q \in Room, NEW k \in Seat, NEW n \in 0..2, k <= n, N[q] <= n,
         NEW tk \in Ticket, tk.room = q, tk.seat = k,
         NEW old, old = W[q][k]
  PROVE  Linked([W EXCEPT ![q] = [W[q] EXCEPT ![k] = w]], [N EXCEPT ![q] = n],
                SeatedAt(A, w, q, old), SeatedBy(C, t, w, old), SeatedAs(C, S, t, tk, old))
  <1> DEFINE W2 == [W EXCEPT ![q] = [W[q] EXCEPT ![k] = w]]
             N2 == [N EXCEPT ![q] = n]
             A2 == [v \in Socket |-> IF v = w THEN q ELSE IF v = old THEN None ELSE A[v]]
             C2 == [u \in Tab |-> IF u = t THEN w
                                  ELSE IF old # None /\ C[u] = old THEN None ELSE C[u]]
             S2 == [u \in Tab |-> IF u = t THEN tk
                                  ELSE IF old # None /\ C[u] = old THEN None ELSE S[u]]
  <1>0. /\ w # None /\ old \in Socket \cup {None} /\ old # w
        /\ \A r \in Room, j \in Seat : W[r][j] # w
    BY DEF Linked, LinkTypes, Served
  <1>1. LinkTypes(W2, N2, A2, C2, S2)
    BY DEF Linked, LinkTypes
  <1>2. Served(W2, N2, A2)
    <2>1. ASSUME NEW r \in Room, NEW j \in Seat, W2[r][j] # None
          PROVE  j <= N2[r] /\ A2[W2[r][j]] = r
      <3>1. CASE r = q /\ j = k
        BY <3>1 DEF Linked, LinkTypes
      <3>2. CASE ~(r = q /\ j = k)
        <4>1. W2[r][j] = W[r][j] /\ W[r][j] \in Socket
          BY <2>1, <3>2 DEF Linked, LinkTypes
        <4>2. j <= N[r] /\ A[W[r][j]] = r
          BY <2>1, <4>1 DEF Linked, Served
        <4>3. W[r][j] # old
          <5> SUFFICES ASSUME W[r][j] = old PROVE FALSE
            OBVIOUS
          <5>1. A[old] = q
            BY <4>1 DEF Linked, Served
          <5>2. r = q /\ j # k
            BY <3>2, <4>2, <5>1
          <5>3. W[q][1] = old /\ W[q][2] = old
            BY <5>2 DEF Seat
          <5> QED BY <4>1, <5>3 DEF Linked, Served
        <4>4. j <= N2[r]
          BY <4>2 DEF Linked, LinkTypes, Seat
        <4> QED BY <1>0, <4>1, <4>2, <4>3, <4>4
      <3> QED BY <3>1, <3>2
    <2>2. ASSUME NEW v \in Socket, A2[v] # None PROVE \E j \in Seat : W2[A2[v]][j] = v
      <3>1. CASE v = w
        BY <3>1 DEF Linked, LinkTypes
      <3>2. CASE v # w
        <4>1. v # old /\ A2[v] = A[v] /\ A[v] \in Room
          BY <2>2, <3>2 DEF Linked, LinkTypes
        <4>2. PICK j \in Seat : W[A[v]][j] = v
          BY <2>2, <4>1 DEF Linked, Served
        <4>3. W2[A[v]][j] = v
          BY <4>1, <4>2 DEF Linked, LinkTypes
        <4> QED BY <4>1, <4>3
      <3> QED BY <3>1, <3>2
    <2>3. ASSUME NEW r \in Room, W2[r][1] # None PROVE W2[r][1] # W2[r][2]
      BY <1>0, <2>3 DEF Linked, LinkTypes, Served, Seat
    <2> HIDE DEF W2, N2, A2
    <2> QED BY <2>1, <2>2, <2>3 DEF Served
  <1>3. Paged(W2, A2, C2, S2)
    <2>1. ASSUME NEW u \in Tab, C2[u] # None, S2[u] # None
          PROVE  W2[S2[u].room][S2[u].seat] = C2[u]
      <3>1. CASE u = t
        BY <3>1 DEF Linked, LinkTypes
      <3>2. CASE u # t
        <4>1. C2[u] = C[u] /\ S2[u] = S[u] /\ ~(old # None /\ C[u] = old)
          BY <2>1, <3>2
        <4>2. W[S[u].room][S[u].seat] = C[u]
          BY <2>1, <4>1 DEF Linked, Paged
        <4>3. S[u].room \in Room /\ S[u].seat \in Seat
          BY <2>1, <4>1 DEF Linked, LinkTypes, Ticket
        <4>4. ~(S[u].room = q /\ S[u].seat = k)
          BY <2>1, <4>1, <4>2
        <4> QED BY <4>1, <4>2, <4>3, <4>4 DEF Linked, LinkTypes
      <3> QED BY <3>1, <3>2
    <2>2. ASSUME NEW u \in Tab, C2[u] # None, S2[u] = None PROVE A2[C2[u]] = None
      <3>1. tk # None /\ u # t
        BY <2>2 DEF Ticket, Seat
      <3>2. C2[u] = C[u] /\ S2[u] = S[u] /\ C[u] \in Socket
        BY <2>2, <3>1 DEF Linked, LinkTypes
      <3>3. A[C[u]] = None /\ C[u] # w
        BY <2>2, <3>1, <3>2 DEF Linked, Paged
      <3> QED BY <3>2, <3>3
    <2>3. ASSUME NEW u \in Tab, NEW v \in Tab, C2[u] # None, C2[u] = C2[v] PROVE u = v
      BY <1>0, <2>3 DEF Linked, LinkTypes, Paged
    <2> HIDE DEF W2, A2, C2, S2
    <2> QED BY <2>1, <2>2, <2>3 DEF Paged
  <1> QED BY <1>1, <1>2, <1>3 DEF Linked, SeatedAt, SeatedBy, SeatedAs

-----------------------------------------------------------------------------
(* The inductive invariant. *)

Held(rm) == \A k \in Seat : k <= rm.n => rm.holder[k] \in Tab
Empty(rm) == rm.closed => \A k \in Seat : rm.ws[k] = None
RoomOK(rm) == Core(rm) /\ Held(rm) /\ Empty(rm)

WsOf(R) == [r \in Room |-> R[r].ws]
NsOf(R) == [r \in Room |-> R[r].n]
RoomsOK(R) == R \in [Room -> RoomRec] /\ \A r \in Room : RoomOK(R[r])

Link == Linked(WsOf(rooms), NsOf(rooms), at, cur, session)
Rest == up \in BOOLEAN /\ due \in BOOLEAN /\ recorded \subseteq Room \X Seat /\ restarts \in 0..MaxRestarts

IInv == RoomsOK(rooms) /\ Link /\ Rest

LEMMA Invariants == IInv => TypeOK /\ ClockIsRight /\ SeatsAreServed /\ PageIsSeated
  <1> SUFFICES ASSUME IInv PROVE TypeOK /\ ClockIsRight /\ SeatsAreServed /\ PageIsSeated
    OBVIOUS
  <1>1. TypeOK
    BY DEF IInv, RoomsOK, Link, Linked, LinkTypes, Rest, TypeOK
  <1>2. ClockIsRight
    BY DEF IInv, RoomsOK, RoomOK, Core, Right, ClockIsRight
  <1>3. ASSUME NEW r \in Room, NEW k \in Seat PROVE WsOf(rooms)[r][k] = rooms[r].ws[k] /\ NsOf(rooms)[r] = rooms[r].n
    BY DEF WsOf, NsOf
  <1>4. PageIsSeated
    BY <1>1, <1>3 DEF IInv, Link, Linked, Paged, PageIsSeated, TypeOK, Ticket
  <1>5. \A r \in Room, k \in Seat : rooms[r].ws[k] # None => k <= rooms[r].n /\ at[rooms[r].ws[k]] = r
    BY <1>3 DEF IInv, Link, Linked, Served
  <1>6. ASSUME NEW w \in Socket, at[w] # None PROVE \E k \in Seat : Seats(rooms[at[w]], w) = {k}
    <2>1. at[w] \in Room /\ w # None
      BY <1>1, <1>6 DEF TypeOK
    <2>2. PICK k \in Seat : rooms[at[w]].ws[k] = w
      BY <1>3, <1>6, <2>1 DEF IInv, Link, Linked, Served
    <2>3. rooms[at[w]].ws[1] # None => rooms[at[w]].ws[1] # rooms[at[w]].ws[2]
      BY <1>3, <2>1 DEF IInv, Link, Linked, Served, Seat
    <2> QED BY <2>1, <2>2, <2>3 DEF Seats, Seat
  <1> QED BY <1>1, <1>2, <1>4, <1>5, <1>6 DEF SeatsAreServed

LEMMA InitIInv == Init => IInv
  <1> SUFFICES ASSUME Init PROVE IInv
    OBVIOUS
  <1>1. RoomOK(NoRoom)
    <2>1. Held(NoRoom)
      BY NoRoomOK DEF Held, Seat
    <2> QED BY <2>1, NoRoomOK DEF RoomOK, Empty
  <1>2. RoomsOK(rooms)
    BY <1>1 DEF Init, RoomsOK, RoomOK, Core
  <1>3. \A r \in Room : WsOf(rooms)[r] \in [Seat -> Socket \cup {None}]
    BY <1>2 DEF RoomsOK, WsOf, RoomRec
  <1>4. \A r \in Room : NsOf(rooms)[r] = 0 /\ \A k \in Seat : WsOf(rooms)[r][k] = None
    BY NoRoomOK DEF Init, WsOf, NsOf
  <1>5. Linked(WsOf(rooms), NsOf(rooms), at, cur, session)
    <2>1. LinkTypes(WsOf(rooms), NsOf(rooms), at, cur, session)
      BY <1>3, <1>4 DEF LinkTypes, Init, WsOf, NsOf
    <2> QED BY <1>4, <2>1 DEF Linked, Served, Paged, Init, Seat
  <1>6. recorded \subseteq Room \X Seat
    BY DEF Init
  <1>7. Rest
    <2>1. restarts \in 0..MaxRestarts
      BY RestartAssumption DEF Init
    <2>2. up \in BOOLEAN /\ due \in BOOLEAN
      BY DEF Init
    <2> QED BY <1>6, <2>1, <2>2 DEF Rest
  <1> QED BY <1>2, <1>5, <1>7 DEF IInv, Link

(* One room changes. *)
LEMMA PutRoom ==
  ASSUME NEW R, RoomsOK(R), NEW r \in Room, NEW x, RoomOK(x)
  PROVE  /\ RoomsOK([R EXCEPT ![r] = x])
         /\ WsOf([R EXCEPT ![r] = x]) = [WsOf(R) EXCEPT ![r] = x.ws]
         /\ NsOf([R EXCEPT ![r] = x]) = [NsOf(R) EXCEPT ![r] = x.n]
  BY DEF RoomsOK, RoomOK, Core, WsOf, NsOf

LEMMA SameRoom ==
  ASSUME NEW rm, RoomOK(rm), NEW x, Core(x), SameSeats(x, rm)
  PROVE  RoomOK(x)
  BY DEF RoomOK, SameSeats, Held, Empty

(* A room changes and nobody moves. *)
LEMMA QuietKeeps ==
  ASSUME IInv, NEW r \in Room, NEW x, Core(x), SameSeats(x, rooms[r]),
         rooms' = [rooms EXCEPT ![r] = x], UNCHANGED <<at, cur, session>>, Rest'
  PROVE  IInv'
  <1>1. RoomOK(x)
    BY SameRoom DEF IInv, RoomsOK
  <1>2. /\ RoomsOK(rooms') /\ WsOf(rooms') = [WsOf(rooms) EXCEPT ![r] = x.ws]
        /\ NsOf(rooms') = [NsOf(rooms) EXCEPT ![r] = x.n]
    BY <1>1, PutRoom DEF IInv
  <1>3. WsOf(rooms') = WsOf(rooms) /\ NsOf(rooms') = NsOf(rooms)
    BY <1>2 DEF SameSeats, WsOf, NsOf
  <1> QED BY <1>2, <1>3 DEF IInv, Link

LEMMA SeatInOK ==
  ASSUME NEW rm, NEW w, Seats(rm, w) # {}
  PROVE  SeatIn(rm, w) \in Seat /\ rm.ws[SeatIn(rm, w)] = w /\ w # None
  <1>1. Seats(rm, w) \subseteq {1, 2}
    BY DEF Seats, Seat
  <1>2. \E k \in Seats(rm, w) : \A j \in Seats(rm, w) : k <= j
    BY <1>1
  <1> QED BY <1>2 DEF SeatIn, Seats

LEMMA HereOK ==
  ASSUME IInv, NEW t \in Tab, Here(t)
  PROVE  /\ Mine(t) \in Room /\ RoomOK(rooms[Mine(t)]) /\ MySeat(t) \in Seat
         /\ rooms[Mine(t)].ws[MySeat(t)] = cur[t] /\ cur[t] \in Socket
         /\ Core(Now(t)) /\ SameSeats(Now(t), rooms[Mine(t)])
         /\ Now(t).winner = rooms[Mine(t)].winner
         /\ MyColour(t) \in 1..2
  <1>1. cur[t] \in Socket /\ Mine(t) \in Room
    BY Invariants DEF Here, InRoom, Old, Mine, TypeOK
  <1>2. RoomOK(rooms[Mine(t)])
    BY <1>1 DEF IInv, RoomsOK
  <1>3. MySeat(t) \in Seat /\ rooms[Mine(t)].ws[MySeat(t)] = cur[t]
    BY SeatInOK DEF Here, InRoom, MySeat, OldSeat, Mine, Old
  <1>4. /\ Core(Now(t)) /\ SameSeats(Now(t), rooms[Mine(t)])
        /\ Now(t).winner = rooms[Mine(t)].winner
    BY <1>2, ExpireUndoOK DEF Now, RoomOK
  <1>5. MyColour(t) \in 1..2
    BY <1>3, <1>4, ColourTyped DEF MyColour, Core
  <1> QED BY <1>1, <1>2, <1>3, <1>4, <1>5

LEMMA ShownTyped == ASSUME NEW r \in Room, NEW rm PROVE Shown(r, rm) \subseteq Room \X Seat
  BY DEF Shown

(* A message about a game in progress: a new state for the same players. *)
Answered(t) ==
    /\ Here(t) /\ Now(t).winner = 0
    /\ \E x : Answer(t, x) /\ Core(x) /\ SameSeats(x, Now(t))

LEMMA AnsweredRoom ==
  ASSUME IInv, NEW t \in Tab, Answered(t)
  PROVE  /\ Mine(t) \in Room /\ rooms[Mine(t)].winner = 0
         /\ \E x : Answer(t, x) /\ Core(x) /\ SameSeats(x, rooms[Mine(t)])
  BY HereOK DEF Answered, SameSeats

LEMMA AnsweredKeeps == ASSUME IInv, NEW t \in Tab, Answered(t) PROVE IInv'
  <1>1. Mine(t) \in Room
    BY AnsweredRoom
  <1>2. PICK x : Answer(t, x) /\ Core(x) /\ SameSeats(x, rooms[Mine(t)])
    BY AnsweredRoom
  <1>3. Shown(Mine(t), x) \subseteq Room \X Seat
    BY <1>1, ShownTyped
  <1>4. Rest'
    BY <1>2, <1>3 DEF Answer, Published, IInv, Rest
  <1> QED BY <1>1, <1>2, <1>4, QuietKeeps DEF Answer, Published

LEMMA MoveAnswers == ASSUME IInv, NEW t \in Tab, Move(t) PROVE Answered(t)
  <1>1. Here(t) /\ Now(t).undo = 0 /\ Now(t).moves < BoardSize /\ Now(t).winner = 0
    BY DEF Move, CanAct
  <1>2. PICK end \in {"five", "draw", "no"} : Answer(t, Stone(Now(t), end))
    BY DEF Move
  <1>3. Core(Now(t)) /\ Now(t) \in RoomRec
    BY <1>1, HereOK DEF Core
  <1>4. Core(Stone(Now(t), end)) /\ SameSeats(Stone(Now(t), end), Now(t))
    BY <1>1, <1>3, StoneOK
  <1> QED BY <1>1, <1>2, <1>4 DEF Answered

LEMMA UndoRequestAnswers ==
  ASSUME IInv, NEW t \in Tab, UndoRequest(t) PROVE Answered(t)
  <1> DEFINE rm == Now(t)
             c == MyColour(t)
             x == Clock([rm EXCEPT !.asked[c] = @ + 1, !.undo = c])
  <1>1. Here(t) /\ rm.moves > 0 /\ rm.asked[c] < UndoLimit /\ Answer(t, x) /\ rm.winner = 0
    BY DEF UndoRequest, CanAct
  <1>2. rm \in RoomRec /\ c \in 1..2
    BY <1>1, HereOK DEF Core
  <1>3. Core(x) /\ SameSeats(x, rm)
    <2> HIDE DEF rm, c
    <2> QED BY <1>1, <1>2, AskOK
  <1> HIDE DEF x
  <1> QED BY <1>1, <1>3 DEF Answered

LEMMA UndoRespondAnswers ==
  ASSUME IInv, NEW t \in Tab, UndoRespond(t) PROVE Answered(t)
  <1> DEFINE e == EndUndo(Now(t))
             m == e.moves - 1
  <1>1. Here(t) /\ Now(t).undo # 0 /\ Now(t).winner = 0
    BY DEF UndoRespond, CanAct
  <1>2. Answer(t, NewClock([e EXCEPT !.moves = m])) \/ Answer(t, Clock(e))
    BY DEF UndoRespond
  <1>3. Now(t) \in RoomRec /\ Now(t).moves > 0
    BY <1>1, HereOK DEF Core
  <1>4. e \in RoomRec /\ SameSeats(e, Now(t)) /\ e.undo = 0 /\ e.moves = Now(t).moves
    BY <1>3, EndUndoTyped
  <1> HIDE DEF e
  <1>5. m \in 0..BoardSize
    BY <1>3, <1>4 DEF RoomRec
  <1>6. CASE Answer(t, Clock(e))
    BY <1>1, <1>4, <1>6, ClockOK DEF SameSeats, Answered
  <1>7. CASE Answer(t, NewClock([e EXCEPT !.moves = m]))
    <2> DEFINE b == [e EXCEPT !.moves = m]
    <2>1. b \in RoomRec /\ SameSeats(b, e) /\ b.undo = 0
      BY <1>4, <1>5, MovesTyped
    <2> HIDE DEF b
    <2>2. Core(NewClock(b)) /\ SameSeats(NewClock(b), Now(t))
      BY <1>4, <2>1, NewClockOK DEF SameSeats
    <2>3. Answer(t, NewClock(b))
      BY <1>7 DEF b
    <2> QED BY <1>1, <2>2, <2>3 DEF Answered
  <1> QED BY <1>2, <1>6, <1>7

LEMMA ResignAnswers == ASSUME IInv, NEW t \in Tab, Resign(t) PROVE Answered(t)
  <1>1. Here(t) /\ Answer(t, Finish(Now(t), 3 - MyColour(t))) /\ Now(t).winner = 0
    BY DEF Resign, CanAct
  <1>2. Now(t) \in RoomRec /\ 3 - MyColour(t) \in 1..Draw
    BY <1>1, HereOK DEF Core, Draw
  <1>3. Core(Finish(Now(t), 3 - MyColour(t))) /\ SameSeats(Finish(Now(t), 3 - MyColour(t)), Now(t))
    BY <1>2, FinishOK
  <1> QED BY <1>1, <1>3 DEF Answered

LEMMA Answers ==
  ASSUME IInv, NEW t \in Tab, Move(t) \/ UndoRequest(t) \/ UndoRespond(t) \/ Resign(t)
  PROVE  Answered(t)
  BY MoveAnswers, UndoRequestAnswers, UndoRespondAnswers, ResignAnswers

LEMMA RematchKeeps == ASSUME IInv, NEW t \in Tab, Rematch(t) PROVE IInv'
  <1> DEFINE r == Mine(t)
             rm == rooms[Mine(t)]
             votes == {MyColour(t)}
             swapped == [rm EXCEPT !.first = 3 - rm.first]
  <1>1. Here(t) /\ UNCHANGED <<at, up, cur, session, restarts>> /\ due' = TRUE
    BY DEF Rematch
  <1>2. r \in Room /\ rm \in RoomRec /\ Core(rm) /\ votes \in SUBSET (1..2)
    BY <1>1, HereOK DEF RoomOK, Core
  <1>3. recorded' \subseteq Room \X Seat
    BY DEF Rematch, IInv, Rest
  <1>4. Rest'
    BY <1>1, <1>3 DEF IInv, Rest
  <1>5. CASE rm.votes = {}
    <2> DEFINE x == [rm EXCEPT !.votes = votes]
    <2>1. rooms' = [rooms EXCEPT ![r] = x]
      BY <1>5 DEF Rematch
    <2>2. x \in RoomRec
      BY <1>2, Put
    <2>3. /\ SameSeats(x, rm) /\ x.running = rm.running /\ x.timed = rm.timed
          /\ x.winner = rm.winner /\ x.undo = rm.undo /\ x.moves = rm.moves
      BY <1>2 DEF RoomRec, SameSeats
    <2> HIDE DEF x
    <2>4. Core(x)
      BY <1>2, <2>2, <2>3 DEF Core, Right, Online, SameSeats
    <2> QED BY <1>1, <1>2, <1>4, <2>1, <2>3, <2>4, QuietKeeps
  <1>6. CASE rm.votes # {}
    <2> DEFINE x == Clock(NewGame(swapped))
    <2>1. rooms' = [rooms EXCEPT ![r] = x]
      BY <1>6 DEF Rematch
    <2>2. swapped \in RoomRec /\ SameSeats(swapped, rm)
      <3>1. 3 - rm.first \in 1..2
        BY <1>2 DEF RoomRec
      <3>2. swapped \in RoomRec
        BY <1>2, <3>1, Put
      <3> QED BY <1>2, <3>2 DEF RoomRec, SameSeats
    <2> HIDE DEF swapped
    <2>3. Core(x) /\ SameSeats(x, rm)
      BY <2>2, NewGameOK DEF SameSeats
    <2> HIDE DEF x
    <2> QED BY <1>1, <1>2, <1>4, <2>1, <2>3, QuietKeeps
  <1> QED BY <1>5, <1>6

(* Time. *)
LEMMA FlagKeeps ==
  ASSUME IInv, NEW r \in Room, NEW x \in RoomRec, SameSeats(x, rooms[r]),
         x.running = rooms[r].running, x.timed = rooms[r].timed, x.winner = rooms[r].winner,
         x.undo = rooms[r].undo, x.moves = rooms[r].moves,
         rooms' = [rooms EXCEPT ![r] = x], UNCHANGED <<at, up, due, pages, restarts>>
  PROVE  IInv'
  <1>1. Core(rooms[r])
    BY DEF IInv, RoomsOK, RoomOK
  <1>2. Core(x)
    BY <1>1 DEF Core, Right, Online, SameSeats
  <1>3. Rest' /\ UNCHANGED <<at, cur, session>>
    BY DEF IInv, Rest, pages
  <1> QED BY <1>2, <1>3, QuietKeeps

LEMMA RoomTyped == ASSUME IInv, NEW r \in Room PROVE rooms[r] \in RoomRec
  BY DEF IInv, RoomsOK

LEMMA TimeKeeps ==
  ASSUME IInv, NEW r \in Room, UndoRunsOut(r) \/ ClockRunsOut(r) \/ GraceRunsOut(r)
  PROVE  IInv'
  <1> DEFINE rm == rooms[r]
  <1>0. rm \in RoomRec
    BY RoomTyped
  <1>1. CASE UndoRunsOut(r)
    <2> DEFINE x == [rm EXCEPT !.over = TRUE]
    <2>1. x \in RoomRec
      BY <1>0, Put
    <2>2. /\ SameSeats(x, rm) /\ x.running = rm.running /\ x.timed = rm.timed
          /\ x.winner = rm.winner /\ x.undo = rm.undo /\ x.moves = rm.moves
      BY <1>0 DEF RoomRec, SameSeats
    <2>3. rooms' = [rooms EXCEPT ![r] = x] /\ UNCHANGED <<at, up, due, pages, restarts>>
      BY <1>1 DEF UndoRunsOut
    <2> HIDE DEF x
    <2> QED BY <2>1, <2>2, <2>3, FlagKeeps
  <1>2. CASE ClockRunsOut(r)
    <2> DEFINE x == [rm EXCEPT !.spent = TRUE]
    <2>1. x \in RoomRec
      BY <1>0, Put
    <2>2. /\ SameSeats(x, rm) /\ x.running = rm.running /\ x.timed = rm.timed
          /\ x.winner = rm.winner /\ x.undo = rm.undo /\ x.moves = rm.moves
      BY <1>0 DEF RoomRec, SameSeats
    <2>3. rooms' = [rooms EXCEPT ![r] = x] /\ UNCHANGED <<at, up, due, pages, restarts>>
      BY <1>2 DEF ClockRunsOut
    <2> HIDE DEF x
    <2> QED BY <2>1, <2>2, <2>3, FlagKeeps
  <1>3. CASE GraceRunsOut(r)
    <2>1. PICK late \in SUBSET Seat : rooms' = [rooms EXCEPT ![r] = [rm EXCEPT !.late = late]]
      BY <1>3 DEF GraceRunsOut
    <2> DEFINE x == [rm EXCEPT !.late = late]
    <2>2. x \in RoomRec
      BY <1>0, Put
    <2>3. /\ SameSeats(x, rm) /\ x.running = rm.running /\ x.timed = rm.timed
          /\ x.winner = rm.winner /\ x.undo = rm.undo /\ x.moves = rm.moves
      BY <1>0 DEF RoomRec, SameSeats
    <2>4. rooms' = [rooms EXCEPT ![r] = x] /\ UNCHANGED <<at, up, due, pages, restarts>>
      BY <1>3, <2>1 DEF GraceRunsOut
    <2> HIDE DEF x
    <2> QED BY <2>2, <2>3, <2>4, FlagKeeps
  <1> QED BY <1>1, <1>2, <1>3

LEMMA MaintainKeeps == ASSUME IInv, NEW r \in Room, Maintain(r) PROVE IInv'
  <1> DEFINE a == ExpireUndo(rooms[r])
             b == FinishAbsent(a)
             x == FinishTimeout(b)
  <1>1. Core(rooms[r])
    BY DEF IInv, RoomsOK, RoomOK
  <1>2. Core(x) /\ SameSeats(x, rooms[r])
    <2>1. Core(a) /\ SameSeats(a, rooms[r])
      BY <1>1, ExpireUndoOK
    <2> HIDE DEF a
    <2>2. Core(b) /\ SameSeats(b, a)
      BY <2>1, FinishAbsentOK
    <2> HIDE DEF b
    <2>3. Core(x) /\ SameSeats(x, b)
      BY <2>2, FinishTimeoutOK
    <2> QED BY <2>1, <2>2, <2>3 DEF SameSeats
  <1>3. Published(r, x) /\ UNCHANGED <<at, up, cur, session, restarts>>
    BY DEF Maintain
  <1> HIDE DEF x
  <1>4. Rest'
    BY <1>3, ShownTyped DEF Published, IInv, Rest
  <1> QED BY <1>2, <1>3, <1>4, QuietKeeps DEF Published

LEMMA IdleKeeps == ASSUME IInv, Save \/ Start PROVE IInv'
  BY DEF IInv, Link, Rest, Save, Start, pages

(* Connections end. *)
LEMMA LoseKeeps == ASSUME IInv, NEW t \in Tab, Lose(t) \/ CloseTab(t) PROVE IInv'
  <1>1. session \in [Tab -> Ticket \cup {None}]
    BY Invariants DEF TypeOK
  <1>2. PICK tk \in {session[t], None} :
          cur' = [cur EXCEPT ![t] = None] /\ session' = [session EXCEPT ![t] = tk]
    <2>1. session = [session EXCEPT ![t] = session[t]]
      BY <1>1
    <2> QED BY <2>1 DEF Lose, CloseTab
  <1>3. UNCHANGED <<rooms, at, up, due, recorded, restarts>>
    BY DEF Lose, CloseTab, server
  <1>4. Link'
    BY <1>2, <1>3, Unhook DEF IInv, Link
  <1> QED BY <1>3, <1>4 DEF IInv, Rest

LEMMA CloseKeeps == ASSUME IInv, NEW w \in Socket, Close(w) PROVE IInv'
  <1> DEFINE q == at[w]
             rm == rooms[q]
             k == OldSeat(w)
             x == Drop(rm, k)
  <1>1. /\ at' = [at EXCEPT ![w] = None] /\ UNCHANGED <<up, cur, session, restarts>>
        /\ at[w] # None /\ ~Live(w)
    BY DEF Close
  <1>2. q \in Room /\ w # None
    BY <1>1, Invariants DEF TypeOK
  <1>3. Seats(rm, w) # {} /\ InRoom(w)
    <2>1. PICK j \in Seat : Seats(rm, w) = {j}
      BY <1>1, Invariants DEF SeatsAreServed
    <2>2. j \in Seats(rm, w)
      BY <2>1
    <2>3. rm.ws[j] # None /\ j \in Seat
      BY <1>2, <2>2 DEF Seats
    <2>4. rm.n # 0
      BY <1>2, <2>3, Invariants DEF SeatsAreServed, Seat
    <2> QED BY <1>1, <2>1, <2>4 DEF InRoom, Old, Exists
  <1>4. k \in Seat /\ rm.ws[k] = w
    BY <1>3, SeatInOK DEF OldSeat, Old
  <1>5. rm \in RoomRec /\ RoomOK(rm)
    BY <1>2, RoomTyped DEF IInv, RoomsOK
  <1>6. Core(x) /\ x.n = rm.n /\ x.ws = [rm.ws EXCEPT ![k] = None] /\ x.holder = rm.holder /\ x.closed = rm.closed
    BY <1>4, <1>5, DropOK
  <1>7. rooms' = [rooms EXCEPT ![q] = x] /\ recorded' = recorded \cup Shown(q, x) /\ due' = TRUE
    BY <1>3 DEF Close, Published
  <1> HIDE DEF x, k
  <1>8. RoomOK(x)
    BY <1>4, <1>5, <1>6 DEF RoomOK, Held, Empty, RoomRec
  <1>9. /\ RoomsOK(rooms') /\ WsOf(rooms') = [WsOf(rooms) EXCEPT ![q] = x.ws]
        /\ NsOf(rooms') = [NsOf(rooms) EXCEPT ![q] = x.n]
    BY <1>2, <1>7, <1>8, PutRoom DEF IInv
  <1>10. NsOf(rooms') = NsOf(rooms)
    BY <1>2, <1>6, <1>9 DEF NsOf
  <1>11. WsOf(rooms)[q] = rm.ws
    BY <1>2 DEF WsOf
  <1>12. \A t \in Tab : cur[t] # w
    BY <1>1 DEF Live
  <1>13. Link'
    <2>1. Linked([WsOf(rooms) EXCEPT ![at[w]] = [WsOf(rooms)[at[w]] EXCEPT ![k] = None]],
                 NsOf(rooms), [at EXCEPT ![w] = None], cur, session)
      BY <1>1, <1>4, <1>11, <1>12, Unseat DEF IInv, Link
    <2> QED BY <1>1, <1>6, <1>9, <1>10, <1>11, <2>1 DEF Link
  <1>14. Rest'
    BY <1>1, <1>2, <1>7, ShownTyped DEF IInv, Rest
  <1> QED BY <1>9, <1>13, <1>14 DEF IInv

(* A player's own room, and what remains of it without the player. *)
LEMMA OldRoom ==
  ASSUME IInv, NEW w \in Socket, InRoom(w)
  PROVE  /\ Old(w) \in Room /\ OldSeat(w) \in Seat /\ rooms[Old(w)].ws[OldSeat(w)] = w
         /\ RoomOK(Quit(rooms[Old(w)], OldSeat(w)))
         /\ Quit(rooms[Old(w)], OldSeat(w)).ws \in [Seat -> {None}]
         /\ Quit(rooms[Old(w)], OldSeat(w)).n \in 0..2
  <1> DEFINE rm == rooms[Old(w)]
             k == OldSeat(w)
             x == Quit(rm, k)
  <1>1. k \in Seat /\ rm.ws[k] = w
    BY SeatInOK DEF InRoom, OldSeat
  <1>2. Old(w) \in Room
    BY Invariants DEF TypeOK, Old, InRoom
  <1>3. rm \in RoomRec /\ RoomOK(rm)
    BY <1>2, RoomTyped DEF IInv, RoomsOK
  <1>4. /\ Core(x) /\ \A j \in Seat : x.ws[j] = None
        /\ x.n \in {0, rm.n} /\ (x.n # 0 => x.holder = rm.holder)
    BY <1>1, <1>3, QuitOK
  <1> HIDE DEF x, k
  <1>5. x.ws \in [Seat -> {None}] /\ x.n \in 0..2
    BY <1>4 DEF Core, RoomRec
  <1>6. Held(x)
    BY <1>3, <1>4 DEF Held, RoomOK, Seat
  <1>7. RoomOK(x)
    BY <1>4, <1>6 DEF RoomOK, Empty
  <1> QED BY <1>1, <1>2, <1>5, <1>7 DEF x, k

LEMMA VacateRoom ==
  ASSUME IInv, NEW q \in Room, NEW x, RoomOK(x), x.ws \in [Seat -> {None}], NEW out,
         out = {v \in Socket : \E k \in Seat : rooms[q].ws[k] = v}
  PROVE  /\ RoomsOK([rooms EXCEPT ![q] = x])
         /\ Linked(WsOf([rooms EXCEPT ![q] = x]), NsOf([rooms EXCEPT ![q] = x]),
                   Leaves(at, out), cur, Forget(out))
  <1>1. /\ RoomsOK([rooms EXCEPT ![q] = x])
        /\ WsOf([rooms EXCEPT ![q] = x]) = [WsOf(rooms) EXCEPT ![q] = x.ws]
        /\ NsOf([rooms EXCEPT ![q] = x]) = [NsOf(rooms) EXCEPT ![q] = x.n]
    BY PutRoom DEF IInv
  <1>2. x.n \in 0..2
    BY DEF RoomOK, Core, RoomRec
  <1>3. out = {v \in Socket : \E k \in Seat : WsOf(rooms)[q][k] = v}
    BY DEF WsOf
  <1>4. Linked([WsOf(rooms) EXCEPT ![q] = x.ws], [NsOf(rooms) EXCEPT ![q] = x.n],
               Leaves(at, out), cur, Forgets(cur, session, out))
    BY <1>2, <1>3, Vacate DEF IInv, Link
  <1> QED BY <1>1, <1>4 DEF Forget, Forgets

LEMMA NoRoomEmpty == RoomOK(NoRoom) /\ NoRoom.ws \in [Seat -> {None}]
  <1>1. Held(NoRoom)
    BY NoRoomOK DEF Held, Seat
  <1> QED BY <1>1, NoRoomOK DEF RoomOK, Empty, NoRoom

LEMMA WithoutOK ==
  ASSUME IInv, NEW w \in Socket
  PROVE  /\ RoomsOK(RoomsWithout(w))
         /\ Linked(WsOf(RoomsWithout(w)), NsOf(RoomsWithout(w)), Leaves(at, Leaving(w)), cur,
                   Forget(Leaving(w)))
         /\ Leaves(at, Leaving(w))[w] = None
         /\ \A r \in Room : r # at[w] => RoomsWithout(w)[r] = rooms[r]
         /\ Ends(w) \subseteq Room \X Seat
  <1> DEFINE A1 == Leaves(at, Leaving(w))
  <1>0. /\ rooms \in [Room -> RoomRec] /\ at \in [Socket -> Room \cup {None}]
        /\ session \in [Tab -> Ticket \cup {None}]
    BY Invariants DEF TypeOK
  <1>1. CASE InRoom(w)
    <2> DEFINE q == Old(w)
               x == Quit(rooms[q], OldSeat(w))
    <2>1. /\ q \in Room /\ OldSeat(w) \in Seat /\ rooms[q].ws[OldSeat(w)] = w
          /\ RoomOK(x) /\ x.ws \in [Seat -> {None}]
      BY <1>1, OldRoom
    <2>2. /\ RoomsWithout(w) = [rooms EXCEPT ![q] = x]
          /\ Leaving(w) = {v \in Socket : \E k \in Seat : rooms[q].ws[k] = v}
      BY <1>1 DEF RoomsWithout, Leaving
    <2>3. Ends(w) \subseteq Room \X Seat
      BY <1>1, <2>1 DEF Ends, EndOf
    <2> HIDE DEF x
    <2>4. RoomsOK(RoomsWithout(w))
          /\ Linked(WsOf(RoomsWithout(w)), NsOf(RoomsWithout(w)), A1, cur, Forget(Leaving(w)))
      <3> DEFINE out == Leaving(w)
      <3>1. out = {v \in Socket : \E k \in Seat : rooms[q].ws[k] = v}
        BY <2>2
      <3> HIDE DEF out, q
      <3>2. /\ RoomsOK([rooms EXCEPT ![q] = x])
            /\ Linked(WsOf([rooms EXCEPT ![q] = x]), NsOf([rooms EXCEPT ![q] = x]),
                      Leaves(at, out), cur, Forget(out))
        BY <2>1, <3>1, VacateRoom
      <3> QED BY <2>2, <3>2 DEF out
    <2>5. A1[w] = None
      BY <2>1, <2>2 DEF Leaves
    <2>6. \A r \in Room : r # at[w] => RoomsWithout(w)[r] = rooms[r]
      BY <1>0, <2>1, <2>2 DEF Old
    <2> QED BY <2>3, <2>4, <2>5, <2>6
  <1>2. CASE ~InRoom(w)
    <2>1. RoomsWithout(w) = rooms /\ Leaving(w) = {} /\ Ends(w) = {}
      BY <1>2 DEF RoomsWithout, Leaving, Ends
    <2>2. A1 = at /\ Forget(Leaving(w)) = session
      BY <1>0, <2>1 DEF Forget, Leaves
    <2>3. at[w] = None
      <3> SUFFICES ASSUME at[w] # None PROVE FALSE
        OBVIOUS
      <3>1. PICK j \in Seat : Seats(rooms[at[w]], w) = {j}
        BY Invariants DEF SeatsAreServed
      <3>2. at[w] \in Room /\ rooms[at[w]].ws[j] = w /\ w # None
        BY <1>0, <3>1 DEF Seats
      <3>3. rooms[at[w]].n # 0
        BY <3>2, Invariants DEF SeatsAreServed, Seat
      <3> QED BY <1>2, <3>1, <3>3 DEF InRoom, Old, Exists
    <2> QED BY <2>1, <2>2, <2>3 DEF IInv, Link
  <1> QED BY <1>1, <1>2

LEMMA LeaveKeeps == ASSUME IInv, NEW t \in Tab, Leave(t) PROVE IInv'
  <1> DEFINE w == cur[t]
             A1 == Leaves(at, Leaving(w))
             S1 == Forget(Leaving(w))
  <1>1. w \in Socket
    BY Invariants DEF Leave, TypeOK
  <1>2. /\ RoomsOK(RoomsWithout(w)) /\ Ends(w) \subseteq Room \X Seat
        /\ Linked(WsOf(RoomsWithout(w)), NsOf(RoomsWithout(w)), A1, cur, S1)
    BY <1>1, WithoutOK
  <1>3. /\ rooms' = RoomsWithout(w) /\ at' = A1 /\ session' = S1 /\ cur' = [cur EXCEPT ![t] = None]
        /\ recorded' = recorded \cup Ends(w) /\ due' = TRUE /\ UNCHANGED <<up, restarts>>
    BY DEF Leave, Leaves
  <1>4. S1 = [S1 EXCEPT ![t] = S1[t]]
    BY DEF Forget
  <1> HIDE DEF A1, S1, w
  <1>5. Linked(WsOf(RoomsWithout(w)), NsOf(RoomsWithout(w)), A1, [cur EXCEPT ![t] = None], S1)
    <2> DEFINE tk == S1[t]
    <2>1. tk \in {S1[t], None}
      OBVIOUS
    <2> HIDE DEF tk
    <2>2. Linked(WsOf(RoomsWithout(w)), NsOf(RoomsWithout(w)), A1, [cur EXCEPT ![t] = None],
                 [S1 EXCEPT ![t] = tk])
      BY <1>2, <2>1, Unhook
    <2> QED BY <1>4, <2>2 DEF tk
  <1>6. Rest'
    BY <1>2, <1>3 DEF IInv, Rest
  <1> QED BY <1>2, <1>3, <1>5, <1>6 DEF IInv, Link

LEMMA ExpireKeeps == ASSUME IInv, NEW r \in Room, Expire(r) PROVE IInv'
  <1> DEFINE out == {v \in Socket : \E k \in Seat : rooms[r].ws[k] = v}
             A1 == Leaves(at, out)
  <1>1. /\ rooms' = [rooms EXCEPT ![r] = NoRoom] /\ at' = A1 /\ session' = Forget(out)
        /\ due' = TRUE /\ UNCHANGED <<up, cur, recorded, restarts>>
    BY DEF Expire, Leaves
  <1>2. RoomsOK(rooms') /\ Linked(WsOf(rooms'), NsOf(rooms'), A1, cur, Forget(out))
    <2> HIDE DEF out
    <2>1. out = {v \in Socket : \E k \in Seat : rooms[r].ws[k] = v}
      BY DEF out
    <2> QED BY <1>1, <2>1, NoRoomEmpty, VacateRoom
  <1>3. Rest'
    BY <1>1 DEF IInv, Rest
  <1> QED BY <1>1, <1>2, <1>3 DEF IInv, Link

-----------------------------------------------------------------------------
(* Connections begin. *)

LEMMA FirstFree ==
  ASSUME NEW T, T \subseteq Nat, T # {}
  PROVE  \E w \in T : \A v \in T : w <= v
  <1>1. PICK w \in T : \A v \in T : ~ (<<v, w>> \in OpToRel(<, Nat))
    BY NatLessThanWellFounded, WFMin
  <1>2. \A v \in T : ~ (v < w)
    BY <1>1 DEF OpToRel
  <1> QED BY <1>2

LEMMA WireOK ==
  ASSUME IInv, NEW t \in Tab, CanCall(t)
  PROVE  /\ Wire(t) \in Socket /\ \A u \in Tab \ {t} : cur[u] # Wire(t)
         /\ (cur[t] = None \/ session[t] = None) => at[Wire(t)] = None
         /\ cur[t] # None => Wire(t) = cur[t]
  <1>1. CASE cur[t] = None
    <2>1. Free # {} /\ Free \subseteq Nat
      BY <1>1, SocketAssumption DEF CanCall, Free
    <2>2. NextSocket \in Free
      BY <2>1, FirstFree DEF NextSocket
    <2> QED BY <1>1, <2>2 DEF Wire, Free, Live
  <1>2. CASE cur[t] # None
    <2>1. Wire(t) = cur[t] /\ cur[t] \in Socket
      BY <1>2, Invariants DEF Wire, TypeOK
    <2>2. session[t] = None => at[cur[t]] = None
      BY <1>2 DEF IInv, Link, Linked, Paged
    <2>3. \A u \in Tab \ {t} : cur[u] # cur[t]
      BY <1>2 DEF IInv, Link, Linked, Paged
    <2> QED BY <1>2, <2>1, <2>2, <2>3
  <1> QED BY <1>1, <1>2

LEMMA RoomExists ==
  ASSUME IInv, NEW w \in Socket, at[w] # None
  PROVE  at[w] \in Room /\ rooms[at[w]].n # 0 /\ \E j \in Seat : rooms[at[w]].ws[j] = w
  <1>1. at[w] \in Room
    BY Invariants DEF TypeOK
  <1>2. PICK j \in Seat : Seats(rooms[at[w]], w) = {j}
    BY Invariants DEF SeatsAreServed
  <1>3. rooms[at[w]].ws[j] = w /\ w # None
    BY <1>2 DEF Seats
  <1> QED BY <1>1, <1>3, Invariants DEF SeatsAreServed, Seat

LEMMA SeatedKeeps ==
  ASSUME IInv, NEW t \in Tab, CanEnter(t), Connect(t), UNCHANGED <<up, restarts>>,
         NEW r \in Room, NEW k \in Seat, NEW x, RoomOK(x), NEW w, w = Wire(t), r # at[w],
         rooms[r].ws[k] = None, x.ws = [rooms[r].ws EXCEPT ![k] = w], k <= x.n,
         rooms[r].n <= x.n, Seated(r, k, t, x, w)
  PROVE  IInv'
  <1> DEFINE R1 == RoomsWithout(w)
             A1 == Leaves(at, Leaving(w))
             S1 == Forget(Leaving(w))
             W == WsOf(R1)
             N == NsOf(R1)
             tk == [room |-> r, seat |-> k, to |-> t]
  <1>1. w \in Socket /\ \A u \in Tab \ {t} : cur[u] # w
    BY WireOK DEF CanEnter
  <1>2. /\ RoomsOK(R1) /\ Linked(W, N, A1, cur, S1) /\ A1[w] = None /\ R1[r] = rooms[r]
        /\ Ends(w) \subseteq Room \X Seat
    BY <1>1, WithoutOK
  <1>3. W[r] = rooms[r].ws /\ N[r] = rooms[r].n /\ x.n \in 0..2
    BY <1>2 DEF WsOf, NsOf, RoomOK, Core, RoomRec
  <1>4. tk \in Ticket /\ tk.room = r /\ tk.seat = k
    BY DEF Ticket
  <1>5. /\ rooms' = [R1 EXCEPT ![r] = x] /\ session' = [S1 EXCEPT ![t] = tk] /\ due' = TRUE
        /\ at' = [v \in Socket |-> IF v = w THEN r ELSE IF v \in Leaving(w) THEN None ELSE at[v]]
        /\ cur' = [cur EXCEPT ![t] = w]
        /\ recorded' = (Known \cup Ends(w)) \ ({r} \X Seat)
    BY DEF Seated, Connect
  <1>6. at' = SeatedAt(A1, w, r, None)
    BY <1>5 DEF SeatedAt, Leaves
  <1>7. cur' = SeatedBy(cur, t, w, None) /\ session' = SeatedAs(cur, S1, t, tk, None)
    <2> HIDE DEF R1, A1, S1, W, N, tk
    <2>1. cur \in [Tab -> Socket \cup {None}] /\ S1 \in [Tab -> Ticket \cup {None}]
      BY <1>2 DEF Linked, LinkTypes
    <2>2. cur' = SeatedBy(cur, t, w, None)
      BY <1>5, <2>1 DEF SeatedBy
    <2>3. session' = SeatedAs(cur, S1, t, tk, None)
      BY <1>5, <2>1 DEF SeatedAs
    <2> QED BY <2>2, <2>3
  <1>8. /\ RoomsOK(rooms') /\ WsOf(rooms') = [W EXCEPT ![r] = x.ws]
        /\ NsOf(rooms') = [N EXCEPT ![r] = x.n]
    <2> HIDE DEF R1
    <2>1. PICK R : R = R1
      OBVIOUS
    <2>2. rooms' = [R EXCEPT ![r] = x] /\ W = WsOf(R) /\ N = NsOf(R)
      BY <1>5, <2>1
    <2>3. RoomsOK(R) /\ RoomOK(x) /\ r \in Room
      BY <1>2, <2>1
    <2> HIDE DEF W, N
    <2>4. /\ RoomsOK([R EXCEPT ![r] = x])
          /\ WsOf([R EXCEPT ![r] = x]) = [WsOf(R) EXCEPT ![r] = x.ws]
          /\ NsOf([R EXCEPT ![r] = x]) = [NsOf(R) EXCEPT ![r] = x.n]
      BY ONLY <2>3, PutRoom
    <2> QED BY <2>2, <2>4
  <1>9. Rest'
    <2>1. recorded' \subseteq Room \X Seat
      BY <1>2, <1>5 DEF Known, IInv, Rest
    <2> QED BY <1>5, <2>1 DEF IInv, Rest
  <1> HIDE DEF R1, A1, S1, W, N, tk
  <1>10. Linked([W EXCEPT ![r] = [W[r] EXCEPT ![k] = w]], [N EXCEPT ![r] = x.n],
                SeatedAt(A1, w, r, None), SeatedBy(cur, t, w, None),
                SeatedAs(cur, S1, t, tk, None))
    <2> DEFINE n == x.n
               old == W[r][k]
    <2>1. n \in 0..2 /\ k <= n /\ N[r] <= n /\ old = None
      BY <1>3
    <2> HIDE DEF n
    <2>2. Linked([W EXCEPT ![r] = [W[r] EXCEPT ![k] = w]], [N EXCEPT ![r] = n],
                 SeatedAt(A1, w, r, old), SeatedBy(cur, t, w, old), SeatedAs(cur, S1, t, tk, old))
      BY <1>1, <1>2, <1>4, <2>1, Take
    <2> QED BY <2>1, <2>2 DEF n
  <1> QED BY <1>3, <1>6, <1>7, <1>8, <1>9, <1>10 DEF IInv, Link

LEMMA CreateKeeps == ASSUME IInv, NEW t \in Tab, Create(t) PROVE IInv'
  <1> DEFINE w == Wire(t)
  <1>1. PICK r \in Room, timed \in TimeControl :
          /\ Unused(r)
          /\ Seated(r, 1, t, Attach([NoRoom EXCEPT !.n = 1, !.holder[1] = t, !.timed = timed], 1, w),
                    w)
    BY DEF Create
  <1> DEFINE holder == [NoRoom.holder EXCEPT ![1] = t]
             a == [NoRoom EXCEPT !.n = 1]
             b == [a EXCEPT !.holder = holder]
             c == [b EXCEPT !.timed = timed]
             x == Attach(c, 1, w)
  <1>2. CanEnter(t) /\ Connect(t) /\ UNCHANGED <<up, restarts>> /\ w \in Socket
    BY WireOK DEF Create, CanEnter
  <1>3. NoRoom \in RoomRec /\ NoRoom.ws = [j \in Seat |-> None]
    BY NoRoomOK DEF Core, NoRoom
  <1>4. c \in RoomRec
    <2>1. 1 \in 0..2 /\ holder \in [Seat -> Tab \cup {None}] /\ timed \in BOOLEAN
      BY TimeControlAssumption DEF NoRoom, Seat
    <2> HIDE DEF holder
    <2>2. a \in RoomRec
      BY <1>3, <2>1, Put
    <2> HIDE DEF a
    <2>3. b \in RoomRec
      BY <2>1, <2>2, Put
    <2> HIDE DEF b
    <2> QED BY <2>1, <2>3, Put
  <1>5. /\ c.n = 1 /\ c.ws = NoRoom.ws /\ c.holder = holder /\ c.undo = 0 /\ c.closed = FALSE
    BY DEF NoRoom
  <1>6. [NoRoom EXCEPT !.n = 1, !.holder[1] = t, !.timed = timed] = c
    BY DEF NoRoom
  <1>7. holder[1] = t
    BY DEF NoRoom, Seat
  <1> HIDE DEF c, holder
  <1>8. /\ Core(x) /\ x.n = 1 /\ x.ws = [NoRoom.ws EXCEPT ![1] = w] /\ x.holder = holder
        /\ x.closed = FALSE
    BY <1>2, <1>4, <1>5, AttachOK DEF Seat
  <1>9. RoomOK(x)
    BY <1>7, <1>8 DEF RoomOK, Held, Empty, Seat
  <1>10. rooms[r].n = 0 /\ r # at[w]
    <2>1. rooms[r].n = 0
      BY <1>1 DEF Unused, Exists
    <2> QED BY <1>2, <2>1, RoomExists
  <1>11. rooms[r].ws = NoRoom.ws
    <2>1. rooms[r].ws \in [Seat -> Socket \cup {None}]
      BY RoomTyped DEF RoomRec
    <2>2. \A j \in Seat : rooms[r].ws[j] = None
      BY <1>10, Invariants DEF SeatsAreServed, Seat
    <2> QED BY <1>3, <2>1, <2>2
  <1>12. Seated(r, 1, t, x, w)
    BY <1>1, <1>6
  <1>13. rooms[r].ws[1] = None /\ 1 \in Seat
    BY <1>3, <1>11 DEF Seat
  <1> HIDE DEF x, w
  <1> QED BY <1>2, <1>8, <1>9, <1>10, <1>11, <1>12, <1>13, SeatedKeeps DEF w

LEMMA JoinKeeps == ASSUME IInv, NEW t \in Tab, NEW r \in Room, Join(t, r) PROVE IInv'
  <1> DEFINE w == Wire(t)
             rm == rooms[r]
             holder == [rm.holder EXCEPT ![2] = t]
             a == [rm EXCEPT !.n = 2]
             b == [a EXCEPT !.holder = holder]
             x == Attach(b, 2, w)
  <1>1. /\ CanEnter(t) /\ Connect(t) /\ UNCHANGED <<up, restarts>> /\ w \in Socket
        /\ rm.n = 1 /\ rm.ws[1] # None /\ rm.ws[1] # w
        /\ Seated(r, 2, t, Attach([rm EXCEPT !.n = 2, !.holder[2] = t], 2, w), w)
    BY WireOK DEF Join, CanEnter
  <1>2. rm \in RoomRec /\ RoomOK(rm)
    BY RoomTyped DEF IInv, RoomsOK
  <1>3. holder \in [Seat -> Tab \cup {None}]
    BY <1>2 DEF RoomRec
  <1>4. b \in RoomRec
    <2> HIDE DEF holder
    <2>1. 2 \in 0..2
      OBVIOUS
    <2>2. a \in RoomRec
      BY <1>2, <2>1, Put
    <2> HIDE DEF a
    <2> QED BY <1>3, <2>2, Put
  <1>5. /\ b.n = 2 /\ b.ws = rm.ws /\ b.holder = holder /\ b.undo = rm.undo /\ b.moves = rm.moves
        /\ b.closed = rm.closed
    BY <1>2 DEF RoomRec
  <1>6. [rm EXCEPT !.n = 2, !.holder[2] = t] = b
    BY <1>2 DEF RoomRec
  <1>7. holder[2] = t /\ holder[1] = rm.holder[1]
    BY <1>2 DEF RoomRec, Seat
  <1>8. rm.holder[1] \in Tab /\ rm.closed = FALSE /\ (rm.undo # 0 => rm.moves > 0)
    BY <1>1, <1>2 DEF RoomOK, Held, Empty, Seat, Core, RoomRec
  <1> HIDE DEF b, holder
  <1>9. /\ Core(x) /\ x.n = 2 /\ x.ws = [rm.ws EXCEPT ![2] = w] /\ x.holder = holder
        /\ x.closed = FALSE
    BY <1>1, <1>4, <1>5, <1>8, AttachOK DEF Seat
  <1>10. RoomOK(x)
    BY <1>7, <1>8, <1>9 DEF RoomOK, Held, Empty, Seat
  <1>11. rm.ws[2] = None
    BY <1>1, Invariants DEF SeatsAreServed, Seat
  <1>12. r # at[w]
    <2> SUFFICES ASSUME r = at[w] PROVE FALSE
      OBVIOUS
    <2>1. r # None
      OBVIOUS
    <2>2. \E j \in Seat : rm.ws[j] = w
      BY <1>1, <2>1, RoomExists
    <2> QED BY <1>1, <1>11, <2>2 DEF Seat
  <1>13. Seated(r, 2, t, x, w) /\ 2 \in Seat
    BY <1>1, <1>6 DEF Seat
  <1> HIDE DEF x, w
  <1> QED BY <1>1, <1>9, <1>10, <1>11, <1>12, <1>13, SeatedKeeps DEF w

(* A page connects and has no seat. *)
LEMMA HookKeeps ==
  ASSUME IInv, NEW t \in Tab, NEW w \in Socket, at[w] = None, \A u \in Tab \ {t} : cur[u] # w,
         NEW R, RoomsOK(R), Linked(WsOf(R), NsOf(R), at, cur, session), rooms' = R, at' = at,
         Opened(t, w, None), session' = [session EXCEPT ![t] = None], Rest'
  PROVE  IInv'
  <1>1. cur' = [cur EXCEPT ![t] = w]
    BY Invariants DEF Opened, TypeOK
  <1>2. Linked(WsOf(R), NsOf(R), at, [cur EXCEPT ![t] = w], [session EXCEPT ![t] = None])
    BY Hook
  <1> QED BY <1>1, <1>2 DEF IInv, Link

LEMMA ExpiredKeeps ==
  ASSUME IInv, NEW t \in Tab, CanCall(t), NEW tk \in Ticket, cur[t] = None \/ session[t] = None,
         ResumeExpired(t, tk), Opened(t, Wire(t), None), UNCHANGED <<up, restarts>>
  PROVE  IInv'
  <1> DEFINE w == Wire(t)
  <1>1. w \in Socket /\ at[w] = None /\ \A u \in Tab \ {t} : cur[u] # w
    BY WireOK
  <1>2. session' = [session EXCEPT ![t] = None] /\ UNCHANGED <<rooms, at, due, recorded>>
    BY DEF ResumeExpired
  <1>3. Rest'
    BY <1>2 DEF IInv, Rest
  <1>4. RoomsOK(rooms) /\ Linked(WsOf(rooms), NsOf(rooms), at, cur, session)
    BY DEF IInv, Link
  <1> HIDE DEF w
  <1>5. Opened(t, w, None)
    BY DEF w
  <1> QED BY <1>1, <1>2, <1>3, <1>4, <1>5, HookKeeps

LEMMA ClosedKeeps ==
  ASSUME IInv, NEW t \in Tab, CanCall(t), NEW tk \in Ticket, cur[t] = None \/ session[t] = None,
         ResumeClosed(t, tk), Opened(t, Wire(t), rooms[tk.room].ws[tk.seat]),
         UNCHANGED <<up, restarts>>
  PROVE  IInv'
  <1> DEFINE w == Wire(t)
             q == tk.room
             rm == rooms[q]
             received == rm.received \cup {tk.seat}
             x == IF received = Seat THEN NoRoom ELSE [rm EXCEPT !.received = received]
             R == [rooms EXCEPT ![q] = x]
  <1>1. w \in Socket /\ at[w] = None /\ \A u \in Tab \ {t} : cur[u] # w
    BY WireOK
  <1>2. q \in Room /\ tk.seat \in Seat
    BY DEF Ticket
  <1>3. rm \in RoomRec /\ RoomOK(rm) /\ rm.closed
    BY <1>2, RoomTyped DEF ResumeClosed, IInv, RoomsOK
  <1>4. \A k \in Seat : rm.ws[k] = None
    BY <1>3 DEF RoomOK, Empty
  <1>5. Opened(t, w, None)
    BY <1>2, <1>4
  <1>6. /\ rooms' = R /\ recorded' = recorded \cup {<<q, tk.seat>>} /\ due' = TRUE
        /\ session' = [session EXCEPT ![t] = None] /\ at' = at
    BY DEF ResumeClosed
  <1>7. Rest'
    BY <1>2, <1>6 DEF IInv, Rest
  <1>8. RoomOK(x) /\ x.ws \in [Seat -> {None}]
    <2>1. CASE received = Seat
      BY <2>1, NoRoomEmpty
    <2>2. CASE received # Seat
      <3> DEFINE y == [rm EXCEPT !.received = received]
      <3>1. received \in SUBSET Seat
        BY <1>2, <1>3 DEF RoomRec
      <3> HIDE DEF received
      <3>2. y \in RoomRec
        BY <1>3, <3>1, Put
      <3>3. /\ y.n = rm.n /\ y.ws = rm.ws /\ y.holder = rm.holder /\ y.closed = rm.closed
            /\ y.running = rm.running /\ y.timed = rm.timed
            /\ y.winner = rm.winner /\ y.undo = rm.undo /\ y.moves = rm.moves
        BY <1>3 DEF RoomRec
      <3> HIDE DEF y
      <3>4. Core(y)
        BY <1>3, <3>2, <3>3 DEF RoomOK, Core, Right, Online
      <3>5. RoomOK(y)
        BY <1>3, <3>3, <3>4 DEF RoomOK, Held, Empty
      <3>6. y.ws \in [Seat -> {None}]
        BY <1>3, <1>4, <3>3 DEF RoomRec
      <3> QED BY <2>2, <3>5, <3>6 DEF y
    <2> QED BY <2>1, <2>2
  <1> HIDE DEF x
  <1>9. RoomsOK(R) /\ Linked(WsOf(R), NsOf(R), at, cur, session)
    <2> DEFINE out == {v \in Socket : \E k \in Seat : rooms[q].ws[k] = v}
    <2>1. out = {}
      BY <1>4
    <2>2. Leaves(at, out) = at /\ Forget(out) = session
      BY <2>1, Invariants DEF Leaves, Forget, TypeOK
    <2> HIDE DEF out
    <2>3. out = {v \in Socket : \E k \in Seat : rooms[q].ws[k] = v}
      BY DEF out
    <2> HIDE DEF q
    <2>4. RoomsOK(R) /\ Linked(WsOf(R), NsOf(R), Leaves(at, out), cur, Forget(out))
      BY <1>2, <1>8, <2>3, VacateRoom
    <2> QED BY <2>2, <2>4
  <1> HIDE DEF R, w
  <1> QED BY <1>1, <1>5, <1>6, <1>7, <1>9, HookKeeps

LEMMA BackKeeps ==
  ASSUME IInv, NEW t \in Tab, CanCall(t), NEW tk \in Ticket, cur[t] = None \/ session[t] = None,
         ResumeSeat(t, tk, Wire(t)), Opened(t, Wire(t), rooms[tk.room].ws[tk.seat]),
         UNCHANGED <<up, restarts>>
  PROVE  IInv'
  <1> DEFINE w == Wire(t)
             q == tk.room
             k == tk.seat
             rm == FinishAbsent(rooms[q])
             old == rooms[q].ws[k]
             x == Attach(rm, k, w)
             R == [rooms EXCEPT ![q] = x]
  <1>1. w \in Socket /\ at[w] = None /\ \A u \in Tab \ {t} : cur[u] # w
    BY WireOK
  <1>2. q \in Room /\ k \in Seat /\ k <= rooms[q].n /\ ~rm.closed
    BY DEF Ticket, ResumeSeat, Valid
  <1>3. RoomOK(rooms[q]) /\ Core(rooms[q])
    BY <1>2 DEF IInv, RoomsOK, RoomOK
  <1>4. Core(rm) /\ SameSeats(rm, rooms[q])
    BY <1>3, FinishAbsentOK
  <1>5. /\ rooms' = R /\ due' = TRUE
        /\ recorded' = recorded \cup Shown(q, x)
                          \cup (IF x.winner # 0 THEN {<<q, k>>} ELSE {})
    BY DEF ResumeSeat
  <1>6. /\ at' = SeatedAt(at, w, q, rm.ws[k]) /\ session' = SeatedAs(cur, session, t, tk, rm.ws[k])
        /\ cur' = SeatedBy(cur, t, w, old)
    BY DEF ResumeSeat, Opened, SeatedAt, SeatedAs, SeatedBy
  <1>7. rm.ws[k] = old
    BY <1>4 DEF SameSeats
  <1>8. Rest'
    <2>1. Shown(q, x) \subseteq Room \X Seat
      BY <1>2, ShownTyped
    <2> HIDE DEF x
    <2> QED BY <1>2, <1>5, <2>1 DEF IInv, Rest
  <1> HIDE DEF rm
  <1>9. /\ Core(x) /\ x.n = rooms[q].n /\ x.ws = [rooms[q].ws EXCEPT ![k] = w]
        /\ x.holder = rooms[q].holder /\ x.closed = FALSE
    <2>1. rm \in RoomRec /\ (rm.undo # 0 => rm.moves > 0) /\ rm.closed = FALSE
      BY <1>2, <1>4 DEF Core, SameSeats, RoomRec
    <2> HIDE DEF w, q, k
    <2> QED BY <1>1, <1>2, <1>4, <2>1, AttachOK DEF SameSeats
  <1> HIDE DEF x
  <1>10. RoomOK(x)
    BY <1>3, <1>9 DEF RoomOK, Held, Empty
  <1>11. /\ RoomsOK(R) /\ WsOf(R) = [WsOf(rooms) EXCEPT ![q] = x.ws]
         /\ NsOf(R) = [NsOf(rooms) EXCEPT ![q] = x.n]
    <2> HIDE DEF q
    <2> QED BY <1>2, <1>10, PutRoom DEF IInv
  <1>12. WsOf(rooms)[q] = rooms[q].ws /\ NsOf(rooms)[q] = rooms[q].n /\ rooms[q].n \in 0..2
    BY <1>2, <1>3 DEF WsOf, NsOf, Core, RoomRec
  <1>13. Linked(WsOf(R), NsOf(R), SeatedAt(at, w, q, old), SeatedBy(cur, t, w, old),
                SeatedAs(cur, session, t, tk, old))
    <2> DEFINE n == rooms[q].n
    <2>1. n \in 0..2 /\ k <= n /\ NsOf(rooms)[q] <= n /\ old = WsOf(rooms)[q][k]
      BY <1>2, <1>12
    <2>2. tk.room = q /\ tk.seat = k
      OBVIOUS
    <2>3. Linked(WsOf(rooms), NsOf(rooms), at, cur, session)
      BY DEF IInv, Link
    <2>4. WsOf(R) = [WsOf(rooms) EXCEPT ![q] = [WsOf(rooms)[q] EXCEPT ![k] = w]]
          /\ NsOf(R) = [NsOf(rooms) EXCEPT ![q] = n]
      BY <1>9, <1>11, <1>12
    <2>5. PICK W, N : W = WsOf(rooms) /\ N = NsOf(rooms)
      OBVIOUS
    <2> HIDE DEF n, old, w, q, k, R
    <2>6. Linked(W, N, at, cur, session) /\ N[q] <= n /\ old = W[q][k]
      BY <2>1, <2>3, <2>5
    <2>7. Linked([W EXCEPT ![q] = [W[q] EXCEPT ![k] = w]], [N EXCEPT ![q] = n],
                 SeatedAt(at, w, q, old), SeatedBy(cur, t, w, old),
                 SeatedAs(cur, session, t, tk, old))
      BY <1>1, <1>2, <2>1, <2>2, <2>6, Take
    <2> QED BY <2>4, <2>5, <2>7
  <1> HIDE DEF R, w, q, k, old
  <1> QED BY <1>5, <1>6, <1>7, <1>8, <1>11, <1>13 DEF IInv, Link

LEMMA ResumeKeeps ==
  ASSUME IInv, NEW t \in Tab, CanCall(t), NEW tk \in Ticket, cur[t] = None \/ session[t] = None,
         ResumeAs(t, tk)
  PROVE  IInv'
  <1>1. UNCHANGED <<up, restarts>>
    BY DEF ResumeAs
  <1>2. CASE ResumeExpired(t, tk)
    <2>1. Opened(t, Wire(t), None)
      BY <1>2 DEF ResumeAs, ResumeExpired
    <2> QED BY <1>1, <1>2, <2>1, ExpiredKeeps
  <1>3. CASE ResumeClosed(t, tk)
    <2>1. Opened(t, Wire(t), rooms[tk.room].ws[tk.seat])
      BY <1>3 DEF ResumeAs, ResumeClosed
    <2> QED BY <1>1, <1>3, <2>1, ClosedKeeps
  <1>4. CASE ResumeSeat(t, tk, Wire(t))
    <2>1. Opened(t, Wire(t), rooms[tk.room].ws[tk.seat])
      BY <1>4 DEF ResumeAs, ResumeSeat
    <2> QED BY <1>1, <1>4, <2>1, BackKeeps
  <1> QED BY <1>2, <1>3, <1>4 DEF ResumeAs

LEMMA ReconnectKeeps == ASSUME IInv, NEW t \in Tab, Reconnect(t) PROVE IInv'
  <1>1. CanCall(t) /\ cur[t] = None /\ session[t] \in Ticket /\ ResumeAs(t, session[t])
    BY Invariants DEF Reconnect, TypeOK
  <1> DEFINE tk == session[t]
  <1>2. tk \in Ticket /\ ResumeAs(t, tk)
    BY <1>1
  <1> HIDE DEF tk
  <1> QED BY <1>1, <1>2, ResumeKeeps

LEMMA RecoverKeeps ==
  ASSUME IInv, NEW t \in Tab, NEW r \in Room, NEW k \in Seat, Recover(t, r, k) PROVE IInv'
  <1> DEFINE tk == [room |-> r, seat |-> k, to |-> rooms[r].holder[k]]
  <1>1. CanCall(t) /\ session[t] = None /\ k <= rooms[r].n /\ ResumeAs(t, tk)
    BY DEF Recover
  <1>2. rooms[r].holder[k] \in Tab
    BY <1>1 DEF IInv, RoomsOK, RoomOK, Held
  <1>3. tk \in Ticket
    BY <1>2 DEF Ticket
  <1> HIDE DEF tk
  <1> QED BY <1>1, <1>3, ResumeKeeps

-----------------------------------------------------------------------------
(* The server stops: what startup will restore, without connections. *)

LEMMA StopKeeps == ASSUME IInv, NEW graceful \in BOOLEAN, Stop(graceful) PROVE IInv'
  <1> DEFINE a(r) == IF graceful THEN [rooms[r] EXCEPT !.running = FALSE] ELSE rooms[r]
             R == [r \in Room |-> Saved(a(r))]
             A == [w \in Socket |-> None]
             C == [t \in Tab |-> None]
  <1>1. /\ rooms' = R /\ at' = A /\ cur' = C /\ restarts' = restarts + 1 /\ up' = FALSE
        /\ due' = FALSE /\ UNCHANGED <<session, recorded>> /\ restarts < MaxRestarts
    BY DEF Stop
  <1>2. ASSUME NEW r \in Room
        PROVE  /\ RoomOK(R[r]) /\ R[r].n = rooms[r].n /\ R[r].ws \in [Seat -> Socket \cup {None}]
               /\ \A k \in Seat : R[r].ws[k] = None
    <2>1. rooms[r] \in RoomRec /\ Held(rooms[r])
      BY RoomTyped DEF IInv, RoomsOK, RoomOK
    <2>2. a(r) \in RoomRec /\ a(r).n = rooms[r].n /\ a(r).holder = rooms[r].holder
      <3> DEFINE b == [rooms[r] EXCEPT !.running = FALSE]
      <3>1. b \in RoomRec
        BY <2>1, Put
      <3>2. b.n = rooms[r].n /\ b.holder = rooms[r].holder
        BY <2>1 DEF RoomRec
      <3> HIDE DEF b
      <3>3. a(r) = b \/ a(r) = rooms[r]
        BY DEF b
      <3> QED BY <2>1, <3>1, <3>2, <3>3
    <2>3. R[r] = Saved(a(r))
      OBVIOUS
    <2> DEFINE y == R[r]
               z == a(r)
    <2> HIDE DEF z
    <2>4. Core(Saved(z)) /\ Saved(z).n = z.n /\ Saved(z).holder = z.holder
          /\ \A k \in Seat : Saved(z).ws[k] = None
      BY <2>2, SavedOK DEF z
    <2>5. /\ Core(y) /\ y.n = rooms[r].n /\ y.holder = rooms[r].holder
          /\ \A k \in Seat : y.ws[k] = None
      BY <2>2, <2>3, <2>4 DEF z
    <2> HIDE DEF y
    <2>6. RoomOK(y) /\ y.ws \in [Seat -> Socket \cup {None}]
      BY <2>1, <2>5 DEF RoomOK, Core, RoomRec, Held, Empty
    <2> QED BY <2>5, <2>6 DEF y
  <1> HIDE DEF R
  <1>3. RoomsOK(R)
    <2>1. R \in [Room -> RoomRec]
      BY <1>2 DEF RoomOK, Core, R
    <2> QED BY <1>2, <2>1 DEF RoomsOK
  <1>4. Linked(WsOf(R), NsOf(R), A, C, session)
    <2>1. \A r \in Room : /\ WsOf(R)[r] \in [Seat -> Socket \cup {None}] /\ NsOf(R)[r] \in 0..2
                          /\ \A k \in Seat : WsOf(R)[r][k] = None
      BY <1>2, RoomTyped DEF WsOf, NsOf, RoomRec
    <2>2. session \in [Tab -> Ticket \cup {None}]
      BY Invariants DEF TypeOK
    <2>3. LinkTypes(WsOf(R), NsOf(R), A, C, session)
      BY <2>1, <2>2 DEF LinkTypes, WsOf, NsOf
    <2> QED BY <2>1, <2>3 DEF Linked, Served, Paged, Seat
  <1>5. Rest'
    <2>1. restarts + 1 \in 0..MaxRestarts
      BY <1>1, RestartAssumption DEF IInv, Rest
    <2> QED BY <1>1, <2>1 DEF IInv, Rest
  <1> QED BY <1>1, <1>3, <1>4, <1>5 DEF IInv, Link

-----------------------------------------------------------------------------
(* Every step keeps the invariant. *)

LEMMA StepIInv == IInv /\ [Next]_vars => IInv'
  <1> SUFFICES ASSUME IInv, [Next]_vars PROVE IInv'
    OBVIOUS
  <1>1. ASSUME NEW t \in Tab,
               \/ Create(t) \/ \E r \in Room : Join(t, r)
               \/ Reconnect(t) \/ \E r \in Room, k \in Seat : Recover(t, r, k)
        PROVE  IInv'
    BY <1>1, CreateKeeps, JoinKeeps, ReconnectKeeps, RecoverKeeps
  <1>2. ASSUME NEW t \in Tab,
               \/ Leave(t) \/ Move(t) \/ UndoRequest(t) \/ UndoRespond(t)
               \/ Resign(t) \/ Rematch(t) \/ Lose(t) \/ CloseTab(t)
        PROVE  IInv'
    BY <1>2, LeaveKeeps, Answers, AnsweredKeeps, RematchKeeps, LoseKeeps
  <1>3. ASSUME NEW w \in Socket, Close(w) PROVE IInv'
    BY <1>3, CloseKeeps
  <1>4. ASSUME NEW r \in Room,
               \/ UndoRunsOut(r) \/ ClockRunsOut(r) \/ GraceRunsOut(r) \/ Maintain(r) \/ Expire(r)
        PROVE  IInv'
    BY <1>4, TimeKeeps, MaintainKeeps, ExpireKeeps
  <1>5. ASSUME NEW graceful \in BOOLEAN, Stop(graceful) PROVE IInv'
    BY <1>5, StopKeeps
  <1>6. CASE Save \/ Start
    BY <1>6, IdleKeeps
  <1>7. CASE UNCHANGED vars
    BY <1>7 DEF IInv, Link, Rest, vars, server, pages
  <1> QED BY <1>1, <1>2, <1>3, <1>4, <1>5, <1>6, <1>7 DEF Next

LEMMA AlwaysIInv == Spec => []IInv
  BY InitIInv, StepIInv, PTL DEF Spec

(* Every reachable state is one of the declared types: no handler leaves a   *)
(* room, a connection or a page in a shape that the others do not expect.   *)
THEOREM TypeCorrect == Spec => []TypeOK
  BY AlwaysIInv, Invariants, PTL

(* The clock of a timed game runs exactly while it should, for every order   *)
(* of moves, requests, lost connections, takeovers and restarts.            *)
THEOREM ClockKept == Spec => []ClockIsRight
  BY AlwaysIInv, Invariants, PTL

(* The two records of who sits where, the seats' sockets and the sockets'    *)
(* rooms, agree after every handler.                                        *)
THEOREM SeatsKept == Spec => []SeatsAreServed
  BY AlwaysIInv, Invariants, PTL

(* No page goes on with a seat that the server has given to another one.    *)
THEOREM PagesKept == Spec => []PageIsSeated
  BY AlwaysIInv, Invariants, PTL

-----------------------------------------------------------------------------
(* Results and the number of rooms. *)

(* What a step may do to results, and that it opens no room. *)
Stands ==
    \A r \in Room :
        (Exists(r) /\ rooms[r].winner # 0 /\ up /\ up' /\ rooms'[r].n # 0) =>
            \/ rooms'[r].winner = rooms[r].winner
            \/ /\ rooms'[r].winner = 0
               /\ \E c \in 1..2 : rooms[r].votes = {c}
               /\ Online(rooms[r])
NoneOpens == \A r \in Room : rooms'[r].n # 0 => rooms[r].n # 0

LEMMA OneRoom ==
  ASSUME rooms \in [Room -> RoomRec], NEW q \in Room, NEW x, rooms' = [rooms EXCEPT ![q] = x],
         x.n # 0 => rooms[q].n # 0,
         (x.n # 0 /\ rooms[q].winner # 0) => x.winner = rooms[q].winner
  PROVE  Stands /\ NoneOpens
  BY DEF Stands, NoneOpens

LEMMA NoRoomChanges == ASSUME UNCHANGED rooms PROVE Stands /\ NoneOpens
  BY DEF Stands, NoneOpens

LEMMA AnsweredStands == ASSUME IInv, NEW t \in Tab, Answered(t) PROVE Stands /\ NoneOpens
  <1>1. Mine(t) \in Room /\ rooms[Mine(t)].winner = 0 /\ rooms \in [Room -> RoomRec]
    BY AnsweredRoom DEF IInv, RoomsOK
  <1>2. PICK x : Answer(t, x) /\ SameSeats(x, rooms[Mine(t)])
    BY AnsweredRoom
  <1> QED BY <1>1, <1>2, OneRoom DEF Answer, Published, SameSeats

(* The only step that takes a result away is the second wish of a rematch. *)
LEMMA RematchStands == ASSUME IInv, NEW t \in Tab, Rematch(t) PROVE Stands /\ NoneOpens
  <1> DEFINE r == Mine(t)
             rm == rooms[Mine(t)]
             swapped == [rm EXCEPT !.first = 3 - rm.first]
             votes == {MyColour(t)}
  <1>1. Here(t) /\ Online(rm) /\ MyColour(t) \notin rm.votes /\ rm.winner # 0
    BY DEF Rematch
  <1>2. r \in Room /\ rm \in RoomRec /\ MyColour(t) \in 1..2
    BY <1>1, HereOK DEF RoomOK, Core
  <1>3. rooms \in [Room -> RoomRec]
    BY DEF IInv, RoomsOK
  <1>4. CASE rm.votes = {}
    <2> DEFINE x == [rm EXCEPT !.votes = votes]
    <2>1. rooms' = [rooms EXCEPT ![r] = x]
      BY <1>4 DEF Rematch
    <2>2. x.n = rm.n /\ x.winner = rm.winner
      BY <1>2 DEF RoomRec
    <2> HIDE DEF x
    <2> QED BY <1>2, <1>3, <2>1, <2>2, OneRoom
  <1>5. CASE rm.votes # {}
    <2> DEFINE x == Clock(NewGame(swapped))
    <2>1. rooms' = [rooms EXCEPT ![r] = x]
      BY <1>5 DEF Rematch
    <2>2. swapped \in RoomRec /\ swapped.n = rm.n
      <3>1. 3 - rm.first \in 1..2
        BY <1>2 DEF RoomRec
      <3>2. swapped \in RoomRec
        BY <1>2, <3>1, Put
      <3> QED BY <1>2, <3>2 DEF RoomRec
    <2> HIDE DEF swapped
    <2>3. x.winner = 0 /\ x.n = rm.n
      BY <2>2, NewGameOK DEF SameSeats
    <2>4. \E c \in 1..2 : rm.votes = {c}
      <3>1. rm.votes \subseteq 1..2
        BY <1>2 DEF RoomRec
      <3>2. rm.votes = {1} \/ rm.votes = {2}
        BY <1>1, <1>2, <1>5, <3>1
      <3> QED BY <3>2
    <2> HIDE DEF x
    <2> QED BY <1>1, <1>2, <1>3, <2>1, <2>3, <2>4 DEF Stands, NoneOpens
  <1> QED BY <1>4, <1>5

LEMMA TimeStands ==
  ASSUME IInv, NEW r \in Room, UndoRunsOut(r) \/ ClockRunsOut(r) \/ GraceRunsOut(r)
  PROVE  Stands /\ NoneOpens
  <1>1. rooms[r] \in RoomRec /\ rooms \in [Room -> RoomRec]
    BY RoomTyped DEF IInv, RoomsOK
  <1>2. PICK x : /\ rooms' = [rooms EXCEPT ![r] = x]
                 /\ x.n = rooms[r].n /\ x.winner = rooms[r].winner
    BY <1>1 DEF UndoRunsOut, ClockRunsOut, GraceRunsOut, RoomRec
  <1> QED BY <1>1, <1>2, OneRoom

LEMMA MaintainStands == ASSUME IInv, NEW r \in Room, Maintain(r) PROVE Stands /\ NoneOpens
  <1> DEFINE a == ExpireUndo(rooms[r])
             b == FinishAbsent(a)
             x == FinishTimeout(b)
  <1>1. Core(rooms[r]) /\ rooms \in [Room -> RoomRec]
    BY DEF IInv, RoomsOK, RoomOK
  <1>2. x.n = rooms[r].n /\ (rooms[r].winner # 0 => x.winner = rooms[r].winner)
    <2>1. Core(a) /\ SameSeats(a, rooms[r]) /\ a.winner = rooms[r].winner
      BY <1>1, ExpireUndoOK
    <2> HIDE DEF a
    <2>2. Core(b) /\ SameSeats(b, a) /\ (a.winner # 0 => b = a)
      BY <2>1, FinishAbsentOK
    <2> HIDE DEF b
    <2>3. Core(x) /\ SameSeats(x, b) /\ (b.winner # 0 => x = b)
      BY <2>2, FinishTimeoutOK
    <2> QED BY <2>1, <2>2, <2>3 DEF SameSeats
  <1>3. rooms' = [rooms EXCEPT ![r] = x]
    BY DEF Maintain, Published
  <1> HIDE DEF x
  <1> QED BY <1>1, <1>2, <1>3, OneRoom

LEMMA ExpireStands == ASSUME IInv, NEW r \in Room, Expire(r) PROVE Stands /\ NoneOpens
  <1>1. rooms' = [rooms EXCEPT ![r] = NoRoom] /\ rooms \in [Room -> RoomRec]
    BY DEF Expire, IInv, RoomsOK
  <1> QED BY <1>1, NoRoomOK, OneRoom

LEMMA CloseStands == ASSUME IInv, NEW w \in Socket, Close(w) PROVE Stands /\ NoneOpens
  <1>1. CASE ~InRoom(w)
    <2>1. UNCHANGED rooms
      BY <1>1 DEF Close
    <2> QED BY <2>1, NoRoomChanges
  <1>2. CASE InRoom(w)
    <2> DEFINE q == at[w]
               k == OldSeat(w)
               x == Drop(rooms[q], k)
    <2>1. q \in Room /\ k \in Seat /\ rooms[q] \in RoomRec /\ rooms \in [Room -> RoomRec]
      BY <1>2, OldRoom, RoomTyped DEF Old, IInv, RoomsOK
    <2>2. rooms' = [rooms EXCEPT ![q] = x]
      BY <1>2 DEF Close, Published
    <2>3. x.n = rooms[q].n /\ x.winner = rooms[q].winner
      <3> HIDE DEF q, k
      <3> QED BY <2>1, DropOK
    <2> HIDE DEF x, q
    <2> QED BY <2>1, <2>2, <2>3, OneRoom
  <1> QED BY <1>1, <1>2

(* What remains of the rooms when a connection leaves its own. *)
LEMMA WithoutStands ==
  ASSUME IInv, NEW w \in Socket
  PROVE  /\ \A r \in Room : RoomsWithout(w)[r].n # 0 =>
                /\ rooms[r].n # 0
                /\ rooms[r].winner # 0 => RoomsWithout(w)[r].winner = rooms[r].winner
         /\ at[w] # None /\ ~RetainsResult(rooms[at[w]]) => RoomsWithout(w)[at[w]].n = 0
  <1>0. rooms \in [Room -> RoomRec]
    BY DEF IInv, RoomsOK
  <1>1. CASE InRoom(w)
    <2> DEFINE q == Old(w)
               k == OldSeat(w)
               rm == rooms[q]
               x == Quit(rm, k)
    <2>1. q \in Room /\ k \in Seat /\ rm \in RoomRec /\ q = at[w]
      BY <1>1, OldRoom, RoomTyped DEF Old
    <2>2. RoomsWithout(w) = [rooms EXCEPT ![q] = x]
      BY <1>1 DEF RoomsWithout
    <2>3. rm.n # 0
      BY <1>1 DEF InRoom, Exists
    <2> HIDE DEF k, rm, q
    <2>4. x.n # 0 => RetainsResult(rm) /\ (rm.winner # 0 => x.winner = rm.winner)
      BY <2>1, QuitOK
    <2> HIDE DEF x
    <2> QED BY <1>0, <2>1, <2>2, <2>3, <2>4 DEF rm
  <1>2. CASE ~InRoom(w)
    <2>1. at[w] = None
      <3> SUFFICES ASSUME at[w] # None PROVE FALSE
        OBVIOUS
      <3>1. at[w] \in Room /\ rooms[at[w]].n # 0 /\ \E j \in Seat : rooms[at[w]].ws[j] = w
        BY RoomExists
      <3>2. w # None
        OBVIOUS
      <3> QED BY <1>2, <3>1, <3>2 DEF InRoom, Old, Exists, Seats
    <2> QED BY <1>2, <2>1 DEF RoomsWithout
  <1> QED BY <1>1, <1>2

LEMMA LeaveStands == ASSUME IInv, NEW t \in Tab, Leave(t) PROVE Stands /\ NoneOpens
  <1>1. cur[t] \in Socket /\ rooms' = RoomsWithout(cur[t])
    BY Invariants DEF Leave, TypeOK
  <1> QED BY <1>1, WithoutStands DEF Stands, NoneOpens

LEMMA JoinStands == ASSUME IInv, NEW t \in Tab, NEW r \in Room, Join(t, r) PROVE Stands /\ NoneOpens
  <1> DEFINE w == Wire(t)
  <1>1. w \in Socket /\ rooms[r].n = 1 /\ rooms[r].winner = 0
    BY WireOK DEF Join, CanEnter
  <1>2. PICK x : rooms' = [RoomsWithout(w) EXCEPT ![r] = x]
    BY DEF Join, Seated
  <1>3. RoomsWithout(w) \in [Room -> RoomRec]
    BY <1>1, WithoutOK DEF RoomsOK
  <1>4. \A q \in Room : q # r => rooms'[q] = RoomsWithout(w)[q]
    BY <1>2, <1>3
  <1> HIDE DEF w
  <1> QED BY <1>1, <1>4, WithoutStands DEF Stands, NoneOpens

LEMMA CreateStands ==
  ASSUME IInv, NEW t \in Tab, Create(t)
  PROVE  /\ Stands
         /\ \E r \in Room : /\ rooms[r].n = 0
                            /\ \A q \in Room : q # r => rooms'[q] = RoomsWithout(Wire(t))[q]
  <1> DEFINE w == Wire(t)
  <1>1. w \in Socket
    BY WireOK DEF Create, CanEnter
  <1>2. PICK r \in Room : \E x : rooms[r].n = 0 /\ rooms' = [RoomsWithout(w) EXCEPT ![r] = x]
    BY DEF Create, Seated, Unused, Exists
  <1>3. RoomsWithout(w) \in [Room -> RoomRec]
    BY <1>1, WithoutOK DEF RoomsOK
  <1>4. \A q \in Room : q # r => rooms'[q] = RoomsWithout(w)[q]
    BY <1>2, <1>3
  <1>5. Stands
    <2> HIDE DEF w
    <2> QED BY <1>1, <1>2, <1>4, WithoutStands DEF Stands, Exists
  <1> QED BY <1>2, <1>4, <1>5

LEMMA ResumeStands ==
  ASSUME IInv, NEW t \in Tab, CanCall(t), NEW tk \in Ticket, ResumeAs(t, tk)
  PROVE  Stands /\ NoneOpens
  <1> DEFINE q == tk.room
             k == tk.seat
             w == Wire(t)
  <1>1. q \in Room /\ k \in Seat /\ rooms \in [Room -> RoomRec] /\ w \in Socket
    BY WireOK DEF Ticket, IInv, RoomsOK
  <1>2. CASE ResumeExpired(t, tk)
    BY <1>2, NoRoomChanges DEF ResumeExpired
  <1>3. CASE ResumeClosed(t, tk)
    <2> DEFINE received == rooms[q].received \cup {k}
               x == IF received = Seat THEN NoRoom ELSE [rooms[q] EXCEPT !.received = received]
    <2>1. rooms' = [rooms EXCEPT ![q] = x]
      BY <1>3 DEF ResumeClosed
    <2>2. /\ x.n # 0 => rooms[q].n # 0
          /\ x.n # 0 /\ rooms[q].winner # 0 => x.winner = rooms[q].winner
      <3>1. rooms[q] \in RoomRec
        BY <1>1
      <3>2. [rooms[q] EXCEPT !.received = received].n = rooms[q].n
            /\ [rooms[q] EXCEPT !.received = received].winner = rooms[q].winner
        BY <3>1 DEF RoomRec
      <3> HIDE DEF received
      <3> QED BY <3>2, NoRoomOK
    <2> HIDE DEF x, q
    <2> QED BY <1>1, <2>1, <2>2, OneRoom
  <1>4. CASE ResumeSeat(t, tk, w)
    <2> DEFINE rm == FinishAbsent(rooms[q])
               x == Attach(rm, k, w)
    <2>1. rooms' = [rooms EXCEPT ![q] = x]
      BY <1>4 DEF ResumeSeat
    <2>2. Core(rooms[q])
      BY <1>1 DEF IInv, RoomsOK, RoomOK
    <2>3. Core(rm) /\ SameSeats(rm, rooms[q]) /\ (rooms[q].winner # 0 => rm = rooms[q])
      BY <2>2, FinishAbsentOK
    <2> HIDE DEF rm, k, w
    <2>4. x.n = rm.n /\ x.winner = rm.winner
      BY <1>1, <2>3, AttachOK DEF Core
    <2> HIDE DEF x, q
    <2> QED BY <1>1, <2>1, <2>3, <2>4, OneRoom DEF SameSeats
  <1> QED BY <1>2, <1>3, <1>4 DEF ResumeAs

LEMMA EnterAgainStands ==
  ASSUME IInv, NEW t \in Tab,
         Reconnect(t) \/ \E r \in Room, k \in Seat : Recover(t, r, k)
  PROVE  Stands /\ NoneOpens
  <1>1. CASE Reconnect(t)
    <2> DEFINE tk == session[t]
    <2>1. tk \in Ticket /\ CanCall(t) /\ ResumeAs(t, tk)
      BY <1>1, Invariants DEF Reconnect, TypeOK
    <2> HIDE DEF tk
    <2> QED BY <2>1, ResumeStands
  <1>2. ASSUME NEW r \in Room, NEW k \in Seat, Recover(t, r, k) PROVE Stands /\ NoneOpens
    <2> DEFINE tk == [room |-> r, seat |-> k, to |-> rooms[r].holder[k]]
    <2>1. CanCall(t) /\ k <= rooms[r].n /\ ResumeAs(t, tk)
      BY <1>2 DEF Recover
    <2>2. rooms[r].holder[k] \in Tab
      BY <2>1 DEF IInv, RoomsOK, RoomOK, Held
    <2>3. tk \in Ticket
      BY <2>2 DEF Ticket
    <2> HIDE DEF tk
    <2> QED BY <2>1, <2>3, ResumeStands
  <1> QED BY <1>1, <1>2

LEMMA StopStands == ASSUME IInv, NEW graceful \in BOOLEAN, Stop(graceful) PROVE Stands /\ NoneOpens
  <1>1. ~up'
    BY DEF Stop
  <1>2. ASSUME NEW r \in Room PROVE rooms'[r].n = rooms[r].n
    BY RoomTyped DEF Stop, Saved, RoomRec
  <1> QED BY <1>1, <1>2 DEF Stands, NoneOpens

(* Every step but Create opens no room, and all of them let results stand. *)
LEMMA StepStands ==
  ASSUME IInv, [Next]_vars
  PROVE  Stands /\ (NoneOpens \/ \E t \in Tab : Create(t))
  <1>1. ASSUME NEW t \in Tab,
               \/ \E r \in Room : Join(t, r)
               \/ Reconnect(t) \/ \E r \in Room, k \in Seat : Recover(t, r, k)
        PROVE  Stands /\ NoneOpens
    BY <1>1, JoinStands, EnterAgainStands
  <1>2. ASSUME NEW t \in Tab,
               \/ Leave(t) \/ Move(t) \/ UndoRequest(t) \/ UndoRespond(t)
               \/ Resign(t) \/ Rematch(t)
        PROVE  Stands /\ NoneOpens
    BY <1>2, LeaveStands, Answers, AnsweredStands, RematchStands
  <1>3. ASSUME NEW t \in Tab, Lose(t) \/ CloseTab(t) PROVE Stands /\ NoneOpens
    BY <1>3, NoRoomChanges DEF Lose, CloseTab, server
  <1>4. ASSUME NEW w \in Socket, Close(w) PROVE Stands /\ NoneOpens
    BY <1>4, CloseStands
  <1>5. ASSUME NEW r \in Room,
               \/ UndoRunsOut(r) \/ ClockRunsOut(r) \/ GraceRunsOut(r) \/ Maintain(r) \/ Expire(r)
        PROVE  Stands /\ NoneOpens
    BY <1>5, TimeStands, MaintainStands, ExpireStands
  <1>6. ASSUME NEW graceful \in BOOLEAN, Stop(graceful) PROVE Stands /\ NoneOpens
    BY <1>6, StopStands
  <1>7. CASE Save \/ Start \/ UNCHANGED vars
    BY <1>7, NoRoomChanges DEF Save, Start, vars, server
  <1>8. ASSUME NEW t \in Tab, Create(t) PROVE Stands
    BY <1>8, CreateStands
  <1> QED BY <1>1, <1>2, <1>3, <1>4, <1>5, <1>6, <1>7, <1>8 DEF Next

(* A result that was reached is taken away only by a rematch that both       *)
(* players have asked for, whatever messages, timers and takeovers come.    *)
THEOREM ResultsStand == Spec => ResultStands
  <1>1. IInv /\ [Next]_vars => [Stands]_vars
    BY StepStands
  <1>2. Stands => \A r \in Room :
            (Exists(r) /\ rooms[r].winner # 0 /\ up /\ up' /\ rooms'[r].n # 0) =>
                \/ rooms'[r].winner = rooms[r].winner
                \/ /\ rooms'[r].winner = 0
                   /\ \E c \in 1..2 : rooms[r].votes = {c}
                   /\ Online(rooms[r])
    BY DEF Stands
  <1> QED BY AlwaysIInv, <1>1, <1>2, PTL DEF Spec, ResultStands

-----------------------------------------------------------------------------
(* What a restart would restore changes only with a save scheduled. *)

(* The parts that time alone changes are made anew by startup. *)
LEMMA SavedForgets ==
  ASSUME NEW rm \in RoomRec
  PROVE  /\ Saved([rm EXCEPT !.over = TRUE]) = Saved(rm)
         /\ rm.running => Saved([rm EXCEPT !.spent = TRUE]) = Saved(rm)
         /\ \A late : Saved([rm EXCEPT !.late = late]) = Saved(rm)
  BY DEF RoomRec, Saved

LEMMA StepSaves ==
  ASSUME IInv, [Next]_vars, up, up', ~due'
  PROVE  Snapshot' = Snapshot
  <1>1. ASSUME UNCHANGED rooms PROVE Snapshot' = Snapshot
    BY <1>1 DEF Snapshot
  <1>2. ASSUME NEW t \in Tab,
               \/ Create(t) \/ \E r \in Room : Join(t, r)
               \/ Reconnect(t) \/ \E r \in Room, k \in Seat : Recover(t, r, k)
        PROVE  Snapshot' = Snapshot
    <2>1. ASSUME NEW tk, ResumeAs(t, tk) PROVE UNCHANGED rooms
      BY <2>1 DEF ResumeAs, ResumeExpired, ResumeClosed, ResumeSeat
    <2>2. ~Create(t) /\ ~\E r \in Room : Join(t, r)
      BY DEF Create, Join, Seated
    <2>3. CASE Reconnect(t)
      BY <1>1, <2>1, <2>3 DEF Reconnect
    <2>4. CASE \E r \in Room, k \in Seat : Recover(t, r, k)
      <3>1. PICK r \in Room, k \in Seat : Recover(t, r, k)
        BY <2>4
      <3>2. ResumeAs(t, [room |-> r, seat |-> k, to |-> rooms[r].holder[k]])
        BY <3>1 DEF Recover
      <3> QED BY <1>1, <2>1, <3>2
    <2> QED BY <1>2, <2>2, <2>3, <2>4
  <1>3. ASSUME NEW t \in Tab,
               \/ Leave(t) \/ Move(t) \/ UndoRequest(t) \/ UndoRespond(t)
               \/ Resign(t) \/ Rematch(t) \/ Lose(t) \/ CloseTab(t)
        PROVE  Snapshot' = Snapshot
    BY <1>1, <1>3 DEF Leave, Move, UndoRequest, UndoRespond, Resign, Rematch, Lose, CloseTab,
                      Answer, Published, server
  <1>4. ASSUME NEW w \in Socket, Close(w) PROVE Snapshot' = Snapshot
    BY <1>1, <1>4 DEF Close, Published
  <1>5. ASSUME NEW r \in Room, UndoRunsOut(r) \/ ClockRunsOut(r) \/ GraceRunsOut(r)
        PROVE  Snapshot' = Snapshot
    <2>1. rooms[r] \in RoomRec /\ rooms \in [Room -> RoomRec]
      BY RoomTyped DEF IInv, RoomsOK
    <2>2. PICK x : rooms' = [rooms EXCEPT ![r] = x] /\ Saved(x) = Saved(rooms[r])
      <3>1. CASE UndoRunsOut(r)
        BY <2>1, <3>1, SavedForgets DEF UndoRunsOut
      <3>2. CASE ClockRunsOut(r)
        BY <2>1, <3>2, SavedForgets DEF ClockRunsOut
      <3>3. CASE GraceRunsOut(r)
        <4>1. PICK late : rooms' = [rooms EXCEPT ![r] = [rooms[r] EXCEPT !.late = late]]
          BY <3>3 DEF GraceRunsOut
        <4> QED BY <2>1, <4>1, SavedForgets
      <3> QED BY <1>5, <3>1, <3>2, <3>3
    <2>3. \A q \in Room : Saved(rooms'[q]) = Saved(rooms[q])
      BY <2>1, <2>2
    <2> QED BY <2>3 DEF Snapshot
  <1>6. ASSUME NEW r \in Room, Maintain(r) \/ Expire(r) PROVE Snapshot' = Snapshot
    BY <1>6 DEF Maintain, Expire, Published
  <1>7. CASE (\E graceful \in BOOLEAN : Stop(graceful)) \/ Save \/ Start \/ UNCHANGED vars
    BY <1>1, <1>7 DEF Stop, Save, Start, vars, server
  <1> QED BY <1>2, <1>3, <1>4, <1>5, <1>6, <1>7 DEF Next

(* No handler changes what a restart would restore without a save to come.  *)
THEOREM ChangesSaved == Spec => ChangesAreSaved
  <1>1. IInv /\ [Next]_vars => [(up /\ up' /\ Snapshot' # Snapshot) => due']_vars
    BY StepSaves
  <1> QED BY AlwaysIInv, <1>1, PTL DEF Spec, ChangesAreSaved

-----------------------------------------------------------------------------
(* The limit on rooms. *)

OpenRooms == {r \in Room : Exists(r)}
CInv == IsFiniteSet(OpenRooms) /\ Count <= MaxRooms

LEMMA InitCInv == Init => CInv
  <1> SUFFICES ASSUME Init PROVE CInv
    OBVIOUS
  <1>1. OpenRooms = {}
    BY NoRoomOK DEF Init, OpenRooms, Exists
  <1> QED BY <1>1, FS_EmptySet DEF CInv, Count, OpenRooms

LEMMA FewerRooms == ASSUME CInv, NoneOpens PROVE CInv'
  <1>1. OpenRooms' \subseteq OpenRooms
    BY DEF NoneOpens, OpenRooms, Exists
  <1>2. IsFiniteSet(OpenRooms') /\ Cardinality(OpenRooms') <= Cardinality(OpenRooms)
    BY <1>1, FS_Subset DEF CInv
  <1>3. Cardinality(OpenRooms) \in Nat /\ Cardinality(OpenRooms') \in Nat
    BY <1>2, FS_CardinalityType DEF CInv
  <1> QED BY <1>2, <1>3 DEF CInv, Count, OpenRooms

(* The room that a creator leaves makes place only when it really goes. *)
LEMMA CreateFits == ASSUME IInv, CInv, NEW t \in Tab, Create(t) PROVE CInv'
  <1> DEFINE w == Wire(t)
             left == {q \in Room : RoomsWithout(w)[q].n # 0}
  <1>1. w \in Socket /\ HasCapacity(w)
    BY WireOK DEF Create, CanEnter
  <1>2. PICK r \in Room : rooms[r].n = 0 /\ \A q \in Room : q # r => rooms'[q] = RoomsWithout(w)[q]
    BY CreateStands
  <1>3. left \subseteq OpenRooms
    BY <1>1, WithoutStands DEF OpenRooms, Exists
  <1>4. IsFiniteSet(OpenRooms) /\ Cardinality(OpenRooms) \in Nat /\ Count = Cardinality(OpenRooms)
    BY FS_CardinalityType DEF CInv, Count, OpenRooms
  <1>5. IsFiniteSet(left) /\ Cardinality(left) \in Nat /\ Cardinality(left) < MaxRooms
    <2>1. IsFiniteSet(left) /\ Cardinality(left) <= Cardinality(OpenRooms)
      BY <1>3, <1>4, FS_Subset
    <2>2. Cardinality(left) \in Nat
      BY <2>1, FS_CardinalityType
    <2>3. CASE at[w] # None /\ Exists(at[w]) /\ ~RetainsResult(rooms[at[w]])
      <3> DEFINE q == at[w]
      <3>1. q \in Room
        BY <1>1, <2>3, RoomExists
      <3>2. q \in OpenRooms
        BY <2>3, <3>1 DEF OpenRooms
      <3>3. RoomsWithout(w)[q].n = 0
        BY <1>1, <2>3, WithoutStands
      <3> HIDE DEF q
      <3>4. left \subseteq OpenRooms \ {q}
        BY <1>3, <3>3
      <3>5. IsFiniteSet(OpenRooms \ {q})
            /\ Cardinality(OpenRooms \ {q}) = Cardinality(OpenRooms) - 1
        BY <1>4, <3>2, FS_RemoveElement
      <3>6. Cardinality(left) <= Cardinality(OpenRooms \ {q})
        BY <3>4, <3>5, FS_Subset
      <3>7. Count - 1 < MaxRooms
        BY <1>1, <2>3 DEF HasCapacity
      <3> QED BY <1>4, <2>1, <2>2, <3>5, <3>6, <3>7
    <2>4. CASE ~(at[w] # None /\ Exists(at[w]) /\ ~RetainsResult(rooms[at[w]]))
      <3>1. Count - 0 < MaxRooms
        BY <1>1, <2>4 DEF HasCapacity
      <3> QED BY <1>4, <2>1, <2>2, <3>1
    <2> QED BY <2>3, <2>4
  <1> HIDE DEF left, w
  <1>6. OpenRooms' \subseteq left \cup {r}
    BY <1>2 DEF OpenRooms, Exists, left
  <1>7. /\ IsFiniteSet(left \cup {r}) /\ Cardinality(left \cup {r}) \in Nat
        /\ Cardinality(left \cup {r}) <= Cardinality(left) + 1
    <2>1. IsFiniteSet(left \cup {r})
          /\ Cardinality(left \cup {r}) =
                 IF r \in left THEN Cardinality(left) ELSE Cardinality(left) + 1
      BY <1>5, FS_AddElement
    <2> QED BY <1>5, <2>1
  <1>8. IsFiniteSet(OpenRooms') /\ Cardinality(OpenRooms') <= Cardinality(left \cup {r})
    BY <1>6, <1>7, FS_Subset
  <1>9. Cardinality(OpenRooms') \in Nat
    BY <1>8, FS_CardinalityType
  <1> QED BY <1>5, <1>7, <1>8, <1>9 DEF CInv, Count, OpenRooms

(* The server never holds more rooms than its limit, rooms that are kept for *)
(* an absent player's result included.                                      *)
THEOREM RoomsAreLimited == Spec => []CapacityKept
  <1>1. IInv /\ CInv /\ [Next]_vars => CInv'
    <2> SUFFICES ASSUME IInv, CInv, [Next]_vars PROVE CInv'
      OBVIOUS
    <2>1. NoneOpens \/ \E t \in Tab : Create(t)
      BY StepStands
    <2> QED BY <2>1, FewerRooms, CreateFits
  <1>2. CInv => CapacityKept
    BY DEF CInv, CapacityKept
  <1> QED BY AlwaysIInv, InitCInv, <1>1, <1>2, PTL DEF Spec

-----------------------------------------------------------------------------
(* The results that players have received. *)

(* Who has received a result is known of closed rooms only, and has it.     *)
RInv ==
    \A r \in Room, k \in Seat :
        k \in rooms[r].received =>
            rooms[r].n # 0 /\ rooms[r].closed /\ <<r, k>> \in recorded
Shows ==
    \A r \in Room :
        (rooms[r].n = 2 /\ rooms'[r].n = 0 /\ up' /\ ~Expire(r)) =>
            \A k \in Seat :
                \/ <<r, k>> \in recorded'
                \/ rooms[r].ws[k] # None /\ ~Live(rooms[r].ws[k])

LEMMA InitRInv == Init => RInv
  BY DEF Init, RInv, NoRoom

LEMMA QuietShows ==
  ASSUME rooms \in [Room -> RoomRec], RInv, NEW q \in Room, NEW x,
         rooms' = [rooms EXCEPT ![q] = x], x.n = rooms[q].n, x.closed = rooms[q].closed,
         x.received = rooms[q].received, recorded \subseteq recorded'
  PROVE  RInv' /\ Shows
  BY DEF RInv, Shows

LEMMA NothingShows ==
  ASSUME RInv, UNCHANGED rooms, recorded \subseteq recorded' PROVE RInv' /\ Shows
  BY DEF RInv, Shows

LEMMA AnsweredShows == ASSUME IInv, RInv, NEW t \in Tab, Answered(t) PROVE RInv' /\ Shows
  <1>1. Mine(t) \in Room /\ rooms \in [Room -> RoomRec]
    BY AnsweredRoom DEF IInv, RoomsOK
  <1>2. PICK x : Answer(t, x) /\ SameSeats(x, rooms[Mine(t)])
    BY AnsweredRoom
  <1> QED BY <1>1, <1>2, QuietShows DEF Answer, Published, SameSeats

LEMMA RematchShows == ASSUME IInv, RInv, NEW t \in Tab, Rematch(t) PROVE RInv' /\ Shows
  <1> DEFINE r == Mine(t)
             rm == rooms[Mine(t)]
             swapped == [rm EXCEPT !.first = 3 - rm.first]
             votes == {MyColour(t)}
  <1>1. Here(t) /\ Online(rm)
    BY DEF Rematch
  <1>2. r \in Room /\ rm \in RoomRec /\ RoomOK(rm) /\ rooms \in [Room -> RoomRec]
    BY <1>1, HereOK DEF RoomOK, Core, IInv, RoomsOK
  <1>3. \A k \in Seat : k \notin rm.received
    BY <1>1, <1>2 DEF RInv, RoomOK, Empty, Online
  <1>4. CASE rm.votes = {}
    <2> DEFINE x == [rm EXCEPT !.votes = votes]
    <2>1. rooms' = [rooms EXCEPT ![r] = x] /\ recorded' = recorded
      BY <1>4 DEF Rematch
    <2>2. x.n = rm.n /\ x.closed = rm.closed /\ x.received = rm.received
      BY <1>2 DEF RoomRec
    <2> HIDE DEF x
    <2> QED BY <1>2, <2>1, <2>2, QuietShows
  <1>5. CASE rm.votes # {}
    <2> DEFINE x == Clock(NewGame(swapped))
    <2>1. rooms' = [rooms EXCEPT ![r] = x] /\ recorded' = recorded \ ({r} \X Seat)
      BY <1>5 DEF Rematch
    <2>2. swapped \in RoomRec /\ swapped.n = rm.n /\ swapped.received = rm.received
      <3>1. 3 - rm.first \in 1..2
        BY <1>2 DEF RoomRec
      <3>2. swapped \in RoomRec
        BY <1>2, <3>1, Put
      <3> QED BY <1>2, <3>2 DEF RoomRec
    <2> HIDE DEF swapped
    <2>3. x.n = rm.n /\ x.received = rm.received
      BY <2>2, NewGameOK DEF SameSeats
    <2> HIDE DEF x
    <2> QED BY <1>2, <1>3, <2>1, <2>3 DEF RInv, Shows
  <1> QED BY <1>4, <1>5

LEMMA TimeShows ==
  ASSUME IInv, RInv, NEW r \in Room, UndoRunsOut(r) \/ ClockRunsOut(r) \/ GraceRunsOut(r)
  PROVE  RInv' /\ Shows
  <1>1. rooms[r] \in RoomRec /\ rooms \in [Room -> RoomRec]
    BY RoomTyped DEF IInv, RoomsOK
  <1>2. PICK x : /\ rooms' = [rooms EXCEPT ![r] = x]
                 /\ x.n = rooms[r].n /\ x.closed = rooms[r].closed
                 /\ x.received = rooms[r].received
    BY <1>1 DEF UndoRunsOut, ClockRunsOut, GraceRunsOut, RoomRec
  <1>3. recorded' = recorded
    BY DEF UndoRunsOut, ClockRunsOut, GraceRunsOut, pages
  <1> QED BY <1>1, <1>2, <1>3, QuietShows

LEMMA MaintainShows == ASSUME IInv, RInv, NEW r \in Room, Maintain(r) PROVE RInv' /\ Shows
  <1> DEFINE a == ExpireUndo(rooms[r])
             b == FinishAbsent(a)
             x == FinishTimeout(b)
  <1>1. Core(rooms[r]) /\ rooms \in [Room -> RoomRec]
    BY DEF IInv, RoomsOK, RoomOK
  <1>2. SameSeats(x, rooms[r])
    <2>1. Core(a) /\ SameSeats(a, rooms[r])
      BY <1>1, ExpireUndoOK
    <2> HIDE DEF a
    <2>2. Core(b) /\ SameSeats(b, a)
      BY <2>1, FinishAbsentOK
    <2> HIDE DEF b
    <2>3. SameSeats(x, b)
      BY <2>2, FinishTimeoutOK
    <2> QED BY <2>1, <2>2, <2>3 DEF SameSeats
  <1>3. rooms' = [rooms EXCEPT ![r] = x] /\ recorded \subseteq recorded'
    BY DEF Maintain, Published
  <1> HIDE DEF x
  <1> QED BY <1>1, <1>2, <1>3, QuietShows DEF SameSeats

LEMMA ExpireShows == ASSUME IInv, RInv, NEW r \in Room, Expire(r) PROVE RInv' /\ Shows
  <1>1. /\ rooms' = [rooms EXCEPT ![r] = NoRoom] /\ rooms \in [Room -> RoomRec]
        /\ recorded' = recorded
    BY DEF Expire, IInv, RoomsOK
  <1>2. NoRoom.received = {}
    BY DEF NoRoom
  <1> QED BY <1>1, <1>2 DEF RInv, Shows

LEMMA CloseShows == ASSUME IInv, RInv, NEW w \in Socket, Close(w) PROVE RInv' /\ Shows
  <1>1. CASE ~InRoom(w)
    <2>1. UNCHANGED <<rooms, recorded>>
      BY <1>1 DEF Close
    <2> QED BY <2>1, NothingShows
  <1>2. CASE InRoom(w)
    <2> DEFINE q == at[w]
               k == OldSeat(w)
               x == Drop(rooms[q], k)
    <2>1. q \in Room /\ k \in Seat /\ rooms[q] \in RoomRec /\ rooms \in [Room -> RoomRec]
      BY <1>2, OldRoom, RoomTyped DEF Old, IInv, RoomsOK
    <2>2. rooms' = [rooms EXCEPT ![q] = x] /\ recorded \subseteq recorded'
      BY <1>2 DEF Close, Published
    <2>3. x.n = rooms[q].n /\ x.closed = rooms[q].closed /\ x.received = rooms[q].received
      <3> HIDE DEF q, k
      <3> QED BY <2>1, DropOK
    <2> HIDE DEF x, q
    <2> QED BY <2>1, <2>2, <2>3, QuietShows
  <1> QED BY <1>1, <1>2

LEMMA ResumeShows ==
  ASSUME IInv, RInv, NEW t \in Tab, CanCall(t), NEW tk \in Ticket, ResumeAs(t, tk)
  PROVE  RInv' /\ Shows
  <1> DEFINE q == tk.room
             k == tk.seat
             w == Wire(t)
  <1>1. q \in Room /\ k \in Seat /\ rooms \in [Room -> RoomRec] /\ w \in Socket
    BY WireOK DEF Ticket, IInv, RoomsOK
  <1>2. CASE ResumeExpired(t, tk)
    BY <1>2, NothingShows DEF ResumeExpired
  <1>3. CASE ResumeClosed(t, tk)
    <2> DEFINE received == rooms[q].received \cup {k}
               y == [rooms[q] EXCEPT !.received = received]
               x == IF received = Seat THEN NoRoom ELSE y
    <2>1. /\ rooms' = [rooms EXCEPT ![q] = x] /\ recorded' = recorded \cup {<<q, k>>}
          /\ rooms[q].closed /\ k <= rooms[q].n
      BY <1>3 DEF ResumeClosed, Valid
    <2>2. rooms[q] \in RoomRec /\ rooms[q].n # 0
      BY <1>1, <2>1 DEF RoomRec, Seat
    <2>3. y.n = rooms[q].n /\ y.closed = rooms[q].closed /\ y.received = received
      BY <2>2 DEF RoomRec
    <2>4. \A j \in Seat : j \in received => <<q, j>> \in recorded'
      BY <1>1, <2>1 DEF RInv
    <2>5. NoRoom.received = {}
      BY DEF NoRoom
    <2>6. x = NoRoom \/ x = y
      OBVIOUS
    <2>7. x.n = 0 => received = Seat
      BY <2>2, <2>3
    <2> HIDE DEF received, y, x, q, k
    <2>8. RInv'
      BY <1>1, <2>1, <2>2, <2>3, <2>4, <2>5, <2>6 DEF RInv
    <2>9. Shows
      BY <1>1, <2>1, <2>4, <2>7 DEF Shows
    <2> QED BY <2>8, <2>9
  <1>4. CASE ResumeSeat(t, tk, w)
    <2> DEFINE rm == FinishAbsent(rooms[q])
               x == Attach(rm, k, w)
    <2>1. rooms' = [rooms EXCEPT ![q] = x] /\ recorded \subseteq recorded'
      BY <1>4 DEF ResumeSeat
    <2>2. Core(rooms[q])
      BY <1>1 DEF IInv, RoomsOK, RoomOK
    <2>3. Core(rm) /\ SameSeats(rm, rooms[q])
      BY <2>2, FinishAbsentOK
    <2> HIDE DEF rm, k, w
    <2>4. x.n = rm.n /\ x.closed = rm.closed /\ x.received = rm.received
      BY <1>1, <2>3, AttachOK DEF Core
    <2> HIDE DEF x, q
    <2> QED BY <1>1, <2>1, <2>3, <2>4, QuietShows DEF SameSeats
  <1> QED BY <1>2, <1>3, <1>4 DEF ResumeAs

LEMMA EnterAgainShows ==
  ASSUME IInv, RInv, NEW t \in Tab,
         Reconnect(t) \/ \E r \in Room, k \in Seat : Recover(t, r, k)
  PROVE  RInv' /\ Shows
  <1>1. CASE Reconnect(t)
    <2> DEFINE tk == session[t]
    <2>1. tk \in Ticket /\ CanCall(t) /\ ResumeAs(t, tk)
      BY <1>1, Invariants DEF Reconnect, TypeOK
    <2> HIDE DEF tk
    <2> QED BY <2>1, ResumeShows
  <1>2. ASSUME NEW r \in Room, NEW k \in Seat, Recover(t, r, k) PROVE RInv' /\ Shows
    <2> DEFINE tk == [room |-> r, seat |-> k, to |-> rooms[r].holder[k]]
    <2>1. CanCall(t) /\ k <= rooms[r].n /\ ResumeAs(t, tk)
      BY <1>2 DEF Recover
    <2>2. rooms[r].holder[k] \in Tab
      BY <2>1 DEF IInv, RoomsOK, RoomOK, Held
    <2>3. tk \in Ticket
      BY <2>2 DEF Ticket
    <2> HIDE DEF tk
    <2> QED BY <2>1, <2>3, ResumeShows
  <1> QED BY <1>1, <1>2

(* A player who leaves a room is there to read how its game ended, and so is *)
(* the opponent, or the room waits for the opponent.                        *)
LEMMA WithoutShows ==
  ASSUME IInv, RInv, NEW w \in Socket, InRoom(w) => Live(w)
  PROVE  \A r \in Room :
            /\ \A k \in Seat : k \in RoomsWithout(w)[r].received =>
                  /\ RoomsWithout(w)[r].n # 0 /\ RoomsWithout(w)[r].closed /\ rooms[r].n # 0
                  /\ <<r, k>> \in recorded \cup Ends(w)
            /\ (rooms[r].n = 2 /\ RoomsWithout(w)[r].n = 0) =>
                  \A k \in Seat : \/ <<r, k>> \in Ends(w)
                                  \/ rooms[r].ws[k] # None /\ ~Live(rooms[r].ws[k])
  <1>0. rooms \in [Room -> RoomRec]
    BY DEF IInv, RoomsOK
  <1>1. CASE ~InRoom(w)
    BY <1>1 DEF RoomsWithout, RInv
  <1>2. CASE InRoom(w)
    <2> DEFINE q == Old(w)
               k == OldSeat(w)
               rm == rooms[q]
               x == Quit(rm, k)
    <2>1. /\ q \in Room /\ k \in Seat /\ rm \in RoomRec /\ RoomOK(rm) /\ rm.ws[k] = w
          /\ Live(w) /\ w # None
      BY <1>2, OldRoom, RoomTyped DEF Old, IInv, RoomsOK
    <2>2. RoomsWithout(w) = [rooms EXCEPT ![q] = x]
      BY <1>2 DEF RoomsWithout
    <2>3. \A j \in Seat : j \notin rm.received
      BY <2>1 DEF RInv, RoomOK, Empty
    <2>4. \A j \in Seat : rm.n = 2 /\ rm.ws[j] # None /\ Live(rm.ws[j]) => <<q, j>> \in Ends(w)
      BY <1>2 DEF Ends, EndOf
    <2> HIDE DEF k, rm, q
    <2>5. /\ x.n # 0 => rm.n = 2 /\ x.closed /\ x.received = rm.received \cup {k}
          /\ rm.n = 2 /\ x.n = 0 => rm.ws[3 - k] # None \/ 3 - k \in rm.received
          /\ x.n = 0 => x.received = {}
      <3>1. x.n = 0 => x = NoRoom
        BY <2>1, QuitOK DEF Quit
      <3>2. NoRoom.received = {}
        BY DEF NoRoom
      <3> QED BY <2>1, <3>1, <3>2, QuitOK
    <2> HIDE DEF x
    <2>6. ASSUME NEW j \in Seat, j \in x.received
          PROVE  x.n # 0 /\ x.closed /\ rm.n # 0 /\ <<q, j>> \in Ends(w)
      <3>1. x.n # 0 /\ rm.n = 2 /\ x.closed /\ j = k
        BY <2>3, <2>5, <2>6
      <3> QED BY <2>1, <2>4, <3>1
    <2>7. ASSUME rm.n = 2, x.n = 0, NEW j \in Seat
          PROVE  <<q, j>> \in Ends(w) \/ (rm.ws[j] # None /\ ~Live(rm.ws[j]))
      <3>1. 3 - k \in Seat /\ (j = k \/ j = 3 - k)
        BY <2>1 DEF Seat
      <3>2. rm.ws[j] # None
        BY <2>1, <2>3, <2>5, <2>7, <3>1
      <3> QED BY <2>4, <2>7, <3>2
    <2>8. ASSUME NEW r \in Room, r # q PROVE RoomsWithout(w)[r] = rooms[r]
      BY <1>0, <2>2, <2>8
    <2>9. RoomsWithout(w)[q] = x
      BY <1>0, <2>1, <2>2
    <2>10. rm = rooms[q]
      BY DEF rm
    <2> QED BY <2>6, <2>7, <2>8, <2>9, <2>10 DEF RInv
  <1> QED BY <1>1, <1>2

LEMMA LeaveShows == ASSUME IInv, RInv, NEW t \in Tab, Leave(t) PROVE RInv' /\ Shows
  <1> DEFINE w == cur[t]
  <1>1. /\ w \in Socket /\ Live(w) /\ rooms' = RoomsWithout(w)
        /\ recorded' = recorded \cup Ends(w)
    BY Invariants DEF Leave, TypeOK, Live
  <1> HIDE DEF w
  <1>2. RInv'
    BY <1>1, WithoutShows DEF RInv
  <1>3. Shows
    BY <1>1, WithoutShows DEF Shows
  <1> QED BY <1>2, <1>3

(* A new room, or the second seat of one, and the room that its player leaves. *)
LEMMA SeatedShows ==
  ASSUME IInv, RInv, NEW t \in Tab, CanEnter(t), NEW w, w = Wire(t), NEW r \in Room,
         NEW k \in Seat, NEW x, Seated(r, k, t, x, w), x.received = {}, r # at[w],
         rooms[r].n # 2
  PROVE  RInv' /\ Shows
  <1>1. w \in Socket /\ (InRoom(w) => Live(w))
    BY WireOK DEF CanEnter, InRoom, Old, Live
  <1>2. RoomsWithout(w) \in [Room -> RoomRec]
    BY <1>1, WithoutOK DEF RoomsOK
  <1>3. rooms' = [RoomsWithout(w) EXCEPT ![r] = x]
    BY DEF Seated
  <1>4. \A q \in Room : q # r => rooms'[q] = RoomsWithout(w)[q]
    BY <1>2, <1>3
  <1>5. rooms'[r].received = {}
    BY <1>2, <1>3
  <1>6. \A q \in Room, j \in Seat :
          q # r /\ <<q, j>> \in recorded \cup Ends(w) /\ rooms[q].n # 0 => <<q, j>> \in recorded'
    BY DEF Seated, Known, Exists
  <1>7. RInv'
    BY <1>1, <1>4, <1>5, <1>6, WithoutShows DEF RInv
  <1>8. Shows
    <2> SUFFICES ASSUME NEW q \in Room, rooms[q].n = 2, rooms'[q].n = 0, NEW j \in Seat
                 PROVE  <<q, j>> \in recorded' \/ (rooms[q].ws[j] # None /\ ~Live(rooms[q].ws[j]))
      BY DEF Shows
    <2>1. q # r /\ RoomsWithout(w)[q].n = 0
      BY <1>4
    <2> QED BY <1>1, <1>6, <2>1, WithoutShows
  <1> QED BY <1>7, <1>8

LEMMA CreateShows == ASSUME IInv, RInv, NEW t \in Tab, Create(t) PROVE RInv' /\ Shows
  <1> DEFINE w == Wire(t)
  <1>1. CanEnter(t) /\ w \in Socket
    BY WireOK DEF Create, CanEnter
  <1>2. PICK r \in Room, timed \in TimeControl :
          /\ Unused(r)
          /\ Seated(r, 1, t, Attach([NoRoom EXCEPT !.n = 1, !.holder[1] = t, !.timed = timed], 1, w),
                    w)
    BY DEF Create
  <1> DEFINE x == Attach([NoRoom EXCEPT !.n = 1, !.holder[1] = t, !.timed = timed], 1, w)
  <1>3. x.received = {}
    BY DEF Attach, Clock, NoRoom
  <1>4. rooms[r].n = 0 /\ r # at[w]
    <2>1. rooms[r].n = 0
      BY <1>2 DEF Unused, Exists
    <2> QED BY <1>1, <2>1, RoomExists
  <1>5. Seated(r, 1, t, x, w) /\ 1 \in Seat /\ rooms[r].n # 2
    BY <1>2, <1>4 DEF Seat
  <1> HIDE DEF x, w
  <1> QED BY <1>1, <1>3, <1>4, <1>5, SeatedShows DEF w

LEMMA JoinShows ==
  ASSUME IInv, RInv, NEW t \in Tab, NEW r \in Room, Join(t, r) PROVE RInv' /\ Shows
  <1> DEFINE w == Wire(t)
             rm == rooms[r]
             x == Attach([rm EXCEPT !.n = 2, !.holder[2] = t], 2, w)
  <1>1. /\ CanEnter(t) /\ w \in Socket /\ rm.n = 1 /\ rm.ws[1] # None /\ rm.ws[1] # w
        /\ Seated(r, 2, t, x, w)
    BY WireOK DEF Join, CanEnter
  <1>2. rm \in RoomRec /\ RoomOK(rm)
    BY RoomTyped DEF IInv, RoomsOK
  <1>3. x.received = {}
    <2>1. \A j \in Seat : j \notin rm.received
      <3>1. 1 \in Seat
        BY DEF Seat
      <3>2. ~rm.closed
        BY <1>1, <1>2, <3>1 DEF RoomOK, Empty
      <3> HIDE DEF x, w
      <3> QED BY <3>2 DEF RInv
    <2>2. rm.received = {}
      BY <1>2, <2>1 DEF RoomRec
    <2>3. x.received = rm.received
      BY <1>2 DEF Attach, Clock, RoomRec
    <2> QED BY <2>2, <2>3
  <1>4. rm.ws[2] = None
    BY <1>1, Invariants DEF SeatsAreServed, Seat
  <1>5. r # at[w]
    <2> SUFFICES ASSUME r = at[w] PROVE FALSE
      OBVIOUS
    <2>1. r # None
      OBVIOUS
    <2>2. \E j \in Seat : rm.ws[j] = w
      BY <1>1, <2>1, RoomExists
    <2> QED BY <1>1, <1>4, <2>2 DEF Seat
  <1>6. 2 \in Seat /\ rm.n # 2
    BY <1>1 DEF Seat
  <1> HIDE DEF x, w
  <1> QED BY <1>1, <1>3, <1>5, <1>6, SeatedShows DEF w

LEMMA StopShows ==
  ASSUME IInv, RInv, NEW graceful \in BOOLEAN, Stop(graceful) PROVE RInv' /\ Shows
  <1> DEFINE a(r) == IF graceful THEN [rooms[r] EXCEPT !.running = FALSE] ELSE rooms[r]
  <1>1. ~up' /\ recorded' = recorded /\ rooms' = [r \in Room |-> Saved(a(r))]
    BY DEF Stop
  <1>2. ASSUME NEW r \in Room
        PROVE  /\ rooms'[r].n = rooms[r].n /\ rooms'[r].closed = rooms[r].closed
               /\ rooms'[r].received = rooms[r].received
    <2>1. rooms[r] \in RoomRec
      BY RoomTyped
    <2>2. PICK b \in RoomRec : /\ b = a(r) /\ b.n = rooms[r].n /\ b.closed = rooms[r].closed
                               /\ b.received = rooms[r].received
      <3> DEFINE b == [rooms[r] EXCEPT !.running = FALSE]
      <3>1. b \in RoomRec
        BY <2>1, Put
      <3>2. b.n = rooms[r].n /\ b.closed = rooms[r].closed /\ b.received = rooms[r].received
        BY <2>1 DEF RoomRec
      <3>3. a(r) = b \/ a(r) = rooms[r]
        OBVIOUS
      <3> HIDE DEF a, b
      <3> QED BY <2>1, <3>1, <3>2, <3>3
    <2>3. rooms'[r] = Saved(b)
      BY <1>1, <2>2
    <2> QED BY <2>2, <2>3, SavedOK
  <1> QED BY <1>1, <1>2 DEF RInv, Shows

LEMMA StepShows == ASSUME IInv, RInv, [Next]_vars PROVE RInv' /\ Shows
  <1>1. ASSUME NEW t \in Tab,
               \/ Create(t) \/ \E r \in Room : Join(t, r)
               \/ Reconnect(t) \/ \E r \in Room, k \in Seat : Recover(t, r, k)
        PROVE  RInv' /\ Shows
    BY <1>1, CreateShows, JoinShows, EnterAgainShows
  <1>2. ASSUME NEW t \in Tab,
               \/ Leave(t) \/ Move(t) \/ UndoRequest(t) \/ UndoRespond(t)
               \/ Resign(t) \/ Rematch(t)
        PROVE  RInv' /\ Shows
    BY <1>2, LeaveShows, Answers, AnsweredShows, RematchShows
  <1>3. ASSUME NEW t \in Tab, Lose(t) \/ CloseTab(t) PROVE RInv' /\ Shows
    BY <1>3, NothingShows DEF Lose, CloseTab, server
  <1>4. ASSUME NEW w \in Socket, Close(w) PROVE RInv' /\ Shows
    BY <1>4, CloseShows
  <1>5. ASSUME NEW r \in Room,
               \/ UndoRunsOut(r) \/ ClockRunsOut(r) \/ GraceRunsOut(r) \/ Maintain(r) \/ Expire(r)
        PROVE  RInv' /\ Shows
    BY <1>5, TimeShows, MaintainShows, ExpireShows
  <1>6. ASSUME NEW graceful \in BOOLEAN, Stop(graceful) PROVE RInv' /\ Shows
    BY <1>6, StopShows
  <1>7. CASE Save \/ Start \/ UNCHANGED vars
    BY <1>7, NothingShows DEF Save, Start, vars, server, pages
  <1> QED BY <1>1, <1>2, <1>3, <1>4, <1>5, <1>6, <1>7 DEF Next

(* A room of two that closes before it has aged has shown its result to both *)
(* players, unless the server did not know yet that one had lost the         *)
(* connection.                                                              *)
THEOREM ResultsAreKept == Spec => ResultIsKept
  <1>1. IInv /\ RInv /\ [Next]_vars => RInv' /\ [Shows]_vars
    BY StepShows
  <1>2. Shows =>
          \A r \in Room :
            (rooms[r].n = 2 /\ rooms'[r].n = 0 /\ up' /\ ~Expire(r)) =>
                \A k \in Seat :
                    \/ <<r, k>> \in recorded'
                    \/ rooms[r].ws[k] # None /\ ~Live(rooms[r].ws[k])
    BY DEF Shows
  <1> QED BY AlwaysIInv, InitRInv, <1>1, <1>2, PTL DEF Spec, ResultIsKept
=============================================================================
