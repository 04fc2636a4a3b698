-------------------------- MODULE ChatRoom_proofs --------------------------
(***************************************************************************)
(* Theorems of ChatRoom, for any users, pods, threads and capacity, any    *)
(* number of connections, crashes, failed calls and administrator's calls. *)
(***************************************************************************)
EXTENDS ChatRoom, FiniteSetTheorems, SequenceTheorems, TLAPS

-----------------------------------------------------------------------------
(* The queue.                                                              *)

Distinct(s) == \A i, j \in 1 .. Len(s) : s[i] = s[j] => i = j
Elements(s) == {s[i] : i \in 1 .. Len(s)}

(* The sequence s with its k-th element left out.                          *)
LEMMA RemoveAtProperties ==
  ASSUME NEW S, NEW s \in Seq(S), NEW k \in 1 .. Len(s)
  PROVE  /\ RemoveAt(s, k) \in Seq(S)
         /\ Len(RemoveAt(s, k)) = Len(s) - 1
         /\ \A i \in 1 .. Len(s) - 1 : RemoveAt(s, k)[i] = IF i < k THEN s[i] ELSE s[i + 1]
<1> DEFINE a == SubSeq(s, 1, k - 1)
           b == SubSeq(s, k + 1, Len(s))
<1>1. Len(s) \in Nat /\ \A i \in 1 .. Len(s) : s[i] \in S
  BY LenProperties, ElementOfSeq
<1>2. /\ a \in Seq(S) /\ Len(a) = k - 1
      /\ \A i \in 1 .. k - 1 : a[i] = s[i]
  <2>1. \A i \in 1 .. k - 1 : s[i] \in S BY <1>1
  <2>2. 1 \in Int /\ k - 1 \in Int BY <1>1
  <2> QED BY <2>1, <2>2, SubSeqProperties
<1>3. /\ b \in Seq(S) /\ Len(b) = Len(s) - k
      /\ \A i \in 1 .. Len(s) - k : b[i] = s[k + i]
  <2>1. \A i \in k + 1 .. Len(s) : s[i] \in S BY <1>1
  <2>2. k + 1 \in Int /\ Len(s) \in Int BY <1>1
  <2> QED BY <2>1, <2>2, SubSeqProperties
<1>4. /\ RemoveAt(s, k) \in Seq(S)
      /\ Len(RemoveAt(s, k)) = Len(a) + Len(b)
      /\ \A i \in 1 .. Len(a) + Len(b) :
           RemoveAt(s, k)[i] = IF i <= Len(a) THEN a[i] ELSE b[i - Len(a)]
  <2> HIDE DEF a, b
  <2>1. RemoveAt(s, k) = a \o b BY DEF RemoveAt, a, b
  <2>2. a \in Seq(S) /\ b \in Seq(S) BY <1>2, <1>3
  <2> QED BY <2>1, <2>2, ConcatProperties
<1> HIDE DEF a, b
<1>5. Len(a) + Len(b) = Len(s) - 1 BY <1>1, <1>2, <1>3
<1>6. ASSUME NEW i \in 1 .. Len(s) - 1
      PROVE  RemoveAt(s, k)[i] = IF i < k THEN s[i] ELSE s[i + 1]
  <2>1. RemoveAt(s, k)[i] = IF i <= k - 1 THEN a[i] ELSE b[i - (k - 1)]
    BY <1>2, <1>4, <1>5
  <2>2. CASE i < k BY <1>1, <1>2, <2>1, <2>2
  <2>3. CASE ~ (i < k)
    <3>1. i - (k - 1) \in 1 .. Len(s) - k /\ k + (i - (k - 1)) = i + 1
      BY <1>1, <2>3
    <3> QED BY <1>1, <1>3, <2>1, <2>3, <3>1
  <2> QED BY <2>2, <2>3
<1> QED BY <1>4, <1>5, <1>6

LEMMA WithoutType == ASSUME queue \in Seq(User), NEW u PROVE Without(u) \in Seq(User)
<1>1. CASE u \notin Queued BY <1>1 DEF Without
<1>2. CASE u \in Queued
  <2> DEFINE k == CHOOSE i \in 1 .. Len(queue) : queue[i] = u
  <2>1. k \in 1 .. Len(queue) BY <1>2 DEF Queued
  <2>2. Without(u) = RemoveAt(queue, k) BY <1>2 DEF Without
  <2> HIDE DEF k
  <2> QED BY <2>1, <2>2, RemoveAtProperties
<1> QED BY <1>1, <1>2

(* What ZREM leaves: the others, each once, in the order they had.         *)
LEMMA WithoutProperties ==
  ASSUME queue \in Seq(User), Distinct(queue), NEW u
  PROVE  /\ Without(u) \in Seq(User)
         /\ Elements(Without(u)) = Queued \ {u}
         /\ Distinct(Without(u))
         /\ Len(Without(u)) <= Len(queue)
<1>1. CASE u \notin Queued
  BY <1>1, LenProperties DEF Without, Elements, Queued
<1>2. CASE u \in Queued
  <2> DEFINE k == CHOOSE i \in 1 .. Len(queue) : queue[i] = u
             w == Without(u)
  <2>1. k \in 1 .. Len(queue) /\ queue[k] = u BY <1>2 DEF Queued
  <2>2. w = RemoveAt(queue, k) BY <1>2 DEF Without
  <2> HIDE DEF k, w
  <2>3. Len(queue) \in Nat BY LenProperties
  <2>4. /\ w \in Seq(User) /\ Len(w) = Len(queue) - 1
        /\ \A i \in 1 .. Len(queue) - 1 : w[i] = IF i < k THEN queue[i] ELSE queue[i + 1]
    BY <2>1, <2>2, RemoveAtProperties
  <2>5. Elements(w) \subseteq Queued \ {u}
    <3> SUFFICES ASSUME NEW i \in 1 .. Len(queue) - 1 PROVE w[i] \in Queued \ {u}
      BY <2>4 DEF Elements
    <3>1. CASE i < k
      <4>1. i \in 1 .. Len(queue) /\ i # k BY <2>3, <3>1
      <4> QED BY <2>1, <2>4, <3>1, <4>1 DEF Queued, Distinct
    <3>2. CASE ~ (i < k)
      <4>1. i + 1 \in 1 .. Len(queue) /\ i + 1 # k BY <2>1, <2>3, <3>2
      <4> QED BY <2>1, <2>4, <3>2, <4>1 DEF Queued, Distinct
    <3> QED BY <3>1, <3>2
  <2>6. Queued \ {u} \subseteq Elements(w)
    <3> SUFFICES ASSUME NEW j \in 1 .. Len(queue), queue[j] # u
                 PROVE  \E i \in 1 .. Len(queue) - 1 : w[i] = queue[j]
      BY <2>4 DEF Elements, Queued
    <3>1. CASE j < k
      <4>1. j \in 1 .. Len(queue) - 1 BY <2>1, <2>3, <3>1
      <4> QED BY <2>4, <3>1, <4>1
    <3>2. CASE ~ (j < k)
      <4>1. j # k BY <2>1
      <4>2. j - 1 \in 1 .. Len(queue) - 1 /\ ~ (j - 1 < k) /\ (j - 1) + 1 = j
        BY <2>1, <2>3, <3>2, <4>1
      <4>3. w[j - 1] = queue[j] BY <2>4, <4>2
      <4> QED BY <4>2, <4>3
    <3> QED BY <3>1, <3>2
  <2>7. Distinct(w)
    <3> SUFFICES ASSUME NEW i \in 1 .. Len(queue) - 1, NEW j \in 1 .. Len(queue) - 1,
                        w[i] = w[j]
                 PROVE  i = j
      BY <2>4 DEF Distinct
    <3>1. /\ i \in 1 .. Len(queue) /\ i + 1 \in 1 .. Len(queue)
          /\ j \in 1 .. Len(queue) /\ j + 1 \in 1 .. Len(queue)
      BY <2>3
    <3>2. \A m, n \in 1 .. Len(queue) : queue[m] = queue[n] => m = n
      BY DEF Distinct
    <3>3. CASE i < k /\ j < k BY <2>4, <3>1, <3>2, <3>3
    <3>4. CASE i < k /\ ~ (j < k) 
      <4>1. i = j + 1 BY <2>4, <3>1, <3>2, <3>4
      <4> QED BY <2>1, <2>3, <3>4, <4>1
    <3>5. CASE ~ (i < k) /\ j < k
      <4>1. i + 1 = j BY <2>4, <3>1, <3>2, <3>5
      <4> QED BY <2>1, <2>3, <3>5, <4>1
    <3>6. CASE ~ (i < k) /\ ~ (j < k)
      <4>1. i + 1 = j + 1 BY <2>4, <3>1, <3>2, <3>6
      <4> QED BY <2>3, <4>1
    <3> QED BY <3>3, <3>4, <3>5, <3>6
  <2> HIDE DEF w
  <2> QED BY <2>3, <2>4, <2>5, <2>6, <2>7 DEF w
<1> QED BY <1>1, <1>2

(* ZADD: u goes to the end.                                                *)
LEMMA AppendedProperties ==
  ASSUME NEW s \in Seq(User), Distinct(s), NEW u \in User, u \notin Elements(s)
  PROVE  /\ Append(s, u) \in Seq(User)
         /\ Elements(Append(s, u)) = Elements(s) \cup {u}
         /\ Distinct(Append(s, u))
<1> DEFINE t == Append(s, u)
<1>1. Len(s) \in Nat BY LenProperties
<1>2. /\ t \in Seq(User) /\ Len(t) = Len(s) + 1
      /\ \A i \in 1 .. Len(s) : t[i] = s[i]
      /\ t[Len(s) + 1] = u
  BY AppendProperties
<1> HIDE DEF t
<1>3. \A i \in 1 .. Len(s) + 1 : i \in 1 .. Len(s) \/ i = Len(s) + 1 BY <1>1
<1>4. \A i \in 1 .. Len(s) : s[i] # u BY DEF Elements
<1>5. Elements(t) = Elements(s) \cup {u}
  <2>1. Len(s) + 1 \in 1 .. Len(s) + 1 /\ 1 .. Len(s) \subseteq 1 .. Len(s) + 1 BY <1>1
  <2> QED BY <1>2, <1>3, <2>1 DEF Elements
<1>6. Distinct(t) BY <1>2, <1>3, <1>4 DEF Distinct
<1> QED BY <1>2, <1>5, <1>6 DEF t

-----------------------------------------------------------------------------
(* Types.  TypeOK is not inductive: a handler that is about to write a key *)
(* writes it for the user it serves, who is one only while it serves one.  *)

Serving == {"save", "beat", "enter", "leave", "clearBeat", "clearProfile", "promote"}
Served == \A t \in Thread : job[t].pc \in Serving => job[t].who \in User

RedisType == /\ members \subseteq User /\ queue \in Seq(User)
             /\ beats \subseteq User /\ virtual \subseteq Bot
SocketType == sessions \in [Pod -> SUBSET Guest] /\ open \in [Pod -> SUBSET Guest]
JobType == job \in [Thread -> Job] /\ Served
CountType == /\ fresh \subseteq Bot /\ dropped \in {0, 1}
             /\ joins \in 0 .. MaxJoins /\ faults \in 0 .. MaxFaults /\ admin \in 0 .. MaxAdmin

TypeInv == RedisType /\ SocketType /\ JobType /\ CountType

(* The type invariant and Served, regrouped by what the actions change.    *)
LEMMA TypeInvSplit == TypeInv <=> TypeOK /\ Served
BY DEF TypeInv, TypeOK, RedisType, SocketType, JobType, CountType

LEMMA CallType ==
  ASSUME NEW o \in Op, NEW p \in Pod \cup {Nobody}, NEW step \in Step,
         NEW u \in User \cup {Nobody}, NEW us \in SUBSET User
  PROVE  Call(o, p, step, u, us) \in Job
BY DEF Call, Job

LEMMA IdleType == Idle \in Job /\ Idle.pc \notin Serving
BY DEF Idle, Call, Job, Op, Step, Serving

LEMMA InitType == Init => TypeInv
<1> SUFFICES ASSUME Init PROVE TypeInv
  OBVIOUS
<1>1. RedisType BY EmptySeq DEF Init, RedisType
<1>2. SocketType BY DEF Init, SocketType
<1>3. JobType BY IdleType DEF Init, JobType, Served
<1>4. CountType BY BoundAssumption DEF Init, CountType
<1> QED BY <1>1, <1>2, <1>3, <1>4 DEF TypeInv

(* What the moves of a thread preserve.                                    *)
LEMMA BecomeType ==
  ASSUME JobType, NEW t \in Thread, NEW j \in Job,
         j.pc \in Serving => j.who \in User, Become(t, j)
  PROVE  JobType'
BY DEF JobType, Served, Become

LEMMA GoOnType ==
  ASSUME JobType, NEW t \in Thread, NEW step \in {"save", "leave"}, GoOn(t, step)
  PROVE  JobType'
<1>1. job[t] \in Job BY DEF JobType
<1>2. CASE Become(t, Idle) BY <1>2, IdleType, BecomeType
<1>3. ASSUME NEW u \in job[t].todo,
             Become(t, Call(job[t].op, job[t].pod, step, u, job[t].todo \ {u}))
      PROVE  JobType'
  <2> DEFINE j == Call(job[t].op, job[t].pod, step, u, job[t].todo \ {u})
  <2>1. u \in User /\ step \in Step BY <1>1 DEF Job, Step
  <2>2. job[t].op \in Op /\ job[t].pod \in Pod \cup {Nobody} /\ job[t].todo \in SUBSET User
    BY <1>1 DEF Job
  <2>3. j \in Job BY <2>1, <2>2, CallType
  <2>4. j.who = u BY DEF Call
  <2> HIDE DEF j
  <2> QED BY <1>3, <2>1, <2>3, <2>4, BecomeType DEF j
<1> QED BY <1>2, <1>3 DEF GoOn

LEMMA GotoType ==
  ASSUME JobType, NEW t \in Thread, NEW step \in Step,
         step \in Serving => job[t].pc \in Serving, Goto(t, step)
  PROVE  JobType'
BY DEF JobType, Served, Goto, Job

(* The start of a handler that serves nobody yet.                          *)
LEMMA ScanType ==
  ASSUME JobType, NEW t \in Thread, NEW o \in Op, NEW p \in Pod,
         NEW step \in {"members", "delete"}, NEW us \in SUBSET User,
         NEW found \in SUBSET User, NEW keys \in SUBSET {"members", "queue"},
         Become(t, [Call(o, p, step, Nobody, us) EXCEPT !.found = found, !.keys = keys])
  PROVE  JobType'
<1> DEFINE c == Call(o, p, step, Nobody, us)
           j == [c EXCEPT !.found = found, !.keys = keys]
<1>1. step \in Step /\ step \notin Serving BY DEF Step, Serving
<1>2. c \in Job BY <1>1, CallType
<1>3. c.pc = step BY DEF Call
<1> HIDE DEF c
<1>4. j \in Job /\ j.pc = step BY <1>2, <1>3 DEF Job
<1> HIDE DEF j
<1>5. Become(t, j) BY DEF j, c
<1> QED BY <1>1, <1>4, <1>5, BecomeType

LEMMA BeginType ==
  ASSUME JobType, NEW t \in Thread, NEW o \in Op, NEW p \in Pod,
         Become(t, Call(o, p, "members", Nobody, {}))
  PROVE  JobType'
<1> DEFINE j == Call(o, p, "members", Nobody, {})
<1>1. "members" \in Step /\ "members" \notin Serving BY DEF Step, Serving
<1>2. j \in Job BY <1>1, CallType
<1>3. j.pc = "members" BY DEF Call
<1> HIDE DEF j
<1>4. Become(t, j) BY DEF j
<1> QED BY <1>1, <1>2, <1>3, <1>4, BecomeType

(* The start of a handler, or its next round, for a user it serves.        *)
LEMMA ServeType ==
  ASSUME JobType, NEW t \in Thread, NEW o \in Op, NEW p \in Pod \cup {Nobody},
         NEW step \in {"save", "leave"}, NEW u \in User, NEW us \in SUBSET User,
         Become(t, Call(o, p, step, u, us))
  PROVE  JobType'
<1> DEFINE j == Call(o, p, step, u, us)
<1>1. step \in Step BY DEF Step
<1>2. j \in Job BY <1>1, CallType
<1>3. j.who = u BY DEF Call
<1> HIDE DEF j
<1>4. Become(t, j) BY DEF j
<1> QED BY <1>2, <1>3, <1>4, BecomeType

(* The front of the queue that is let in, and what stays.                  *)
LEMMA PromotedProperties ==
  ASSUME queue \in Seq(User), Cardinality(members) \in Nat,
         Cardinality(members) <= Capacity
  PROVE  /\ Promoted \in 0 .. Len(queue)
         /\ Cardinality(members) + Promoted <= Capacity
         /\ Promoted = Len(queue) \/ Cardinality(members) + Promoted = Capacity
<1>1. Len(queue) \in Nat BY LenProperties
<1> QED BY <1>1, CapacityAssumption DEF Promoted

-----------------------------------------------------------------------------
(* The inductive invariant of the room and its queue.  The type of the     *)
(* queue rests on it too: a promotion into an overfull room would take     *)
(* less than nothing from the queue.                                       *)
RoomInv ==
  /\ IsFiniteSet(members) /\ Cardinality(members) <= Capacity
  /\ members \cap Queued = {} /\ Distinct(queue)

ChatInv == TypeInv /\ RoomInv

LEMMA InitRoom == Init => RoomInv
<1> SUFFICES ASSUME Init PROVE RoomInv
  OBVIOUS
<1>1. IsFiniteSet({}) /\ Cardinality({}) = 0 BY FS_EmptySet
<1>2. members = {} /\ queue = <<>> /\ Len(queue) = 0 BY EmptySeq DEF Init
<1>3. \A i \in 1 .. 0 : FALSE OBVIOUS
<1> QED BY <1>1, <1>2, <1>3, CapacityAssumption DEF RoomInv, Queued, Distinct

LEMMA SameRoom ==
  ASSUME RoomInv, UNCHANGED <<members, queue>> PROVE RoomInv'
BY DEF RoomInv, Queued, Distinct

LEMMA JoinScriptKeeps ==
  ASSUME ChatInv, NEW u \in User, JoinScript(u)
  PROVE  RoomInv' /\ members' \subseteq User /\ queue' \in Seq(User)
<1> DEFINE others == members \ {u}
<1> USE DEF ChatInv, TypeInv, RedisType, RoomInv
<1>1. /\ IsFiniteSet(others) /\ Cardinality(others) \in Nat
      /\ Cardinality(others) <= Cardinality(members)
  BY FS_Subset, FS_CardinalityType
<1>2. Cardinality(members) \in Nat /\ Cardinality(others) <= Capacity
  BY <1>1, FS_CardinalityType, CapacityAssumption
<1>3. IsFiniteSet(others \cup {u}) /\ Cardinality(others \cup {u}) = Cardinality(others) + 1
  BY <1>1, FS_AddElement
<1>4. /\ Without(u) \in Seq(User) /\ Elements(Without(u)) = Queued \ {u}
      /\ Distinct(Without(u))
  BY WithoutProperties
<1>5. Queued' = Elements(queue') BY DEF Queued, Elements
<1>6. CASE /\ Cardinality(others) < Capacity
           /\ members' = others \cup {u}
           /\ queue' = Without(u)
  <2>1. Cardinality(members') <= Capacity
    BY <1>1, <1>3, <1>6, CapacityAssumption
  <2>2. members' \cap Queued' = {} BY <1>4, <1>5, <1>6
  <2>3. Distinct(queue') BY <1>4, <1>6
  <2>4. IsFiniteSet(members') BY <1>3, <1>6
  <2>5. RoomInv' BY <2>1, <2>2, <2>3, <2>4 DEF Distinct
  <2> QED BY <1>4, <1>6, <2>5
<1>7. CASE /\ Cardinality(others) >= Capacity
           /\ members' = others
           /\ queue' = Append(Without(u), u)
  <2>1. u \notin Elements(Without(u)) BY <1>4
  <2>2. /\ queue' \in Seq(User) /\ Elements(queue') = Elements(Without(u)) \cup {u}
        /\ Distinct(queue')
    BY <1>4, <1>7, <2>1, AppendedProperties
  <2>3. members' \cap Queued' = {} BY <1>4, <1>5, <1>7, <2>2
  <2>4. RoomInv' BY <1>1, <1>2, <1>7, <2>2, <2>3 DEF Distinct
  <2> QED BY <1>7, <2>2, <2>4
<1> QED BY <1>6, <1>7 DEF JoinScript

LEMMA LeaveKeeps ==
  ASSUME ChatInv, NEW u, members' = members \ {u}, queue' = Without(u)
  PROVE  RoomInv' /\ members' \subseteq User /\ queue' \in Seq(User)
<1> USE DEF ChatInv, TypeInv, RedisType, RoomInv
<1>1. /\ IsFiniteSet(members') /\ Cardinality(members') \in Nat
      /\ Cardinality(members') <= Cardinality(members)
  BY FS_Subset, FS_CardinalityType
<1>2. Cardinality(members') <= Capacity
  BY <1>1, FS_CardinalityType, CapacityAssumption
<1>3. /\ Without(u) \in Seq(User) /\ Elements(Without(u)) = Queued \ {u}
      /\ Distinct(Without(u))
  BY WithoutProperties
<1>4. Queued' = Elements(queue') BY DEF Queued, Elements
<1>5. members' \cap Queued' = {} BY <1>3, <1>4
<1>6. RoomInv' BY <1>1, <1>2, <1>3, <1>5 DEF Distinct
<1> QED BY <1>3, <1>6

(* The first n places hold n users.                                        *)
LEMMA FrontProperties ==
  ASSUME queue \in Seq(User), Distinct(queue), NEW n \in 0 .. Len(queue)
  PROVE  LET front == {queue[i] : i \in 1 .. n}
         IN  /\ IsFiniteSet(front) /\ front \subseteq Queued
             /\ Cardinality(front) = n
<1> DEFINE front == {queue[i] : i \in 1 .. n}
           f == [i \in 1 .. n |-> queue[i]]
<1>1. Len(queue) \in Nat /\ n \in Nat /\ \A i \in 1 .. n : i \in 1 .. Len(queue)
  BY LenProperties
<1>2. IsFiniteSet(1 .. n) /\ Cardinality(1 .. n) = n
  BY <1>1, FS_Interval
<1>3. f \in Surjection(1 .. n, front) BY DEF Surjection
<1>4. f \in Injection(1 .. n, front)
  <2>1. \A i, j \in 1 .. n : f[i] = f[j] => i = j BY <1>1 DEF Distinct
  <2> QED BY <2>1 DEF Injection, IsInjective
<1>5. IsFiniteSet(front) /\ Cardinality(front) = n
  <2> HIDE DEF f, front
  <2> QED BY <1>2, <1>3, <1>4, FS_Surjection
<1>6. front \subseteq Queued BY <1>1 DEF Queued
<1> QED BY <1>5, <1>6

LEMMA PromoteKeeps ==
  ASSUME ChatInv,
         members' = members \cup {queue[i] : i \in 1 .. Promoted},
         queue' = SubSeq(queue, Promoted + 1, Len(queue))
  PROVE  /\ RoomInv' /\ members' \subseteq User /\ queue' \in Seq(User)
         /\ ~ SlotIsFree' \/ queue' = <<>>
<1> DEFINE front == {queue[i] : i \in 1 .. Promoted}
<1> USE DEF ChatInv, TypeInv, RedisType, RoomInv
<1>1. /\ Cardinality(members) \in Nat /\ Len(queue) \in Nat
      /\ \A i \in 1 .. Len(queue) : queue[i] \in User
  BY FS_CardinalityType, LenProperties, ElementOfSeq
<1>2. /\ Promoted \in 0 .. Len(queue)
      /\ Cardinality(members) + Promoted <= Capacity
      /\ Promoted = Len(queue) \/ Cardinality(members) + Promoted = Capacity
  BY <1>1, PromotedProperties
<1> DEFINE n == Promoted
<1> HIDE DEF n
<1>3. /\ n \in 0 .. Len(queue) /\ n \in Nat
      /\ Cardinality(members) + n <= Capacity
      /\ n = Len(queue) \/ Cardinality(members) + n = Capacity
  BY <1>1, <1>2 DEF n
<1>4. /\ IsFiniteSet(front) /\ front \subseteq Queued
      /\ Cardinality(front) = n
  BY <1>3, FrontProperties DEF n
<1>5. /\ queue' \in Seq(User) /\ Len(queue') = Len(queue) - n
      /\ \A i \in 1 .. Len(queue) - n : queue'[i] = queue[n + i]
  <2>1. n + 1 \in Int /\ Len(queue) \in Int BY <1>1, <1>3
  <2>2. \A i \in n + 1 .. Len(queue) : queue[i] \in User BY <1>1, <1>3
  <2>3. queue' = SubSeq(queue, n + 1, Len(queue)) BY DEF n
  <2>4. /\ SubSeq(queue, n + 1, Len(queue)) \in Seq(User)
        /\ Len(SubSeq(queue, n + 1, Len(queue)))
              = IF n + 1 <= Len(queue) THEN Len(queue) - (n + 1) + 1 ELSE 0
        /\ \A i \in 1 .. Len(queue) - (n + 1) + 1 :
             SubSeq(queue, n + 1, Len(queue))[i] = queue[(n + 1) + i - 1]
    BY <2>1, <2>2, SubSeqProperties
  <2>5. /\ Len(queue) - (n + 1) + 1 = Len(queue) - n
        /\ ~ (n + 1 <= Len(queue)) => Len(queue) - n = 0
        /\ \A i \in 1 .. Len(queue) - n : (n + 1) + i - 1 = n + i
    BY <1>1, <1>3
  <2> QED BY <2>3, <2>4, <2>5
<1>6. Distinct(queue')
  <2> SUFFICES ASSUME NEW i \in 1 .. Len(queue) - n, NEW j \in 1 .. Len(queue) - n,
                      queue'[i] = queue'[j]
               PROVE  i = j
    BY <1>5 DEF Distinct
  <2>1. n + i \in 1 .. Len(queue) /\ n + j \in 1 .. Len(queue) BY <1>1, <1>3
  <2>2. n + i = n + j BY <1>5, <2>1 DEF Distinct
  <2> QED BY <1>3, <2>2
<1>7. Queued' \cap (members \cup front) = {}
  <2> SUFFICES ASSUME NEW i \in 1 .. Len(queue) - n
               PROVE  queue'[i] \notin members /\ queue'[i] \notin front
    BY <1>5 DEF Queued
  <2>1. n + i \in 1 .. Len(queue) BY <1>1, <1>3
  <2>2. queue'[i] = queue[n + i] BY <1>5
  <2>3. queue[n + i] \in Queued BY <2>1 DEF Queued
  <2>4. ASSUME NEW j \in 1 .. n, queue[j] = queue[n + i] PROVE FALSE
    <3>1. j \in 1 .. Len(queue) BY <1>1, <1>3
    <3>2. j = n + i BY <2>1, <2>4, <3>1 DEF Distinct
    <3> QED BY <1>3, <3>2
  <2> QED BY <2>2, <2>3, <2>4 DEF n
<1>8. IsFiniteSet(members') /\ Cardinality(members') = Cardinality(members) + Cardinality(front)
  <2>1. members \cap front = {} BY <1>4
  <2>2. members' = members \cup front OBVIOUS
  <2> HIDE DEF front
  <2>3. IsFiniteSet(members \cup front) BY <1>4, FS_Union
  <2>4. Cardinality(members \cup front)
           = Cardinality(members) + Cardinality(front) - Cardinality(members \cap front)
    BY <1>4, FS_Union
  <2>5. Cardinality(members \cap front) = 0 BY <2>1, FS_EmptySet
  <2>6. Cardinality(members) + Cardinality(front) - 0 = Cardinality(members) + Cardinality(front)
    BY <1>1, <1>3, <1>4
  <2> QED BY <2>2, <2>3, <2>4, <2>5, <2>6
<1>9. Cardinality(members') <= Capacity
  BY <1>3, <1>4, <1>8
<1>10. RoomInv' BY <1>6, <1>7, <1>8, <1>9 DEF Distinct
<1>11. members' \subseteq User BY <1>1, <1>2
<1>12. CASE n = Len(queue)
  <2>1. Len(queue') = 0 BY <1>1, <1>5, <1>12
  <2>2. queue' = <<>> BY <1>5, <2>1, EmptySeq, LenProperties
  <2> QED BY <1>5, <1>10, <1>11, <2>2
<1>13. CASE Cardinality(members) + n = Capacity
  <2>1. ~ SlotIsFree' BY <1>4, <1>8, <1>13, CapacityAssumption DEF SlotIsFree
  <2> QED BY <1>5, <1>10, <1>11, <2>1
<1> QED BY <1>3, <1>12, <1>13
-----------------------------------------------------------------------------
(* Every step keeps the invariant.                                         *)

(* The steps that move nobody in or out of the room and its queue.         *)
LEMMA RoomIsLeft ==
  ASSUME ChatInv, JobType', SocketType', CountType',
         UNCHANGED <<members, queue>>, beats' \subseteq User, virtual' \subseteq Bot
  PROVE  ChatInv'
<1>1. RoomInv' BY SameRoom DEF ChatInv
<1>2. RedisType' BY DEF ChatInv, TypeInv, RedisType
<1> QED BY <1>1, <1>2 DEF ChatInv, TypeInv

(* The steps that do.                                                      *)
LEMMA RoomIsMoved ==
  ASSUME ChatInv, JobType', UNCHANGED sockets, CountType',
         RoomInv', members' \subseteq User, queue' \in Seq(User),
         beats' \subseteq User, virtual' \subseteq Bot
  PROVE  ChatInv'
<1>1. SocketType' BY DEF ChatInv, TypeInv, SocketType, sockets
<1> QED BY <1>1 DEF ChatInv, TypeInv, RedisType

(* The parts an action leaves alone.                                       *)
LEMMA SameParts ==
  ASSUME ChatInv
  PROVE  /\ UNCHANGED redis =>
              UNCHANGED <<members, queue>> /\ beats' \subseteq User /\ virtual' \subseteq Bot
         /\ UNCHANGED sockets => SocketType'
         /\ UNCHANGED job => JobType'
         /\ UNCHANGED <<fresh, dropped, counters>> => CountType'
BY DEF ChatInv, TypeInv, RedisType, SocketType, JobType, Served, CountType,
       redis, sockets, counters

LEMMA QuietSocketSteps ==
  ASSUME ChatInv, NEW p \in Pod, NEW u \in Guest, Vanish(p, u) \/ Ping(p, u)
  PROVE  ChatInv'
<1>1. u \in User /\ SocketType /\ beats \subseteq User /\ virtual \subseteq Bot
  BY DEF User, ChatInv, TypeInv, RedisType
<1>2. ASSUME Vanish(p, u) PROVE ChatInv'
  <2>1. SocketType' BY <1>1, <1>2 DEF Vanish, SocketType
  <2> QED BY <1>2, <2>1, SameParts, RoomIsLeft DEF Vanish
<1>3. ASSUME Ping(p, u) PROVE ChatInv'
  BY <1>1, <1>3, SameParts, RoomIsLeft DEF Ping
<1> QED BY <1>2, <1>3

LEMMA SocketSteps ==
  ASSUME ChatInv, NEW p \in Pod, NEW u \in Guest, NEW t \in Worker
  PROVE  Connect(t, p, u) \/ Disconnect(t, p, u) => ChatInv'
<1>1. /\ u \in User /\ t \in Thread /\ SocketType /\ JobType /\ CountType
      /\ {} \in SUBSET User /\ {"join", "leave"} \subseteq Op
  BY DEF User, Thread, ChatInv, TypeInv, Op
<1>2. ASSUME Connect(t, p, u) PROVE ChatInv'
  <2>1. SocketType' BY <1>1, <1>2 DEF Connect, SocketType
  <2>2. CountType'
    <3>1. joins + 1 \in 0 .. MaxJoins BY <1>1, <1>2, BoundAssumption DEF CountType, Connect
    <3> QED BY <1>1, <1>2, <3>1 DEF Connect, CountType
  <2>3. JobType' BY <1>1, <1>2, ServeType DEF Connect
  <2> QED BY <1>2, <2>1, <2>2, <2>3, SameParts, RoomIsLeft DEF Connect
<1>3. ASSUME Disconnect(t, p, u) PROVE ChatInv'
  <2>1. SocketType' BY <1>1, <1>3 DEF Disconnect, SocketType
  <2>2. JobType' BY <1>1, <1>3, ServeType DEF Disconnect
  <2> QED BY <1>3, <2>1, <2>2, SameParts, RoomIsLeft DEF Disconnect
<1> QED BY <1>2, <1>3

(* join and leave.                                                         *)
LEMMA HandlerSteps ==
  ASSUME ChatInv, NEW t \in Thread
  PROVE  SaveProfile(t) \/ Heartbeat(t) \/ Enter(t) \/ Leave(t) \/ ClearBeat(t)
           \/ ClearProfile(t) \/ Promote(t) => ChatInv'
<1>1. JobType /\ CountType /\ beats \subseteq User /\ virtual \subseteq Bot
  BY DEF ChatInv, TypeInv, RedisType
<1>2. job[t] \in Job /\ (job[t].pc \in Serving => job[t].who \in User)
  BY <1>1 DEF JobType, Served
<1>3. ASSUME SaveProfile(t) PROVE ChatInv'
  <2>1. JobType' BY <1>1, <1>3, GotoType DEF SaveProfile, At, Step, Serving
  <2> QED BY <1>1, <1>3, <2>1, SameParts, RoomIsLeft DEF SaveProfile
<1>4. ASSUME Heartbeat(t) PROVE ChatInv'
  <2>1. JobType' BY <1>1, <1>4, GotoType DEF Heartbeat, At, Step, Serving
  <2>2. job[t].who \in User BY <1>2, <1>4 DEF Heartbeat, At, Serving
  <2> QED BY <1>1, <1>4, <2>1, <2>2, SameParts, RoomIsLeft DEF Heartbeat
<1>5. ASSUME Enter(t) PROVE ChatInv'
  <2>1. job[t].who \in User BY <1>2, <1>5 DEF Enter, At, Serving
  <2>2. RoomInv' /\ members' \subseteq User /\ queue' \in Seq(User)
    BY <1>5, <2>1, JoinScriptKeeps DEF Enter
  <2>3. JobType' BY <1>1, <1>5, GoOnType DEF Enter
  <2>4. CountType' BY <1>5, SameParts DEF Enter
  <2> QED BY <1>1, <1>5, <2>2, <2>3, <2>4, RoomIsMoved DEF Enter
<1>6. ASSUME Leave(t) PROVE ChatInv'
  <2>1. RoomInv' /\ members' \subseteq User /\ queue' \in Seq(User)
    BY <1>6, LeaveKeeps DEF Leave
  <2>2. JobType'
    <3> DEFINE r == IF job[t].who \in members THEN 1 ELSE 0
    <3>1. r \in {0, 1} OBVIOUS
    <3>2. job' = [job EXCEPT ![t].pc = "clearBeat", ![t].removed = r] BY <1>6 DEF Leave
    <3>3. job[t].who \in User BY <1>2, <1>6 DEF Leave, At, Serving
    <3> HIDE DEF r
    <3> QED BY <1>1, <1>2, <3>1, <3>2, <3>3 DEF JobType, Served, Job, Step
  <2>3. CountType' BY <1>6, SameParts DEF Leave
  <2> QED BY <1>1, <1>6, <2>1, <2>2, <2>3, RoomIsMoved DEF Leave
<1>7. ASSUME ClearBeat(t) PROVE ChatInv'
  <2>1. JobType' BY <1>1, <1>7, GotoType DEF ClearBeat, At, Step, Serving
  <2> QED BY <1>1, <1>7, <2>1, SameParts, RoomIsLeft DEF ClearBeat
<1>8. ASSUME ClearProfile(t) PROVE ChatInv'
  <2>1. CASE Goto(t, "promote")
    <3>1. JobType' BY <1>1, <1>8, <2>1, GotoType DEF ClearProfile, At, Step, Serving
    <3> QED BY <1>1, <1>8, <3>1, SameParts, RoomIsLeft DEF ClearProfile
  <2>2. CASE GoOn(t, "leave")
    <3>1. JobType' BY <1>1, <2>2, GoOnType
    <3> QED BY <1>1, <1>8, <3>1, SameParts, RoomIsLeft DEF ClearProfile
  <2> QED BY <1>8, <2>1, <2>2 DEF ClearProfile
<1>9. ASSUME Promote(t) PROVE ChatInv'
  <2>1. RoomInv' /\ members' \subseteq User /\ queue' \in Seq(User)
    BY <1>9, PromoteKeeps DEF Promote
  <2>2. JobType' BY <1>1, <1>9, GoOnType DEF Promote
  <2>3. CountType' BY <1>1, <1>9 DEF Promote, CountType, counters
  <2> QED BY <1>1, <1>9, <2>1, <2>2, <2>3, RoomIsMoved DEF Promote
<1> QED BY <1>3, <1>4, <1>5, <1>6, <1>7, <1>8, <1>9
LEMMA SweepStep == ASSUME ChatInv, NEW p \in Pod, StartSweep(p) PROVE ChatInv'
<1>1. JobType /\ p \in Thread BY DEF ChatInv, TypeInv, Thread
<1>2. JobType' BY <1>1, BeginType DEF StartSweep, Op
<1> QED BY <1>2, SameParts, RoomIsLeft DEF StartSweep

(* The demo's administration.                                              *)
LEMMA AdminSteps ==
  ASSUME ChatInv, NEW p \in Pod, NEW t \in Worker
  PROVE  /\ \A us \in SUBSET fresh : AddVirtualUsers(t, p, us) => ChatInv'
         /\ RemoveVirtualUsers(t, p) \/ Scan(t, p) => ChatInv'
<1>1. JobType /\ CountType /\ RedisType /\ t \in Thread
  BY DEF ChatInv, TypeInv, Thread
<1>2. ASSUME NEW us \in SUBSET fresh, AddVirtualUsers(t, p, us) PROVE ChatInv'
  <2>1. us \subseteq User BY <1>1 DEF CountType, User
  <2>2. PICK u \in us : Become(t, Call("join", p, "save", u, us \ {u}))
    BY <1>2 DEF AddVirtualUsers
  <2>3. u \in User /\ us \ {u} \in SUBSET User /\ "join" \in Op BY <2>1 DEF Op
  <2>4. JobType' BY <1>1, <2>2, <2>3, ServeType
  <2>5. CountType' BY <1>1, <1>2 DEF AddVirtualUsers, CountType, counters
  <2> QED BY <1>2, <2>4, <2>5, SameParts, RoomIsLeft DEF AddVirtualUsers
<1>3. ASSUME admin < MaxAdmin, admin' = admin + 1, UNCHANGED <<fresh, dropped, joins, faults>>
      PROVE  CountType'
  <2>1. admin + 1 \in 0 .. MaxAdmin BY <1>1, <1>3, BoundAssumption DEF CountType
  <2> QED BY <1>1, <1>3, <2>1 DEF CountType
<1>4. ASSUME RemoveVirtualUsers(t, p) PROVE ChatInv'
  <2>1. JobType' BY <1>1, <1>4, BeginType DEF RemoveVirtualUsers, Op
  <2>2. CountType' BY <1>3, <1>4 DEF RemoveVirtualUsers
  <2> QED BY <1>4, <2>1, <2>2, SameParts, RoomIsLeft DEF RemoveVirtualUsers
<1>5. ASSUME Scan(t, p) PROVE ChatInv'
  <2> DEFINE keys == (IF members = {} THEN {} ELSE {"members"})
                       \cup (IF queue = <<>> THEN {} ELSE {"queue"})
  <2>1. keys \in SUBSET {"members", "queue"} OBVIOUS
  <2>2. Become(t, [Call("reset", p, "delete", Nobody, beats) EXCEPT
                     !.found = virtual, !.keys = keys])
    BY <1>5 DEF Scan
  <2> HIDE DEF keys
  <2>3. beats \in SUBSET User /\ virtual \in SUBSET User /\ "reset" \in Op
    BY <1>1 DEF RedisType, User, Op
  <2>4. JobType' BY <1>1, <2>1, <2>2, <2>3, ScanType
  <2>5. CountType' BY <1>3, <1>5 DEF Scan
  <2> QED BY <1>5, <2>4, <2>5, SameParts, RoomIsLeft DEF Scan
<1> QED BY <1>2, <1>4, <1>5

(* The reads of the cleanup and of the removal, and the reset.             *)
LEMMA ReadSteps ==
  ASSUME ChatInv, NEW t \in Thread
  PROVE  /\ ReadMembers(t) \/ ReadQueue(t) \/ Checked(t) \/ Delete(t) => ChatInv'
         /\ \A u \in User : Check(t, u) => ChatInv'
<1>1. JobType /\ CountType /\ RedisType
  BY DEF ChatInv, TypeInv
<1>2. job[t] \in Job /\ job[t].todo \in SUBSET User /\ job[t].found \in SUBSET User
      /\ job[t].pod \in Pod \cup {Nobody}
  BY <1>1 DEF JobType, Job
<1>3. ASSUME NEW us \in SUBSET User PROVE Wanted(t, us) \in SUBSET User
  BY DEF Wanted
<1>4. ASSUME ReadMembers(t) PROVE ChatInv'
  <2> DEFINE us == Wanted(t, members)
  <2>1. us \in SUBSET User BY <1>1, <1>3 DEF RedisType
  <2>2. job' = [job EXCEPT ![t].todo = us, ![t].pc = "queue"] BY <1>4 DEF ReadMembers
  <2> HIDE DEF us
  <2>3. JobType' BY <1>1, <1>2, <2>1, <2>2 DEF JobType, Served, Job, Step, Serving
  <2> QED BY <1>4, <2>3, SameParts, RoomIsLeft DEF ReadMembers
<1>5. ASSUME ReadQueue(t) PROVE ChatInv'
  <2> DEFINE us == job[t].todo \cup Wanted(t, Queued)
  <2>1. Queued \in SUBSET User BY <1>1, ElementOfSeq DEF RedisType, Queued
  <2>2. us \in SUBSET User BY <1>2, <1>3, <2>1
  <2>3. \/ job' = [job EXCEPT ![t].todo = us, ![t].pc = "check"]
        \/ \E some \in SUBSET us, u \in us :
             Become(t, Call("drop", job[t].pod, "leave", u, some \ {u}))
        \/ Become(t, Idle)
    BY <1>5 DEF ReadQueue
  <2> HIDE DEF us
  <2>4. CASE job' = [job EXCEPT ![t].todo = us, ![t].pc = "check"]
    <3>1. JobType' BY <1>1, <1>2, <2>2, <2>4 DEF JobType, Served, Job, Step, Serving
    <3> QED BY <1>5, <3>1, SameParts, RoomIsLeft DEF ReadQueue
  <2>5. ASSUME NEW some \in SUBSET us, NEW u \in us,
               Become(t, Call("drop", job[t].pod, "leave", u, some \ {u}))
        PROVE  ChatInv'
    <3>1. u \in User /\ some \ {u} \in SUBSET User /\ "drop" \in Op BY <2>2 DEF Op
    <3>2. JobType' BY <1>1, <1>2, <2>5, <3>1, ServeType
    <3> QED BY <1>5, <3>2, SameParts, RoomIsLeft DEF ReadQueue
  <2>6. CASE Become(t, Idle)
    <3>1. JobType' BY <1>1, <2>6, IdleType, BecomeType
    <3> QED BY <1>5, <3>1, SameParts, RoomIsLeft DEF ReadQueue
  <2> QED BY <2>3, <2>4, <2>5, <2>6
<1>6. ASSUME NEW u \in User, Check(t, u) PROVE ChatInv'
  <2> DEFINE some == IF u \in beats THEN job[t].found ELSE job[t].found \cup {u}
  <2>1. some \in SUBSET User BY <1>2
  <2>2. job' = [job EXCEPT ![t].todo = job[t].todo \ {u}, ![t].found = some]
    BY <1>1, <1>2, <1>6 DEF Check, JobType
  <2> HIDE DEF some
  <2> DEFINE j == [job[t] EXCEPT !.todo = job[t].todo \ {u}, !.found = some]
  <2>3. j \in Job /\ j.pc = job[t].pc /\ j.who = job[t].who BY <1>2, <2>1 DEF Job
  <2>4. Become(t, j) BY <1>1, <2>2 DEF Become, JobType
  <2> HIDE DEF j
  <2>5. JobType' BY <1>1, <1>2, <2>3, <2>4, BecomeType DEF JobType, Served
  <2> QED BY <1>6, <2>5, SameParts, RoomIsLeft DEF Check
<1>7. ASSUME Checked(t) PROVE ChatInv'
  <2>1. CASE Become(t, Idle)
    <3>1. JobType' BY <1>1, <2>1, IdleType, BecomeType
    <3> QED BY <1>7, <3>1, SameParts, RoomIsLeft DEF Checked
  <2>2. ASSUME NEW u \in job[t].found,
               Become(t, Call("sweep", job[t].pod, "leave", u, job[t].found \ {u}))
        PROVE  ChatInv'
    <3>1. u \in User /\ job[t].found \ {u} \in SUBSET User /\ "sweep" \in Op BY <1>2 DEF Op
    <3>2. JobType' BY <1>1, <1>2, <2>2, <3>1, ServeType
    <3> QED BY <1>7, <3>2, SameParts, RoomIsLeft DEF Checked
  <2> QED BY <1>7, <2>1, <2>2 DEF Checked
<1>8. ASSUME Delete(t) PROVE ChatInv'
  <2>1. members' \subseteq members /\ (queue' = <<>> \/ queue' = queue) BY <1>8 DEF Delete
  <2>2. RoomInv'
    <3>1. IsFiniteSet(members') /\ Cardinality(members') <= Capacity
      <4>1. CASE members' = {} BY <4>1, FS_EmptySet, CapacityAssumption
      <4>2. CASE members' = members BY <4>2 DEF ChatInv, RoomInv
      <4> QED BY <1>8, <4>1, <4>2 DEF Delete
    <3>2. CASE queue' = <<>>
      <4>1. 1 .. Len(queue') = {} BY <3>2, EmptySeq
      <4> QED BY <3>1, <4>1 DEF RoomInv, Queued, Distinct
    <3>3. CASE queue' = queue BY <2>1, <3>1, <3>3 DEF ChatInv, RoomInv, Queued, Distinct
    <3> QED BY <2>1, <3>2, <3>3
  <2>3. members' \subseteq User /\ queue' \in Seq(User)
    BY <1>1, <2>1, EmptySeq DEF RedisType
  <2>4. beats' \subseteq User /\ virtual' \subseteq Bot BY <1>1, <1>8 DEF Delete, RedisType
  <2>5. JobType' BY <1>1, <1>8, IdleType, BecomeType DEF Delete
  <2>6. CountType' BY <1>1, <1>8 DEF Delete, CountType, counters
  <2> QED BY <1>8, <2>2, <2>3, <2>4, <2>5, <2>6, RoomIsMoved DEF Delete
<1> QED BY <1>4, <1>5, <1>6, <1>7, <1>8

(* Faults, and the heartbeats that run out.                                *)
LEMMA FaultSteps ==
  ASSUME ChatInv
  PROVE  /\ \A t \in Thread : Fail(t) => ChatInv'
         /\ \A p \in Pod : Crash(p) => ChatInv'
         /\ \A u \in User : Expire(u) => ChatInv'
<1>1. JobType /\ CountType /\ RedisType /\ SocketType
  BY DEF ChatInv, TypeInv
<1>2. ASSUME faults < MaxFaults, faults' = faults + 1, dropped' \in {1, dropped},
             UNCHANGED <<fresh, joins, admin>>
      PROVE  CountType'
  <2>1. faults + 1 \in 0 .. MaxFaults BY <1>1, <1>2, BoundAssumption DEF CountType
  <2> QED BY <1>1, <1>2, <2>1 DEF CountType
<1>3. ASSUME NEW t \in Thread, Fail(t) PROVE ChatInv'
  <2>1. CountType' BY <1>2, <1>3 DEF Fail
  <2>2. CASE job[t].op = "join" /\ job[t].who \in Guest
    <3>1. SocketType'
      <4>1. sessions' = [sessions EXCEPT ![job[t].pod] = @ \ {job[t].who}]
            /\ open' = [open EXCEPT ![job[t].pod] = @ \ {job[t].who}]
        BY <1>3, <2>2 DEF Fail
      <4> QED BY <1>1, <4>1 DEF SocketType
    <3>2. job[t].pod \in Pod \cup {Nobody} BY <1>1 DEF JobType, Job
    <3>3. job[t].who \in User /\ {} \in SUBSET User /\ "leave" \in Op BY <2>2 DEF User, Op
    <3>4. Become(t, Call("leave", job[t].pod, "leave", job[t].who, {})) BY <1>3, <2>2 DEF Fail
    <3>5. JobType' BY <1>1, <3>2, <3>3, <3>4, ServeType
    <3> QED BY <1>3, <2>1, <3>1, <3>5, SameParts, RoomIsLeft DEF Fail
  <2>3. CASE ~ (job[t].op = "join" /\ job[t].who \in Guest)
    <3>1. Become(t, Idle) /\ UNCHANGED sockets BY <1>3, <2>3 DEF Fail
    <3>2. JobType' BY <1>1, <3>1, IdleType, BecomeType
    <3> QED BY <1>3, <2>1, <3>1, <3>2, SameParts, RoomIsLeft DEF Fail
  <2> QED BY <2>2, <2>3
<1>4. ASSUME NEW p \in Pod, Crash(p) PROVE ChatInv'
  <2>1. CountType' BY <1>2, <1>4 DEF Crash
  <2>2. SocketType' BY <1>1, <1>4 DEF Crash, SocketType
  <2>3. JobType'
    <3>1. \A t \in Thread : job'[t] \in {Idle, job[t]} BY <1>4 DEF Crash
    <3>2. DOMAIN job' = Thread /\ job' = [t \in Thread |-> job'[t]] BY <1>4 DEF Crash
    <3>3. \A t \in Thread : job'[t] \in Job BY <1>1, <3>1, IdleType DEF JobType
    <3>4. job' \in [Thread -> Job] BY <3>2, <3>3
    <3>5. Served' BY <1>1, <3>1, IdleType DEF JobType, Served
    <3> QED BY <3>4, <3>5 DEF JobType
  <2> QED BY <1>4, <2>1, <2>2, <2>3, SameParts, RoomIsLeft DEF Crash
<1>5. ASSUME NEW u \in User, Expire(u) PROVE ChatInv'
  BY <1>1, <1>5, SameParts, RoomIsLeft DEF Expire, RedisType
<1> QED BY <1>3, <1>4, <1>5

LEMMA NextChat == ChatInv /\ [Next]_vars => ChatInv'
<1> SUFFICES ASSUME ChatInv, [Next]_vars PROVE ChatInv'
  OBVIOUS
<1>1. CASE UNCHANGED vars
  BY <1>1, SameParts, RoomIsLeft DEF vars
<1>2. ASSUME NEW p \in Pod, Socket(p) \/ StartSweep(p) \/ Crash(p) PROVE ChatInv'
  <2>1. ASSUME NEW u \in Guest, Vanish(p, u) \/ Ping(p, u) PROVE ChatInv'
    BY <2>1, QuietSocketSteps
  <2>2. ASSUME NEW u \in Guest, NEW t \in Worker, Connect(t, p, u) \/ Disconnect(t, p, u)
        PROVE  ChatInv'
    BY <2>2, SocketSteps
  <2>3. CASE StartSweep(p) BY <2>3, SweepStep
  <2>4. CASE Crash(p) BY <2>4, FaultSteps
  <2> QED BY <1>2, <2>1, <2>2, <2>3, <2>4 DEF Socket
<1>3. ASSUME NEW t \in Worker, Administer(t) PROVE ChatInv'
  BY <1>3, AdminSteps DEF Administer
<1>4. ASSUME NEW t \in Thread, Advance(t) \/ Fail(t) PROVE ChatInv'
  BY <1>4, HandlerSteps, ReadSteps, FaultSteps DEF Advance
<1>5. ASSUME NEW u \in User, Expire(u) PROVE ChatInv'
  BY <1>5, FaultSteps
<1> QED BY <1>1, <1>2, <1>3, <1>4, <1>5 DEF Next

LEMMA InitChat == Init => ChatInv
BY InitType, InitRoom DEF ChatInv

(* The waiting room keeps its types: above all, a handler between two       *)
(* Redis calls always knows the user it serves, and the scores that a       *)
(* promotion takes from the queue are there to be taken.                    *)
THEOREM TypeCorrect == Spec => []TypeOK
<1>1. ChatInv => TypeOK BY TypeInvSplit DEF ChatInv
<1> QED BY <1>1, InitChat, NextChat, PTL DEF Spec

(* Whatever the handlers of all pods do between each other's Redis calls,   *)
(* and whatever fails, the room never holds more users than its capacity.   *)
THEOREM RoomIsKept == Spec => []RoomIsNotOverfull
<1>1. ChatInv => RoomIsNotOverfull BY DEF ChatInv, RoomInv, RoomIsNotOverfull
<1> QED BY <1>1, InitChat, NextChat, PTL DEF Spec

(* Nobody is in the room and in the queue, or in the queue twice.           *)
THEOREM PlacesAreDistinct == Spec => []NobodyIsTwice
<1>1. ChatInv => NobodyIsTwice BY DEF ChatInv, RoomInv, NobodyIsTwice, Distinct
<1> QED BY <1>1, InitChat, NextChat, PTL DEF Spec
-----------------------------------------------------------------------------
(* A slot that is free while somebody waits is owed to the queue.  The      *)
(* debt is either kept by the handler that owes it, or recorded as lost, or *)
(* paid; it is made only where a member leaves, with the handler that       *)
(* removed it.                                                             *)

OthersStay(t) == \A s \in Thread \ {t} : job'[s] = job[s]

LEMMA MovesOnly ==
  ASSUME JobType, NEW t \in Thread
  PROVE  /\ \A j : Become(t, j) => OthersStay(t)
         /\ \A step : Goto(t, step) \/ GoOn(t, step) => OthersStay(t)
         /\ \A j : job' = [job EXCEPT ![t] = j] => OthersStay(t) /\ job'[t] = j
BY DEF JobType, Become, Goto, GoOn, OthersStay

(* A thread that owes nothing moves, and makes no place free.               *)
LEMMA DebtStays ==
  ASSUME FreeSlotIsOwed, NEW t \in Thread, ~ OwesPromotion(t), OthersStay(t),
         SlotIsFree' => SlotIsFree, queue' # <<>> => queue # <<>>,
         dropped' \in {1, dropped}
  PROVE  FreeSlotIsOwed'
BY DEF FreeSlotIsOwed, OwesPromotion, OthersStay

(* The thread that owes goes on owing.                                      *)
LEMMA DebtIsKept ==
  ASSUME FreeSlotIsOwed, NEW t \in Thread, OwesPromotion(t) => OwesPromotion(t)',
         OthersStay(t), UNCHANGED <<members, queue, dropped>>
  PROVE  FreeSlotIsOwed'
BY DEF FreeSlotIsOwed, OwesPromotion, OthersStay, SlotIsFree

(* No handler moves and the room and the queue stay as they are.            *)
LEMMA NothingMoves ==
  ASSUME FreeSlotIsOwed, UNCHANGED <<members, queue, dropped, job>>
  PROVE  FreeSlotIsOwed'
BY DEF FreeSlotIsOwed, OwesPromotion, SlotIsFree

LEMMA IdleOwesNothing ==
  ASSUME NEW t \in Thread, job[t] = Idle PROVE ~ OwesPromotion(t)
BY DEF Idle, Call, OwesPromotion

LEMMA EmptyWithout ==
  ASSUME queue \in Seq(User), NEW u, Without(u) # <<>> PROVE queue # <<>>
<1> SUFFICES ASSUME queue = <<>> PROVE FALSE
  OBVIOUS
<1>1. 1 .. Len(queue) = {} BY EmptySeq
<1>2. Queued = {} BY <1>1 DEF Queued
<1> QED BY <1>2 DEF Without

(* The steps that take a thread from rest, or move one that owes nothing.   *)
LEMMA OwedOutside ==
  ASSUME ChatInv, FreeSlotIsOwed, NEW t \in Thread, OthersStay(t),
         job[t] = Idle \/ job[t].pc \notin {"clearBeat", "clearProfile", "promote"},
         UNCHANGED <<members, queue, dropped>>
  PROVE  FreeSlotIsOwed'
<1>1. ~ OwesPromotion(t) BY IdleOwesNothing DEF OwesPromotion
<1>2. SlotIsFree' => SlotIsFree BY DEF SlotIsFree
<1> QED BY <1>1, <1>2, DebtStays

LEMMA HandlerOwes ==
  ASSUME ChatInv, FreeSlotIsOwed, NEW t \in Thread
  PROVE  SaveProfile(t) \/ Heartbeat(t) \/ Enter(t) \/ Leave(t) \/ ClearBeat(t)
           \/ ClearProfile(t) \/ Promote(t) => FreeSlotIsOwed'
<1>1. JobType /\ job[t] \in Job /\ queue \in Seq(User)
  BY DEF ChatInv, TypeInv, RedisType, JobType
<1>2. ASSUME SaveProfile(t) \/ Heartbeat(t) PROVE FreeSlotIsOwed'
  <2>1. OthersStay(t) BY <1>1, <1>2, MovesOnly DEF SaveProfile, Heartbeat
  <2> QED BY <1>2, <2>1, OwedOutside DEF SaveProfile, Heartbeat, At
<1>3. ASSUME Enter(t) PROVE FreeSlotIsOwed'
  <2> DEFINE u == job[t].who
             others == members \ {u}
  <2>1. OthersStay(t) /\ ~ OwesPromotion(t)
    BY <1>1, <1>3, MovesOnly DEF Enter, At, OwesPromotion
  <2>2. IsFiniteSet(members) /\ IsFiniteSet(others)
    BY FS_Subset DEF ChatInv, RoomInv
  <2>3. CASE members' = others \cup {u} /\ queue' = Without(u)
    <3>1. members \subseteq members' /\ IsFiniteSet(members') BY <2>2, <2>3, FS_AddElement
    <3>2. Cardinality(members) <= Cardinality(members')
          /\ Cardinality(members) \in Nat /\ Cardinality(members') \in Nat
      BY <2>2, <3>1, FS_Subset, FS_CardinalityType
    <3>3. SlotIsFree' => SlotIsFree BY <3>2, CapacityAssumption DEF SlotIsFree
    <3>4. queue' # <<>> => queue # <<>> BY <1>1, <2>3, EmptyWithout
    <3> QED BY <1>3, <2>1, <3>3, <3>4, DebtStays DEF Enter
  <2>4. CASE Cardinality(others) >= Capacity /\ members' = others
    <3>1. Cardinality(others) \in Nat BY <2>2, FS_CardinalityType
    <3>2. ~ SlotIsFree' BY <2>4, <3>1, CapacityAssumption DEF SlotIsFree
    <3> QED BY <3>2 DEF FreeSlotIsOwed
  <2> QED BY <1>3, <2>3, <2>4 DEF Enter, JoinScript
<1>4. ASSUME Leave(t) PROVE FreeSlotIsOwed'
  <2> DEFINE u == job[t].who
             j == [job[t] EXCEPT !.pc = "clearBeat",
                                 !.removed = IF u \in members THEN 1 ELSE 0]
  <2>1. job' = [job EXCEPT ![t] = j] BY <1>1, <1>4 DEF Leave, JobType
  <2>2. j.pc = "clearBeat" /\ j.removed = IF u \in members THEN 1 ELSE 0
    BY <1>1 DEF Job
  <2> HIDE DEF j
  <2>3. OthersStay(t) /\ job'[t] = j BY <1>1, <2>1, MovesOnly
  <2>4. CASE u \in members
    BY <2>2, <2>3, <2>4 DEF FreeSlotIsOwed, OwesPromotion
  <2>5. CASE u \notin members
    <3>1. members' = members BY <1>4, <2>5 DEF Leave
    <3>2. SlotIsFree' => SlotIsFree BY <3>1 DEF SlotIsFree
    <3>3. queue' # <<>> => queue # <<>> BY <1>1, <1>4, EmptyWithout DEF Leave
    <3>4. ~ OwesPromotion(t) BY <1>4 DEF Leave, At, OwesPromotion
    <3> QED BY <1>4, <2>3, <3>2, <3>3, <3>4, DebtStays DEF Leave
  <2> QED BY <2>4, <2>5
<1>5. ASSUME ClearBeat(t) PROVE FreeSlotIsOwed'
  <2>1. OthersStay(t) BY <1>1, <1>5, MovesOnly DEF ClearBeat
  <2>2. OwesPromotion(t) => OwesPromotion(t)'
    BY <1>1, <1>5 DEF ClearBeat, Goto, OwesPromotion, JobType, Job
  <2> QED BY <1>5, <2>1, <2>2, DebtIsKept DEF ClearBeat
<1>6. ASSUME ClearProfile(t) PROVE FreeSlotIsOwed'
  <2>1. OthersStay(t) BY <1>1, <1>6, MovesOnly DEF ClearProfile
  <2>2. CASE job[t].removed = 1 /\ Goto(t, "promote")
    <3>1. OwesPromotion(t)' BY <1>1, <2>2 DEF Goto, OwesPromotion, JobType, Job
    <3> QED BY <1>6, <2>1, <3>1, DebtIsKept DEF ClearProfile
  <2>3. CASE job[t].removed = 0
    <3>1. ~ OwesPromotion(t) BY <2>3 DEF OwesPromotion
    <3> QED BY <1>6, <2>1, <3>1, DebtIsKept DEF ClearProfile
  <2> QED BY <1>6, <2>2, <2>3 DEF ClearProfile
<1>7. ASSUME Promote(t) PROVE FreeSlotIsOwed'
  <2>1. ~ SlotIsFree' \/ queue' = <<>> BY <1>7, PromoteKeeps DEF Promote
  <2> QED BY <2>1 DEF FreeSlotIsOwed
<1> QED BY <1>2, <1>3, <1>4, <1>5, <1>6, <1>7

LEMMA OtherThreadsOwe ==
  ASSUME ChatInv, FreeSlotIsOwed, NEW t \in Thread
  PROVE  /\ ReadMembers(t) \/ ReadQueue(t) \/ Checked(t) \/ Delete(t) \/ Fail(t)
               => FreeSlotIsOwed'
         /\ \A u \in User : Check(t, u) => FreeSlotIsOwed'
<1>1. JobType /\ job[t] \in Job BY DEF ChatInv, TypeInv, JobType
<1>2. ASSUME ReadMembers(t) PROVE FreeSlotIsOwed'
  <2>1. OthersStay(t) BY <1>1, <1>2 DEF ReadMembers, JobType, OthersStay
  <2> QED BY <1>2, <2>1, OwedOutside DEF ReadMembers, At, redis
<1>3. ASSUME ReadQueue(t) PROVE FreeSlotIsOwed'
  <2>1. OthersStay(t) BY <1>1, <1>3 DEF ReadQueue, JobType, OthersStay, Become
  <2> QED BY <1>3, <2>1, OwedOutside DEF ReadQueue, At, redis
<1>4. ASSUME NEW u \in User, Check(t, u) PROVE FreeSlotIsOwed'
  <2>1. OthersStay(t) BY <1>1, <1>4 DEF Check, JobType, OthersStay
  <2> QED BY <1>4, <2>1, OwedOutside DEF Check, At, redis
<1>5. ASSUME Checked(t) PROVE FreeSlotIsOwed'
  <2>1. OthersStay(t) BY <1>1, <1>5, MovesOnly DEF Checked
  <2> QED BY <1>5, <2>1, OwedOutside DEF Checked, At, redis
<1>6. ASSUME Delete(t) PROVE FreeSlotIsOwed'
  <2>1. OthersStay(t) /\ ~ OwesPromotion(t)
    BY <1>1, <1>6, MovesOnly DEF Delete, At, OwesPromotion
  <2>2. CASE members' = {} /\ queue' # <<>>
    <3>1. dropped' = 1 BY <1>6, <2>2 DEF Delete
    <3> QED BY <3>1 DEF FreeSlotIsOwed
  <2>3. CASE queue' = <<>> BY <2>3 DEF FreeSlotIsOwed
  <2>4. CASE members' # {} /\ queue' # <<>>
    <3>1. members' = members /\ queue' = queue /\ dropped' = dropped BY <1>6, <2>4 DEF Delete
    <3>2. SlotIsFree' => SlotIsFree BY <3>1 DEF SlotIsFree
    <3> QED BY <2>1, <3>1, <3>2, DebtStays
  <2> QED BY <2>2, <2>3, <2>4
<1>7. ASSUME Fail(t) PROVE FreeSlotIsOwed'
  <2>1. CASE OwesPromotion(t)
    <3>1. dropped' = 1 BY <1>7, <2>1 DEF Fail
    <3> QED BY <3>1 DEF FreeSlotIsOwed
  <2>2. CASE ~ OwesPromotion(t)
    <3>1. OthersStay(t) BY <1>1, <1>7, MovesOnly DEF Fail
    <3>2. dropped' = dropped /\ UNCHANGED <<members, queue>> BY <1>7, <2>2 DEF Fail, redis
    <3>3. SlotIsFree' => SlotIsFree BY <3>2 DEF SlotIsFree
    <3> QED BY <2>2, <3>1, <3>2, <3>3, DebtStays
  <2> QED BY <2>1, <2>2
<1> QED BY <1>2, <1>3, <1>4, <1>5, <1>6, <1>7

LEMMA StartsOwe ==
  ASSUME ChatInv, FreeSlotIsOwed, NEW p \in Pod
  PROVE  /\ StartSweep(p) \/ Crash(p) => FreeSlotIsOwed'
         /\ \A u \in Guest : Vanish(p, u) \/ Ping(p, u) => FreeSlotIsOwed'
         /\ \A t \in Worker : RemoveVirtualUsers(t, p) \/ Scan(t, p) => FreeSlotIsOwed'
         /\ \A t \in Worker, us \in SUBSET fresh : AddVirtualUsers(t, p, us) => FreeSlotIsOwed'
         /\ \A t \in Worker, u \in Guest :
              Connect(t, p, u) \/ Disconnect(t, p, u) => FreeSlotIsOwed'
<1>1. JobType /\ p \in Thread /\ \A t \in Worker : t \in Thread
  BY DEF ChatInv, TypeInv, Thread
<1>2. ASSUME StartSweep(p) PROVE FreeSlotIsOwed'
  <2>1. OthersStay(p) BY <1>1, <1>2, MovesOnly DEF StartSweep
  <2> QED BY <1>1, <1>2, <2>1, OwedOutside DEF StartSweep, redis
<1>3. ASSUME Crash(p) PROVE FreeSlotIsOwed'
  <2>1. CASE \E t \in Running(p) : OwesPromotion(t)
    <3>1. dropped' = 1 BY <1>3, <2>1 DEF Crash
    <3> QED BY <3>1 DEF FreeSlotIsOwed
  <2>2. CASE ~ \E t \in Running(p) : OwesPromotion(t)
    <3>1. UNCHANGED <<members, queue, dropped>> BY <1>3, <2>2 DEF Crash, redis
    <3>2. ASSUME NEW t \in Thread, OwesPromotion(t) PROVE OwesPromotion(t)'
      <4>1. t \notin Running(p) BY <2>2, <3>2
      <4>2. job'[t] = job[t] BY <1>3, <4>1 DEF Crash
      <4> QED BY <3>2, <4>2 DEF OwesPromotion
    <3> QED BY <3>1, <3>2 DEF FreeSlotIsOwed, SlotIsFree
  <2> QED BY <2>1, <2>2
<1>4. ASSUME NEW u \in Guest, Vanish(p, u) \/ Ping(p, u) PROVE FreeSlotIsOwed'
  BY <1>4, NothingMoves DEF Vanish, Ping, redis
<1>5. ASSUME NEW t \in Worker, RemoveVirtualUsers(t, p) \/ Scan(t, p) PROVE FreeSlotIsOwed'
  <2>1. OthersStay(t) /\ job[t] = Idle BY <1>1, <1>5, MovesOnly DEF RemoveVirtualUsers, Scan
  <2> QED BY <1>1, <1>5, <2>1, OwedOutside DEF RemoveVirtualUsers, Scan, redis
<1>6. ASSUME NEW t \in Worker, NEW us \in SUBSET fresh, AddVirtualUsers(t, p, us)
      PROVE  FreeSlotIsOwed'
  <2>1. OthersStay(t) /\ job[t] = Idle BY <1>1, <1>6, MovesOnly DEF AddVirtualUsers
  <2> QED BY <1>1, <1>6, <2>1, OwedOutside DEF AddVirtualUsers, redis
<1>7. ASSUME NEW t \in Worker, NEW u \in Guest, Connect(t, p, u) \/ Disconnect(t, p, u)
      PROVE  FreeSlotIsOwed'
  <2>1. OthersStay(t) /\ job[t] = Idle BY <1>1, <1>7, MovesOnly DEF Connect, Disconnect
  <2> QED BY <1>1, <1>7, <2>1, OwedOutside DEF Connect, Disconnect, redis
<1> QED BY <1>2, <1>3, <1>4, <1>5, <1>6, <1>7

LEMMA NextOwes == ChatInv /\ FreeSlotIsOwed /\ [Next]_vars => FreeSlotIsOwed'
<1> SUFFICES ASSUME ChatInv, FreeSlotIsOwed, [Next]_vars PROVE FreeSlotIsOwed'
  OBVIOUS
<1>1. CASE UNCHANGED vars BY <1>1, NothingMoves DEF vars, redis
<1>2. ASSUME NEW p \in Pod, Socket(p) \/ StartSweep(p) \/ Crash(p) PROVE FreeSlotIsOwed'
  BY <1>2, StartsOwe DEF Socket
<1>3. ASSUME NEW t \in Worker, Administer(t) PROVE FreeSlotIsOwed'
  BY <1>3, StartsOwe DEF Administer
<1>4. ASSUME NEW t \in Thread, Advance(t) \/ Fail(t) PROVE FreeSlotIsOwed'
  BY <1>4, HandlerOwes, OtherThreadsOwe DEF Advance
<1>5. ASSUME NEW u \in User, Expire(u) PROVE FreeSlotIsOwed'
  BY <1>5, NothingMoves DEF Expire
<1> QED BY <1>1, <1>2, <1>3, <1>4, <1>5 DEF Next

LEMMA InitOwes == Init => FreeSlotIsOwed
BY DEF Init, FreeSlotIsOwed

(* Nobody waits before a free slot unless the handler that freed it is on   *)
(* its way to the promotion, or the promotion was lost with it: LEAVE,      *)
(* PROMOTE and a JOIN of somebody else may come in any order between.       *)
THEOREM SlotsAreOwed == Spec => []FreeSlotIsOwed
BY InitChat, NextChat, InitOwes, NextOwes, PTL DEF Spec
-----------------------------------------------------------------------------
(* The order of the queue.                                                 *)

Follows(s, u, v) == \E i, j \in 1 .. Len(s) : i < j /\ s[i] = u /\ s[j] = v

(* ZREM leaves the others in their order.                                  *)
LEMMA WithoutOrder ==
  ASSUME queue \in Seq(User), NEW w, NEW u, NEW v, u # w, v # w, Before(u, v)
  PROVE  Follows(Without(w), u, v)
<1>1. CASE w \notin Queued BY <1>1 DEF Without, Follows, Before
<1>2. CASE w \in Queued
  <2> DEFINE k == CHOOSE i \in 1 .. Len(queue) : queue[i] = w
             s == Without(w)
             place(i) == IF i < k THEN i ELSE i - 1
  <2>1. k \in 1 .. Len(queue) /\ queue[k] = w BY <1>2 DEF Queued
  <2>2. s = RemoveAt(queue, k) BY <1>2 DEF Without
  <2> HIDE DEF k, s
  <2>3. Len(queue) \in Nat BY LenProperties
  <2>4. /\ Len(s) = Len(queue) - 1
        /\ \A i \in 1 .. Len(queue) - 1 : s[i] = IF i < k THEN queue[i] ELSE queue[i + 1]
    BY <2>1, <2>2, RemoveAtProperties
  <2>5. ASSUME NEW i \in 1 .. Len(queue), i # k
        PROVE  place(i) \in 1 .. Len(s) /\ s[place(i)] = queue[i]
    <3>1. CASE i < k
      <4>1. i \in 1 .. Len(queue) - 1 /\ place(i) = i BY <2>1, <2>3, <3>1
      <4> QED BY <2>4, <3>1, <4>1
    <3>2. CASE ~ (i < k)
      <4>1. /\ i - 1 \in 1 .. Len(queue) - 1 /\ ~ (i - 1 < k)
            /\ (i - 1) + 1 = i /\ place(i) = i - 1
        BY <2>1, <2>3, <2>5, <3>2
      <4>2. s[i - 1] = queue[i] BY <2>4, <4>1
      <4> QED BY <2>4, <4>1, <4>2
    <3> QED BY <3>1, <3>2
  <2>6. PICK i \in 1 .. Len(queue), j \in 1 .. Len(queue) :
          i < j /\ queue[i] = u /\ queue[j] = v
    BY DEF Before
  <2>7. i # k /\ j # k BY <2>1, <2>6
  <2>8. place(i) < place(j) BY <2>1, <2>3, <2>6, <2>7
  <2>9. /\ place(i) \in 1 .. Len(s) /\ s[place(i)] = u
        /\ place(j) \in 1 .. Len(s) /\ s[place(j)] = v
    BY <2>5, <2>6, <2>7
  <2> HIDE DEF place
  <2> QED BY <2>8, <2>9 DEF Follows, s
<1> QED BY <1>1, <1>2

(* ZADD puts the new one behind all others.                                *)
LEMMA AppendedOrder ==
  ASSUME NEW s \in Seq(User), NEW w \in User, NEW u, NEW v,
         Follows(s, u, v) \/ (u \in Elements(s) /\ v = w)
  PROVE  Follows(Append(s, w), u, v)
<1> DEFINE q == Append(s, w)
<1>1. Len(s) \in Nat BY LenProperties
<1>2. /\ Len(q) = Len(s) + 1
      /\ \A i \in 1 .. Len(s) : q[i] = s[i]
      /\ q[Len(s) + 1] = w
  BY AppendProperties
<1> HIDE DEF q
<1>3. CASE Follows(s, u, v)
  <2>1. PICK i \in 1 .. Len(s), j \in 1 .. Len(s) : i < j /\ s[i] = u /\ s[j] = v
    BY <1>3 DEF Follows
  <2>2. i \in 1 .. Len(q) /\ j \in 1 .. Len(q) BY <1>1, <1>2
  <2> QED BY <1>2, <2>1, <2>2 DEF Follows, q
<1>4. CASE u \in Elements(s) /\ v = w
  <2>1. PICK i \in 1 .. Len(s) : s[i] = u BY <1>4 DEF Elements
  <2>2. i \in 1 .. Len(q) /\ Len(s) + 1 \in 1 .. Len(q) /\ i < Len(s) + 1 BY <1>1, <1>2
  <2> QED BY <1>2, <1>4, <2>1, <2>2 DEF Follows, q
<1> QED BY <1>3, <1>4

Joins(u) == \E t \in Thread : Enter(t) /\ job[t].who = u

(* The queue is first come, first served: one who waits before another is   *)
(* let in before it, and keeps its place, except that a user who joins      *)
(* again is let in at once where a slot is free, and else loses its place.  *)
TurnsAreKept ==
  \A u, v \in User : Before(u, v) =>
    /\ v \in members' => u \in members' \/ Joins(v)
    /\ {u, v} \subseteq Queued' => Before(u, v)' \/ Joins(u)

LEMMA BeforeProperties ==
  ASSUME RoomInv, NEW u, NEW v, Before(u, v)
  PROVE  u # v /\ u \in Queued /\ v \in Queued /\ v \notin members
<1>1. PICK i \in 1 .. Len(queue), j \in 1 .. Len(queue) :
        i < j /\ queue[i] = u /\ queue[j] = v
  BY DEF Before
<1>2. i # j BY <1>1
<1>3. u # v BY <1>1, <1>2 DEF RoomInv, Distinct
<1>4. u \in Queued /\ v \in Queued BY <1>1 DEF Queued
<1> QED BY <1>3, <1>4 DEF RoomInv

LEMMA SameTurns ==
  ASSUME ChatInv, members' \subseteq members, queue' = queue \/ queue' = <<>>
  PROVE  TurnsAreKept
<1> SUFFICES ASSUME NEW u \in User, NEW v \in User, Before(u, v)
             PROVE  /\ v \notin members'
                    /\ {u, v} \subseteq Queued' => Before(u, v)'
  BY DEF TurnsAreKept
<1>1. v \notin members' BY BeforeProperties DEF ChatInv
<1>2. CASE queue' = queue BY <1>1, <1>2 DEF Before
<1>3. CASE queue' = <<>>
  <2>1. 1 .. Len(queue') = {} BY <1>3, EmptySeq
  <2>2. Queued' = {} BY <2>1 DEF Queued
  <2> QED BY <1>1, <2>2
<1> QED BY <1>2, <1>3

LEMMA JoinTurns == ASSUME ChatInv, NEW t \in Thread, Enter(t) PROVE TurnsAreKept
<1> DEFINE w == job[t].who
           others == members \ {w}
<1>1. w \in User /\ queue \in Seq(User) /\ Distinct(queue)
  BY DEF ChatInv, TypeInv, RedisType, JobType, Served, RoomInv, Enter, At, Serving
<1> SUFFICES ASSUME NEW u \in User, NEW v \in User, Before(u, v)
             PROVE  /\ v \in members' => v = w
                    /\ {u, v} \subseteq Queued' /\ u # w => Before(u, v)'
  BY DEF TurnsAreKept, Joins
<1>2. u # v /\ u \in Queued /\ v \in Queued /\ v \notin members
  BY BeforeProperties DEF ChatInv
<1>3. /\ Without(w) \in Seq(User) /\ Elements(Without(w)) = Queued \ {w}
      /\ Distinct(Without(w))
  BY <1>1, WithoutProperties
<1>4. Queued' = Elements(queue') BY DEF Queued, Elements
<1>5. v \in members' => v = w BY <1>2 DEF Enter, JoinScript
<1>6. ASSUME {u, v} \subseteq Queued', u # w PROVE Before(u, v)'
  <2>1. CASE queue' = Without(w)
    <3>1. v # w BY <1>3, <1>4, <1>6, <2>1
    <3>2. Follows(Without(w), u, v) BY <1>1, <1>6, <3>1, WithoutOrder
    <3> QED BY <2>1, <3>2 DEF Follows, Before
  <2>2. CASE queue' = Append(Without(w), w)
    <3>1. v # w => Follows(Without(w), u, v) BY <1>1, <1>6, WithoutOrder
    <3>2. u \in Elements(Without(w)) BY <1>2, <1>3, <1>6
    <3>3. Follows(Append(Without(w), w), u, v) BY <1>1, <1>3, <3>1, <3>2, AppendedOrder
    <3> QED BY <2>2, <3>3 DEF Follows, Before
  <2> QED BY <2>1, <2>2 DEF Enter, JoinScript
<1> QED BY <1>5, <1>6

LEMMA LeaveTurns == ASSUME ChatInv, NEW t \in Thread, Leave(t) PROVE TurnsAreKept
<1> DEFINE w == job[t].who
<1>1. /\ queue \in Seq(User) /\ Distinct(queue)
      /\ members' = members \ {w} /\ queue' = Without(w)
  BY DEF ChatInv, TypeInv, RedisType, RoomInv, Leave
<1> SUFFICES ASSUME NEW u \in User, NEW v \in User, Before(u, v)
             PROVE  /\ v \notin members'
                    /\ {u, v} \subseteq Queued' => Before(u, v)'
  BY DEF TurnsAreKept
<1>2. v \notin members' BY <1>1, BeforeProperties DEF ChatInv
<1>3. ASSUME {u, v} \subseteq Queued' PROVE Before(u, v)'
  <2>1. Queued' = Elements(Without(w)) BY <1>1 DEF Queued, Elements
  <2>2. u # w /\ v # w BY <1>1, <1>3, <2>1, WithoutProperties
  <2>3. Follows(Without(w), u, v) BY <1>1, <2>2, WithoutOrder
  <2> QED BY <1>1, <2>3 DEF Follows, Before
<1> QED BY <1>2, <1>3

LEMMA PromoteTurns == ASSUME ChatInv, NEW t \in Thread, Promote(t) PROVE TurnsAreKept
<1> DEFINE n == Promoted
<1>1. /\ Cardinality(members) \in Nat /\ Cardinality(members) <= Capacity
      /\ queue \in Seq(User) /\ Len(queue) \in Nat
      /\ \A i \in 1 .. Len(queue) : queue[i] \in User
      /\ \A i, j \in 1 .. Len(queue) : queue[i] = queue[j] => i = j
  BY FS_CardinalityType, LenProperties, ElementOfSeq
     DEF ChatInv, RoomInv, Distinct, TypeInv, RedisType
<1>2. n \in 0 .. Len(queue) BY <1>1, PromotedProperties
<1>3. members' = members \cup {queue[i] : i \in 1 .. n}
      /\ queue' = SubSeq(queue, n + 1, Len(queue))
  BY DEF Promote
<1> HIDE DEF n
<1>4. /\ Len(queue') = Len(queue) - n
      /\ \A i \in 1 .. Len(queue) - n : queue'[i] = queue[n + i]
  <2>1. n + 1 \in Int /\ Len(queue) \in Int BY <1>1, <1>2
  <2>2. \A i \in n + 1 .. Len(queue) : queue[i] \in User BY <1>1, <1>2
  <2>3. /\ Len(SubSeq(queue, n + 1, Len(queue)))
              = IF n + 1 <= Len(queue) THEN Len(queue) - (n + 1) + 1 ELSE 0
        /\ \A i \in 1 .. Len(queue) - (n + 1) + 1 :
             SubSeq(queue, n + 1, Len(queue))[i] = queue[(n + 1) + i - 1]
    BY <2>1, <2>2, SubSeqProperties
  <2>4. /\ Len(queue) - (n + 1) + 1 = Len(queue) - n
        /\ ~ (n + 1 <= Len(queue)) => Len(queue) - n = 0
        /\ \A i \in 1 .. Len(queue) - n : (n + 1) + i - 1 = n + i
    BY <1>1, <1>2
  <2> QED BY <1>3, <2>3, <2>4
<1> SUFFICES ASSUME NEW u \in User, NEW v \in User, Before(u, v)
             PROVE  /\ v \in members' => u \in members'
                    /\ {u, v} \subseteq Queued' => Before(u, v)'
  BY DEF TurnsAreKept
<1>5. PICK i \in 1 .. Len(queue), j \in 1 .. Len(queue) :
        i < j /\ queue[i] = u /\ queue[j] = v
  BY DEF Before
<1>6. ASSUME v \in members' PROVE u \in members'
  <2>1. v \notin members BY BeforeProperties DEF ChatInv
  <2>2. PICK k \in 1 .. n : queue[k] = v BY <1>3, <1>6, <2>1
  <2>3. k \in 1 .. Len(queue) BY <1>1, <1>2
  <2>4. k = j BY <1>1, <1>5, <2>2, <2>3
  <2>5. i \in 1 .. n BY <1>2, <1>5, <2>4
  <2> QED BY <1>3, <1>5, <2>5
<1>7. ASSUME {u, v} \subseteq Queued' PROVE Before(u, v)'
  <2>1. PICK k \in 1 .. Len(queue) - n : queue'[k] = u BY <1>4, <1>7 DEF Queued
  <2>2. PICK m \in 1 .. Len(queue) - n : queue'[m] = v BY <1>4, <1>7 DEF Queued
  <2>3. n + k \in 1 .. Len(queue) /\ n + m \in 1 .. Len(queue) BY <1>1, <1>2
  <2>4. queue[n + k] = u /\ queue[n + m] = v BY <1>4, <2>1, <2>2
  <2>5. n + k = i /\ n + m = j BY <1>1, <1>5, <2>3, <2>4
  <2>6. k < m BY <1>2, <1>5, <2>5
  <2> QED BY <1>4, <2>1, <2>2, <2>6 DEF Before
<1> QED BY <1>6, <1>7

(* The other steps touch neither the room nor the queue, or empty them.    *)
LEMMA NextTurns == ChatInv /\ Next => TurnsAreKept
<1> SUFFICES ASSUME ChatInv, Next PROVE TurnsAreKept
  OBVIOUS
<1> DEFINE Still == UNCHANGED <<members, queue>>
<1>1. Still => TurnsAreKept BY SameTurns
<1>2. ASSUME NEW p \in Pod, Socket(p) \/ StartSweep(p) \/ Crash(p) PROVE Still
  BY <1>2 DEF Socket, Vanish, Ping, Connect, Disconnect, StartSweep, Crash, redis
<1>3. ASSUME NEW t \in Worker, Administer(t) PROVE Still
  BY <1>3 DEF Administer, AddVirtualUsers, RemoveVirtualUsers, Scan, redis
<1>4. ASSUME NEW t \in Thread, Advance(t) \/ Fail(t) PROVE TurnsAreKept
  <2>1. CASE SaveProfile(t) \/ Heartbeat(t) \/ ClearBeat(t) \/ ClearProfile(t)
    BY <1>1, <2>1 DEF SaveProfile, Heartbeat, ClearBeat, ClearProfile
  <2>2. CASE ReadMembers(t) \/ ReadQueue(t) \/ Checked(t) \/ Fail(t)
    BY <1>1, <2>2 DEF ReadMembers, ReadQueue, Checked, Fail, redis
  <2>3. CASE \E u \in User : Check(t, u) BY <1>1, <2>3 DEF Check, redis
  <2>4. CASE Delete(t) BY <2>4, SameTurns DEF Delete
  <2> QED BY <1>4, <2>1, <2>2, <2>3, <2>4, JoinTurns, LeaveTurns, PromoteTurns DEF Advance
<1>5. ASSUME NEW u \in User, Expire(u) PROVE Still BY <1>5 DEF Expire
<1> QED BY <1>1, <1>2, <1>3, <1>4, <1>5 DEF Next

(* Every step of every handler keeps the turns.                            *)
THEOREM FirstComeFirstServed == Spec => [][TurnsAreKept]_vars
BY InitChat, NextChat, NextTurns, PTL DEF Spec
=============================================================================
