------------------------- MODULE HpaRehearsal_proofs -------------------------
(***************************************************************************)
(* Proofs about HpaRehearsal, for any number of runs, panels, requests and   *)
(* faults: its types, that a cancellation on record lasts, and that two       *)
(* rehearsals at work at once take the deletion of a lock.                   *)
(***************************************************************************)
EXTENDS HpaRehearsal, FiniteSetTheorems, TLAPS

(* A request that carries a status carries a run.  None is about to record   *)
(* a cancellation but cancel itself, inside the cluster.                    *)
RequestOK(q) ==
    /\ q.pc \in {"kill", "derive", "write"} => q.run \in Run
    /\ q.pc = "write" => q.next \in Status
    /\ q.pc = "reply" => q.next \in View
    /\ q.next # "CANCELLED"
    /\ q.pc = "mark" => available

RecordOK(r) == status[r] = "CANCELLED" => available

Inv ==
    /\ TypeOK
    /\ \A t \in Thread : RequestOK(req[t])
    /\ \A r \in Run : RecordOK(r)

Request ==
    [kind: {"get", "post", "delete"}, page: Page \cup {None},
     run: Run \cup {None}, pc: Step, job: JobState, big: BOOLEAN,
     next: Status \cup View]

(* A request that is replaced by a proper one.                               *)
LEMMA IdleIsRequest == Idle \in Request /\ RequestOK(Idle)
  BY DEF Idle, Request, RequestOK, Step, JobState, Status, View, Terminals

LEMMA InitInv == Init => Inv
  <1> SUFFICES ASSUME Init PROVE Inv
    OBVIOUS
  <1>1. TypeOK
    <2>1. req \in [Thread -> Request]
      BY IdleIsRequest DEF Init
    <2>2. job \in [Run -> JobState] /\ shown \in [Page -> View] /\ replicas \in 1..3
      BY DEF Init, JobState, View
    <2>3. faults \in 0..MaxFaults
      BY FaultAssumption DEF Init
    <2> QED BY <2>1, <2>2, <2>3 DEF Init, TypeOK, Request
  <1>2. \A t \in Thread : RequestOK(req[t])
    BY IdleIsRequest DEF Init
  <1>3. \A r \in Run : RecordOK(r)
    BY DEF Init, RecordOK
  <1> QED BY <1>1, <1>2, <1>3 DEF Inv

LEMMA OneRequest ==
  ASSUME NEW t \in Thread, NEW q \in Request, Inv, RequestOK(q),
         req' = [req EXCEPT ![t] = q], available' = available
  PROVE  req' \in [Thread -> Request] /\ \A u \in Thread : RequestOK(req[u])'
  <1>1. req \in [Thread -> Request]
    BY DEF Inv, TypeOK, Request
  <1> QED BY <1>1 DEF Inv, RequestOK

(* Requests that go on, answer or end. *)
LEMMA GotoIsRequest ==
  ASSUME NEW t \in Thread, NEW pc \in Step, Inv, Goto(t, pc), available' = available,
         pc \notin {"kill", "derive", "write", "reply"}, pc = "mark" => available
  PROVE  req' \in [Thread -> Request] /\ \A u \in Thread : RequestOK(req[u])'
  <1> DEFINE q == [req[t] EXCEPT !.pc = pc, !.job = Idle.job, !.big = Idle.big,
                                !.next = Idle.next]
  <1>1. req \in [Thread -> Request]
    BY DEF Inv, TypeOK, Request
  <1>2. q \in Request
    BY <1>1, IdleIsRequest DEF Request
  <1>3. q.pc = pc /\ q.next = "STARTING"
    BY <1>1 DEF Request, Idle
  <1>4. RequestOK(q)
    BY <1>3 DEF RequestOK
  <1>5. req' = [req EXCEPT ![t] = q]
    BY <1>1 DEF Goto, Request
  <1> HIDE DEF q
  <1> QED BY <1>2, <1>4, <1>5, OneRequest

LEMMA ReplyIsRequest ==
  ASSUME NEW t \in Thread, NEW v \in View, Inv, Reply(t, v), available' = available
  PROVE  req' \in [Thread -> Request] /\ \A u \in Thread : RequestOK(req[u])'
  <1> DEFINE q == [Idle EXCEPT !.kind = req[t].kind, !.page = req[t].page,
                               !.pc = "reply", !.next = v]
  <1>1. req \in [Thread -> Request]
    BY DEF Inv, TypeOK, Request
  <1>2. q \in Request
    BY <1>1, IdleIsRequest DEF Request, Step
  <1>3. q.pc = "reply" /\ q.next = v
    BY DEF Idle
  <1>4. RequestOK(q)
    BY <1>3 DEF RequestOK, View
  <1>5. req' = [req EXCEPT ![t] = q]
    BY DEF Reply
  <1> HIDE DEF q
  <1> QED BY <1>2, <1>4, <1>5, OneRequest

LEMMA EndIsRequest ==
  ASSUME NEW t \in Thread, Inv, req' = [req EXCEPT ![t] = Idle], available' = available
  PROVE  req' \in [Thread -> Request] /\ \A u \in Thread : RequestOK(req[u])'
  BY IdleIsRequest, OneRequest

LEMMA ErroredKeeps ==
  ASSUME NEW t \in Thread, Inv, Errored(t), available' = available
  PROVE  /\ req' \in [Thread -> Request] /\ \A u \in Thread : RequestOK(req[u])'
         /\ shown' \in [Page -> View]
  <1>1. req' \in [Thread -> Request] /\ \A u \in Thread : RequestOK(req[u])'
    BY EndIsRequest DEF Errored
  <1>2. shown' \in [Page -> View]
    BY DEF Errored, Inv, TypeOK, View
  <1> QED BY <1>1, <1>2

(* The rest of the state. *)
RestOK ==
    /\ {lock, current, latest} \subseteq Run \cup {None}
    /\ status \in [Run -> Status \cup {"unused"}]
    /\ available \in BOOLEAN /\ job \in [Run -> JobState] /\ replicas \in 1..3
    /\ shown \in [Page -> View]
    /\ faults \in 0..MaxFaults
    /\ robbed \subseteq Run

LEMMA InvParts == Inv => RestOK /\ req \in [Thread -> Request]
  BY DEF RestOK, Request, Inv, TypeOK

LEMMA FaultCounts == RestOK /\ Fault => faults' \in 0..MaxFaults
  BY FaultAssumption DEF RestOK, Fault

LEMMA StepInv == Inv /\ [Next]_vars => Inv'
  <1> SUFFICES ASSUME Inv, [Next]_vars PROVE Inv'
    OBVIOUS
  <1>0. RestOK /\ req \in [Thread -> Request]
    BY InvParts
  <1> DEFINE Requests == req' \in [Thread -> Request] /\ \A u \in Thread : RequestOK(req[u])'
             Records == \A r \in Run : RecordOK(r)'
  <1>r. ASSUME status' = status, available' = available PROVE Records
    BY <1>r DEF Inv, RecordOK
  <1>p. ASSUME Requests, Records, RestOK' PROVE Inv'
    BY <1>p DEF RestOK, Request, Inv, TypeOK
  <1> HIDE DEF Records
  (* Panels and answers. *)
  <1>1. ASSUME NEW t \in Thread, NEW p \in Page \cup {None},
               \/ p \in Page /\ (Poll(t, p) \/ Start(t, p) \/ Cancel(t, p))
               \/ p = None /\ Post(t)
        PROVE  Inv'
    <2>1. PICK kind \in {"get", "post", "delete"}, pc \in {"find", "lock", "who"} :
             Ask(t, p, kind, pc)
      BY <1>1 DEF Poll, Start, Cancel, Post
    <2>2. Requests
      <3> DEFINE q == [Idle EXCEPT !.kind = kind, !.page = p, !.pc = pc]
      <3>1. q \in Request
        BY IdleIsRequest DEF Request, Step
      <3>2. RequestOK(q)
        BY DEF Idle, RequestOK
      <3>3. req' = [req EXCEPT ![t] = q] /\ available' = available
        BY <2>1 DEF Ask, cluster
      <3> HIDE DEF q
      <3> QED BY <3>1, <3>2, <3>3, OneRequest
    <2>3. RestOK' /\ status' = status /\ available' = available
      BY <2>1, <1>0 DEF Ask, RestOK, redis, cluster
    <2> QED BY <2>2, <2>3, <1>r, <1>p
  <1>2. ASSUME NEW t \in Thread, Answer(t) PROVE Inv'
    <2>1. Requests
      BY <1>2, EndIsRequest DEF Answer, cluster
    <2>2. shown' \in [Page -> View]
      <3>1. req[t].next \in View
        BY <1>2, <1>0 DEF Answer, Inv, RequestOK, Request
      <3> QED BY <3>1, <1>2, <1>0 DEF Answer, RestOK
    <2>3. RestOK' /\ status' = status /\ available' = available
      BY <1>2, <2>2, <1>0 DEF Answer, RestOK, redis, cluster
    <2> QED BY <2>1, <2>3, <1>r, <1>p
  <1>3. ASSUME NEW t \in Thread, TimeOut(t) PROVE Inv'
    <2>1. Requests
      BY <1>3 DEF TimeOut, cluster, Inv, TypeOK, Request, RequestOK
    <2>2. RestOK' /\ status' = status /\ available' = available
      BY <1>3, <1>0, FaultCounts DEF TimeOut, RestOK, redis, cluster, View
    <2> QED BY <2>1, <2>2, <1>r, <1>p
  <1>4. ASSUME NEW t \in Thread, Crash(t) PROVE Inv'
    <2>1. Requests /\ shown' \in [Page -> View]
      BY <1>4, ErroredKeeps DEF Crash, cluster
    <2>2. RestOK' /\ status' = status /\ available' = available
      BY <1>4, <2>1, <1>0, FaultCounts DEF Crash, RestOK, redis, cluster
    <2> QED BY <2>1, <2>2, <1>r, <1>p
  (* start *)
  <1>5. ASSUME NEW t \in Thread, StartLock(t) PROVE Inv'
    <2>1. available' = available /\ status' = status
      BY <1>5 DEF StartLock, cluster
    <2>2. CASE lock = None
      <3>1. PICK r \in Run : /\ lock' = r /\ shown' = shown
                             /\ req' = [req EXCEPT ![t].run = r, ![t].pc = "current"]
        BY <2>2, <1>5 DEF StartLock, Fresh
      <3>2. Requests
        <4> DEFINE q == [req[t] EXCEPT !.run = r, !.pc = "current"]
        <4>1. q \in Request
          BY <1>0 DEF Request, Step
        <4>2. RequestOK(q)
          BY <1>5, <1>0 DEF StartLock, At, Inv, Request, RequestOK
        <4>3. req' = [req EXCEPT ![t] = q]
          BY <3>1, <1>0 DEF Request
        <4> HIDE DEF q
        <4> QED BY <4>1, <4>2, <4>3, <2>1, OneRequest
      <3>3. RestOK'
        BY <3>1, <1>5, <1>0 DEF StartLock, RestOK, cluster
      <3> QED BY <3>2, <3>3, <2>1, <1>r, <1>p
    <2>3. CASE lock # None
      <3>1. Requests /\ shown' \in [Page -> View] /\ lock' = lock
        BY <2>1, <2>3, <1>5, ErroredKeeps DEF StartLock
      <3>2. RestOK'
        BY <3>1, <1>5, <1>0 DEF StartLock, RestOK, cluster
      <3> QED BY <3>1, <3>2, <2>1, <1>r, <1>p
    <2> QED BY <2>2, <2>3
  <1>6. ASSUME NEW t \in Thread, StartCurrent(t) PROVE Inv'
    <2>1. Requests
      BY <1>6, GotoIsRequest DEF StartCurrent, cluster, Step
    <2>2. RestOK' /\ status' = status /\ available' = available
      BY <1>6, <1>0 DEF StartCurrent, RestOK, cluster, Request
    <2> QED BY <2>1, <2>2, <1>r, <1>p
  <1>7. ASSUME NEW t \in Thread, StartRecord(t) PROVE Inv'
    <2>1. Requests
      BY <1>7, GotoIsRequest DEF StartRecord, cluster, Step
    <2>2. Records
      BY <1>7 DEF StartRecord, cluster, Records, Inv, TypeOK, RecordOK
    <2>3. RestOK'
      BY <1>7, <1>0 DEF StartRecord, RestOK, cluster, Request, Status
    <2> QED BY <2>1, <2>2, <2>3, <1>p
  <1>8. ASSUME NEW t \in Thread, StartJob(t) PROVE Inv'
    <2>1. available' = available /\ status' = status
      BY <1>8 DEF StartJob, redis, cluster
    <2>2. Requests
      <3>1. Goto(t, "read") \/ Goto(t, "undo")
        BY <1>8 DEF StartJob
      <3> QED BY <3>1, <2>1, GotoIsRequest DEF Step
    <2>3. job' \in [Run -> JobState]
      BY <1>8, <1>0 DEF StartJob, RestOK, JobState
    <2>4. faults' \in 0..MaxFaults
      BY <1>8, <1>0, FaultCounts DEF StartJob, RestOK
    <2>5. RestOK'
      BY <1>8, <2>1, <2>3, <2>4, <1>0 DEF StartJob, RestOK, redis, cluster
    <2> QED BY <2>1, <2>2, <2>5, <1>r, <1>p
  <1>9. ASSUME NEW t \in Thread, StartUndo(t) PROVE Inv'
    <2>1. Requests
      BY <1>9, GotoIsRequest DEF StartUndo, cluster, Step
    <2>2. RestOK' /\ status' = status /\ available' = available
      BY <1>9, <1>0 DEF StartUndo, FreeLock, RestOK, cluster
    <2> QED BY <2>1, <2>2, <1>r, <1>p
  <1>10. ASSUME NEW t \in Thread, StartUndone(t) PROVE Inv'
    <2>1. Requests /\ shown' \in [Page -> View]
      BY <1>10, ErroredKeeps DEF StartUndone, cluster
    <2>2. RestOK' /\ status' = status /\ available' = available
      BY <1>10, <2>1, <1>0 DEF StartUndone, RestOK, cluster
    <2> QED BY <2>1, <2>2, <1>r, <1>p
  (* cancel, and the run to look at *)
  <1>11. ASSUME NEW t \in Thread, Find(t) PROVE Inv'
    <2>1. Requests
      BY <1>11, <1>0 DEF Find, At, RestOK, cluster, Inv, Request, RequestOK, Step
    <2>2. RestOK' /\ status' = status /\ available' = available
      BY <1>11, <1>0 DEF Find, RestOK, redis, cluster
    <2> QED BY <2>1, <2>2, <1>r, <1>p
  <1>12. ASSUME NEW t \in Thread, CancelWho(t) PROVE Inv'
    <2>1. available' = available /\ status' = status
      BY <1>12 DEF CancelWho, redis, cluster
    <2>2. Requests /\ shown' \in [Page -> View]
      <3>1. CASE current = None
        BY <3>1, <2>1, <1>12, ErroredKeeps DEF CancelWho
      <3>2. CASE current # None
        BY <3>2, <2>1, <1>12, <1>0 DEF CancelWho, At, RestOK, Inv, Request, RequestOK, Step
      <3> QED BY <3>1, <3>2
    <2>3. RestOK'
      BY <2>2, <1>12, <1>0 DEF CancelWho, RestOK, redis, cluster
    <2> QED BY <2>1, <2>2, <2>3, <1>r, <1>p
  <1>13. ASSUME NEW t \in Thread, CancelJob(t) PROVE Inv'
    <2>1. available' = available /\ status' = status
      BY <1>13 DEF CancelJob, redis
    <2>2. Requests /\ shown' \in [Page -> View] /\ faults' \in 0..MaxFaults
      <3>1. CASE available /\ Goto(t, "mark") /\ UNCHANGED <<faults, shown>>
        BY <3>1, <2>1, <1>0, GotoIsRequest DEF RestOK, Step
      <3>2. CASE Errored(t) /\ IF available THEN Fault ELSE UNCHANGED faults
        BY <3>2, <2>1, <1>0, ErroredKeeps, FaultCounts DEF RestOK
      <3> QED BY <3>1, <3>2, <1>13 DEF CancelJob
    <2>3. job' \in [Run -> JobState]
      BY <1>13, <1>0 DEF CancelJob, RestOK, JobState
    <2>4. RestOK'
      BY <2>1, <2>2, <2>3, <1>13, <1>0 DEF CancelJob, RestOK, redis
    <2> QED BY <2>1, <2>2, <2>4, <1>r, <1>p
  <1>14. ASSUME NEW t \in Thread, CancelMark(t) PROVE Inv'
    <2>1. available /\ available' = available
      BY <1>14 DEF CancelMark, At, Inv, RequestOK, cluster
    <2>2. Requests
      BY <2>1, <1>14, GotoIsRequest DEF CancelMark, Step
    <2>3. Records
      BY <2>1 DEF Records, RecordOK
    <2>4. RestOK'
      BY <1>14, <1>0 DEF CancelMark, RestOK, cluster, Status, Terminals
    <2> QED BY <2>2, <2>3, <2>4, <1>p
  <1>15. ASSUME NEW t \in Thread, CancelFree(t) PROVE Inv'
    <2>1. Requests
      BY <1>15, GotoIsRequest DEF CancelFree, cluster, Step
    <2>2. RestOK' /\ status' = status /\ available' = available
      BY <1>15, <1>0 DEF CancelFree, FreeLock, RestOK, cluster
    <2> QED BY <2>1, <2>2, <1>r, <1>p
  <1>16. ASSUME NEW t \in Thread, CancelFreed(t) PROVE Inv'
    <2>1. Requests
      BY <1>16, GotoIsRequest DEF CancelFreed, cluster, Step
    <2>2. RestOK' /\ status' = status /\ available' = available
      BY <1>16, <1>0 DEF CancelFreed, RestOK, cluster
    <2> QED BY <2>1, <2>2, <1>r, <1>p
  (* view *)
  <1>17. ASSUME NEW t \in Thread, ViewRead(t) PROVE Inv'
    <2>1. UNCHANGED <<lock, current, latest, status, available, job, replicas, robbed>>
      BY <1>17 DEF ViewRead, redis, cluster
    <2>2. CASE /\ req[t].run = None /\ UNCHANGED <<shown, faults>>
               /\ Reply(t, IF available THEN "over" ELSE "UNAVAILABLE")
      <3>1. Requests
        BY <2>1, <2>2, ReplyIsRequest DEF View
      <3> QED BY <3>1, <2>1, <2>2, <1>0, <1>r, <1>p DEF RestOK
    <2>3. CASE /\ req[t].run # None
               /\ req' = [req EXCEPT ![t].job = job[req[t].run], ![t].big = replicas >= 2,
                                     ![t].pc = "derive"]
               /\ UNCHANGED <<shown, faults>>
      <3>1. req[t].run \in Run
        BY <2>3, <1>0 DEF Request
      <3> DEFINE q == [req[t] EXCEPT !.job = job[req[t].run], !.big = replicas >= 2,
                                     !.pc = "derive"]
      <3>2. q \in Request
        <4>1. job[req[t].run] \in JobState /\ (replicas >= 2) \in BOOLEAN
          BY <3>1, <1>0 DEF RestOK
        <4> QED BY <4>1, <1>0 DEF Request, Step
      <3>3. RequestOK(q)
        BY <3>1, <1>0 DEF Inv, RequestOK, Request
      <3>4. req' = [req EXCEPT ![t] = q]
        BY <2>3, <1>0 DEF Request
      <3> HIDE DEF q
      <3>5. Requests
        BY <3>2, <3>3, <3>4, <2>1, OneRequest
      <3>6. RestOK'
        BY <2>1, <2>3, <1>0 DEF RestOK
      <3> QED BY <3>5, <3>6, <2>1, <1>r, <1>p
    <2>4. CASE /\ Fault
               /\ IF req[t].kind = "post" THEN Goto(t, "undo") /\ UNCHANGED shown
                  ELSE Errored(t)
      <3>1. Requests /\ shown' \in [Page -> View]
        BY <2>1, <2>4, <1>0, GotoIsRequest, ErroredKeeps DEF RestOK, Step
      <3>2. RestOK'
        BY <2>1, <2>4, <3>1, <1>0, FaultCounts DEF RestOK
      <3> QED BY <3>1, <3>2, <2>1, <1>r, <1>p
    <2> QED BY <2>2, <2>3, <2>4, <1>17 DEF ViewRead
  <1>18. ASSUME NEW t \in Thread, ViewDerive(t) PROVE Inv'
    <2> DEFINE r == req[t].run
               previous == IF status[r] = "unused" THEN "STARTING" ELSE status[r]
               next == Derive(previous, req[t].job, req[t].big)
    <2>1. r \in Run /\ req[t].pc = "derive"
      BY <1>18, <1>0 DEF ViewDerive, At, Inv, RequestOK
    <2>2. previous \in Status
      BY <2>1, <1>0 DEF RestOK, Status
    <2> HIDE DEF previous
    <2>4. next \in Status /\ (next = "CANCELLED" => previous = "CANCELLED")
      BY <2>2 DEF Derive, Status, Terminals
    <2> HIDE DEF next
    <2>5. status' = status /\ available' = available /\ RestOK'
      BY <1>18, <1>0 DEF ViewDerive, RestOK, redis, cluster
    <2>6. CASE next = previous
      <3>1. After(t, next)
        BY <2>6, <1>18 DEF ViewDerive, previous, next
      <3>2. Requests
        BY <3>1, <2>5, GotoIsRequest, ReplyIsRequest DEF After, Step, View
      <3> QED BY <3>2, <2>5, <1>r, <1>p
    <2>7. CASE next # previous
      <3>1. req' = [req EXCEPT ![t].next = next, ![t].pc = "write"]
        BY <2>7, <1>18 DEF ViewDerive, previous, next
      <3> DEFINE q == [req[t] EXCEPT !.next = next, !.pc = "write"]
      <3>2. q \in Request
        BY <2>4, <1>0 DEF Request, Step
      <3>3. RequestOK(q)
        BY <2>1, <2>4, <2>7, <1>0 DEF RequestOK, Request
      <3>4. req' = [req EXCEPT ![t] = q]
        BY <3>1, <1>0 DEF Request
      <3> HIDE DEF q
      <3> QED BY <3>2, <3>3, <3>4, <2>5, OneRequest, <1>r, <1>p
    <2> QED BY <2>6, <2>7
  <1>19. ASSUME NEW t \in Thread, ViewWrite(t) PROVE Inv'
    <2> DEFINE r == req[t].run
               next == req[t].next
    <2>1. r \in Run /\ next \in Status /\ next # "CANCELLED"
      BY <1>19, <1>0 DEF ViewWrite, At, Inv, RequestOK
    <2>2. status' = [status EXCEPT ![r] = next] /\ After(t, next) /\ available' = available
      BY <1>19 DEF ViewWrite, cluster
    <2>3. Requests
      BY <2>2, GotoIsRequest, ReplyIsRequest DEF After, Step, View
    <2>4. Records
      BY <2>1, <2>2 DEF Records, Inv, TypeOK, RecordOK
    <2>5. RestOK'
      BY <1>19, <2>1, <2>2, <1>0 DEF ViewWrite, RestOK, cluster
    <2> QED BY <2>3, <2>4, <2>5, <1>p
  <1>20. ASSUME NEW t \in Thread, ViewEnd(t) PROVE Inv'
    <2>1. Requests
      BY <1>20, GotoIsRequest DEF ViewEnd, cluster, Step
    <2>2. RestOK' /\ status' = status /\ available' = available
      BY <1>20, <1>0 DEF ViewEnd, FreeLock, RestOK, cluster
    <2> QED BY <2>1, <2>2, <1>r, <1>p
  <1>21. ASSUME NEW t \in Thread, ViewEnded(t) PROVE Inv'
    <2>1. Requests
      BY <1>21, ReplyIsRequest DEF ViewEnded, cluster, View
    <2>2. RestOK' /\ status' = status /\ available' = available
      BY <1>21, <1>0 DEF ViewEnded, RestOK, cluster
    <2> QED BY <2>1, <2>2, <1>r, <1>p
  (* The cluster, the expiry of the keys, and stuttering. *)
  <1>22. ASSUME UNCHANGED <<status, available, req>>, RestOK' PROVE Inv'
    BY <1>22, <1>0, <1>r, <1>p DEF Inv, RequestOK
  <1>23. ASSUME NEW r \in Run, JobRuns(r) \/ JobEnds(r) \/ JobGone(r) PROVE Inv'
    <2>1. job' \in [Run -> JobState]
      BY <1>23, <1>0 DEF JobRuns, JobEnds, JobGone, RestOK, JobState
    <2> QED BY <2>1, <1>22, <1>23, <1>0 DEF JobRuns, JobEnds, JobGone, RestOK, redis
  <1>24. ASSUME NEW r \in Run, KeysExpire(r) PROVE Inv'
    BY <1>22, <1>24, <1>0 DEF KeysExpire, RestOK, cluster
  <1>25. ASSUME Raise \/ ScaleOut \/ ScaleIn \/ Deploy PROVE Inv'
    <2>1. PICK n \in 1..3 : Scale(n)
      BY <1>25 DEF Raise, ScaleOut, ScaleIn, Deploy
    <2>2. faults' \in 0..MaxFaults
      BY <1>25, <1>0, FaultCounts DEF Raise, ScaleOut, ScaleIn, Deploy, RestOK
    <2> QED BY <2>1, <2>2, <1>22, <1>0 DEF Scale, RestOK, redis
  <1>26. ASSUME UNCHANGED vars PROVE Inv'
    BY <1>22, <1>26, <1>0 DEF vars, RestOK, redis, cluster
  <1> QED
    BY <1>1, <1>2, <1>3, <1>4, <1>5, <1>6, <1>7, <1>8, <1>9, <1>10, <1>11, <1>12, <1>13,
       <1>14, <1>15, <1>16, <1>17, <1>18, <1>19, <1>20, <1>21, <1>23, <1>24, <1>25, <1>26
    DEF Next, Serve

-----------------------------------------------------------------------------
(* Redis, the cluster, the requests and the panels keep their types.         *)
THEOREM TypeCorrect == Spec => []TypeOK
  <1>1. Inv => TypeOK
    BY DEF Inv
  <1> QED BY <1>1, InitInv, StepInv, PTL DEF Spec
-----------------------------------------------------------------------------
(* Two rehearsals at once.  These three steps delete the lock without looking *)
(* whose it is; nothing else takes it from a run at work.                    *)
DeletesLock(t) == ViewEnd(t) \/ CancelFree(t) \/ StartUndo(t)

LockOK == \A r \in Run : AtWork(r) /\ r \notin robbed => lock = r

(* Nothing is at work that was not, but what has just taken the lock.        *)
LEMMA WorkBegins ==
  ASSUME Inv, [Next]_vars, NEW r \in Run, AtWork(r)'
  PROVE  AtWork(r) \/ (lock = None /\ lock' = r)
  <1>0. RestOK /\ req \in [Thread -> Request]
    BY InvParts
  <1> DEFINE Starting(t) == req[t].run = r /\ req[t].pc \in {"current", "latest", "create"}
             Begun == \E t \in Thread : Starting(t)
  <1>h. ASSUME NEW t \in Thread, NEW pc, Goto(t, pc), NEW u \in Thread, u # t
        PROVE  req'[u] = req[u]
    BY <1>0, <1>h DEF Goto
  <1>1. ASSUME NEW t \in Thread, StartLock(t), ~AtWork(r) PROVE lock = None /\ lock' = r
    <2>1. job' = job /\ ~Begun
      BY <1>1 DEF StartLock, cluster, AtWork
    <2>2. PICK u \in Thread : Starting(u)'
      BY <1>1, <2>1 DEF AtWork
    <2>3. u = t
      BY <1>0, <1>1, <2>1, <2>2 DEF StartLock, Errored
    <2>4. CASE lock = None
      <3>1. PICK k \in Fresh : /\ lock' = k
                               /\ req' = [req EXCEPT ![t].run = k, ![t].pc = "current"]
        BY <1>1, <2>4 DEF StartLock
      <3> QED BY <1>0, <2>2, <2>3, <2>4, <3>1 DEF Request
    <2>5. CASE lock # None
      BY <1>0, <1>1, <2>2, <2>3, <2>5 DEF StartLock, Errored, Idle
    <2> QED BY <2>4, <2>5
  <1>2. ASSUME NEW t \in Thread, StartCurrent(t) \/ StartRecord(t) \/ StartJob(t)
        PROVE  AtWork(r)
    <2>1. At(t, "current") \/ At(t, "latest") \/ At(t, "create")
      BY <1>2 DEF StartCurrent, StartRecord, StartJob
    <2>2. CASE req[t].run = r
      BY <2>1, <2>2 DEF AtWork, At
    <2>3. CASE req[t].run # r
      <3>1. job'[r] = job[r]
        BY <1>0, <1>2, <2>3 DEF StartCurrent, StartRecord, StartJob, cluster, RestOK
      <3>2. PICK pc : Goto(t, pc)
        BY <1>2 DEF StartCurrent, StartRecord, StartJob
      <3>3. req'[t].run = req[t].run
        BY <1>0, <3>2 DEF Goto, Request
      <3>4. \A u \in Thread : Starting(u)' => Starting(u)
        BY <1>h, <2>3, <3>2, <3>3
      <3> QED BY <3>1, <3>4 DEF AtWork
    <2> QED BY <2>2, <2>3
  (* The other steps of a request leave it where it is no longer started.    *)
  <1>3. ASSUME NEW t \in Thread, \A u \in Thread \ {t} : req'[u] = req[u],
               req'[t].pc \notin {"current", "latest", "create"},
               \A k \in Run : job'[k] \in {"new", "active"} => job[k] \in {"new", "active"}
        PROVE  AtWork(r)
    BY <1>3 DEF AtWork
  <1>4. ASSUME NEW t \in Thread,
               (\E p \in Page : Poll(t, p) \/ Start(t, p) \/ Cancel(t, p)) \/ Post(t)
        PROVE  AtWork(r)
    <2>1. PICK p \in Page \cup {None}, kind \in {"get", "post", "delete"},
               pc \in {"find", "lock", "who"} : Ask(t, p, kind, pc)
      BY <1>4 DEF Poll, Start, Cancel, Post
    <2>2. req'[t].pc = pc /\ job' = job /\ \A u \in Thread \ {t} : req'[u] = req[u]
      BY <1>0, <2>1 DEF Ask, Idle, cluster
    <2> QED BY <1>3, <2>2
  <1>5. ASSUME NEW t \in Thread, NEW pc, Goto(t, pc), pc \notin {"current", "latest", "create"},
               \A k \in Run : job'[k] \in {"new", "active"} => job[k] \in {"new", "active"}
        PROVE  AtWork(r)
    <2>1. req'[t].pc = pc
      BY <1>0, <1>5 DEF Goto, Request
    <2> QED BY <1>3, <1>5, <1>h, <2>1
  <1>6. ASSUME NEW t \in Thread, NEW v, Reply(t, v), job' = job PROVE AtWork(r)
    <2>1. req'[t].pc = "reply" /\ \A u \in Thread \ {t} : req'[u] = req[u]
      BY <1>0, <1>6 DEF Reply, Idle
    <2> QED BY <1>3, <1>6, <2>1
  <1>7. ASSUME NEW t \in Thread, req' = [req EXCEPT ![t] = Idle], job' = job PROVE AtWork(r)
    <2>1. req'[t].pc = "idle" /\ \A u \in Thread \ {t} : req'[u] = req[u]
      BY <1>0, <1>7 DEF Idle
    <2> QED BY <1>3, <1>7, <2>1
  <1>8. ASSUME NEW t \in Thread, DeletesLock(t) \/ StartUndone(t) \/ CancelFreed(t)
                                 \/ CancelMark(t) \/ ViewEnded(t) \/ Answer(t) \/ Crash(t)
        PROVE  AtWork(r)
    BY <1>5, <1>6, <1>7, <1>8
    DEF DeletesLock, ViewEnd, CancelFree, StartUndo, StartUndone, CancelFreed, CancelMark,
        ViewEnded, Answer, Crash, Errored, cluster
  <1>9. ASSUME NEW t \in Thread, Find(t) PROVE AtWork(r)
    <2>1. req'[t].pc = "read" /\ job' = job /\ \A u \in Thread \ {t} : req'[u] = req[u]
      BY <1>0, <1>9 DEF Find, Request, cluster
    <2> QED BY <1>3, <2>1
  <1>10. ASSUME NEW t \in Thread, CancelWho(t) PROVE AtWork(r)
    <2>1. CASE Errored(t)
      BY <1>7, <1>10, <2>1 DEF CancelWho, Errored, cluster
    <2>2. CASE req' = [req EXCEPT ![t].run = current, ![t].pc = "kill"]
      <3>1. req'[t].pc = "kill" /\ \A u \in Thread \ {t} : req'[u] = req[u]
        BY <1>0, <2>2 DEF Request
      <3> QED BY <1>3, <1>10, <3>1 DEF CancelWho, cluster
    <2> QED BY <1>10, <2>1, <2>2 DEF CancelWho
  <1>11. ASSUME NEW t \in Thread, CancelJob(t) PROVE AtWork(r)
    <2>1. \A k \in Run : job'[k] \in {"new", "active"} => job[k] \in {"new", "active"}
      BY <1>0, <1>11 DEF CancelJob, RestOK
    <2>2. CASE Goto(t, "mark")
      BY <1>5, <2>1, <2>2
    <2>3. CASE Errored(t) /\ job' = job
      BY <1>7, <2>3 DEF Errored
    <2> QED BY <1>11, <2>2, <2>3 DEF CancelJob
  <1>12. ASSUME NEW t \in Thread, ViewRead(t) PROVE AtWork(r)
    <2>1. job' = job
      BY <1>12 DEF ViewRead, cluster
    <2>2. CASE req' = [req EXCEPT ![t].job = job[req[t].run], ![t].big = replicas >= 2,
                                  ![t].pc = "derive"]
      <3>1. req'[t].pc = "derive" /\ \A u \in Thread \ {t} : req'[u] = req[u]
        BY <1>0, <2>2 DEF Request
      <3> QED BY <1>3, <2>1, <3>1
    <2>3. CASE \E v : Reply(t, v)
      BY <1>6, <2>1, <2>3
    <2>4. CASE Goto(t, "undo")
      BY <1>5, <2>1, <2>4
    <2>5. CASE Errored(t)
      BY <1>7, <2>1, <2>5 DEF Errored
    <2> QED BY <1>12, <2>2, <2>3, <2>4, <2>5 DEF ViewRead
  <1>13. ASSUME NEW t \in Thread, NEW next, After(t, next), job' = job PROVE AtWork(r)
    BY <1>5, <1>6, <1>13 DEF After
  <1>14. ASSUME NEW t \in Thread, ViewDerive(t) \/ ViewWrite(t) PROVE AtWork(r)
    <2>1. job' = job
      BY <1>14 DEF ViewDerive, ViewWrite, cluster
    <2>2. \/ \E next : After(t, next)
          \/ \E next : req' = [req EXCEPT ![t].next = next, ![t].pc = "write"]
      BY <1>14 DEF ViewDerive, ViewWrite
    <2>3. ASSUME NEW next, req' = [req EXCEPT ![t].next = next, ![t].pc = "write"]
          PROVE  AtWork(r)
      <3>1. req'[t].pc = "write" /\ \A u \in Thread \ {t} : req'[u] = req[u]
        BY <1>0, <2>3 DEF Request
      <3> QED BY <1>3, <2>1, <3>1
    <2> QED BY <1>13, <2>1, <2>2, <2>3
  <1>15. ASSUME NEW t \in Thread, TimeOut(t) PROVE AtWork(r)
    <2>1. /\ job' = job
          /\ \A u \in Thread : req'[u].pc = req[u].pc /\ req'[u].run = req[u].run
      BY <1>0, <1>15 DEF TimeOut, cluster, Request
    <2> QED BY <2>1 DEF AtWork
  <1>16. ASSUME req' = req,
               \A k \in Run : job'[k] \in {"new", "active"} => job[k] \in {"new", "active"}
         PROVE  AtWork(r)
    BY <1>16 DEF AtWork
  <1>17. ASSUME NEW k \in Run, JobRuns(k) \/ JobEnds(k) \/ JobGone(k) \/ KeysExpire(k)
         PROVE  AtWork(r)
    <2>1. \A i \in Run : job'[i] \in {"new", "active"} => job[i] \in {"new", "active"}
      BY <1>0, <1>17 DEF JobRuns, JobEnds, JobGone, KeysExpire, cluster, RestOK
    <2> QED BY <1>16, <1>17, <2>1 DEF JobRuns, JobEnds, JobGone, KeysExpire
  <1>18. CASE Raise \/ ScaleOut \/ ScaleIn \/ Deploy \/ UNCHANGED vars
    BY <1>16, <1>18 DEF Raise, ScaleOut, ScaleIn, Deploy, Scale, vars, cluster
  <1> QED
    BY <1>1, <1>2, <1>4, <1>8, <1>9, <1>10, <1>11, <1>12, <1>14, <1>15, <1>17, <1>18
    DEF Next, Serve, DeletesLock

LEMMA LockStays ==
  ASSUME Inv, [Next]_vars, NEW r \in Run, AtWork(r), lock = r, r \notin robbed'
  PROVE  lock' = r
  <1>1. \A t \in Thread : ~DeletesLock(t)
    BY DEF DeletesLock, ViewEnd, CancelFree, StartUndo, FreeLock
  <1>2. r # None
    BY NoneAssumption
  <1>3. \A t \in Thread : StartLock(t) => lock' = lock
    BY <1>2 DEF StartLock
  <1>4. \A k \in Run : KeysExpire(k) => lock' = lock
    BY DEF KeysExpire
  <1>5. \A t \in Thread : Post(t) => lock' = lock
    BY DEF Post, Ask, redis
  <1>6. \A t \in Thread, p \in Page : Poll(t, p) \/ Start(t, p) \/ Cancel(t, p) => lock' = lock
    BY DEF Poll, Start, Cancel, Ask, redis
  <1>7. \A t \in Thread : Serve(t) \/ TimeOut(t) \/ Crash(t) => lock' = lock
    BY <1>1, <1>3
    DEF Serve, DeletesLock, TimeOut, Crash, StartCurrent, StartRecord, StartJob, StartUndone,
        Find, CancelWho, CancelJob, CancelMark, CancelFreed, ViewRead, ViewDerive, ViewWrite,
        ViewEnded, Answer, redis
  <1>8. Raise \/ ScaleOut \/ ScaleIn \/ Deploy => lock' = lock
    BY DEF Raise, ScaleOut, ScaleIn, Deploy, Scale, redis
  <1>9. lock' = lock
    BY <1>4, <1>5, <1>6, <1>7, <1>8 DEF Next, JobRuns, JobEnds, JobGone, vars, redis
  <1> QED BY <1>9

LEMMA RobbedStays == [Next]_vars => robbed \subseteq robbed'
  <1> SUFFICES ASSUME [Next]_vars PROVE robbed \subseteq robbed'
    OBVIOUS
  <1>1. \A t \in Thread : Post(t) \/ TimeOut(t) \/ Crash(t) => robbed' = robbed
    BY DEF Post, Ask, TimeOut, Crash
  <1>2. \A t \in Thread, p \in Page : Poll(t, p) \/ Start(t, p) \/ Cancel(t, p) => robbed' = robbed
    BY DEF Poll, Start, Cancel, Ask
  <1>3. \A t \in Thread : Serve(t) => robbed \subseteq robbed'
    BY DEF Serve, StartLock, StartCurrent, StartRecord, StartJob, StartUndo, StartUndone,
        Find, CancelWho, CancelJob, CancelMark, CancelFree, CancelFreed, ViewRead, ViewDerive,
        ViewWrite, ViewEnd, ViewEnded, Answer, FreeLock
  <1>4. Raise \/ ScaleOut \/ ScaleIn \/ Deploy => robbed' = robbed
    BY DEF Raise, ScaleOut, ScaleIn, Deploy, Scale
  <1> QED BY <1>1, <1>2, <1>3, <1>4 DEF Next, JobRuns, JobEnds, JobGone, KeysExpire, vars

(* Whoever takes the lock finds nobody at work but those that were robbed.   *)
LEMMA StepLock == Inv /\ LockOK /\ [Next]_vars => LockOK'
  <1> SUFFICES ASSUME Inv, LockOK, [Next]_vars, NEW r \in Run, AtWork(r)', r \notin robbed'
               PROVE  lock' = r
    BY DEF LockOK
  <1>1. r \notin robbed
    BY RobbedStays
  <1> QED BY <1>1, WorkBegins, LockStays DEF LockOK

(* Two rehearsals are at work only if the lock of one of them was deleted    *)
(* while it was: the lock itself admits one at a time.                       *)
THEOREM LockAdmitsOne == Spec => []RivalsAreExplained
  <1>1. Init => LockOK
    BY DEF Init, LockOK, AtWork, Idle
  <1>2. LockOK => RivalsAreExplained
    BY DEF LockOK, RivalsAreExplained
  <1> QED BY <1>1, <1>2, InitInv, StepInv, StepLock, PTL DEF Spec-----------------------------------------------------------------------------
(* Cancellations.  A request is about to overwrite the status of its run.    *)
Overwrites(t, r) == req[t].run = r /\ req[t].pc \in {"current", "latest", "write"}

(* For a run that is on record as cancelled, no request comes to that point:  *)
(* a view reads CANCELLED and keeps it, a start takes a run of its own.       *)
LEMMA NoneBegins ==
  ASSUME Inv, [Next]_vars, NEW r \in Run, Settled(r), NEW u \in Thread
  PROVE  ~Overwrites(u, r)'
  <1>0. RestOK /\ req \in [Thread -> Request]
    BY InvParts
  <1>s. status[r] = "CANCELLED" /\ ~Overwrites(u, r) /\ available
    BY DEF Settled, Overwrites, Inv, RecordOK
  <1>1. ASSUME req'[u] = req[u] PROVE ~Overwrites(u, r)'
    BY <1>1, <1>s DEF Overwrites
  <1>2. ASSUME req'[u].pc \notin {"current", "latest", "write"} PROVE ~Overwrites(u, r)'
    BY <1>2 DEF Overwrites
  <1>3. ASSUME NEW t \in Thread, NEW q, req' = [req EXCEPT ![t] = q],
               q.pc \notin {"current", "latest", "write"}
        PROVE  ~Overwrites(u, r)'
    <2>1. CASE u = t
      BY <1>0, <1>2, <1>3, <2>1
    <2>2. CASE u # t
      BY <1>0, <1>1, <1>3, <2>2
    <2> QED BY <2>1, <2>2
  <1>4. ASSUME NEW t \in Thread, NEW pc, Goto(t, pc), pc \notin {"current", "latest", "write"}
        PROVE  ~Overwrites(u, r)'
    <2> DEFINE q == [req[t] EXCEPT !.pc = pc, !.job = Idle.job, !.big = Idle.big,
                                  !.next = Idle.next]
    <2>1. req' = [req EXCEPT ![t] = q] /\ q.pc = pc
      BY <1>0, <1>4 DEF Goto, Request
    <2> HIDE DEF q
    <2> QED BY <1>3, <1>4, <2>1
  <1>5. ASSUME NEW t \in Thread, NEW v, Reply(t, v) PROVE ~Overwrites(u, r)'
    BY <1>3, <1>5 DEF Reply, Idle
  <1>6. ASSUME NEW t \in Thread, req' = [req EXCEPT ![t] = Idle] PROVE ~Overwrites(u, r)'
    BY <1>3, <1>6 DEF Idle
  <1>7. ASSUME NEW t \in Thread, NEW p, NEW kind, NEW pc \in {"find", "lock", "who"},
               Ask(t, p, kind, pc)
        PROVE  ~Overwrites(u, r)'
    BY <1>3, <1>7 DEF Ask, Idle
  <1>8. ASSUME NEW t \in Thread,
               (\E p \in Page : Poll(t, p) \/ Start(t, p) \/ Cancel(t, p)) \/ Post(t)
        PROVE  ~Overwrites(u, r)'
    BY <1>7, <1>8 DEF Poll, Start, Cancel, Post
  <1>9. ASSUME NEW t \in Thread, TimeOut(t) PROVE ~Overwrites(u, r)'
    <2>1. req'[u].pc = req[u].pc /\ req'[u].run = req[u].run
      BY <1>0, <1>9 DEF TimeOut, Request
    <2> QED BY <1>s, <2>1 DEF Overwrites
  <1>10. ASSUME NEW t \in Thread, StartLock(t) PROVE ~Overwrites(u, r)'
    <2>1. CASE lock = None
      <3>1. PICK k \in Fresh : req' = [req EXCEPT ![t].run = k, ![t].pc = "current"]
        BY <1>10, <2>1 DEF StartLock
      <3>2. k # r
        BY <1>s, <3>1 DEF Fresh
      <3>3. CASE u = t
        <4>1. req'[u].run = k
          BY <1>0, <3>1, <3>3 DEF Request
        <4> QED BY <3>2, <4>1 DEF Overwrites
      <3>4. CASE u # t
        BY <1>0, <1>1, <3>1, <3>4
      <3> QED BY <3>3, <3>4
    <2>2. CASE lock # None
      BY <1>6, <1>10, <2>2 DEF StartLock, Errored
    <2> QED BY <2>1, <2>2
  <1>11. ASSUME NEW t \in Thread, StartCurrent(t) PROVE ~Overwrites(u, r)'
    <2>1. Goto(t, "latest") /\ req[t].pc = "current"
      BY <1>11 DEF StartCurrent, At
    <2>2. CASE u = t
      <3>1. req[u].run # r
        BY <1>s, <2>1, <2>2 DEF Overwrites
      <3>2. req'[u].run = req[u].run
        BY <1>0, <2>1, <2>2 DEF Goto, Request
      <3> QED BY <3>1, <3>2 DEF Overwrites
    <2>3. CASE u # t
      BY <1>0, <1>1, <2>1, <2>3 DEF Goto
    <2> QED BY <2>2, <2>3
  <1>12. ASSUME NEW t \in Thread,
                \/ StartRecord(t) \/ StartJob(t) \/ StartUndo(t) \/ StartUndone(t)
                \/ CancelJob(t) \/ CancelMark(t) \/ CancelFree(t) \/ CancelFreed(t)
                \/ ViewEnd(t) \/ ViewEnded(t) \/ Answer(t) \/ Crash(t)
         PROVE  ~Overwrites(u, r)'
    BY <1>4, <1>5, <1>6, <1>12
    DEF StartRecord, StartJob, StartUndo, StartUndone, CancelJob, CancelMark, CancelFree,
        CancelFreed, ViewEnd, ViewEnded, Answer, Crash, Errored
  <1>13. ASSUME NEW t \in Thread, Find(t) PROVE ~Overwrites(u, r)'
    <2>1. req'[t].pc = "read" /\ \A k \in Thread \ {t} : req'[k] = req[k]
      BY <1>0, <1>13 DEF Find, Request
    <2> QED BY <1>1, <1>2, <2>1
  <1>14. ASSUME NEW t \in Thread, CancelWho(t) PROVE ~Overwrites(u, r)'
    <2>1. CASE Errored(t)
      BY <1>6, <2>1 DEF Errored
    <2>2. CASE req' = [req EXCEPT ![t].run = current, ![t].pc = "kill"]
      <3>1. req'[t].pc = "kill" /\ \A k \in Thread \ {t} : req'[k] = req[k]
        BY <1>0, <2>2 DEF Request
      <3> QED BY <1>1, <1>2, <3>1
    <2> QED BY <1>14, <2>1, <2>2 DEF CancelWho
  <1>15. ASSUME NEW t \in Thread, ViewRead(t) PROVE ~Overwrites(u, r)'
    <2>1. CASE req' = [req EXCEPT ![t].job = job[req[t].run], ![t].big = replicas >= 2,
                                  ![t].pc = "derive"]
      <3>1. req'[t].pc = "derive" /\ \A k \in Thread \ {t} : req'[k] = req[k]
        BY <1>0, <2>1 DEF Request
      <3> QED BY <1>1, <1>2, <3>1
    <2>2. CASE \E v : Reply(t, v)
      BY <1>5, <2>2
    <2>3. CASE Goto(t, "undo")
      BY <1>4, <2>3
    <2>4. CASE Errored(t)
      BY <1>6, <2>4 DEF Errored
    <2> QED BY <1>15, <2>1, <2>2, <2>3, <2>4 DEF ViewRead
  <1>16. ASSUME NEW t \in Thread, NEW next, After(t, next) PROVE ~Overwrites(u, r)'
    BY <1>4, <1>5, <1>16 DEF After
  <1>17. ASSUME NEW t \in Thread, ViewDerive(t) PROVE ~Overwrites(u, r)'
    <2> DEFINE previous == IF status[req[t].run] = "unused" THEN "STARTING"
                           ELSE status[req[t].run]
               next == Derive(previous, req[t].job, req[t].big)
    <2>1. CASE req[t].run = r
      <3>1. previous = "CANCELLED" /\ next = previous
        BY <1>s, <2>1 DEF Derive
      <3>2. After(t, next)
        BY <1>17, <3>1 DEF ViewDerive
      <3> QED BY <1>16, <3>2
    <2>2. CASE req[t].run # r
      <3>1. CASE After(t, next)
        BY <1>16, <3>1
      <3>2. CASE req' = [req EXCEPT ![t].next = next, ![t].pc = "write"]
        <4> HIDE DEF next
        <4>1. req'[t].run = req[t].run /\ \A k \in Thread \ {t} : req'[k] = req[k]
          BY <1>0, <3>2 DEF Request
        <4> QED BY <1>1, <2>2, <4>1 DEF Overwrites
      <3> QED BY <1>17, <3>1, <3>2 DEF ViewDerive
    <2> QED BY <2>1, <2>2
  <1>18. ASSUME NEW t \in Thread, ViewWrite(t) PROVE ~Overwrites(u, r)'
    BY <1>16, <1>18 DEF ViewWrite
  <1>19. ASSUME NEW k \in Run, JobRuns(k) \/ JobEnds(k) \/ JobGone(k) \/ KeysExpire(k)
         PROVE  ~Overwrites(u, r)'
    BY <1>1, <1>19 DEF JobRuns, JobEnds, JobGone, KeysExpire
  <1>20. CASE Raise \/ ScaleOut \/ ScaleIn \/ Deploy \/ UNCHANGED vars
    BY <1>1, <1>20 DEF Raise, ScaleOut, ScaleIn, Deploy, Scale, vars
  <1> QED
    BY <1>8, <1>9, <1>10, <1>11, <1>12, <1>13, <1>14, <1>15, <1>17, <1>18, <1>19, <1>20
    DEF Next, Serve

(* Only a start and a view write a status other than CANCELLED, to the run    *)
(* they are about to overwrite.                                             *)
LEMMA CancelledStays ==
  ASSUME Inv, [Next]_vars, NEW r \in Run, Settled(r)
  PROVE  status'[r] = "CANCELLED"
  <1>0. status \in [Run -> Status \cup {"unused"}] /\ status[r] = "CANCELLED"
    BY DEF Inv, TypeOK, Settled
  <1>1. ASSUME status' = status PROVE status'[r] = "CANCELLED"
    BY <1>0, <1>1
  <1>2. ASSUME NEW t \in Thread, StartRecord(t) PROVE status'[r] = "CANCELLED"
    BY <1>0, <1>2 DEF StartRecord, At, Settled
  <1>3. ASSUME NEW t \in Thread, CancelMark(t) PROVE status'[r] = "CANCELLED"
    BY <1>0, <1>3 DEF CancelMark
  <1>4. ASSUME NEW t \in Thread, ViewWrite(t) PROVE status'[r] = "CANCELLED"
    BY <1>0, <1>4 DEF ViewWrite, At, Settled
  <1>5. ASSUME NEW t \in Thread,
               \/ StartLock(t) \/ StartCurrent(t) \/ StartJob(t) \/ StartUndo(t) \/ StartUndone(t)
               \/ Find(t) \/ CancelWho(t) \/ CancelJob(t) \/ CancelFree(t) \/ CancelFreed(t)
               \/ ViewRead(t) \/ ViewDerive(t) \/ ViewEnd(t) \/ ViewEnded(t) \/ Answer(t)
               \/ TimeOut(t) \/ Crash(t) \/ Post(t)
        PROVE  status'[r] = "CANCELLED"
    BY <1>1, <1>5
    DEF StartLock, StartCurrent, StartJob, StartUndo, StartUndone, Find, CancelWho, CancelJob,
        CancelFree, CancelFreed, ViewRead, ViewDerive, ViewEnd, ViewEnded, Answer, TimeOut,
        Crash, Post, Ask, redis
  <1>6. ASSUME NEW t \in Thread, NEW p \in Page, Poll(t, p) \/ Start(t, p) \/ Cancel(t, p)
        PROVE  status'[r] = "CANCELLED"
    BY <1>1, <1>6 DEF Poll, Start, Cancel, Ask, redis
  <1>7. ASSUME NEW k \in Run, JobRuns(k) \/ JobEnds(k) \/ JobGone(k) \/ KeysExpire(k)
        PROVE  status'[r] = "CANCELLED"
    BY <1>1, <1>7 DEF JobRuns, JobEnds, JobGone, KeysExpire, redis
  <1>8. CASE Raise \/ ScaleOut \/ ScaleIn \/ Deploy \/ UNCHANGED vars
    BY <1>1, <1>8 DEF Raise, ScaleOut, ScaleIn, Deploy, Scale, vars, redis
  <1> QED BY <1>2, <1>3, <1>4, <1>5, <1>6, <1>7, <1>8 DEF Next, Serve

(* A cancellation on record that nobody is about to overwrite stays so: no   *)
(* later view revives the run.                                              *)
THEOREM CancelledForGood == Spec => CancellationLasts
  <1>1. Inv /\ [Next]_vars => \A r \in Run : Settled(r) => Settled(r)'
    <2> SUFFICES ASSUME Inv, [Next]_vars, NEW r \in Run, Settled(r) PROVE Settled(r)'
      OBVIOUS
    <2>1. status'[r] = "CANCELLED"
      BY CancelledStays
    <2>2. \A t \in Thread : ~Overwrites(t, r)'
      BY NoneBegins
    <2> QED BY <2>1, <2>2 DEF Settled, Overwrites
  <1> QED BY <1>1, InitInv, StepInv, PTL DEF Spec, CancellationLasts
=============================================================================
