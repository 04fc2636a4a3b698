---------------------------- MODULE HpaRehearsal ----------------------------
(***************************************************************************)
(* The autoscaling rehearsal: HpaRehearsalService on Redis and Kubernetes,   *)
(* the web route that reads it for everybody, and the panel that polls it    *)
(* and lets an administrator start and cancel a load Job.                   *)
(*                                                                         *)
(* Every request runs in a thread of its own; each Redis command or call to *)
(* the cluster that another request can tell apart is one step.  A page's   *)
(* polls overlap (setInterval does not wait for an answer), and answers      *)
(* arrive in any order.                                                     *)
(*                                                                         *)
(* The autoscaler is external, between the two and three replicas that       *)
(* infra/k8s/backend/jaywiki-hpa.yaml gives it.  Pods, metrics, load figures, *)
(* worker counts and the list of events are left out, as are failures of     *)
(* Redis itself.                                                            *)
(***************************************************************************)
EXTENDS Integers, FiniteSets

CONSTANTS
    Run,            \* run ids; each start that gets the lock takes a new one
    Page,           \* open panels
    Thread,         \* requests being served
    None,
    MaxFaults       \* bound: failing or late calls, crashes and deployments

ASSUME NoneAssumption == None \notin Run \cup Page
ASSUME FaultAssumption == MaxFaults \in Nat

VARIABLES
    lock, current, latest,  \* ops:hpa:lock, ops:hpa:current, ops:hpa:latest
    status,                 \* the field "status" of ops:hpa:run:<run>
    available,              \* the service runs inside the cluster
    job, replicas,          \* the load Jobs; replicas of the deployment
    req,                    \* the requests
    shown,                  \* what a panel shows
    faults,
    robbed                  \* history, see the properties

redis == <<lock, current, latest, status>>
cluster == <<available, job, replicas>>
vars == <<redis, cluster, req, shown, faults, robbed>>

Terminals == {"COMPLETED", "NO_SCALE", "FAILED", "CANCELLED"}
Status == Terminals \cup {"STARTING", "LOADING", "SCALED_OUT", "STABILIZING",
                       "UNAVAILABLE"}
JobState == {"none", "new", "active", "succeeded", "failed"}
Step == {"idle", "find", "lock", "current", "latest", "create", "undo", "undone",
         "who", "kill", "mark", "free", "freed", "read", "derive", "write",
         "end", "ended", "reply"}

View == {"live", "over", "UNAVAILABLE"}     \* what the buttons depend on
Idle == [kind |-> "get", page |-> None, run |-> None, pc |-> "idle",
         job |-> "none", big |-> FALSE, next |-> "STARTING"]

TypeOK ==
    /\ {lock, current, latest} \subseteq Run \cup {None}
    /\ status \in [Run -> Status \cup {"unused"}]
    /\ available \in BOOLEAN /\ job \in [Run -> JobState] /\ replicas \in 1..3
    /\ req \in [Thread ->
            [kind: {"get", "post", "delete"}, page: Page \cup {None},
             run: Run \cup {None}, pc: Step, job: JobState, big: BOOLEAN,
             next: Status \cup View]]
    /\ shown \in [Page -> View]
    /\ faults \in 0..MaxFaults
    /\ robbed \subseteq Run

Init ==
    /\ lock = None /\ current = None /\ latest = None
    /\ status = [r \in Run |-> "unused"]
    /\ available \in BOOLEAN /\ job = [r \in Run |-> "none"] /\ replicas \in 2..3
    /\ req = [t \in Thread |-> Idle]
    /\ shown = [p \in Page |-> "UNAVAILABLE"]
    /\ faults = 0
    /\ robbed = {}

-----------------------------------------------------------------------------
(* The panel *)

(* Bound: a start is asked for only while a run id is left for it.  Runs that *)
(* exist already do not come back.                                          *)
Fresh ==
    {r \in Run : /\ status[r] = "unused" /\ r \notin {lock, current} \cup robbed
                 /\ \A t \in Thread : req[t].run # r}
RunLeft ==
    Cardinality({t \in Thread : req[t].kind = "post" /\ req[t].pc = "lock"})
        < Cardinality(Fresh)

Fault == faults < MaxFaults /\ faults' = faults + 1

Controls(p) == {t \in Thread : req[t].page = p /\ req[t].kind # "get"}
Ask(t, p, kind, pc) ==
    /\ req[t] = Idle
    /\ req' = [req EXCEPT ![t] = [Idle EXCEPT !.kind = kind, !.page = p, !.pc = pc]]
    /\ UNCHANGED <<redis, cluster, shown, faults, robbed>>

(* load(), every two or ten seconds, through the web route. *)
Poll(t, p) == Ask(t, p, "get", "find")

(* The buttons: start is disabled while a request is pending, while the view *)
(* is live and while there is none; cancel is there while it is live.       *)
Start(t, p) ==
    /\ Controls(p) = {} /\ shown[p] = "over" /\ RunLeft
    /\ Ask(t, p, "post", "lock")
Cancel(t, p) ==
    /\ Controls(p) = {} /\ shown[p] = "live"
    /\ Ask(t, p, "delete", "who")

(* Outside the cluster the panel has its start button disabled; a request    *)
(* made without it still reaches the lock.                                  *)
Post(t) == ~available /\ RunLeft /\ Ask(t, None, "post", "lock")

(* The answer arrives.  Answers to overlapping polls come in any order. *)
Answer(t) ==
    /\ req[t].pc = "reply"
    /\ shown' = IF req[t].page = None THEN shown
                ELSE [shown EXCEPT ![req[t].page] = req[t].next]
    /\ req' = [req EXCEPT ![t] = Idle]
    /\ UNCHANGED <<redis, cluster, faults, robbed>>

(* The route gives up after three seconds and answers UNAVAILABLE; the       *)
(* backend's thread goes on.                                                *)
TimeOut(t) ==
    /\ req[t].kind = "get" /\ req[t].page # None
    /\ Fault
    /\ shown' = [shown EXCEPT ![req[t].page] = "UNAVAILABLE"]
    /\ req' = [req EXCEPT ![t].page = None]
    /\ UNCHANGED <<redis, cluster, robbed>>

(* An error: a poll shows UNAVAILABLE, a button leaves the view as it is.    *)
Errored(t) ==
    /\ req' = [req EXCEPT ![t] = Idle]
    /\ shown' = IF req[t].kind = "get" /\ req[t].page # None
                THEN [shown EXCEPT ![req[t].page] = "UNAVAILABLE"] ELSE shown

-----------------------------------------------------------------------------
(* HpaRehearsalService *)

At(t, pc) == req[t].pc = pc
Goto(t, pc) ==
    req' = [req EXCEPT ![t].pc = pc, ![t].job = Idle.job, ![t].big = Idle.big,
                       ![t].next = Idle.next]
Reply(t, view) ==
    req' = [req EXCEPT ![t] = [Idle EXCEPT !.kind = req[t].kind, !.page = req[t].page,
                                           !.pc = "reply", !.next = view]]

(* A run that is being started or has a Job at work. *)
AtWork(r) ==
    \/ job[r] \in {"new", "active"}
    \/ \E t \in Thread : req[t].run = r /\ req[t].pc \in {"current", "latest", "create"}

(* Deleting the lock, whoever holds it. *)
FreeLock ==
    /\ lock' = None
    /\ robbed' = robbed \cup {r \in Run : lock = r /\ AtWork(r)}

(* start: setIfAbsent on the lock. *)
StartLock_Regardless(t) ==
    /\ At(t, "lock")
    /\ \E r \in Fresh :
            /\ lock' = r
            /\ req' = [req EXCEPT ![t].run = r, ![t].pc = "current"]
    /\ UNCHANGED <<current, latest, status, cluster, shown, faults, robbed>>

StartLock(t) ==
    /\ At(t, "lock")
    /\ IF lock = None
       THEN \E r \in Fresh :
            /\ lock' = r
            /\ req' = [req EXCEPT ![t].run = r, ![t].pc = "current"]
            /\ UNCHANGED shown
       ELSE Errored(t) /\ UNCHANGED lock
    /\ UNCHANGED <<current, latest, status, cluster, faults, robbed>>

StartCurrent(t) ==
    /\ At(t, "current")
    /\ current' = req[t].run
    /\ Goto(t, "latest")
    /\ UNCHANGED <<lock, latest, status, cluster, shown, faults, robbed>>

StartRecord(t) ==
    /\ At(t, "latest")
    /\ latest' = req[t].run
    /\ status' = [status EXCEPT ![req[t].run] = "STARTING"]
    /\ Goto(t, "create")
    /\ UNCHANGED <<lock, current, cluster, shown, faults, robbed>>

(* The call fails outside the cluster; inside it may fail, before or after   *)
(* the Job exists.                                                          *)
StartJob(t) ==
    /\ At(t, "create")
    /\ \/ /\ available
          /\ job' = [job EXCEPT ![req[t].run] = "new"]
          /\ Goto(t, "read") /\ UNCHANGED faults
       \/ /\ available
          /\ \/ UNCHANGED job \/ job' = [job EXCEPT ![req[t].run] = "new"]
          /\ Goto(t, "undo") /\ Fault
       \/ /\ ~available
          /\ Goto(t, "undo") /\ UNCHANGED <<job, faults>>
    /\ UNCHANGED <<redis, available, replicas, shown, robbed>>

(* Whatever fails in start, also the view at its end: delete both keys. *)
StartUndo(t) ==
    /\ At(t, "undo")
    /\ FreeLock
    /\ Goto(t, "undone")
    /\ UNCHANGED <<current, latest, status, cluster, shown, faults>>

StartUndone(t) ==
    /\ At(t, "undone")
    /\ current' = None
    /\ Errored(t)
    /\ UNCHANGED <<lock, latest, status, cluster, faults, robbed>>

(* current(): the run to look at, if there is one. *)
Find(t) ==
    /\ At(t, "find")
    /\ req' = [req EXCEPT ![t].run = IF current # None THEN current ELSE latest,
                          ![t].pc = "read"]
    /\ UNCHANGED <<redis, cluster, shown, faults, robbed>>

(* cancel *)
CancelWho(t) ==
    /\ At(t, "who")
    /\ IF current = None THEN Errored(t)
       ELSE /\ req' = [req EXCEPT ![t].run = current, ![t].pc = "kill"]
            /\ UNCHANGED shown
    /\ UNCHANGED <<redis, cluster, faults, robbed>>

CancelJob(t) ==
    /\ At(t, "kill")
    /\ \/ /\ available
          /\ job' = [job EXCEPT ![req[t].run] = "none"]
          /\ Goto(t, "mark") /\ UNCHANGED <<faults, shown>>
       \/ /\ UNCHANGED job /\ Errored(t)
          /\ IF available THEN Fault ELSE UNCHANGED faults
    /\ UNCHANGED <<redis, available, replicas, robbed>>

CancelMark(t) ==
    /\ At(t, "mark")
    /\ status' = [status EXCEPT ![req[t].run] = "CANCELLED"]
    /\ Goto(t, "free")
    /\ UNCHANGED <<lock, current, latest, cluster, shown, faults, robbed>>

CancelFree(t) ==
    /\ At(t, "free")
    /\ FreeLock
    /\ Goto(t, "freed")
    /\ UNCHANGED <<current, latest, status, cluster, shown, faults>>

CancelFreed(t) ==
    /\ At(t, "freed")
    /\ current' = None
    /\ Goto(t, "read")
    /\ UNCHANGED <<lock, latest, status, cluster, shown, faults, robbed>>

(* view: read the cluster, then the status, derive and store the next one.   *)
(* A Job without an active pod reads like no Job.                           *)
ViewRead(t) ==
    LET r == req[t].run
    IN /\ At(t, "read")
       /\ \/ /\ r = None
             /\ Reply(t, IF available THEN "over" ELSE "UNAVAILABLE")
             /\ UNCHANGED <<shown, faults>>
          \/ /\ r # None
             /\ req' = [req EXCEPT ![t].job = job[r], ![t].big = replicas >= 2,
                                   ![t].pc = "derive"]
             /\ UNCHANGED <<shown, faults>>
          \/ /\ available /\ Fault
             /\ IF req[t].kind = "post" THEN Goto(t, "undo") /\ UNCHANGED shown
                ELSE Errored(t)
       /\ UNCHANGED <<redis, cluster, robbed>>

Derive_Forgetful(previous, state, big) ==
    IF ~available THEN "UNAVAILABLE"
    ELSE IF state = "failed" THEN "FAILED"
    ELSE IF big THEN IF state = "succeeded" THEN "STABILIZING" ELSE "SCALED_OUT"
    ELSE IF previous \in {"SCALED_OUT", "STABILIZING"}
         THEN IF state = "active" THEN "SCALED_OUT" ELSE "COMPLETED"
    ELSE IF state = "succeeded" THEN "NO_SCALE"
    ELSE IF state = "active" THEN "LOADING"
    ELSE previous

Derive(previous, state, big) ==
    IF ~available THEN "UNAVAILABLE"
    ELSE IF previous = "CANCELLED" THEN "CANCELLED"
    ELSE IF state = "failed" THEN "FAILED"
    ELSE IF big THEN IF state = "succeeded" THEN "STABILIZING" ELSE "SCALED_OUT"
    ELSE IF previous \in {"SCALED_OUT", "STABILIZING"}
         THEN IF state = "active" THEN "SCALED_OUT" ELSE "COMPLETED"
    ELSE IF state = "succeeded" THEN "NO_SCALE"
    ELSE IF state = "active" THEN "LOADING"
    ELSE previous

(* A view that is not terminal is live; a terminal one frees the keys first. *)
After(t, next) == IF next \in Terminals THEN Goto(t, "end") ELSE Reply(t, "live")

ViewDerive(t) ==
    LET previous == IF status[req[t].run] = "unused" THEN "STARTING"
                    ELSE status[req[t].run]
        next == Derive(previous, req[t].job, req[t].big)
    IN /\ At(t, "derive")
       /\ IF next = previous THEN After(t, next)
          ELSE req' = [req EXCEPT ![t].next = next, ![t].pc = "write"]
       /\ UNCHANGED <<redis, cluster, shown, faults, robbed>>

(* updateStatus overwrites whatever has been stored since. *)
ViewWrite(t) ==
    LET r == req[t].run
    IN /\ At(t, "write")
       /\ status' = [status EXCEPT ![r] = req[t].next]
       /\ After(t, req[t].next)
       /\ UNCHANGED <<lock, current, latest, cluster, shown, faults, robbed>>

(* The run is over: delete both keys, whichever run they belong to. *)
ViewEnd(t) ==
    /\ At(t, "end")
    /\ FreeLock
    /\ Goto(t, "ended")
    /\ UNCHANGED <<current, latest, status, cluster, shown, faults>>

ViewEnded(t) ==
    /\ At(t, "ended")
    /\ current' = None
    /\ Reply(t, "over")
    /\ UNCHANGED <<lock, latest, status, cluster, shown, faults, robbed>>

(* The pod that serves a request dies. *)
Crash(t) ==
    /\ req[t] # Idle
    /\ Fault
    /\ Errored(t)
    /\ UNCHANGED <<redis, cluster, robbed>>

-----------------------------------------------------------------------------
(* The cluster and Redis *)

JobRuns(r) ==
    /\ job[r] = "new" /\ job' = [job EXCEPT ![r] = "active"]
    /\ UNCHANGED <<redis, available, replicas, req, shown, faults, robbed>>

JobEnds(r) ==
    /\ job[r] = "active"
    /\ \E end \in {"succeeded", "failed"} : job' = [job EXCEPT ![r] = end]
    /\ UNCHANGED <<redis, available, replicas, req, shown, faults, robbed>>

(* ttlSecondsAfterFinished: 300 seconds. *)
JobGone(r) ==
    /\ job[r] \in {"succeeded", "failed"}
    /\ job' = [job EXCEPT ![r] = "none"]
    /\ UNCHANGED <<redis, available, replicas, req, shown, faults, robbed>>

(* minReplicas is 2, maxReplicas 3.  Applying the manifest, which says one   *)
(* replica, takes the deployment to one until the autoscaler acts.          *)
Loaded == \E r \in Run : job[r] = "active"
Scale(n) ==
    /\ replicas' = n
    /\ UNCHANGED <<redis, available, job, req, shown, robbed>>

Raise == replicas = 1 /\ Scale(2) /\ UNCHANGED faults
ScaleOut == replicas = 2 /\ Loaded /\ Scale(3) /\ UNCHANGED faults
ScaleIn == replicas = 3 /\ ~Loaded /\ Scale(2) /\ UNCHANGED faults
Deploy == Fault /\ replicas > 1 /\ Scale(1)

(* Both keys live for fifteen minutes from the start: longer than a start    *)
(* and its Job take (210 seconds).                                          *)
KeysExpire(r) ==
    /\ r \in {lock, current} /\ ~AtWork(r)
    /\ lock' = IF lock = r THEN None ELSE lock
    /\ current' = IF current = r THEN None ELSE current
    /\ UNCHANGED <<latest, status, cluster, req, shown, faults, robbed>>

-----------------------------------------------------------------------------
Serve(t) ==
    \/ StartLock(t) \/ StartCurrent(t) \/ StartRecord(t) \/ StartJob(t)
    \/ StartUndo(t) \/ StartUndone(t)
    \/ Find(t)
    \/ CancelWho(t) \/ CancelJob(t) \/ CancelMark(t) \/ CancelFree(t) \/ CancelFreed(t)
    \/ ViewRead(t) \/ ViewDerive(t) \/ ViewWrite(t) \/ ViewEnd(t) \/ ViewEnded(t)
    \/ Answer(t)

Next ==
    \/ \E t \in Thread :
        \/ \E p \in Page : Poll(t, p) \/ Start(t, p) \/ Cancel(t, p)
        \/ Post(t) \/ Serve(t) \/ TimeOut(t) \/ Crash(t)
    \/ \E r \in Run : JobRuns(r) \/ JobEnds(r) \/ JobGone(r) \/ KeysExpire(r)
    \/ Raise \/ ScaleOut \/ ScaleIn \/ Deploy

Spec == Init /\ [][Next]_vars

(* Requests are served, a panel stays open, a Job has a deadline of 210      *)
(* seconds, the autoscaler keeps its minimum and keys have a TTL.  Nothing    *)
(* says that load scales out, or that an extra replica goes.                *)
Fairness ==
    /\ \A t \in Thread : WF_vars(Serve(t))
    /\ SF_vars(\E t \in Thread, p \in Page : Poll(t, p))
    /\ \A r \in Run : WF_vars(JobRuns(r)) /\ WF_vars(JobEnds(r)) /\ WF_vars(KeysExpire(r))
    /\ WF_vars(Raise)
FairSpec == Spec /\ Fairness

-----------------------------------------------------------------------------
(* Properties *)

(* Two rehearsals are at work at once only if a request has deleted the lock *)
(* of one of them while it was: however starts, failed starts, crashes and   *)
(* expiries overlap, the lock itself admits one (start, 36-38).  Who deletes *)
(* it is what OneRehearsal below is about.                                  *)
RivalsAreExplained ==
    \A q, r \in Run : AtWork(q) /\ AtWork(r) /\ q # r => q \in robbed \/ r \in robbed

(* A cancellation that is on record, and that no request is about to write   *)
(* over (a start that has not recorded its run yet, a view with an older     *)
(* picture), stays on record: no later view revives the run, whatever the    *)
(* cluster shows of its Job and of the replicas (derive, 124-125).           *)
Settled(r) ==
    /\ status[r] = "CANCELLED"
    /\ \A t \in Thread : req[t].run = r => req[t].pc \notin {"current", "latest", "write"}
CancellationLasts == [][\A r \in Run : Settled(r) => Settled(r)']_vars

(* docs/admin-totp-hpa-rehearsal.md, line 28: the Redis lock limits the      *)
(* rehearsals that run at the same time to one.                             *)
OneRehearsal == Cardinality({r \in Run : job[r] \in {"new", "active"}}) <= 1

(* docs/admin-totp-hpa-rehearsal.md, line 31: a Job that succeeds without a  *)
(* scale-out being observed ends the rehearsal as NO_SCALE.  Where the        *)
(* replicas stay at the autoscaler's minimum nothing has scaled out, and a    *)
(* last rehearsal whose success a view has read should end so (unless it was *)
(* cancelled).                                                              *)
UnscaledEnds ==
    LET SeenToSucceed(r) == \E t \in Thread : req[t].run = r /\ req[t].job = "succeeded"
    IN [](replicas = 2) =>
        \A r \in Run : (latest = r /\ SeenToSucceed(r))
                          ~> (status[r] \in {"NO_SCALE", "CANCELLED"} \/ latest # r)
=============================================================================
