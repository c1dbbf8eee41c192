-------------------------- MODULE JobDeliveryProofs --------------------------
(***************************************************************************)
(* Proofs about JobDelivery, for any number of jobs and of handlers that   *)
(* run on without a client, whatever is done to the editable jobs.         *)
(***************************************************************************)
EXTENDS JobDelivery, FiniteSetTheorems, TLAPS

USE DeliveryAssumption

LEMMA GuardedJobs == GuardedJob \subseteq Job
BY DEF GuardedJob

(***************************************************************************)
(* The shape of the two goroutines: which requests they wait for, and what *)
(* the poll loop holds in each of its phases.                              *)
(***************************************************************************)

Calling == {"start", "deliver", "direct"}
NewCall(kind, j) == [stage |-> "sent", req |-> [kind |-> kind, job |-> j]]
CallRecord == [stage : {"none"} \union InHand \union Answered, req : Request \union {NoRequest}]
NoCall == [stage |-> "none", req |-> NoRequest]

\* A client waits for an answer to a proper request, the drain goroutine only for
\* one to a report.
CallShape ==
  /\ \A c \in Client : Waiting(c) => call[c].req \in Request
  /\ Waiting("drain") => call["drain"].req.kind \in Kind

LoopShape ==
  /\ cur \in Job <=> phase # "idle"
  /\ phase = "idle" => ~killed
  /\ phase = "report" => outcome \in Kind
  /\ Waiting("main") <=> phase \in Calling
  /\ phase = "start" => call["main"].req = [kind |-> "start", job |-> cur]
  /\ phase \in Calling \ {"start"} => call["main"].req.kind \in Kind

Shape == TypeOK /\ CallShape /\ LoopShape

(***************************************************************************)
(* What an event says of a guarded job is true, whoever carries it: the    *)
(* file on disk, the list of the drain goroutine, a request, or one        *)
(* without a client.  Of any other job it says that there is one.          *)
(***************************************************************************)

SaysTrue(kind, j) ==
  /\ kind = "complete" => engine[j] = "ok"
  /\ kind = "cancelled" => j \in cancelReq /\ engine[j] = "error"
EventTrue(kind, j) == status[j] # "none" /\ (j \in GuardedJob => SaysTrue(kind, j))

Closed(j) == status[j] \in Terminal \union {"deleted"}

\* A job that restic has touched has been started.
StartedOf(j) == engine[j] # "never" => status[j] \notin {"none", "pending"}

EventsTrue ==
  /\ \A j \in Job : outbox[j] # "none" => EventTrue(outbox[j], j)
  /\ \A j \in Job : todo[j] # "none" => EventTrue(todo[j], j)
  /\ \A c \in Client : Waiting(c) => EventTrue(call[c].req.kind, call[c].req.job)
  /\ \A a \in adrift : EventTrue(a.req.kind, a.req.job)

\* The poll loop knows its jobs from a list; a start that was confirmed is the first;
\* restic runs for the job it works on; what it reports is true.
LoopTrue ==
  /\ \A j \in batch : status[j] # "none"
  /\ phase # "idle" => status[cur] # "none"
  /\ killed => cur \in cancelReq
  /\ cur \in GuardedJob /\ phase = "start" /\ call["main"].stage = "ok" =>
       engine[cur] = "never" /\ status[cur] \notin {"none", "pending"}
  /\ phase = "backup" => engine[cur] = "started"
  /\ phase = "report" => EventTrue(outcome, cur)

Truth == EventsTrue /\ LoopTrue /\ RecordedIsTrue /\ \A j \in GuardedJob : StartedOf(j)

(***************************************************************************)
(* Answers and registrations.                                              *)
(***************************************************************************)

\* A guarded job has ended whose report has been accepted or refused.
AnswerTrue ==
  \A c \in Client :
    /\ call[c].req.job \in GuardedJob
    /\ call[c].stage \in {"ok", "rejected"} /\ call[c].req.kind \in Kind
    => Closed(call[c].req.job)

\* A handler that is about to register a snapshot answers a report of success.  For a
\* guarded job it is the only one, and no snapshot has been registered for that job.
Registering(x, j) == x.stage = "register" /\ x.req.job = j
MayRegister(x) ==
  x.stage = "register" =>
    /\ x.req.kind = "complete"
    /\ x.req.job \in GuardedJob =>
         status[x.req.job] \in {"success", "deleted"} /\ snaps[x.req.job] = 0

RegisterAlone ==
  /\ \A c \in Client : MayRegister(call[c])
  /\ \A a \in adrift : MayRegister(a)
  /\ \A j \in GuardedJob :
       /\ ~(Registering(call["main"], j) /\ Registering(call["drain"], j))
       /\ \A c \in Client, a \in adrift :
            ~(Registering(call[c], j) /\ Registering(a, j))

Registered == OneSnapshotPerSuccess /\ RegisterAlone

Kept == OutcomeKept /\ \A j \in saved : status[j] # "none"

IInv == Shape /\ Truth /\ AnswerTrue /\ Registered /\ Kept

LEMMA InitShape == Init => Shape
<1> SUFFICES ASSUME Init PROVE Shape
  OBVIOUS
<1>1. TypeOK
  BY DEF Init, TypeOK, Terminal, Client
<1>2. CallShape /\ LoopShape
  BY DEF Init, CallShape, LoopShape, Waiting, Client, Calling
<1> QED
  BY <1>1, <1>2 DEF Shape

LEMMA NewCallType ==
  ASSUME NEW kind, kind \in Kind \union {"start"}, NEW j \in Job
  PROVE  /\ NewCall(kind, j) \in CallRecord
         /\ NewCall(kind, j).req \in Request /\ NewCall(kind, j).req.kind = kind
<1>1. [kind |-> kind, job |-> j] \in Request
  BY DEF Request
<1> QED
  BY <1>1 DEF NewCall, CallRecord, InHand

LEMMA NoCallType == NoCall \in CallRecord /\ NoCall.stage = "none"
BY DEF NoCall, CallRecord

\* A handler's answer changes the stage of the call and the status of one job.
LEMMA HandleType ==
  ASSUME TypeOK, NEW q \in Request, NEW stage \in {"register"} \union Answered,
         Handle(q, stage)
  PROVE  /\ status' \in [Job -> {"none", "pending", "running", "deleted"} \union Terminal]
         /\ \E to \in {"running"} \union Terminal :
              status' = status \/ status' = [status EXCEPT ![q.job] = to]
<1>1. \E to \in {"running"} \union Terminal :
        status' = status \/ status' = [status EXCEPT ![q.job] = to]
  BY DEF Handle, AgentAuth, AdmitStart, CompleteJob, FailJob, CancelJob, Guarded, Terminal
<1>2. PICK to \in {"running"} \union Terminal :
        status' = status \/ status' = [status EXCEPT ![q.job] = to]
  BY <1>1
<1> QED
  BY <1>1, <1>2 DEF TypeOK

LEMMA AbandonType ==
  ASSUME Shape, NEW C \in SUBSET Client, Abandon(C)
  PROVE  adrift' \subseteq [stage : InHand, req : Request]
<1>1. ASSUME NEW c \in Client, call[c].stage \in InHand
      PROVE  call[c] \in [stage : InHand, req : Request]
  <2>1. call[c].req \in Request
    BY <1>1 DEF Shape, CallShape, Waiting, InHand
  <2>2. call[c] = [stage |-> call[c].stage, req |-> call[c].req]
    BY DEF Shape, TypeOK
  <2> QED
    BY <1>1, <2>1, <2>2
<1>2. PICK D \in SUBSET {call[c] : c \in {d \in C : call[d].stage \in InHand}} :
        adrift' = adrift \union D
  BY DEF Abandon
<1>3. D \subseteq [stage : InHand, req : Request]
  BY <1>1, <1>2
<1> QED
  BY <1>2, <1>3 DEF Shape, TypeOK

\* The loop goes on while neither the calls nor the database change.
LEMMA LocalShape ==
  ASSUME Shape, UNCHANGED <<todo, netVars>>, snaps' \in [Job -> Nat],
         status' \in [Job -> {"none", "pending", "running", "deleted"} \union Terminal],
         cancelReq' \subseteq Job, outbox' = outbox, saved' = saved, refused' = refused,
         batch' \subseteq Job, killed' \in BOOLEAN, outcome' \in Kind \union {"none"},
         engine' \in [Job -> {"never", "started", "ok", "error"}],
         \/ phase \notin Calling /\ phase' \in {"fetch", "backup", "report"} /\ cur' \in Job
         \/ phase' = phase /\ cur' = cur /\ (phase = "idle" => killed' = killed),
         phase' = "report" => outcome' \in Kind
  PROVE  Shape'
<1>1. TypeOK'
  BY DEF Shape, TypeOK, netVars
<1>2. CallShape'
  BY DEF Shape, CallShape, Waiting, netVars
<1>3. LoopShape'
  BY DEF Shape, TypeOK, LoopShape, Waiting, netVars, Calling
<1> QED
  BY <1>1, <1>2, <1>3 DEF Shape

\* The guarded statements: INSERT, DELETE and the reaper.
GuardedStatus(j) ==
  \/ status[j] = "none" /\ status' = [status EXCEPT ![j] = "pending"]
  \/ status[j] \in JobStatus /\ snaps[j] = 0 /\ status' = [status EXCEPT ![j] = "deleted"]
  \/ status[j] \in {"pending", "running"} /\ status' = [status EXCEPT ![j] = "failed"]

\* What a statement on the row of j can do: to the status of any job, to the status of a
\* guarded one, to the request for a cancel and to the number of snapshots.
NewStatus(j) ==
  status' = status \/ (\E st \in JobStatus \union {"deleted"} : status' = [status EXCEPT ![j] = st])
TableStep(j) ==
  /\ NewStatus(j)
  /\ status[j] # "none" => status'[j] # "none"
  /\ j \in GuardedJob => status' = status \/ GuardedStatus(j)
  /\ cancelReq' \in {cancelReq, cancelReq \union {j}}
  /\ \/ snaps' = snaps
     \/ snaps[j] > 0 /\ snaps' = [snaps EXCEPT ![j] = @ - 1]
     \/ j \notin GuardedJob /\ snaps' = [snaps EXCEPT ![j] = @ + 1]
  /\ UNCHANGED <<loopVars, diskVars, todo, netVars, engine>>

LEMMA TableSteps ==
  ASSUME NEW j \in Job, TypeOK, Table(j)
  PROVE  TableStep(j)
<1> USE DEF Untouched, TableStep, NewStatus, GuardedStatus, GuardedJob, JobStatus, Terminal, TypeOK
<1>1. CASE CreatePending(j) \/ RequestCancel(j)
  BY <1>1 DEF CreatePending, RequestCancel
<1>2. CASE DeleteJob(j) \/ ReapStale(j)
  BY <1>2 DEF DeleteJob, ReapStale
<1>3. CASE DeleteSnapshot(j) \/ CreateSnapshot(j)
  BY <1>3 DEF DeleteSnapshot, CreateSnapshot
<1>4. ASSUME NEW st \in JobStatus, CreateJob(j, st) \/ UpdateJob(j, st) \/ EndRetentionJob(j, st)
      PROVE  TableStep(j)
  <2>1. /\ j \notin GuardedJob /\ status' = [status EXCEPT ![j] = st]
        /\ UNCHANGED <<cancelReq, snaps, loopVars, diskVars, todo, netVars, engine>>
    BY <1>4 DEF CreateJob, UpdateJob, EndRetentionJob
  <2>2. status'[j] = st /\ st # "none"
    BY <2>1
  <2> QED
    BY <2>1, <2>2
<1> QED
  BY <1>1, <1>2, <1>3, <1>4 DEF Table

LEMMA TableShape ==
  ASSUME Shape, NEW j \in Job, Table(j)
  PROVE  Shape'
<1>1. TableStep(j)
  BY TableSteps DEF Shape
<1>2. /\ status' \in [Job -> {"none", "pending", "running", "deleted"} \union Terminal]
      /\ cancelReq' \subseteq Job
  BY <1>1 DEF TableStep, NewStatus, Shape, TypeOK, Terminal, JobStatus
<1>3. snaps' \in [Job -> Nat]
  BY <1>1 DEF TableStep, Shape, TypeOK
<1>4. UNCHANGED <<loopVars, diskVars, todo, netVars, engine>>
  BY <1>1 DEF TableStep
<1> USE DEF loopVars, diskVars, netVars
<1> QED
  BY <1>2, <1>3, <1>4, LocalShape DEF Shape, TypeOK, LoopShape

\* The main client asks, and the loop is in a phase that waits for the answer.
LEMMA SendShape ==
  ASSUME Shape, UNCHANGED <<dbVars, batch, cur, killed, outcome, todo, adrift, engine>>,
         NEW kind, Send("main", kind, cur), phase # "idle",
         \/ phase' = "start" /\ kind = "start"
         \/ phase' \in {"deliver", "direct"} /\ kind \in Kind,
         outbox' \in [Job -> Kind \union {"none"}], saved' \subseteq Job, refused' \subseteq Job
  PROVE  Shape'
<1>1. NewCall(kind, cur) \in CallRecord /\ NewCall(kind, cur).req \in Request
  BY NewCallType DEF Shape, LoopShape
<1>2. call' = [call EXCEPT !["main"] = NewCall(kind, cur)]
  BY DEF Send, NewCall
<1>3. TypeOK'
  BY <1>1, <1>2 DEF Shape, TypeOK, CallRecord, dbVars
<1>4. /\ call'["main"] = NewCall(kind, cur)
      /\ call'["drain"] = call["drain"]
  BY <1>2 DEF Shape, TypeOK, Client
<1>5. CallShape'
  BY <1>1, <1>4 DEF Shape, CallShape, Waiting, Client
<1>6. LoopShape'
  BY <1>4 DEF Shape, LoopShape, Waiting, NewCall, Calling
<1> QED
  BY <1>3, <1>5, <1>6 DEF Shape

\* The main client has its answer, and the loop goes on without a call.
LEMMA MainHangUpShape ==
  ASSUME Shape, UNCHANGED <<dbVars, batch, todo, adrift>>, HangUp("main"),
         JobDone \/ (phase' = "backup" /\ UNCHANGED <<cur, killed, outcome>> /\ cur \in Job),
         outbox' \in [Job -> Kind \union {"none"}], saved' \subseteq Job, refused' \subseteq Job,
         engine' \in [Job -> {"never", "started", "ok", "error"}]
  PROVE  Shape'
<1>1. call' = [call EXCEPT !["main"] = NoCall]
  BY DEF HangUp, NoCall
<1>2. TypeOK'
  BY <1>1 DEF Shape, TypeOK, dbVars, JobDone, NoCall
<1>3. /\ call'["main"] = NoCall
      /\ call'["drain"] = call["drain"]
  BY <1>1 DEF Shape, TypeOK, Client
<1>4. CallShape'
  BY <1>3 DEF Shape, CallShape, Waiting, Client, NoCall
<1>5. LoopShape'
  BY <1>3 DEF Shape, LoopShape, Waiting, NoCall, Calling, JobDone
<1> QED
  BY <1>2, <1>4, <1>5 DEF Shape

LEMMA LoopShapeStep ==
  ASSUME Shape, Loop
  PROVE  Shape'
<1>1. CASE Poll \/ WatcherStops \/ \E j \in Job : NextJob(j)
  <2>1. CASE Poll
    BY <2>1, LocalShape DEF Poll, Shape, TypeOK, LoopShape, dbVars, diskVars, netVars
  <2>2. CASE WatcherStops
    BY <2>2, LocalShape DEF WatcherStops, Shape, TypeOK, LoopShape, dbVars, diskVars, netVars
  <2>3. ASSUME NEW j \in Job, NextJob(j) PROVE Shape'
    <3>1. /\ phase = "idle" /\ phase' = "fetch" /\ cur' \in Job /\ batch' \subseteq Job
          /\ UNCHANGED <<dbVars, killed, outcome, diskVars, todo, netVars, engine>>
      BY <2>3 DEF NextJob, Shape, TypeOK
    <3>2. phase \notin Calling /\ phase' \in {"fetch", "backup", "report"} /\ phase' # "report"
      BY <3>1 DEF Calling
    <3>3. /\ status' \in [Job -> {"none", "pending", "running", "deleted"} \union Terminal]
          /\ cancelReq' \subseteq Job /\ snaps' \in [Job -> Nat]
          /\ killed' \in BOOLEAN /\ outcome' \in Kind \union {"none"}
          /\ engine' \in [Job -> {"never", "started", "ok", "error"}]
          /\ outbox' = outbox /\ saved' = saved /\ refused' = refused
      BY <3>1 DEF Shape, TypeOK, dbVars, diskVars
    <3> QED
      BY <3>1, <3>2, <3>3, LocalShape DEF netVars
  <2> QED
    BY <1>1, <2>1, <2>2, <2>3
<1>2. CASE FetchFails \/ \E result \in {"ok", "error"} : BackupEnds(result)
  <2>1. /\ phase \in {"fetch", "backup"} /\ phase' = "report" /\ cur' = cur /\ cur \in Job
        /\ outcome' \in Kind /\ killed' = killed /\ batch' = batch
        /\ engine' \in [Job -> {"never", "started", "ok", "error"}]
        /\ UNCHANGED <<dbVars, diskVars, todo, netVars>>
    BY <1>2 DEF FetchFails, BackupEnds, Decide, Shape, TypeOK, LoopShape, Kind
  <2> QED
    BY <2>1, LocalShape DEF Shape, TypeOK, dbVars, diskVars, netVars, Calling
<1>3. CASE FetchOk
  <2>1. cur \in Job
    BY <1>3 DEF FetchOk, Shape, LoopShape
  <2> QED
    BY <1>3, <2>1, SendShape DEF FetchOk, diskVars, Shape, TypeOK
<1>4. CASE Enqueue
  <2>1. outcome \in Kind /\ cur \in Job
    BY <1>4 DEF Enqueue, Shape, LoopShape
  <2> QED
    BY <1>4, <2>1, SendShape DEF Enqueue, Shape, TypeOK
<1>5. CASE EnqueueFails
  <2>1. outcome \in Kind
    BY <1>5 DEF EnqueueFails, Shape, LoopShape
  <2> QED
    BY <1>5, <2>1, SendShape DEF EnqueueFails, diskVars, Shape, TypeOK
<1>6. CASE StartConfirmed
  <2>1. cur \in Job /\ engine' \in [Job -> {"never", "started", "ok", "error"}]
    BY <1>6 DEF StartConfirmed, Shape, TypeOK, LoopShape
  <2> QED
    BY <1>6, <2>1, MainHangUpShape DEF StartConfirmed, diskVars, Shape, TypeOK
<1>7. CASE StartRefused \/ DirectDelivered
  BY <1>7, MainHangUpShape DEF StartRefused, DirectDelivered, diskVars, Shape, TypeOK
<1> QED
  BY <1>1, <1>2, <1>3, <1>4, <1>5, <1>6, <1>7 DEF Loop

\* A handler changes the stage of a call, and at most the database.
LEMMA StageShape ==
  ASSUME Shape, NEW c \in Client, Waiting(c), NEW stage \in InHand \union Answered,
         call' = [call EXCEPT ![c].stage = stage],
         UNCHANGED <<cancelReq, loopVars, diskVars, todo, engine>>,
         status' \in [Job -> {"none", "pending", "running", "deleted"} \union Terminal],
         snaps' \in [Job -> Nat], adrift' \subseteq [stage : InHand, req : Request]
  PROVE  Shape'
<1>1. /\ call' \in [Client -> [stage : {"none"} \union InHand \union Answered,
                              req : Request \union {NoRequest}]]
      /\ \A d \in Client : call'[d].req = call[d].req /\ (Waiting(d)' <=> Waiting(d))
  BY DEF Shape, TypeOK, Waiting, InHand, Answered
<1>2. TypeOK'
  BY <1>1 DEF Shape, TypeOK, loopVars, diskVars
<1>3. CallShape'
  BY <1>1 DEF Shape, CallShape, Client
<1>4. LoopShape'
  BY <1>1 DEF Shape, LoopShape, loopVars, Client
<1> QED
  BY <1>2, <1>3, <1>4 DEF Shape

\* Requests without a client, and the table, are of no account to the shape.
LEMMA AdriftShape ==
  ASSUME Shape, UNCHANGED <<cancelReq, loopVars, diskVars, todo, call, engine>>,
         status' \in [Job -> {"none", "pending", "running", "deleted"} \union Terminal],
         snaps' \in [Job -> Nat], adrift' \subseteq [stage : InHand, req : Request]
  PROVE  Shape'
<1>1. TypeOK'
  BY DEF Shape, TypeOK, loopVars, diskVars
<1>2. CallShape' /\ LoopShape'
  BY DEF Shape, CallShape, LoopShape, Waiting, loopVars
<1> QED
  BY <1>1, <1>2 DEF Shape

LEMMA RegisterType ==
  ASSUME TypeOK, NEW j \in Job, RegisterSnapshot(j)
  PROVE  snaps' \in [Job -> Nat]
BY DEF TypeOK, RegisterSnapshot

LEMMA NetworkShape ==
  ASSUME Shape, Network
  PROVE  Shape'
<1>1. ASSUME NEW c \in Client, Serve(c) PROVE Shape'
  <2>1. PICK stage \in {"register"} \union Answered :
          Handle(call[c].req, stage) /\ call' = [call EXCEPT ![c].stage = stage]
    BY <1>1 DEF Serve
  <2>2. Waiting(c) /\ call[c].req \in Request
    BY <1>1 DEF Serve, Waiting, Shape, CallShape
  <2>3. status' \in [Job -> {"none", "pending", "running", "deleted"} \union Terminal]
    BY <2>1, <2>2, HandleType DEF Shape
  <2>4. stage \in InHand \union Answered
    BY DEF InHand
  <2> QED
    BY <1>1, <2>1, <2>2, <2>3, <2>4, StageShape DEF Serve, Shape, TypeOK
<1>2. ASSUME NEW c \in Client, Register(c) PROVE Shape'
  <2>1. Waiting(c) /\ call[c].req.job \in Job
    BY <1>2 DEF Register, Waiting, Shape, CallShape, Request
  <2>2. snaps' \in [Job -> Nat]
    BY <1>2, <2>1, RegisterType DEF Register, Shape
  <2>3. "ok" \in InHand \union Answered
    BY DEF Answered
  <2> QED
    BY <1>2, <2>1, <2>2, <2>3, StageShape DEF Register, Shape, TypeOK
<1>3. ASSUME NEW c \in Client, GiveUp(c) PROVE Shape'
  <2>1. adrift' \subseteq [stage : InHand, req : Request]
    BY <1>3, AbandonType DEF GiveUp
  <2>2. "error" \in InHand \union Answered
    BY DEF Answered
  <2> QED
    BY <1>3, <2>1, <2>2, StageShape DEF GiveUp, dbVars, Shape, TypeOK
<1>4. ASSUME NEW a \in adrift, ServeAdrift(a) PROVE Shape'
  <2>1. PICK stage \in {"register"} \union Answered :
          /\ Handle(a.req, stage)
          /\ adrift' = (adrift \ {a}) \union
                       {b \in {[a EXCEPT !.stage = stage]} : b.stage \in InHand}
    BY <1>4 DEF ServeAdrift
  <2>2. a \in [stage : InHand, req : Request]
    BY DEF Shape, TypeOK
  <2>3. status' \in [Job -> {"none", "pending", "running", "deleted"} \union Terminal]
    BY <2>1, <2>2, HandleType DEF Shape
  <2>4. adrift' \subseteq [stage : InHand, req : Request]
    BY <2>1, <2>2 DEF Shape, TypeOK
  <2> QED
    BY <1>4, <2>3, <2>4, AdriftShape DEF ServeAdrift, Shape, TypeOK
<1>5. ASSUME NEW a \in adrift, RegisterAdrift(a) PROVE Shape'
  <2>1. a.req.job \in Job
    BY DEF Shape, TypeOK, Request
  <2>2. snaps' \in [Job -> Nat]
    BY <1>5, <2>1, RegisterType DEF RegisterAdrift, Shape
  <2> QED
    BY <1>5, <2>2, AdriftShape DEF RegisterAdrift, Shape, TypeOK
<1>6. ASSUME NEW a \in adrift, Vanish(a) PROVE Shape'
  BY <1>6, AdriftShape DEF Vanish, dbVars, Shape, TypeOK
<1> QED
  BY <1>1, <1>2, <1>3, <1>4, <1>5, <1>6 DEF Network

\* The drain goroutine asks, or has its answer.
LEMMA DrainShape ==
  ASSUME Shape, UNCHANGED <<dbVars, loopVars, adrift, engine>>,
         NEW to \in CallRecord, to.stage # "none" => to.req \in Request /\ to.req.kind \in Kind,
         call' = [call EXCEPT !["drain"] = to],
         todo' \in [Job -> Kind \union {"none"}],
         outbox' \in [Job -> Kind \union {"none"}], saved' \subseteq Job, refused' \subseteq Job
  PROVE  Shape'
<1>2. TypeOK'
  <2>1. call' \in [Client -> CallRecord]
    BY DEF Shape, TypeOK, CallRecord
  <2> QED
    BY <2>1 DEF Shape, TypeOK, CallRecord, dbVars, loopVars
<1>3. call'["drain"] = to /\ call'["main"] = call["main"]
  BY DEF Shape, TypeOK, Client
<1>4. CallShape'
  BY <1>3 DEF Shape, CallShape, Waiting, Client
<1>5. LoopShape'
  BY <1>3 DEF Shape, LoopShape, loopVars, Waiting
<1> QED
  BY <1>2, <1>4, <1>5 DEF Shape

LEMMA AckType ==
  ASSUME Shape, NEW c \in Client, Waiting(c), Ack(c)
  PROVE  /\ outbox' \in [Job -> Kind \union {"none"}]
         /\ saved' \subseteq Job /\ refused' \subseteq Job
<1>1. call[c].req.job \in Job
  BY DEF Shape, CallShape, Request
<1> QED
  BY <1>1 DEF Ack, Shape, TypeOK

LEMMA FinishShape ==
  ASSUME Shape, NEW c \in Client, Finish(c),
         outbox' \in [Job -> Kind \union {"none"}], saved' \subseteq Job, refused' \subseteq Job
  PROVE  Shape'
<1>1. CASE c = "main"
  BY <1>1, MainHangUpShape DEF Finish, Shape, TypeOK
<1>2. CASE c = "drain"
  <2>1. call' = [call EXCEPT !["drain"] = NoCall]
    BY <1>2 DEF Finish, HangUp, NoCall
  <2> QED
    BY <1>2, <2>1, NoCallType, DrainShape DEF Finish, Shape, TypeOK
<1> QED
  BY <1>1, <1>2 DEF Client

LEMMA NextShape == Shape /\ [Next]_vars => Shape'
<1> SUFFICES ASSUME Shape, [Next]_vars PROVE Shape'
  OBVIOUS
<1>1. ASSUME NEW j \in Job, Table(j) PROVE Shape'
  BY <1>1, TableShape
<1>2. ASSUME NEW j \in Job, DrainSend(j) PROVE Shape'
  <2>1. todo[j] \in Kind
    BY <1>2 DEF DrainSend, Listed, Shape, TypeOK
  <2>2. call' = [call EXCEPT !["drain"] = NewCall(todo[j], j)]
    BY <1>2 DEF DrainSend, Send, NewCall
  <2>3. todo' \in [Job -> Kind \union {"none"}]
    BY <1>2 DEF DrainSend, Shape, TypeOK
  <2>4. /\ NewCall(todo[j], j) \in CallRecord
        /\ NewCall(todo[j], j).req \in Request /\ NewCall(todo[j], j).req.kind \in Kind
    BY <2>1, NewCallType
  <2> QED
    BY <1>2, <2>2, <2>3, <2>4, DrainShape DEF DrainSend, diskVars, Shape, TypeOK
<1>3. CASE Loop
  BY <1>3, LoopShapeStep
<1>4. CASE Network
  BY <1>4, NetworkShape
<1>5. CASE DrainList
  <2>1. TypeOK'
    BY <1>5 DEF DrainList, Shape, TypeOK, dbVars, loopVars, diskVars, netVars
  <2>2. CallShape' /\ LoopShape'
    BY <1>5 DEF DrainList, Shape, CallShape, LoopShape, Waiting, loopVars, netVars
  <2> QED
    BY <2>1, <2>2 DEF Shape
<1>6. CASE Crash
  <2>1. adrift' \subseteq [stage : InHand, req : Request]
    BY <1>6, AbandonType DEF Crash
  <2>2. TypeOK'
    BY <1>6, <2>1 DEF Crash, JobDone, Shape, TypeOK, dbVars, diskVars
  <2>3. CallShape' /\ LoopShape'
    BY <1>6 DEF Crash, JobDone, CallShape, LoopShape, Waiting, Client, Calling
  <2> QED
    BY <2>2, <2>3 DEF Shape
<1>7. ASSUME NEW c \in Client, Delivered(c) PROVE Shape'
  <2>1. Waiting(c) /\ Ack(c) /\ Finish(c)
    BY <1>7 DEF Delivered, Confirms, Waiting
  <2> QED
    BY <2>1, AckType, FinishShape
<1>8. ASSUME NEW c \in Client, KeepForLater(c) PROVE Shape'
  BY <1>8, FinishShape DEF KeepForLater, diskVars, Shape, TypeOK
<1>9. CASE UNCHANGED vars
  <2>1. TypeOK'
    BY <1>9 DEF Shape, TypeOK, vars, dbVars, loopVars, diskVars, netVars
  <2>2. CallShape' /\ LoopShape'
    BY <1>9 DEF Shape, CallShape, LoopShape, Waiting, vars, loopVars, netVars
  <2> QED
    BY <2>1, <2>2 DEF Shape
<1> QED
  BY <1>1, <1>2, <1>3, <1>4, <1>5, <1>6, <1>7, <1>8, <1>9 DEF Next

\* Both goroutines keep to their shape: in particular every variable keeps its type.
THEOREM TypeCorrect == Spec => []TypeOK
<1>1. Shape => TypeOK
  BY DEF Shape
<1> QED
  BY <1>1, InitShape, NextShape, PTL DEF Spec

(***************************************************************************)
(* What a step leaves as it is.                                            *)
(***************************************************************************)

Started(j) == status[j] \notin {"none", "pending"}

\* A job goes on to exist, and so does the wish to cancel it.  A guarded job with a
\* snapshot is not deleted, one that was started or has ended is not taken back, and
\* restic's result is final.
Later ==
  /\ \A j \in Job :
    /\ status[j] # "none" => status'[j] # "none"
    /\ j \in cancelReq => j \in cancelReq'
  /\ \A j \in GuardedJob :
    /\ Started(j) => Started(j)'
    /\ Closed(j) => Closed(j)'
    /\ status[j] \in {"success", "deleted"} => status'[j] \in {"success", "deleted"}
    /\ status[j] = "success" /\ snaps[j] # 0 => status'[j] = "success"
    /\ engine[j] \in {"ok", "error"} => engine'[j] = engine[j]

\* An outcome is recorded because of an event that is true.
RecordedFrom ==
  \A j \in GuardedJob :
    /\ status'[j] = "success" => status[j] = "success" \/ EventTrue("complete", j)
    /\ status'[j] = "cancelled" => status[j] = "cancelled" \/ EventTrue("cancelled", j)

LEMMA HandleLater ==
  ASSUME Shape, NEW q \in Request, EventTrue(q.kind, q.job),
         NEW stage \in {"register"} \union Answered, Handle(q, stage),
         UNCHANGED <<cancelReq, engine>>
  PROVE  Later /\ RecordedFrom
<1>1. q.job \in Job
  BY DEF Request
<1>2. status \in [Job -> {"none", "pending", "running", "deleted"} \union Terminal]
  BY DEF Shape, TypeOK
<1>3. CASE status' = status
  BY <1>3 DEF Later, RecordedFrom, Started, Closed
<1>4. ASSUME NEW to, status' = [status EXCEPT ![q.job] = to], status[q.job] \in {"pending", "running"},
             \/ to \in {"running", "failed"}
             \/ to = "success" /\ q.kind = "complete"
             \/ to = "cancelled" /\ q.kind = "cancelled"
      PROVE  Later /\ RecordedFrom
  <2>1. \A j \in Job : status'[j] = IF j = q.job THEN to ELSE status[j]
    BY <1>2, <1>4
  <2>2. to \in {"running", "failed", "success", "cancelled"}
    BY <1>4
  <2>3. status[q.job] = "running" => to # "pending"
    BY <2>2
  <2>4. Later
    BY <1>4, <2>1, <2>2, GuardedJobs DEF Later, Started, Closed, Terminal
  <2>5. RecordedFrom
    BY <1>4, <2>1, GuardedJobs DEF RecordedFrom
  <2> QED
    BY <2>4, <2>5
<1> QED
  BY <1>3, <1>4 DEF Handle, AgentAuth, AdmitStart, CompleteJob, FailJob, CancelJob, Guarded

\* The steps that write neither the table nor restic's result.
LEMMA QuietLater ==
  ASSUME UNCHANGED <<status, cancelReq, engine>>
  PROVE  Later /\ RecordedFrom
BY DEF Later, RecordedFrom, Started, Closed

LEMMA TableLater ==
  ASSUME Shape, NEW i \in Job, Table(i)
  PROVE  Later /\ RecordedFrom
<1>1. TableStep(i)
  BY TableSteps DEF Shape
<1>2. /\ \A j \in Job : (j # i => status'[j] = status[j]) /\ (j \in cancelReq => j \in cancelReq')
      /\ status[i] # "none" => status'[i] # "none"
      /\ UNCHANGED engine
  BY <1>1 DEF TableStep, NewStatus, Shape, TypeOK
<1>3. i \in GuardedJob =>
        \/ status'[i] = status[i]
        \/ status[i] = "none" /\ status'[i] = "pending"
        \/ status[i] \in JobStatus /\ snaps[i] = 0 /\ status'[i] = "deleted"
        \/ status[i] \in {"pending", "running"} /\ status'[i] = "failed"
  BY <1>1 DEF TableStep, GuardedStatus, Shape, TypeOK
<1>4. Later
  BY <1>2, <1>3, GuardedJobs DEF Later, Started, Closed, Terminal
<1>5. RecordedFrom
  BY <1>2, <1>3, GuardedJobs DEF RecordedFrom
<1> QED
  BY <1>4, <1>5

LEMMA LoopLater ==
  ASSUME Shape, LoopTrue, Loop
  PROVE  Later /\ RecordedFrom
<1>1. CASE StartConfirmed
  <2>1. /\ cur \in GuardedJob => engine[cur] = "never"
        /\ engine' = [engine EXCEPT ![cur] = "started"]
    BY <1>1 DEF StartConfirmed, LoopTrue
  <2> QED
    BY <1>1, <2>1, GuardedJobs
    DEF StartConfirmed, dbVars, Later, RecordedFrom, Started, Closed, Shape, TypeOK
<1>2. ASSUME NEW result \in {"ok", "error"}, BackupEnds(result)
      PROVE  Later /\ RecordedFrom
  <2>1. engine[cur] = "started" /\ engine' = [engine EXCEPT ![cur] = result]
    BY <1>2 DEF BackupEnds, LoopTrue
  <2> QED
    BY <1>2, <2>1, GuardedJobs
    DEF BackupEnds, dbVars, Later, RecordedFrom, Started, Closed, Shape, TypeOK
<1>3. CASE \/ Poll \/ FetchFails \/ FetchOk \/ StartRefused \/ WatcherStops
           \/ Enqueue \/ EnqueueFails \/ DirectDelivered \/ \E j \in Job : NextJob(j)
  <2>1. UNCHANGED <<dbVars, engine>>
    BY <1>3 DEF Poll, FetchFails, FetchOk, StartRefused, WatcherStops, Enqueue, EnqueueFails,
                DirectDelivered, NextJob
  <2> QED
    BY <2>1, QuietLater DEF dbVars
<1> QED
  BY <1>1, <1>2, <1>3 DEF Loop

LEMMA NetworkLater ==
  ASSUME Shape, EventsTrue, Network
  PROVE  Later /\ RecordedFrom
<1>1. ASSUME NEW c \in Client, Serve(c) PROVE Later /\ RecordedFrom
  <2>1. PICK stage \in {"register"} \union Answered : Handle(call[c].req, stage)
    BY <1>1 DEF Serve
  <2>2. call[c].req \in Request /\ EventTrue(call[c].req.kind, call[c].req.job)
    BY <1>1 DEF Serve, Waiting, Shape, CallShape, EventsTrue
  <2>3. UNCHANGED <<cancelReq, engine>>
    BY <1>1 DEF Serve
  <2> QED
    BY <2>1, <2>2, <2>3, HandleLater
<1>2. ASSUME NEW a \in adrift, ServeAdrift(a) PROVE Later /\ RecordedFrom
  <2>1. PICK stage \in {"register"} \union Answered : Handle(a.req, stage)
    BY <1>2 DEF ServeAdrift
  <2>2. a.req \in Request /\ EventTrue(a.req.kind, a.req.job)
    BY DEF Shape, TypeOK, EventsTrue
  <2>3. UNCHANGED <<cancelReq, engine>>
    BY <1>2 DEF ServeAdrift
  <2> QED
    BY <2>1, <2>2, <2>3, HandleLater
<1>3. CASE \/ \E c \in Client : Register(c) \/ GiveUp(c)
           \/ \E a \in adrift : RegisterAdrift(a) \/ Vanish(a)
  <2>1. UNCHANGED <<status, cancelReq, engine>>
    BY <1>3 DEF Register, GiveUp, RegisterAdrift, Vanish, dbVars
  <2> QED
    BY <2>1, QuietLater
<1> QED
  BY <1>1, <1>2, <1>3 DEF Network

LEMMA NextLater ==
  ASSUME Shape, Truth, [Next]_vars
  PROVE  Later /\ RecordedFrom
<1>1. CASE \/ DrainList \/ Crash \/ UNCHANGED vars \/ \E j \in Job : DrainSend(j)
           \/ \E c \in Client : Delivered(c) \/ KeepForLater(c)
  <2>1. UNCHANGED <<dbVars, engine>>
    BY <1>1 DEF DrainList, Crash, vars, DrainSend, Delivered, KeepForLater, Finish
  <2> QED
    BY <2>1, QuietLater DEF dbVars
<1>2. ASSUME NEW j \in Job, Table(j) PROVE Later /\ RecordedFrom
  BY <1>2, TableLater
<1>3. CASE Loop
  BY <1>3, LoopLater DEF Truth
<1>4. CASE Network
  BY <1>4, NetworkLater DEF Truth
<1> QED
  BY <1>1, <1>2, <1>3, <1>4 DEF Next

(***************************************************************************)
(* Where the events of a state come from.                                  *)
(***************************************************************************)

\* An event is carried on, or it is the one the loop has just decided to report; a
\* request without a client is one that had a client.
FileFrom(j) ==
  outbox'[j] # "none" =>
    \/ outbox'[j] = outbox[j]
    \/ phase = "report" /\ j = cur /\ outbox'[j] = outcome
ListFrom(j) == todo'[j] # "none" => todo'[j] = todo[j] \/ todo'[j] = outbox[j]
CallFrom(c) ==
  Waiting(c)' =>
    \/ Waiting(c) /\ call'[c].req = call[c].req
    \/ phase = "fetch" /\ call'[c].req = [kind |-> "start", job |-> cur]
    \/ phase = "report" /\ call'[c].req = [kind |-> outcome, job |-> cur]
    \/ \E j \in Job : todo[j] # "none" /\ call'[c].req = [kind |-> todo[j], job |-> j]
AdriftFrom(a) ==
  \/ \E b \in adrift : a.req = b.req
  \/ \E c \in Client : Waiting(c) /\ a.req = call[c].req

EventsFrom ==
  /\ \A j \in Job : FileFrom(j) /\ ListFrom(j)
  /\ \A c \in Client : CallFrom(c)
  /\ \A a \in adrift' : AdriftFrom(a)

LEMMA EventsFromTrue ==
  ASSUME Shape, Shape', Truth, Later, EventsFrom
  PROVE  EventsTrue'
<1>1. ASSUME NEW kind, NEW j \in Job, EventTrue(kind, j)
      PROVE  /\ status'[j] # "none"
             /\ j \in GuardedJob =>
                  /\ kind = "complete" => engine'[j] = "ok"
                  /\ kind = "cancelled" => j \in cancelReq' /\ engine'[j] = "error"
  BY <1>1 DEF EventTrue, SaysTrue, Later
<1>2. phase = "report" => cur \in Job /\ EventTrue(outcome, cur)
  BY DEF Shape, LoopShape, Truth, LoopTrue
<1>3. phase = "fetch" => cur \in Job /\ EventTrue("start", cur)
  BY DEF Shape, LoopShape, Truth, LoopTrue, EventTrue, SaysTrue
<1>4. ASSUME NEW j \in Job PROVE (outbox[j] # "none" => EventTrue(outbox[j], j))'
  <2>1. outbox'[j] # "none" => EventTrue(outbox'[j], j)
    BY <1>2 DEF EventsFrom, FileFrom, Truth, EventsTrue
  <2> QED
    BY <1>1, <2>1 DEF EventTrue, SaysTrue
<1>5. ASSUME NEW j \in Job PROVE (todo[j] # "none" => EventTrue(todo[j], j))'
  <2>1. todo'[j] # "none" => EventTrue(todo'[j], j)
    BY DEF EventsFrom, ListFrom, Truth, EventsTrue
  <2> QED
    BY <1>1, <2>1 DEF EventTrue, SaysTrue
<1>6. ASSUME NEW c \in Client
      PROVE  (Waiting(c) => EventTrue(call[c].req.kind, call[c].req.job))'
  <2> DEFINE q == call'[c].req
  <2>1. ASSUME Waiting(c)' PROVE EventTrue(q.kind, q.job)
    <3>1. CASE Waiting(c) /\ q = call[c].req
      BY <3>1 DEF Truth, EventsTrue
    <3>2. CASE phase = "fetch" /\ q = [kind |-> "start", job |-> cur]
      BY <1>3, <3>2
    <3>3. CASE phase = "report" /\ q = [kind |-> outcome, job |-> cur]
      BY <1>2, <3>3
    <3>4. ASSUME NEW j \in Job, todo[j] # "none", q = [kind |-> todo[j], job |-> j]
          PROVE  EventTrue(q.kind, q.job)
      <4>1. EventTrue(todo[j], j) /\ q.kind = todo[j] /\ q.job = j
        BY <3>4 DEF Truth, EventsTrue
      <4> QED
        BY <4>1
    <3> QED
      BY <2>1, <3>1, <3>2, <3>3, <3>4 DEF EventsFrom, CallFrom
  <2>2. Waiting(c)' => call'[c].req.job \in Job
    BY DEF Shape, CallShape, Request
  <2> QED
    BY <1>1, <2>1, <2>2 DEF EventTrue, SaysTrue
<1>7. ASSUME NEW a \in adrift' PROVE EventTrue(a.req.kind, a.req.job)'
  <2>1. EventTrue(a.req.kind, a.req.job)
    BY DEF EventsFrom, AdriftFrom, Truth, EventsTrue
  <2>2. a.req.job \in Job
    BY DEF Shape, TypeOK, Request
  <2> QED
    BY <1>1, <2>1, <2>2 DEF EventTrue, SaysTrue
<1> QED
  BY <1>4, <1>5, <1>6, <1>7 DEF EventsTrue

LEMMA SameEvents ==
  ASSUME UNCHANGED <<outbox, todo, netVars>>
  PROVE  EventsFrom
BY DEF EventsFrom, FileFrom, ListFrom, CallFrom, AdriftFrom, netVars, Waiting

LEMMA AbandonFrom ==
  ASSUME NEW C \in SUBSET Client, Abandon(C), NEW a \in adrift'
  PROVE  AdriftFrom(a)
BY DEF Abandon, AdriftFrom, Waiting, InHand

\* A client that asks or hangs up.
LEMMA CallEvents ==
  ASSUME Shape, NEW d \in Client, NEW to, call' = [call EXCEPT ![d] = to],
         \A j \in Job : FileFrom(j) /\ ListFrom(j), adrift' = adrift,
         \/ to = NoCall
         \/ to = NewCall("start", cur) /\ phase = "fetch"
         \/ to = NewCall(outcome, cur) /\ phase = "report"
         \/ \E j \in Job : todo[j] # "none" /\ to = NewCall(todo[j], j)
  PROVE  EventsFrom
<1>1. ASSUME NEW c \in Client PROVE CallFrom(c)
  <2>1. call'[c] = IF c = d THEN to ELSE call[c]
    BY DEF Shape, TypeOK
  <2>2. CASE c = d
    BY <2>1, <2>2 DEF CallFrom, Waiting, NoCall, NewCall
  <2>3. CASE c # d
    BY <2>1, <2>3 DEF CallFrom, Waiting
  <2> QED
    BY <2>2, <2>3
<1>2. ASSUME NEW a \in adrift' PROVE AdriftFrom(a)
  BY DEF AdriftFrom
<1> QED
  BY <1>1, <1>2 DEF EventsFrom

LEMMA StageEvents ==
  ASSUME Shape, NEW d \in Client, Waiting(d), NEW stage,
         call' = [call EXCEPT ![d].stage = stage],
         UNCHANGED <<outbox, todo>>, \A a \in adrift' : AdriftFrom(a)
  PROVE  EventsFrom
<1>1. ASSUME NEW c \in Client PROVE CallFrom(c)
  <2>1. call'[c].req = call[c].req /\ (c # d => call'[c] = call[c])
    BY DEF Shape, TypeOK
  <2> QED
    BY <2>1 DEF CallFrom, Waiting
<1> QED
  BY <1>1 DEF EventsFrom, FileFrom, ListFrom

LEMMA LoopEvents ==
  ASSUME Shape, Loop
  PROVE  EventsFrom
<1> USE DEF FileFrom, ListFrom
<1>1. CASE \/ Poll \/ FetchFails \/ WatcherStops \/ \E j \in Job : NextJob(j)
           \/ \E result \in {"ok", "error"} : BackupEnds(result)
  <2>1. UNCHANGED <<outbox, todo, netVars>>
    BY <1>1 DEF Poll, FetchFails, WatcherStops, NextJob, BackupEnds, diskVars
  <2> QED
    BY <2>1, SameEvents
<1>2. CASE FetchOk
  <2>1. call' = [call EXCEPT !["main"] = NewCall("start", cur)]
    BY <1>2 DEF FetchOk, Send, NewCall
  <2> QED
    BY <1>2, <2>1, CallEvents DEF FetchOk, diskVars, Client
<1>3. CASE Enqueue \/ EnqueueFails
  <2>1. call' = [call EXCEPT !["main"] = NewCall(outcome, cur)] /\ phase = "report"
    BY <1>3 DEF Enqueue, EnqueueFails, Send, NewCall
  <2>2. \A j \in Job : FileFrom(j) /\ ListFrom(j)
    BY <1>3 DEF Enqueue, EnqueueFails, diskVars, Shape, TypeOK
  <2> QED
    BY <1>3, <2>1, <2>2, CallEvents DEF Enqueue, EnqueueFails, Client
<1>4. CASE StartConfirmed \/ StartRefused \/ DirectDelivered
  <2>1. call' = [call EXCEPT !["main"] = NoCall] /\ UNCHANGED <<outbox, todo, adrift>>
    BY <1>4 DEF StartConfirmed, StartRefused, DirectDelivered, HangUp, NoCall, diskVars
  <2> QED
    BY <2>1, CallEvents DEF Client
<1> QED
  BY <1>1, <1>2, <1>3, <1>4 DEF Loop

LEMMA NetworkEvents ==
  ASSUME Shape, Network
  PROVE  EventsFrom
<1>1. ASSUME NEW c \in Client, Serve(c) \/ Register(c) PROVE EventsFrom
  <2>1. PICK stage : call' = [call EXCEPT ![c].stage = stage]
    BY <1>1 DEF Serve, Register
  <2>2. Waiting(c) /\ UNCHANGED <<outbox, todo, adrift>>
    BY <1>1 DEF Serve, Register, Waiting, diskVars
  <2> QED
    BY <2>1, <2>2, StageEvents DEF AdriftFrom
<1>2. ASSUME NEW c \in Client, GiveUp(c) PROVE EventsFrom
  <2>1. Waiting(c) /\ UNCHANGED <<outbox, todo>> /\ call' = [call EXCEPT ![c].stage = "error"]
    BY <1>2 DEF GiveUp, diskVars
  <2>2. \A a \in adrift' : AdriftFrom(a)
    BY <1>2, AbandonFrom DEF GiveUp
  <2> QED
    BY <2>1, <2>2, StageEvents
<1>3. ASSUME NEW a \in adrift, ServeAdrift(a) \/ RegisterAdrift(a) \/ Vanish(a)
      PROVE  EventsFrom
  <2>1. UNCHANGED <<outbox, todo, call>>
    BY <1>3 DEF ServeAdrift, RegisterAdrift, Vanish, diskVars
  <2>2. ASSUME NEW b \in adrift' PROVE AdriftFrom(b)
    <3>1. a \in [stage : InHand, req : Request]
      BY DEF Shape, TypeOK
    <3>2. b \in adrift \/ b.req = a.req
      BY <1>3, <3>1 DEF ServeAdrift, RegisterAdrift, Vanish
    <3> QED
      BY <3>2 DEF AdriftFrom
  <2> QED
    BY <2>1, <2>2 DEF EventsFrom, FileFrom, ListFrom, CallFrom, Waiting
<1> QED
  BY <1>1, <1>2, <1>3 DEF Network

LEMMA NextEvents ==
  ASSUME Shape, [Next]_vars
  PROVE  EventsFrom
<1> USE DEF FileFrom, ListFrom
<1>1. CASE UNCHANGED vars \/ \E j \in Job : Table(j)
  <2>1. UNCHANGED <<outbox, todo, netVars>>
    BY <1>1, TableSteps DEF vars, TableStep, diskVars, Shape
  <2> QED
    BY <2>1, SameEvents
<1>2. ASSUME NEW i \in Job, DrainSend(i) PROVE EventsFrom
  <2>1. call' = [call EXCEPT !["drain"] = NewCall(todo[i], i)] /\ todo[i] # "none"
    BY <1>2 DEF DrainSend, Listed, Send, NewCall
  <2>2. \A j \in Job : FileFrom(j) /\ ListFrom(j)
    BY <1>2 DEF DrainSend, diskVars, Shape, TypeOK
  <2> QED
    BY <1>2, <2>1, <2>2, CallEvents DEF DrainSend, Client
<1>3. CASE DrainList
  BY <1>3 DEF DrainList, EventsFrom, CallFrom, AdriftFrom, Waiting, diskVars, netVars
<1>4. CASE Crash
  <2>1. \A a \in adrift' : AdriftFrom(a)
    BY <1>4, AbandonFrom DEF Crash
  <2>2. \A c \in Client : ~Waiting(c)'
    BY <1>4 DEF Crash, Waiting
  <2>3. \A j \in Job : todo'[j] = "none"
    BY <1>4 DEF Crash
  <2> QED
    BY <1>4, <2>1, <2>2, <2>3 DEF Crash, EventsFrom, CallFrom, diskVars
<1>5. ASSUME NEW c \in Client, Delivered(c) \/ KeepForLater(c) PROVE EventsFrom
  <2>1. call' = [call EXCEPT ![c] = NoCall] /\ UNCHANGED <<todo, adrift>>
    BY <1>5 DEF Delivered, KeepForLater, Finish, HangUp, NoCall
  <2>2. \A j \in Job : FileFrom(j) /\ ListFrom(j)
    BY <1>5, <2>1 DEF Delivered, KeepForLater, Ack, diskVars, Shape, TypeOK
  <2> QED
    BY <2>1, <2>2, CallEvents
<1>6. CASE Loop
  BY <1>6, LoopEvents
<1>7. CASE Network
  BY <1>7, NetworkEvents
<1> QED
  BY <1>1, <1>2, <1>3, <1>4, <1>5, <1>6, <1>7 DEF Next

(***************************************************************************)
(* What the poll loop knows.                                               *)
(***************************************************************************)

\* Others than the loop: its call may be answered, but not with a confirmation.
LEMMA QuietLoop ==
  ASSUME Shape, LoopTrue, Later, UNCHANGED <<loopVars, engine>>,
         call'["main"].stage = "ok" => call'["main"] = call["main"]
  PROVE  LoopTrue'
<1> USE DEF Shape, TypeOK, LoopTrue, loopVars
<1>1. phase # "idle" => cur \in Job
  BY DEF LoopShape
<1>2. \A j \in batch' : status'[j] # "none"
  BY DEF Later
<1>3. (phase # "idle" => status[cur] # "none")' /\ (phase = "backup" => engine[cur] = "started")'
  BY <1>1 DEF Later
<1>4. (killed => cur \in cancelReq)'
  BY DEF Later
<1>5. (cur \in GuardedJob /\ phase = "start" /\ call["main"].stage = "ok" =>
         engine[cur] = "never" /\ status[cur] \notin {"none", "pending"})'
  BY <1>1 DEF Later, Started
<1>6. (phase = "report" => EventTrue(outcome, cur))'
  BY <1>1 DEF Later, EventTrue, SaysTrue
<1> QED
  BY <1>2, <1>3, <1>4, <1>5, <1>6

LEMMA IdleLoop ==
  ASSUME Shape, LoopTrue, Later, JobDone, batch' \subseteq batch
  PROVE  LoopTrue'
BY DEF Shape, TypeOK, LoopTrue, Later, JobDone

LEMMA ServeMainLoop ==
  ASSUME Shape, Truth, Later, Serve("main")
  PROVE  LoopTrue'
<1>1. PICK stage \in {"register"} \union Answered :
        Handle(call["main"].req, stage) /\ call' = [call EXCEPT !["main"].stage = stage]
  BY DEF Serve
<1>2. call'["main"].stage = stage /\ call["main"].stage = "sent"
  BY <1>1 DEF Serve, Shape, TypeOK, Client
<1>3. UNCHANGED <<loopVars, engine>>
  BY DEF Serve
<1>4. CASE phase = "start" /\ stage = "ok"
  <2>1. call["main"].req.kind = "start" /\ call["main"].req.job = cur /\ cur \in Job
    BY <1>4 DEF Shape, LoopShape
  <2>2. status[cur] = "pending" /\ status' = [status EXCEPT ![cur] = "running"]
    BY <1>1, <1>4, <2>1 DEF Handle, AgentAuth, AdmitStart, Guarded, Kind
  <2>3. (cur \in GuardedJob => engine[cur] = "never") /\ status'[cur] = "running"
    BY <2>1, <2>2 DEF Truth, StartedOf, Shape, TypeOK
  <2>4. \A j \in batch : status'[j] # "none"
    BY DEF Truth, LoopTrue, Later, Shape, TypeOK
  <2>5. killed => cur \in cancelReq
    BY DEF Truth, LoopTrue
  <2> QED
    BY <1>3, <1>4, <2>1, <2>3, <2>4, <2>5 DEF LoopTrue, loopVars, Serve
<1>5. CASE ~(phase = "start" /\ stage = "ok")
  <2>1. CASE stage # "ok"
    BY <1>2, <1>3, <2>1, QuietLoop DEF Truth
  <2>2. CASE phase # "start"
    BY <1>3, <2>2 DEF LoopTrue, Truth, loopVars, Later, Shape, TypeOK, LoopShape, EventTrue,
             SaysTrue
  <2> QED
    BY <1>5, <2>1, <2>2
<1> QED
  BY <1>4, <1>5

\* A handler that registers a snapshot answers a report, not a start.
LEMMA RegisterMainLoop ==
  ASSUME Shape, Truth, RegisterAlone, Later, Register("main")
  PROVE  LoopTrue'
<1>1. call["main"].req.kind = "complete" /\ Waiting("main")
  BY DEF Register, RegisterAlone, MayRegister, Client, Waiting
<1>2. phase # "start"
  BY <1>1 DEF Shape, LoopShape
<1>3. UNCHANGED <<loopVars, engine>>
  BY DEF Register
<1> QED
  BY <1>2, <1>3 DEF LoopTrue, Truth, loopVars, Later, Shape, TypeOK, LoopShape, EventTrue,
             SaysTrue

LEMMA LoopLoop ==
  ASSUME Shape, Shape', Truth, Later, Loop
  PROVE  LoopTrue'
<1> USE DEF Shape, TypeOK, LoopTrue, Truth
<1>0. (phase # "idle" => cur \in Job) /\ (phase = "report" => outcome \in Kind)
  BY DEF LoopShape
<1>1. CASE Poll
  <2>1. \A j \in batch' : status'[j] # "none"
    BY <1>1 DEF Poll, dbVars
  <2> QED
    BY <1>1, <2>1 DEF Poll, dbVars, netVars
<1>2. ASSUME NEW j \in Job, NextJob(j) PROVE LoopTrue'
  <2>1. ~killed
    BY <1>2 DEF NextJob, LoopShape
  <2> QED
    BY <1>2, <2>1 DEF NextJob, dbVars
<1>3. CASE FetchFails
  <2>1. EventTrue("fail", cur)'
    BY <1>3 DEF FetchFails, EventTrue, SaysTrue, dbVars
  <2> QED
    BY <1>3, <2>1 DEF FetchFails, Decide, dbVars
<1>4. CASE FetchOk
  <2>1. call'["main"].stage = "sent"
    BY <1>4 DEF FetchOk, Send, Client
  <2> QED
    BY <1>4, <2>1 DEF FetchOk, dbVars
<1>5. CASE StartConfirmed
  <2>1. engine'[cur] = "started"
    BY <1>0, <1>5 DEF StartConfirmed
  <2> QED
    BY <1>5, <2>1 DEF StartConfirmed, dbVars
<1>6. CASE WatcherStops
  BY <1>6 DEF WatcherStops, dbVars
<1>7. ASSUME NEW result \in {"ok", "error"}, BackupEnds(result) PROVE LoopTrue'
  <2>1. engine'[cur] = result /\ UNCHANGED dbVars
    BY <1>0, <1>7 DEF BackupEnds
  <2>2. phase' = "report" /\ UNCHANGED <<batch, cur, killed>>
    BY <1>7 DEF BackupEnds, Decide
  <2>3. EventTrue(outcome, cur)'
    BY <1>7, <2>1, <2>2 DEF BackupEnds, Decide, EventTrue, SaysTrue, dbVars
  <2> QED
    BY <2>1, <2>2, <2>3, <1>7 DEF BackupEnds, dbVars
<1>8. CASE StartRefused \/ DirectDelivered
  BY <1>8, IdleLoop DEF StartRefused, DirectDelivered
<1>9. CASE Enqueue \/ EnqueueFails
  <2>1. phase' \in {"deliver", "direct"} /\ UNCHANGED <<dbVars, batch, cur, killed>>
    BY <1>9 DEF Enqueue, EnqueueFails
  <2> QED
    BY <1>9, <2>1 DEF Enqueue, EnqueueFails, dbVars
<1> QED
  BY <1>1, <1>2, <1>3, <1>4, <1>5, <1>6, <1>7, <1>8, <1>9 DEF Loop

LEMMA NextLoop ==
  ASSUME Shape, Shape', Truth, RegisterAlone, Later, [Next]_vars
  PROVE  LoopTrue'
<1> USE DEF Truth
<1>1. CASE \/ UNCHANGED vars \/ DrainList
           \/ \E j \in Job : Table(j)
           \/ \E a \in adrift : ServeAdrift(a) \/ RegisterAdrift(a) \/ Vanish(a)
  <2>1. UNCHANGED <<loopVars, engine, call>>
    BY <1>1, TableSteps
    DEF vars, DrainList, netVars, TableStep, ServeAdrift, RegisterAdrift, Vanish, Shape
  <2> QED
    BY <2>1, QuietLoop
<1>2. ASSUME NEW j \in Job, DrainSend(j) PROVE LoopTrue'
  <2>1. call'["main"] = call["main"] /\ UNCHANGED <<loopVars, engine>>
    BY <1>2 DEF DrainSend, Send, Shape, TypeOK, Client
  <2> QED
    BY <2>1, QuietLoop
<1>3. CASE Loop
  BY <1>3, LoopLoop
<1>4. CASE Serve("main")
  BY <1>4, ServeMainLoop
<1>5. CASE Register("main")
  BY <1>5, RegisterMainLoop
<1>6. CASE \/ Serve("drain") \/ Register("drain") \/ Delivered("drain") \/ KeepForLater("drain")
           \/ \E c \in Client : GiveUp(c)
  <2>1. UNCHANGED <<loopVars, engine>>
    BY <1>6 DEF Serve, Register, Delivered, KeepForLater, Finish, GiveUp
  <2>2. call'["main"].stage = "ok" => call'["main"] = call["main"]
    BY <1>6 DEF Serve, Register, Delivered, KeepForLater, Finish, HangUp, GiveUp, Shape, TypeOK, Client
  <2> QED
    BY <2>1, <2>2, QuietLoop
<1>7. CASE Crash \/ Delivered("main") \/ KeepForLater("main")
  <2>1. JobDone /\ batch' \subseteq batch
    BY <1>7 DEF Crash, Delivered, KeepForLater, Finish
  <2> QED
    BY <2>1, IdleLoop
<1> QED
  BY <1>1, <1>2, <1>3, <1>4, <1>5, <1>6, <1>7 DEF Next, Network, Client

LEMMA NextTruth ==
  ASSUME Shape, Shape', Truth, RegisterAlone, [Next]_vars
  PROVE  Truth' /\ Later
<1>1. Later /\ RecordedFrom
  BY NextLater
<1>2. EventsTrue' /\ LoopTrue'
  BY <1>1, NextEvents, EventsFromTrue, NextLoop
<1>3. RecordedIsTrue'
  BY <1>1, GuardedJobs DEF RecordedIsTrue, Truth, Later, RecordedFrom, EventTrue, SaysTrue
<1>4. ASSUME NEW j \in GuardedJob PROVE StartedOf(j)'
  <2>1. CASE engine' = engine
    BY <1>1, <2>1 DEF Truth, StartedOf, Later, Started
  <2>2. CASE StartConfirmed
    <3>1. /\ engine' = [engine EXCEPT ![cur] = "started"]
          /\ cur \in GuardedJob => Started(cur)
      BY <2>2 DEF StartConfirmed, Truth, LoopTrue, Started
    <3> QED
      BY <1>1, <3>1, GuardedJobs DEF Truth, StartedOf, Later, Started, Shape, TypeOK
  <2>3. ASSUME NEW result \in {"ok", "error"}, BackupEnds(result) PROVE StartedOf(j)'
    <3>1. engine' = [engine EXCEPT ![cur] = result] /\ engine[cur] = "started"
      BY <2>3 DEF BackupEnds, Truth, LoopTrue
    <3> QED
      BY <1>1, <3>1, GuardedJobs DEF Truth, StartedOf, Later, Started, Shape, TypeOK
  <2>4. engine' = engine \/ StartConfirmed \/ \E result \in {"ok", "error"} : BackupEnds(result)
    BY TableSteps
    DEF Next, vars, TableStep, Shape, DrainSend, Loop, Poll, FetchFails, FetchOk,
           StartRefused, WatcherStops, Enqueue, EnqueueFails,
           DirectDelivered, NextJob, Network, Serve, Register, GiveUp, ServeAdrift,
           RegisterAdrift, Vanish, DrainList, Crash, Delivered, KeepForLater, Finish
  <2> QED
    BY <2>1, <2>2, <2>3, <2>4
<1> QED
  BY <1>1, <1>2, <1>3, <1>4 DEF Truth

(***************************************************************************)
(* Answers.                                                                *)
(***************************************************************************)

LEMMA HandleAnswer ==
  ASSUME Shape, NEW q \in Request, EventTrue(q.kind, q.job),
         q.job \in GuardedJob => StartedOf(q.job),
         NEW stage \in {"register"} \union Answered, Handle(q, stage)
  PROVE  /\ q.job \in GuardedJob /\ stage \in {"ok", "rejected"} /\ q.kind \in Kind
                => Closed(q.job)'
         /\ stage = "register" => /\ q.kind = "complete" /\ status[q.job] = "running"
                                  /\ status'[q.job] = "success"
<1>1. q.job \in Job /\ q.kind \in Kind \union {"start"}
  BY DEF Request
<1>2. /\ status[q.job] \in {"pending", "running", "deleted"} \union Terminal
      /\ q.job \in GuardedJob /\ q.kind \in {"complete", "cancelled"} => status[q.job] # "pending"
  BY <1>1 DEF EventTrue, SaysTrue, StartedOf, Shape, TypeOK
<1>3. CASE AgentAuth(stage)
  BY <1>3 DEF AgentAuth
<1>4. CASE q.kind = "start" /\ AdmitStart(q.job, stage)
  BY <1>4 DEF AdmitStart, Guarded, Kind
<1>5. CASE q.kind = "complete" /\ CompleteJob(q.job, stage)
  BY <1>1, <1>2, <1>5 DEF CompleteJob, Guarded, Closed, Shape, TypeOK
<1>6. CASE q.kind = "fail" /\ FailJob(q.job, stage)
  BY <1>1, <1>2, <1>6 DEF FailJob, Guarded, Closed, Terminal, Shape, TypeOK
<1>7. CASE q.kind = "cancelled" /\ CancelJob(q.job, stage)
  BY <1>1, <1>2, <1>7 DEF CancelJob, Guarded, Closed, Terminal, Shape, TypeOK
<1> QED
  BY <1>3, <1>4, <1>5, <1>6, <1>7 DEF Handle

\* The facts HandleAnswer needs, of the request of a client.
LEMMA ServeAnswer ==
  ASSUME Shape, Truth, NEW c \in Client, Serve(c), NEW q, q = call[c].req
  PROVE  \E stage \in {"register"} \union Answered :
           /\ call' = [call EXCEPT ![c].stage = stage]
           /\ q.job \in GuardedJob /\ stage \in {"ok", "rejected"} /\ q.kind \in Kind
                => Closed(q.job)'
           /\ stage = "register" => /\ q.kind = "complete" /\ status[q.job] = "running"
                                    /\ status'[q.job] = "success"
<1>1. PICK stage \in {"register"} \union Answered :
        Handle(q, stage) /\ call' = [call EXCEPT ![c].stage = stage]
  BY DEF Serve
<1>2. q \in Request /\ EventTrue(q.kind, q.job)
  BY DEF Serve, Waiting, Shape, CallShape, Truth, EventsTrue
<1>3. q.job \in GuardedJob => StartedOf(q.job)
  BY DEF Truth
<1>4. /\ q.job \in GuardedJob /\ stage \in {"ok", "rejected"} /\ q.kind \in Kind
                => Closed(q.job)'
      /\ stage = "register" => /\ q.kind = "complete" /\ status[q.job] = "running"
                               /\ status'[q.job] = "success"
  BY <1>1, <1>2, <1>3, HandleAnswer
<1> QED
  BY <1>1, <1>4

LEMMA NextAnswer ==
  ASSUME Shape, Truth, RegisterAlone, AnswerTrue, Later, [Next]_vars
  PROVE  AnswerTrue'
<1> DEFINE Confirmed(c) ==
         /\ call[c].req.job \in GuardedJob
         /\ call[c].stage \in {"ok", "rejected"} /\ call[c].req.kind \in Kind
<1>1. ASSUME NEW c \in Client, call'[c] = call[c], Confirmed(c) PROVE Closed(call[c].req.job)'
  <2>1. call[c].req.job \in Job
    BY <1>1 DEF Shape, CallShape, Waiting, Request
  <2> QED
    BY <1>1, <2>1 DEF AnswerTrue, Later
<1>2. ASSUME NEW d \in Client, Serve(d) \/ Register(d) PROVE AnswerTrue'
  <2>0. PICK q : q = call[d].req
    OBVIOUS
  <2>1. PICK stage \in {"register"} \union Answered :
          /\ call' = [call EXCEPT ![d].stage = stage]
          /\ q.job \in GuardedJob /\ stage \in {"ok", "rejected"} /\ q.kind \in Kind
                => Closed(q.job)'
    <3>1. CASE Serve(d)
      BY <2>0, <3>1, ServeAnswer
    <3>2. CASE Register(d)
      <4>1. q.job \in GuardedJob => status[q.job] \in {"success", "deleted"}
        BY <2>0, <3>2 DEF Register, RegisterAlone, MayRegister
      <4>2. q.job \in GuardedJob => Closed(q.job)'
        BY <4>1 DEF Later, Closed, Terminal
      <4> QED
        BY <3>2, <4>2 DEF Register, Answered
    <3> QED
      BY <1>2, <3>1, <3>2
  <2>2. ASSUME NEW c \in Client PROVE (Confirmed(c) => Closed(call[c].req.job))'
    <3>1. CASE c = d
      <4>1. call'[c].stage = stage /\ call'[c].req = q
        BY <2>0, <2>1, <3>1 DEF Shape, TypeOK
      <4> QED
        BY <2>1, <3>1, <4>1 DEF Closed
    <3>2. CASE c # d
      <4>1. call'[c] = call[c]
        BY <2>1, <3>2 DEF Shape, TypeOK
      <4> QED
        BY <1>1, <4>1 DEF Closed
    <3> QED
      BY <3>1, <3>2
  <2> QED
    BY <2>2 DEF AnswerTrue
<1>3. CASE \A c \in Client : call'[c] = call[c] \/ call'[c].stage \notin {"ok", "rejected"}
  <2>1. ASSUME NEW c \in Client PROVE (Confirmed(c) => Closed(call[c].req.job))'
    BY <1>1, <1>3 DEF Closed
  <2> QED
    BY <2>1 DEF AnswerTrue
<1>4. CASE UNCHANGED call
  BY <1>3, <1>4
<1>5. ASSUME NEW d \in Client, NEW to, to.stage \notin {"ok", "rejected"},
             call' = [call EXCEPT ![d] = to]
      PROVE  AnswerTrue'
  <2>1. \A c \in Client : call'[c] = IF c = d THEN to ELSE call[c]
    BY <1>5 DEF Shape, TypeOK
  <2> QED
    BY <1>3, <1>5, <2>1
<1>6. ASSUME NEW d \in Client, HangUp(d) PROVE AnswerTrue'
  BY <1>5, <1>6 DEF HangUp
<1>7. ASSUME NEW d \in Client, NEW kind, NEW j, Send(d, kind, j) PROVE AnswerTrue'
  BY <1>5, <1>7 DEF Send
<1>8. CASE \/ UNCHANGED vars \/ DrainList
           \/ \E j \in Job : Table(j)
           \/ \E a \in adrift : ServeAdrift(a) \/ RegisterAdrift(a) \/ Vanish(a)
           \/ Poll \/ FetchFails \/ WatcherStops \/ \E j \in Job : NextJob(j)
           \/ \E result \in {"ok", "error"} : BackupEnds(result)
  BY <1>4, <1>8, TableSteps
  DEF vars, DrainList, netVars, TableStep, Shape,
      ServeAdrift, RegisterAdrift, Vanish, Poll, FetchFails, WatcherStops, NextJob, BackupEnds
<1>9. CASE FetchOk \/ Enqueue \/ EnqueueFails \/ \E j \in Job : DrainSend(j)
  BY <1>7, <1>9 DEF FetchOk, Enqueue, EnqueueFails, DrainSend, Client
<1>10. CASE StartConfirmed \/ StartRefused \/ DirectDelivered
            \/ \E c \in Client : Delivered(c) \/ KeepForLater(c)
  BY <1>6, <1>10
  DEF StartConfirmed, StartRefused, DirectDelivered, Delivered, KeepForLater, Finish, Client
<1>11. CASE Crash
  BY <1>3, <1>11 DEF Crash
<1>12. ASSUME NEW c \in Client, GiveUp(c) PROVE AnswerTrue'
  <2>1. \A d \in Client : call'[d] = call[d] \/ call'[d].stage = "error"
    BY <1>12 DEF GiveUp, Shape, TypeOK
  <2> QED
    BY <1>3, <2>1
<1> QED
  BY <1>2, <1>8, <1>9, <1>10, <1>11, <1>12 DEF Next, Loop, Network

(***************************************************************************)
(* Snapshots.                                                              *)
(***************************************************************************)

\* A handler's request names a job, and its status and snapshots only settle.
LEMMA MayRegisterStays ==
  ASSUME Later, NEW x, x.req.job \in Job, MayRegister(x),
         x.stage = "register" /\ x.req.job \in GuardedJob =>
           snaps'[x.req.job] \in {0, snaps[x.req.job]}
  PROVE  MayRegister(x)'
BY DEF Later, MayRegister

LEMMA CallJob ==
  ASSUME Shape, NEW c \in Client, call[c].stage = "register"
  PROVE  call[c].req.job \in Job
BY DEF Shape, CallShape, Waiting, Request

\* Handlers lose their clients, or end, and none comes to the registration; snapshots
\* may be deleted.
LEMMA QuietRegister ==
  ASSUME Shape, Registered, Later, NEW C \in SUBSET Client,
         \A j \in GuardedJob : snaps'[j] \in {0, snaps[j]},
         \A c \in Client : call'[c].stage = "register" => call'[c] = call[c] /\ c \notin C,
         \A a \in adrift' : a \in adrift \/ \E c \in C : a = call[c]
  PROVE  Registered'
<1> USE DEF Registered, RegisterAlone
<1>1. OneSnapshotPerSuccess'
  <2> SUFFICES ASSUME NEW j \in GuardedJob
               PROVE  (snaps[j] <= 1 /\ (snaps[j] = 1 => status[j] = "success"))'
    BY DEF OneSnapshotPerSuccess
  <2>1. snaps[j] \in Nat /\ snaps'[j] \in {0, snaps[j]}
    BY GuardedJobs DEF Shape, TypeOK
  <2> QED
    BY <2>1 DEF OneSnapshotPerSuccess, Later
<1>2. ASSUME NEW c \in Client PROVE MayRegister(call[c])'
  <2>1. CASE call'[c].stage = "register"
    <3>1. call'[c] = call[c] /\ call[c].req.job \in Job
      BY <2>1, CallJob
    <3> QED
      BY <3>1 DEF MayRegister, Later
  <2>2. CASE call'[c].stage # "register"
    BY <2>2 DEF MayRegister
  <2> QED
    BY <2>1, <2>2
<1>3. ASSUME NEW a \in adrift' PROVE MayRegister(a)'
  <2>1. CASE a.stage = "register"
    <3>1. a.req.job \in Job
      BY <2>1, CallJob DEF Shape, TypeOK, Request
    <3> QED
      BY <3>1, MayRegisterStays
  <2>2. CASE a.stage # "register"
    BY <2>2 DEF MayRegister
  <2> QED
    BY <2>1, <2>2
<1>4. ASSUME NEW j \in GuardedJob
      PROVE  ~(Registering(call'["main"], j) /\ Registering(call'["drain"], j))
  BY DEF Registering, Client
<1>5. ASSUME NEW j \in GuardedJob, NEW c \in Client, NEW a \in adrift',
             Registering(call'[c], j), Registering(a, j)
      PROVE  FALSE
  <2>1. call'[c] = call[c] /\ c \notin C
    BY <1>5 DEF Registering
  <2>2. CASE a \in adrift
    BY <1>5, <2>1, <2>2
  <2>3. ASSUME NEW d \in C, a = call[d] PROVE FALSE
    <3>1. {c, d} = {"main", "drain"} /\ Registering(call[c], j) /\ Registering(call[d], j)
      BY <1>5, <2>1, <2>3 DEF Client
    <3>2. Registering(call["main"], j) /\ Registering(call["drain"], j)
      BY <3>1
    <3> QED
      BY <3>2
  <2> QED
    BY <2>2, <2>3
<1> QED
  BY <1>1, <1>2, <1>3, <1>4, <1>5 DEF Registering

\* A report of success is accepted: nobody else registers a snapshot for the job.
LEMMA NobodyRegisters ==
  ASSUME Shape, Registered, NEW j \in GuardedJob, status[j] = "running"
  PROVE  /\ snaps[j] = 0
         /\ \A c \in Client : ~Registering(call[c], j)
         /\ \A a \in adrift : ~Registering(a, j)
<1>1. snaps[j] = 0
  BY GuardedJobs DEF Registered, OneSnapshotPerSuccess, Shape, TypeOK
<1> QED
  BY <1>1 DEF Registered, RegisterAlone, MayRegister, Registering

LEMMA ServeRegister ==
  ASSUME Shape, Truth, Registered, Later, NEW d \in Client, Serve(d)
  PROVE  Registered'
<1> DEFINE q == call[d].req
<1>1. PICK stage \in {"register"} \union Answered :
         /\ call' = [call EXCEPT ![d].stage = stage]
         /\ stage = "register" => /\ q.kind = "complete" /\ status[q.job] = "running"
                                  /\ status'[q.job] = "success"
  <2>1. PICK r : r = q
    OBVIOUS
  <2> QED
    BY <2>1, ServeAnswer
<1>2. /\ \A c \in Client \ {d} : call'[c] = call[c]
      /\ call'[d].stage = stage /\ call'[d].req = q
  BY <1>1 DEF Shape, TypeOK
<1>3. UNCHANGED <<snaps, adrift>>
  BY DEF Serve
<1>4. CASE stage # "register"
  <2>1. {} \in SUBSET Client /\ \A a \in adrift' : a \in adrift
    BY <1>3
  <2>2. \A c \in Client : call'[c].stage = "register" => call'[c] = call[c]
    BY <1>2, <1>4
  <2> QED
    BY <1>3, <2>1, <2>2, QuietRegister
<1>5. CASE stage = "register"
  <2> USE DEF Registered, RegisterAlone
  <2>0. q.job \in Job
    BY DEF Serve, Waiting, Shape, CallShape, Request
  <2>1. q.job \in GuardedJob =>
          /\ snaps[q.job] = 0
          /\ \A c \in Client : ~Registering(call[c], q.job)
          /\ \A a \in adrift : ~Registering(a, q.job)
    BY <1>1, <1>5, <2>0, NobodyRegisters
  <2>2. OneSnapshotPerSuccess'
    BY <1>3 DEF OneSnapshotPerSuccess, Later
  <2>3. MayRegister(call[d])'
    BY <1>1, <1>2, <1>3, <1>5, <2>1 DEF MayRegister
  <2>4. ASSUME NEW c \in Client, c # d PROVE MayRegister(call[c])'
    <3>1. call'[c] = call[c]
      BY <1>2, <2>4
    <3>2. call[c].stage = "register" => call[c].req.job \in Job
      BY CallJob
    <3> QED
      BY <1>3, <3>1, <3>2 DEF MayRegister, Later
  <2>5. ASSUME NEW a \in adrift' PROVE MayRegister(a)'
    <3>1. a \in adrift /\ a.req.job \in Job
      BY <1>3 DEF Shape, TypeOK, Request
    <3> QED
      BY <1>3, <3>1, MayRegisterStays
  <2>6. ASSUME NEW j \in GuardedJob
        PROVE  /\ ~(Registering(call["main"], j) /\ Registering(call["drain"], j))'
               /\ \A c \in Client, a \in adrift :
                    ~(Registering(call[c], j) /\ Registering(a, j))'
    <3>1. CASE j = q.job
      <4>1. \A c \in Client \ {d} : ~Registering(call'[c], j)
        BY <1>2, <2>1, <3>1
      <4> QED
        BY <1>3, <2>1, <3>1, <4>1 DEF Client, Registering
    <3>2. CASE j # q.job
      <4>1. \A c \in Client : Registering(call'[c], j) => Registering(call[c], j)
        BY <1>2, <3>2 DEF Registering
      <4> QED
        BY <1>3, <4>1 DEF Client, Registering
    <3> QED
      BY <3>1, <3>2
  <2>7. \A c \in Client : MayRegister(call[c])'
    BY <2>3, <2>4
  <2> QED
    BY <1>3, <2>2, <2>5, <2>6, <2>7 DEF Registering
<1> QED
  BY <1>4, <1>5

LEMMA ServeAdriftRegister ==
  ASSUME Shape, Truth, Registered, Later, NEW a \in adrift, ServeAdrift(a)
  PROVE  Registered'
<1> USE DEF Registered, RegisterAlone
<1>0. a.req \in Request /\ a.req.job \in Job /\ UNCHANGED <<snaps, call>>
  BY DEF ServeAdrift, Shape, TypeOK, Request
<1>1. PICK stage \in {"register"} \union Answered :
        /\ Handle(a.req, stage)
        /\ adrift' = (adrift \ {a}) \union
                     {b \in {[a EXCEPT !.stage = stage]} : b.stage \in InHand}
  BY DEF ServeAdrift
<1>2. stage = "register" => /\ a.req.kind = "complete" /\ status[a.req.job] = "running"
                            /\ status'[a.req.job] = "success"
  <2>1. /\ EventTrue(a.req.kind, a.req.job)
        /\ a.req.job \in GuardedJob => StartedOf(a.req.job)
    BY <1>0 DEF Truth, EventsTrue
  <2> QED
    BY <1>0, <1>1, <2>1, HandleAnswer
<1>3. ASSUME NEW b \in adrift', b \notin adrift
      PROVE  b.stage = stage /\ b.req = a.req /\ stage \in InHand
  <2>1. a \in [stage : InHand, req : Request]
    BY DEF Shape, TypeOK
  <2> QED
    BY <1>1, <1>3, <2>1
<1>4. OneSnapshotPerSuccess'
  BY <1>0 DEF OneSnapshotPerSuccess, Later
<1>5. ASSUME NEW c \in Client PROVE MayRegister(call[c])'
  <2>1. call[c].stage = "register" => call[c].req.job \in Job
    BY CallJob
  <2> QED
    BY <1>0, <2>1 DEF MayRegister, Later
<1>6. stage = "register" /\ a.req.job \in GuardedJob =>
        /\ snaps[a.req.job] = 0
        /\ \A c \in Client : ~Registering(call[c], a.req.job)
  BY <1>0, <1>2, NobodyRegisters
<1>7. ASSUME NEW b \in adrift' PROVE MayRegister(b)'
  <2>1. CASE b \in adrift
    <3>1. b.req.job \in Job
      BY <2>1 DEF Shape, TypeOK, Request
    <3> QED
      BY <1>0, <2>1, <3>1, MayRegisterStays
  <2>2. CASE b \notin adrift
    BY <1>0, <1>2, <1>3, <1>6, <2>2 DEF MayRegister
  <2> QED
    BY <2>1, <2>2
<1>8. ASSUME NEW j \in GuardedJob, NEW c \in Client, NEW b \in adrift'
      PROVE  ~(Registering(call[c], j) /\ Registering(b, j))
  <2>1. CASE b \in adrift
    BY <2>1
  <2>2. CASE b \notin adrift
    BY <1>3, <1>6, <2>2 DEF Registering
  <2> QED
    BY <2>1, <2>2
<1> QED
  BY <1>0, <1>4, <1>5, <1>7, <1>8 DEF Registering

\* The registration: it is of the job of x, and y is any other handler.
LEMMA SnapshotRegister ==
  ASSUME Shape, Registered, NEW j \in Job,
         j \in GuardedJob => status[j] \in {"success", "deleted"} /\ snaps[j] = 0,
         RegisterSnapshot(j), UNCHANGED status
  PROVE  /\ OneSnapshotPerSuccess'
         /\ \A i \in Job \ {j} : snaps'[i] = snaps[i]
<1>1. CASE UNCHANGED snaps
  BY <1>1 DEF Registered, OneSnapshotPerSuccess
<1>2. CASE status[j] # "deleted" /\ snaps' = [snaps EXCEPT ![j] = @ + 1]
  <2>1. \A i \in Job : snaps'[i] = IF i = j THEN snaps[i] + 1 ELSE snaps[i]
    BY <1>2 DEF Shape, TypeOK
  <2> QED
    BY <1>2, <2>1, GuardedJobs DEF Registered, OneSnapshotPerSuccess
<1> QED
  BY <1>1, <1>2 DEF RegisterSnapshot

LEMMA RegisterRegister ==
  ASSUME Shape, Registered, Later, NEW d \in Client, Register(d)
  PROVE  Registered'
<1> USE DEF Registered, RegisterAlone
<1> DEFINE j == call[d].req.job
<1>1. j \in Job /\ Registering(call[d], j)
  BY CallJob DEF Register, Registering
<1>2. j \in GuardedJob => status[j] \in {"success", "deleted"} /\ snaps[j] = 0
  BY <1>1 DEF MayRegister, Registering
<1>3. OneSnapshotPerSuccess' /\ \A i \in Job \ {j} : snaps'[i] = snaps[i]
  BY <1>1, <1>2, SnapshotRegister DEF Register
<1>4. /\ \A c \in Client \ {d} :
           call'[c] = call[c] /\ (j \in GuardedJob => ~Registering(call[c], j))
      /\ call'[d].stage = "ok" /\ UNCHANGED adrift
  BY <1>1 DEF Register, Shape, TypeOK, Client
<1>5. ASSUME NEW c \in Client PROVE MayRegister(call[c])'
  <2>1. CASE c = d
    BY <1>4, <2>1 DEF MayRegister
  <2>2. CASE c # d
    <3>1. /\ call'[c] = call[c]
          /\ call[c].stage = "register" /\ call[c].req.job \in GuardedJob =>
               call[c].req.job \in Job \ {j}
      BY <1>4, <2>2, CallJob DEF Registering
    <3> QED
      BY <1>3, <3>1 DEF MayRegister, Later
  <2> QED
    BY <2>1, <2>2
<1>6. ASSUME NEW a \in adrift' PROVE MayRegister(a)'
  <2>1. a \in adrift /\ a.req.job \in Job
    BY <1>4 DEF Shape, TypeOK, Request
  <2>2. a.stage = "register" /\ a.req.job \in GuardedJob => a.req.job # j
    BY <1>1, <2>1 DEF Registering
  <2> QED
    BY <1>3, <2>1, <2>2, MayRegisterStays
<1>7. \A i \in GuardedJob, c \in Client : Registering(call'[c], i) => Registering(call[c], i)
  BY <1>4 DEF Registering
<1> QED
  BY <1>3, <1>4, <1>5, <1>6, <1>7 DEF Registering, Client

LEMMA RegisterAdriftRegister ==
  ASSUME Shape, Registered, Later, NEW b \in adrift, RegisterAdrift(b)
  PROVE  Registered'
<1> USE DEF Registered, RegisterAlone
<1> DEFINE j == b.req.job
<1>1. j \in Job /\ b.stage = "register" /\ b.req.kind = "complete"
  BY DEF RegisterAdrift, Shape, TypeOK, Request, MayRegister
<1>2. j \in GuardedJob => status[j] \in {"success", "deleted"} /\ snaps[j] = 0
  BY <1>1 DEF MayRegister
<1>3. OneSnapshotPerSuccess' /\ \A i \in Job \ {j} : snaps'[i] = snaps[i]
  BY <1>1, <1>2, SnapshotRegister DEF RegisterAdrift
<1>4. adrift' = adrift \ {b} /\ UNCHANGED call
  BY DEF RegisterAdrift
<1>5. ASSUME NEW c \in Client PROVE MayRegister(call[c])'
  <2>1. call[c].stage = "register" /\ call[c].req.job \in GuardedJob =>
          call[c].req.job \in Job \ {j}
    BY <1>1, CallJob DEF Registering
  <2> QED
    BY <1>3, <1>4, <2>1 DEF MayRegister, Later
<1>6. ASSUME NEW a \in adrift' PROVE MayRegister(a)'
  <2>1. a \in adrift /\ a # b /\ a.req.job \in Job
    BY <1>4 DEF Shape, TypeOK, Request
  <2>2. ASSUME a.stage = "register", a.req.job = j PROVE FALSE
    <3>1. a.req.kind = "complete"
      BY <2>1, <2>2 DEF MayRegister
    <3>2. a.req = b.req /\ a.stage = b.stage
      <4>1. a.req \in Request /\ b.req \in Request
        BY <2>1 DEF Shape, TypeOK
      <4> QED
        BY <1>1, <2>2, <3>1, <4>1 DEF Request
    <3>3. a = b
      BY <2>1, <3>2 DEF Shape, TypeOK
    <3> QED
      BY <2>1, <3>3
  <2> QED
    BY <1>3, <2>1, <2>2, MayRegisterStays
<1> QED
  BY <1>3, <1>4, <1>5, <1>6 DEF Registering

LEMMA NextRegistered ==
  ASSUME Shape, Truth, Registered, Later, [Next]_vars
  PROVE  Registered'
<1>0. snaps' = snaps => \A j \in GuardedJob : snaps'[j] \in {0, snaps[j]}
  OBVIOUS
<1>1. ASSUME \A j \in GuardedJob : snaps'[j] \in {0, snaps[j]}, adrift' \subseteq adrift,
             \A c \in Client : call'[c].stage = "register" => call'[c] = call[c]
      PROVE  Registered'
  <2>1. {} \in SUBSET Client
    OBVIOUS
  <2> QED
    BY <1>1, <2>1, QuietRegister
<1>a. ASSUME NEW i \in Job, Table(i) PROVE Registered'
  <2>1. TableStep(i)
    BY <1>a, TableSteps DEF Shape
  <2>2. ASSUME NEW j \in GuardedJob PROVE snaps'[j] \in {0, snaps[j]}
    <3>1. snaps[j] \in Nat /\ snaps[j] <= 1
      BY GuardedJobs DEF Registered, OneSnapshotPerSuccess, Shape, TypeOK
    <3>2. snaps'[j] = snaps[j] \/ (snaps[j] > 0 /\ snaps'[j] = snaps[j] - 1)
      BY <2>1, GuardedJobs DEF TableStep, Shape, TypeOK
    <3> QED
      BY <3>1, <3>2
  <2>3. UNCHANGED <<call, adrift>>
    BY <2>1 DEF TableStep, netVars
  <2> QED
    BY <1>1, <2>2, <2>3
<1>2. CASE \/ UNCHANGED vars \/ DrainList
           \/ \E a \in adrift : Vanish(a)
           \/ Poll \/ FetchFails \/ WatcherStops \/ \E j \in Job : NextJob(j)
           \/ \E result \in {"ok", "error"} : BackupEnds(result)
  BY <1>0, <1>1, <1>2
  DEF vars, dbVars, netVars, DrainList, Vanish, Poll, FetchFails, WatcherStops, NextJob,
      BackupEnds
<1>3. ASSUME NEW d \in Client, NEW to, to.stage # "register", call' = [call EXCEPT ![d] = to],
             UNCHANGED <<dbVars, adrift>>
      PROVE  Registered'
  <2>1. \A c \in Client : call'[c] = IF c = d THEN to ELSE call[c]
    BY <1>3 DEF Shape, TypeOK
  <2> QED
    BY <1>0, <1>1, <1>3, <2>1 DEF dbVars
<1>4. CASE FetchOk \/ Enqueue \/ EnqueueFails \/ \E j \in Job : DrainSend(j)
  <2>1. ASSUME NEW d \in Client, NEW kind, NEW j, Send(d, kind, j), UNCHANGED <<dbVars, adrift>>
        PROVE  Registered'
    BY <1>3, <2>1 DEF Send
  <2> QED
    BY <1>4, <2>1 DEF FetchOk, Enqueue, EnqueueFails, DrainSend, Client
<1>5. CASE StartConfirmed \/ StartRefused \/ DirectDelivered
           \/ \E c \in Client : Delivered(c) \/ KeepForLater(c)
  <2>1. ASSUME NEW d \in Client, HangUp(d), UNCHANGED <<dbVars, adrift>>
        PROVE  Registered'
    BY <1>3, <2>1 DEF HangUp
  <2> QED
    BY <1>5, <2>1
    DEF StartConfirmed, StartRefused, DirectDelivered, Delivered, KeepForLater, Finish, Client
<1>6. ASSUME NEW d \in Client, GiveUp(d) PROVE Registered'
  <2>1. \A c \in Client : call'[c].stage = "register" => call'[c] = call[c] /\ c \notin {d}
    BY <1>6 DEF GiveUp, Shape, TypeOK
  <2>2. \A a \in adrift' : a \in adrift \/ \E c \in {d} : a = call[c]
    BY <1>6 DEF GiveUp, Abandon
  <2>3. {d} \in SUBSET Client /\ UNCHANGED snaps
    BY <1>6 DEF GiveUp, dbVars
  <2> QED
    BY <1>0, <2>1, <2>2, <2>3, QuietRegister
<1>7. CASE Crash
  <2>1. \A c \in Client : call'[c].stage # "register"
    BY <1>7 DEF Crash
  <2>2. \A a \in adrift' : a \in adrift \/ \E c \in Client : a = call[c]
    BY <1>7 DEF Crash, Abandon
  <2>3. Client \in SUBSET Client /\ UNCHANGED snaps
    BY <1>7 DEF Crash, dbVars
  <2> QED
    BY <1>0, <2>1, <2>2, <2>3, QuietRegister
<1>8. ASSUME NEW c \in Client, Serve(c) PROVE Registered'
  BY <1>8, ServeRegister
<1>9. ASSUME NEW c \in Client, Register(c) PROVE Registered'
  BY <1>9, RegisterRegister
<1>10. ASSUME NEW a \in adrift, ServeAdrift(a) PROVE Registered'
  BY <1>10, ServeAdriftRegister
<1>11. ASSUME NEW a \in adrift, RegisterAdrift(a) PROVE Registered'
  BY <1>11, RegisterAdriftRegister
<1> QED
  BY <1>a, <1>2, <1>4, <1>5, <1>6, <1>7, <1>8, <1>9, <1>10, <1>11 DEF Next, Loop, Network

(***************************************************************************)
(* Outcomes on disk.                                                       *)
(***************************************************************************)

\* The disk is not touched, or loses only the outcome of a job that has ended.
LEMMA DiskKept ==
  ASSUME Shape, Later, Kept, UNCHANGED saved, refused \subseteq refused',
         \A j \in GuardedJob :
           outbox[j] # "none" /\ outbox'[j] = "none" => Closed(j)' \/ j \in refused'
  PROVE  Kept'
<1>1. \A j \in GuardedJob : Open(j)' /\ status[j] # "none" => Open(j) /\ ~Closed(j)'
  BY GuardedJobs DEF Open, Later, Closed, Terminal, Shape, TypeOK
<1> QED
  BY <1>1, GuardedJobs DEF Kept, OutcomeKept, Later, Shape, TypeOK

LEMMA NextKept ==
  ASSUME Shape, Truth, AnswerTrue, Kept, Later, [Next]_vars
  PROVE  Kept'
<1>1. CASE UNCHANGED diskVars
  BY <1>1, DiskKept DEF diskVars
<1>2. CASE Enqueue
  <2>1. /\ cur \in Job /\ outcome # "none" /\ status[cur] # "none"
        /\ outbox' = [outbox EXCEPT ![cur] = outcome] /\ saved' = saved \union {cur}
        /\ refused' = refused \ {cur} /\ status' = status
    BY <1>2 DEF Enqueue, dbVars, Shape, LoopShape, Kind, Truth, LoopTrue
  <2> QED
    BY <2>1, GuardedJobs DEF Kept, OutcomeKept, Open, Shape, TypeOK
<1>3. ASSUME NEW c \in Client, Delivered(c) PROVE Kept'
  <2> DEFINE j == call[c].req.job
  <2>1. Waiting(c) /\ Confirms(c) /\ Ack(c) /\ UNCHANGED status
    BY <1>3 DEF Delivered, Confirms, Waiting, Finish, dbVars
  <2>2. call[c].req.kind \in Kind
    BY <1>3, <2>1 DEF Delivered, Delivering, Client, Calling, Shape, CallShape, LoopShape
  <2>3. call[c].stage # "unauthorized" /\ j \in GuardedJob => Closed(j)
    BY <2>1, <2>2 DEF Confirms, AnswerTrue
  <2>4. /\ outbox' = [outbox EXCEPT ![j] = "none"] /\ UNCHANGED saved
        /\ refused' = IF call[c].stage = "unauthorized" THEN refused \union {j} ELSE refused
    BY <2>1 DEF Ack
  <2>5. \A i \in GuardedJob : outbox[i] # "none" /\ outbox'[i] = "none" => i = j
    BY <2>4, GuardedJobs DEF Shape, TypeOK
  <2>6. \A i \in GuardedJob : Closed(i) => Closed(i)'
    BY <2>1 DEF Closed
  <2> QED
    BY <2>3, <2>4, <2>5, <2>6, DiskKept
<1>4. [Next]_vars => \/ UNCHANGED diskVars \/ Enqueue \/ \E c \in Client : Delivered(c)
  BY TableSteps
  DEF Next, vars, TableStep, Shape, DrainSend,
         Loop, Poll, FetchFails, FetchOk, StartConfirmed, StartRefused, WatcherStops, EnqueueFails,
         DirectDelivered, NextJob, BackupEnds, Network, Serve, Register, GiveUp, ServeAdrift,
         RegisterAdrift, Vanish, DrainList, Crash, KeepForLater
<1> QED
  BY <1>1, <1>2, <1>3, <1>4

(***************************************************************************)
(* The inductive invariant, and what follows from it.                      *)
(***************************************************************************)

LEMMA InitIInv == Init => IInv
<1> SUFFICES ASSUME Init PROVE IInv
  OBVIOUS
<1>1. Shape
  BY InitShape
<1>2. Truth
  BY GuardedJobs DEF Init, Truth, EventsTrue, LoopTrue, RecordedIsTrue, StartedOf, Waiting
<1>3. AnswerTrue /\ Registered
  BY GuardedJobs
  DEF Init, AnswerTrue, Registered, OneSnapshotPerSuccess, RegisterAlone, MayRegister,
      Registering, Client
<1>4. Kept
  BY DEF Init, Kept, OutcomeKept
<1> QED
  BY <1>1, <1>2, <1>3, <1>4 DEF IInv

LEMMA NextIInv == IInv /\ [Next]_vars => IInv'
<1> SUFFICES ASSUME IInv, [Next]_vars PROVE IInv'
  OBVIOUS
<1> USE DEF IInv
<1>1. Shape'
  BY NextShape
<1>2. Truth' /\ Later
  BY <1>1, NextTruth DEF Registered
<1>3. AnswerTrue' /\ Registered' /\ Kept'
  BY <1>2, NextAnswer, NextRegistered, NextKept DEF Registered
<1> QED
  BY <1>1, <1>2, <1>3

\* The invariant of the protocol: what every event says of a guarded job is true wherever
\* it is carried, answers are true, and at most one handler is about to register the job's
\* snapshot.
THEOREM Inductive == Spec => []IInv
BY InitIInv, NextIInv, PTL DEF Spec

\* The catalog never has two snapshots for a guarded job, nor one for a guarded job that is
\* not a success, however often reports are retried and handlers outlive their clients.
THEOREM AtMostOneSnapshot == Spec => []OneSnapshotPerSuccess
<1>1. IInv => OneSnapshotPerSuccess
  BY DEF IInv, Registered
<1> QED
  BY <1>1, Inductive, PTL

\* The recorded success of a guarded job is one that restic reported, its recorded
\* cancellation one that an operator asked for; whatever is written over other jobs.
THEOREM RecordsAreTrue == Spec => []RecordedIsTrue
<1>1. IInv => RecordedIsTrue
  BY DEF IInv, Truth
<1> QED
  BY <1>1, Inductive, PTL

\* The outbox does not forget the outcome of a guarded job before the control plane has
\* one, but for a 401.
THEOREM OutcomesAreKept == Spec => []OutcomeKept
<1>1. IInv => OutcomeKept
  BY DEF IInv, Kept
<1> QED
  BY <1>1, Inductive, PTL

\* A guarded job whose start was confirmed has not been executed before: restic never runs
\* twice for it.  Nothing is said of a job that is set back to pending.
THEOREM NeverExecutedTwice == Spec => ExecutedOnce
<1> DEFINE OnceOf(j) == engine[j] # "never" /\ ~Executing(j) => ~Executing(j)'
<1>1. IInv /\ [Next]_vars => [\A j \in GuardedJob : OnceOf(j)]_vars
  <2> SUFFICES ASSUME IInv, [Next]_vars, NEW j \in GuardedJob, engine[j] # "never", Executing(j)'
               PROVE  Executing(j)
    BY DEF Executing, vars
  <2>1. CASE StartConfirmed
    <3>1. (cur \in GuardedJob => engine[cur] = "never") /\ cur' = cur
      BY <2>1 DEF StartConfirmed, IInv, Truth, LoopTrue
    <3> QED
      BY <3>1 DEF Executing
  <2>2. CASE UNCHANGED <<phase, cur>>
    BY <2>2 DEF Executing
  <2>3. \/ phase' # "backup" \/ StartConfirmed \/ UNCHANGED <<phase, cur>>
    BY TableSteps
    DEF Next, vars, loopVars, TableStep, IInv, Shape,
           DrainSend, Loop, Poll, FetchFails, FetchOk, StartRefused, WatcherStops, Enqueue,
           EnqueueFails, DirectDelivered, NextJob, BackupEnds, Decide, JobDone, Network, Serve,
           Register, GiveUp, ServeAdrift, RegisterAdrift, Vanish, DrainList, Crash, Delivered,
           KeepForLater, Finish, Client
  <2> QED
    BY <2>1, <2>2, <2>3 DEF Executing
<1> QED
  BY <1>1, Inductive, PTL DEF ExecutedOnce, Spec

(***************************************************************************)
(* The promise.  A job's right to run is handed over with the answer to    *)
(* its start; every step is one step of the promise, or none.  The promise *)
(* is about the guarded jobs, and does not see the others.                 *)
(***************************************************************************)

GStatus == [j \in GuardedJob |-> status[j]]
GSnaps  == [j \in GuardedJob |-> snaps[j]]
GCancel == cancelReq \cap GuardedJob
Right   == [j \in GuardedJob |-> IF Granted(j) THEN "granted" ELSE engine[j]]

LEMMA PromiseStutter ==
  ASSUME UNCHANGED <<GStatus, GSnaps, GCancel>>, Right' = Right
  PROVE  UNCHANGED Promise!vars
BY DEF GStatus, GSnaps, GCancel, Right, Promise!vars

\* What the promise sees of a step that writes one job.
LEMMA SameTable ==
  /\ status' = status => GStatus' = GStatus
  /\ snaps' = snaps => GSnaps' = GSnaps
  /\ cancelReq' = cancelReq => GCancel' = GCancel
BY DEF GStatus, GSnaps, GCancel

LEMMA MoveStatus ==
  ASSUME IInv, NEW j \in Job, NEW to, status' = [status EXCEPT ![j] = to]
  PROVE  /\ j \in GuardedJob => GStatus[j] = status[j] /\ GStatus' = [GStatus EXCEPT ![j] = to]
         /\ j \notin GuardedJob => GStatus' = GStatus
BY GuardedJobs DEF GStatus, IInv, Shape, TypeOK

LEMMA MoveSnaps ==
  ASSUME IInv, NEW j \in Job, NEW n, snaps' = [snaps EXCEPT ![j] = n]
  PROVE  /\ j \in GuardedJob => GSnaps[j] = snaps[j] /\ GSnaps' = [GSnaps EXCEPT ![j] = n]
         /\ j \notin GuardedJob => GSnaps' = GSnaps
BY GuardedJobs DEF GSnaps, IInv, Shape, TypeOK

\* The grant is of the job the loop has in hand, which nobody has run.
LEMMA RightFacts ==
  ASSUME IInv
  PROVE  /\ \A j \in GuardedJob : Granted(j) => Right[j] = "granted" /\ engine[j] = "never"
         /\ \A j \in GuardedJob : ~Granted(j) => Right[j] = engine[j]
         /\ \A j \in GuardedJob : status[j] = "pending" => Right[j] = "never"
         /\ engine \in [Job -> {"never", "started", "ok", "error"}]
<1>1. /\ \A j \in GuardedJob : Granted(j) => Right[j] = "granted"
      /\ \A j \in GuardedJob : ~Granted(j) => Right[j] = engine[j]
  BY DEF Right
<1>2. engine \in [Job -> {"never", "started", "ok", "error"}]
  BY DEF IInv, Shape, TypeOK
<1>3. \A j \in GuardedJob :
        Granted(j) => engine[j] = "never" /\ status[j] \notin {"none", "pending"}
  BY DEF Granted, IInv, Truth, LoopTrue
<1>4. \A j \in GuardedJob : status[j] = "pending" => engine[j] = "never"
  BY DEF IInv, Truth, StartedOf
<1> QED
  BY <1>1, <1>2, <1>3, <1>4

\* Most steps neither grant nor take a right.
LEMMA RightStays ==
  ASSUME \A j \in GuardedJob : engine'[j] = engine[j] /\ (Granted(j)' <=> Granted(j))
  PROVE  Right' = Right
BY DEF Right

\* A right that is given up.
LEMMA GrantEnds ==
  ASSUME IInv, UNCHANGED <<dbVars, engine>>,
         phase' # "start" \/ (call["main"].stage)' # "ok"
  PROVE  Promise!Next \/ UNCHANGED Promise!vars
<1>0. (\A j \in GuardedJob : ~Granted(j)') /\ UNCHANGED <<GStatus, GSnaps, GCancel>>
  BY SameTable DEF Granted, dbVars
<1>1. CASE \A j \in GuardedJob : ~Granted(j)
  <2>1. Right' = Right
    BY <1>0, <1>1, RightStays
  <2> QED
    BY <1>0, <2>1, PromiseStutter
<1>2. ASSUME NEW j \in GuardedJob, Granted(j) PROVE Promise!Next
  <2>1. \A i \in GuardedJob : Granted(i) <=> i = j
    BY <1>2 DEF Granted
  <2>2. Right[j] = "granted" /\ engine[j] = "never"
    BY <1>2, RightFacts
  <2>3. Right' = [Right EXCEPT ![j] = "never"]
    BY <1>0, <2>1, <2>2 DEF Right
  <2>4. Promise!Lose(j)
    BY <1>0, <2>2, <2>3 DEF Promise!Lose, Promise!Run, Right, GStatus, GSnaps, GCancel
  <2> QED
    BY <2>4 DEF Promise!Next
<1> QED
  BY <1>1, <1>2

\* What a handler records is what the request says, and that is true of a guarded job.
LEMMA HandlePromise ==
  ASSUME NEW q \in Request, NEW stage, Handle(q, stage), EventTrue(q.kind, q.job)
  PROVE  \/ status' = status /\ (q.kind = "start" => stage # "ok")
         \/ /\ q.kind = "start" /\ stage = "ok" /\ status[q.job] = "pending"
            /\ status' = [status EXCEPT ![q.job] = "running"]
         \/ /\ q.kind = "complete" /\ status[q.job] = "running"
            /\ q.job \in GuardedJob => engine[q.job] = "ok"
            /\ status' = [status EXCEPT ![q.job] = "success"]
         \/ /\ q.kind = "fail" /\ status[q.job] \in {"pending", "running"}
            /\ status' = [status EXCEPT ![q.job] = "failed"]
         \/ /\ q.kind = "cancelled" /\ status[q.job] = "running"
            /\ q.job \in GuardedJob => q.job \in cancelReq /\ engine[q.job] = "error"
            /\ status' = [status EXCEPT ![q.job] = "cancelled"]
BY DEF Handle, AgentAuth, AdmitStart, CompleteJob, FailJob, CancelJob, Guarded, EventTrue, SaysTrue

\* A report is recorded.
LEMMA ReportPromise ==
  ASSUME IInv, NEW q \in Request, NEW stage, Handle(q, stage), EventTrue(q.kind, q.job),
         q.kind # "start", UNCHANGED <<cancelReq, snaps>>, Right' = Right
  PROVE  Promise!Next \/ UNCHANGED Promise!vars
<1> DEFINE j == q.job
<1>0. j \in Job /\ UNCHANGED <<GSnaps, GCancel>>
  BY SameTable DEF Request
<1>1. j \in GuardedJob /\ engine[j] # "never" => Right[j] = engine[j]
  BY RightFacts
<1>2. CASE GStatus' = GStatus
  BY <1>0, <1>2, PromiseStutter
<1>3. CASE j \notin GuardedJob
  <2>1. status' = status \/ \E to : status' = [status EXCEPT ![j] = to]
    BY HandlePromise
  <2>2. GStatus' = GStatus
    BY <1>0, <1>3, <2>1, MoveStatus, SameTable
  <2> QED
    BY <1>2, <2>2
<1>4. CASE /\ j \in GuardedJob /\ status[j] = "running" /\ engine[j] = "ok"
           /\ status' = [status EXCEPT ![j] = "success"]
  <2>1. GStatus[j] = "running" /\ GStatus' = [GStatus EXCEPT ![j] = "success"]
    BY <1>0, <1>4, MoveStatus
  <2>2. Promise!Succeed(j)
    BY <1>0, <1>1, <1>4, <2>1
    DEF Promise!Succeed, Promise!Record, Right, GStatus, GSnaps, GCancel
  <2> QED
    BY <1>4, <2>2 DEF Promise!Next
<1>5. CASE /\ j \in GuardedJob /\ status[j] \in {"pending", "running"}
           /\ status' = [status EXCEPT ![j] = "failed"]
  <2>1. GStatus[j] \in {"pending", "running"} /\ GStatus' = [GStatus EXCEPT ![j] = "failed"]
    BY <1>0, <1>5, MoveStatus
  <2>2. Promise!Fail(j)
    BY <1>0, <2>1
    DEF Promise!Fail, Promise!Record, Promise!Unfinished, Right, GStatus, GSnaps, GCancel
  <2> QED
    BY <1>5, <2>2 DEF Promise!Next
<1>6. CASE /\ j \in GuardedJob /\ status[j] = "running" /\ j \in cancelReq /\ engine[j] = "error"
           /\ status' = [status EXCEPT ![j] = "cancelled"]
  <2>1. GStatus[j] = "running" /\ GStatus' = [GStatus EXCEPT ![j] = "cancelled"]
    BY <1>0, <1>6, MoveStatus
  <2>2. Promise!Cancel(j)
    BY <1>0, <1>1, <1>6, <2>1
    DEF Promise!Cancel, Promise!Record, Right, GStatus, GSnaps, GCancel
  <2> QED
    BY <1>6, <2>2 DEF Promise!Next
<1> QED
  BY <1>2, <1>3, <1>4, <1>5, <1>6, HandlePromise, SameTable

\* A start is admitted; the right to run comes with the answer, or is lost with it.
LEMMA AdmitPromise ==
  ASSUME IInv, NEW j \in Job, status[j] = "pending",
         status' = [status EXCEPT ![j] = "running"], UNCHANGED <<cancelReq, snaps>>,
         \/ Right' = Right
         \/ j \in GuardedJob /\ Right' = [Right EXCEPT ![j] = "granted"]
  PROVE  Promise!Next \/ UNCHANGED Promise!vars
<1>0. UNCHANGED <<GSnaps, GCancel>>
  BY SameTable
<1>1. CASE j \in GuardedJob
  <2>1. Right[j] = "never"
    BY <1>1, RightFacts
  <2>2. GStatus[j] = "pending" /\ GStatus' = [GStatus EXCEPT ![j] = "running"]
    BY <1>1, MoveStatus
  <2>3. Promise!Admit(j)
    BY <1>0, <2>1, <2>2 DEF Promise!Admit, Promise!Record, Right, GStatus, GSnaps, GCancel
  <2> QED
    BY <1>1, <2>3 DEF Promise!Next
<1>2. CASE j \notin GuardedJob
  <2>1. GStatus' = GStatus
    BY <1>2, MoveStatus
  <2> QED
    BY <1>0, <1>2, <2>1, PromiseStutter
<1> QED
  BY <1>1, <1>2

LEMMA ServePromise ==
  ASSUME IInv, NEW c \in Client, Serve(c)
  PROVE  Promise!Next \/ UNCHANGED Promise!vars
<1> DEFINE q == call[c].req
<1>1. PICK stage \in {"register"} \union Answered :
        Handle(q, stage) /\ call' = [call EXCEPT ![c].stage = stage]
  BY DEF Serve
<1>2. q \in Request /\ EventTrue(q.kind, q.job) /\ call[c].stage = "sent"
  BY DEF Serve, Waiting, IInv, Shape, CallShape, Truth, EventsTrue
<1>3. UNCHANGED <<cancelReq, snaps, phase, cur, engine>>
  BY DEF Serve, loopVars
<1>4. call'[c].stage = stage /\ \A d \in Client : d # c => call'[d] = call[d]
  BY <1>1 DEF IInv, Shape, TypeOK
<1>5. CASE q.kind # "start"
  <2>1. \A j \in GuardedJob : Granted(j)' <=> Granted(j)
    <3>1. CASE c = "main"
      <4>1. phase # "start"
        BY <1>5, <3>1 DEF IInv, Shape, LoopShape
      <4> QED
        BY <1>3, <4>1 DEF Granted
    <3>2. CASE c = "drain"
      <4>1. call'["main"] = call["main"]
        BY <1>4, <3>2 DEF Client
      <4> QED
        BY <1>3, <4>1 DEF Granted
    <3> QED
      BY <3>1, <3>2 DEF Client
  <2>2. Right' = Right
    BY <1>3, <2>1, RightStays
  <2> QED
    BY <1>1, <1>2, <1>3, <1>5, <2>2, ReportPromise
<1>6. CASE q.kind = "start"
  <2>1. c = "main"
    BY <1>2, <1>6 DEF Client, IInv, Shape, CallShape, Waiting, Kind
  <2>2. phase = "start" /\ q.job = cur /\ cur \in Job
    BY <1>2, <1>6, <2>1 DEF IInv, Shape, LoopShape, Waiting, Calling, Kind, Request
  <2>3. \A j \in GuardedJob : ~Granted(j) /\ (Granted(j)' <=> j = cur /\ stage = "ok")
    BY <1>2, <1>3, <1>4, <2>1, <2>2 DEF Granted
  <2>4. CASE stage = "ok"
    <3>1. status[cur] = "pending" /\ status' = [status EXCEPT ![cur] = "running"]
      BY <1>1, <1>2, <1>6, <2>2, <2>4, HandlePromise
    <3>2. CASE cur \in GuardedJob
      <4>1. Right' = [Right EXCEPT ![cur] = "granted"]
        BY <1>3, <2>3, <2>4, <3>2 DEF Right
      <4> QED
        BY <1>3, <2>2, <3>1, <3>2, <4>1, AdmitPromise
    <3>3. CASE cur \notin GuardedJob
      <4>1. Right' = Right
        BY <1>3, <2>3, <3>3, RightStays
      <4> QED
        BY <1>3, <2>2, <3>1, <4>1, AdmitPromise
    <3> QED
      BY <3>2, <3>3
  <2>5. CASE stage # "ok"
    <3>1. status' = status
      BY <1>1, <1>2, <1>6, <2>5, HandlePromise
    <3>2. Right' = Right
      BY <1>3, <2>3, <2>5, RightStays
    <3> QED
      BY <1>3, <3>1, <3>2, PromiseStutter, SameTable
  <2> QED
    BY <2>4, <2>5
<1> QED
  BY <1>5, <1>6

LEMMA ServeAdriftPromise ==
  ASSUME IInv, NEW a \in adrift, ServeAdrift(a)
  PROVE  Promise!Next \/ UNCHANGED Promise!vars
<1>1. PICK stage \in {"register"} \union Answered : Handle(a.req, stage)
  BY DEF ServeAdrift
<1>2. a.req \in Request /\ a.req.job \in Job /\ EventTrue(a.req.kind, a.req.job)
  BY DEF IInv, Shape, TypeOK, Request, Truth, EventsTrue
<1>3. UNCHANGED <<cancelReq, snaps, phase, cur, call, engine>>
  BY DEF ServeAdrift, loopVars
<1>4. Right' = Right
  BY <1>3 DEF Right, Granted
<1>5. CASE a.req.kind # "start"
  BY <1>1, <1>2, <1>3, <1>4, <1>5, ReportPromise
<1>6. CASE a.req.kind = "start"
  <2>1. \/ status' = status
        \/ status[a.req.job] = "pending" /\ status' = [status EXCEPT ![a.req.job] = "running"]
    BY <1>1, <1>2, <1>6, HandlePromise
  <2>2. CASE status' = status
    BY <1>3, <1>4, <2>2, PromiseStutter, SameTable
  <2>3. CASE status[a.req.job] = "pending" /\ status' = [status EXCEPT ![a.req.job] = "running"]
    BY <1>2, <1>3, <1>4, <2>3, AdmitPromise
  <2> QED
    BY <2>1, <2>2, <2>3
<1> QED
  BY <1>5, <1>6

\* A snapshot is registered for a recorded success, unless its row has gone.
LEMMA RegisterPromise ==
  ASSUME IInv, NEW x, x.stage = "register", MayRegister(x), x.req.job \in Job,
         RegisterSnapshot(x.req.job), UNCHANGED <<status, cancelReq>>, Right' = Right
  PROVE  Promise!Next \/ UNCHANGED Promise!vars
<1> DEFINE j == x.req.job
<1>0. UNCHANGED <<GStatus, GCancel>>
  BY SameTable
<1>1. j \in GuardedJob => status[j] \in {"success", "deleted"} /\ snaps[j] = 0
  BY DEF MayRegister
<1>2. CASE GSnaps' = GSnaps
  BY <1>0, <1>2, PromiseStutter
<1>3. CASE status[j] # "deleted" /\ snaps' = [snaps EXCEPT ![j] = snaps[j] + 1]
  <2>1. CASE j \in GuardedJob
    <3>1. snaps' = [snaps EXCEPT ![j] = 1]
      <4>1. snaps[j] + 1 = 1
        BY <1>1, <2>1
      <4> QED
        BY <1>3, <4>1
    <3>2. GSnaps[j] = 0 /\ GSnaps' = [GSnaps EXCEPT ![j] = 1] /\ GStatus[j] = "success"
      BY <1>1, <1>3, <2>1, <3>1, MoveSnaps DEF GStatus
    <3>3. Promise!Register(j)
      BY <1>0, <3>2 DEF Promise!Register, Right, GStatus, GSnaps, GCancel
    <3> QED
      BY <2>1, <3>3 DEF Promise!Next
  <2>2. CASE j \notin GuardedJob
    <3>1. GSnaps' = GSnaps
      BY <1>3, <2>2, MoveSnaps
    <3> QED
      BY <1>2, <3>1
  <2> QED
    BY <2>1, <2>2
<1> QED
  BY <1>2, <1>3, SameTable DEF RegisterSnapshot

LEMMA NetworkPromise ==
  ASSUME IInv, Network
  PROVE  Promise!Next \/ UNCHANGED Promise!vars
<1>1. ASSUME NEW c \in Client, Serve(c) PROVE Promise!Next \/ UNCHANGED Promise!vars
  BY <1>1, ServePromise
<1>2. ASSUME NEW c \in Client, Register(c) PROVE Promise!Next \/ UNCHANGED Promise!vars
  <2>1. /\ call[c].stage = "register" /\ MayRegister(call[c])
        /\ call[c].req.kind = "complete" /\ call[c].req.job \in Job
    BY <1>2 DEF Register, Waiting, MayRegister, IInv, Shape, CallShape, Request, Registered,
                RegisterAlone
  <2>2. /\ call' = [call EXCEPT ![c].stage = "ok"] /\ RegisterSnapshot(call[c].req.job)
        /\ UNCHANGED <<status, cancelReq, phase, cur, engine>>
    BY <1>2 DEF Register, loopVars
  <2>3. \A j \in GuardedJob : Granted(j)' <=> Granted(j)
    <3>1. CASE c = "main"
      <4>1. phase # "start"
        BY <2>1, <3>1 DEF IInv, Shape, LoopShape
      <4> QED
        BY <2>2, <4>1 DEF Granted
    <3>2. CASE c = "drain"
      <4>1. call'["main"] = call["main"]
        BY <2>2, <3>2 DEF Client, IInv, Shape, TypeOK
      <4> QED
        BY <2>2, <4>1 DEF Granted
    <3> QED
      BY <3>1, <3>2 DEF Client
  <2>4. Right' = Right
    BY <2>2, <2>3, RightStays
  <2> QED
    BY <2>1, <2>2, <2>4, RegisterPromise
<1>3. ASSUME NEW c \in Client, GiveUp(c) PROVE Promise!Next \/ UNCHANGED Promise!vars
  <2>1. /\ UNCHANGED <<dbVars, phase, cur, engine>>
        /\ call' = [call EXCEPT ![c].stage = "error"]
    BY <1>3 DEF GiveUp, loopVars
  <2>2. CASE c = "main"
    <3>1. call'["main"].stage = "error"
      BY <2>1, <2>2 DEF IInv, Shape, TypeOK
    <3> QED
      BY <2>1, <3>1, GrantEnds
  <2>3. CASE c = "drain"
    <3>1. call'["main"] = call["main"]
      BY <2>1, <2>3 DEF Client, IInv, Shape, TypeOK
    <3>2. Right' = Right
      BY <2>1, <3>1 DEF Right, Granted
    <3> QED
      BY <2>1, <3>2, PromiseStutter, SameTable DEF dbVars
  <2> QED
    BY <2>2, <2>3 DEF Client
<1>4. ASSUME NEW a \in adrift, ServeAdrift(a) PROVE Promise!Next \/ UNCHANGED Promise!vars
  BY <1>4, ServeAdriftPromise
<1>5. ASSUME NEW a \in adrift, RegisterAdrift(a) PROVE Promise!Next \/ UNCHANGED Promise!vars
  <2>1. a.stage = "register" /\ MayRegister(a) /\ a.req.job \in Job
    BY <1>5 DEF RegisterAdrift, IInv, Shape, TypeOK, Request, Registered, RegisterAlone
  <2>2. /\ RegisterSnapshot(a.req.job)
        /\ UNCHANGED <<status, cancelReq, phase, cur, call, engine>>
    BY <1>5 DEF RegisterAdrift, loopVars
  <2>3. Right' = Right
    BY <2>2 DEF Right, Granted
  <2> QED
    BY <2>1, <2>2, <2>3, RegisterPromise
<1>6. ASSUME NEW a \in adrift, Vanish(a) PROVE UNCHANGED Promise!vars
  <2>1. UNCHANGED <<dbVars, phase, cur, call, engine>>
    BY <1>6 DEF Vanish, loopVars
  <2>2. Right' = Right
    BY <2>1 DEF Right, Granted
  <2> QED
    BY <2>1, <2>2, PromiseStutter, SameTable DEF dbVars
<1> QED
  BY <1>1, <1>2, <1>3, <1>4, <1>5, <1>6 DEF Network

\* The other writers of the table.
LEMMA TablePromise ==
  ASSUME IInv, NEW j \in Job, Table(j)
  PROVE  Promise!Next \/ UNCHANGED Promise!vars
<1>1. TableStep(j)
  BY TableSteps DEF IInv, Shape
<1>2. Right' = Right
  BY <1>1 DEF TableStep, loopVars, netVars, Right, Granted
<1>3. CASE j \notin GuardedJob
  <2>1. GStatus' = GStatus
    BY <1>1, <1>3, MoveStatus, SameTable DEF TableStep, NewStatus
  <2>2. GSnaps' = GSnaps
    BY <1>1, <1>3, MoveSnaps, SameTable DEF TableStep
  <2>3. GCancel' = GCancel
    BY <1>1, <1>3 DEF TableStep, GCancel
  <2> QED
    BY <1>2, <2>1, <2>2, <2>3, PromiseStutter
<1>4. CASE j \in GuardedJob
  <2>0. GStatus[j] = status[j] /\ GSnaps[j] = snaps[j]
    BY <1>4 DEF GStatus, GSnaps
  <2>1. CASE CreatePending(j)
    <3>1. /\ GStatus[j] = "none" /\ GStatus' = [GStatus EXCEPT ![j] = "pending"]
          /\ UNCHANGED <<GSnaps, GCancel>>
      BY <1>4, <2>1, MoveStatus, SameTable DEF CreatePending, Untouched
    <3>2. Promise!Create(j)
      BY <1>2, <3>1 DEF Promise!Create, Promise!Record, Right, GStatus, GSnaps, GCancel
    <3> QED
      BY <1>4, <3>2 DEF Promise!Next
  <2>2. CASE RequestCancel(j)
    <3>1. /\ GStatus[j] \in {"pending", "running"} /\ GCancel' = GCancel \union {j}
          /\ UNCHANGED <<GStatus, GSnaps>>
      BY <1>4, <2>0, <2>2, SameTable DEF RequestCancel, Untouched, GCancel
    <3>2. Promise!RequestCancel(j)
      BY <1>2, <3>1
      DEF Promise!RequestCancel, Promise!Unfinished, Right, GStatus, GSnaps, GCancel
    <3> QED
      BY <1>4, <3>2 DEF Promise!Next
  <2>3. CASE DeleteJob(j)
    <3>1. /\ GStatus[j] \in JobStatus /\ GSnaps[j] = 0
          /\ GStatus' = [GStatus EXCEPT ![j] = "deleted"] /\ UNCHANGED <<GSnaps, GCancel>>
      BY <1>4, <2>0, <2>3, MoveStatus, SameTable DEF DeleteJob, Untouched
    <3>2. Promise!Delete(j)
      BY <1>2, <3>1
      DEF JobStatus, Terminal, Promise!Delete, Promise!Record, Promise!Unfinished,
          Promise!Outcome, Right, GStatus, GSnaps, GCancel
    <3> QED
      BY <1>4, <3>2 DEF Promise!Next
  <2>4. CASE ReapStale(j)
    <3>1. /\ GStatus[j] \in {"pending", "running"} /\ GStatus' = [GStatus EXCEPT ![j] = "failed"]
          /\ UNCHANGED <<GSnaps, GCancel>>
      BY <1>4, <2>0, <2>4, MoveStatus, SameTable DEF ReapStale, Untouched
    <3>2. Promise!Fail(j)
      BY <1>2, <3>1
      DEF Promise!Fail, Promise!Record, Promise!Unfinished, Right, GStatus, GSnaps, GCancel
    <3> QED
      BY <1>4, <3>2 DEF Promise!Next
  <2>5. CASE DeleteSnapshot(j)
    <3>1. snaps[j] = 1
      <4>1. snaps[j] \in Nat /\ snaps[j] <= 1 /\ snaps[j] > 0
        BY <1>4, <2>5 DEF DeleteSnapshot, IInv, Registered, OneSnapshotPerSuccess, Shape, TypeOK
      <4> QED
        BY <4>1
    <3>2. snaps' = [snaps EXCEPT ![j] = 0] /\ UNCHANGED <<status, cancelReq>>
      BY <2>5, <3>1 DEF DeleteSnapshot
    <3>3. GSnaps[j] = 1 /\ GSnaps' = [GSnaps EXCEPT ![j] = 0] /\ UNCHANGED <<GStatus, GCancel>>
      BY <1>4, <2>0, <3>1, <3>2, MoveSnaps, SameTable
    <3>4. Promise!Remove(j)
      BY <1>2, <3>3 DEF Promise!Remove, Right, GStatus, GSnaps, GCancel
    <3> QED
      BY <1>4, <3>4 DEF Promise!Next
  <2>6. ~CreateSnapshot(j)
    BY <1>4 DEF CreateSnapshot, GuardedJob
  <2>7. \A st \in JobStatus : ~(CreateJob(j, st) \/ UpdateJob(j, st) \/ EndRetentionJob(j, st))
    BY <1>4 DEF CreateJob, UpdateJob, EndRetentionJob, GuardedJob
  <2> QED
    BY <2>1, <2>2, <2>3, <2>4, <2>5, <2>6, <2>7 DEF Table
<1> QED
  BY <1>3, <1>4

\* The poll loop: a right that has been granted is used once.
LEMMA LoopPromise ==
  ASSUME IInv, Loop
  PROVE  Promise!Next \/ UNCHANGED Promise!vars
<1>0. engine \in [Job -> {"never", "started", "ok", "error"}] /\ (phase # "idle" => cur \in Job)
  BY DEF IInv, Shape, TypeOK, LoopShape
<1>1. CASE StartConfirmed
  <2>1. /\ phase = "start" /\ call["main"].stage = "ok" /\ phase' = "backup"
        /\ engine' = [engine EXCEPT ![cur] = "started"] /\ UNCHANGED dbVars
    BY <1>1 DEF StartConfirmed
  <2>2. \A j \in GuardedJob : (Granted(j) <=> j = cur) /\ ~Granted(j)'
    BY <2>1 DEF Granted
  <2>3. UNCHANGED <<GStatus, GSnaps, GCancel>>
    BY <2>1, SameTable DEF dbVars
  <2>4. ASSUME NEW j \in GuardedJob, j = cur PROVE Promise!Next
    <3>1. Right[j] = "granted" /\ Right' = [Right EXCEPT ![j] = "started"]
      BY <1>0, <2>1, <2>2, <2>4, GuardedJobs DEF Right
    <3>2. Promise!Start(j)
      BY <2>3, <3>1 DEF Promise!Start, Promise!Run, Right, GStatus, GSnaps, GCancel
    <3> QED
      BY <3>2 DEF Promise!Next
  <2>5. CASE cur \notin GuardedJob
    <3>1. Right' = Right
      BY <1>0, <2>1, <2>2, <2>5, GuardedJobs, RightStays
    <3> QED
      BY <2>3, <3>1, PromiseStutter
  <2> QED
    BY <2>4, <2>5
<1>2. ASSUME NEW result \in {"ok", "error"}, BackupEnds(result)
      PROVE  Promise!Next \/ UNCHANGED Promise!vars
  <2>1. /\ phase = "backup" /\ phase' = "report" /\ engine[cur] = "started"
        /\ engine' = [engine EXCEPT ![cur] = result] /\ UNCHANGED dbVars
    BY <1>2 DEF BackupEnds, Decide, IInv, Truth, LoopTrue
  <2>2. \A j \in GuardedJob : ~Granted(j) /\ ~Granted(j)'
    BY <2>1 DEF Granted
  <2>3. UNCHANGED <<GStatus, GSnaps, GCancel>>
    BY <2>1, SameTable DEF dbVars
  <2>4. ASSUME NEW j \in GuardedJob, j = cur PROVE Promise!Next
    <3>1. Right[j] = "started" /\ Right' = [Right EXCEPT ![j] = result]
      BY <1>0, <2>1, <2>2, <2>4, GuardedJobs DEF Right
    <3>2. Promise!Finish(j, result)
      BY <2>3, <3>1 DEF Promise!Finish, Promise!Run, Right, GStatus, GSnaps, GCancel
    <3> QED
      BY <3>2 DEF Promise!Next
  <2>5. CASE cur \notin GuardedJob
    <3>1. Right' = Right
      BY <1>0, <2>1, <2>2, <2>5, GuardedJobs, RightStays
    <3> QED
      BY <2>3, <3>1, PromiseStutter
  <2> QED
    BY <2>4, <2>5
<1>3. CASE StartRefused
  BY <1>3, GrantEnds DEF StartRefused, JobDone
<1>4. CASE FetchOk
  <2>1. call'["main"].stage = "sent"
    BY <1>4 DEF FetchOk, Send, Client, IInv, Shape, TypeOK
  <2> QED
    BY <1>4, <2>1, GrantEnds DEF FetchOk
<1>5. CASE \/ Poll \/ FetchFails \/ WatcherStops \/ Enqueue \/ EnqueueFails \/ DirectDelivered
           \/ \E j \in Job : NextJob(j)
  <2>1. phase' # "start" /\ UNCHANGED <<dbVars, engine>>
    BY <1>5 DEF Poll, FetchFails, Decide, WatcherStops, Enqueue, EnqueueFails, DirectDelivered,
                JobDone, NextJob
  <2> QED
    BY <2>1, GrantEnds
<1> QED
  BY <1>1, <1>2, <1>3, <1>4, <1>5 DEF Loop

\* The outbox and the drain goroutine are out of the promise's sight.
LEMMA DeliverPromise ==
  ASSUME IInv, NEW c \in Client, Delivered(c) \/ KeepForLater(c)
  PROVE  Promise!Next \/ UNCHANGED Promise!vars
<1>1. UNCHANGED <<dbVars, engine>> /\ HangUp(c)
  BY DEF Delivered, KeepForLater, Finish
<1>2. CASE c = "main"
  <2>1. phase' # "start"
    BY <1>2 DEF Delivered, KeepForLater, Finish, JobDone
  <2> QED
    BY <1>1, <2>1, GrantEnds
<1>3. CASE c = "drain"
  <2>1. call'["main"] = call["main"] /\ UNCHANGED <<phase, cur>>
    BY <1>1, <1>3 DEF HangUp, Delivered, KeepForLater, Finish, loopVars, Client, IInv, Shape, TypeOK
  <2>2. Right' = Right
    BY <1>1, <2>1 DEF Right, Granted
  <2> QED
    BY <1>1, <2>2, PromiseStutter, SameTable DEF dbVars
<1> QED
  BY <1>2, <1>3 DEF Client

\* Every step is one of the promise, or none.
LEMMA NextPromise == IInv /\ [Next]_vars => Promise!Next \/ UNCHANGED Promise!vars
<1> SUFFICES ASSUME IInv, [Next]_vars PROVE Promise!Next \/ UNCHANGED Promise!vars
  OBVIOUS
<1>1. ASSUME NEW j \in Job, Table(j) PROVE Promise!Next \/ UNCHANGED Promise!vars
  BY <1>1, TablePromise
<1>2. ASSUME NEW j \in Job, DrainSend(j) PROVE UNCHANGED Promise!vars
  <2>1. call'["main"] = call["main"] /\ UNCHANGED <<dbVars, phase, cur, engine>>
    BY <1>2 DEF DrainSend, Send, loopVars, Client, IInv, Shape, TypeOK
  <2>2. Right' = Right
    BY <2>1 DEF Right, Granted
  <2> QED
    BY <2>1, <2>2, PromiseStutter, SameTable DEF dbVars
<1>3. CASE Loop
  BY <1>3, LoopPromise
<1>4. CASE Network
  BY <1>4, NetworkPromise
<1>5. CASE Crash
  BY <1>5, GrantEnds DEF Crash, JobDone
<1>6. ASSUME NEW c \in Client, Delivered(c) \/ KeepForLater(c)
      PROVE  Promise!Next \/ UNCHANGED Promise!vars
  BY <1>6, DeliverPromise
<1>7. CASE DrainList \/ UNCHANGED vars
  <2>1. UNCHANGED <<dbVars, phase, cur, call, engine>>
    BY <1>7 DEF DrainList, vars, loopVars, netVars
  <2>2. Right' = Right
    BY <2>1 DEF Right, Granted
  <2> QED
    BY <2>1, <2>2, PromiseStutter, SameTable DEF dbVars
<1> QED
  BY <1>1, <1>2, <1>3, <1>4, <1>5, <1>6, <1>7 DEF Next

\* The agent, its outbox, the network and the handlers keep the promise for the guarded
\* jobs: such a job is admitted once, run at most once, and recorded as what came of it,
\* whatever is lost, repeated, late, or handled for a client that has gone, and whatever
\* is written over other jobs.
THEOREM DeliveryKeepsPromise == Spec => KeepsPromise
<1>1. IInv /\ [Next]_vars => [Promise!Next]_(Promise!vars)
  BY NextPromise
<1>2. Init => Promise!Init
  <2> SUFFICES ASSUME Init PROVE Promise!Init
    OBVIOUS
  <2>1. \A j \in GuardedJob : ~Granted(j)
    BY DEF Init, Granted
  <2>2. Right = [j \in GuardedJob |-> "never"]
    BY <2>1, GuardedJobs DEF Init, Right
  <2>3. /\ GStatus = [j \in GuardedJob |-> "none"] /\ GSnaps = [j \in GuardedJob |-> 0]
        /\ GCancel = {}
    BY GuardedJobs DEF Init, GStatus, GSnaps, GCancel
  <2> QED
    BY <2>2, <2>3 DEF Promise!Init, Right, GStatus, GSnaps, GCancel
<1> QED
  BY <1>1, <1>2, Inductive, PTL DEF KeepsPromise, Spec, Promise!Spec

(***************************************************************************)
(* The guarded jobs, as the dispatch guard's side sees them.               *)
(***************************************************************************)

Moves(j, from, to) == GStatus[j] \in from /\ GStatus' = [GStatus EXCEPT ![j] = to]

LEMMA PromiseWrites ==
  ASSUME Promise!Next
  PROVE  \/ UNCHANGED GStatus
         \/ \E j \in GuardedJob :
              \/ Moves(j, {"none"}, "pending") \/ Moves(j, {"pending"}, "running")
              \/ Moves(j, {"running"}, "success") \/ Moves(j, {"running"}, "cancelled")
              \/ Moves(j, {"pending", "running"}, "failed")
              \/ Moves(j, {"pending", "running", "success", "failed", "cancelled"}, "deleted")
BY DEF Promise!Next, Promise!Create, Promise!Admit, Promise!Lose, Promise!Start, Promise!Finish,
       Promise!Succeed, Promise!Fail, Promise!Cancel, Promise!RequestCancel, Promise!Register,
       Promise!Remove, Promise!Delete, Promise!Record, Promise!Run, Promise!Unfinished,
       Promise!Outcome, Moves, GStatus

\* With one slot more than there are guarded jobs, one is always left.
LEMMA AlwaysASlot ==
  ASSUME IsFiniteSet(Job), NEW j \in GuardedJob
  PROVE  Slots!SlotLeft(j)
<1>1. \A S : Slots!Cardinality(S) = Cardinality(S)
  BY DEF Slots!Cardinality, Cardinality
<1>2. IsFiniteSet(GuardedJob) /\ Cardinality(GuardedJob) \in Nat
  BY GuardedJobs, FS_Subset, FS_CardinalityType
<1>3. ASSUME NEW S \in SUBSET GuardedJob PROVE Slots!Cardinality(S) < Cardinality(GuardedJob) + 1
  <2>1. Cardinality(S) \in Nat /\ Cardinality(S) <= Cardinality(GuardedJob)
    BY <1>2, FS_Subset, FS_CardinalityType
  <2> QED
    BY <1>1, <1>2, <2>1
<1>4. Slots!InUse \in SUBSET GuardedJob
  BY DEF Slots!InUse
<1>5. {i \in Slots!InUse :
         [k \in GuardedJob |-> "system"][i] = [k \in GuardedJob |-> "system"][j]}
        \in SUBSET GuardedJob
  BY <1>4
<1> QED
  BY <1>3, <1>4, <1>5 DEF Slots!SlotLeft

\* The handlers of the agents' endpoints, the operators and the reaper take a guarded job
\* through the life that the dispatch guard's side knows, and through no other.
THEOREM DeliveryWritesLikePool ==
  ASSUME IsFiniteSet(Job)
  PROVE  Spec => WritesLikePool
<1>1. IInv /\ [Next]_vars => [Slots!Next]_(Slots!vars)
  <2> SUFFICES ASSUME IInv, [Next]_vars PROVE Slots!Next \/ UNCHANGED Slots!vars
    OBVIOUS
  <2>1. CASE UNCHANGED GStatus
    BY <2>1 DEF Slots!vars, GStatus
  <2>2. ASSUME NEW j \in GuardedJob, Moves(j, {"none"}, "pending") PROVE Slots!Next
    BY <2>2 DEF Moves, Slots!Next, Slots!Create, Slots!Move, GStatus
  <2>3. ASSUME NEW j \in GuardedJob, Moves(j, {"pending"}, "running") PROVE Slots!Next
    <3>1. Slots!SlotLeft(j)
      BY AlwaysASlot
    <3>2. Slots!Take(j)
      BY <2>3, <3>1 DEF Moves, Slots!Take, Slots!Move, GStatus
    <3> QED
      BY <3>2 DEF Slots!Next
  <2>4. ASSUME NEW j \in GuardedJob, NEW to \in {"success", "cancelled"}, Moves(j, {"running"}, to)
        PROVE  Slots!Next
    <3>1. Slots!Settle(j)
      BY <2>4 DEF Moves, Slots!Settle, Slots!Move, Slots!Outcome, GStatus
    <3> QED
      BY <3>1 DEF Slots!Next
  <2>5. ASSUME NEW j \in GuardedJob, Moves(j, {"pending", "running"}, "failed") PROVE Slots!Next
    <3>1. GStatus' = [i \in GuardedJob |-> IF i \in {j} THEN "failed" ELSE GStatus[i]]
      BY <2>5 DEF Moves, GStatus
    <3>2. Slots!GiveUp({j})
      BY <2>5, <3>1 DEF Moves, Slots!GiveUp, GStatus
    <3> QED
      BY <3>2 DEF Slots!Next
  <2>6. ASSUME NEW j \in GuardedJob,
               Moves(j, {"pending", "running", "success", "failed", "cancelled"}, "deleted")
        PROVE  Slots!Next
    <3>1. Slots!Delete(j)
      BY <2>6 DEF Moves, Slots!Delete, Slots!Move, Slots!Outcome, GStatus
    <3> QED
      BY <3>1 DEF Slots!Next
  <2>7. UNCHANGED GStatus \/ Promise!Next
    BY NextPromise DEF Promise!vars, GStatus
  <2> QED
    BY <2>1, <2>2, <2>3, <2>4, <2>5, <2>6, <2>7, PromiseWrites
<1>2. Init => Slots!Init
  <2> SUFFICES ASSUME Init PROVE Slots!Init
    OBVIOUS
  <2>1. Cardinality(GuardedJob) + 1 \in Nat \ {0}
    BY GuardedJobs, FS_Subset, FS_CardinalityType
  <2>2. GStatus = [j \in GuardedJob |-> "none"]
    BY GuardedJobs DEF Init, GStatus
  <2> QED
    BY <2>1, <2>2 DEF Slots!Init, GStatus
<1> QED
  BY <1>1, <1>2, Inductive, PTL DEF WritesLikePool, Spec, Slots!Spec
=============================================================================
