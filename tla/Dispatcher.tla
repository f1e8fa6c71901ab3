----------------------------- MODULE Dispatcher -----------------------------
(***************************************************************************)
(* The dispatcher service (services/dispatcher): it consumes job messages, *)
(* acknowledges each one as soon as a goroutine for it has been spawned,   *)
(* and lets that goroutine create the attempt row, wake the worker, pick a *)
(* pod, start the execution in the pod's runtime and register it.          *)
(*                                                                         *)
(* The process may crash between any two steps, be told to stop (SIGTERM)  *)
(* and be started again; its connection to the broker may be lost. The     *)
(* attempt rows live in Postgres and survive; executions, slots and tasks  *)
(* live in the process and do not.                                         *)
(***************************************************************************)
EXTENDS JobQueue

CONSTANTS
    Job,            \* the job ids that messages may name
    StoredJob,      \* those that have a row in the jobs table
    JobOf,          \* the job id in the body of each message that parses
    MaxAttempts,    \* bound: attempt ids handed out in a behaviour
    MaxLives,       \* bound: how often the process is started
    ConnMayDrop,    \* whether the broker connection may be lost
    None            \* no message

Attempt == 1 .. MaxAttempts

ASSUME DispatcherAssumption ==
    /\ StoredJob \subseteq Job
    /\ JobOf \in [Msg \ Garbled -> Job]
    /\ MaxAttempts \in Nat
    /\ MaxLives \in Nat \ {0}
    /\ ConnMayDrop \in BOOLEAN
    /\ None \notin Msg

VARIABLES
    up,         \* the process runs
    life,       \* which start of the process this is
    ctxDone,    \* the root context has been cancelled by a signal
    consumer,   \* ConsumeJobs: "select", "sem" (in the handler, waiting for
                \* a slot) or "ack" (the handler has returned nil)
    cur,        \* the message the consumer is handling
    sem,        \* tokens in the channel g.sem
    pc,         \* where the goroutine executing each message is
    att,        \* the attempt that goroutine has created
    registry,   \* the attempts with an entry in g.executions
    rowStatus,  \* the job_attempts table: status of each attempt id
    rowOf,      \* the message each row was created for
    rowLife,    \* (history) the life of the process that created the row
    started,    \* (history) attempts a runtime has started an execution for
    lastSpawn,  \* (history) the last life that spawned a task for a message
    stranded    \* (history) rows abandoned in status "running"

taskVars == <<pc, att>>
rowVars  == <<rowStatus, rowOf, rowLife>>
procVars == <<up, life, ctxDone>>
consVars == <<consumer, cur>>
histVars == <<started, lastSpawn, stranded>>
vars == <<queueVars, taskVars, rowVars, procVars, consVars, histVars, sem, registry>>

Task == {"idle", "load", "create", "scale", "select", "dial", "run",
         "register", "fail", "exit"}

(* Points between the insertion of the attempt row and its hand-over. *)
Owning == {"scale", "select", "dial", "run", "register", "fail"}

TypeOK ==
    /\ QueueTypeOK
    /\ up \in BOOLEAN
    /\ life \in 1 .. MaxLives
    /\ ctxDone \in BOOLEAN
    /\ consumer \in {"select", "sem", "ack"}
    /\ cur \in Msg \cup {None}
    /\ sem \in 0 .. MaxWorkers
    /\ pc \in [Msg -> Task]
    /\ att \in [Msg -> Attempt \cup {0}]
    /\ registry \subseteq Attempt
    /\ rowStatus \in [Attempt -> {"absent", "running", "failed"}]
    /\ rowOf \in [Attempt -> Msg \cup {None}]
    /\ rowLife \in [Attempt -> 0 .. MaxLives]
    /\ started \subseteq Attempt
    /\ lastSpawn \in [Msg -> 0 .. MaxLives]
    /\ stranded \subseteq Attempt

Init ==
    /\ QueueInit
    /\ up = TRUE /\ life = 1 /\ ctxDone = FALSE
    /\ consumer = "select" /\ cur = None
    /\ sem = 0
    /\ pc = [m \in Msg |-> "idle"]
    /\ att = [m \in Msg |-> 0]
    /\ registry = {}
    /\ rowStatus = [a \in Attempt |-> "absent"]
    /\ rowOf = [a \in Attempt |-> None]
    /\ rowLife = [a \in Attempt |-> 0]
    /\ started = {}
    /\ lastSpawn = [m \in Msg |-> 0]
    /\ stranded = {}

-----------------------------------------------------------------------------
(* Publishers: the dispatcher's own RunJob handler, which publishes any job id
   it is given; the scheduler's CreateJob with autorun, on a connection of its
   own and only for a job it has stored; and whoever else writes to the queue. *)
RunJob(m) ==
    /\ up /\ conn = "open"
    /\ m \notin Garbled
    /\ PublishJob(m)
    /\ UNCHANGED <<taskVars, rowVars, procVars, consVars, histVars, sem, registry>>

AutorunPublish(m) ==
    /\ m \notin Garbled
    /\ JobOf[m] \in StoredJob
    /\ PublishJob(m)
    /\ UNCHANGED <<taskVars, rowVars, procVars, consVars, histVars, sem, registry>>

ForeignPublish(m) ==
    /\ m \in Garbled
    /\ PublishJob(m)
    /\ UNCHANGED <<taskVars, rowVars, procVars, consVars, histVars, sem, registry>>

-----------------------------------------------------------------------------
(* ConsumeJobs and the handler StartJobConsumer gives it. *)
BrokerDelivers(m) ==
    /\ Deliver(m)
    /\ UNCHANGED <<taskVars, rowVars, procVars, consVars, histVars, sem, registry>>

ConsumerTake(m) ==
    /\ up /\ consumer = "select"
    /\ m \notin Garbled
    /\ Receive(m)
    /\ consumer' = "sem"
    /\ cur' = m
    /\ UNCHANGED <<taskVars, rowVars, procVars, histVars, sem, registry>>

ConsumerReject(m) ==
    /\ up /\ consumer = "select"
    /\ m \in Garbled
    /\ Reject(m)
    /\ UNCHANGED <<taskVars, rowVars, procVars, consVars, histVars, sem, registry>>

(* Mutated form: the slot is not waited for. *)
HandlerSpawnUnbounded ==
    /\ up /\ consumer = "sem"
    /\ sem' = sem + 1
    /\ pc' = [pc EXCEPT ![cur] = "load"]
    /\ lastSpawn' = [lastSpawn EXCEPT ![cur] = life]
    /\ consumer' = "ack"
    /\ UNCHANGED <<queueVars, att, rowVars, procVars, cur, started, stranded, registry>>

(* g.sem <- struct{}{}; go func() { ... }; return nil *)
HandlerSpawn ==
    /\ up /\ consumer = "sem"
    /\ sem < MaxWorkers
    /\ sem' = sem + 1
    /\ pc' = [pc EXCEPT ![cur] = "load"]
    /\ lastSpawn' = [lastSpawn EXCEPT ![cur] = life]
    /\ consumer' = "ack"
    /\ UNCHANGED <<queueVars, att, rowVars, procVars, cur, started, stranded, registry>>

(* The handler returned nil: the message is settled although its execution
   has only just begun. *)
ConsumerAck ==
    /\ up /\ consumer = "ack"
    /\ Ack(cur)
    /\ consumer' = "select"
    /\ cur' = None
    /\ UNCHANGED <<taskVars, rowVars, procVars, histVars, sem, registry>>

-----------------------------------------------------------------------------
(* executeJob, one step per call that leaves the process. *)
Goto(m, step) == pc' = [pc EXCEPT ![m] = step]

(* GetJobForExecution: an unknown id or a database error ends the task. *)
LoadJob(m) ==
    /\ pc[m] = "load"
    /\ \/ JobOf[m] \in StoredJob /\ Goto(m, "create")
       \/ Goto(m, "exit")
    /\ UNCHANGED <<queueVars, att, rowVars, procVars, consVars, histVars, sem, registry>>

(* Mutated form: an id may repeat and the row is written over (an upsert). *)
NextAttemptColliding == { a \in Attempt : rowStatus[a] # "running" }

(* NewAttemptID: ids are handed out in increasing order. *)
NextAttempt ==
    { a \in Attempt : /\ rowStatus[a] = "absent"
                      /\ \A b \in Attempt : rowStatus[b] = "absent" => a <= b }

(* The row is inserted. *)
InsertAttempt(m, a) ==
    /\ rowStatus' = [rowStatus EXCEPT ![a] = "running"]
    /\ rowOf' = [rowOf EXCEPT ![a] = m]
    /\ rowLife' = [rowLife EXCEPT ![a] = life]

CreateAttempt(m) ==
    /\ pc[m] = "create"
    /\ \E a \in NextAttempt :
        InsertAttempt(m, a) /\ att' = [att EXCEPT ![m] = a]
    /\ Goto(m, "scale")
    /\ UNCHANGED <<queueVars, procVars, consVars, histVars, sem, registry>>

(* Mutated form: after an error the insertion is tried again. *)
CreateAttemptErrRetried(m) ==
    /\ pc[m] = "create"
    /\ \E a \in NextAttempt : InsertAttempt(m, a) /\ stranded' = stranded \cup {a}
    /\ UNCHANGED <<queueVars, taskVars, procVars, consVars, started, lastSpawn, sem, registry>>

(* An error does not tell whether Postgres has committed the row. *)
CreateAttemptErr(m) ==
    /\ pc[m] = "create"
    /\ \/ UNCHANGED <<rowVars, stranded>>
       \/ \E a \in NextAttempt : InsertAttempt(m, a) /\ stranded' = stranded \cup {a}
    /\ Goto(m, "exit")
    /\ UNCHANGED <<queueVars, att, procVars, consVars, started, lastSpawn, sem, registry>>

(* Mutated form: the error is returned without failAttempt. *)
ScaleWorkerLeaks(m) ==
    /\ pc[m] = "scale"
    /\ Goto(m, "select") \/ Goto(m, "exit")
    /\ UNCHANGED <<queueVars, att, rowVars, procVars, consVars, histVars, sem, registry>>

(* ScaleWorker and SelectPod take the task's context: once it is cancelled
   they return an error, before that they may do either. *)
ScaleWorker(m) ==
    /\ pc[m] = "scale"
    /\ \/ ~ctxDone /\ Goto(m, "select")
       \/ Goto(m, "fail")
    /\ UNCHANGED <<queueVars, att, rowVars, procVars, consVars, histVars, sem, registry>>

SelectPod(m) ==
    /\ pc[m] = "select"
    /\ \/ ~ctxDone /\ Goto(m, "dial")
       \/ Goto(m, "fail")
    /\ UNCHANGED <<queueVars, att, rowVars, procVars, consVars, histVars, sem, registry>>

(* client.NewRuntime: its error is returned without failAttempt. *)
NewRuntime(m) ==
    /\ pc[m] = "dial"
    /\ Goto(m, "run")
    /\ UNCHANGED <<queueVars, att, rowVars, procVars, consVars, histVars, sem, registry>>

NewRuntimeErr(m) ==
    /\ pc[m] = "dial"
    /\ Goto(m, "exit")
    /\ stranded' = stranded \cup {att[m]}
    /\ UNCHANGED <<queueVars, att, rowVars, procVars, consVars, started, lastSpawn, sem, registry>>

(* Mutated form: no return after failAttempt. *)
RunRpcFallsThrough(m) ==
    /\ pc[m] = "run"
    /\ Goto(m, "register")
    /\ started' = started \cup {att[m]}
    /\ rowStatus' \in { rowStatus, [rowStatus EXCEPT ![att[m]] = "failed"] }
    /\ UNCHANGED <<queueVars, att, rowOf, rowLife, procVars, consVars, lastSpawn, stranded, sem, registry>>

(* runtime.Run: the response arrives, or an error does, and an error does not
   tell whether the runtime has started the execution. *)
RunRpc(m) ==
    /\ pc[m] = "run"
    /\ \/ ~ctxDone /\ Goto(m, "register") /\ started' = started \cup {att[m]}
       \/ Goto(m, "fail") /\ started' = started \cup {att[m]}
       \/ Goto(m, "fail") /\ UNCHANGED started
    /\ UNCHANGED <<queueVars, att, rowVars, procVars, consVars, lastSpawn, stranded, sem, registry>>

Register(m) ==
    /\ pc[m] = "register"
    /\ registry' = registry \cup {att[m]}
    /\ Goto(m, "exit")
    /\ UNCHANGED <<queueVars, att, rowVars, procVars, consVars, histVars, sem>>

(* failAttempt: a database error is logged and forgotten. *)
FailAttempt(m) ==
    /\ pc[m] = "fail"
    /\ rowStatus' = [rowStatus EXCEPT ![att[m]] = "failed"]
    /\ Goto(m, "exit")
    /\ UNCHANGED <<queueVars, att, rowOf, rowLife, procVars, consVars, histVars, sem, registry>>

FailAttemptErr(m) ==
    /\ pc[m] = "fail"
    /\ Goto(m, "exit")
    /\ stranded' = stranded \cup {att[m]}
    /\ UNCHANGED <<queueVars, att, rowVars, procVars, consVars, started, lastSpawn, sem, registry>>

(* Mutated form: a task ends without returning its slot. *)
ReleaseForgotten(m) ==
    /\ pc[m] = "exit"
    /\ Goto(m, "idle")
    /\ att' = [att EXCEPT ![m] = 0]
    /\ UNCHANGED <<queueVars, rowVars, procVars, consVars, histVars, sem, registry>>

(* defer func() { <-g.sem }() *)
Release(m) ==
    /\ pc[m] = "exit"
    /\ sem' = sem - 1
    /\ Goto(m, "idle")
    /\ att' = [att EXCEPT ![m] = 0]
    /\ UNCHANGED <<queueVars, rowVars, procVars, consVars, histVars, registry>>

TaskStep(m) ==
    \/ LoadJob(m) \/ CreateAttempt(m) \/ CreateAttemptErr(m)
    \/ ScaleWorker(m) \/ SelectPod(m)
    \/ NewRuntime(m) \/ NewRuntimeErr(m) \/ RunRpc(m)
    \/ Register(m) \/ FailAttempt(m) \/ FailAttemptErr(m) \/ Release(m)

-----------------------------------------------------------------------------
(* The end of the process takes every goroutine, slot and registered execution
   with it; rows still "running" have nobody left to change them. *)
ProcessEnds ==
    /\ up
    /\ up' = FALSE
    /\ Disconnect
    /\ ctxDone' = FALSE
    /\ consumer' = "select" /\ cur' = None
    /\ sem' = 0
    /\ pc' = [m \in Msg |-> "idle"]
    /\ att' = [m \in Msg |-> 0]
    /\ registry' = {}
    /\ stranded' = { a \in Attempt : rowStatus[a] = "running" }
    /\ UNCHANGED <<life, rowVars, started, lastSpawn>>

(* Crashes and signals are bounded by the number of starts: the last process
   is left running. *)
Crash == life < MaxLives /\ ProcessEnds

(* SIGINT or SIGTERM cancels the root context. *)
Sigterm ==
    /\ up /\ ~ctxDone
    /\ life < MaxLives
    /\ ctxDone' = TRUE
    /\ UNCHANGED <<queueVars, taskVars, rowVars, up, life, consVars, histVars, sem, registry>>

(* gracefulShutdown closes the broker connection before anything else ... *)
RabbitClose ==
    /\ up /\ ctxDone /\ conn = "open"
    /\ Disconnect
    /\ UNCHANGED <<taskVars, rowVars, procVars, consVars, histVars, sem, registry>>

(* ... and main returns once the gRPC server has stopped, unless ConsumeJobs,
   back in its select, has seen the cancelled context first and StartJobConsumer
   has turned its error into log.Fatal. No task is waited for either way. *)
MainReturns == ctxDone /\ conn = "closed" /\ ProcessEnds

ConsumerFatal == ctxDone /\ consumer = "select" /\ ProcessEnds

(* The connection is lost; nothing in the code dials again. The closed channel
   makes ConsumeJobs spin on zero deliveries it fails to reject: no step here. *)
ConnLost ==
    /\ ConnMayDrop
    /\ up /\ conn = "open"
    /\ Disconnect
    /\ UNCHANGED <<taskVars, rowVars, procVars, consVars, histVars, sem, registry>>

(* The Deployment starts the container again; main connects and consumes. *)
Restart ==
    /\ ~up
    /\ life < MaxLives
    /\ up' = TRUE
    /\ life' = life + 1
    /\ Connect
    /\ UNCHANGED <<taskVars, rowVars, ctxDone, consVars, histVars, sem, registry>>

-----------------------------------------------------------------------------
Consume ==
    \/ \E m \in Msg : ConsumerTake(m) \/ ConsumerReject(m)
    \/ HandlerSpawn \/ ConsumerAck

Next ==
    \/ \E m \in Msg : RunJob(m) \/ AutorunPublish(m) \/ ForeignPublish(m)
    \/ \E m \in Msg : BrokerDelivers(m)
    \/ Consume
    \/ \E m \in Msg : TaskStep(m)
    \/ Crash \/ Sigterm \/ RabbitClose \/ MainReturns \/ ConsumerFatal
    \/ ConnLost \/ Restart

Spec == Init /\ [][Next]_vars

(* The broker pushes, the Go scheduler runs the consumer and every task, calls
   to Postgres, Kubernetes and the runtime return, a cancelled process closes its
   connection, the select it is back in sees the cancelled context (MainReturns is
   not relied on: GracefulStop waits for open heartbeat streams), and Kubernetes
   starts the container again. Nothing has to be published, crash or fail. *)
Fairness ==
    /\ WF_vars(\E m \in Msg : BrokerDelivers(m))
    /\ WF_vars(Consume)
    /\ \A m \in Msg : WF_vars(TaskStep(m))
    /\ WF_vars(RabbitClose)
    /\ WF_vars(ConsumerFatal)
    /\ WF_vars(Restart)

FairSpec == Spec /\ Fairness

-----------------------------------------------------------------------------
(* What the dispatcher gets right. *)

LiveTasks == { m \in Msg : pc[m] # "idle" }

(* Every token in g.sem belongs to one live goroutine and every live goroutine
   holds one, whatever early return, failed call, crash or lost connection ends
   it: execution slots neither leak nor multiply. *)
SlotConservation == sem = Cardinality(LiveTasks)

Held == IF consumer = "select" THEN {} ELSE {cur}

(* While the connection is open, what the broker counts against the prefetch
   window is exactly what waits in the Go channel or is in the consumer's hands:
   no path through ConsumeJobs forgets to settle a delivery, so the window never
   closes for good. *)
CreditOwned == conn = "open" => unacked = buffer \cup Held

(* Up to the acknowledgement nothing is lost: a well-formed message the broker
   accepted is still with the broker or unsettled unless a task was spawned for
   it, through every crash, shutdown and lost connection. *)
HandedOver ==
    \A m \in published \ Garbled :
        m \in queue[JobsQueue] \cup unacked \/ lastSpawn[m] > 0

(* The executions map only names attempts that a runtime did start and whose
   rows still say running: the error paths of executeJob and its registration
   exclude each other. *)
RegisteredIsRunning ==
    \A a \in registry : a \in started /\ rowStatus[a] = "running"

(* Redelivery creates a second attempt only in a later life of the process: in
   one life a message has at most one attempt row, although it is settled after
   the task is spawned and a lost connection returns it to the queue. *)
OneAttemptPerLife ==
    \A a, b \in Attempt :
        /\ rowStatus[a] # "absent" /\ rowStatus[b] # "absent"
        /\ rowOf[a] = rowOf[b] /\ rowLife[a] = rowLife[b]
        => a = b

(* A row saying running is in the hands of a task, registered, or abandoned at
   one of the places that abandon rows: a commit whose answer is lost, NewRuntime's
   error, failAttempt's own error, the end of the process. *)
RunningIsAccountedFor ==
    \A a \in Attempt : rowStatus[a] = "running" =>
        \/ a \in registry \cup stranded
        \/ \E m \in Msg : pc[m] \in Owning /\ att[m] = a

(* A failed row is final, and nothing in the dispatcher ever settles an
   abandoned one: not a retry, not a later life of the process. *)
RowsSettleOnce ==
    [][\A a \in Attempt :
        a \in stranded \/ rowStatus[a] = "failed" => rowStatus'[a] = rowStatus[a]]_vars

(* Nobody waits for somebody who waits: a consumer that blocks on the slot channel
   leaves a task that will return its slot, and one that finds its channel empty has
   left the prefetch window open for the broker to deliver. *)
NeverStalled ==
    /\ consumer = "sem" /\ sem = MaxWorkers => LiveTasks # {}
    /\ conn = "open" /\ consumer = "select" /\ buffer = {} =>
         Cardinality(unacked) < MaxWorkers

DeliveryState ==
    [m \in Msg \ Garbled |->
        IF m \notin published THEN "none"
        ELSE IF m \in unacked /\ consumer = "ack" /\ cur = m THEN "begun"
        ELSE IF m \in queue[JobsQueue] \cup unacked THEN "owed" ELSE "settled"]

(* Messages that have begun a task in this life, and those whose task has yet to
   insert its row. *)
Barred  == { m \in Msg \ Garbled : lastSpawn[m] = life }
Untried == { m \in Msg \ Garbled : pc[m] \in {"load", "create"} }

AttemptsOf ==
    [m \in Msg \ Garbled |-> { a \in Attempt : rowStatus[a] # "absent" /\ rowOf[a] = m }]

(* At least one task for every message, at most one in each life of the process, at
   most one attempt for each task: JobDelivery, through crashes, shutdowns and lost
   connections at every point between delivery and acknowledgement. *)
Delivery == INSTANCE JobDelivery WITH
    Msg <- Msg \ Garbled,
    state <- DeliveryState, barred <- Barred, tasks <- Untried,
    attempts <- AttemptsOf
ImplementsDelivery == Delivery!Spec

Queued(m) == m \in queue[JobsQueue] /\ m \notin Garbled

Settled(m) ==
    /\ m \notin queue[JobsQueue] \cup unacked
    /\ lastSpawn[m] > 0
    /\ pc[m] = "idle"

(* README: "You push a job. Wardu routes it to the right worker pod". Every
   well-formed message in the queue is eventually given to a task that comes to
   its end, crashes, shutdowns and lost connections included. *)
Drains == \A m \in Msg : Queued(m) ~> Settled(m)

(* The same unless the process goes on for good without its connection: slots
   and prefetch window together never stall the consumer. *)
DrainsWhileConnected ==
    \A m \in Msg : Queued(m) ~> (Settled(m) \/ [](conn = "closed"))
=============================================================================
