-------------------------- MODULE DispatcherProofs --------------------------
(***************************************************************************)
(* The safety properties of Dispatcher, for every set of messages, every   *)
(* number of slots, attempts and restarts.                                 *)
(***************************************************************************)
EXTENDS Dispatcher, FiniteSetTheorems, TLAPS

(* Between two lives of the process nothing of it is left. *)
DownIsEmpty ==
    ~up => /\ conn = "closed"
           /\ consumer = "select"
           /\ \A m \in Msg : pc[m] = "idle"
           /\ registry = {}

(* The consumer holds one well-formed message, out of the channel, or none. *)
ConsumerOwns ==
    /\ consumer = "select" => cur = None
    /\ consumer # "select" => cur \in Msg \ Garbled /\ cur \notin buffer

(* A message is in one place of the broker at a time. *)
OnePlace ==
    /\ conn = "closed" => unacked = {} /\ buffer = {}
    /\ queue[JobsQueue] \cap unacked = {}
    /\ \A m \in Msg \ published :
        m \notin queue[JobsQueue] \cup unacked /\ m # cur /\ lastSpawn[m] = 0

(* Once a task for a message has been spawned in this life, the message cannot
   reach the consumer again in this life. *)
SpawnedOnce ==
    /\ \A m \in Msg : lastSpawn[m] <= life
    /\ \A m \in Msg : lastSpawn[m] = life =>
        /\ m \notin buffer
        /\ conn = "open" => m \notin queue[JobsQueue]
        /\ consumer = "sem" => cur # m
    /\ \A m \in Msg : pc[m] # "idle" => lastSpawn[m] = life
    /\ consumer = "ack" => lastSpawn[cur] = life

(* Rows name the message and the life they come from, and that message had been
   spawned by then; before it has inserted its row a task finds none. *)
RowsHaveOrigin ==
    /\ \A a \in Attempt : rowStatus[a] # "absent" =>
        /\ rowOf[a] \in Msg
        /\ rowLife[a] <= lastSpawn[rowOf[a]]
    /\ \A m \in Msg, a \in Attempt :
        pc[m] \in {"load", "create"} /\ rowStatus[a] # "absent" /\ rowOf[a] = m
        => rowLife[a] # life

(* A task between the insertion of its row and the hand-over owns that row. *)
TaskOwnsRow ==
    \A m \in Msg : pc[m] \in Owning =>
        /\ att[m] \in Attempt
        /\ rowOf[att[m]] = m
        /\ rowStatus[att[m]] = "running"
        /\ att[m] \notin registry \cup stranded
        /\ pc[m] = "register" => att[m] \in started

StrandedIsRunning == \A a \in stranded : rowStatus[a] = "running"

(* The two halves of the inductive invariant: where messages are, and what the
   attempt rows say of the tasks. *)
BrokerInv ==
    /\ DownIsEmpty /\ ConsumerOwns /\ OnePlace /\ SpawnedOnce
    /\ CreditOwned /\ HandedOver

RowInv ==
    /\ RowsHaveOrigin /\ TaskOwnsRow /\ StrandedIsRunning
    /\ RegisteredIsRunning /\ OneAttemptPerLife /\ RunningIsAccountedFor

IInv == TypeOK /\ SlotConservation /\ BrokerInv /\ RowInv

-----------------------------------------------------------------------------
(* Facts about the topology. *)

(* A message published under "job" goes to JobsQueue and nowhere else. *)
LEMMA RouteJob ==
    ASSUME queue \in [Queue -> SUBSET Msg], NEW m \in Msg
    PROVE  Route(queue, JobsExchange, "job", m)
             = [queue EXCEPT ![JobsQueue] = @ \cup {m}]
<1>1. Routed(JobsExchange, "job") = {JobsQueue}
  BY DEF Routed, Binding, Queue, JobsExchange, JobsDLX, JobsQueue, FailedQueue
<1>. QED
  BY <1>1 DEF Route, Queue, JobsQueue, FailedQueue

(* A dead-lettered message keeps the key "job", under which JobsDLX has no
   binding: it reaches no queue at all. *)
LEMMA RouteDead ==
    ASSUME queue \in [Queue -> SUBSET Msg], NEW m \in Msg
    PROVE  Route(queue, JobsDLX, "job", m) = queue
<1>1. Routed(JobsDLX, "job") = {}
  BY DEF Routed, Binding, Queue, JobsExchange, JobsDLX, JobsQueue, FailedQueue
<1>. QED
  BY <1>1 DEF Route, Queue, JobsQueue, FailedQueue

-----------------------------------------------------------------------------
(* The initial state satisfies the invariant. *)
LEMMA InitInv == Init => IInv
<1>. SUFFICES ASSUME Init PROVE IInv
  OBVIOUS
<1>. USE DispatcherAssumption, MsgAssumption, MaxWorkersAssumption DEF Init, QueueInit
<1>1. TypeOK
  <2>1. QueueTypeOK
    BY DEF QueueTypeOK, Queue, JobsQueue, FailedQueue
  <2>2. life \in 1 .. MaxLives /\ sem \in 0 .. MaxWorkers
    OBVIOUS
  <2>5. up \in BOOLEAN /\ ctxDone \in BOOLEAN
    BY Zenon
  <2>3. /\ pc \in [Msg -> Task] /\ att \in [Msg -> Attempt \cup {0}]
        /\ lastSpawn \in [Msg -> 0 .. MaxLives]
    BY DEF Task
  <2>4. /\ rowStatus \in [Attempt -> {"absent", "running", "failed"}]
        /\ rowOf \in [Attempt -> Msg \cup {None}]
        /\ rowLife \in [Attempt -> 0 .. MaxLives]
    OBVIOUS
  <2>. QED
    BY <2>1, <2>2, <2>3, <2>4, <2>5 DEF TypeOK
<1>2. SlotConservation
  <2>1. LiveTasks = {}
    BY DEF LiveTasks
  <2>. QED
    BY <2>1, FS_EmptySet DEF SlotConservation
<1>3. BrokerInv
  BY DEF BrokerInv, DownIsEmpty, ConsumerOwns, OnePlace, SpawnedOnce, CreditOwned,
         HandedOver, Held, Queue, JobsQueue, FailedQueue
<1>4. RowInv
  BY DEF RowInv, RowsHaveOrigin, TaskOwnsRow, StrandedIsRunning, RegisteredIsRunning,
         OneAttemptPerLife, RunningIsAccountedFor, Owning
<1>. QED
  BY <1>1, <1>2, <1>3, <1>4 DEF IInv
-----------------------------------------------------------------------------
(* Steps that leave one half of the state alone keep that half's invariant. *)

(* Steps that touch neither tasks nor rows keep everything said about rows. *)
LEMMA RowsKept ==
    ASSUME RowInv,
           UNCHANGED <<taskVars, rowVars, life, started, stranded, registry>>,
           UNCHANGED lastSpawn
    PROVE  RowInv'
BY DEF RowInv, RowsHaveOrigin, TaskOwnsRow, StrandedIsRunning, RegisteredIsRunning,
       OneAttemptPerLife, RunningIsAccountedFor, taskVars, rowVars

(* Steps that touch neither tasks nor g.sem keep the slots conserved. *)
LEMMA SlotsKept ==
    ASSUME SlotConservation, UNCHANGED <<pc, sem>>
    PROVE  SlotConservation'
BY DEF SlotConservation, LiveTasks

(* A task that moves on without ending keeps its slot. *)
LEMMA SlotsMove ==
    ASSUME TypeOK, SlotConservation, sem' = sem,
           NEW m \in Msg, pc[m] # "idle",
           NEW s \in Task, s # "idle", Goto(m, s)
    PROVE  SlotConservation'
<1>1. LiveTasks' = LiveTasks
  BY DEF LiveTasks, Goto, TypeOK
<1>. QED
  BY <1>1 DEF SlotConservation

(* No step of a live task disturbs the broker or the consumer. *)
LEMMA BrokerKept ==
    ASSUME TypeOK, BrokerInv,
           NEW m \in Msg, pc[m] # "idle",
           NEW s \in Task, Goto(m, s),
           UNCHANGED <<queueVars, up, life, consVars, lastSpawn>>
    PROVE  BrokerInv'
<1>. USE DEF BrokerInv, queueVars, consVars
<1>1. DownIsEmpty'
  BY DEF DownIsEmpty
<1>2. ConsumerOwns' /\ OnePlace' /\ CreditOwned' /\ HandedOver'
  BY DEF ConsumerOwns, OnePlace, CreditOwned, HandedOver, Held
<1>3. SpawnedOnce'
  BY DEF SpawnedOnce, Goto, TypeOK
<1>. QED
  BY <1>1, <1>2, <1>3
-----------------------------------------------------------------------------
(* The broker and the consumer. *)

(* RunJob and the other publishers only add a ready message. *)
LEMMA PublishInv ==
    ASSUME IInv, NEW m \in Msg, PublishJob(m),
           UNCHANGED <<taskVars, rowVars, procVars, consVars, histVars, sem, registry>>
    PROVE  IInv'
<1>. USE DEF IInv, procVars, consVars, histVars, taskVars, rowVars
<1>1. queue' = [queue EXCEPT ![JobsQueue] = @ \cup {m}]
  BY RouteJob DEF PublishJob, TypeOK, QueueTypeOK
<1>2. TypeOK'
  BY <1>1 DEF TypeOK, QueueTypeOK, PublishJob, Queue
<1>3. BrokerInv'
  <2>1. DownIsEmpty' /\ ConsumerOwns' /\ CreditOwned' /\ HandedOver'
    BY <1>1 DEF BrokerInv, DownIsEmpty, ConsumerOwns, CreditOwned, HandedOver, Held,
                PublishJob, TypeOK, QueueTypeOK, Queue
  <2>2. OnePlace' /\ SpawnedOnce'
    BY <1>1 DEF BrokerInv, OnePlace, SpawnedOnce, PublishJob, TypeOK, QueueTypeOK, Queue
  <2>. QED
    BY <2>1, <2>2 DEF BrokerInv
<1>. QED
  BY <1>2, <1>3, SlotsKept, RowsKept

(* The broker pushes within the window: credit stays with the Go channel. *)
LEMMA DeliverInv ==
    ASSUME IInv, NEW m \in Msg, BrokerDelivers(m)
    PROVE  IInv'
<1>. USE DEF IInv, BrokerDelivers, Deliver, procVars, consVars, histVars, taskVars, rowVars
<1>1. TypeOK'
  BY DEF TypeOK, QueueTypeOK, Queue
<1>2. BrokerInv'
  <2>1. DownIsEmpty' /\ CreditOwned' /\ HandedOver'
    BY DEF BrokerInv, DownIsEmpty, CreditOwned, HandedOver, Held, TypeOK, QueueTypeOK, Queue
  <2>2. ConsumerOwns' /\ OnePlace' /\ SpawnedOnce'
    BY DEF BrokerInv, ConsumerOwns, OnePlace, SpawnedOnce, CreditOwned, Held,
           TypeOK, QueueTypeOK, Queue
  <2>. QED
    BY <2>1, <2>2 DEF BrokerInv
<1>. QED
  BY <1>1, <1>2, SlotsKept, RowsKept

(* ConsumeJobs takes a delivery into its hands, still unsettled. *)
LEMMA TakeInv ==
    ASSUME IInv, NEW m \in Msg, ConsumerTake(m)
    PROVE  IInv'
<1>. USE DEF IInv, ConsumerTake, Receive, procVars, histVars, taskVars, rowVars
<1>1. TypeOK'
  BY DEF TypeOK, QueueTypeOK
<1>2. BrokerInv'
  <2>1. DownIsEmpty' /\ CreditOwned' /\ HandedOver'
    BY DEF BrokerInv, DownIsEmpty, CreditOwned, HandedOver, Held
  <2>2. ConsumerOwns' /\ OnePlace' /\ SpawnedOnce'
    BY DEF BrokerInv, ConsumerOwns, OnePlace, SpawnedOnce, CreditOwned, Held,
           TypeOK, QueueTypeOK
  <2>. QED
    BY <2>1, <2>2 DEF BrokerInv
<1>. QED
  BY <1>1, <1>2, SlotsKept, RowsKept

(* ConsumeJobs nacks an unparsable delivery, which settles it. *)
LEMMA RejectInv ==
    ASSUME IInv, NEW m \in Msg, ConsumerReject(m)
    PROVE  IInv'
<1>. USE DEF IInv, ConsumerReject, Reject, procVars, consVars, histVars, taskVars, rowVars
<1>1. queue' = queue
  BY RouteDead DEF TypeOK, QueueTypeOK
<1>2. TypeOK'
  BY <1>1 DEF TypeOK, QueueTypeOK
<1>3. BrokerInv'
  BY <1>1 DEF BrokerInv, DownIsEmpty, ConsumerOwns, OnePlace, SpawnedOnce, CreditOwned,
              HandedOver, Held
<1>. QED
  BY <1>2, <1>3, SlotsKept, RowsKept

(* ConsumeJobs acknowledges a message a task has been spawned for. *)
LEMMA AckInv ==
    ASSUME IInv, ConsumerAck
    PROVE  IInv'
<1>. USE DEF IInv, ConsumerAck, Ack, procVars, histVars, taskVars, rowVars
<1>1. TypeOK'
  BY DEF TypeOK, QueueTypeOK
<1>2. BrokerInv'
  <2>1. DownIsEmpty' /\ ConsumerOwns' /\ OnePlace' /\ SpawnedOnce'
    BY DispatcherAssumption DEF BrokerInv, DownIsEmpty, ConsumerOwns, OnePlace, SpawnedOnce
  <2>2. CreditOwned' /\ HandedOver'
    BY DEF BrokerInv, ConsumerOwns, SpawnedOnce, CreditOwned, HandedOver, Held,
           TypeOK, QueueTypeOK
  <2>. QED
    BY <2>1, <2>2 DEF BrokerInv
<1>. QED
  BY <1>1, <1>2, SlotsKept, RowsKept

(* The connection ends while the process goes on. *)
LEMMA DisconnectInv ==
    ASSUME IInv, up, Disconnect,
           UNCHANGED <<taskVars, rowVars, procVars, consVars, histVars, sem, registry>>
    PROVE  IInv'
<1>. USE DEF IInv, Disconnect, procVars, consVars, histVars, taskVars, rowVars
<1>1. TypeOK'
  BY DEF TypeOK, QueueTypeOK, Queue
<1>2. BrokerInv'
  BY DEF BrokerInv, DownIsEmpty, ConsumerOwns, OnePlace, SpawnedOnce, CreditOwned,
         HandedOver, Held, TypeOK, QueueTypeOK, Queue
<1>. QED
  BY <1>1, <1>2, SlotsKept, RowsKept

(* The spawned message had no task and no attempt in this life. *)
LEMMA SpawnInv ==
    ASSUME IInv, HandlerSpawn
    PROVE  IInv'
<1>. USE DEF IInv, HandlerSpawn, queueVars, procVars, rowVars
<1>1. cur \in Msg \ Garbled /\ lastSpawn[cur] # life /\ pc[cur] = "idle"
  BY DEF BrokerInv, ConsumerOwns, SpawnedOnce, TypeOK
<1>2. TypeOK'
  BY <1>1, MaxWorkersAssumption DEF TypeOK, QueueTypeOK, Task
<1>3. SlotConservation'
  <2>1. LiveTasks' = LiveTasks \cup {cur} /\ cur \notin LiveTasks
    BY <1>1 DEF LiveTasks, TypeOK
  <2>2. IsFiniteSet(LiveTasks)
    BY MsgAssumption, FS_Subset DEF LiveTasks
  <2>. QED
    BY <2>1, <2>2, FS_AddElement DEF SlotConservation
<1>4. BrokerInv'
  <2>1. DownIsEmpty' /\ ConsumerOwns' /\ OnePlace' /\ CreditOwned'
    BY <1>1 DEF BrokerInv, DownIsEmpty, ConsumerOwns, OnePlace, CreditOwned, Held, TypeOK
  <2>2. SpawnedOnce'
    BY <1>1 DEF BrokerInv, ConsumerOwns, OnePlace, SpawnedOnce, CreditOwned, Held,
                TypeOK, QueueTypeOK
  <2>3. HandedOver'
    BY <1>1 DEF BrokerInv, HandedOver, TypeOK
  <2>. QED
    BY <2>1, <2>2, <2>3 DEF BrokerInv
<1>5. RowInv'
  <2>1. RowsHaveOrigin'
    BY <1>1 DEF RowInv, RowsHaveOrigin, BrokerInv, SpawnedOnce, TypeOK
  <2>2. TaskOwnsRow' /\ RunningIsAccountedFor'
    BY <1>1 DEF RowInv, TaskOwnsRow, RunningIsAccountedFor, Owning, TypeOK
  <2>3. StrandedIsRunning' /\ RegisteredIsRunning' /\ OneAttemptPerLife'
    BY DEF RowInv, StrandedIsRunning, RegisteredIsRunning, OneAttemptPerLife
  <2>. QED
    BY <2>1, <2>2, <2>3 DEF RowInv
<1>. QED
  BY <1>2, <1>3, <1>4, <1>5

-----------------------------------------------------------------------------
(* The steps of a task. *)

(* A task that goes from "load" to "create", or drops out of either. *)
LEMMA EarlyTaskInv ==
    ASSUME IInv, NEW m \in Msg, NEW s \in {"create", "exit"},
           pc[m] \in {"load", "create"}, Goto(m, s),
           UNCHANGED <<queueVars, att, rowVars, procVars, consVars, histVars, sem, registry>>
    PROVE  IInv'
<1>. USE DEF IInv, procVars, consVars, histVars, rowVars
<1>1. TypeOK'
  BY DEF TypeOK, QueueTypeOK, queueVars, Task, Goto
<1>2. SlotConservation' /\ BrokerInv'
  BY SlotsMove, BrokerKept DEF Task
<1>3. RowInv'
  <2>1. RowsHaveOrigin' /\ TaskOwnsRow' /\ RunningIsAccountedFor'
    BY DEF RowInv, RowsHaveOrigin, TaskOwnsRow, RunningIsAccountedFor, Owning, Goto, TypeOK
  <2>2. StrandedIsRunning' /\ RegisteredIsRunning' /\ OneAttemptPerLife'
    BY DEF RowInv, StrandedIsRunning, RegisteredIsRunning, OneAttemptPerLife
  <2>. QED
    BY <2>1, <2>2 DEF RowInv
<1>. QED
  BY <1>1, <1>2, <1>3

(* GetJobForExecution, found or not. *)
LEMMA LoadInv ==
    ASSUME IInv, NEW m \in Msg, LoadJob(m)
    PROVE  IInv'
BY EarlyTaskInv DEF LoadJob

(* The new row is the first one for its message in this life; its task owns it, or
   never hears of it. *)
LEMMA NewRowInv ==
    ASSUME IInv, NEW m \in Msg, NEW a \in NextAttempt, pc[m] = "create",
           InsertAttempt(m, a),
           UNCHANGED <<queueVars, procVars, consVars, started, lastSpawn, sem, registry>>,
           \/ Goto(m, "scale") /\ att' = [att EXCEPT ![m] = a] /\ UNCHANGED stranded
           \/ Goto(m, "exit") /\ stranded' = stranded \cup {a} /\ UNCHANGED att
    PROVE  IInv'
<1>. USE DEF IInv, procVars, consVars, InsertAttempt
<1>1. a \in Attempt /\ rowStatus[a] = "absent"
  BY DEF NextAttempt
<1>2. TypeOK'
  BY <1>1 DEF TypeOK, QueueTypeOK, queueVars, Task, Goto
<1>3. SlotConservation' /\ BrokerInv'
  BY SlotsMove, BrokerKept DEF Task
<1>4. RowInv'
  <2>1. RowsHaveOrigin'
    BY <1>1 DEF RowInv, RowsHaveOrigin, BrokerInv, SpawnedOnce, Goto, TypeOK
  <2>2. a \notin registry \cup stranded
    BY <1>1 DEF RowInv, StrandedIsRunning, RegisteredIsRunning
  <2>3. TaskOwnsRow'
    BY <1>1, <2>2 DEF RowInv, TaskOwnsRow, Owning, Goto, TypeOK
  <2>4. StrandedIsRunning' /\ RegisteredIsRunning'
    BY <1>1, <2>2 DEF RowInv, StrandedIsRunning, RegisteredIsRunning, TypeOK
  <2>5. OneAttemptPerLife'
    BY <1>1 DEF RowInv, RowsHaveOrigin, OneAttemptPerLife, TypeOK
  <2>6. RunningIsAccountedFor'
    BY <1>1 DEF RowInv, TaskOwnsRow, RunningIsAccountedFor, Owning, Goto, TypeOK
  <2>. QED
    BY <2>1, <2>3, <2>4, <2>5, <2>6 DEF RowInv
<1>. QED
  BY <1>2, <1>3, <1>4

(* CreateJobAttempt succeeds. *)
LEMMA CreateInv ==
    ASSUME IInv, NEW m \in Msg, CreateAttempt(m)
    PROVE  IInv'
BY NewRowInv DEF CreateAttempt, histVars

(* CreateJobAttempt fails: the task ends, with or without a row left behind. *)
LEMMA CreateErrInv ==
    ASSUME IInv, NEW m \in Msg, CreateAttemptErr(m)
    PROVE  IInv'
<1>1. CASE UNCHANGED <<rowVars, stranded>>
  BY <1>1, EarlyTaskInv DEF CreateAttemptErr, histVars
<1>2. CASE \E a \in NextAttempt : InsertAttempt(m, a) /\ stranded' = stranded \cup {a}
  BY <1>2, NewRowInv DEF CreateAttemptErr
<1>. QED
  BY <1>1, <1>2 DEF CreateAttemptErr

(* A task that owns its row and goes on, or to failAttempt. *)
LEMMA OwningTaskInv ==
    ASSUME IInv, NEW m \in Msg, pc[m] \in {"scale", "select", "dial"},
           NEW s \in {"select", "dial", "run", "fail"}, Goto(m, s),
           UNCHANGED <<queueVars, att, rowVars, procVars, consVars, histVars, sem, registry>>
    PROVE  IInv'
<1>. USE DEF IInv, procVars, consVars, histVars, rowVars
<1>1. TypeOK'
  BY DEF TypeOK, QueueTypeOK, queueVars, Task, Goto
<1>2. SlotConservation' /\ BrokerInv'
  BY SlotsMove, BrokerKept DEF Task
<1>3. RowInv'
  <2>1. RowsHaveOrigin' /\ TaskOwnsRow' /\ RunningIsAccountedFor'
    BY DEF RowInv, RowsHaveOrigin, TaskOwnsRow, RunningIsAccountedFor, Owning, Goto, TypeOK
  <2>2. StrandedIsRunning' /\ RegisteredIsRunning' /\ OneAttemptPerLife'
    BY DEF RowInv, StrandedIsRunning, RegisteredIsRunning, OneAttemptPerLife
  <2>. QED
    BY <2>1, <2>2 DEF RowInv
<1>. QED
  BY <1>1, <1>2, <1>3

(* ScaleWorker, and its way to failAttempt. *)
LEMMA ScaleInv ==
    ASSUME IInv, NEW m \in Msg, ScaleWorker(m)
    PROVE  IInv'
BY OwningTaskInv DEF ScaleWorker

(* SelectPod, and its way to failAttempt. *)
LEMMA SelectInv ==
    ASSUME IInv, NEW m \in Msg, SelectPod(m)
    PROVE  IInv'
BY OwningTaskInv DEF SelectPod

(* NewRuntime succeeds. *)
LEMMA DialInv ==
    ASSUME IInv, NEW m \in Msg, NewRuntime(m)
    PROVE  IInv'
BY OwningTaskInv DEF NewRuntime

(* runtime.Run: the response, or an error with or without an execution. *)
LEMMA RunInv ==
    ASSUME IInv, NEW m \in Msg, RunRpc(m)
    PROVE  IInv'
<1>. USE DEF IInv, procVars, consVars, rowVars
<1>1. PICK s \in {"register", "fail"} :
        /\ Goto(m, s)
        /\ started' \in {started, started \cup {att[m]}}
        /\ s = "register" => att[m] \in started'
  BY DEF RunRpc
<1>2. /\ pc[m] = "run"
      /\ UNCHANGED <<queueVars, att, rowVars, procVars, consVars, lastSpawn, stranded, sem, registry>>
  BY DEF RunRpc
<1>3. att[m] \in Attempt
  BY <1>2 DEF RowInv, TaskOwnsRow, Owning
<1>4. TypeOK'
  BY <1>1, <1>2, <1>3 DEF TypeOK, QueueTypeOK, queueVars, Task, Goto
<1>5. SlotConservation' /\ BrokerInv'
  BY <1>1, <1>2, SlotsMove, BrokerKept DEF Task
<1>6. RowInv'
  <2>1. RowsHaveOrigin' /\ TaskOwnsRow' /\ RunningIsAccountedFor'
    BY <1>1, <1>2 DEF RowInv, RowsHaveOrigin, TaskOwnsRow, RunningIsAccountedFor, Owning,
                      Goto, TypeOK
  <2>2. StrandedIsRunning' /\ RegisteredIsRunning' /\ OneAttemptPerLife'
    BY <1>1, <1>2 DEF RowInv, StrandedIsRunning, RegisteredIsRunning, OneAttemptPerLife
  <2>. QED
    BY <2>1, <2>2 DEF RowInv
<1>. QED
  BY <1>4, <1>5, <1>6

(* The owner of a row leaves it: registered, failed or abandoned. *)
LEMMA LeaveRowInv ==
    ASSUME IInv, NEW m \in Msg, pc[m] \in {"dial", "register", "fail"}, Goto(m, "exit"),
           UNCHANGED <<queueVars, att, rowOf, rowLife, procVars, consVars, started,
                       lastSpawn, sem>>,
           \/ /\ pc[m] = "register"
              /\ registry' = registry \cup {att[m]}
              /\ UNCHANGED <<rowStatus, stranded>>
           \/ /\ rowStatus' = [rowStatus EXCEPT ![att[m]] = "failed"]
              /\ UNCHANGED <<registry, stranded>>
           \/ /\ stranded' = stranded \cup {att[m]}
              /\ UNCHANGED <<rowStatus, registry>>
    PROVE  IInv'
<1>. USE DEF IInv, procVars, consVars
<1>1. /\ att[m] \in Attempt /\ rowStatus[att[m]] = "running"
      /\ rowOf[att[m]] = m /\ att[m] \notin registry \cup stranded
      /\ pc[m] = "register" => att[m] \in started
  BY DEF RowInv, TaskOwnsRow, Owning
<1>2. TypeOK'
  BY <1>1 DEF TypeOK, QueueTypeOK, queueVars, Task, Goto
<1>3. SlotConservation' /\ BrokerInv'
  BY SlotsMove, BrokerKept DEF Task
<1>4. RowInv'
  <2>1. RowsHaveOrigin' /\ OneAttemptPerLife'
    BY <1>1 DEF RowInv, RowsHaveOrigin, OneAttemptPerLife, Goto, TypeOK
  <2>2. TaskOwnsRow'
    BY <1>1 DEF RowInv, TaskOwnsRow, Owning, Goto, TypeOK
  <2>3. RunningIsAccountedFor'
    BY <1>1 DEF RowInv, TaskOwnsRow, RunningIsAccountedFor, Owning, Goto, TypeOK
  <2>4. StrandedIsRunning' /\ RegisteredIsRunning'
    BY <1>1 DEF RowInv, StrandedIsRunning, RegisteredIsRunning, TypeOK
  <2>. QED
    BY <2>1, <2>2, <2>3, <2>4 DEF RowInv
<1>. QED
  BY <1>2, <1>3, <1>4

(* NewRuntime's error return abandons the row. *)
LEMMA DialErrInv ==
    ASSUME IInv, NEW m \in Msg, NewRuntimeErr(m)
    PROVE  IInv'
BY LeaveRowInv DEF NewRuntimeErr, rowVars

(* The execution is registered under g.mu. *)
LEMMA RegisterInv ==
    ASSUME IInv, NEW m \in Msg, Register(m)
    PROVE  IInv'
BY LeaveRowInv DEF Register, rowVars, histVars

(* failAttempt records the failure. *)
LEMMA FailInv ==
    ASSUME IInv, NEW m \in Msg, FailAttempt(m)
    PROVE  IInv'
BY LeaveRowInv DEF FailAttempt, histVars

(* failAttempt's own error abandons the row. *)
LEMMA FailErrInv ==
    ASSUME IInv, NEW m \in Msg, FailAttemptErr(m)
    PROVE  IInv'
BY LeaveRowInv DEF FailAttemptErr, rowVars

(* The deferred release returns exactly the slot of the task that ends. *)
LEMMA ReleaseInv ==
    ASSUME IInv, NEW m \in Msg, Release(m)
    PROVE  IInv'
<1>. USE DEF IInv, Release, procVars, consVars, histVars, rowVars
<1>1. IsFiniteSet(LiveTasks) /\ m \in LiveTasks /\ LiveTasks' = LiveTasks \ {m}
  BY MsgAssumption, FS_Subset DEF LiveTasks, Goto, TypeOK
<1>2. SlotConservation' /\ sem > 0
  <2>1. Cardinality(LiveTasks') = Cardinality(LiveTasks) - 1
    BY <1>1, FS_RemoveElement
  <2>2. Cardinality(LiveTasks) \in Nat /\ Cardinality(LiveTasks') \in Nat
    BY <1>1, FS_CardinalityType, FS_RemoveElement
  <2>. QED
    BY <2>1, <2>2 DEF SlotConservation
<1>3. TypeOK'
  BY <1>2, MaxWorkersAssumption DEF TypeOK, QueueTypeOK, queueVars, Task, Goto
<1>4. BrokerInv'
  BY BrokerKept DEF Task
<1>5. RowInv'
  <2>1. RowsHaveOrigin' /\ TaskOwnsRow'
    BY DEF RowInv, RowsHaveOrigin, TaskOwnsRow, Owning, Goto, TypeOK
  <2>2. RunningIsAccountedFor'
    BY DEF RowInv, RunningIsAccountedFor, Owning, Goto, TypeOK
  <2>3. StrandedIsRunning' /\ RegisteredIsRunning' /\ OneAttemptPerLife'
    BY DEF RowInv, StrandedIsRunning, RegisteredIsRunning, OneAttemptPerLife
  <2>. QED
    BY <2>1, <2>2, <2>3 DEF RowInv
<1>. QED
  BY <1>2, <1>3, <1>4, <1>5

(* Every step of executeJob preserves the invariant. *)
LEMMA TaskInv ==
    ASSUME IInv, NEW m \in Msg, TaskStep(m)
    PROVE  IInv'
BY LoadInv, CreateInv, CreateErrInv, ScaleInv, SelectInv, DialInv, DialErrInv, RunInv,
   RegisterInv, FailInv, FailErrInv, ReleaseInv DEF TaskStep

-----------------------------------------------------------------------------
(* The life of the process. *)

(* The end of the process, however it comes, leaves nothing live behind. *)
LEMMA EndInv ==
    ASSUME IInv, ProcessEnds
    PROVE  IInv'
<1>. USE DEF IInv, ProcessEnds, Disconnect, rowVars
<1>1. TypeOK'
  <2>1. QueueTypeOK' /\ sem' \in 0 .. MaxWorkers /\ registry' \subseteq Attempt
        /\ stranded' \subseteq Attempt
    BY MaxWorkersAssumption DEF TypeOK, QueueTypeOK, Queue
  <2>2. pc' \in [Msg -> Task] /\ att' \in [Msg -> Attempt \cup {0}]
    BY DEF Task
  <2>3. up' \in BOOLEAN /\ ctxDone' \in BOOLEAN
    BY Zenon
  <2>. QED
    BY <2>1, <2>2, <2>3 DEF TypeOK
<1>2. SlotConservation'
  <2>1. LiveTasks' = {}
    BY DEF LiveTasks
  <2>. QED
    BY <2>1, FS_EmptySet DEF SlotConservation
<1>3. BrokerInv'
  <2>1. DownIsEmpty' /\ ConsumerOwns' /\ CreditOwned' /\ OnePlace'
    BY DispatcherAssumption DEF BrokerInv, DownIsEmpty, ConsumerOwns, OnePlace, CreditOwned,
        Held, TypeOK, QueueTypeOK, Queue
  <2>2. SpawnedOnce' /\ HandedOver'
    BY DEF BrokerInv, SpawnedOnce, HandedOver, TypeOK, QueueTypeOK, Queue
  <2>. QED
    BY <2>1, <2>2 DEF BrokerInv
<1>4. RowInv'
  BY DEF RowInv, RowsHaveOrigin, TaskOwnsRow, StrandedIsRunning, RegisteredIsRunning,
         OneAttemptPerLife, RunningIsAccountedFor, Owning, TypeOK
<1>. QED
  BY <1>1, <1>2, <1>3, <1>4

(* A signal only cancels the root context. *)
LEMMA SigtermInv ==
    ASSUME IInv, Sigterm
    PROVE  IInv'
<1>. USE DEF IInv, Sigterm, queueVars, consVars, histVars, taskVars, rowVars
<1>1. TypeOK'
  BY DEF TypeOK, QueueTypeOK
<1>2. BrokerInv'
  BY DEF BrokerInv, DownIsEmpty, ConsumerOwns, OnePlace, SpawnedOnce, CreditOwned,
         HandedOver, Held
<1>. QED
  BY <1>1, <1>2, SlotsKept, RowsKept

(* A new life begins: no task, row or spawn belongs to it yet. *)
LEMMA RestartInv ==
    ASSUME IInv, Restart
    PROVE  IInv'
<1>. USE DEF IInv, Restart, Connect, consVars, histVars, taskVars, rowVars
<1>1. TypeOK'
  <2>1. life' \in 1 .. MaxLives
    BY DispatcherAssumption DEF TypeOK
  <2>2. up' \in BOOLEAN
    BY Zenon
  <2>. QED
    BY <2>1, <2>2 DEF TypeOK, QueueTypeOK
<1>2. BrokerInv'
  <2>1. DownIsEmpty' /\ ConsumerOwns' /\ OnePlace' /\ CreditOwned' /\ HandedOver'
    BY DEF BrokerInv, DownIsEmpty, ConsumerOwns, OnePlace, CreditOwned, HandedOver, Held
  <2>2. SpawnedOnce'
    BY DEF BrokerInv, DownIsEmpty, SpawnedOnce, TypeOK
  <2>. QED
    BY <2>1, <2>2 DEF BrokerInv
<1>3. RowInv'
  BY DEF RowInv, RowsHaveOrigin, TaskOwnsRow, StrandedIsRunning, RegisteredIsRunning,
         OneAttemptPerLife, RunningIsAccountedFor, BrokerInv, DownIsEmpty, Owning
<1>. QED
  BY <1>1, <1>2, <1>3, SlotsKept

-----------------------------------------------------------------------------
(* Every step preserves the invariant. *)
LEMMA NextInv == IInv /\ [Next]_vars => IInv'
<1>. SUFFICES ASSUME IInv, [Next]_vars PROVE IInv'
  OBVIOUS
<1>1. CASE \E m \in Msg : RunJob(m) \/ AutorunPublish(m) \/ ForeignPublish(m)
  BY <1>1, PublishInv DEF RunJob, AutorunPublish, ForeignPublish
<1>2. CASE \E m \in Msg : BrokerDelivers(m)
  BY <1>2, DeliverInv
<1>3. CASE Consume
  BY <1>3, TakeInv, RejectInv, SpawnInv, AckInv DEF Consume
<1>4. CASE \E m \in Msg : TaskStep(m)
  BY <1>4, TaskInv
<1>5. CASE Crash \/ MainReturns \/ ConsumerFatal
  BY <1>5, EndInv DEF Crash, MainReturns, ConsumerFatal
<1>6. CASE RabbitClose \/ ConnLost
  BY <1>6, DisconnectInv DEF RabbitClose, ConnLost
<1>7. CASE Sigterm
  BY <1>7, SigtermInv
<1>8. CASE Restart
  BY <1>8, RestartInv
<1>9. CASE UNCHANGED vars
  <2>1. TypeOK' /\ BrokerInv'
    BY <1>9 DEF vars, IInv, TypeOK, QueueTypeOK, queueVars, procVars, consVars, histVars,
                taskVars, rowVars, BrokerInv, DownIsEmpty, ConsumerOwns, OnePlace,
                SpawnedOnce, CreditOwned, HandedOver, Held
  <2>. QED
    BY <1>9, <2>1, SlotsKept, RowsKept
       DEF vars, IInv, procVars, histVars, taskVars
<1>. QED
  BY <1>1, <1>2, <1>3, <1>4, <1>5, <1>6, <1>7, <1>8, <1>9 DEF Next

(* The inductive invariant holds in every reachable state of the dispatcher,
   for any number of messages, slots, attempts and restarts. *)
THEOREM Invariance == Spec => []IInv
<1>1. Init => IInv
  BY InitInv
<1>2. IInv /\ [Next]_vars => IInv'
  BY NextInv
<1>. QED
  BY <1>1, <1>2, PTL DEF Spec

(* In every reachable state the variables have their types; sem never exceeds
   MAX_WORKERS nor drops below zero, so neither `g.sem <-` nor `<-g.sem` is
   ever short of its counterpart. *)
THEOREM TypeCorrect == Spec => []TypeOK
BY Invariance, PTL DEF IInv

(* Slots are conserved: g.sem holds one token per live task whatever failure,
   crash or lost connection interleaves with the tasks. *)
THEOREM SlotsConserved == Spec => []SlotConservation
BY Invariance, PTL DEF IInv

(* No delivery is forgotten by the consumer: the prefetch window is filled by
   the Go channel and the message in hand only. *)
THEOREM CreditConserved == Spec => []CreditOwned
BY Invariance, PTL DEF IInv, BrokerInv

(* At-least-once up to the spawn: the broker keeps a message until a task for
   it has been spawned. *)
THEOREM NothingLostBeforeSpawn == Spec => []HandedOver
BY Invariance, PTL DEF IInv, BrokerInv

(* The executions map names started attempts whose rows say running. *)
THEOREM RegistrySound == Spec => []RegisteredIsRunning
BY Invariance, PTL DEF IInv, RowInv

(* Redelivery never gives a message two attempts in one life of the process. *)
THEOREM NoDoubleAttempt == Spec => []OneAttemptPerLife
BY Invariance, PTL DEF IInv, RowInv

(* Running rows are owned, registered, or abandoned at a known place. *)
THEOREM RunningRowsAccounted == Spec => []RunningIsAccountedFor
BY Invariance, PTL DEF IInv, RowInv

(* Only the insertion of a row and failAttempt write a status, and neither
   meets a row that has failed or been abandoned. *)
LEMMA SettledStay ==
    ASSUME IInv, [Next]_vars
    PROVE  \A a \in Attempt :
             a \in stranded \/ rowStatus[a] = "failed" => rowStatus'[a] = rowStatus[a]
<1>1. CASE UNCHANGED rowStatus
  BY <1>1
<1>2. CASE \E m \in Msg, b \in NextAttempt : InsertAttempt(m, b)
  BY <1>2 DEF InsertAttempt, NextAttempt, IInv, RowInv, StrandedIsRunning, TypeOK
<1>3. CASE \E m \in Msg : FailAttempt(m)
  BY <1>3 DEF FailAttempt, IInv, RowInv, TaskOwnsRow, Owning, TypeOK
<1>4. \/ UNCHANGED rowStatus
      \/ \E m \in Msg, b \in NextAttempt : InsertAttempt(m, b)
      \/ \E m \in Msg : FailAttempt(m)
  <2>1. CASE \E m \in Msg : TaskStep(m)
    BY <2>1 DEF TaskStep, LoadJob, CreateAttempt, CreateAttemptErr, ScaleWorker, SelectPod, NewRuntime,
                NewRuntimeErr, RunRpc, Register, FailAttemptErr, Release, rowVars,
                histVars
  <2>2. CASE Consume \/ \E m \in Msg : BrokerDelivers(m)
    BY <2>2 DEF Consume, ConsumerTake, ConsumerReject, HandlerSpawn, ConsumerAck,
                BrokerDelivers, rowVars
  <2>3. CASE \E m \in Msg : RunJob(m) \/ AutorunPublish(m) \/ ForeignPublish(m)
    BY <2>3 DEF RunJob, AutorunPublish, ForeignPublish, rowVars
  <2>4. CASE \/ Crash \/ Sigterm \/ RabbitClose \/ MainReturns \/ ConsumerFatal
             \/ ConnLost \/ Restart \/ UNCHANGED vars
    BY <2>4 DEF Crash, Sigterm, RabbitClose, MainReturns, ConsumerFatal, ProcessEnds,
                ConnLost, Restart, rowVars, vars
  <2>. QED
    BY <2>1, <2>2, <2>3, <2>4 DEF Next
<1>. QED
  BY <1>1, <1>2, <1>3, <1>4

(* A failed row is final and an abandoned one is never settled by anybody, in
   this life of the dispatcher or a later one. *)
THEOREM RowsAreFinal == Spec => RowsSettleOnce
<1>1. IInv /\ [Next]_vars =>
        [\A a \in Attempt :
          a \in stranded \/ rowStatus[a] = "failed" => rowStatus'[a] = rowStatus[a]]_vars
  BY SettledStay
<1>. QED
  BY <1>1, Invariance, PTL DEF Spec, RowsSettleOnce

(* The consumer never waits for a slot that nobody holds, nor on an empty channel
   behind a full prefetch window. *)
THEOREM ConsumerNeverStalls == Spec => []NeverStalled
<1>1. IInv => NeverStalled
  <2>. SUFFICES ASSUME IInv PROVE NeverStalled
    OBVIOUS
  <2>1. LiveTasks = {} => sem = 0
    BY FS_EmptySet DEF IInv, SlotConservation
  <2>2. conn = "open" /\ consumer = "select" /\ buffer = {} => Cardinality(unacked) = 0
    BY FS_EmptySet DEF IInv, BrokerInv, CreditOwned, Held
  <2>. QED
    BY <2>1, <2>2, MaxWorkersAssumption DEF NeverStalled
<1>. QED
  BY <1>1, Invariance, PTL

-----------------------------------------------------------------------------
(* Refinement of JobDelivery. *)

(* The message the consumer waits with for a slot is still owed, also when its
   connection has gone meanwhile; only messages that parse get a task. *)
HeldIsOwed ==
    /\ consumer = "sem" => cur \in queue[JobsQueue] \cup unacked
    /\ \A m \in Msg : pc[m] # "idle" => m \notin Garbled

(* Neither is disturbed by a step that leaves the consumer's message where it was
   and begins no task. *)
LEMMA HeldStays ==
    ASSUME HeldIsOwed, consumer' = "sem" => consumer = "sem",
           cur' = cur \/ consumer' # "sem",
           queue[JobsQueue] \cup unacked \subseteq queue'[JobsQueue] \cup unacked',
           \A m \in Msg : pc'[m] # "idle" => pc[m] # "idle"
    PROVE  HeldIsOwed'
BY DEF HeldIsOwed

(* A task moves on. *)
LEMMA TaskMoves ==
    ASSUME TypeOK, NEW m \in Msg, TaskStep(m)
    PROVE  /\ pc[m] # "idle" /\ \E s : Goto(m, s)
           /\ UNCHANGED <<queueVars, consVars, procVars, lastSpawn>>
<1>. USE DEF procVars, consVars, histVars, rowVars
<1>1. CASE LoadJob(m) \/ CreateAttempt(m) \/ CreateAttemptErr(m) \/ Release(m)
  BY <1>1 DEF LoadJob, CreateAttempt, CreateAttemptErr, Release
<1>2. CASE ScaleWorker(m) \/ SelectPod(m) \/ NewRuntime(m) \/ NewRuntimeErr(m)
  BY <1>2 DEF ScaleWorker, SelectPod, NewRuntime, NewRuntimeErr
<1>3. CASE RunRpc(m) \/ Register(m) \/ FailAttempt(m) \/ FailAttemptErr(m)
  BY <1>3 DEF RunRpc, Register, FailAttempt, FailAttemptErr
<1>. QED
  BY <1>1, <1>2, <1>3 DEF TaskStep

LEMMA HeldInv ==
    ASSUME IInv, HeldIsOwed, [Next]_vars
    PROVE  HeldIsOwed'
<1>. USE DEF taskVars, procVars, consVars, histVars, rowVars
<1>1. TypeOK /\ QueueTypeOK
  BY DEF IInv, TypeOK
<1>2. CASE \E m \in Msg : RunJob(m) \/ AutorunPublish(m) \/ ForeignPublish(m)
  BY <1>1, <1>2, RouteJob, HeldStays
     DEF RunJob, AutorunPublish, ForeignPublish, PublishJob, QueueTypeOK, Queue
<1>3. CASE \E m \in Msg : BrokerDelivers(m)
  BY <1>1, <1>3, HeldStays DEF BrokerDelivers, Deliver, QueueTypeOK, Queue
<1>4. CASE Consume
  <2>1. ASSUME NEW m \in Msg, ConsumerTake(m) PROVE HeldIsOwed'
    <3>1. m \in unacked
      BY <1>1, <2>1 DEF ConsumerTake, Receive, IInv, BrokerInv, CreditOwned, OnePlace, QueueTypeOK
    <3>. QED
      BY <2>1, <3>1 DEF HeldIsOwed, ConsumerTake, Receive
  <2>2. ASSUME NEW m \in Msg, ConsumerReject(m) PROVE HeldIsOwed'
    BY <2>2 DEF HeldIsOwed, ConsumerReject, Reject
  <2>3. CASE HandlerSpawn
    BY <1>1, <2>3 DEF HeldIsOwed, HandlerSpawn, queueVars, IInv, BrokerInv, ConsumerOwns, TypeOK
  <2>4. CASE ConsumerAck
    BY <2>4 DEF HeldIsOwed, ConsumerAck
  <2>. QED
    BY <1>4, <2>1, <2>2, <2>3, <2>4 DEF Consume
<1>5. CASE \E m \in Msg : TaskStep(m)
  <2>1. PICK m \in Msg : TaskStep(m)
    BY <1>5
  <2>2. \A n \in Msg : pc'[n] # "idle" => pc[n] # "idle"
    BY <1>1, <2>1, TaskMoves DEF Goto, TypeOK
  <2>. QED
    BY <1>1, <2>1, <2>2, TaskMoves, HeldStays DEF queueVars
<1>6. CASE Crash \/ MainReturns \/ ConsumerFatal
  BY <1>6, HeldStays DEF Crash, MainReturns, ConsumerFatal, ProcessEnds, HeldIsOwed
<1>7. CASE RabbitClose \/ ConnLost
  BY <1>1, <1>7, HeldStays DEF RabbitClose, ConnLost, Disconnect, QueueTypeOK, Queue
<1>8. CASE Sigterm \/ Restart \/ UNCHANGED vars
  BY <1>8, HeldStays DEF Sigterm, Restart, Connect, queueVars, vars
<1>. QED
  BY <1>2, <1>3, <1>4, <1>5, <1>6, <1>7, <1>8 DEF Next

(* A message stays where it stands when neither its place nor its task moves. *)
LEMMA StandsStill ==
    ASSUME NEW m \in Msg \ Garbled,
           m \in published' <=> m \in published,
           m \in queue'[JobsQueue] \cup unacked' <=> m \in queue[JobsQueue] \cup unacked,
           (m \in unacked' /\ consumer' = "ack" /\ cur' = m)
             <=> (m \in unacked /\ consumer = "ack" /\ cur = m)
    PROVE  DeliveryState'[m] = DeliveryState[m]
BY DEF DeliveryState

(* Steps that change no row and no task show in the state of the messages only. *)
LEMMA OnlyState ==
    ASSUME UNCHANGED <<pc, rowVars, life, lastSpawn>>
    PROVE  UNCHANGED <<Barred, Untried, AttemptsOf>>
BY DEF Barred, Untried, AttemptsOf, rowVars

LEMMA StateIsFunction ==
    /\ DeliveryState = [m \in Msg \ Garbled |-> DeliveryState[m]]
    /\ DeliveryState' = [m \in Msg \ Garbled |-> DeliveryState'[m]]
BY DEF DeliveryState

(* A publisher. *)
LEMMA PublishRefines ==
    ASSUME IInv, NEW m \in Msg, RunJob(m) \/ AutorunPublish(m) \/ ForeignPublish(m)
    PROVE  [Delivery!Next]_(Delivery!vars)
<1>. USE DEF taskVars, rowVars, procVars, consVars, histVars
<1>1. TypeOK /\ QueueTypeOK /\ OnePlace
  BY DEF IInv, TypeOK, BrokerInv
<1>2. /\ PublishJob(m) /\ UNCHANGED <<pc, rowVars, life, lastSpawn, consVars>>
  BY DEF RunJob, AutorunPublish, ForeignPublish
<1>3. /\ queue'[JobsQueue] = queue[JobsQueue] \cup {m} /\ unacked' = unacked
      /\ published' = published \cup {m} /\ m \notin published
  BY <1>1, <1>2, RouteJob DEF PublishJob, QueueTypeOK, Queue
<1>4. \A n \in Msg \ Garbled : n # m => DeliveryState'[n] = DeliveryState[n]
  BY <1>2, <1>3, StandsStill
<1>5. UNCHANGED <<Barred, Untried, AttemptsOf>>
  BY <1>2, OnlyState
<1>6. CASE m \in Garbled
  <2>1. UNCHANGED DeliveryState
    BY <1>4, <1>6, StateIsFunction
  <2>. QED
    BY <1>5, <2>1 DEF Delivery!vars
<1>7. CASE m \notin Garbled
  <2>1. DeliveryState[m] = "none" /\ DeliveryState'[m] = "owed"
    BY <1>1, <1>3, <1>7 DEF DeliveryState, OnePlace
  <2>2. DeliveryState' = [DeliveryState EXCEPT ![m] = "owed"]
    BY <1>4, <2>1, StateIsFunction
  <2>. QED
    BY <1>5, <1>7, <2>1, <2>2 DEF Delivery!Accept, Delivery!Becomes, Delivery!Next
<1>. QED
  BY <1>6, <1>7

(* Broker and consumer up to the handler: nothing shows. *)
LEMMA ReceiveQuiet ==
    ASSUME IInv, NEW m \in Msg, BrokerDelivers(m) \/ ConsumerTake(m) \/ ConsumerReject(m)
    PROVE  UNCHANGED Delivery!vars
<1>. USE DEF taskVars, rowVars, procVars, consVars, histVars
<1>1. TypeOK /\ QueueTypeOK /\ BrokerInv
  BY DEF IInv, TypeOK
<1>2. \A n \in Msg \ Garbled : DeliveryState'[n] = DeliveryState[n]
  <2>1. CASE BrokerDelivers(m)
    BY <1>1, <2>1, StandsStill
       DEF BrokerDelivers, Deliver, QueueTypeOK, Queue, BrokerInv, SpawnedOnce
  <2>2. CASE ConsumerTake(m)
    BY <2>2, StandsStill DEF ConsumerTake, Receive
  <2>3. CASE ConsumerReject(m)
    BY <1>1, <2>3, RouteDead, StandsStill DEF ConsumerReject, Reject, QueueTypeOK
  <2>. QED
    BY <2>1, <2>2, <2>3
<1>3. UNCHANGED <<pc, rowVars, life, lastSpawn>>
  BY DEF BrokerDelivers, ConsumerTake, ConsumerReject
<1>. QED
  BY <1>2, <1>3, OnlyState, StateIsFunction DEF Delivery!vars

(* The handler begins a task, for a message that is still owed. *)
LEMMA SpawnRefines ==
    ASSUME IInv, HeldIsOwed, HandlerSpawn
    PROVE  [Delivery!Next]_(Delivery!vars)
<1>. USE DEF procVars, rowVars, queueVars
<1>1. TypeOK /\ BrokerInv
  BY DEF IInv
<1>2. cur \in Msg \ Garbled /\ cur \in published /\ lastSpawn[cur] # life
  BY <1>1 DEF HandlerSpawn, BrokerInv, ConsumerOwns, OnePlace, SpawnedOnce
<1>3. cur \notin Barred /\ Barred' = Barred \cup {cur} /\ Untried' = Untried \cup {cur}
  BY <1>1, <1>2 DEF HandlerSpawn, Barred, Untried, TypeOK
<1>4. UNCHANGED AttemptsOf
  BY DEF HandlerSpawn, AttemptsOf
<1>5. DeliveryState[cur] = "owed" /\ DeliveryState'[cur] \in {"begun", "owed"}
  BY <1>2 DEF HandlerSpawn, HeldIsOwed, DeliveryState
<1>6. \A n \in Msg \ Garbled : n # cur => DeliveryState'[n] = DeliveryState[n]
  BY StandsStill DEF HandlerSpawn
<1>7. DeliveryState' = [DeliveryState EXCEPT ![cur] = DeliveryState'[cur]]
  BY <1>6, StateIsFunction
<1>8. Delivery!Begin(cur)
  BY <1>3, <1>4, <1>5, <1>7 DEF Delivery!Begin, Delivery!Becomes
<1>. QED
  BY <1>2, <1>8 DEF Delivery!Next

(* The acknowledgement settles the message, unless its connection has gone. *)
LEMMA AckRefines ==
    ASSUME IInv, ConsumerAck
    PROVE  [Delivery!Next]_(Delivery!vars)
<1>. USE DEF taskVars, rowVars, procVars, histVars
<1>1. TypeOK /\ QueueTypeOK /\ BrokerInv
  BY DEF IInv, TypeOK
<1>2. cur \in Msg \ Garbled /\ cur \in published
  BY <1>1 DEF ConsumerAck, BrokerInv, ConsumerOwns, OnePlace
<1>3. \A n \in Msg \ Garbled : n # cur \/ cur \notin unacked => DeliveryState'[n] = DeliveryState[n]
  BY StandsStill DEF ConsumerAck, Ack
<1>4. UNCHANGED <<Barred, Untried, AttemptsOf>>
  BY OnlyState DEF ConsumerAck
<1>5. CASE cur \notin unacked
  BY <1>3, <1>4, <1>5, StateIsFunction DEF Delivery!vars
<1>6. CASE cur \in unacked
  <2>1. DeliveryState[cur] = "begun" /\ DeliveryState'[cur] = "settled"
    BY <1>1, <1>2, <1>6 DEF ConsumerAck, Ack, DeliveryState, BrokerInv, OnePlace
  <2>2. DeliveryState' = [DeliveryState EXCEPT ![cur] = "settled"]
    BY <1>3, <2>1, StateIsFunction
  <2>. QED
    BY <1>2, <1>4, <2>1, <2>2 DEF Delivery!Settle, Delivery!Becomes, Delivery!Next
<1>. QED
  BY <1>5, <1>6

(* Steps of a task change neither the state of a message nor who may begin. *)
LEMMA TaskQuiet ==
    ASSUME TypeOK, NEW m \in Msg, TaskStep(m)
    PROVE  UNCHANGED <<DeliveryState, Barred>>
BY TaskMoves DEF DeliveryState, Barred, queueVars, consVars, procVars

(* The one row a task inserts is the attempt it makes. *)
LEMMA InsertRefines ==
    ASSUME IInv, HeldIsOwed, NEW m \in Msg, pc[m] = "create", NEW s \in {"scale", "exit"},
           Goto(m, s), NEW a \in NextAttempt, InsertAttempt(m, a),
           UNCHANGED <<DeliveryState, Barred>>
    PROVE  Delivery!Next
<1>. USE DEF IInv, TypeOK
<1>1. m \in Msg \ Garbled /\ a \in Attempt /\ rowStatus[a] = "absent"
  BY DEF HeldIsOwed, NextAttempt
<1>2. m \in Untried /\ Untried' = Untried \ {m}
  BY <1>1 DEF Untried, Goto
<1>3. \A n \in Msg \ Garbled : a \notin AttemptsOf[n]
  BY <1>1 DEF AttemptsOf
<1>4. AttemptsOf' = [AttemptsOf EXCEPT ![m] = @ \cup {a}]
  <2>1. \A n \in Msg \ Garbled : n # m => AttemptsOf'[n] = AttemptsOf[n]
    BY <1>1 DEF AttemptsOf, InsertAttempt
  <2>2. AttemptsOf'[m] = AttemptsOf[m] \cup {a}
    BY <1>1 DEF AttemptsOf, InsertAttempt
  <2>. QED
    BY <2>1, <2>2 DEF AttemptsOf
<1>5. Delivery!Try(m)
  BY <1>1, <1>2, <1>3, <1>4 DEF Delivery!Try
<1>. QED
  BY <1>1, <1>5 DEF Delivery!Next

(* A task that ends before it has inserted a row. *)
LEMMA DropRefines ==
    ASSUME IInv, HeldIsOwed, NEW m \in Msg, pc[m] \in {"load", "create"}, Goto(m, "exit"),
           UNCHANGED <<DeliveryState, Barred, rowVars>>
    PROVE  Delivery!Next
<1>1. m \in Msg \ Garbled /\ m \in Untried /\ Untried' = Untried \ {m}
  BY DEF HeldIsOwed, Untried, Goto, IInv, TypeOK
<1>2. UNCHANGED AttemptsOf
  BY DEF AttemptsOf, rowVars
<1>. QED
  BY <1>1, <1>2 DEF Delivery!Drop, Delivery!Next

(* Every other step of a task: no row appears, and it was not untried. *)
LEMMA MoveQuiet ==
    ASSUME IInv, NEW m \in Msg, NEW s \in Task, Goto(m, s), UNCHANGED <<DeliveryState, Barred>>,
           s \in {"load", "create"} <=> pc[m] \in {"load", "create"},
           rowOf' = rowOf,
           \A a \in Attempt : rowStatus'[a] = "absent" <=> rowStatus[a] = "absent"
    PROVE  UNCHANGED Delivery!vars
<1>1. UNCHANGED Untried
  BY DEF Untried, Goto, IInv, TypeOK
<1>2. UNCHANGED AttemptsOf
  BY DEF AttemptsOf
<1>. QED
  BY <1>1, <1>2 DEF Delivery!vars

LEMMA TaskRefines ==
    ASSUME IInv, HeldIsOwed, NEW m \in Msg, TaskStep(m)
    PROVE  [Delivery!Next]_(Delivery!vars)
<1>. USE DEF rowVars, histVars
<1>1. UNCHANGED <<DeliveryState, Barred>>
  BY TaskQuiet DEF IInv
<1>2. CASE LoadJob(m)
  <2>1. CASE Goto(m, "create")
    BY <1>1, <1>2, <2>1, MoveQuiet DEF LoadJob, Task
  <2>2. CASE Goto(m, "exit")
    BY <1>1, <1>2, <2>2, DropRefines DEF LoadJob
  <2>. QED
    BY <1>2, <2>1, <2>2 DEF LoadJob
<1>3. CASE CreateAttempt(m)
  BY <1>1, <1>3, InsertRefines DEF CreateAttempt
<1>4. CASE CreateAttemptErr(m)
  <2>1. CASE UNCHANGED rowVars
    BY <1>1, <1>4, <2>1, DropRefines DEF CreateAttemptErr
  <2>2. CASE \E a \in NextAttempt : InsertAttempt(m, a)
    BY <1>1, <1>4, <2>2, InsertRefines DEF CreateAttemptErr
  <2>. QED
    BY <1>4, <2>1, <2>2 DEF CreateAttemptErr
<1>5. CASE ScaleWorker(m) \/ SelectPod(m) \/ NewRuntime(m) \/ NewRuntimeErr(m)
  BY <1>1, <1>5, MoveQuiet DEF ScaleWorker, SelectPod, NewRuntime, NewRuntimeErr, Task
<1>6. CASE RunRpc(m) \/ Register(m) \/ FailAttemptErr(m) \/ Release(m)
  BY <1>1, <1>6, MoveQuiet DEF RunRpc, Register, FailAttemptErr, Release, Task
<1>7. CASE FailAttempt(m)
  <2>1. att[m] \in Attempt /\ rowStatus[att[m]] = "running"
    BY <1>7 DEF FailAttempt, IInv, RowInv, TaskOwnsRow, Owning
  <2>2. \A a \in Attempt : rowStatus'[a] = "absent" <=> rowStatus[a] = "absent"
    BY <1>7, <2>1 DEF FailAttempt, IInv, TypeOK
  <2>. QED
    BY <1>1, <1>7, <2>2, MoveQuiet DEF FailAttempt, Task
<1>. QED
  BY <1>2, <1>3, <1>4, <1>5, <1>6, <1>7 DEF TaskStep

(* The broker takes back what is not settled. *)
LEMMA TakenBack ==
    ASSUME IInv, Disconnect
    PROVE  DeliveryState' = [m \in Msg \ Garbled |->
               IF DeliveryState[m] = "begun" THEN "owed" ELSE DeliveryState[m]]
BY DEF Disconnect, DeliveryState, IInv, TypeOK, QueueTypeOK, Queue

(* The process ends, its connection ends, a signal arrives, a new life begins. *)
LEMMA LifeRefines ==
    ASSUME IInv, Crash \/ MainReturns \/ ConsumerFatal \/ RabbitClose \/ ConnLost
                 \/ Sigterm \/ Restart
    PROVE  [Delivery!Next]_(Delivery!vars)
<1>. USE DEF taskVars, rowVars, procVars, consVars, histVars
<1>1. CASE Crash \/ MainReturns \/ ConsumerFatal
  <2>1. ProcessEnds /\ Disconnect
    BY <1>1 DEF Crash, MainReturns, ConsumerFatal, ProcessEnds
  <2>2. Untried' = {} /\ UNCHANGED <<Barred, AttemptsOf>>
    BY <2>1 DEF ProcessEnds, Untried, Barred, AttemptsOf
  <2>. QED
    BY <2>1, <2>2, TakenBack DEF Delivery!Lose, Delivery!Next
<1>2. CASE RabbitClose \/ ConnLost
  <2>1. Disconnect /\ UNCHANGED <<Untried, Barred, AttemptsOf>>
    BY <1>2, OnlyState DEF RabbitClose, ConnLost
  <2>. QED
    BY <2>1, TakenBack DEF Delivery!Lose, Delivery!Next
<1>3. CASE Sigterm
  <2>1. UNCHANGED <<Untried, Barred, AttemptsOf>>
    BY <1>3, OnlyState DEF Sigterm
  <2>2. UNCHANGED DeliveryState
    BY <1>3 DEF Sigterm, DeliveryState, queueVars
  <2>. QED
    BY <2>1, <2>2 DEF Delivery!vars
<1>4. CASE Restart
  <2>1. UNCHANGED <<DeliveryState, Untried, AttemptsOf>>
    BY <1>4 DEF Restart, Connect, DeliveryState, Untried, AttemptsOf
  <2>2. Untried = {}
    BY <1>4 DEF Restart, Untried, IInv, BrokerInv, DownIsEmpty
  <2>3. Barred' = {}
    BY <1>4 DEF Restart, Barred, IInv, BrokerInv, SpawnedOnce, TypeOK
  <2>. QED
    BY <2>1, <2>2, <2>3 DEF Delivery!NewLife, Delivery!Next
<1>. QED
  BY <1>1, <1>2, <1>3, <1>4

LEMMA DeliveryRefines ==
    ASSUME IInv, HeldIsOwed, [Next]_vars
    PROVE  [Delivery!Next]_(Delivery!vars)
<1>1. CASE \E m \in Msg : RunJob(m) \/ AutorunPublish(m) \/ ForeignPublish(m)
  BY <1>1, PublishRefines
<1>2. CASE \E m \in Msg : BrokerDelivers(m)
  BY <1>2, ReceiveQuiet
<1>3. CASE Consume
  BY <1>3, ReceiveQuiet, SpawnRefines, AckRefines DEF Consume
<1>4. CASE \E m \in Msg : TaskStep(m)
  BY <1>4, TaskRefines
<1>5. CASE UNCHANGED vars
  <2>1. UNCHANGED <<Untried, Barred, AttemptsOf>>
    BY <1>5, OnlyState DEF vars, taskVars, procVars, histVars
  <2>2. UNCHANGED DeliveryState
    BY <1>5 DEF vars, DeliveryState, queueVars, consVars
  <2>. QED
    BY <2>1, <2>2 DEF Delivery!vars
<1>. QED
  BY <1>1, <1>2, <1>3, <1>4, <1>5, LifeRefines DEF Next

(* Queue and dispatcher deliver every message to a task at least once, to at most one
   in each life of the process, and a task makes at most one attempt, whatever
   crashes, shutdowns, lost connections and failed calls come between. *)
THEOREM DispatcherDelivers == Spec => ImplementsDelivery
<1>1. Init => HeldIsOwed
  BY DEF Init, HeldIsOwed
<1>2. Init => Delivery!Init
  <2>. SUFFICES ASSUME Init PROVE Delivery!Init
    OBVIOUS
  <2>1. /\ DeliveryState = [m \in Msg \ Garbled |-> "none"]
        /\ AttemptsOf = [m \in Msg \ Garbled |-> {}]
    BY DEF Init, QueueInit, DeliveryState, AttemptsOf
  <2>2. Barred = {} /\ Untried = {}
    BY DEF Init, Barred, Untried
  <2>. QED
    BY <2>1, <2>2 DEF Delivery!Init
<1>3. IInv /\ HeldIsOwed /\ [Next]_vars => HeldIsOwed'
  BY HeldInv
<1>4. IInv /\ HeldIsOwed /\ [Next]_vars => [Delivery!Next]_(Delivery!vars)
  BY DeliveryRefines
<1>. QED
  BY <1>1, <1>2, <1>3, <1>4, Invariance, PTL DEF Spec, ImplementsDelivery, Delivery!Spec
=============================================================================
