# Wardu: specifications, model checking and proofs

TLA+ models of [Wardu](../src/README.md), a distributed job scheduler on Kubernetes
written in Go. Every definition is a translation of code; `PROJECT.json` maps each
one to its file and lines. TLC checks small instances, TLAPS proves every safety
property that they are checked for, and the safety half of every refinement, for every
instance.

## 1. The system

    HTTP          gRPC                    AMQP                gRPC
    client -> api-gateway -> scheduler -> RabbitMQ -> dispatcher -> runtime (worker pod)
                              |   |        ^   |          |    ^         |
                         Postgres Kubernetes   +- RunJob -+    +-heartbeat stream

| Component | Source | State | Operations |
|---|---|---|---|
| api gateway | `services/api-gateway` | requests in flight | `submitJob` forwards a submission to the scheduler; shutdown |
| scheduler | `services/scheduler` | none of its own: tables `namespaces`, `workers`, `jobs`; namespaces and Deployments in Kubernetes | bootstrap of the default namespace, `CreateJob` |
| job queue | `shared/rabbitmq` | two exchanges, two queues, one connection and channel per service, prefetch window | `New`/`setup`, `PublishJob`, `ConsumeJobs`, `Close` |
| dispatcher | `services/dispatcher` | slot channel `sem`, map `executions`, table `job_attempts` | `RunJob`, `StartJobConsumer`, `executeJob`, `failAttempt`, `Heartbeat`, `checkExecutions` |
| worker scaling | `shared/k8s/worker.go`, `pod.go` | the Deployment of a worker and its pods | `ScaleWorker`, `recoverWorker`, `WaitWorkerReady`, `SelectPod` |
| runtime | `services/runtime` | map `executions` under a `RWMutex`, one user process per execution | `Run`, `execute`, `startHeartbeatLoop`/`heartbeatLoop` |
| namespaces | `shared/k8s/namespace.go` | namespace, quota and limit range objects | `CreateNamespace`, `CheckNamespaceByDNS` |
| ids, models, database | `shared/ids`, `shared/models`, `shared/database` | ULID entropy, rows | id generation, request defaults and overrides, single-row queries |
| logger, env, generated code, command line, deployment files | | | not modelled |

How they interact: the scheduler stores a job and, with `autorun`, publishes its id;
the dispatcher's `RunJob` publishes ids on request. The dispatcher consumes ids with
manual acknowledgement, takes a slot, spawns a goroutine, acknowledges, and the
goroutine walks through Postgres, Kubernetes and the runtime of a pod. Runtimes keep
a stream of heartbeats to the dispatcher.

What is hard here:

* goroutines: the consumer, one task per message, the heartbeat loop, one goroutine
  and one waiter per execution, concurrent gRPC handlers;
* settlement: messages are acknowledged before their work is done, and redelivered
  after a crash or a lost connection;
* chains of requests to three stores without a transaction: any may fail, with or
  without its effect, and the process may end between any two of them;
* optimistic concurrency on Deployments, and a status that lags behind;
* five translations between what a client asks for and what a runtime is given, each
  with its own idea of nil, zero and empty;
* periods that must fit together: ticker and reconnection of the heartbeat loop, ticker
  and timeout of the dispatcher's monitor;
* time: the timeout of an execution, the grace period after SIGTERM, the minute of a
  watch, a signal racing with all of it.

What makes each component correct:

* job queue and dispatcher: slots and prefetch credit are conserved, no accepted
  message is lost before a task exists for it, redelivery never doubles an attempt
  within a life of the process, every `running` row can be accounted for, the
  queue drains;
* runtime: each execution goes pending, running, one final status, removed; a
  success is genuine; no process is left unattended; the heartbeat loop neither
  reports removed entries nor locks anybody out;
* heartbeats: a lost execution is reported within a minute, one failure is not (a reset
  that also loses a heartbeat on its way counts as two), and a false alarm does not last;
* requests: a run is given every field that was given for it, as it was given; 202 means
  stored and queued;
* worker scaling: wake-up calls only wake, one call wakes, every call ends;
* scheduler: a stored job has a worker that exists, a queued job is stored, a
  half-done bootstrap is completed by the next start.

## 2. The modules

| Module | Models | Uses |
|---|---|---|
| `JobQueue` | RabbitMQ topology and the client operations | |
| `JobDelivery` | abstract: what becomes of a message once it is accepted | |
| `Dispatcher` | consumer, `executeJob`, `RunJob`, shutdown, crash, restart | EXTENDS `JobQueue`, INSTANCE `JobDelivery` |
| `DispatcherProofs` | inductive invariant and theorems, refinement | EXTENDS `Dispatcher` |
| `ExecutionLifecycle` | abstract: what a runtime promises of an execution | |
| `Runtime` | `Run`, `execute`, heartbeat loop, user processes | INSTANCE `ExecutionLifecycle` |
| `RuntimeProofs` | inductive invariant and theorems, refinement | EXTENDS `Runtime` |
| `Heartbeat` | heartbeat loop, stream, `Heartbeat` handler, execution monitor, clock | INSTANCE `ExecutionLifecycle` |
| `HeartbeatProofs` | inductive invariant and theorems | EXTENDS `Heartbeat` |
| `JobRequest` | request, row, overrides and their JSON: pure functions | |
| `JobIntake` | abstract: what `CreateJob` promises its callers; what follows for them, proved there | |
| `Submission` | gateway, `RunJob`, message and `executeJob`: what a run is given | EXTENDS `JobRequest`, INSTANCE `JobIntake` |
| `SubmissionProofs` | inductive invariant and theorems, refinement | EXTENDS `Submission` |
| `NamespaceLimits` | quota and limit range of a namespace, admission of its pods | |
| `NamespaceLimitsProofs` | inductive invariant and theorem | EXTENDS `NamespaceLimits` |
| `WakeUp` | abstract: what `ScaleWorker` promises concurrent callers | |
| `WorkerScaling` | `ScaleWorker` ... `SelectPod` against a cluster | INSTANCE `WakeUp` |
| `WorkerScalingProofs` | inductive invariant and theorems, refinement | EXTENDS `WorkerScaling` |
| `Scheduler` | bootstrap and `CreateJob` | INSTANCE `JobIntake` |
| `SchedulerProofs` | inductive invariant and theorems, refinement | EXTENDS `Scheduler` |
| `MCDispatcher`, `MCRuntime`, `MCHeartbeat`, `MCSubmission`, `MCWorkerScaling`, `MCScheduler` | constants of the small instances | |

Conventions: `pc[x]` is where a goroutine, call or handler is, one action per request
that leaves the process or touches shared state; an error return is a disjunct or an
action ending in `Err`/`Fails`. Definitions under a comment "Mutated form" are the
code with one plausible mistake; no specification uses them, they document which
mistake each property would reveal (`PROJECT.json`, "mutants").

### JobQueue

`queue` holds the ready messages of both queues as sets: no code depends on their
order. `Binding` is what `setup` binds. `Route` is a direct exchange, used for
publishing and for dead-lettering: a rejected message keeps its key `"job"`, for which
`wardu.jobs.dlx` has no binding, so it is dropped. `unacked` is what the broker
counts against the prefetch window, `buffer` the Go channel of deliveries.
`Disconnect` covers `Close`, a network failure and the end of the process.

### Dispatcher

`consumer` and `cur` are the program counter and the message of `ConsumeJobs` and its
handler; `sem` the number of tokens in the slot channel; `pc[m]` and `att[m]` the task
of message `m` and its attempt; `rowStatus` the table `job_attempts`. `rowOf`,
`rowLife`, `started`, `lastSpawn` and `stranded` are history variables that the
properties need and no guard reads. The calls to `ScaleWorker` and `SelectPod` are
nondeterministic here: `WorkerScaling` has their inside. Errors of the runtime's `Run`
and of the insertion of a row may hide an effect.
`ProcessEnds` is the end of the process by a crash (`Crash`), by `main` returning
(`MainReturns`) or by the `log.Fatal` that `StartJobConsumer` calls when the consumer
sees the cancelled context first (`ConsumerFatal`).
When the connection is lost (`ConnLost`) the channel of deliveries is closed, and
`ConsumeJobs` spins on zero deliveries that it cannot reject: this changes no state and
is no step.
Message overrides, priorities and the attempt number (always 1) are data that no
property tells apart.

`JobDelivery` is queue and dispatcher as a message sees them: once accepted it is owed
until a task for it has begun and it has been settled, and owed again if a connection or
a process ends in between; in one life of the process it begins at most one task; a
task makes at most one attempt. `DeliveryState`, `Barred` (a task has begun in this life),
`Untried` (it has yet to insert its row) and `AttemptsOf` (the rows) map the dispatcher to
it. Where an owed message is, in the queue, on its way, in the consumer's hands or before
a full slot channel, does not show.

### ExecutionLifecycle and Runtime

One execution per `Run` call; `executions` is the map, `status` outlives its entry as
the `Execution` object does. `cancelled` are the calls whose context has ended:
`RpcEnds` is gRPC cancelling the context of a unary call once its handler has
returned, `ClientGone` a caller that leaves earlier. `proc`, `sig` and `done` are the
user process, the strongest signal it was sent, and the channel the waiter writes to.
`rlock` is the read lock the heartbeat loop holds from its tick to the end of its range
loop, network sends included; inserting and deleting an entry wait for it. `Ledger`
maps this state to `ExecutionLifecycle`: absent before the entry, the status while it
is there, gone afterwards. `TimeoutTenths` is a timeout in tenths of a second because the
code truncates it to seconds.

`StartPanics` is the index into an empty entrypoint. The panic first runs what `execute`
has deferred: `Cleanup` waits for the write lock like that of any other goroutine and
takes the entry, still running, out of the map beside its neighbours. Only then does the
process end (`PanicEnds`), and until it does heartbeats and the other goroutines go on
(`pc` is "panic", then "dying"). `ExecutionLifecycle` says so of the executions in
`Panics` and of no others: they never get a final status, `Abandon` removes their
running entry and leaves the runtime `broken`, and a broken runtime is lost. `Runtime`
implements it with `Exec \ HasEntrypoint` for `Panics` and `Dying` for `broken`.

### Heartbeat

The composition of a runtime with the dispatcher, for what they tell each other. The
executions are those of `ExecutionLifecycle`, the abstract specification that `Runtime`
implements, those in `Panics` included; `Accept`, `Remove` and `Abandon` wait for the read
lock of the loop, `Begin` and `Finish` do not. A step of the clock is five seconds, so the loop's ticker is
`HbPeriod` = 2, its sleep `Backoff` = 1, the monitor's ticker and its timeout `MonPeriod`
= `Silence` = 6. `TimePasses` waits until no timer has fired, nothing is on the wire and
neither process is in the middle of something (`Waiting`): processing and a working
network take less than the five seconds of slack between 25 and 30.

`link` is what TCP does to the open stream: "reset" is noticed by the next `Send` only,
as the loop receives nothing; "silent" swallows what is sent, as neither side asks for
keepalives, until TCP gives up. `registry`, `view` and `age` are the dispatcher's map,
its statuses and the time since `LastHeartbeat`. `Register` comes any time after
`Accept`, so a heartbeat may find no entry; executions outside `Answered` are those
whose `Run` response is lost. `MonitorTick` copies the map, `CheckEntry` reads one entry
later and without the lock: a heartbeat may come in between. `LastHeartbeat` is a wall
clock time (`UTC()` strips the monotonic reading), and the wall clock is assumed not to
step. `missed` counts failures
since the last heartbeat that got through; `outcome` is how an execution ended. One
runtime is enough, as the dispatcher keeps nothing that belongs to two.

An execution that has ended stays in the registry and is reported at every check from
then on, until the dispatcher restarts: no code removes it. After a restart nothing
that ran before is known, so nothing is reported of it either.

### JobRequest and Submission

A field is a value, the zero value of its type (`Zero`: an empty slice or 0) or not there
(`Absent`: nil). Five translations lie between a client and a runtime: `BuildJobProto`,
`BuildOverrides`, `Encode`/`Decode` (the JSON tags of `JobOverrides`) and
`ApplyOverrides`. `Submission` runs them in the system: the gateway's handler and what
it answers, the scheduler reduced to its last two writes (`Scheduler` has the others),
`RunJob`, messages that may be handled again, by several tasks at once (`tasks` is a set:
tasks with the same run and the same job are one), and tasks that may end anywhere.
That is more than `Dispatcher` lets happen to a message. The gateway
closes its clients when `Shutdown` has returned, in time or not (`GatewayCloses`), under
handlers that then answer 400 while `CreateJob` goes on. `Says` and `Asked` state which
fields the clients gave and what they wanted there, without using the translations.
`RunsAsAsked` is about these fields; of those nobody gave, `TimeoutDefaults` states what
`openapi.yml` says of the timeout.

### NamespaceLimits

The row, the quota and the limit range of one namespace with their numbers, and the
pods the cluster admits. The pod of `CreateWorker` has two containers without requests
or limits of their own, so each is given the defaults of the limit range. No run checks
this module: a theorem says of every row what a run could show of some.

### WorkerScaling

`fresh` is the set of calls that hold a `Scale` of the current resource version: every
write to the Deployment, its status included, empties it, and `UpdateScale` needs
membership. `pods`/`ready` are real, `stReplicas`/`stReady` what the controller last
wrote; `WaitGet` reads `status.replicas` as the code does. `ApiError` fails any
request, and `Written` lets a write that took effect be reported as an error. `WakeUp`
is a test and set: a call decides in one instant, on the replicas of that instant.
`Outcome` maps the calls to it. Scale-down has no caller in the repository and is not modelled; an operator
(`OperatorScales`, `OperatorDeletes`) stands for whoever else changes the Deployment.

### Scheduler

The bootstrap is a process beside the calls and shares the actions of
`CreateNamespace` with them. `Then` is a request with an effect whose caller may be
told of an error all the same, `RequestFails` one without. `Row.depl` is the namespace
in whose name the Deployment name of a worker was generated; together with the slug of
the image it is the name. `SlugOf` need not be injective: `sanitizeImageName` folds
several characters into one and `generateDeploymentName` cuts at 63 bytes. Rows of
namespaces other than `wardu` exist from the start, since no service creates them.
`stopping` is a scheduler after SIGTERM: its broker connection is closed and `main`
waits on a channel nobody writes to until it is killed (`Kill`). `queued` are the jobs
handed to the broker; whether it keeps them nobody is told, as publishes are not confirmed.

`JobIntake` is the promise of `CreateJob` to its callers: a job is stored, then handed
to the broker if that was asked for, then the answer is "ok"; an error may come at any
point and hide an effect; the end of the process is an error for every call in
progress. Both `Scheduler`, with everything `CreateJob` makes on the way, and
`Submission`, which leaves that out, implement it: the shortened `CreateJob` of the one is
justified by the promise that the full one of the other keeps.

## 3. What the runs check

| Run | Instance | Shows |
|---|---|---|
| `dispatcher` | 2 pushes of a job + 1 unparsable message, 1 slot, 2 lives, 4 attempts, connection may be lost | `TypeOK`, `SlotConservation`, `CreditOwned`, `HandedOver`, `RegisteredIsRunning`, `OneAttemptPerLife`, `RunningIsAccountedFor`, `NeverStalled`, `RowsSettleOnce`, `ImplementsDelivery`, `DrainsWhileConnected` |
| `dispatcher_conn_lost` | the same with one message of an unknown job and 2 attempts | `Drains` fails |
| `runtime` | 2 executions: 300 s timeout; 0.5 s timeout and no entrypoint; all faults | `TypeOK`, `SucceededIsGenuine`, `ProcessAttended`, `IterationStable`, `RunReturns`, `ImplementsLifecycle` |
| `runtime_timeout` | the same, no external faults | `SignalledOnlyOnTimeout` fails |
| `runtime_panic` | the same, no external faults | `EntriesEndOnTheirOwn` fails |
| `heartbeat` | 2 executions of a runtime, one that panics and is never registered; 1 fault | `TypeOK`, `ViewIsPast`, `FailureIsTolerated`, `FirstBeatInTime`, `LossDetected`, `AlarmClears` |
| `submission` | 2 submissions of 3 possible bodies, 1 push of 4 possible overrides | `TypeOK`, `RunsAsAsked`, `AcceptedIsDone`, `RowsKeepSubmission`, `ImplementsIntake` |
| `submission_defaults` | the same | `TimeoutDefaults` fails |
| `worker_scaling` | 2 calls, 2 replicas at most, 2 interventions, all failures | `TypeOK`, `OneWaker`, `CallsOnlyWake`, `CallsEnd`, `ImplementsWakeUp` |
| `cold_start` | 2 calls, no failure, no intervention | `RoutedToPod` fails |
| `scheduler` | 3 calls: the same new image twice, an image of the same slug; 2 faults, 1 deletion | `TypeOK`, `JobsAreRunnable`, `QueuedIsStored`, `DefaultIsLimited`, `BootRecovers`, `ImplementsIntake` |
| `scheduler_isolation` | one image from two namespaces, no faults | `NamespacesIsolated` fails |

The properties are stated in words above their definitions. Of the refinements
`ImplementsLifecycle`, `ImplementsWakeUp` and the scheduler's `ImplementsIntake` include
the fairness of the abstract specification: every execution, every call comes to its end. Deadlock checking is on
for `runtime` and `heartbeat`; the other systems stop when all messages or calls have been dealt with.

The failing runs are disagreements between the code and its documents, listed with
quotations under "findings":

1. After a lost broker connection the dispatcher runs on and consumes nothing
   (`dispatcher_conn_lost`).
2. An execution runs under the context of the RPC that started it, which ends as soon
   as the RPC returns: its process is sent SIGTERM at once (`runtime_timeout`).
3. A job without an entrypoint leaves the map while it is running and takes the runtime
   and its neighbours down (`runtime_panic`).
4. Of two messages for a sleeping worker one fails although nothing is wrong, and even a
   lone one when the controller has counted a pod that is not ready yet: the wait looks
   at `status.replicas` (`cold_start`).
5. A worker belongs to an image, not to an image and a namespace: a second namespace
   repoints the row of the first, whose jobs then have no Deployment
   (`scheduler_isolation`).
6. A job submitted without `timeout_seconds` has none; `openapi.yml:109` says 300
   (`submission_defaults`).

A seventh has a theorem for every instance instead of a run on one (`NoPodEver`): the quota
of a namespace is what one container gets (`namespace.go:149`), a worker pod has two, so
the cluster admits no worker pod, where `models/namespace.go:17` lets a namespace have 20
and `README.md:7` says "Wardu routes it to the right worker pod".

Disagreements that need neither: a failed attempt is recorded and never retried, as
nothing publishes a job again (`README.md:7` "retries on failure"); the other
defaults of `openapi.yml` (idle timeout 90 s, 3 attempts) are applied nowhere either, and
nothing reads these fields; no result is stored.

Worth knowing as well, though no document says otherwise: overrides of the idle timeout
and of the attempts are carried to the dispatcher and read by nobody; the registry
keeps executions that have ended, so that each is reported as silent every thirty
seconds; a new execution may be reported once before its first heartbeat, as its
`LastHeartbeat` is the zero time; a rejected message is not
dead-lettered but dropped; a failure between a new Deployment and its row makes every
later submission of that image in that namespace fail (`CreateWorker` does not tolerate
AlreadyExists there); an error from `CreateJob` may leave a stored job behind; the
scheduler hangs on SIGTERM; an existing namespace is taken for complete although its
quota may never have been created.

### Bounds

* One slot and two pushes let one message wait in the consumer's hands while the slot is
  taken, which is where window, slots and acknowledgement interact, and the unparsable
  message may hold the window meanwhile. Four attempts are enough for each push to be
  attempted in each of two lives; a row from an earlier life is all that a third life
  could add. For all other numbers the safety properties are proved.
* Two executions: one to be reported by the heartbeat loop while the other is inserted
  or removed; every other interaction in the runtime concerns one execution.
* Heartbeats: ages saturate at `MaxAge` (a minute), from where on no comparison tells
  them apart, and `missed` at 2. One fault leads to as many failures as follow from it:
  a lost heartbeat and the `Send` that finds out, a silent connection, a stopped
  dispatcher that refuses every stream. The other execution makes the loop abort an
  iteration half way, and its panic ends the runtime without a fault. For more of both the safety properties are proved.
* Two submissions and a push: two jobs that must not be mixed up, and a run of one of
  them with overrides beside one without. The bodies give each field a value, leave it
  out, and set it to zero; `default` is a value that no body names.
* Two calls and two interventions: one call reads while the other writes, and an
  operator acts between any two of their steps, twice, as it takes to delete a Deployment
  that has just been recovered.
* Three submissions, two faults, one deletion: a first fault leaves something half
  done, a second one hits the attempt to go on; the twin image shares a Deployment name.
* Counters that the code does not bound are bounded by named constants: `MaxLives`,
  `MaxAttempts`, `MaxOps`, `MaxFaults`. A step that would exceed one is disabled; the
  fairness below never depends on such a step.

### Fairness

* `Dispatcher`: the broker delivers, consumer and tasks run and their requests return
  (with a result or an error), a cancelled process closes its connection and ends, and
  the Deployment starts it again. Publishing, crashing, losing a connection and failing
  are never required. `MainReturns` is not relied on, as `GracefulStop` waits for open
  heartbeat streams; `ConsumerFatal` is, since the consumer's select is reached
  again and again and the cancelled context stays ready.
* `Runtime`: goroutines run, gRPC ends contexts of finished calls, SIGKILL works, the
  ten seconds pass and a `Send` returns. Inserting and deleting an entry are strongly
  fair: a Go `RWMutex` keeps new readers out while a writer waits. Nothing is assumed
  of user processes, of timers or of the dispatcher's answers.
* `Heartbeat`: the loop, the monitor and the handler run, a panic ends its process, what is on the wire arrives, time
  passes, TCP gives up on a silent connection in the end, and a dispatcher that is
  stopping ends and is started again. Connecting, sending and receiving are not assumed
  to succeed: what fails is bounded by `MaxFaults`.
* `WorkerScaling`: a call takes its next step, as requests return and the minute of
  the watch passes (`CallSpec`). Only `cold_start` also makes the cluster fair, so that
  it cannot be blamed.
* `Scheduler`: bootstrap and calls take their steps, a stopping process is killed
  in the end, a dead one restarted.

## 4. What is proved

`DispatcherProofs` (TLAPS), for every finite set of messages, every number of slots,
attempts and lives, from the assumptions `MsgAssumption`, `MaxWorkersAssumption` and
`DispatcherAssumption`:

| Theorem | Property |
|---|---|
| `TypeCorrect` | `TypeOK`; `sem` stays within 0 .. `MaxWorkers`, so no send to or receive from the slot channel is ever short of its counterpart |
| `SlotsConserved` | `SlotConservation` |
| `CreditConserved` | `CreditOwned` |
| `NothingLostBeforeSpawn` | `HandedOver` |
| `RegistrySound` | `RegisteredIsRunning` |
| `NoDoubleAttempt` | `OneAttemptPerLife` |
| `RunningRowsAccounted` | `RunningIsAccountedFor` |
| `RowsAreFinal` | `RowsSettleOnce` |
| `ConsumerNeverStalls` | `NeverStalled`: a consumer that waits for a slot leaves a task that will return one, and one that waits for a delivery leaves the window open |
| `DispatcherDelivers` | `ImplementsDelivery`: every step is a step of `JobDelivery` or does not show |

The inductive invariant `IInv` adds to these: a process that is down holds nothing
(`DownIsEmpty`); the consumer holds one well-formed message, out of the channel
(`ConsumerOwns`); a message is in one place of the broker (`OnePlace`); a message whose
task was spawned in this life cannot reach the consumer again in this life
(`SpawnedOnce`); rows come from a life in which their message had been spawned
(`RowsHaveOrigin`); a task past the insertion owns its row (`TaskOwnsRow`). The
central argument is for `OneAttemptPerLife`: a message is spawned before it is
acknowledged, and the only way back to the queue is `Disconnect`, after which nothing
is delivered until the next life. The proof has one lemma per action (tasks that move
on without ending share `EarlyTaskInv`, `OwningTaskInv` and `LeaveRowInv`), and the two
halves `BrokerInv` and `RowInv` are disturbed by different actions.
`NeverStalled` follows from the conservation laws by counting: all slots taken are slots
held by tasks, and what the broker counts against the window is in the channel or in
somebody's hands. The refinement needs one more fact, `HeldIsOwed`: the message in front
of the slot channel is still owed, to this connection or to the next, when the slot is
granted. Each action is mapped by a lemma to the one it stands for.

`WorkerScalingProofs`, for every finite set of calls, every limit and number of
interventions: `ScalingTypeCorrect` (`TypeOK`), `AtMostOneWaker` (`OneWaker`) and
`WakeUpsOnlyWake` (`CallsOnlyWake`). `OneWaker` is not inductive: a second update must
be excluded by what the first one leaves behind. The invariant therefore says that
each waker beyond the interventions is matched by a Deployment that is awake
(`WakersAccounted`), and that a call holding a current `Scale` at its update has seen
zero replicas that are still zero (`FreshMeansAsleep`). `ScaleWorkerIsAtomic` is the
safety half of `ImplementsWakeUp`: the read, the optional recovery and the versioned
update of a call act like one test and set at the moment of the update, because
`FreshMeansAsleep` carries what was read to that moment. `WokeAt` says where in its course
a call that has woken the worker can be, so that `Outcome` never goes back; `QuietRefines`
covers the steps that do not write, `WriteRefines` the two that do. `RoutedOnceNotified`
goes with the run `cold_start`, which refutes `RoutedToPod`: when no request fails, no pod
is slow and no operator intervenes, a call whose watch has reported a ready replica
does not fail any more, since no pod that was there ever leaves (`PodsStay`). What
is left are the two ways of the run: the conflict of two updates, and the wait skipped
because of the replica count.

`HeartbeatProofs`, for every set of executions, whichever of them are answered or panic,
and any number of faults, from `HeartbeatAssumption`: `HeartbeatTypeCorrect` (`TypeOK`),
`ViewNeverAhead` (`ViewIsPast`), `OneFailureTolerated` (`FailureIsTolerated`),
`FirstBeatBeforeSecondCheck` (`FirstBeatInTime`) and `SilenceIsReported`
(`LossDetected`). The periods are those of the code. Two parts of the invariant carry
the clock: `InTime` bounds the age of an entry by where the loop is, its timer and the
slack that one failure costs (a round and a backoff, fifteen seconds; twenty-five with
the round that follows); `LookedAt` says that an entry the monitor has not reported
cannot be older than its limit less what is left of the monitor's period. The others
say that heartbeats of live executions are only on the wire of an open, unbroken stream
(`WireSound`), that an execution yet to begin has just been registered
(`RegistrySound`), and what the program counters imply (`LoopSound`, `MonitorSound`,
`OutcomeKnown`). There is one lemma per part with a step per action that disturbs it;
the three `Frame` lemmas say which actions leave which variables alone.

`SubmissionProofs`, for every set of submissions, pushes, bodies and values, from
`JobRequestAssumption` and `SubmissionAssumption` (a request's payload is a map, so never
an empty slice once marshalled; `None` is neither a row nor a push):
`SubmissionTypeCorrect` (`TypeOK`), `RunsGetWhatWasAsked` (`RunsAsAsked`),
`AcceptedMeansDone` (`AcceptedIsDone`) and `RowsStay` (`RowsKeepSubmission`). Lemmas on
the translations (`OverridesArrive`, `Applied`, ...) show that composed they yield
`Effective`, and `EffectiveIsAsked` that this is the reference definition `Asked` in every
field that was given and the zero value (for the payload, null) elsewhere: hence
`NoDefaultTimeout`, a run for which nobody names a timeout never gets the default. The
invariant carries `Effective` from the message to the task and the call of the runtime
(`Faithful`); it needs that a row is the submission it came from (`RowsAreRequests`)
and that nothing a run asked for changes any more (`RequestsStay`). `SubmissionIsIntake`
is `ImplementsIntake`; it adds that only a submission that asks for a run publishes
(`PublishersAsked`).

`RuntimeProofs`, for every set of executions, all timeouts and entrypoints, any number
of faults, from `RuntimeAssumption`: `RuntimeTypeCorrect` (`TypeOK`), `SuccessIsGenuine`
(`SucceededIsGenuine`), `ProcessesAttended` (`ProcessAttended`), `IterationIsStable`
(`IterationStable`) and `RefinesLifecycle`: initial states are initial states of
`ExecutionLifecycle` under the mapping (`Ledger`, `Dying`), and every step is one of its
steps or leaves the mapping alone. The invariant ties everything to the program counter of the
execution's goroutine: whether it has an entry (`EntriesAreLive`), what its status may
be (`StatusAt`), how far its process has come and which signal it was sent
(`ProcessAt`), and that it panics if there is no entrypoint and has a process only if
there is one (`PanicAt`); `LockHeld` says that the read lock covers the whole iteration, which is
why no entry leaves under it. An entry leaves the map from a final status (`StatusAt` at
`cleanup`), or with the whole process, or, running, by the delete of a panic, which only
an execution without an entrypoint reaches: that is the refinement.
`EntriesEndGivenEntrypoints` says when `EntriesEndOnTheirOwn`, which the run
`runtime_panic` refutes, does hold: if every request has an entrypoint and nobody kills
the process, nothing else loses an entry. `SignalsHaveCause` does the same for
`SignalledOnlyOnTimeout` and `runtime_timeout`: a process is signalled only after a
timeout of a second or more or the end of its call's context, and unless callers
leave early that end is the return of `Run`. The context is all that is wrong there.

`SchedulerProofs`, for every set of calls, images and namespaces, any `SlugOf`, any
number of faults and of deletions, from `SchedulerAssumption`: `SchedulerTypeCorrect`
(`TypeOK`), `RowBeforeMessage` (`QueuedIsStored`) and `DefaultRowIsLast`
(`DefaultIsLimited`). `CallsKnow` says what a call has made sure of by the step it has
reached, `BootSound` which objects exist at each step of the bootstrap unless an operator
has deleted their namespace. `StoredJobsAreRunnable` (`JobsAreRunnable`) has one more
hypothesis, `OneNamespacePerImage`: without it the property does not hold, as the run
`scheduler_isolation` shows. Its invariant, `WorkersSound`, says that a worker row names
the namespace of whoever submits its image and a Deployment that was created there, and
that a call about to write or use a row has seen to that; `MadeStays` is the fact that
a Deployment once created stays, or an operator has deleted it. From the same
hypothesis `IsolatedUnlessShared` proves `NamespacesIsolated`, by showing that a worker
row is then written once (`WorkersWrittenOnce`): a shared image is the only way into
another namespace. `CreateJobIsIntake`, without that hypothesis, is the safety half of
the scheduler's `ImplementsIntake`: `OnTheWay` shows that namespaces, workers and
Deployments do not show, `WritesShow` that the two writes are those of `JobIntake`,
`ProcessEndFails` that a crash is an error for every call in progress. What holds of the
promise then holds of the code: `OkIsDone` carries `OkMeansDone` over to the program
counters of `CreateJob`.

`JobIntake` has its own theorems, for every set of calls and whichever of them want
their job run: an "ok" means stored and, where asked for, sent (`OkMeansDone`), a message
is sent only for a stored job (`MessagesFollowRows`), and rows, messages and answers stay
(`EffectsStand`). They are stated of `Safe`, without the fairness, so that a refinement of
the steps is enough to transfer them.

`NamespaceLimitsProofs`, for every row of limits that are numbers (`OpsAreNumbers`):
`NoPodEver`. That the default namespace admits no worker pod is not a matter of its
defaults: quota and limit range are made of the same row (`LimitsInv`), a pod has two
containers, and twice a positive limit exceeds it (`NeverAdmitted`).

Only model-checked: liveness (`DrainsWhileConnected`, `RunReturns`, `AlarmClears`,
`CallsEnd`, `BootRecovers`, and the fairness of `ExecutionLifecycle`, `WakeUp` and
`JobIntake` in the refinements), since liveness under fairness is out of the prover's
reach. Of the six refuted properties five have a theorem that says how far they do hold or
that they never can (`SignalsHaveCause`, `EntriesEndGivenEntrypoints`,
`RoutedOnceNotified`, `IsolatedUnlessShared`, `NoDefaultTimeout`). `Drains` has the run of
`DrainsWhileConnected` instead: it is liveness.

## 5. What is not modelled, and why

* Logger, env, generated code, command line, deployment files: no state, or no logic
  of their own. Database set-up, statistics and migration: I/O. The gateway's routes,
  middleware and health page: no state.
* Log collection in the runtime: no other state depends on it. A process that blocks
  on a full pipe is covered, as a process that never exits.
* Facts of configuration that would stop the program earlier than any model does are
  treated as errors an external call may return: ULIDs, and the name "wardu" as
  `jobs.namespace`, stored in columns of type uuid (`models/job_attempts.go:17`,
  `models/job.go:17`),
  the doubled colon in the runtime's address (`JoinHostPort(ip, ":8083")`), permissions
  the dispatcher's role lacks, and, in the modules other than `NamespaceLimits`, a quota
  smaller than one pod's requests.
* Steps of the wall clock, which the monitor compares with `LastHeartbeat`.
* `GetJobByID`, `DeleteNamespace`, `UpdateNamespace`: no caller.
* The broker's own failures: publishes are not confirmed, so a publish may be lost, or be
  there behind an error; `Submission` allows both (`Enqueue`, `PublishJobErr`).

## 6. Plan

Done: every component with a protocol of its own, the compositions of runtime and
dispatcher (`Heartbeat`) and of gateway, scheduler, queue and dispatcher (`Submission`),
and the proofs named above: every safety property that a run checks to hold is a theorem.

Left: Deployment names, what cutting and folding do to distinctness (`Scheduler` assumes
only that `SlugOf` is a function).
