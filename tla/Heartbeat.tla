------------------------------ MODULE Heartbeat ------------------------------
(***************************************************************************)
(* Heartbeats: the loop of a runtime (services/runtime/server/grpc.go),    *)
(* the stream it keeps open, and the dispatcher's Heartbeat handler,       *)
(* executions map and execution monitor (services/dispatcher/server).      *)
(* The executions of the runtime are those of ExecutionLifecycle.          *)
(*                                                                         *)
(* Time is counted in steps of five seconds. What the two processes do     *)
(* when a timer fires, and the network while it works, take no time:       *)
(* TimePasses waits for them.                                              *)
(***************************************************************************)
EXTENDS Integers

CONSTANTS
    Exec,       \* execution ids
    Answered,   \* those whose Run response reaches the dispatcher
    Panics,     \* those without an entrypoint, whose start panics
    NoExec,     \* no execution
    MaxFaults   \* bound on what goes wrong

ASSUME HeartbeatAssumption ==
    /\ Answered \subseteq Exec /\ Panics \subseteq Exec
    /\ NoExec \notin Exec /\ MaxFaults \in Nat

VARIABLES
    state,      \* the runtime's entries, as in ExecutionLifecycle
    broken,     \* a panic is about to end the runtime, as there
    outcome,    \* how each answered execution ended: "none" or a final status
    hb,         \* the loop: "connect", "select", "iterate", "send", "sleep"; "off"
    hbTimer,    \* until its ticker fires or its sleep ends
    todo,       \* entries its range loop has not visited
    hbExec,     \* the entry it is sending
    link,       \* the open stream's connection: "ok", "reset" or "silent"
    wire,       \* heartbeats sent and not yet received
    disp,       \* the dispatcher process: "up", "stopping" or "down"
    calls,      \* executions whose Run response executeJob still waits for
    registry,   \* keys of the map g.executions
    view,       \* their Status
    age,        \* time since LastHeartbeat or, without one, since registration
    mon,        \* the monitor: "idle", "check" or "off"
    monTimer,   \* until its ticker fires
    toCheck,    \* entries of its copy of the map it has not looked at
    warned,     \* entries reported when they were last looked at
    missed,     \* failures since the last heartbeat that got through, up to 2
    faults      \* faults so far

runtimeVars == <<state, broken, outcome>>
hbVars      == <<hb, hbTimer, todo, hbExec>>
netVars     == <<link, wire>>
dispVars    == <<disp, calls, registry, view, age>>
monVars     == <<mon, monTimer, toCheck, warned>>
histVars    == <<missed, faults>>
vars == <<runtimeVars, hbVars, netVars, dispVars, monVars, histVars>>

Life == INSTANCE ExecutionLifecycle

(* The periods of the code, in steps of five seconds. *)
HbPeriodLong == 6       \* mutated form
HbPeriod == 2           \* the loop's ticker
BackoffLong == 3        \* mutated form
Backoff == 1            \* the sleep before it reconnects
MonPeriod == 6          \* the monitor's ticker
Silence == 6            \* what it calls a timeout
MaxAge == Silence + MonPeriod   \* ages are not told apart from here on

Beat == [exec : Exec, status : {"running"} \cup Life!Final]

TypeOK ==
    /\ state \in [Exec -> Life!State] /\ broken \in BOOLEAN
    /\ outcome \in [Exec -> {"none"} \cup Life!Final]
    /\ hb \in {"connect", "select", "iterate", "send", "sleep", "off"}
    /\ hbTimer \in 0..HbPeriod
    /\ todo \subseteq Exec /\ hbExec \in Exec \cup {NoExec}
    /\ link \in {"ok", "reset", "silent"}
    /\ wire \subseteq Beat
    /\ disp \in {"up", "stopping", "down"}
    /\ calls \subseteq Exec /\ registry \subseteq Exec
    /\ view \in [Exec -> {"none", "pending", "running"} \cup Life!Final]
    /\ \A e \in Exec : view[e] = "none" <=> e \notin registry
    /\ age \in [Exec -> 0..MaxAge]
    /\ mon \in {"idle", "check", "off"} /\ monTimer \in 0..MonPeriod
    /\ toCheck \subseteq registry /\ warned \subseteq registry
    /\ missed \in [Exec -> 0..2] /\ faults \in 0..MaxFaults

Init ==
    /\ Life!Init /\ outcome = [e \in Exec |-> "none"]
    /\ hb = "connect" /\ hbTimer = 0 /\ todo = {} /\ hbExec = NoExec
    /\ link = "ok" /\ wire = {}
    /\ disp = "up" /\ calls = {} /\ registry = {}
    /\ view = [e \in Exec |-> "none"] /\ age = [e \in Exec |-> 0]
    /\ mon = "idle" /\ monTimer = MonPeriod /\ toCheck = {} /\ warned = {}
    /\ missed = [e \in Exec |-> 0] /\ faults = 0

AtMost(n, bound) == IF n > bound THEN bound ELSE n

Fault == faults < MaxFaults /\ faults' = faults + 1

(* A failure delays the heartbeats of every execution the dispatcher knows. *)
Miss == missed' = [e \in Exec |-> IF e \in registry THEN AtMost(missed[e] + 1, 2) ELSE 0]

-----------------------------------------------------------------------------
(* The executions of the runtime. The loop's read lock keeps entries from being
   inserted and removed while it iterates; statuses are stored without a lock. *)

RLocked == hb \in {"iterate", "send"}

(* executeJob calls Run, and Run inserts the entry. If the response is lost the
   execution runs without ever being registered. *)
Accept(e) ==
    /\ disp = "up" /\ hb # "off" /\ ~RLocked
    /\ Life!Accept(e)
    /\ calls' = calls \cup ({e} \cap Answered)
    /\ UNCHANGED <<outcome, hbVars, netVars, disp, registry, view, age, monVars, histVars>>

Begin(e) ==
    /\ Life!Begin(e)
    /\ UNCHANGED <<outcome, hbVars, netVars, dispVars, monVars, histVars>>

Finish(e) ==
    /\ Life!Finish(e)
    /\ outcome' = IF e \in Answered THEN [outcome EXCEPT ![e] = state'[e]] ELSE outcome
    /\ UNCHANGED <<hbVars, netVars, dispVars, monVars, histVars>>

Remove(e) ==
    /\ ~RLocked
    /\ Life!Remove(e)
    /\ UNCHANGED <<outcome, hbVars, netVars, dispVars, monVars, histVars>>

(* A start that panics deletes its entry under the write lock as well. *)
Abandon(e) ==
    /\ ~RLocked
    /\ Life!Abandon(e)
    /\ UNCHANGED <<outcome, hbVars, netVars, dispVars, monVars, histVars>>

(* By a fault, or by the panic. *)
RuntimeEnds ==
    /\ hb # "off"
    /\ Life!Lose
    /\ hb' = "off" /\ hbTimer' = 0 /\ todo' = {} /\ hbExec' = NoExec
    /\ link' = "ok"
    /\ IF broken THEN UNCHANGED faults ELSE Fault
    /\ UNCHANGED <<outcome, wire, dispVars, monVars, missed>>

RuntimeRestarts ==
    /\ hb = "off"
    /\ hb' = "connect"
    /\ UNCHANGED <<runtimeVars, hbTimer, todo, hbExec, netVars, dispVars, monVars, histVars>>

-----------------------------------------------------------------------------
(* The loop. *)

(* A new stream and a new ticker. *)
HbConnect ==
    /\ hb = "connect" /\ disp = "up"
    /\ hb' = "select" /\ hbTimer' = HbPeriod
    /\ UNCHANGED <<runtimeVars, todo, hbExec, netVars, dispVars, monVars, histVars>>

(* The stream cannot be opened: for certain while nothing listens, otherwise as
   a fault. *)
HbConnectFails ==
    /\ hb = "connect"
    /\ hb' = "sleep" /\ hbTimer' = Backoff
    /\ Miss
    /\ IF disp = "up" THEN Fault ELSE UNCHANGED faults
    /\ UNCHANGED <<runtimeVars, todo, hbExec, netVars, dispVars, monVars>>

HbTick ==
    /\ hb = "select" /\ hbTimer = 0
    /\ hb' = "iterate" /\ hbTimer' = HbPeriod
    /\ todo' = { e \in Exec : state[e] \in Life!Present }
    /\ UNCHANGED <<runtimeVars, hbExec, netVars, dispVars, monVars, histVars>>

(* The first load of the status decides whether the entry is reported ... *)
HbVisit(e) ==
    /\ hb = "iterate" /\ e \in todo
    /\ todo' = todo \ {e}
    /\ IF state[e] = "running"
         THEN hb' = "send" /\ hbExec' = e
         ELSE UNCHANGED <<hb, hbExec>>
    /\ UNCHANGED <<runtimeVars, hbTimer, netVars, dispVars, monVars, histVars>>

(* ... the second one, which may find another, is what is reported. Send returns
   before the dispatcher has received anything: on a silent connection it
   succeeds as well. *)
HbSend ==
    /\ hb = "send" /\ link # "reset"
    /\ hb' = "iterate" /\ hbExec' = NoExec
    /\ IF link = "ok"
         THEN /\ wire' = wire \cup {[exec |-> hbExec, status |-> state[hbExec]]}
              /\ UNCHANGED missed
         ELSE Miss /\ UNCHANGED wire
    /\ UNCHANGED <<runtimeVars, hbTimer, todo, link, dispVars, monVars, faults>>

(* Nothing is received from the stream, so only Send finds out that it has
   ended; the entries left to visit wait for the next stream. *)
HbSendFails ==
    /\ hb = "send" /\ link = "reset"
    /\ hb' = "sleep" /\ hbTimer' = Backoff
    /\ todo' = {} /\ hbExec' = NoExec
    /\ link' = "ok"
    /\ Miss
    /\ UNCHANGED <<runtimeVars, wire, dispVars, monVars, faults>>

HbIterated ==
    /\ hb = "iterate" /\ todo = {}
    /\ hb' = "select"
    /\ UNCHANGED <<runtimeVars, hbTimer, todo, hbExec, netVars, dispVars, monVars, histVars>>

HbWake ==
    /\ hb = "sleep" /\ hbTimer = 0
    /\ hb' = "connect"
    /\ UNCHANGED <<runtimeVars, hbTimer, todo, hbExec, netVars, dispVars, monVars, histVars>>

-----------------------------------------------------------------------------
(* The network. *)

Streaming == hb = "select" \/ RLocked

LosesWire == wire' = {} /\ IF wire = {} THEN UNCHANGED missed ELSE Miss

(* The connection is reset, or swallows what is sent: neither side asks for
   keepalives. *)
LinkBreaks ==
    /\ Streaming /\ link = "ok"
    /\ link' \in {"reset", "silent"}
    /\ LosesWire
    /\ Fault
    /\ UNCHANGED <<runtimeVars, hbVars, dispVars, monVars>>

(* TCP gives up on a connection that stays silent. *)
LinkTimesOut ==
    /\ link = "silent"
    /\ link' = "reset"
    /\ UNCHANGED <<runtimeVars, hbVars, wire, dispVars, monVars, histVars>>

-----------------------------------------------------------------------------
(* The dispatcher. *)

(* Mutated form: the entry starts as running. *)
RegisterRunning(e) ==
    /\ e \in calls
    /\ calls' = calls \ {e}
    /\ registry' = registry \cup {e}
    /\ view' = [view EXCEPT ![e] = "running"]
    /\ age' = [age EXCEPT ![e] = 0]
    /\ missed' = [missed EXCEPT ![e] = 0]
    /\ UNCHANGED <<runtimeVars, hbVars, netVars, disp, monVars, faults>>

(* The response arrives, however late; LastHeartbeat is left zero. *)
Register(e) ==
    /\ e \in calls
    /\ calls' = calls \ {e}
    /\ registry' = registry \cup {e}
    /\ view' = [view EXCEPT ![e] = "pending"]
    /\ age' = [age EXCEPT ![e] = 0]
    /\ missed' = [missed EXCEPT ![e] = 0]
    /\ UNCHANGED <<runtimeVars, hbVars, netVars, disp, monVars, faults>>

(* Mutated form: a heartbeat of an unknown execution makes an entry of its own. *)
RecvAny(b) ==
    /\ b \in wire
    /\ wire' = wire \ {b}
    /\ view' = [view EXCEPT ![b.exec] = b.status]
    /\ age' = [age EXCEPT ![b.exec] = 0]
    /\ missed' = [missed EXCEPT ![b.exec] = 0]
    /\ UNCHANGED <<runtimeVars, hbVars, link, disp, calls, registry, monVars, faults>>

(* Mutated form: LastHeartbeat is not refreshed. *)
RecvStatusOnly(b) ==
    /\ b \in wire
    /\ wire' = wire \ {b}
    /\ IF b.exec \in registry
         THEN view' = [view EXCEPT ![b.exec] = b.status]
         ELSE UNCHANGED view
    /\ UNCHANGED <<runtimeVars, hbVars, link, disp, calls, registry, age, monVars, histVars>>

(* A heartbeat of an execution that is not registered, not yet or not any more,
   is dropped. *)
Recv(b) ==
    /\ b \in wire
    /\ wire' = wire \ {b}
    /\ IF b.exec \in registry
         THEN /\ view' = [view EXCEPT ![b.exec] = b.status]
              /\ age' = [age EXCEPT ![b.exec] = 0]
              /\ missed' = [missed EXCEPT ![b.exec] = 0]
         ELSE UNCHANGED <<view, age, missed>>
    /\ UNCHANGED <<runtimeVars, hbVars, link, disp, calls, registry, monVars, faults>>

(* The monitor copies the map under the read lock ... *)
MonitorTick ==
    /\ mon = "idle" /\ monTimer = 0
    /\ mon' = "check" /\ monTimer' = MonPeriod
    /\ toCheck' = registry
    /\ UNCHANGED <<runtimeVars, hbVars, netVars, dispVars, warned, histVars>>

(* Mutated form: an entry that has had no heartbeat is given a chance. *)
OverdueOnceHeard(e) == view[e] # "pending" /\ age[e] >= Silence

(* The zero time is longer ago than any timeout. *)
Overdue(e) == view[e] = "pending" \/ age[e] >= Silence

(* ... and looks at the entries without it: a heartbeat may come in between.
   UTC() has stripped the monotonic reading, so time.Since compares wall clocks,
   which are assumed not to step; a torn read of LastHeartbeat mixes the seconds
   of one write with the fraction of the other, and is off by less than a second. *)
CheckEntry(e) ==
    /\ mon = "check" /\ e \in toCheck
    /\ toCheck' = toCheck \ {e}
    /\ warned' = IF Overdue(e) THEN warned \cup {e} ELSE warned \ {e}
    /\ UNCHANGED <<runtimeVars, hbVars, netVars, dispVars, mon, monTimer, histVars>>

MonitorDone ==
    /\ mon = "check" /\ toCheck = {}
    /\ mon' = "idle"
    /\ UNCHANGED <<runtimeVars, hbVars, netVars, dispVars, monTimer, toCheck, warned, histVars>>

(* SIGTERM: no new stream is accepted, an open one is served to the end, and
   the monitor returns. *)
DispatcherSigterm ==
    /\ disp = "up"
    /\ disp' = "stopping"
    /\ Fault
    /\ UNCHANGED <<runtimeVars, hbVars, netVars, calls, registry, view, age, monVars, missed>>

MonitorStops ==
    /\ disp = "stopping" /\ mon = "idle"
    /\ mon' = "off" /\ monTimer' = 0
    /\ UNCHANGED <<runtimeVars, hbVars, netVars, dispVars, toCheck, warned, histVars>>

(* The map is in memory only. *)
DispatcherGone ==
    /\ disp' = "down" /\ calls' = {} /\ registry' = {}
    /\ view' = [e \in Exec |-> "none"] /\ age' = [e \in Exec |-> 0]
    /\ mon' = "off" /\ monTimer' = 0 /\ toCheck' = {} /\ warned' = {}
    /\ link' = IF Streaming THEN "reset" ELSE "ok"
    /\ wire' = {}
    /\ missed' = [e \in Exec |-> 0]
    /\ UNCHANGED <<runtimeVars, hbVars>>

DispatcherExits == disp = "stopping" /\ DispatcherGone /\ UNCHANGED faults

DispatcherCrashes == disp = "up" /\ DispatcherGone /\ Fault

DispatcherRestarts ==
    /\ disp = "down"
    /\ disp' = "up" /\ mon' = "idle" /\ monTimer' = MonPeriod
    /\ UNCHANGED <<runtimeVars, hbVars, netVars, calls, registry, view, age, toCheck, warned, histVars>>

-----------------------------------------------------------------------------
(* Five seconds pass once nothing is left to do at this moment. *)

Waiting ==
    /\ ~broken
    /\ \A e \in Exec : /\ state[e] \notin {"pending"} \cup Life!Final
                       /\ ~(e \in Panics /\ state[e] = "running")
    /\ hb = "off" \/ (hb \in {"select", "sleep"} /\ hbTimer > 0)
    /\ wire = {}
    /\ mon = "off" \/ (mon = "idle" /\ monTimer > 0)

TimePasses ==
    /\ Waiting
    /\ hbTimer' = IF hb = "off" THEN 0 ELSE hbTimer - 1
    /\ monTimer' = IF mon = "off" THEN 0 ELSE monTimer - 1
    /\ age' = [e \in Exec |-> IF e \in registry THEN AtMost(age[e] + 1, MaxAge) ELSE 0]
    /\ UNCHANGED <<runtimeVars, hb, todo, hbExec, netVars, disp, calls, registry, view,
                   mon, toCheck, warned, histVars>>

-----------------------------------------------------------------------------
Loop ==
    \/ HbConnect \/ HbConnectFails \/ HbTick \/ HbSend \/ HbSendFails
    \/ HbIterated \/ HbWake
    \/ \E e \in Exec : HbVisit(e)

Monitor == MonitorTick \/ MonitorDone \/ MonitorStops \/ \E e \in Exec : CheckEntry(e)

Received == \E b \in wire : Recv(b)

Settles == \E e \in Exec : Begin(e) \/ Remove(e) \/ Abandon(e)

Next ==
    \/ \E e \in Exec : Accept(e) \/ Finish(e) \/ Register(e)
    \/ Settles \/ Loop \/ Received \/ Monitor
    \/ RuntimeEnds \/ RuntimeRestarts
    \/ LinkBreaks \/ LinkTimesOut
    \/ DispatcherSigterm \/ DispatcherExits \/ DispatcherCrashes \/ DispatcherRestarts
    \/ TimePasses

Spec == Init /\ [][Next]_vars

(* Goroutines run, a panic ends the runtime, what is on the wire arrives, a silent
   connection is given up in the end, the process of a dispatcher that has been
   told to stop ends (its consumer is fatal) and is started again, and time
   passes. *)
Fairness ==
    /\ WF_vars(Settles) /\ WF_vars(broken /\ RuntimeEnds) /\ WF_vars(Loop)
    /\ WF_vars(Received) /\ WF_vars(Monitor) /\ WF_vars(LinkTimesOut)
    /\ WF_vars(DispatcherExits) /\ WF_vars(DispatcherRestarts) /\ WF_vars(TimePasses)

FairSpec == Spec /\ Fairness

-----------------------------------------------------------------------------
Running(e) == e \in registry /\ state[e] = "running"
Heard(e) == e \in registry /\ view[e] # "pending"

(* What the dispatcher believes of an execution is something it has been: the
   map is never ahead of the runtime, and a final status, which only a status
   that changes between the loop's two loads brings, is how it really ended. *)
ViewIsPast ==
    \A e \in registry :
        /\ view[e] \in {"running"} \cup Life!Final => state[e] \notin {"absent", "pending"}
        /\ view[e] \in Life!Final => outcome[e] = view[e]

(* The timeout fits the reconnection: one failure, of a Send or of an attempt
   to connect, never makes a running execution look silent for thirty seconds.
   It takes two before the next heartbeat gets through. *)
FailureIsTolerated ==
    \A e \in Exec : Running(e) /\ Heard(e) /\ age[e] >= Silence => missed[e] >= 2

(* The zero LastHeartbeat makes the monitor report a new execution at once, but
   not twice: without failures the first heartbeat arrives within one period of
   the monitor, also if an earlier one came before the registration and was
   dropped. *)
FirstBeatInTime ==
    \A e \in Exec : Running(e) /\ ~Heard(e) /\ missed[e] = 0 => age[e] < MonPeriod

(* No loss goes unnoticed while the dispatcher runs: an entry that has had no
   heartbeat for a minute has been reported, one that never had any after thirty
   seconds, whichever of runtime, stream and network is at fault. *)
LossDetected ==
    \A e \in registry :
        /\ disp = "up"
        /\ \/ age[e] >= Silence + MonPeriod
           \/ ~Heard(e) /\ age[e] > MonPeriod
        => e \in warned

(* A false alarm does not last: once failures stop, the monitor stops reporting
   an execution that goes on running. *)
AlarmClears ==
    \A e \in Exec : e \in warned ~> (e \notin warned \/ state[e] # "running")
=============================================================================
