---------------------------- MODULE WorkerScaling ----------------------------
(***************************************************************************)
(* Waking a worker (shared/k8s): concurrent executeJob goroutines of one   *)
(* worker call ScaleWorker(1, isWakeUpCall) and then SelectPod, against a  *)
(* Deployment that the API server guards with resource versions, whose     *)
(* pods the controllers create in their own time and whose status lags     *)
(* behind its pods. Nothing in the code scales a worker down; an operator  *)
(* may, and may delete the Deployment.                                     *)
(***************************************************************************)
EXTENDS Naturals, FiniteSets

CONSTANTS
    Call,           \* concurrent calls for this worker
    MaxReplicas,    \* workers.max_replicas (and bound on replicas modelled)
    MaxOps,         \* bound: interventions of an operator
    ApiErrors,      \* whether API requests may fail for reasons of their own
    SlowPods        \* whether a watch may time out, close or lose its pod

ASSUME ScalingAssumption ==
    /\ IsFiniteSet(Call)
    /\ MaxReplicas \in Nat
    /\ MaxOps \in Nat
    /\ ApiErrors \in BOOLEAN
    /\ SlowPods \in BOOLEAN

VARIABLES
    exists,     \* the Deployment (and its namespace) exists
    spec,       \* spec.replicas
    fresh,      \* calls holding a Scale of the current resource version
    pods,       \* pods of the worker
    ready,      \* how many of them are ready
    stReplicas, \* status.replicas, as last written by the controller
    stReady,    \* status.readyReplicas, likewise
    ops,        \* interventions so far
    pc,         \* where each call is
    event,      \* calls whose watch has an event with a ready replica
    woke        \* (history) calls whose UpdateScale succeeded

clusterVars == <<pods, ready, stReplicas, stReady>>
vars == <<exists, spec, fresh, clusterVars, ops, pc, event, woke>>

Step == {"start", "get", "recover", "reget", "update", "waitGet", "watchStart",
         "watch", "select", "picked", "failed"}

TypeOK ==
    /\ exists \in BOOLEAN
    /\ spec \in 0 .. MaxReplicas
    /\ fresh \subseteq Call
    /\ pods \in 0 .. MaxReplicas
    /\ ready \in 0 .. pods
    /\ stReplicas \in 0 .. MaxReplicas
    /\ stReady \in 0 .. MaxReplicas
    /\ ops \in 0 .. MaxOps
    /\ pc \in [Call -> Step]
    /\ event \subseteq Call
    /\ woke \subseteq Call

(* CreateJob has created the Deployment with no replicas. *)
Init ==
    /\ exists = TRUE /\ spec = 0 /\ fresh = {}
    /\ pods = 0 /\ ready = 0 /\ stReplicas = 0 /\ stReady = 0
    /\ ops = 0
    /\ pc = [c \in Call |-> "start"]
    /\ event = {} /\ woke = {}

-----------------------------------------------------------------------------
Goto(c, step) == pc' = [pc EXCEPT ![c] = step]

(* Any request to the API server may come back with an error of its own. *)
ApiError(c, step) ==
    /\ ApiErrors
    /\ pc[c] = step
    /\ Goto(c, "failed")
    /\ UNCHANGED <<exists, spec, fresh, clusterVars, ops, event, woke>>

(* The goroutine calls ScaleWorker: one replica, if the worker may have one. *)
CallScale(c) ==
    /\ pc[c] = "start"
    /\ Goto(c, IF 1 > MaxReplicas THEN "failed" ELSE "get")
    /\ UNCHANGED <<exists, spec, fresh, clusterVars, ops, event, woke>>

(* Mutated form: the number asked for is set although the worker is awake. *)
ReadScaleAnyway(c) ==
    /\ exists
    /\ fresh' = fresh \cup {c}
    /\ Goto(c, IF spec = 1 THEN "select" ELSE "update")
    /\ UNCHANGED <<exists, spec, clusterVars, ops, event, woke>>

(* GetScale, first try or after recovery: a worker that is awake is left alone,
   one at zero replicas is to be updated under the version just read. *)
ReadScale(c) ==
    /\ exists
    /\ fresh' = fresh \cup {c}
    /\ Goto(c, IF spec = 0 THEN "update" ELSE "select")
    /\ UNCHANGED <<exists, spec, clusterVars, ops, event, woke>>

GetScale(c) == pc[c] = "get" /\ ReadScale(c)

GetNotFound(c) ==
    /\ pc[c] = "get" /\ ~exists
    /\ Goto(c, "recover")
    /\ UNCHANGED <<exists, spec, fresh, clusterVars, ops, event, woke>>

(* Mutated form: recovery applies its Deployment over an existing one. *)
RecoverOverwrites(c) ==
    /\ pc[c] = "recover"
    /\ exists' = TRUE /\ spec' = 0 /\ fresh' = {}
    /\ stReplicas' = 0 /\ stReady' = 0
    /\ Goto(c, "reget")
    /\ UNCHANGED <<pods, ready, ops, event, woke>>

(* A write succeeded, which its caller need not be told. *)
Written(c, step) == Goto(c, step) \/ (ApiErrors /\ Goto(c, "failed"))

(* recoverWorker creates namespace and Deployment; that somebody else already
   has (AlreadyExists) is not an error. *)
Recover(c) ==
    /\ pc[c] = "recover"
    /\ IF exists
         THEN UNCHANGED <<exists, spec, fresh, stReplicas, stReady>>
         ELSE /\ exists' = TRUE /\ spec' = 0 /\ fresh' = {}
              /\ stReplicas' = 0 /\ stReady' = 0
    /\ Written(c, "reget")
    /\ UNCHANGED <<pods, ready, ops, event, woke>>

RegetScale(c) == pc[c] = "reget" /\ ReadScale(c)

RegetNotFound(c) ==
    /\ pc[c] = "reget" /\ ~exists
    /\ Goto(c, "failed")
    /\ UNCHANGED <<exists, spec, fresh, clusterVars, ops, event, woke>>

(* Mutated form: the update does not carry the version that was read. *)
UpdateScaleUnversioned(c) ==
    /\ pc[c] = "update"
    /\ exists
    /\ spec' = 1 /\ fresh' = {}
    /\ woke' = woke \cup {c}
    /\ Goto(c, "waitGet")
    /\ UNCHANGED <<exists, clusterVars, ops, event>>

(* Mutated form: an unversioned patch that adds one replica. *)
UpdateScaleAdds(c) ==
    /\ pc[c] = "update"
    /\ exists
    /\ spec' = spec + 1 /\ fresh' = {}
    /\ woke' = woke \cup {c}
    /\ Goto(c, "waitGet")
    /\ UNCHANGED <<exists, clusterVars, ops, event>>

UpdateScale(c) ==
    /\ pc[c] = "update"
    /\ exists /\ c \in fresh
    /\ spec' = 1 /\ fresh' = {}
    /\ woke' = woke \cup {c}
    /\ Written(c, "waitGet")
    /\ UNCHANGED <<exists, clusterVars, ops, event>>

(* The Deployment has changed since (its status counts) or is gone. *)
UpdateConflict(c) ==
    /\ pc[c] = "update"
    /\ ~exists \/ c \notin fresh
    /\ Goto(c, "failed")
    /\ UNCHANGED <<exists, spec, fresh, clusterVars, ops, event, woke>>

(* WaitWorkerReady looks at status.replicas, pods that exist, ready or not. *)
WaitGet(c) ==
    /\ pc[c] = "waitGet"
    /\ Goto(c, IF ~exists THEN "failed"
               ELSE IF stReplicas > 0 THEN "select" ELSE "watchStart")
    /\ UNCHANGED <<exists, spec, fresh, clusterVars, ops, event, woke>>

(* A watch without a version starts with the current object. *)
WatchStart(c) ==
    /\ pc[c] = "watchStart"
    /\ event' = IF exists /\ stReady > 0 THEN event \cup {c} ELSE event
    /\ Goto(c, "watch")
    /\ UNCHANGED <<exists, spec, fresh, clusterVars, ops, woke>>

WatchReady(c) ==
    /\ pc[c] = "watch" /\ c \in event
    /\ Goto(c, "select")
    /\ UNCHANGED <<exists, spec, fresh, clusterVars, ops, event, woke>>

(* Mutated form: the loop goes on when the time is over. *)
WatchEndsIgnored(c) ==
    /\ SlowPods
    /\ pc[c] = "watch"
    /\ UNCHANGED vars

(* One minute is over, or the watch channel has been closed. *)
WatchEnds(c) ==
    /\ SlowPods
    /\ pc[c] = "watch"
    /\ Goto(c, "failed")
    /\ UNCHANGED <<exists, spec, fresh, clusterVars, ops, event, woke>>

(* SelectPod: one of the ready pods, or "no ready worker pods". *)
SelectPod(c) ==
    /\ pc[c] = "select"
    /\ Goto(c, IF ready > 0 THEN "picked" ELSE "failed")
    /\ UNCHANGED <<exists, spec, fresh, clusterVars, ops, event, woke>>

CallStep(c) ==
    \/ CallScale(c) \/ GetScale(c) \/ GetNotFound(c) \/ Recover(c)
    \/ RegetScale(c) \/ RegetNotFound(c) \/ UpdateScale(c) \/ UpdateConflict(c)
    \/ WaitGet(c) \/ WatchStart(c) \/ WatchReady(c) \/ WatchEnds(c) \/ SelectPod(c)
    \/ \E step \in {"get", "recover", "reget", "update", "waitGet", "watchStart",
                    "select"} : ApiError(c, step)

-----------------------------------------------------------------------------
(* The cluster. *)

PodCreated ==
    /\ exists /\ pods < spec
    /\ pods' = pods + 1
    /\ UNCHANGED <<exists, spec, fresh, ready, stReplicas, stReady, ops, pc, event, woke>>

PodReady ==
    /\ ready < pods
    /\ ready' = ready + 1
    /\ UNCHANGED <<exists, spec, fresh, pods, stReplicas, stReady, ops, pc, event, woke>>

(* A pod of a scaled-down or deleted Deployment goes. *)
PodRemoved ==
    /\ pods > 0
    /\ ~exists \/ pods > spec
    /\ pods' = pods - 1
    /\ ready' \in { r \in {ready, ready - 1} : r \in 0 .. pods - 1 }
    /\ UNCHANGED <<exists, spec, fresh, stReplicas, stReady, ops, pc, event, woke>>

(* A pod dies, or its readiness probe fails. *)
PodFails ==
    /\ SlowPods
    /\ ready > 0
    /\ ready' = ready - 1
    /\ pods' \in {pods, pods - 1}
    /\ UNCHANGED <<exists, spec, fresh, stReplicas, stReady, ops, pc, event, woke>>

(* The controller writes the status: a new resource version and an event. *)
StatusSync ==
    /\ exists
    /\ <<stReplicas, stReady>> # <<pods, ready>>
    /\ stReplicas' = pods /\ stReady' = ready
    /\ fresh' = {}
    /\ event' = IF ready > 0 THEN event \cup { c \in Call : pc[c] = "watch" } ELSE event
    /\ UNCHANGED <<exists, spec, pods, ready, ops, pc, woke>>

OperatorScales ==
    /\ exists /\ ops < MaxOps
    /\ ops' = ops + 1
    /\ spec' \in 0 .. MaxReplicas
    /\ fresh' = {}
    /\ UNCHANGED <<exists, clusterVars, pc, event, woke>>

OperatorDeletes ==
    /\ exists /\ ops < MaxOps
    /\ ops' = ops + 1
    /\ exists' = FALSE
    /\ spec' = 0 /\ fresh' = {} /\ stReplicas' = 0 /\ stReady' = 0
    /\ UNCHANGED <<pods, ready, pc, event, woke>>

Cluster == PodCreated \/ PodReady \/ PodRemoved \/ StatusSync

Next ==
    \/ \E c \in Call : CallStep(c)
    \/ Cluster \/ PodFails \/ OperatorScales \/ OperatorDeletes

Spec == Init /\ [][Next]_vars

(* Calls run and API requests return; the minute of a watch passes. *)
CallFairness == \A c \in Call : WF_vars(CallStep(c))
CallSpec == Spec /\ CallFairness

(* The cluster does what it should as well. *)
FairSpec == Spec /\ CallFairness /\ WF_vars(PodCreated) /\ WF_vars(PodReady)
                 /\ WF_vars(PodRemoved) /\ WF_vars(StatusSync)

-----------------------------------------------------------------------------
(* Whatever happens between a call's read and its update, calls only ever wake
   the worker, from zero replicas to one: they neither lower nor overwrite a
   number that an operator or another call has set, recovery included. *)
CallsOnlyWake ==
    [][ (\E c \in Call : pc'[c] # pc[c]) /\ exists /\ exists'
        => spec' = spec \/ (spec = 0 /\ spec' = 1) ]_vars

(* Of the calls that find the worker asleep one wakes it; a second one can only
   after an operator has intervened. *)
OneWaker == Cardinality(woke) <= 1 + ops

(* No call waits for ever, even if no pod ever becomes ready. *)
CallsEnd == \A c \in Call : <>(pc[c] \in {"picked", "failed"})

Outcome ==
    [c \in Call |->
        IF pc[c] \in {"picked", "failed"} THEN pc[c]
        ELSE IF c \in woke THEN "woke"
        ELSE IF pc[c] = "select" THEN "awake" ELSE "open"]

(* To its concurrent callers ScaleWorker is a test and set: a call that wakes the
   worker has found it at zero replicas at that very instant, one that leaves it
   alone has found it set, and every call ends. *)
WakeUp == INSTANCE WakeUp WITH replicas <- spec, outcome <- Outcome
ImplementsWakeUp == WakeUp!Spec

(* README: "Wardu routes it to the right worker pod". When no request fails,
   nobody intervenes and pods become ready, every call gets a pod. *)
RoutedToPod == \A c \in Call : <>(pc[c] = "picked")
=============================================================================
