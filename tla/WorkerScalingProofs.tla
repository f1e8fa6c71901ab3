------------------------- MODULE WorkerScalingProofs -------------------------
(***************************************************************************)
(* The safety properties of WorkerScaling, for every finite set of calls,  *)
(* every replica limit and any number of interventions.                    *)
(***************************************************************************)
EXTENDS WorkerScaling, FiniteSetTheorems, TLAPS

(* The limit check lets a call past "start" only if one replica is allowed. *)
Admitted == \A c \in Call : pc[c] \notin {"start", "failed"} => MaxReplicas >= 1

(* A call about to update under a current version has read zero replicas, and
   zero they still are. *)
FreshMeansAsleep == \A c \in fresh : pc[c] = "update" => exists /\ spec = 0

(* Each waker beyond the interventions is matched by a Deployment awake. *)
WakersAccounted ==
    Cardinality(woke) <= ops + (IF exists /\ spec > 0 THEN 1 ELSE 0)

IInv == TypeOK /\ Admitted /\ FreshMeansAsleep /\ WakersAccounted

-----------------------------------------------------------------------------
(* The initial state satisfies the invariant. *)
LEMMA InitInv == Init => IInv
<1>. SUFFICES ASSUME Init PROVE IInv
  OBVIOUS
<1>. USE ScalingAssumption
<1>1. TypeOK /\ Admitted /\ FreshMeansAsleep
  BY DEF Init, TypeOK, Admitted, FreshMeansAsleep, Step
<1>2. Cardinality(woke) = 0
  BY FS_EmptySet DEF Init
<1>3. WakersAccounted
  BY <1>2 DEF WakersAccounted, Init
<1>. QED
  BY <1>1, <1>3 DEF IInv

(* A call that goes on, or ends, without touching the Deployment; it may obtain
   a current Scale (ReadScale), for an update only if the worker is asleep. *)
LEMMA CallMoves ==
    ASSUME IInv, NEW c \in Call, NEW s \in Step, Goto(c, s),
           pc[c] # "start" \/ s = "failed" \/ MaxReplicas >= 1,
           s # "start", pc[c] # "failed",
           UNCHANGED <<exists, spec, clusterVars, ops, woke>>,
           event' \subseteq Call,
           \/ UNCHANGED fresh /\ s # "update"
           \/ /\ fresh' = fresh \cup {c}
              /\ s = "update" => exists /\ spec = 0
    PROVE  IInv'
<1>. USE ScalingAssumption DEF IInv, clusterVars
<1>1. TypeOK'
  BY DEF TypeOK, Goto
<1>2. Admitted'
  BY DEF Admitted, TypeOK, Goto
<1>3. FreshMeansAsleep' /\ WakersAccounted'
  BY DEF FreshMeansAsleep, WakersAccounted, TypeOK, Goto
<1>. QED
  BY <1>1, <1>2, <1>3

(* ScaleWorker's limit check. *)
LEMMA CallScaleInv ==
    ASSUME IInv, NEW c \in Call, CallScale(c)
    PROVE  IInv'
<1>. USE ScalingAssumption
<1>1. MaxReplicas >= 1 \/ Goto(c, "failed")
  BY DEF CallScale
<1>2. \E s \in {"failed", "get"} : Goto(c, s) /\ (s = "failed" \/ MaxReplicas >= 1)
  BY <1>1 DEF CallScale
<1>. QED
  BY <1>2, CallMoves DEF CallScale, Step, IInv, TypeOK

(* GetScale, the first or the second time. *)
LEMMA ReadScaleInv ==
    ASSUME IInv, NEW c \in Call, GetScale(c) \/ RegetScale(c)
    PROVE  IInv'
<1>. USE DEF GetScale, RegetScale, ReadScale, Step
<1>1. CASE spec = 0
  BY <1>1, CallMoves DEF IInv, TypeOK
<1>2. CASE spec # 0
  BY <1>2, CallMoves DEF IInv, TypeOK
<1>. QED
  BY <1>1, <1>2

(* Steps that leave the Deployment and the version alone. *)
LEMMA QuietInv ==
    ASSUME IInv, NEW c \in Call,
           \/ GetNotFound(c) \/ RegetNotFound(c) \/ UpdateConflict(c)
           \/ WatchStart(c) \/ WatchReady(c) \/ WatchEnds(c)
    PROVE  IInv'
<1>. USE CallMoves DEF Step
<1>1. CASE GetNotFound(c)
  BY <1>1 DEF GetNotFound, IInv, TypeOK
<1>2. CASE RegetNotFound(c) \/ UpdateConflict(c)
  BY <1>2 DEF RegetNotFound, UpdateConflict, IInv, TypeOK
<1>3. CASE WatchStart(c)
  <2>1. event' \subseteq Call
    BY <1>3 DEF WatchStart, IInv, TypeOK
  <2>. QED
    BY <1>3, <2>1 DEF WatchStart
<1>4. CASE WatchReady(c) \/ WatchEnds(c)
  BY <1>4 DEF WatchReady, WatchEnds, IInv, TypeOK
<1>. QED
  BY <1>1, <1>2, <1>3, <1>4

(* An error of the API server. *)
LEMMA ApiErrorInv ==
    ASSUME IInv, NEW c \in Call,
           NEW step \in {"get", "recover", "reget", "update", "waitGet", "watchStart",
                         "select"},
           ApiError(c, step)
    PROVE  IInv'
BY CallMoves DEF ApiError, Step, IInv, TypeOK

(* WaitWorkerReady's first look, and SelectPod. *)
LEMMA LookInv ==
    ASSUME IInv, NEW c \in Call, WaitGet(c) \/ SelectPod(c)
    PROVE  IInv'
<1>. USE CallMoves DEF Step
<1>1. CASE WaitGet(c)
  <2>1. \E s \in {"failed", "select", "watchStart"} : Goto(c, s)
    BY <1>1 DEF WaitGet
  <2>. QED
    BY <1>1, <2>1 DEF WaitGet, IInv, TypeOK
<1>2. CASE SelectPod(c)
  <2>1. \E s \in {"picked", "failed"} : Goto(c, s)
    BY <1>2 DEF SelectPod
  <2>. QED
    BY <1>2, <2>1 DEF SelectPod, IInv, TypeOK
<1>. QED
  BY <1>1, <1>2

(* recoverWorker: a new Deployment is asleep, an existing one is left alone. *)
LEMMA RecoverInv ==
    ASSUME IInv, NEW c \in Call, Recover(c)
    PROVE  IInv'
<1>. USE ScalingAssumption
<1>0. PICK s \in {"reget", "failed"} : Goto(c, s)
  BY DEF Recover, Written
<1>1. CASE exists
  BY <1>0, <1>1, CallMoves DEF Recover, Step, IInv, TypeOK, clusterVars
<1>2. CASE ~exists
  <2>. USE <1>2 DEF Recover, IInv
  <2>1. TypeOK'
    BY <1>0 DEF TypeOK, Step, Goto
  <2>2. Admitted' /\ FreshMeansAsleep' /\ WakersAccounted'
    BY <1>0 DEF Admitted, FreshMeansAsleep, WakersAccounted, TypeOK, Goto
  <2>. QED
    BY <2>1, <2>2
<1>. QED
  BY <1>1, <1>2

(* The update of a worker that is asleep adds one waker and wakes it. *)
LEMMA UpdateScaleInv ==
    ASSUME IInv, NEW c \in Call, UpdateScale(c)
    PROVE  IInv'
<1>. USE ScalingAssumption DEF IInv
<1>1. /\ exists /\ spec = 0 /\ MaxReplicas >= 1
      /\ exists' /\ spec' = 1 /\ fresh' = {} /\ woke' = woke \cup {c}
      /\ UNCHANGED <<exists, clusterVars, ops, event>>
  BY DEF UpdateScale, FreshMeansAsleep, Admitted
<1>0. PICK s \in {"waitGet", "failed"} : Goto(c, s)
  BY DEF UpdateScale, Written
<1>2. TypeOK'
  BY <1>0, <1>1 DEF TypeOK, Step, Goto, clusterVars
<1>3. Admitted' /\ FreshMeansAsleep'
  BY <1>0, <1>1 DEF Admitted, FreshMeansAsleep, TypeOK, Goto
<1>4. IsFiniteSet(woke) /\ Cardinality(woke) \in Nat
  BY FS_Subset, FS_CardinalityType DEF TypeOK
<1>5. Cardinality(woke') <= Cardinality(woke) + 1 /\ Cardinality(woke') \in Nat
  <2>1. Cardinality(woke \cup {c}) = IF c \in woke THEN Cardinality(woke)
                                     ELSE Cardinality(woke) + 1
    BY <1>4, FS_AddElement, Zenon
  <2>. QED
    BY <1>1, <1>4, <2>1
<1>6. WakersAccounted'
  BY <1>1, <1>4, <1>5 DEF WakersAccounted, TypeOK
<1>. QED
  BY <1>2, <1>3, <1>6

(* Every step of a call preserves the invariant. *)
LEMMA CallStepInv ==
    ASSUME IInv, NEW c \in Call, CallStep(c)
    PROVE  IInv'
BY CallScaleInv, ReadScaleInv, QuietInv, ApiErrorInv, LookInv, RecoverInv, UpdateScaleInv
   DEF CallStep

(* The controllers change pods and status, never the number asked for. *)
LEMMA ClusterInv ==
    ASSUME IInv, Cluster \/ PodFails
    PROVE  IInv'
<1>. USE ScalingAssumption DEF IInv
<1>1. TypeOK'
  <2>1. CASE PodCreated
    BY <2>1 DEF TypeOK, PodCreated
  <2>2. CASE PodReady
    BY <2>2 DEF TypeOK, PodReady
  <2>3. CASE PodRemoved
    <3>0. pods > 0 /\ pods' = pods - 1 /\ ready' \in 0 .. pods - 1
      BY <2>3, Zenon DEF PodRemoved
    <3>1. /\ pods \in Nat /\ ready \in Nat /\ pods > 0
          /\ pods' = pods - 1 /\ ready' \in 0 .. pods'
      BY <3>0 DEF TypeOK
    <3>2. pods' \in 0 .. MaxReplicas
      BY <3>1 DEF TypeOK
    <3>. QED
      BY <2>3, <3>1, <3>2 DEF TypeOK, PodRemoved
  <2>4. CASE StatusSync
    BY <2>4 DEF TypeOK, StatusSync
  <2>5. CASE PodFails
    BY <2>5 DEF TypeOK, PodFails
  <2>. QED
    BY <2>1, <2>2, <2>3, <2>4, <2>5 DEF Cluster
<1>2. UNCHANGED <<exists, spec, ops, pc, woke>> /\ fresh' \subseteq fresh
  BY DEF Cluster, PodCreated, PodReady, PodRemoved, StatusSync, PodFails
<1>3. Admitted' /\ FreshMeansAsleep' /\ WakersAccounted'
  BY <1>2 DEF Admitted, FreshMeansAsleep, WakersAccounted
<1>. QED
  BY <1>1, <1>3

(* An operator's step counts as an intervention and outdates every Scale. *)
LEMMA OperatorInv ==
    ASSUME IInv, OperatorScales \/ OperatorDeletes
    PROVE  IInv'
<1>. USE ScalingAssumption DEF IInv
<1>1. TypeOK'
  <2>1. CASE OperatorScales
    <3>1. ops + 1 \in 0 .. MaxOps
      BY <2>1 DEF TypeOK, OperatorScales
    <3>. QED
      BY <2>1, <3>1 DEF TypeOK, OperatorScales, clusterVars
  <2>2. CASE OperatorDeletes
    <3>1. ops + 1 \in 0 .. MaxOps
      BY <2>2 DEF TypeOK, OperatorDeletes
    <3>2. 0 \in 0 .. MaxReplicas
      BY DEF TypeOK
    <3>. QED
      BY <2>2, <3>1, <3>2, Zenon DEF TypeOK, OperatorDeletes
  <2>. QED
    BY <2>1, <2>2
<1>2. ops' = ops + 1 /\ fresh' = {} /\ UNCHANGED <<pc, woke>>
  BY DEF OperatorScales, OperatorDeletes
<1>3. Cardinality(woke) \in Nat /\ ops \in Nat
  BY FS_Subset, FS_CardinalityType DEF TypeOK
<1>4. Admitted' /\ FreshMeansAsleep' /\ WakersAccounted'
  BY <1>2, <1>3 DEF Admitted, FreshMeansAsleep, WakersAccounted
<1>. QED
  BY <1>1, <1>4

(* Every step preserves the invariant. *)
LEMMA NextInv == IInv /\ [Next]_vars => IInv'
<1>. SUFFICES ASSUME IInv, [Next]_vars PROVE IInv'
  OBVIOUS
<1>1. CASE UNCHANGED vars
  BY <1>1 DEF vars, clusterVars, IInv, TypeOK, Admitted, FreshMeansAsleep, WakersAccounted
<1>. QED
  BY <1>1, CallStepInv, ClusterInv, OperatorInv DEF Next

(* The inductive invariant holds in every reachable state, however many calls
   wake the worker and operators intervene. *)
THEOREM ScalingInvariance == Spec => []IInv
BY InitInv, NextInv, PTL DEF Spec

-----------------------------------------------------------------------------
(* Every state of the calls and of the Deployment is well-typed: in particular no
   call ever asks for more replicas than max_replicas. *)
THEOREM ScalingTypeCorrect == Spec => []TypeOK
BY ScalingInvariance, PTL DEF IInv

(* One call wakes a sleeping worker: UpdateScale succeeds at most once more than an
   operator has intervened. *)
THEOREM AtMostOneWaker == Spec => []OneWaker
<1>1. IInv => OneWaker
  <2>. SUFFICES ASSUME IInv PROVE OneWaker
    OBVIOUS
  <2>1. Cardinality(woke) \in Nat /\ ops \in Nat
    BY ScalingAssumption, FS_Subset, FS_CardinalityType DEF IInv, TypeOK
  <2>. QED
    BY <2>1 DEF IInv, WakersAccounted, OneWaker
<1>. QED
  BY <1>1, ScalingInvariance, PTL

(* ScaleWorker and recoverWorker leave a number that somebody else has set alone:
   the only change a call makes is from zero replicas to one. *)
THEOREM WakeUpsOnlyWake == Spec => CallsOnlyWake
<1>. DEFINE Wakes == (\E c \in Call : pc'[c] # pc[c]) /\ exists /\ exists'
                     => spec' = spec \/ (spec = 0 /\ spec' = 1)
<1>1. ASSUME IInv, [Next]_vars PROVE Wakes
  <2>1. CASE \E c \in Call : UpdateScale(c)
    BY <1>1, <2>1 DEF UpdateScale, FreshMeansAsleep, IInv
  <2>2. CASE \E c \in Call : Recover(c)
    BY <2>2 DEF Recover
  <2>3. CASE UNCHANGED pc
    BY <2>3
  <2>4. CASE UNCHANGED spec
    BY <2>4
  <2>5. CASE \E c \in Call : CallStep(c) /\ ~UpdateScale(c) /\ ~Recover(c)
    <3>1. UNCHANGED spec
      BY <2>5 DEF CallStep, CallScale, GetScale, GetNotFound, RegetScale, ReadScale,
                  RegetNotFound, UpdateConflict, WaitGet, WatchStart, WatchReady,
                  WatchEnds, SelectPod, ApiError
    <3>. QED
      BY <3>1
  <2>6. UNCHANGED pc \/ \E c \in Call : CallStep(c)
    BY <1>1 DEF Next, Cluster, PodCreated, PodReady, PodRemoved, StatusSync, PodFails,
                OperatorScales, OperatorDeletes, vars
  <2>. QED
    BY <2>1, <2>2, <2>3, <2>5, <2>6
<1>2. IInv /\ [Next]_vars => [Wakes]_vars
  BY <1>1
<1>. QED
  BY <1>2, ScalingInvariance, PTL DEF Spec, CallsOnlyWake

-----------------------------------------------------------------------------
(* Refinement of WakeUp. *)

(* The steps between a successful update and the look for a pod. *)
Waiting == {"waitGet", "watchStart", "watch"}

(* A call has woken the worker where its update has succeeded, and nowhere
   before. *)
WokeAt ==
    /\ \A c \in woke : pc[c] \in Waiting \cup {"select", "picked", "failed"}
    /\ \A c \in Call : pc[c] \in Waiting => c \in woke

(* Where a call stands for the abstraction, by where it is. *)
Stands(step, hasWoken) ==
    IF step \in {"picked", "failed"} THEN step
    ELSE IF hasWoken THEN "woke" ELSE IF step = "select" THEN "awake" ELSE "open"

(* A step of one call changes its outcome and no other. *)
LEMMA OutcomeMoves ==
    ASSUME TypeOK, NEW c \in Call, NEW s, Goto(c, s), woke' \in {woke, woke \cup {c}}
    PROVE  /\ Outcome' = [Outcome EXCEPT ![c] = Stands(s, c \in woke')]
           /\ Outcome[c] = Stands(pc[c], c \in woke)
BY DEF Outcome, Stands, Goto, TypeOK

(* Steps that leave the Deployment alone: the call stands where it stood, finds the
   worker awake, gets a pod or fails. *)
LEMMA QuietRefines ==
    ASSUME IInv, WokeAt, NEW c \in Call, NEW s, Goto(c, s), UNCHANGED <<exists, spec, woke>>,
           \/ s = "failed" /\ pc[c] \notin {"picked", "failed"}
           \/ Stands(s, c \in woke) = Stands(pc[c], c \in woke)
           \/ s = "select" /\ c \notin woke /\ exists /\ spec > 0 /\ pc[c] \in {"get", "reget"}
           \/ s = "picked" /\ pc[c] = "select"
    PROVE  [WakeUp!Next]_(WakeUp!vars)
<1>1. TypeOK
  BY DEF IInv
<1>2. /\ Outcome' = [Outcome EXCEPT ![c] = Stands(s, c \in woke)]
      /\ Outcome[c] = Stands(pc[c], c \in woke)
  BY <1>1, OutcomeMoves
<1>3. CASE Stands(s, c \in woke) = Stands(pc[c], c \in woke)
  <2>1. Outcome' = Outcome
    BY <1>2, <1>3 DEF Outcome
  <2>. QED
    BY <2>1 DEF WakeUp!vars
<1>4. CASE s = "failed" /\ pc[c] \notin {"picked", "failed"}
  BY <1>2, <1>4 DEF Stands, WakeUp!Fails, WakeUp!Becomes, WakeUp!Next, WakeUp!Act
<1>5. CASE s = "select" /\ c \notin woke /\ exists /\ spec > 0 /\ pc[c] \in {"get", "reget"}
  BY <1>2, <1>5 DEF Stands, WakeUp!FindsAwake, WakeUp!Becomes, WakeUp!Next, WakeUp!Act
<1>6. CASE s = "picked" /\ pc[c] = "select"
  BY <1>2, <1>6 DEF Stands, WakeUp!FindsPod, WakeUp!Becomes, WakeUp!Next, WakeUp!Act
<1>. QED
  BY <1>3, <1>4, <1>5, <1>6

LEMMA WokeAtInv ==
    ASSUME IInv, WokeAt, [Next]_vars
    PROVE  WokeAt'
<1>1. CASE UNCHANGED <<pc, woke>>
  BY <1>1 DEF WokeAt
<1>2. ASSUME NEW c \in Call, CallStep(c) PROVE WokeAt'
  <2>. USE DEF WokeAt, IInv, TypeOK, Goto, Waiting
  <2>1. CASE CallScale(c) \/ GetScale(c) \/ RegetScale(c)
    BY <2>1 DEF CallScale, GetScale, RegetScale, ReadScale
  <2>2. CASE GetNotFound(c) \/ RegetNotFound(c) \/ UpdateConflict(c)
    BY <2>2 DEF GetNotFound, RegetNotFound, UpdateConflict
  <2>3. CASE Recover(c)
    BY <2>3 DEF Recover, Written
  <2>4. CASE UpdateScale(c)
    BY <2>4 DEF UpdateScale, Written
  <2>5. CASE WaitGet(c) \/ WatchStart(c) \/ WatchReady(c) \/ WatchEnds(c) \/ SelectPod(c)
    BY <2>5 DEF WaitGet, WatchStart, WatchReady, WatchEnds, SelectPod
  <2>6. CASE \E step \in {"get", "recover", "reget", "update", "waitGet", "watchStart",
                          "select"} : ApiError(c, step)
    BY <2>6 DEF ApiError
  <2>. QED
    BY <1>2, <2>1, <2>2, <2>3, <2>4, <2>5, <2>6 DEF CallStep
<1>. QED
  BY <1>1, <1>2 DEF Next, Cluster, PodCreated, PodReady, PodRemoved, StatusSync, PodFails,
                    OperatorScales, OperatorDeletes, vars

(* The steps of a call that change the Deployment. *)
LEMMA WriteRefines ==
    ASSUME IInv, WokeAt, NEW c \in Call, UpdateScale(c) \/ Recover(c)
    PROVE  [WakeUp!Next]_(WakeUp!vars)
<1>1. TypeOK
  BY DEF IInv
<1>2. CASE UpdateScale(c)
  <2>1. PICK s \in {"waitGet", "failed"} : Goto(c, s)
    BY <1>2 DEF UpdateScale, Written
  <2>2. /\ pc[c] = "update" /\ c \notin woke /\ exists /\ spec = 0 /\ 1 <= MaxReplicas
        /\ spec' = 1 /\ woke' = woke \cup {c} /\ exists' = exists
    BY <1>2 DEF UpdateScale, IInv, WokeAt, Waiting, FreshMeansAsleep, Admitted
  <2>3. /\ Outcome[c] = "open"
        /\ Outcome' = [Outcome EXCEPT ![c] = IF s = "failed" THEN "failed" ELSE "woke"]
    BY <1>1, <2>1, <2>2, OutcomeMoves DEF Stands
  <2>. QED
    BY <2>2, <2>3 DEF WakeUp!Wakes, WakeUp!Becomes, WakeUp!Next, WakeUp!Act
<1>3. CASE Recover(c)
  <2>1. PICK s \in {"reget", "failed"} : Goto(c, s)
    BY <1>3 DEF Recover, Written
  <2>2. pc[c] = "recover" /\ c \notin woke /\ UNCHANGED woke
    BY <1>3 DEF Recover, WokeAt, Waiting
  <2>3. CASE exists
    BY <1>3, <2>1, <2>2, <2>3, QuietRefines DEF Recover, Stands
  <2>4. CASE ~exists
    <3>1. Outcome[c] = "open" /\ Outcome' = [Outcome EXCEPT ![c] = Stands(s, c \in woke)]
      BY <1>1, <2>1, <2>2, OutcomeMoves DEF Stands
    <3>2. CASE s = "reget"
      <4>1. Outcome' = Outcome
        BY <2>2, <3>1, <3>2 DEF Stands, Outcome
      <4>. QED
        BY <1>3, <2>4, <3>1, <4>1 DEF Recover, WakeUp!Recreates, WakeUp!Next
    <3>3. CASE s = "failed"
      BY <1>3, <2>4, <3>1, <3>3
         DEF Recover, Stands, WakeUp!Recreates, WakeUp!Becomes, WakeUp!Next
    <3>. QED
      BY <3>2, <3>3
  <2>. QED
    BY <2>3, <2>4
<1>. QED
  BY <1>2, <1>3

LEMMA StepRefines ==
    ASSUME IInv, WokeAt, [Next]_vars
    PROVE  [WakeUp!Next]_(WakeUp!vars)
<1>1. ASSUME NEW c \in Call, CallStep(c) PROVE [WakeUp!Next]_(WakeUp!vars)
  <2>. USE QuietRefines DEF WokeAt, Waiting, Stands
  <2>1. CASE CallScale(c)
    BY <2>1 DEF CallScale
  <2>2. CASE GetScale(c) \/ RegetScale(c)
    <3>1. /\ pc[c] \in {"get", "reget"} /\ c \notin woke /\ exists
          /\ UNCHANGED <<exists, spec, woke>>
      BY <2>2 DEF GetScale, RegetScale, ReadScale
    <3>2. CASE spec = 0
      BY <2>2, <3>1, <3>2 DEF GetScale, RegetScale, ReadScale
    <3>3. CASE spec # 0
      BY <2>2, <3>1, <3>3 DEF GetScale, RegetScale, ReadScale, IInv, TypeOK
    <3>. QED
      BY <3>2, <3>3
  <2>3. CASE GetNotFound(c) \/ RegetNotFound(c) \/ UpdateConflict(c)
    BY <2>3 DEF GetNotFound, RegetNotFound, UpdateConflict
  <2>4. CASE WaitGet(c)
    BY <2>4 DEF WaitGet
  <2>5. CASE WatchStart(c) \/ WatchReady(c) \/ WatchEnds(c)
    BY <2>5 DEF WatchStart, WatchReady, WatchEnds
  <2>6. CASE SelectPod(c)
    BY <2>6 DEF SelectPod
  <2>7. CASE \E step \in {"get", "recover", "reget", "update", "waitGet", "watchStart",
                          "select"} : ApiError(c, step)
    BY <2>7 DEF ApiError
  <2>. QED
    BY <1>1, <2>1, <2>2, <2>3, <2>4, <2>5, <2>6, <2>7, WriteRefines DEF CallStep
<1>2. CASE Cluster \/ PodFails \/ UNCHANGED vars
  BY <1>2 DEF Cluster, PodCreated, PodReady, PodRemoved, StatusSync, PodFails, vars, Outcome,
              WakeUp!vars
<1>3. CASE OperatorScales \/ OperatorDeletes
  <2>1. Outcome' = Outcome
    BY <1>3 DEF OperatorScales, OperatorDeletes, Outcome
  <2>. QED
    BY <1>3, <2>1 DEF OperatorScales, OperatorDeletes, WakeUp!Others, WakeUp!Next
<1>. QED
  BY <1>1, <1>2, <1>3 DEF Next

(* Every step of the calls, of the cluster and of an operator is a step of the
   test and set, or does not show in it: ScaleWorker is atomic to its callers. *)
THEOREM ScaleWorkerIsAtomic == Spec => WakeUp!Init /\ [][WakeUp!Next]_(WakeUp!vars)
<1>1. Init => WakeUp!Init /\ WokeAt
  BY DEF Init, WakeUp!Init, Outcome, WokeAt, Waiting
<1>2. IInv /\ WokeAt /\ [Next]_vars => WokeAt'
  BY WokeAtInv
<1>3. IInv /\ WokeAt /\ [Next]_vars => [WakeUp!Next]_(WakeUp!vars)
  BY StepRefines
<1>. QED
  BY <1>1, <1>2, <1>3, ScalingInvariance, PTL DEF Spec

-----------------------------------------------------------------------------
(* When a call is routed. *)

(* Without faults and interventions the Deployment stays, nobody lowers what it
   asks for, and a pod that is ready stays ready; a watch that has seen one leads
   to it. *)
PodsStay ==
    /\ exists /\ pods <= spec
    /\ stReady <= ready
    /\ \A c \in event : ready > 0 /\ pc[c] \in {"watch", "select", "picked"}

LEMMA PodsStayStep ==
    ASSUME ~ApiErrors, ~SlowPods, MaxOps = 0, IInv, PodsStay, [Next]_vars
    PROVE  PodsStay'
<1>. USE ScalingAssumption DEF PodsStay, IInv, TypeOK, Goto, clusterVars
<1>1. ASSUME NEW c \in Call,
             \/ CallScale(c) \/ GetScale(c) \/ GetNotFound(c) \/ Recover(c) \/ RegetScale(c)
             \/ RegetNotFound(c) \/ UpdateConflict(c) \/ WaitGet(c)
      PROVE  PodsStay'
  <2>1. UNCHANGED <<exists, spec, clusterVars, event>> /\ c \notin event
    BY <1>1 DEF CallScale, GetScale, GetNotFound, Recover, RegetScale, RegetNotFound,
                UpdateConflict, WaitGet, ReadScale
  <2>2. \A d \in Call \ {c} : pc'[d] = pc[d]
    BY <1>1 DEF CallScale, GetScale, GetNotFound, Recover, RegetScale, RegetNotFound,
                UpdateConflict, WaitGet, ReadScale, Written
  <2>. QED
    BY <2>1, <2>2
<1>2. ASSUME NEW c \in Call, UpdateScale(c) PROVE PodsStay'
  <2>1. spec = 0 /\ spec' = 1 /\ UNCHANGED <<exists, clusterVars, event>> /\ c \notin event
    BY <1>2 DEF UpdateScale, FreshMeansAsleep
  <2>2. \A d \in Call \ {c} : pc'[d] = pc[d]
    BY <1>2 DEF UpdateScale, Written
  <2>. QED
    BY <2>1, <2>2
<1>3. ASSUME NEW c \in Call, WatchStart(c) PROVE PodsStay'
  <2>1. /\ UNCHANGED <<exists, spec, clusterVars>> /\ pc'[c] = "watch"
        /\ \A d \in Call \ {c} : pc'[d] = pc[d]
        /\ event' \subseteq event \cup {c} /\ (c \in event' => ready > 0)
    BY <1>3 DEF WatchStart
  <2>. QED
    BY <2>1
<1>4. ASSUME NEW c \in Call, WatchReady(c) \/ SelectPod(c) PROVE PodsStay'
  <2>1. /\ UNCHANGED <<exists, spec, clusterVars, event>>
        /\ \A d \in Call \ {c} : pc'[d] = pc[d]
        /\ c \in event => pc'[c] \in {"select", "picked"}
    BY <1>4 DEF WatchReady, SelectPod
  <2>. QED
    BY <2>1
<1>5. CASE PodCreated
  BY <1>5 DEF PodCreated
<1>6. CASE PodReady
  BY <1>6 DEF PodReady
<1>7. CASE StatusSync
  <2>1. /\ UNCHANGED <<exists, spec, pods, ready, pc>> /\ stReady' = ready
        /\ \A c \in event' : c \in event \/ (ready > 0 /\ pc[c] = "watch")
    BY <1>7 DEF StatusSync
  <2>. QED
    BY <2>1
<1>8. ~PodRemoved /\ ~PodFails /\ ~OperatorScales /\ ~OperatorDeletes
  <2>1. exists /\ ~(pods > spec) /\ ~(ops < MaxOps)
    OBVIOUS
  <2>. QED
    BY <2>1, Zenon DEF PodRemoved, PodFails, OperatorScales, OperatorDeletes
<1>9. \A c \in Call : ~WatchEnds(c) /\ \A step : ~ApiError(c, step)
  BY DEF WatchEnds, ApiError
<1>10. CASE UNCHANGED vars
  BY <1>10 DEF vars
<1>. QED
  BY <1>1, <1>2, <1>3, <1>4, <1>5, <1>6, <1>7, <1>8, <1>9, <1>10 DEF Next, CallStep, Cluster

(* RoutedToPod fails by a conflict of two updates, or by a wait that is cut short by
   the replica count. A call whose watch has reported a ready replica is routed:
   without failures and interventions it cannot end without a pod. *)
THEOREM RoutedOnceNotified ==
    ASSUME ~ApiErrors, ~SlowPods, MaxOps = 0
    PROVE  Spec => [](\A c \in event : pc[c] # "failed")
<1>1. Init => PodsStay
  BY DEF Init, PodsStay
<1>2. IInv /\ PodsStay /\ [Next]_vars => PodsStay'
  BY PodsStayStep
<1>3. PodsStay => \A c \in event : pc[c] # "failed"
  BY DEF PodsStay
<1>. QED
  BY <1>1, <1>2, <1>3, ScalingInvariance, PTL DEF Spec
=============================================================================
