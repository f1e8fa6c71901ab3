--------------------------- MODULE SchedulerProofs ---------------------------
(***************************************************************************)
(* The safety properties of Scheduler, for every set of calls, images and  *)
(* namespaces, any number of faults and of deletions.                      *)
(***************************************************************************)
EXTENDS Scheduler, TLAPS

(* A call past its first request knows a namespace that has a row; one that
   publishes has stored its job and was asked to; one that deals with an existing worker has
   loaded its row. *)
CallsKnow ==
    \A c \in Call :
        /\ pc[c] \in CallBusy \ {"getNs"} => Request[c].ns \in nsRows
        /\ pc[c] = "publish" => c \in jobs /\ Request[c].autorun
        /\ pc[c] \in {"checkDepl", "reDepl", "updWorker"} => seen[c] # None

(* The bootstrap checks namespaces that have a row, and creates the objects of
   a namespace one after the other; unless an operator deletes the namespace
   they stay. *)
BootSound ==
    /\ todo \subseteq nsRows
    /\ pc[Boot] \in {"checkNs", "mkNs", "mkQuota", "mkLimits", "insNs"} => bootNs \in Namespace
    /\ pc[Boot] = "checkNs" => bootNs \in nsRows
    /\ bootNs \notin wiped =>
        /\ pc[Boot] \in {"mkQuota", "mkLimits"} => "namespace" \in kube[bootNs]
        /\ pc[Boot] = "mkLimits" => "quota" \in kube[bootNs]
        /\ pc[Boot] = "insNs" => kube[bootNs] = Object

IInv == TypeOK /\ CallsKnow /\ BootSound /\ QueuedIsStored /\ DefaultIsLimited

(* No image is submitted from two namespaces. *)
OneNamespacePerImage ==
    \A c, d \in Call : Request[c].image = Request[d].image => Request[c].ns = Request[d].ns

Made(ns, i) == Deployment(ns, i) \in depl \cup removed

(* A worker row names the namespace of whoever submits its image, and a
   Deployment that has been created; a call that is about to write or use a row
   has made sure of that. *)
WorkersSound ==
    /\ \A i \in Image : workers[i] # None =>
        /\ workers[i].depl = workers[i].ns
        /\ Made(workers[i].ns, i)
        /\ \E c \in Call : Request[c].image = i /\ Request[c].ns = workers[i].ns
    /\ \A c \in Call :
        /\ seen[c] # None => seen[c].ns = Request[c].ns
        /\ pc[c] \in {"insWorker", "updWorker"} => Made(Request[c].ns, Request[c].image)
        /\ c \in jobs \/ pc[c] \in {"checkDepl", "reDepl", "updWorker", "insJob", "publish"} =>
             workers[Request[c].image] # None

-----------------------------------------------------------------------------
LEMMA InitInv == Init => IInv
<1>. SUFFICES ASSUME Init PROVE IInv
  OBVIOUS
<1>1. TypeOK
  <2>1. /\ pc \in [Proc -> CallBusy \cup BootBusy \cup {"idle", "ok", "error", "serving", "down"}]
        /\ \A c \in Call : pc[c] \in CallBusy \cup {"idle", "ok", "error"}
        /\ pc[Boot] \in BootBusy \cup {"serving", "down"}
    BY SchedulerAssumption DEF Init, Proc, CallBusy, BootBusy
  <2>2. /\ kube \in [Namespace -> SUBSET Object] /\ workers \in [Image -> Row \cup {None}]
        /\ seen \in [Call -> Row \cup {None}]
    BY DEF Init
  <2>3. /\ nsRows \subseteq Namespace /\ jobs \subseteq Call /\ queued \subseteq Call
        /\ depl \subseteq Namespace \X Slug /\ stopping \in BOOLEAN
        /\ todo \subseteq Namespace /\ bootNs \in Namespace \cup {None}
    BY DEF Init
  <2>4. /\ faults \in 0 .. MaxFaults /\ ops \in 0 .. MaxOps /\ wiped \subseteq Namespace
        /\ removed \subseteq Namespace \X Slug
    BY SchedulerAssumption DEF Init
  <2>. QED
    BY <2>1, <2>2, <2>3, <2>4 DEF TypeOK
<1>2. CallsKnow /\ BootSound /\ QueuedIsStored /\ DefaultIsLimited
  BY SchedulerAssumption
     DEF Init, CallsKnow, BootSound, QueuedIsStored, DefaultIsLimited, Proc, CallBusy, BootBusy
<1>. QED
  BY <1>1, <1>2 DEF IInv

(* A request that goes on or is refused. *)
LEMMA ThenGoes ==
    ASSUME TypeOK, NEW p \in Proc, NEW step, Then(p, step)
    PROVE  /\ \E s \in {step, Refused(p)} : pc' = [pc EXCEPT ![p] = s]
           /\ faults' \in 0 .. MaxFaults
BY SchedulerAssumption DEF Then, Goto, Fault, TypeOK

(* What CreateNamespace does to the objects, for a call or the bootstrap. *)
LEMMA NsStepMakes ==
    ASSUME IInv, NEW p \in Proc, NsStep(p)
    PROVE  /\ UNCHANGED <<dbVars, queued, depl, stopping, seen, bootVars, opVars>>
           /\ Ns(p) \in Namespace
           /\ kube' \in [Namespace -> SUBSET Object]
           /\ \A n \in Namespace : kube[n] \subseteq kube'[n]
           /\ \E s : /\ pc' = [pc EXCEPT ![p] = s]
                     /\ s \in {Refused(p), "mkNs", "mkQuota", "mkLimits", AfterNs(p)}
           /\ faults' \in 0 .. MaxFaults
<1>1. Ns(p) \in Namespace
  BY DEF IInv, NsStep, CheckNs, MkNs, MkQuota, MkLimits, Ns, CallsKnow, BootSound, TypeOK,
         CallBusy, Proc
<1>2. CASE CheckNs(p)
  BY <1>1, <1>2 DEF CheckNs, Goto, kubeVars, IInv, TypeOK
<1>3. CASE MkNs(p)
  BY <1>1, <1>3, ThenGoes DEF MkNs, Make, IInv, TypeOK, Object
<1>4. CASE MkQuota(p)
  BY <1>1, <1>4, ThenGoes DEF MkQuota, MkInNs, Make, Goto, IInv, TypeOK, Object
<1>5. CASE MkLimits(p)
  BY <1>1, <1>5, ThenGoes DEF MkLimits, MkInNs, Make, Goto, IInv, TypeOK, Object
<1>. QED
  BY <1>2, <1>3, <1>4, <1>5 DEF NsStep

LEMMA NsStepInv ==
    ASSUME IInv, NEW p \in Proc, NsStep(p)
    PROVE  IInv'
<1>. USE SchedulerAssumption, NsStepMakes DEF IInv, TypeOK, dbVars, bootVars, opVars
<1>1. TypeOK'
  BY DEF Proc, Refused, AfterNs, CallBusy, BootBusy
<1>2. CallsKnow'
  <2>. SUFFICES ASSUME NEW c \in Call
                PROVE  /\ pc'[c] \in CallBusy \ {"getNs"} => Request[c].ns \in nsRows
                       /\ pc'[c] = "publish" => c \in jobs /\ Request[c].autorun
                       /\ pc'[c] \in {"checkDepl", "reDepl", "updWorker"} => seen[c] # None
    BY DEF CallsKnow
  <2>1. CASE c # p
    BY <2>1 DEF CallsKnow, Proc
  <2>2. CASE c = p
    <3>1. pc[c] \in CallBusy \ {"getNs"}
      BY <2>2 DEF NsStep, CheckNs, MkNs, MkQuota, MkLimits, CallBusy
    <3>2. pc'[c] \notin {"publish", "checkDepl", "reDepl", "updWorker"}
      BY <2>2 DEF Refused, AfterNs, Proc
    <3>. QED
      BY <3>1, <3>2 DEF CallsKnow
  <2>. QED
    BY <2>1, <2>2
<1>3. BootSound'
  <2>1. CASE p # Boot
    <3>1. pc'[Boot] = pc[Boot] /\ bootNs' = bootNs /\ wiped' = wiped
      BY <2>1 DEF Proc
    <3>2. bootNs \in Namespace => kube[bootNs] \subseteq kube'[bootNs] /\ kube'[bootNs] \subseteq Object
      OBVIOUS
    <3>. QED
      BY <3>1, <3>2 DEF BootSound
  <2>2. CASE p = Boot /\ CheckNs(p)
    BY <2>2 DEF BootSound, CheckNs, Goto, AfterNs, Ns, Proc
  <2>3. CASE p = Boot /\ MkNs(p)
    BY <2>3 DEF BootSound, MkNs, Make, Then, Goto, Refused, Ns, Proc
  <2>4. CASE p = Boot /\ MkQuota(p)
    BY <2>4 DEF BootSound, MkQuota, MkInNs, Make, Then, Goto, Refused, Ns, Proc
  <2>5. CASE p = Boot /\ MkLimits(p)
    BY <2>5 DEF BootSound, MkLimits, MkInNs, Make, Then, Goto, Refused, AfterNs, Ns, Proc, Object
  <2>. QED
    BY <2>1, <2>2, <2>3, <2>4, <2>5 DEF NsStep
<1>4. QueuedIsStored'
  BY DEF QueuedIsStored
<1>5. DefaultIsLimited'
  <2>1. kube[Default] \subseteq kube'[Default] /\ kube'[Default] \subseteq Object
    OBVIOUS
  <2>. QED
    BY <2>1 DEF DefaultIsLimited
<1>. QED
  BY <1>1, <1>2, <1>3, <1>4, <1>5

(* The rest of the bootstrap. *)
LEMMA BootInv ==
    ASSUME IInv, ListNs \/ NextNs \/ LoopEnds \/ InsertNs \/ Restart
    PROVE  IInv'
<1>. USE SchedulerAssumption
     DEF IInv, TypeOK, dbVars, kubeVars, bootVars, opVars, Proc, CallBusy, BootBusy, Goto
<1>1. CASE ListNs
  BY <1>1 DEF ListNs, CallsKnow, BootSound, QueuedIsStored, DefaultIsLimited
<1>2. CASE NextNs
  BY <1>2 DEF NextNs, CallsKnow, BootSound, QueuedIsStored, DefaultIsLimited
<1>3. CASE LoopEnds
  BY <1>3 DEF LoopEnds, CallsKnow, BootSound, QueuedIsStored, DefaultIsLimited
<1>4. CASE InsertNs
  <2>. HIDE DEF CallBusy, BootBusy
  <2>1. \E s \in {"serving", "down"} : pc' = [pc EXCEPT ![Boot] = s]
    BY <1>4, ThenGoes DEF InsertNs, Refused
  <2>2. TypeOK'
    <3>1. bootNs \in Namespace /\ pc[Boot] # "loop"
      BY <1>4 DEF InsertNs, BootSound
    <3>2. /\ pc' \in [Proc -> CallBusy \cup BootBusy \cup {"idle", "ok", "error", "serving", "down"}]
          /\ \A c \in Call : pc'[c] = pc[c]
          /\ pc'[Boot] \in {"serving", "down"}
      BY <2>1
    <3>3. faults' \in 0 .. MaxFaults
      BY <1>4, ThenGoes DEF InsertNs
    <3>4. UNCHANGED <<workers, jobs, queued, kubeVars, stopping, seen, bootVars, opVars>>
          /\ nsRows' \subseteq Namespace
      BY <1>4, <3>1 DEF InsertNs
    <3>. QED
      BY <3>2, <3>3, <3>4
  <2>3. CallsKnow' /\ BootSound'
    <3>1. /\ pc' = [pc EXCEPT ![Boot] = "serving"] \/ pc' = [pc EXCEPT ![Boot] = "down"]
          /\ nsRows' = nsRows \cup {bootNs} /\ UNCHANGED <<kube, wiped, bootNs, seen, jobs>>
      BY <1>4, <2>1 DEF InsertNs
    <3>2. \A c \in Call : pc'[c] = pc[c]
      BY <3>1
    <3>3. pc'[Boot] \in {"serving", "down"}
      BY <3>1
    <3>4. CallsKnow'
      BY <3>1, <3>2 DEF CallsKnow
    <3>5. BootSound'
      <4>1. todo' \subseteq nsRows'
        BY <1>4, <3>1 DEF InsertNs, BootSound
      <4>. QED
        BY <3>3, <4>1 DEF BootSound
    <3>. QED
      BY <3>4, <3>5
  <2>4. QueuedIsStored' /\ DefaultIsLimited'
    BY <1>4 DEF InsertNs, QueuedIsStored, DefaultIsLimited, BootSound
  <2>. QED
    BY <2>2, <2>3, <2>4
<1>5. CASE Restart
  BY <1>5 DEF Restart, CallsKnow, BootSound, QueuedIsStored, DefaultIsLimited
<1>. QED
  BY <1>1, <1>2, <1>3, <1>4, <1>5

(* A step of CreateJob after which the call is where its knowledge allows. *)
LEMMA CallMoves ==
    ASSUME IInv, NEW c \in Call, NEW s \in CallBusy \cup {"ok", "error"},
           pc' = [pc EXCEPT ![c] = s],
           s \in CallBusy \ {"getNs"} => Request[c].ns \in nsRows,
           s = "publish" => c \in jobs' /\ Request[c].autorun,
           s \in {"checkDepl", "reDepl", "updWorker"} => seen'[c] # None,
           \A d \in Call \ {c} : seen'[d] = seen[d],
           UNCHANGED <<nsRows, kube, stopping, bootVars, opVars>>,
           workers' \in [Image -> Row \cup {None}], seen' \in [Call -> Row \cup {None}],
           depl' \subseteq Namespace \X Slug, faults' \in 0 .. MaxFaults,
           jobs \subseteq jobs' /\ jobs' \subseteq Call,
           queued' \subseteq jobs'
    PROVE  IInv'
<1>. USE SchedulerAssumption DEF IInv, bootVars, opVars
<1>1. TypeOK'
  BY DEF TypeOK, Proc
<1>2. CallsKnow'
  BY DEF CallsKnow, TypeOK, Proc
<1>3. BootSound'
  <2>1. pc'[Boot] = pc[Boot]
    BY DEF TypeOK, Proc
  <2>. QED
    BY <2>1 DEF BootSound
<1>4. QueuedIsStored' /\ DefaultIsLimited'
  BY DEF QueuedIsStored, DefaultIsLimited
<1>. QED
  BY <1>1, <1>2, <1>3, <1>4

(* What a step of CreateJob other than CreateNamespace writes. *)
LEMMA CallStepInv ==
    ASSUME IInv, NEW c \in Call,
           \/ CallArrives(c) \/ GetNs(c) \/ GetWorker(c) \/ NewDeployment(c) \/ InsertWorker(c)
           \/ CheckDeployment(c) \/ ReDeployment(c) \/ UpdateWorker(c) \/ InsertJob(c)
           \/ Publish(c) \/ PublishClosed(c)
    PROVE  IInv'
<1>. USE SchedulerAssumption
     DEF dbVars, kubeVars, bootVars, opVars, Goto, Refused, CallBusy
<1>1. /\ TypeOK /\ queued \subseteq jobs /\ c \in Proc /\ Request[c].image \in Image
      /\ pc[c] \in CallBusy \ {"getNs"} => Request[c].ns \in nsRows
      /\ pc[c] = "publish" => c \in jobs
      /\ pc[c] \in {"checkDepl", "reDepl", "updWorker"} => seen[c] # None
  BY DEF IInv, QueuedIsStored, CallsKnow, Proc
<1>2. /\ workers \in [Image -> Row \cup {None}] /\ seen \in [Call -> Row \cup {None}]
      /\ depl \subseteq Namespace \X Slug /\ faults \in 0 .. MaxFaults /\ jobs \subseteq Call
      /\ nsRows \subseteq Namespace
  BY <1>1 DEF TypeOK
<1>3. CASE CallArrives(c) \/ GetNs(c) \/ GetWorker(c) \/ CheckDeployment(c)
  <2>1. CASE CallArrives(c)
    BY <1>1, <1>2, <2>1, CallMoves DEF CallArrives
  <2>2. CASE GetNs(c)
    BY <1>1, <1>2, <2>2, CallMoves DEF GetNs
  <2>3. CASE GetWorker(c)
    BY <1>1, <1>2, <2>3, CallMoves DEF GetWorker
  <2>4. CASE CheckDeployment(c)
    BY <1>1, <1>2, <2>4, CallMoves DEF CheckDeployment
  <2>. QED
    BY <1>3, <2>1, <2>2, <2>3, <2>4
<1>4. CASE NewDeployment(c) \/ ReDeployment(c)
  <2> DEFINE d == Deployment(Request[c].ns, Request[c].image)
  <2>1. Request[c].ns \in nsRows
    BY <1>1, <1>4 DEF NewDeployment, ReDeployment
  <2>2. d \in Namespace \X Slug
    BY <1>1, <1>2, <2>1 DEF Deployment
  <2>3. /\ depl' \in {depl, depl \cup {d}} /\ faults' \in 0 .. MaxFaults
        /\ \E s \in {"insWorker", "updWorker", "error"} :
             pc' = [pc EXCEPT ![c] = s] /\ (s = "updWorker" => seen[c] # None)
        /\ UNCHANGED <<dbVars, queued, kube, stopping, seen, bootVars, opVars>>
    BY <1>1, <1>2, <1>4, ThenGoes DEF NewDeployment, ReDeployment, CreateDeployment
  <2>. HIDE DEF d
  <2>. QED
    BY <1>1, <1>2, <2>1, <2>2, <2>3, CallMoves
<1>5. CASE InsertWorker(c) \/ UpdateWorker(c)
  <2>1. Request[c].ns \in nsRows
    BY <1>1, <1>5 DEF InsertWorker, UpdateWorker
  <2>2. /\ \E s \in {"insJob", "error"} : pc' = [pc EXCEPT ![c] = s]
        /\ faults' \in 0 .. MaxFaults
        /\ UNCHANGED <<nsRows, jobs, queued, kubeVars, stopping, seen, bootVars, opVars>>
    BY <1>1, <1>2, <1>5, ThenGoes DEF InsertWorker, UpdateWorker
  <2>3. workers' \in [Image -> Row \cup {None}]
    BY <1>1, <1>2, <1>5, <2>1 DEF InsertWorker, UpdateWorker, Row
  <2>. QED
    BY <1>1, <1>2, <2>1, <2>2, <2>3, CallMoves
<1>6. CASE InsertJob(c)
  <2>1. \E s \in {"publish", "ok", "error"} :
          pc' = [pc EXCEPT ![c] = s] /\ (s = "publish" => Request[c].autorun)
    BY <1>1, <1>6, ThenGoes DEF InsertJob
  <2>2. /\ jobs' = jobs \cup {c} /\ queued' \subseteq jobs' /\ faults' \in 0 .. MaxFaults
        /\ UNCHANGED <<nsRows, workers, kubeVars, stopping, seen, bootVars, opVars>>
    BY <1>1, <1>6, ThenGoes DEF InsertJob
  <2>3. Request[c].ns \in nsRows
    BY <1>1, <1>6 DEF InsertJob
  <2>. QED
    BY <1>1, <1>2, <2>1, <2>2, <2>3, CallMoves
<1>7. CASE Publish(c) \/ PublishClosed(c)
  <2>1. /\ \E s \in {"ok", "error"} : pc' = [pc EXCEPT ![c] = s]
        /\ faults' \in 0 .. MaxFaults
    BY <1>1, <1>2, <1>7, ThenGoes DEF Publish, PublishClosed, Fault
  <2>2. UNCHANGED <<dbVars, kubeVars, stopping, seen, bootVars, opVars>> /\ queued' \subseteq jobs
    BY <1>1, <1>7 DEF Publish, PublishClosed
  <2>. QED
    BY <1>1, <1>2, <2>1, <2>2, CallMoves
<1>. QED
  BY <1>3, <1>4, <1>5, <1>6, <1>7

(* Failures, the end of the process, and the operator. *)
LEMMA FailureInv ==
    ASSUME IInv, (\E p \in Proc : RequestFails(p)) \/ Crash \/ Kill \/ Sigterm
    PROVE  IInv'
<1>. USE SchedulerAssumption
     DEF IInv, dbVars, kubeVars, bootVars, opVars, Proc, CallBusy, BootBusy, Refused, Goto, Fault
<1>1. ASSUME NEW p \in Proc, RequestFails(p) PROVE IInv'
  BY <1>1 DEF RequestFails, TypeOK, CallsKnow, BootSound, QueuedIsStored, DefaultIsLimited
<1>2. CASE Crash \/ Kill
  <2>1. /\ \A c \in Call : pc'[c] \in {pc[c], "error"} /\ (pc'[c] = "error" \/ pc[c] \notin CallBusy)
        /\ pc'[Boot] = "down" /\ DOMAIN pc' = Proc
        /\ pc' = [p \in Proc |-> pc'[p]]
    BY <1>2 DEF Crash, Kill, ProcessEnds
  <2>2. /\ todo' = {} /\ bootNs' = None /\ faults' \in 0 .. MaxFaults /\ stopping' = FALSE
        /\ UNCHANGED <<dbVars, queued, kubeVars, seen, opVars>>
    BY <1>2 DEF Crash, Kill, ProcessEnds, TypeOK
  <2>3. /\ pc' \in [Proc -> CallBusy \cup BootBusy \cup {"idle", "ok", "error", "serving", "down"}]
        /\ \A c \in Call : pc'[c] \in CallBusy \cup {"idle", "ok", "error"}
        /\ pc'[Boot] \in BootBusy \cup {"serving", "down"}
    <3>1. \A c \in Call : pc'[c] \in {"idle", "ok", "error"}
      BY <2>1 DEF TypeOK
    <3>. QED
      BY <2>1, <3>1
  <2>4. TypeOK'
    BY <2>2, <2>3 DEF TypeOK
  <2>5. CallsKnow' /\ BootSound' /\ QueuedIsStored' /\ DefaultIsLimited'
    BY <2>1, <2>2 DEF CallsKnow, BootSound, QueuedIsStored, DefaultIsLimited, TypeOK
  <2>. QED
    BY <2>4, <2>5
<1>3. CASE Sigterm
  BY <1>3 DEF Sigterm, TypeOK, CallsKnow, BootSound, QueuedIsStored, DefaultIsLimited
<1>. QED
  BY <1>1, <1>2, <1>3

LEMMA OperatorInv ==
    ASSUME IInv, (\E d \in depl : OperatorDeletes(d)) \/ \E n \in Namespace : OperatorWipes(n)
    PROVE  IInv'
<1>. USE SchedulerAssumption DEF IInv, Operator, dbVars, bootVars
<1>1. ASSUME NEW d \in depl, OperatorDeletes(d) PROVE IInv'
  BY <1>1 DEF OperatorDeletes, TypeOK, CallsKnow, BootSound, QueuedIsStored, DefaultIsLimited
<1>2. ASSUME NEW n \in Namespace, OperatorWipes(n) PROVE IInv'
  <2>1. TypeOK'
    BY <1>2 DEF OperatorWipes, TypeOK
  <2>2. CallsKnow' /\ BootSound' /\ QueuedIsStored' /\ DefaultIsLimited'
    BY <1>2 DEF OperatorWipes, TypeOK, CallsKnow, BootSound, QueuedIsStored, DefaultIsLimited
  <2>. QED
    BY <2>1, <2>2
<1>. QED
  BY <1>1, <1>2

LEMMA NextInv == IInv /\ [Next]_vars => IInv'
<1>1. CASE IInv /\ UNCHANGED vars
  BY <1>1 DEF vars, dbVars, kubeVars, bootVars, opVars, IInv, TypeOK, CallsKnow, BootSound,
              QueuedIsStored, DefaultIsLimited
<1>2. IInv /\ Next => IInv'
  BY NsStepInv, BootInv, CallStepInv, FailureInv, OperatorInv
     DEF Next, CallStep, BootStep, Proc
<1>. QED
  BY <1>1, <1>2

-----------------------------------------------------------------------------
(* Workers and jobs. Deployments that have been created stay created, or have
   been deleted by an operator. *)
LEMMA MadeStays ==
    ASSUME IInv, [Next]_vars
    PROVE  depl \cup removed \subseteq depl' \cup removed'
<1>. USE DEF dbVars, kubeVars, bootVars, opVars
<1>1. CASE \E p \in Proc : NsStep(p)
  BY <1>1, NsStepMakes
<1>2. CASE \E c \in Call : CallArrives(c) \/ (CallStep(c) /\ ~NsStep(c))
  BY <1>2 DEF CallStep, CallArrives, GetNs, GetWorker, NewDeployment, InsertWorker,
              CheckDeployment, ReDeployment, UpdateWorker, InsertJob, Publish, 
              PublishClosed, CreateDeployment
<1>3. CASE \/ ListNs \/ NextNs \/ LoopEnds \/ InsertNs \/ (\E p \in Proc : RequestFails(p))
           \/ Crash \/ Sigterm \/ Kill \/ Restart \/ UNCHANGED vars
  BY <1>3 DEF ListNs, NextNs, LoopEnds, InsertNs, RequestFails, Crash, Sigterm, Kill,
              ProcessEnds, Restart, vars
<1>4. CASE (\E d \in depl : OperatorDeletes(d)) \/ \E n \in Namespace : OperatorWipes(n)
  BY <1>4 DEF OperatorDeletes, OperatorWipes
<1>. QED
  BY <1>1, <1>2, <1>3, <1>4 DEF Next, BootStep, Proc

(* Steps that write neither rows nor what calls remember, and bring no call to
   where it relies on them. *)
LEMMA WorkersStay ==
    ASSUME IInv, WorkersSound, [Next]_vars, UNCHANGED <<workers, jobs, seen>>,
           \A c \in Call : pc'[c] = pc[c]
             \/ pc'[c] \notin {"insWorker", "checkDepl", "reDepl", "updWorker", "insJob", "publish"}
    PROVE  WorkersSound'
BY MadeStays DEF WorkersSound, Made, Deployment

LEMMA WorkersStep ==
    ASSUME OneNamespacePerImage, IInv, WorkersSound, [Next]_vars
    PROVE  WorkersSound'
<1>. USE SchedulerAssumption
     DEF dbVars, kubeVars, bootVars, opVars, Goto, Refused, CallBusy
<1>1. CASE \E p \in Proc : NsStep(p)
  <2>1. PICK p \in Proc : NsStep(p)
    BY <1>1
  <2>. QED
    BY <2>1, NsStepMakes, WorkersStay DEF IInv, TypeOK, Proc, AfterNs
<1>2. CASE \/ ListNs \/ NextNs \/ LoopEnds \/ InsertNs \/ Restart \/ Sigterm
           \/ (\E d \in depl : OperatorDeletes(d)) \/ \E n \in Namespace : OperatorWipes(n)
  <2>1. UNCHANGED <<workers, jobs, seen>>
    BY <1>2 DEF ListNs, NextNs, LoopEnds, InsertNs, Restart, Sigterm, OperatorDeletes,
                OperatorWipes, Operator
  <2>2. \A c \in Call : pc'[c] = pc[c]
    BY <1>2 DEF ListNs, NextNs, LoopEnds, InsertNs, Then, Restart, Sigterm, OperatorDeletes,
                OperatorWipes, Operator, IInv, TypeOK, Proc
  <2>. QED
    BY <2>1, <2>2, WorkersStay
<1>3. CASE (\E p \in Proc : RequestFails(p)) \/ Crash \/ Kill
  <2>1. UNCHANGED <<workers, jobs, seen>>
    BY <1>3 DEF RequestFails, Crash, Kill, ProcessEnds
  <2>2. \A c \in Call : pc'[c] = pc[c] \/ pc'[c] = "error"
    BY <1>3 DEF RequestFails, Crash, Kill, ProcessEnds, IInv, TypeOK, Proc
  <2>. QED
    BY <2>1, <2>2, WorkersStay
<1>4. CASE UNCHANGED vars
  BY <1>4, WorkersStay DEF vars
<1>5. ASSUME NEW c \in Call, CallArrives(c) \/ GetNs(c)
      PROVE  WorkersSound'
  BY <1>5, WorkersStay DEF CallArrives, GetNs, IInv, TypeOK, Proc
<1>6. ASSUME NEW c \in Call, GetWorker(c) PROVE WorkersSound'
  <2>1. Request[c].image \in Image
    OBVIOUS
  <2>2. workers[Request[c].image] # None => workers[Request[c].image].ns = Request[c].ns
    BY <2>1 DEF WorkersSound, OneNamespacePerImage
  <2>. QED
    BY <1>6, <2>1, <2>2 DEF GetWorker, WorkersSound, Made, Deployment, IInv, TypeOK, Proc
<1>7. ASSUME NEW c \in Call, NewDeployment(c) \/ ReDeployment(c) PROVE WorkersSound'
  <2>1. /\ UNCHANGED <<workers, jobs, seen>>
        /\ \E s \in {"error", IF pc[c] = "mkDepl" THEN "insWorker" ELSE "updWorker"} :
             /\ pc' = [pc EXCEPT ![c] = s]
             /\ s # "error" => Made(Request[c].ns, Request[c].image)'
    BY <1>7 DEF NewDeployment, ReDeployment, CreateDeployment, Then, Made, Proc
  <2>2. pc[c] \in {"mkDepl", "reDepl"}
    BY <1>7 DEF NewDeployment, ReDeployment
  <2>. QED
    BY <2>1, <2>2, MadeStays DEF WorkersSound, Made, Deployment, IInv, TypeOK, Proc
<1>8. ASSUME NEW c \in Call, InsertWorker(c) \/ UpdateWorker(c) PROVE WorkersSound'
  <2> DEFINE i == Request[c].image
             w == [ns |-> Request[c].ns, depl |-> Request[c].ns]
  <2>1. i \in Image /\ Made(Request[c].ns, i)
    BY <1>8 DEF InsertWorker, UpdateWorker, WorkersSound
  <2>2. pc[c] = "updWorker" => seen[c].ns = Request[c].ns
    BY DEF WorkersSound, IInv, CallsKnow
  <2>3. /\ UNCHANGED <<jobs, seen, depl, removed>>
        /\ \/ workers' = [workers EXCEPT ![i] = w] /\ w # None
           \/ workers' = workers /\ pc'[c] = "error"
        /\ \E s \in {"insJob", "error"} : pc' = [pc EXCEPT ![c] = s]
    <3>1. Request[c].ns \in Namespace
      BY <1>8 DEF InsertWorker, UpdateWorker, IInv, CallsKnow, TypeOK
    <3>2. w \in Row /\ w # None
      BY <3>1 DEF Row
    <3>. HIDE DEF i
    <3>3. CASE InsertWorker(c)
      BY <3>2, <3>3 DEF InsertWorker, Then, Proc, IInv, TypeOK, i
    <3>4. CASE UpdateWorker(c)
      BY <2>2, <3>2, <3>4 DEF UpdateWorker, Then, Proc, IInv, TypeOK, i
    <3>. QED
      BY <1>8, <3>3, <3>4
  <2>. QED
    BY <2>1, <2>3 DEF WorkersSound, Made, Deployment, IInv, TypeOK, Proc
<1>9. ASSUME NEW c \in Call, CheckDeployment(c) \/ InsertJob(c) PROVE WorkersSound'
  <2>1. pc[c] \in {"checkDepl", "insJob"}
    BY <1>9 DEF CheckDeployment, InsertJob
  <2>2. /\ UNCHANGED <<workers, seen, depl, removed>> /\ jobs' \subseteq jobs \cup {c}
        /\ \E s \in {"reDepl", "insJob", "publish", "ok", "error"} : pc' = [pc EXCEPT ![c] = s]
    BY <1>9 DEF CheckDeployment, InsertJob, Then
  <2>. QED
    BY <2>1, <2>2 DEF WorkersSound, Made, Deployment, IInv, TypeOK, Proc
<1>10. ASSUME NEW c \in Call, Publish(c) \/ PublishClosed(c)
       PROVE  WorkersSound'
  BY <1>10, WorkersStay DEF Publish, PublishClosed, Then, IInv, TypeOK, Proc
<1>. QED
  BY <1>1, <1>2, <1>3, <1>4, <1>5, <1>6, <1>7, <1>8, <1>9, <1>10
     DEF Next, CallStep, BootStep, Proc

-----------------------------------------------------------------------------
(* The invariant of the whole service. *)
THEOREM Invariance == Spec => []IInv
BY InitInv, NextInv, PTL DEF Spec

(* Rows name namespaces, a call is at one of its steps, the bootstrap at one of
   its own. *)
THEOREM SchedulerTypeCorrect == Spec => []TypeOK
<1>1. IInv => TypeOK
  BY DEF IInv
<1>. QED
  BY <1>1, Invariance, PTL

(* CreateJob stores the row of a job before it publishes the job, whatever
   fails, crashes or runs beside it. *)
THEOREM RowBeforeMessage == Spec => []QueuedIsStored
<1>1. IInv => QueuedIsStored
  BY DEF IInv
<1>. QED
  BY <1>1, Invariance, PTL

(* createDefualtNamespace stores the row of the default namespace when its
   namespace, quota and limits are there. *)
THEOREM DefaultRowIsLast == Spec => []DefaultIsLimited
<1>1. IInv => DefaultIsLimited
  BY DEF IInv
<1>. QED
  BY <1>1, Invariance, PTL

(* When no image is submitted from two namespaces, every stored job has a worker
   row whose Deployment has been created where the row says. *)
THEOREM StoredJobsAreRunnable ==
    ASSUME OneNamespacePerImage
    PROVE  Spec => []JobsAreRunnable
<1>1. Init => WorkersSound
  BY SchedulerAssumption DEF Init, WorkersSound, Proc, Made
<1>2. IInv /\ WorkersSound /\ [Next]_vars => WorkersSound'
  BY WorkersStep
<1>3. IInv /\ WorkersSound => JobsAreRunnable
  BY SchedulerAssumption DEF WorkersSound, JobsAreRunnable, Made, IInv, TypeOK
<1>. QED
  BY <1>1, <1>2, <1>3, Invariance, PTL DEF Spec

(* A worker row is written once: the only step that writes it again, UpdateWorker,
   writes what is there. *)
LEMMA WorkersWrittenOnce ==
    ASSUME OneNamespacePerImage, IInv, WorkersSound, [Next]_vars,
           NEW i \in Image, workers[i] # None
    PROVE  workers'[i] = workers[i]
<1>. USE SchedulerAssumption DEF dbVars, kubeVars, bootVars, opVars
<1>1. ASSUME NEW c \in Call, InsertWorker(c) PROVE workers'[i] = workers[i]
  BY <1>1 DEF InsertWorker, IInv, TypeOK
<1>2. ASSUME NEW c \in Call, UpdateWorker(c) PROVE workers'[i] = workers[i]
  <2>1. CASE i # Request[c].image
    BY <1>2, <2>1 DEF UpdateWorker, IInv, TypeOK
  <2>2. CASE i = Request[c].image
    <3>1. seen[c].ns = Request[c].ns
      BY <1>2 DEF UpdateWorker, WorkersSound, IInv, CallsKnow
    <3>2. workers[i].depl = workers[i].ns /\ workers[i].ns = Request[c].ns
      BY <2>2 DEF WorkersSound, OneNamespacePerImage
    <3>3. workers[i] = [ns |-> Request[c].ns, depl |-> Request[c].ns]
      <4>1. workers[i] \in Row
        BY DEF IInv, TypeOK
      <4>. QED
        BY <3>2, <4>1 DEF Row
    <3>. QED
      BY <1>2, <2>2, <3>1, <3>3 DEF UpdateWorker, IInv, TypeOK
  <2>. QED
    BY <2>1, <2>2
<1>3. CASE \E p \in Proc : NsStep(p)
  BY <1>3, NsStepMakes
<1>4. ASSUME NEW c \in Call, CallArrives(c) \/ CallStep(c), ~NsStep(c),
             ~InsertWorker(c), ~UpdateWorker(c)
      PROVE  workers' = workers
  BY <1>4 DEF CallStep, CallArrives, GetNs, GetWorker, NewDeployment, CheckDeployment,
              ReDeployment, CreateDeployment, InsertJob, Publish, PublishClosed
<1>5. CASE \/ ListNs \/ NextNs \/ LoopEnds \/ InsertNs \/ (\E p \in Proc : RequestFails(p))
           \/ Crash \/ Sigterm \/ Kill \/ Restart \/ UNCHANGED vars
  BY <1>5 DEF ListNs, NextNs, LoopEnds, InsertNs, RequestFails, Crash, Sigterm, Kill,
              ProcessEnds, Restart, vars
<1>6. CASE (\E d \in depl : OperatorDeletes(d)) \/ \E n \in Namespace : OperatorWipes(n)
  BY <1>6 DEF OperatorDeletes, OperatorWipes, Operator
<1>. QED
  BY <1>1, <1>2, <1>3, <1>4, <1>5, <1>6 DEF Next, BootStep, Proc

(* README: "Namespaces isolate teams". They do when no image is submitted from two
   of them: sharing an image is the only way to another namespace's worker. *)
THEOREM IsolatedUnlessShared ==
    ASSUME OneNamespacePerImage
    PROVE  Spec => NamespacesIsolated
<1>1. Init => WorkersSound
  BY SchedulerAssumption DEF Init, WorkersSound, Proc, Made
<1>2. IInv /\ WorkersSound /\ [Next]_vars => WorkersSound'
  BY WorkersStep
<1>3. IInv /\ WorkersSound /\ [Next]_vars =>
        \A c \in Call, i \in Image :
          /\ pc'[c] # pc[c]
          /\ workers[i] # None /\ workers'[i] # workers[i]
          => workers[i].ns = Request[c].ns
  BY WorkersWrittenOnce
<1>. QED
  BY <1>1, <1>2, <1>3, Invariance, PTL DEF Spec, NamespacesIsolated

-----------------------------------------------------------------------------
(* The refinement. *)

(* What a call is told, as it moves. *)
LEMMA AnswerMoves ==
    ASSUME TypeOK, NEW c \in Call, NEW s \in CallBusy \cup {"ok", "error"},
           pc' = [pc EXCEPT ![c] = s]
    PROVE  /\ Answer' = [Answer EXCEPT ![c] = IF s \in CallBusy THEN "asked" ELSE s]
           /\ Asking' = IF Request[c].autorun THEN Asking \cup {c} ELSE Asking
<1>1. \A d \in Call : pc'[d] = IF d = c THEN s ELSE pc[d]
  BY SchedulerAssumption DEF TypeOK, Proc
<1>2. Answer' = [Answer EXCEPT ![c] = IF s \in CallBusy THEN "asked" ELSE s]
  <2>1. s # "idle"
    BY DEF CallBusy
  <2>2. \A d \in Call : Answer'[d] = IF d # c THEN Answer[d] ELSE IF s \in CallBusy THEN "asked" ELSE s
    BY <1>1, <2>1 DEF Answer
  <2>3. Answer = [d \in Call |-> Answer[d]] /\ Answer' = [d \in Call |-> Answer'[d]]
    BY DEF Answer
  <2>. HIDE DEF CallBusy
  <2>. QED
    BY <2>2, <2>3
<1>3. Asking' = IF Request[c].autorun THEN Asking \cup {c} ELSE Asking
  BY <1>1 DEF Asking, CallBusy
<1>. QED
  BY <1>2, <1>3

IntakeVars == <<Answer, Asking, jobs, queued>>

(* A busy call that stays busy, or is refused, without having stored or sent. *)
LEMMA QuietMove ==
    ASSUME TypeOK, NEW c \in Call, NEW s \in CallBusy \cup {"error"},
           pc[c] \in CallBusy, pc' = [pc EXCEPT ![c] = s], UNCHANGED <<jobs, queued>>
    PROVE  Intake!Fail({c}) \/ UNCHANGED IntakeVars
<1>1. Asking' = Asking
  BY AnswerMoves DEF Asking, CallBusy
<1>2. Answer[c] = "asked" /\ Answer' = [Answer EXCEPT ![c] = IF s = "error" THEN s ELSE "asked"]
  BY AnswerMoves DEF Answer, CallBusy
<1>3. Answer = [d \in Call |-> Answer[d]]
  BY DEF Answer
<1>4. CASE s = "error"
  BY <1>1, <1>2, <1>3, <1>4 DEF Intake!Fail
<1>5. CASE s # "error"
  BY <1>1, <1>2, <1>3, <1>5 DEF IntakeVars
<1>. QED
  BY <1>4, <1>5

(* What CreateJob makes on the way does not show. *)
LEMMA OnTheWay ==
    ASSUME IInv, NEW c \in Call,
           \/ NsStep(c) \/ GetNs(c) \/ GetWorker(c) \/ NewDeployment(c) \/ InsertWorker(c)
           \/ CheckDeployment(c) \/ ReDeployment(c) \/ UpdateWorker(c) \/ PublishClosed(c)
           \/ RequestFails(c)
    PROVE  Intake!Fail({c}) \/ UNCHANGED IntakeVars
<1>1. c \in Proc /\ c # Boot
  BY SchedulerAssumption DEF Proc
<1>2. CASE NsStep(c)
  <2>1. pc[c] \in CallBusy
    BY <1>2 DEF NsStep, CheckNs, MkNs, MkQuota, MkLimits, CallBusy
  <2>2. \E s \in CallBusy \cup {"error"} : pc' = [pc EXCEPT ![c] = s]
    BY <1>1, <1>2, NsStepMakes DEF Refused, AfterNs, CallBusy
  <2>. QED
    BY <1>1, <1>2, <2>1, <2>2, NsStepMakes, QuietMove DEF IInv, dbVars
<1>3. CASE \/ GetNs(c) \/ GetWorker(c) \/ CheckDeployment(c) \/ PublishClosed(c)
           \/ RequestFails(c)
  <2>1. /\ pc[c] \in CallBusy /\ UNCHANGED <<jobs, queued>>
        /\ \E s \in CallBusy \cup {"error"} : pc' = [pc EXCEPT ![c] = s]
    BY <1>1, <1>3 DEF GetNs, GetWorker, CheckDeployment, PublishClosed, RequestFails, Goto,
                      Refused, CallBusy, dbVars
  <2>. QED
    BY <2>1, QuietMove DEF IInv
<1>4. CASE NewDeployment(c) \/ ReDeployment(c) \/ InsertWorker(c) \/ UpdateWorker(c)
  <2>1. /\ pc[c] \in CallBusy /\ UNCHANGED <<jobs, queued>>
        /\ \E s \in CallBusy \cup {"error"} : pc' = [pc EXCEPT ![c] = s]
    BY <1>1, <1>4 DEF NewDeployment, ReDeployment, CreateDeployment, InsertWorker,
                      UpdateWorker, Then, Goto, Refused, CallBusy, dbVars
  <2>. QED
    BY <2>1, QuietMove DEF IInv
<1>. QED
  BY <1>2, <1>3, <1>4

(* Its two writes do. *)
LEMMA WritesShow ==
    ASSUME IInv, NEW c \in Call
    PROVE  /\ CallArrives(c) => Intake!Ask(c)
           /\ InsertJob(c) => Intake!Store(c)
           /\ Publish(c) => Intake!Send(c)
<1>1. c \in Proc /\ c # Boot /\ TypeOK
  BY SchedulerAssumption DEF Proc, IInv
<1>2. ASSUME CallArrives(c) PROVE Intake!Ask(c)
  <2>1. pc[c] = "idle" /\ pc' = [pc EXCEPT ![c] = "getNs"] /\ UNCHANGED <<jobs, queued>>
    BY <1>2 DEF CallArrives, Goto, dbVars
  <2>2. Answer[c] = "none" /\ Answer' = [Answer EXCEPT ![c] = "asked"]
    BY <1>1, <2>1, AnswerMoves DEF Answer, CallBusy
  <2>3. Asking' \in {Asking, Asking \cup {c}}
    BY <1>1, <2>1, AnswerMoves DEF CallBusy
  <2>. QED
    BY <2>1, <2>2, <2>3 DEF Intake!Ask, Intake!Answers
<1>3. ASSUME InsertJob(c) PROVE Intake!Store(c)
  <2>1. /\ pc[c] = "insJob" /\ jobs' = jobs \cup {c} /\ queued' = queued
        /\ \E s \in {IF Request[c].autorun THEN "publish" ELSE "ok", "error"} :
             pc' = [pc EXCEPT ![c] = s]
    BY <1>1, <1>3 DEF InsertJob, Then, Goto, Refused
  <2>2. Answer[c] = "asked" /\ Asking' = Asking /\ (c \in Asking <=> Request[c].autorun)
    BY <1>1, <2>1, AnswerMoves DEF Answer, Asking, CallBusy
  <2>3. \/ Answer' = [Answer EXCEPT ![c] = IF Request[c].autorun THEN "asked" ELSE "ok"]
        \/ Answer' = [Answer EXCEPT ![c] = "error"]
    BY <1>1, <2>1, AnswerMoves DEF CallBusy
  <2>. QED
    BY <2>1, <2>2, <2>3 DEF Intake!Store, Intake!Answers
<1>4. ASSUME Publish(c) PROVE Intake!Send(c)
  <2>1. /\ pc[c] = "publish" /\ queued' = queued \cup {c} /\ jobs' = jobs
        /\ \E s \in {"ok", "error"} : pc' = [pc EXCEPT ![c] = s]
    BY <1>1, <1>4 DEF Publish, Then, Goto, Refused, dbVars
  <2>2. Answer[c] = "asked" /\ Asking' = Asking /\ c \in Asking /\ c \in jobs
    BY <1>1, <2>1, AnswerMoves DEF Answer, Asking, CallBusy, IInv, CallsKnow
  <2>3. \/ Answer' = [Answer EXCEPT ![c] = "ok"]
        \/ Answer' = [Answer EXCEPT ![c] = "error"]
    BY <1>1, <2>1, AnswerMoves DEF CallBusy
  <2>. QED
    BY <2>1, <2>2, <2>3 DEF Intake!Send, Intake!Answers
<1>. QED
  BY <1>2, <1>3, <1>4

(* Everything else leaves the calls where they are, or fails those in progress. *)
LEMMA OthersStutter ==
    ASSUME IInv,
           \/ BootStep \/ Restart \/ Sigterm \/ RequestFails(Boot) \/ UNCHANGED vars
           \/ (\E d \in depl : OperatorDeletes(d)) \/ \E n \in Namespace : OperatorWipes(n)
    PROVE  UNCHANGED IntakeVars
<1>1. UNCHANGED <<jobs, queued>> /\ \A c \in Call : pc'[c] = pc[c]
  <2>. USE SchedulerAssumption
       DEF IInv, TypeOK, Proc, Goto, dbVars, kubeVars, bootVars, opVars
  <2>1. CASE NsStep(Boot)
    BY <2>1, NsStepMakes
  <2>2. CASE ListNs \/ NextNs \/ LoopEnds \/ InsertNs \/ Restart \/ Sigterm \/ RequestFails(Boot)
    BY <2>2 DEF ListNs, NextNs, LoopEnds, InsertNs, Then, Restart, Sigterm, RequestFails
  <2>3. CASE (\E d \in depl : OperatorDeletes(d)) \/ \E n \in Namespace : OperatorWipes(n)
    BY <2>3 DEF OperatorDeletes, OperatorWipes, Operator
  <2>4. CASE UNCHANGED vars
    BY <2>4 DEF vars
  <2>. QED
    BY <2>1, <2>2, <2>3, <2>4 DEF BootStep
<1>. QED
  BY <1>1 DEF IntakeVars, Answer, Asking

LEMMA ProcessEndFails ==
    ASSUME IInv, ProcessEnds
    PROVE  Intake!Fail({ c \in Call : pc[c] \in CallBusy })
<1> DEFINE busy == { c \in Call : pc[c] \in CallBusy }
<1>1. /\ UNCHANGED <<jobs, queued>>
      /\ \A c \in Call : pc'[c] = IF c \in busy THEN "error" ELSE pc[c]
  BY SchedulerAssumption DEF ProcessEnds, dbVars, Proc
<1>2. \A c \in busy : Answer[c] = "asked"
  BY DEF Answer, CallBusy
<1>3. Answer' = [c \in Call |-> IF c \in busy THEN "error" ELSE Answer[c]]
  BY <1>1 DEF Answer, CallBusy
<1>4. Asking' = Asking
  BY <1>1 DEF Asking, CallBusy
<1>. QED
  BY <1>1, <1>2, <1>3, <1>4 DEF Intake!Fail

(* To its callers CreateJob is JobIntake: a store, then a send, and an answer that
   is "ok" only after what was asked for, with bootstrap, Kubernetes objects,
   operators, failures, shutdowns and restarts all around it. *)
THEOREM CreateJobIsIntake == Spec => Intake!Safe
<1>1. Init => Intake!Init
  <2>. SUFFICES ASSUME Init PROVE Intake!Init
    OBVIOUS
  <2>1. \A c \in Call : pc[c] = "idle"
    BY SchedulerAssumption DEF Init, Proc
  <2>. QED
    BY <2>1 DEF Init, Intake!Init, Answer, Asking
<1>2. IInv /\ [Next]_vars => [Intake!Next]_(Intake!vars)
  <2>. SUFFICES ASSUME IInv, [Next]_vars PROVE Intake!Next \/ UNCHANGED IntakeVars
    BY DEF IntakeVars, Intake!vars
  <2>1. ASSUME NEW c \in Call,
               CallArrives(c) \/ CallStep(c) \/ RequestFails(c)
        PROVE  Intake!Next \/ UNCHANGED IntakeVars
    BY <2>1, OnTheWay, WritesShow DEF CallStep, Intake!Next
  <2>2. CASE Crash \/ Kill
    BY <2>2, ProcessEndFails DEF Crash, Kill, Intake!Next
  <2>. QED
    BY <2>1, <2>2, OthersStutter DEF Next, Proc
<1>. QED
  BY <1>1, <1>2, Invariance, PTL DEF Spec, Intake!Safe

(* What the abstract specification promises, the scheduler keeps. A caller is told
   "ok" only of a job that is stored and, if it was to run, handed to the broker:
   no shutdown, crash or restart in between makes it untrue. *)
THEOREM OkIsDone ==
    Spec => [](\A c \in Call : pc[c] = "ok" =>
                  c \in jobs /\ (Request[c].autorun => c \in queued))
<1>1. Spec => []Intake!OkIsDone
  BY CreateJobIsIntake, Intake!OkMeansDone, PTL DEF Intake!Safe
<1>2. Intake!OkIsDone => \A c \in Call : pc[c] = "ok" =>
                            c \in jobs /\ (Request[c].autorun => c \in queued)
  <2>. SUFFICES ASSUME Intake!OkIsDone, NEW c \in Call, pc[c] = "ok"
                PROVE  c \in jobs /\ (Request[c].autorun => c \in queued)
    OBVIOUS
  <2>1. Answer[c] = "ok" /\ (Request[c].autorun => c \in Asking)
    BY DEF Answer, Asking, CallBusy
  <2>. QED
    BY <2>1 DEF Intake!OkIsDone
<1>. QED
  BY <1>1, <1>2, PTL
=============================================================================
