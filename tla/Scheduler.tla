------------------------------ MODULE Scheduler ------------------------------
(***************************************************************************)
(* The scheduler service (services/scheduler): at start it makes sure that *)
(* every namespace row has a Kubernetes namespace and creates the default  *)
(* one, then it serves CreateJob. Each CreateJob is a chain of independent *)
(* reads and writes against Postgres, Kubernetes and RabbitMQ, with no     *)
(* transaction around them; calls run concurrently, every request may      *)
(* fail, with or without its effect, and the process may end anywhere.     *)
(***************************************************************************)
EXTENDS Naturals

CONSTANTS
    Call,           \* CreateJob calls
    Image,          \* container images
    Slug,           \* image names as Deployment names spell them
    SlugOf,         \* sanitizeImageName: not injective
    Namespace,      \* namespaces that have, or may get, a row and a DNS name
    Default,        \* "wardu", the one the scheduler creates itself
    Request,        \* what each call asks for
    MaxFaults,      \* bound: failed requests, lost responses, signals, crashes
    MaxOps,         \* bound: deletions in Kubernetes by an operator
    Boot,           \* createDefualtNamespace, as a process beside the calls
    None            \* no row, no namespace

(* A request may name a namespace nobody has created. *)
ASSUME SchedulerAssumption ==
    /\ SlugOf \in [Image -> Slug]
    /\ Default \in Namespace
    /\ None \notin Namespace /\ None \notin [ns : Namespace, depl : Namespace]
    /\ \A c \in Call : Request[c].image \in Image /\ Request[c].autorun \in BOOLEAN
    /\ MaxFaults \in Nat /\ MaxOps \in Nat
    /\ Boot \notin Call

Proc == Call \cup {Boot}

Object == {"namespace", "quota", "limits"}

(* workers.namespace_id, and the namespace in whose name K8sDeploymentName was
   generated (its other half is the slug of the image). *)
Row == [ns : Namespace, depl : Namespace]

VARIABLES
    nsRows,     \* the namespaces table
    workers,    \* the workers table, by image (a unique column)
    jobs,       \* the jobs table: the calls that have stored theirs
    queued,     \* the jobs whose message has been handed to the broker
    kube,       \* [Namespace -> SUBSET Object]: what exists in Kubernetes
    depl,       \* the Deployments: namespace and slug
    stopping,   \* a signal has closed the broker connection
    pc,         \* where each call, and the bootstrap, is
    seen,       \* the worker row a call has loaded
    todo,       \* namespaces the bootstrap has still to check
    bootNs,     \* the one it is checking or creating
    faults,     \* faults so far
    ops,        \* deletions so far
    wiped,      \* (history) namespaces an operator has deleted
    removed     \* (history) Deployments an operator has deleted

dbVars   == <<nsRows, workers, jobs>>
kubeVars == <<kube, depl>>
bootVars == <<todo, bootNs>>
opVars   == <<ops, wiped, removed>>
vars == <<dbVars, queued, kubeVars, stopping, pc, seen, bootVars, faults, opVars>>

CallBusy == {"getNs", "checkNs", "mkNs", "mkQuota", "mkLimits", "getWorker", "mkDepl",
             "insWorker", "checkDepl", "reDepl", "updWorker", "insJob", "publish"}
BootBusy == {"list", "loop", "checkNs", "mkNs", "mkQuota", "mkLimits", "insNs"}

TypeOK ==
    /\ nsRows \subseteq Namespace
    /\ workers \in [Image -> Row \cup {None}]
    /\ jobs \subseteq Call
    /\ queued \subseteq Call
    /\ kube \in [Namespace -> SUBSET Object]
    /\ depl \subseteq Namespace \X Slug
    /\ stopping \in BOOLEAN
    /\ pc \in [Proc -> CallBusy \cup BootBusy \cup {"idle", "ok", "error", "serving", "down"}]
    /\ \A c \in Call : pc[c] \in CallBusy \cup {"idle", "ok", "error"}
    /\ pc[Boot] \in BootBusy \cup {"serving", "down"}
    /\ seen \in [Call -> Row \cup {None}]
    /\ todo \subseteq Namespace
    /\ bootNs \in Namespace \cup {None}
    /\ faults \in 0 .. MaxFaults
    /\ ops \in 0 .. MaxOps
    /\ wiped \subseteq Namespace
    /\ removed \subseteq Namespace \X Slug

(* A fresh installation in which every namespace but the default one has been
   given its row by hand: no service offers an operation for that. *)
Init ==
    /\ nsRows = Namespace \ {Default}
    /\ workers = [i \in Image |-> None]
    /\ jobs = {} /\ queued = {}
    /\ kube = [n \in Namespace |-> {}] /\ depl = {}
    /\ stopping = FALSE
    /\ pc = [p \in Proc |-> IF p = Boot THEN "list" ELSE "idle"]
    /\ seen = [c \in Call |-> None]
    /\ todo = {} /\ bootNs = None
    /\ faults = 0 /\ ops = 0
    /\ wiped = {} /\ removed = {}

-----------------------------------------------------------------------------
Goto(p, step) == pc' = [pc EXCEPT ![p] = step]

(* An error ends the call; in the bootstrap it is log.Fatal. *)
Refused(p) == IF p = Boot THEN "down" ELSE "error"

Fault == faults < MaxFaults /\ faults' = faults + 1

(* A request with an effect: the caller goes on, or is told of an error all the
   same (the response is lost, the caller's context ends). *)
Then(p, step) ==
    \/ Goto(p, step) /\ UNCHANGED faults
    \/ Goto(p, Refused(p)) /\ Fault

(* A request fails without an effect. *)
RequestFails(p) ==
    /\ pc[p] \in IF p = Boot THEN BootBusy \ {"loop"} ELSE CallBusy
    /\ Fault
    /\ Goto(p, Refused(p))
    /\ UNCHANGED <<dbVars, queued, kubeVars, stopping, seen, bootVars, opVars>>

-----------------------------------------------------------------------------
(* CheckNamespaceByDNS and CreateNamespace, of a call and of the bootstrap. *)

Ns(p) == IF p = Boot THEN bootNs ELSE Request[p].ns

(* What follows when the namespace is there. *)
AfterNs(p) ==
    IF p # Boot THEN "getWorker" ELSE IF bootNs \in nsRows THEN "loop" ELSE "insNs"

CheckNs(p) ==
    /\ pc[p] = "checkNs"
    /\ Goto(p, IF "namespace" \in kube[Ns(p)] THEN AfterNs(p) ELSE "mkNs")
    /\ UNCHANGED <<dbVars, queued, kubeVars, stopping, seen, bootVars, faults, opVars>>

(* Create one object; that it is there already is not an error. *)
Make(p, object) == kube' = [kube EXCEPT ![Ns(p)] = @ \cup {object}]

(* Mutated form: a namespace left by an earlier try is an error. *)
MkNsStrict(p) ==
    /\ pc[p] = "mkNs"
    /\ IF "namespace" \in kube[Ns(p)]
         THEN Goto(p, Refused(p)) /\ UNCHANGED <<kube, faults>>
         ELSE Make(p, "namespace") /\ Then(p, "mkQuota")
    /\ UNCHANGED <<dbVars, queued, depl, stopping, seen, bootVars, opVars>>

MkNs(p) ==
    /\ pc[p] = "mkNs"
    /\ Make(p, "namespace")
    /\ Then(p, "mkQuota")
    /\ UNCHANGED <<dbVars, queued, depl, stopping, seen, bootVars, opVars>>

(* Nothing can be created in a namespace that has gone. *)
MkInNs(p, object, step) ==
    /\ IF "namespace" \in kube[Ns(p)]
         THEN Make(p, object) /\ Then(p, step)
         ELSE Goto(p, Refused(p)) /\ UNCHANGED <<kube, faults>>
    /\ UNCHANGED <<dbVars, queued, depl, stopping, seen, bootVars, opVars>>

MkQuota(p)  == pc[p] = "mkQuota" /\ MkInNs(p, "quota", "mkLimits")
MkLimits(p) == pc[p] = "mkLimits" /\ MkInNs(p, "limits", AfterNs(p))

-----------------------------------------------------------------------------
(* createDefualtNamespace. *)

ListNs ==
    /\ pc[Boot] = "list"
    /\ todo' = nsRows
    /\ Goto(Boot, "loop")
    /\ UNCHANGED <<dbVars, queued, kubeVars, stopping, seen, bootNs, faults, opVars>>

NextNs ==
    /\ pc[Boot] = "loop"
    /\ \E n \in todo : bootNs' = n /\ todo' = todo \ {n}
    /\ Goto(Boot, "checkNs")
    /\ UNCHANGED <<dbVars, queued, kubeVars, stopping, seen, faults, opVars>>

(* Mutated form: the row is stored before the objects are created. *)
LoopEndsRowFirst ==
    /\ pc[Boot] = "loop" /\ todo = {}
    /\ IF Default \in nsRows
         THEN Goto(Boot, "serving") /\ UNCHANGED <<bootNs, nsRows>>
         ELSE Goto(Boot, "mkNs") /\ bootNs' = Default /\ nsRows' = nsRows \cup {Default}
    /\ UNCHANGED <<workers, jobs, queued, kubeVars, stopping, seen, todo, faults, opVars>>

(* Every row is done: is there one for the default namespace? *)
LoopEnds ==
    /\ pc[Boot] = "loop" /\ todo = {}
    /\ IF Default \in nsRows
         THEN Goto(Boot, "serving") /\ UNCHANGED bootNs
         ELSE Goto(Boot, "mkNs") /\ bootNs' = Default
    /\ UNCHANGED <<dbVars, queued, kubeVars, stopping, seen, todo, faults, opVars>>

InsertNs ==
    /\ pc[Boot] = "insNs"
    /\ nsRows' = nsRows \cup {bootNs}
    /\ Then(Boot, "serving")
    /\ UNCHANGED <<workers, jobs, queued, kubeVars, stopping, seen, bootVars, opVars>>

-----------------------------------------------------------------------------
(* CreateJob. *)

CallArrives(c) ==
    /\ pc[Boot] = "serving" /\ ~stopping
    /\ pc[c] = "idle"
    /\ Goto(c, "getNs")
    /\ UNCHANGED <<dbVars, queued, kubeVars, stopping, seen, bootVars, faults, opVars>>

GetNs(c) ==
    /\ pc[c] = "getNs"
    /\ Goto(c, IF Request[c].ns \in nsRows THEN "checkNs" ELSE "error")
    /\ UNCHANGED <<dbVars, queued, kubeVars, stopping, seen, bootVars, faults, opVars>>

(* By image alone, whatever namespace the worker belongs to. *)
GetWorker(c) ==
    /\ pc[c] = "getWorker"
    /\ seen' = [seen EXCEPT ![c] = workers[Request[c].image]]
    /\ Goto(c, IF workers[Request[c].image] = None THEN "mkDepl" ELSE "checkDepl")
    /\ UNCHANGED <<dbVars, queued, kubeVars, stopping, bootVars, faults, opVars>>

Deployment(ns, i) == <<ns, SlugOf[i]>>

(* Mutated form: the error of the creation is not looked at. *)
CreateDeploymentUnchecked(c, step) ==
    /\ IF "namespace" \in kube[Request[c].ns]
         THEN depl' = depl \cup {Deployment(Request[c].ns, Request[c].image)}
         ELSE UNCHANGED depl
    /\ Goto(c, step)
    /\ UNCHANGED <<dbVars, queued, kube, stopping, seen, bootVars, faults, opVars>>

(* k8s.CreateWorker: here a Deployment that exists is an error. *)
CreateDeployment(c, step) ==
    /\ LET d == Deployment(Request[c].ns, Request[c].image) IN
       IF "namespace" \in kube[Request[c].ns] /\ d \notin depl
         THEN depl' = depl \cup {d} /\ Then(c, step)
         ELSE Goto(c, "error") /\ UNCHANGED <<depl, faults>>
    /\ UNCHANGED <<dbVars, queued, kube, stopping, seen, bootVars, opVars>>

NewDeployment(c) == pc[c] = "mkDepl" /\ CreateDeployment(c, "insWorker")

(* K8sDeploymentName is a unique column too. *)
NameTaken(c) ==
    \E i \in Image \ {Request[c].image} :
        /\ workers[i] # None
        /\ Deployment(workers[i].depl, i) = Deployment(Request[c].ns, Request[c].image)

(* Mutated form: the row is built without NamespaceID. *)
InsertWorkerBare(c) ==
    /\ pc[c] = "insWorker"
    /\ workers' = [workers EXCEPT ![Request[c].image] =
                        [ns |-> None, depl |-> Request[c].ns]]
    /\ Goto(c, "insJob")
    /\ UNCHANGED <<nsRows, jobs, queued, kubeVars, stopping, seen, bootVars, faults, opVars>>

InsertWorker(c) ==
    /\ pc[c] = "insWorker"
    /\ IF workers[Request[c].image] = None /\ ~NameTaken(c)
         THEN /\ workers' = [workers EXCEPT ![Request[c].image] =
                                [ns |-> Request[c].ns, depl |-> Request[c].ns]]
              /\ Then(c, "insJob")
         ELSE Goto(c, "error") /\ UNCHANGED <<workers, faults>>
    /\ UNCHANGED <<nsRows, jobs, queued, kubeVars, stopping, seen, bootVars, opVars>>

(* CheckWorker looks for the Deployment the row names in the namespace of the
   request. *)
CheckDeployment(c) ==
    /\ pc[c] = "checkDepl"
    /\ Goto(c, IF /\ seen[c].depl = Request[c].ns
                  /\ Deployment(Request[c].ns, Request[c].image) \in depl
               THEN "insJob" ELSE "reDepl")
    /\ UNCHANGED <<dbVars, queued, kubeVars, stopping, seen, bootVars, faults, opVars>>

ReDeployment(c) == pc[c] = "reDepl" /\ CreateDeployment(c, "updWorker")

(* Only the name changes: the row keeps the namespace it was loaded with. *)
UpdateWorker(c) ==
    /\ pc[c] = "updWorker"
    /\ IF ~NameTaken(c)
         THEN /\ workers' = [workers EXCEPT ![Request[c].image] =
                                [ns |-> seen[c].ns, depl |-> Request[c].ns]]
              /\ Then(c, "insJob")
         ELSE Goto(c, "error") /\ UNCHANGED <<workers, faults>>
    /\ UNCHANGED <<nsRows, jobs, queued, kubeVars, stopping, seen, bootVars, opVars>>

(* Mutated form: the message leaves before the row is stored. *)
InsertJobLate(c) ==
    /\ pc[c] = "insJob"
    /\ IF Request[c].autorun /\ c \notin queued
         THEN queued' = queued \cup {c} /\ UNCHANGED <<jobs, pc, faults>>
         ELSE jobs' = jobs \cup {c} /\ Then(c, "ok") /\ UNCHANGED queued
    /\ UNCHANGED <<nsRows, workers, kubeVars, stopping, seen, bootVars, opVars>>

InsertJob(c) ==
    /\ pc[c] = "insJob"
    /\ jobs' = jobs \cup {c}
    /\ Then(c, IF Request[c].autorun THEN "publish" ELSE "ok")
    /\ UNCHANGED <<nsRows, workers, queued, kubeVars, stopping, seen, bootVars, opVars>>

(* Publishes are not confirmed: what the broker does with the message is not known. *)
Publish(c) ==
    /\ pc[c] = "publish" /\ ~stopping
    /\ queued' = queued \cup {c}
    /\ Then(c, "ok")
    /\ UNCHANGED <<dbVars, kubeVars, stopping, seen, bootVars, opVars>>

(* Mutated form: the error of a closed connection is logged and the job reported. *)
PublishClosedLogged(c) ==
    /\ pc[c] = "publish" /\ stopping
    /\ Goto(c, "ok")
    /\ UNCHANGED <<dbVars, queued, kubeVars, stopping, seen, bootVars, faults, opVars>>

(* gracefulShutdown has closed the connection under the calls in progress. *)
PublishClosed(c) ==
    /\ pc[c] = "publish" /\ stopping
    /\ Goto(c, "error")
    /\ UNCHANGED <<dbVars, queued, kubeVars, stopping, seen, bootVars, faults, opVars>>
-----------------------------------------------------------------------------
(* The process. Calls in progress fail for their callers. *)

ProcessEnds ==
    /\ stopping' = FALSE
    /\ pc' = [p \in Proc |-> IF p = Boot THEN "down"
                             ELSE IF pc[p] \in CallBusy THEN "error" ELSE pc[p]]
    /\ todo' = {} /\ bootNs' = None
    /\ UNCHANGED <<dbVars, queued, kubeVars, seen, opVars>>

Crash == pc[Boot] # "down" /\ Fault /\ ProcessEnds

(* The broker connection is closed, no call is accepted any more ... *)
Sigterm ==
    /\ pc[Boot] = "serving" /\ ~stopping
    /\ Fault
    /\ stopping' = TRUE
    /\ UNCHANGED <<dbVars, queued, kubeVars, pc, seen, bootVars, opVars>>

(* ... and main waits for a channel nobody writes to until it is killed. *)
Kill == stopping /\ ProcessEnds /\ UNCHANGED faults

Restart ==
    /\ pc[Boot] = "down"
    /\ Goto(Boot, "list")
    /\ UNCHANGED <<dbVars, queued, kubeVars, stopping, seen, bootVars, faults, opVars>>

(* An operator deletes a Deployment, or a namespace with all that is in it. *)
Operator(n) ==
    /\ ops < MaxOps /\ ops' = ops + 1
    /\ "namespace" \in kube[n]
    /\ UNCHANGED <<dbVars, queued, stopping, pc, seen, bootVars, faults>>

OperatorDeletes(d) ==
    /\ d \in depl
    /\ Operator(d[1])
    /\ depl' = depl \ {d}
    /\ removed' = removed \cup {d}
    /\ UNCHANGED <<kube, wiped>>

OperatorWipes(n) ==
    /\ Operator(n)
    /\ kube' = [kube EXCEPT ![n] = {}]
    /\ depl' = { d \in depl : d[1] # n }
    /\ wiped' = wiped \cup {n}
    /\ removed' = removed \cup (depl \ depl')

-----------------------------------------------------------------------------
NsStep(p) == CheckNs(p) \/ MkNs(p) \/ MkQuota(p) \/ MkLimits(p)

BootStep == NsStep(Boot) \/ ListNs \/ NextNs \/ LoopEnds \/ InsertNs

CallStep(c) ==
    \/ NsStep(c) \/ GetNs(c) \/ GetWorker(c)
    \/ NewDeployment(c) \/ InsertWorker(c)
    \/ CheckDeployment(c) \/ ReDeployment(c) \/ UpdateWorker(c)
    \/ InsertJob(c) \/ Publish(c) \/ PublishClosed(c)

Next ==
    \/ \E c \in Call : CallArrives(c) \/ CallStep(c)
    \/ BootStep
    \/ \E p \in Proc : RequestFails(p)
    \/ Crash \/ Sigterm \/ Kill \/ Restart
    \/ \E d \in depl : OperatorDeletes(d)
    \/ \E n \in Namespace : OperatorWipes(n)

Spec == Init /\ [][Next]_vars

(* The bootstrap and the calls run, their requests return, a process that has
   been told to stop is killed in the end, and Kubernetes starts it again. *)
Fairness ==
    /\ WF_vars(BootStep) /\ WF_vars(Kill) /\ WF_vars(Restart)
    /\ \A c \in Call : WF_vars(CallStep(c))

FairSpec == Spec /\ Fairness

-----------------------------------------------------------------------------
(* A stored job can be run: its image has a worker row whose Deployment lies in
   the namespace of that row and has been created, and only an operator can have
   deleted it since. No failed request, crash or concurrent first submission
   leaves a job behind a row that points nowhere. It takes that an image is used
   from one namespace (see NamespacesIsolated). *)
JobsAreRunnable ==
    \A c \in jobs : LET w == workers[Request[c].image] IN
        /\ w # None
        /\ w.depl = w.ns
        /\ Deployment(w.ns, Request[c].image) \in depl \cup removed

(* The message of a job never overtakes its row: whatever interrupts CreateJob,
   the dispatcher finds every job the scheduler has queued. *)
QueuedIsStored == queued \subseteq jobs

Answer ==
    [c \in Call |-> IF pc[c] = "idle" THEN "none"
                    ELSE IF pc[c] \in CallBusy THEN "asked" ELSE pc[c]]

Asking == { c \in Call : pc[c] # "idle" /\ Request[c].autorun }

(* To its callers CreateJob is a store and a send, in this order, whatever it makes
   on the way and whatever fails, crashes or is shut down under it; every call is
   answered, and with "ok" only when both have been done. *)
Intake == INSTANCE JobIntake
            WITH answer <- Answer, wants <- Asking, stored <- jobs, sent <- queued
ImplementsIntake == Intake!Spec

(* The row of the default namespace is written last, so a bootstrap that failed
   or crashed half-way is taken up again by the next start: once the row is there,
   so are the namespace, its quota and its limits. *)
DefaultIsLimited ==
    Default \in nsRows \ wiped => kube[Default] = Object

(* Whatever a bootstrap or a shutdown has left behind, the scheduler comes back
   and serves. *)
BootRecovers == <>[](pc[Boot] = "serving")

(* README: "Namespaces isolate teams". A call does not change the worker of a
   namespace other than its own. *)
NamespacesIsolated ==
    [][\A c \in Call, i \in Image :
        /\ pc'[c] # pc[c]
        /\ workers[i] # None /\ workers'[i] # workers[i]
        => workers[i].ns = Request[c].ns]_vars
=============================================================================
