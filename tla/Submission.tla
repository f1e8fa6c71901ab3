----------------------------- MODULE Submission -----------------------------
(***************************************************************************)
(* From the HTTP request to the runtime: the gateway's submitJob and its   *)
(* shutdown, the end of the scheduler's CreateJob, RunJob, the message and *)
(* what executeJob makes of it. Modules Scheduler and Dispatcher have the  *)
(* requests and failures in between; here it is what a run is given.       *)
(***************************************************************************)
EXTENDS JobRequest

CONSTANTS
    Call,       \* submissions; each makes a job of its own
    Push,       \* RunJob requests
    Requests,   \* the bodies submitters choose from
    Overrides,  \* the RunJob bodies pushers choose from
    DefaultTimeout, \* openapi.yml's default of timeout_seconds
    None        \* nothing

ASSUME SubmissionAssumption ==
    /\ Call \cap Push = {}
    /\ Requests \subseteq Optional
    /\ \A req \in Requests : req["payload"] # Zero
    /\ Overrides \subseteq Optional
    /\ DefaultTimeout \in Value
    /\ None \notin Plain /\ None \notin [job : Call, ops : Overrides]

(* A run is asked for by a submission with autorun or by a push. *)
Run == Call \cup Push

VARIABLES
    gateway,    \* "up", "stopping", "closed" (clients closed) or "down"
    pc,         \* each submission: "idle", "insert", "publish", "reply", "done"
    request,    \* what it asked for
    autorun,    \* the submissions that ask for a run
    answer,     \* what its client was told: "none", "accepted", "rejected"
    result,     \* what CreateJob returned: "none", "ok" or "error"
    rows,       \* table jobs
    pushed,     \* what each push asked for: [job, ops], or None
    queue,      \* messages: [run, job, body]
    published,  \* runs whose message has been handed to the broker
    tasks,      \* goroutines of executeJob with the job they loaded: [run, job]
    given       \* calls of runtime.Run: [run, req]

gatewayVars == <<gateway, pc, request, autorun, answer, result>>
vars == <<gatewayVars, rows, pushed, queue, published, tasks, given>>

TypeOK ==
    /\ gateway \in {"up", "stopping", "closed", "down"}
    /\ pc \in [Call -> {"idle", "insert", "publish", "reply", "done"}]
    /\ request \in [Call -> Requests \cup {None}]
    /\ autorun \subseteq Call
    /\ answer \in [Call -> {"none", "accepted", "rejected"}]
    /\ result \in [Call -> {"none", "ok", "error"}]
    /\ rows \in [Call -> Plain \cup {None}]
    /\ \A c \in Call : rows[c] # None => rows[c]["payload"] \in Value
    /\ pushed \in [Push -> [job : Call, ops : Overrides] \cup {None}]
    /\ \A m \in queue :
        /\ m.run \in Run /\ m.job \in Call
        /\ DOMAIN m.body \subseteq Field
        /\ \A f \in DOMAIN m.body : m.body[f] \in Value \cup (IF f \in Slice THEN {} ELSE {Zero})
    /\ published \subseteq Run
    /\ \A t \in tasks : t.run \in Run /\ t.job \in Plain
    /\ \A g \in given : g.run \in Run /\ g.req \in [RunField -> Value \cup {Zero}]

Init ==
    /\ gateway = "up"
    /\ pc = [c \in Call |-> "idle"]
    /\ request = [c \in Call |-> None] /\ autorun = {}
    /\ answer = [c \in Call |-> "none"] /\ result = [c \in Call |-> "none"]
    /\ rows = [c \in Call |-> None]
    /\ pushed = [p \in Push |-> None]
    /\ queue = {} /\ published = {}
    /\ tasks = {} /\ given = {}

-----------------------------------------------------------------------------
(* The gateway's handler and the scheduler's CreateJob behind it. *)

Goto(c, step) == pc' = [pc EXCEPT ![c] = step]
Returns(c, res) == Goto(c, "reply") /\ result' = [result EXCEPT ![c] = res]

Submit(c) ==
    /\ gateway = "up" /\ pc[c] = "idle"
    /\ \E req \in Requests : request' = [request EXCEPT ![c] = req]
    /\ autorun' \in {autorun, autorun \cup {c}}
    /\ Goto(c, "insert")
    /\ UNCHANGED <<gateway, answer, result, rows, pushed, queue, published, tasks, given>>

(* db.CreateJob of BuildJobFromProto: the row is the request as translated. *)
InsertJob(c) ==
    /\ pc[c] = "insert"
    /\ rows' = [rows EXCEPT ![c] = BuildJobProto(request[c])]
    /\ IF c \in autorun THEN Goto(c, "publish") /\ UNCHANGED result ELSE Returns(c, "ok")
    /\ UNCHANGED <<gateway, request, autorun, answer, pushed, queue, published, tasks, given>>

(* Mutated form: the error of the insertion is logged. *)
InsertJobErrLogged(c) ==
    /\ pc[c] = "insert"
    /\ IF c \in autorun THEN Goto(c, "publish") /\ UNCHANGED result ELSE Returns(c, "ok")
    /\ UNCHANGED <<gateway, request, autorun, answer, rows, pushed, queue, published, tasks, given>>

(* Any of the requests of CreateJob up to this one fails, or only the answer to
   the insertion is lost. *)
InsertJobErr(c) ==
    /\ pc[c] = "insert"
    /\ rows' \in {rows, [rows EXCEPT ![c] = BuildJobProto(request[c])]}
    /\ Returns(c, "error")
    /\ UNCHANGED <<gateway, request, autorun, answer, pushed, queue, published, tasks, given>>

(* Publishes are not confirmed: a message may be lost behind a nil error. *)
Enqueue(r, job, ops) ==
    /\ queue' \in {queue, queue \cup {[run |-> r, job |-> job, body |-> Encode(ops)]}}
    /\ published' = published \cup {r}

PublishJob(c) ==
    /\ pc[c] = "publish"
    /\ Enqueue(c, c, NoOverrides)
    /\ Returns(c, "ok")
    /\ UNCHANGED <<gateway, request, autorun, answer, rows, pushed, tasks, given>>

(* Mutated form: the error of the publish is logged and the job reported. *)
PublishJobErrLogged(c) ==
    /\ pc[c] = "publish"
    /\ Returns(c, "ok")
    /\ UNCHANGED <<gateway, request, autorun, answer, rows, pushed, queue, published, tasks, given>>

(* The connection fails before or after the message has left. *)
PublishJobErr(c) ==
    /\ pc[c] = "publish"
    /\ Enqueue(c, c, NoOverrides) \/ UNCHANGED <<queue, published>>
    /\ Returns(c, "error")
    /\ UNCHANGED <<gateway, request, autorun, answer, rows, pushed, tasks, given>>

(* 202 with the job's id, or 400. *)
Reply(c) ==
    /\ gateway # "down" /\ pc[c] = "reply" /\ answer[c] = "none"
    /\ answer' = [answer EXCEPT ![c] = IF result[c] = "ok" THEN "accepted" ELSE "rejected"]
    /\ Goto(c, "done")
    /\ UNCHANGED <<gateway, request, autorun, result, rows, pushed, queue, published, tasks, given>>

(* The client of the scheduler is closed under a call that is still running: the
   handler answers 400 whatever becomes of the call. *)
CallCancelled(c) ==
    /\ gateway = "closed"
    /\ pc[c] # "idle" /\ answer[c] = "none"
    /\ answer' = [answer EXCEPT ![c] = "rejected"]
    /\ UNCHANGED <<gateway, pc, request, autorun, result, rows, pushed, queue, published, tasks, given>>

(* SIGTERM: no new request; handlers get five seconds. *)
GatewaySigterm ==
    /\ gateway = "up"
    /\ gateway' = "stopping"
    /\ UNCHANGED <<pc, request, autorun, answer, result, rows, pushed, queue, published, tasks, given>>

(* Shutdown has returned, in time or not, and main closes the clients. *)
GatewayCloses ==
    /\ gateway = "stopping"
    /\ gateway' = "closed"
    /\ UNCHANGED <<pc, request, autorun, answer, result, rows, pushed, queue, published, tasks, given>>

GatewayExits ==
    /\ gateway = "closed"
    /\ gateway' = "down"
    /\ UNCHANGED <<pc, request, autorun, answer, result, rows, pushed, queue, published, tasks, given>>

-----------------------------------------------------------------------------
(* The dispatcher. *)

(* RunJob, with the id a submitter was given. *)
RunJob(p) ==
    /\ pushed[p] = None
    /\ \E c \in Call, ops \in Overrides :
        /\ answer[c] = "accepted"
        /\ pushed' = [pushed EXCEPT ![p] = [job |-> c, ops |-> ops]]
        /\ Enqueue(p, c, BuildOverrides(ops))
    /\ UNCHANGED <<gatewayVars, rows, tasks, given>>

(* Mutated form: the loaded row is saved with the overrides in it. *)
LoadJobSaves(m) ==
    /\ LET job == ApplyOverrides(rows[m.job], Decode(m.body))
       IN /\ tasks' = tasks \cup {[run |-> m.run, job |-> job]}
          /\ rows' = [rows EXCEPT ![m.job] = job]
    /\ UNCHANGED <<gatewayVars, pushed, queue, published, given>>

(* GetJobForExecution, and ApplyOverrides on what it returned. Any number of tasks
   may handle one message; those that have loaded the same are one element. *)
LoadJob(m) ==
    /\ tasks' = tasks \cup
                  {[run |-> m.run, job |-> ApplyOverrides(rows[m.job], Decode(m.body))]}
    /\ UNCHANGED <<gatewayVars, rows, pushed, queue, published, given>>

(* The consumer hands the message to a goroutine and acknowledges it, or the
   process ends before that and the message stays. *)
TakeJob(m) ==
    /\ m \in queue
    /\ LoadJob(m)

Acknowledged(m) ==
    /\ m \in queue
    /\ \E t \in tasks : t.run = m.run
    /\ queue' = queue \ {m}
    /\ UNCHANGED <<gatewayVars, rows, pushed, published, tasks, given>>

CallRuntime(t) ==
    /\ t \in tasks
    /\ given' = given \cup {[run |-> t.run, req |-> RunRequest(t.job)]}
    /\ tasks' = tasks \ {t}
    /\ UNCHANGED <<gatewayVars, rows, pushed, queue, published>>

(* executeJob returns on an error before it has called the runtime, or its
   process ends. *)
TaskEnds(t) ==
    /\ t \in tasks
    /\ tasks' = tasks \ {t}
    /\ UNCHANGED <<gatewayVars, rows, pushed, queue, published, given>>

-----------------------------------------------------------------------------
Next ==
    \/ \E c \in Call :
        \/ Submit(c) \/ InsertJob(c) \/ InsertJobErr(c)
        \/ PublishJob(c) \/ PublishJobErr(c) \/ Reply(c) \/ CallCancelled(c)
    \/ GatewaySigterm \/ GatewayCloses \/ GatewayExits
    \/ \E p \in Push : RunJob(p)
    \/ \E m \in queue : TakeJob(m) \/ Acknowledged(m)
    \/ \E t \in tasks : CallRuntime(t) \/ TaskEnds(t)

Spec == Init /\ [][Next]_vars

-----------------------------------------------------------------------------
JobOf(r) == IF r \in Call THEN r ELSE pushed[r].job
OpsOf(r) == IF r \in Call THEN NoOverrides ELSE pushed[r].ops

(* What the two clients said of a field: the push where it says something, else
   the submission. *)
PushSays(r, f) == OpsOf(r)[f] # Absent /\ (f \in Slice => OpsOf(r)[f] # Zero)
Says(r, f) == PushSays(r, f) \/ request[JobOf(r)][f] # Absent
Asked(r, f) == IF PushSays(r, f) THEN OpsOf(r)[f] ELSE request[JobOf(r)][f]

(* Every run is given what was asked for it, in every field that was given,
   through the five translations on the way: explicit zeros survive, and no run
   sees what another one overrode, whichever of them is loaded or delivered
   again first. *)
RunsAsAsked ==
    \A g \in given : \A f \in RunField : Says(g.run, f) => g.req[f] = Asked(g.run, f)

(* openapi.yml: timeout_seconds has a default, which a run gets for which nobody
   named a timeout. *)
TimeoutDefaults ==
    \A g \in given : ~Says(g.run, "timeout_seconds") => g.req["timeout_seconds"] = DefaultTimeout

(* Overrides are for one run: a stored job never changes. *)
RowsKeepSubmission ==
    [][\A c \in Call : rows[c] # None => rows'[c] = rows[c]]_vars

(* 202 means done: the job is stored, and its message published if it asked for
   a run, also while the gateway is stopping. (400 does not mean the opposite.) *)
AcceptedIsDone ==
    \A c \in Call : answer[c] = "accepted" =>
        rows[c] # None /\ (c \in autorun => c \in published)

Answer ==
    [c \in Call |-> IF pc[c] = "idle" THEN "none"
                    ELSE IF result[c] = "none" THEN "asked" ELSE result[c]]

(* The CreateJob of this module, its last two writes, and the one of Scheduler
   promise the same. *)
Intake == INSTANCE JobIntake
            WITH answer <- Answer, wants <- autorun,
                 stored <- { c \in Call : rows[c] # None }, sent <- published \cap Call
ImplementsIntake == Intake!Safe
=============================================================================
