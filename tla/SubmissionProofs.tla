-------------------------- MODULE SubmissionProofs --------------------------
(***************************************************************************)
(* The properties of Submission, for every set of submissions, pushes,     *)
(* bodies and values.                                                      *)
(***************************************************************************)
EXTENDS Submission, TLAPS

(* A row is the submission it came from, and the program counter knows
   whether there is one. *)
RowsAreRequests ==
    \A c \in Call :
        /\ pc[c] \in {"idle", "insert"} => rows[c] = None
        /\ pc[c] # "idle" => request[c] \in Requests
        /\ rows[c] # None => rows[c] = BuildJobProto(request[c])
        /\ pc[c] = "publish" => rows[c] # None

(* CreateJob has returned without error only when its effects are there. *)
ResultsHold ==
    \A c \in Call :
        /\ pc[c] \in {"idle", "insert", "publish"} => result[c] = "none"
        /\ result[c] = "ok" => rows[c] # None /\ (c \in autorun => c \in published)
        /\ answer[c] = "accepted" => result[c] = "ok"

(* What asked for the run is on record. *)
Requested(r) ==
    /\ r \in Run
    /\ r \in Push => pushed[r] # None
    /\ rows[JobOf(r)] # None

(* The job as it reaches executeJob after all translations. *)
Effective(r) ==
    ApplyOverrides(BuildJobProto(request[JobOf(r)]),
                   Decode(Encode(BuildOverrides(OpsOf(r)))))

PushesRequested == \A p \in Push : pushed[p] # None => Requested(p)

MessagesFaithful ==
    \A m \in queue :
        /\ Requested(m.run)
        /\ m.job = JobOf(m.run)
        /\ m.body = Encode(BuildOverrides(OpsOf(m.run)))

TasksFaithful == \A t \in tasks : Requested(t.run) /\ t.job = Effective(t.run)

GivenFaithful ==
    \A g \in given : Requested(g.run) /\ g.req = RunRequest(Effective(g.run))

Faithful == PushesRequested /\ MessagesFaithful /\ TasksFaithful /\ GivenFaithful

IInv == TypeOK /\ RowsAreRequests /\ ResultsHold /\ Faithful

-----------------------------------------------------------------------------
(* The translations. *)

(* What BuildJobProto makes of a submission is a row, never without payload. *)
LEMMA RowOfRequest ==
    ASSUME NEW req \in Requests
    PROVE  BuildJobProto(req) \in Plain /\ BuildJobProto(req)["payload"] \in Value
BY JobRequestAssumption, SubmissionAssumption
   DEF BuildJobProto, Marshal, Plain, Optional, Field, Slice, Number

(* The message carries the overrides of a push unharmed, and none for a
   submission. *)
LEMMA OverridesArrive ==
    ASSUME NEW ops \in Optional
    PROVE  Decode(Encode(BuildOverrides(ops))) = BuildOverrides(ops)
BY JobRequestAssumption DEF Decode, Encode, BuildOverrides, Given, Optional

LEMMA NoOverridesArrive ==
    NoOverrides \in Optional /\ BuildOverrides(NoOverrides) = NoOverrides
BY JobRequestAssumption DEF NoOverrides, BuildOverrides, Given, Optional

(* Applied to a row they are what Given counts as given, else the row. *)
LEMMA Applied ==
    ASSUME NEW job \in Plain, NEW ops \in Optional
    PROVE  LET j == ApplyOverrides(job, BuildOverrides(ops))
           IN  /\ j \in Plain
               /\ \A f \in Field : j[f] = IF f \in Given(ops) THEN ops[f] ELSE job[f]
BY JobRequestAssumption DEF ApplyOverrides, BuildOverrides, Given, Optional, Plain

(* The body of a message is well-typed. *)
LEMMA BodyTyped ==
    ASSUME NEW ops \in Optional
    PROVE  LET body == Encode(BuildOverrides(ops))
           IN  /\ DOMAIN body \subseteq Field
               /\ \A f \in DOMAIN body :
                    body[f] \in Value \cup (IF f \in Slice THEN {} ELSE {Zero})
BY JobRequestAssumption DEF Encode, BuildOverrides, Given, Optional

(* What a run asks for is known and stays as it is. *)
LEMMA RequestedTyped ==
    ASSUME IInv, NEW r \in Run, r \in Push => pushed[r] # None
    PROVE  JobOf(r) \in Call /\ OpsOf(r) \in Optional
<1>1. CASE r \in Call
  BY <1>1, NoOverridesArrive DEF JobOf, OpsOf
<1>2. CASE r \in Push
  BY <1>2, SubmissionAssumption DEF IInv, TypeOK, JobOf, OpsOf
<1>. QED
  BY <1>1, <1>2 DEF Run

LEMMA EffectiveTyped ==
    ASSUME IInv, NEW r, Requested(r)
    PROVE  /\ Effective(r) \in Plain
           /\ \A f \in Field :
                Effective(r)[f] = IF f \in Given(OpsOf(r)) THEN OpsOf(r)[f]
                                  ELSE rows[JobOf(r)][f]
<1>1. JobOf(r) \in Call /\ OpsOf(r) \in Optional
  BY RequestedTyped DEF Requested
<1>2. rows[JobOf(r)] = BuildJobProto(request[JobOf(r)]) /\ rows[JobOf(r)] \in Plain
  BY <1>1 DEF Requested, IInv, RowsAreRequests, TypeOK
<1>. QED
  BY <1>1, <1>2, OverridesArrive, Applied DEF Effective

(* The reference definition agrees with the translations, and what nobody gave
   has become the zero value. *)
LEMMA EffectiveIsAsked ==
    ASSUME IInv, NEW r, Requested(r), NEW f \in RunField
    PROVE  Effective(r)[f] = IF Says(r, f) THEN Asked(r, f)
                             ELSE IF f = "payload" THEN Null ELSE Zero
<1> DEFINE req == request[JobOf(r)]
<1>1. JobOf(r) \in Call /\ OpsOf(r) \in Optional
  BY RequestedTyped DEF Requested
<1>2. rows[JobOf(r)] = BuildJobProto(req) /\ f \in Field
  BY <1>1 DEF Requested, IInv, RowsAreRequests, RunField, Field, Slice, Number
<1>3. Effective(r)[f] = IF f \in Given(OpsOf(r)) THEN OpsOf(r)[f] ELSE BuildJobProto(req)[f]
  BY <1>2, EffectiveTyped
<1>4. BuildJobProto(req)[f] =
        IF req[f] # Absent THEN req[f] ELSE IF f = "payload" THEN Null ELSE Zero
  BY <1>2 DEF BuildJobProto, Marshal
<1>5. f \in Given(OpsOf(r)) <=> OpsOf(r)[f] # Absent /\ (f \in Slice => OpsOf(r)[f] # Zero)
  BY <1>2 DEF Given
<1>. QED
  BY <1>3, <1>4, <1>5 DEF Says, PushSays, Asked

(* Loading a job for a message yields the job as it was asked for. *)
LEMMA LoadIsEffective ==
    ASSUME IInv, NEW m \in queue, LoadJob(m)
    PROVE  tasks' = tasks \cup {[run |-> m.run, job |-> Effective(m.run)]}
<1>1. Requested(m.run) /\ m.job = JobOf(m.run) /\ m.body = Encode(BuildOverrides(OpsOf(m.run)))
  BY DEF IInv, Faithful, MessagesFaithful
<1>2. rows[m.job] = BuildJobProto(request[m.job])
  BY <1>1, RequestedTyped DEF IInv, RowsAreRequests, Requested
<1>. QED
  BY <1>1, <1>2 DEF LoadJob, Effective

(* The actions of a submission and the push are listed; the others change no
   row, request, result, push or publication. *)
LEMMA Frame ==
    ASSUME [Next]_vars
    PROVE  \/ \E c \in Call :
                \/ Submit(c) \/ InsertJob(c) \/ InsertJobErr(c)
                \/ PublishJob(c) \/ PublishJobErr(c) \/ Reply(c) \/ CallCancelled(c)
           \/ \E p \in Push : RunJob(p)
           \/ UNCHANGED <<pc, request, autorun, answer, result, rows, pushed, published>>
<1>1. CASE GatewaySigterm \/ GatewayCloses \/ GatewayExits \/ UNCHANGED vars
  BY <1>1 DEF GatewaySigterm, GatewayCloses, GatewayExits, vars, gatewayVars
<1>2. CASE \E m \in queue : TakeJob(m) \/ Acknowledged(m)
  BY <1>2 DEF TakeJob, LoadJob, Acknowledged, gatewayVars
<1>3. CASE \E t \in tasks : CallRuntime(t) \/ TaskEnds(t)
  BY <1>3 DEF CallRuntime, TaskEnds, gatewayVars
<1>. QED
  BY <1>1, <1>2, <1>3 DEF Next

-----------------------------------------------------------------------------
LEMMA InitInv == Init => IInv
<1>. SUFFICES ASSUME Init PROVE IInv
  OBVIOUS
<1>1. TypeOK
  BY DEF Init, TypeOK
<1>2. RowsAreRequests /\ ResultsHold
  BY DEF Init, RowsAreRequests, ResultsHold
<1>3. Faithful
  BY DEF Init, Faithful, PushesRequested, MessagesFaithful, TasksFaithful, GivenFaithful
<1>. QED
  BY <1>1, <1>2, <1>3 DEF IInv

LEMMA TypeStep == IInv /\ [Next]_vars => TypeOK'
<1>. SUFFICES ASSUME IInv, [Next]_vars PROVE TypeOK'
  OBVIOUS
<1>. USE SubmissionAssumption DEF IInv, TypeOK, gatewayVars, Goto, Returns
<1>1. ASSUME NEW c \in Call, Submit(c) PROVE TypeOK'
  BY <1>1 DEF Submit
<1>2. ASSUME NEW c \in Call, InsertJob(c) \/ InsertJobErr(c) PROVE TypeOK'
  <2>1. request[c] \in Requests
    BY <1>2 DEF InsertJob, InsertJobErr, RowsAreRequests
  <2>. QED
    BY <1>2, <2>1, RowOfRequest DEF InsertJob, InsertJobErr
<1>3. ASSUME NEW c \in Call, PublishJob(c) \/ PublishJobErr(c) PROVE TypeOK'
  <2> DEFINE body == Encode(NoOverrides)
  <2>1. /\ DOMAIN body \subseteq Field
        /\ \A f \in DOMAIN body : body[f] \in Value \cup (IF f \in Slice THEN {} ELSE {Zero})
    BY NoOverridesArrive, BodyTyped
  <2>. HIDE DEF body
  <2>2. /\ queue' \in {queue, queue \cup {[run |-> c, job |-> c, body |-> body]}}
        /\ published' \in {published, published \cup {c}}
    BY <1>3 DEF PublishJob, PublishJobErr, Enqueue, body
  <2>. QED
    BY <1>3, <2>1, <2>2 DEF PublishJob, PublishJobErr, Run
<1>4. ASSUME NEW c \in Call, Reply(c) \/ CallCancelled(c) PROVE TypeOK'
  BY <1>4 DEF Reply, CallCancelled
<1>5. CASE GatewaySigterm \/ GatewayCloses \/ GatewayExits
  BY <1>5 DEF GatewaySigterm, GatewayCloses, GatewayExits
<1>6. ASSUME NEW p \in Push, RunJob(p) PROVE TypeOK'
  <2>1. PICK c \in Call, ops \in Overrides :
            /\ pushed' = [pushed EXCEPT ![p] = [job |-> c, ops |-> ops]]
            /\ Enqueue(p, c, BuildOverrides(ops))
    BY <1>6 DEF RunJob
  <2> DEFINE body == Encode(BuildOverrides(ops))
  <2>2. /\ DOMAIN body \subseteq Field
        /\ \A f \in DOMAIN body : body[f] \in Value \cup (IF f \in Slice THEN {} ELSE {Zero})
    BY BodyTyped
  <2>. HIDE DEF body
  <2>3. /\ queue' \in {queue, queue \cup {[run |-> p, job |-> c, body |-> body]}}
        /\ published' = published \cup {p}
    BY <2>1 DEF Enqueue, body
  <2>. QED
    BY <1>6, <2>1, <2>2, <2>3 DEF RunJob, Run
<1>7. ASSUME NEW m \in queue, TakeJob(m) PROVE TypeOK'
  <2>1. m.run \in Run /\ Effective(m.run) \in Plain
    BY EffectiveTyped DEF Faithful, MessagesFaithful
  <2>2. tasks' = tasks \cup {[run |-> m.run, job |-> Effective(m.run)]}
    BY <1>7, LoadIsEffective DEF TakeJob
  <2>. QED
    BY <1>7, <2>1, <2>2 DEF TakeJob, LoadJob
<1>8. ASSUME NEW m \in queue, Acknowledged(m) PROVE TypeOK'
  BY <1>8 DEF Acknowledged
<1>9. ASSUME NEW t \in tasks, CallRuntime(t) PROVE TypeOK'
  <2>1. t.run \in Run /\ RunRequest(t.job) \in [RunField -> Value \cup {Zero}]
    BY DEF RunRequest, Plain, RunField, Field, Slice, Number
  <2>. QED
    BY <1>9, <2>1 DEF CallRuntime
<1>10. ASSUME NEW t \in tasks, TaskEnds(t) PROVE TypeOK'
  BY <1>10 DEF TaskEnds
<1>11. CASE UNCHANGED vars
  BY <1>11 DEF vars
<1>. QED
  BY <1>1, <1>2, <1>3, <1>4, <1>5, <1>6, <1>7, <1>8, <1>9, <1>10, <1>11 DEF Next

LEMMA RowsStep == IInv /\ [Next]_vars => RowsAreRequests'
<1>. SUFFICES ASSUME IInv, [Next]_vars PROVE RowsAreRequests'
  OBVIOUS
<1>. USE DEF IInv, TypeOK, RowsAreRequests, gatewayVars, Goto, Returns
<1>1. ASSUME NEW c \in Call, Submit(c) PROVE RowsAreRequests'
  BY <1>1 DEF Submit
<1>2. ASSUME NEW c \in Call, InsertJob(c) \/ InsertJobErr(c) PROVE RowsAreRequests'
  <2>1. BuildJobProto(request[c]) # None
    BY <1>2, RowOfRequest, SubmissionAssumption DEF InsertJob, InsertJobErr
  <2>. QED
    BY <1>2, <2>1 DEF InsertJob, InsertJobErr
<1>3. ASSUME NEW c \in Call,
             PublishJob(c) \/ PublishJobErr(c) \/ Reply(c) \/ CallCancelled(c)
      PROVE  RowsAreRequests'
  BY <1>3 DEF PublishJob, PublishJobErr, Reply, CallCancelled
<1>4. CASE \E p \in Push : RunJob(p)
  BY <1>4 DEF RunJob
<1>5. CASE UNCHANGED <<pc, request, rows>>
  BY <1>5
<1>. QED
  BY <1>1, <1>2, <1>3, <1>4, <1>5, Frame

LEMMA ResultsStep == IInv /\ [Next]_vars => ResultsHold'
<1>. SUFFICES ASSUME IInv, [Next]_vars PROVE ResultsHold'
  OBVIOUS
<1>. USE DEF IInv, TypeOK, ResultsHold, gatewayVars, Goto, Returns
<1>1. ASSUME NEW c \in Call, Submit(c) PROVE ResultsHold'
  BY <1>1 DEF Submit
<1>2. ASSUME NEW c \in Call, InsertJob(c) \/ InsertJobErr(c) PROVE ResultsHold'
  <2>1. BuildJobProto(request[c]) # None
    BY <1>2, RowOfRequest, SubmissionAssumption DEF InsertJob, InsertJobErr, RowsAreRequests
  <2>. QED
    BY <1>2, <2>1 DEF InsertJob, InsertJobErr
<1>3. ASSUME NEW c \in Call, PublishJob(c) \/ PublishJobErr(c) PROVE ResultsHold'
  BY <1>3 DEF PublishJob, PublishJobErr, Enqueue, RowsAreRequests
<1>4. ASSUME NEW c \in Call, Reply(c) \/ CallCancelled(c) PROVE ResultsHold'
  BY <1>4 DEF Reply, CallCancelled
<1>5. ASSUME NEW p \in Push, RunJob(p) PROVE ResultsHold'
  BY <1>5 DEF RunJob, Enqueue
<1>6. CASE UNCHANGED <<pc, autorun, answer, result, rows, published>>
  BY <1>6
<1>. QED
  BY <1>1, <1>2, <1>3, <1>4, <1>5, <1>6, Frame

(* What has been asked for is not changed by any step: the request is fixed
   once there is a row, the row once it is there, a push once it is sent. *)
LEMMA RequestsStay ==
    ASSUME IInv, [Next]_vars, NEW r, Requested(r)
    PROVE  /\ Requested(r)' /\ Effective(r)' = Effective(r)
           /\ JobOf(r)' = JobOf(r) /\ OpsOf(r)' = OpsOf(r)
<1>1. JobOf(r) \in Call
  BY RequestedTyped DEF Requested
<1> DEFINE Kept ==
        /\ \A c \in Call : rows[c] # None => rows'[c] = rows[c] /\ request'[c] = request[c]
        /\ \A p \in Push : pushed[p] # None => pushed'[p] = pushed[p]
<1>2. Kept
  <2>. USE DEF IInv, TypeOK, RowsAreRequests, gatewayVars
  <2>1. ASSUME NEW c \in Call, \/ Submit(c) \/ InsertJob(c) \/ InsertJobErr(c) \/ PublishJob(c)
                               \/ PublishJobErr(c) \/ Reply(c) \/ CallCancelled(c)
        PROVE  Kept
    BY <2>1 DEF Submit, InsertJob, InsertJobErr, PublishJob, PublishJobErr, Reply, CallCancelled
  <2>2. ASSUME NEW p \in Push, RunJob(p) PROVE Kept
    BY <2>2 DEF RunJob
  <2>3. CASE UNCHANGED <<request, rows, pushed>>
    BY <2>3
  <2>. QED
    BY <2>1, <2>2, <2>3, Frame
<1>3. JobOf(r)' = JobOf(r) /\ OpsOf(r)' = OpsOf(r)
  BY <1>2 DEF Requested, JobOf, OpsOf, Run
<1>4. Requested(r)'
  BY <1>1, <1>2, <1>3 DEF Requested, Run
<1>. QED
  BY <1>1, <1>2, <1>3, <1>4 DEF Requested, Effective

(* A push names a job its client was told of, so the row is there. *)
LEMMA PushIsRequested ==
    ASSUME IInv, NEW p \in Push, RunJob(p)
    PROVE  Requested(p)'
<1>1. PICK c \in Call, ops \in Overrides :
          answer[c] = "accepted" /\ pushed' = [pushed EXCEPT ![p] = [job |-> c, ops |-> ops]]
  BY DEF RunJob
<1>2. pushed'[p] = [job |-> c, ops |-> ops] /\ pushed'[p] # None
  BY <1>1, SubmissionAssumption DEF IInv, TypeOK
<1>3. JobOf(p)' = c
  BY <1>2, SubmissionAssumption DEF JobOf
<1>4. rows'[c] # None
  BY <1>1 DEF RunJob, IInv, ResultsHold
<1>. QED
  BY <1>2, <1>3, <1>4 DEF Requested, Run

LEMMA PushesStep == IInv /\ [Next]_vars => PushesRequested'
<1>. SUFFICES ASSUME IInv, [Next]_vars, NEW p \in Push, pushed'[p] # None
              PROVE  Requested(p)'
  BY DEF PushesRequested
<1>1. CASE pushed[p] # None
  BY <1>1, RequestsStay DEF IInv, Faithful, PushesRequested
<1>2. CASE pushed[p] = None
  <2>1. RunJob(p)
    <3>1. CASE \E c \in Call :
                 \/ Submit(c) \/ InsertJob(c) \/ InsertJobErr(c)
                 \/ PublishJob(c) \/ PublishJobErr(c) \/ Reply(c) \/ CallCancelled(c)
      BY <1>2, <3>1 DEF Submit, InsertJob, InsertJobErr, PublishJob, PublishJobErr, Reply,
                        CallCancelled
    <3>2. ASSUME NEW q \in Push, RunJob(q), q # p PROVE FALSE
      BY <1>2, <3>2 DEF RunJob, IInv, TypeOK
    <3>. QED
      BY <1>2, <3>1, <3>2, Frame
  <2>. QED
    BY <1>2, <2>1, PushIsRequested
<1>. QED
  BY <1>1, <1>2

LEMMA MessagesStep == IInv /\ [Next]_vars => MessagesFaithful'
<1>. SUFFICES ASSUME IInv, [Next]_vars, NEW m \in queue'
              PROVE  /\ Requested(m.run)'
                     /\ m.job = JobOf(m.run)'
                     /\ m.body = Encode(BuildOverrides(OpsOf(m.run)'))
  BY DEF MessagesFaithful
<1>1. CASE m \in queue
  BY <1>1, RequestsStay DEF IInv, Faithful, MessagesFaithful
<1>2. ASSUME NEW c \in Call, PublishJob(c) \/ PublishJobErr(c), m \notin queue
      PROVE  /\ Requested(m.run)' /\ m.job = JobOf(m.run)'
             /\ m.body = Encode(BuildOverrides(OpsOf(m.run)'))
  <2>1. m = [run |-> c, job |-> c, body |-> Encode(NoOverrides)]
    BY <1>2 DEF PublishJob, PublishJobErr, Enqueue
  <2>2. Requested(c) /\ JobOf(c)' = c /\ OpsOf(c)' = NoOverrides
    BY <1>2, SubmissionAssumption
       DEF PublishJob, PublishJobErr, Requested, JobOf, OpsOf, Run, IInv, RowsAreRequests
  <2>. QED
    BY <2>1, <2>2, RequestsStay, NoOverridesArrive
<1>3. ASSUME NEW p \in Push, RunJob(p), m \notin queue
      PROVE  /\ Requested(m.run)' /\ m.job = JobOf(m.run)'
             /\ m.body = Encode(BuildOverrides(OpsOf(m.run)'))
  <2>1. PICK c \in Call, ops \in Overrides :
            /\ pushed' = [pushed EXCEPT ![p] = [job |-> c, ops |-> ops]]
            /\ Enqueue(p, c, BuildOverrides(ops))
    BY <1>3 DEF RunJob
  <2>2. m = [run |-> p, job |-> c, body |-> Encode(BuildOverrides(ops))]
    BY <1>3, <2>1 DEF Enqueue
  <2>3. JobOf(p)' = c /\ OpsOf(p)' = ops
    BY <2>1, SubmissionAssumption DEF JobOf, OpsOf, IInv, TypeOK
  <2>. QED
    BY <1>3, <2>2, <2>3, PushIsRequested
<1>4. \/ m \in queue
      \/ \E c \in Call : PublishJob(c) \/ PublishJobErr(c)
      \/ \E p \in Push : RunJob(p)
  BY DEF Next, Submit, InsertJob, InsertJobErr, Reply, CallCancelled,
         GatewaySigterm, GatewayCloses, GatewayExits, TakeJob, LoadJob, Acknowledged,
         CallRuntime, TaskEnds, vars
<1>. QED
  BY <1>1, <1>2, <1>3, <1>4

(* Tasks and calls of the runtime come from messages and tasks. *)
LEMMA RunsStep == IInv /\ [Next]_vars => TasksFaithful' /\ GivenFaithful'
<1>. SUFFICES ASSUME IInv, [Next]_vars PROVE TasksFaithful' /\ GivenFaithful'
  OBVIOUS
<1>1. CASE UNCHANGED <<tasks, given>>
  BY <1>1, RequestsStay DEF IInv, Faithful, TasksFaithful, GivenFaithful
<1>2. ASSUME NEW m \in queue, TakeJob(m) PROVE TasksFaithful' /\ GivenFaithful'
  <2>1. tasks' = tasks \cup {[run |-> m.run, job |-> Effective(m.run)]} /\ given' = given
    BY <1>2, LoadIsEffective DEF TakeJob, LoadJob
  <2>2. Requested(m.run)
    BY DEF IInv, Faithful, MessagesFaithful
  <2>. QED
    BY <2>1, <2>2, RequestsStay DEF IInv, Faithful, TasksFaithful, GivenFaithful
<1>3. ASSUME NEW t \in tasks, CallRuntime(t) PROVE TasksFaithful' /\ GivenFaithful'
  <2>1. Requested(t.run) /\ t.job = Effective(t.run)
    BY DEF IInv, Faithful, TasksFaithful
  <2>2. TasksFaithful'
    BY <1>3, RequestsStay DEF CallRuntime, IInv, Faithful, TasksFaithful
  <2>3. GivenFaithful'
    BY <1>3, <2>1, RequestsStay DEF CallRuntime, IInv, Faithful, GivenFaithful
  <2>. QED
    BY <2>2, <2>3
<1>4. ASSUME NEW t \in tasks, TaskEnds(t) PROVE TasksFaithful' /\ GivenFaithful'
  BY <1>4, RequestsStay DEF TaskEnds, IInv, Faithful, TasksFaithful, GivenFaithful
<1>5. \/ UNCHANGED <<tasks, given>>
      \/ \E m \in queue : TakeJob(m)
      \/ \E t \in tasks : CallRuntime(t) \/ TaskEnds(t)
  BY DEF Next, Submit, InsertJob, InsertJobErr, PublishJob, PublishJobErr, Reply,
         CallCancelled, GatewaySigterm, GatewayCloses, GatewayExits, RunJob, Acknowledged, vars
<1>. QED
  BY <1>1, <1>2, <1>3, <1>4, <1>5

-----------------------------------------------------------------------------
(* Every step of gateway, scheduler, queue and dispatcher keeps the invariant. *)
THEOREM Invariance == Spec => []IInv
<1>1. IInv /\ [Next]_vars => IInv'
  BY TypeStep, RowsStep, ResultsStep, PushesStep, MessagesStep, RunsStep DEF IInv, Faithful
<1>. QED
  BY <1>1, InitInv, PTL DEF Spec

(* Rows, messages, tasks and requests to runtimes are well-typed; no stored
   payload is empty. *)
THEOREM SubmissionTypeCorrect == Spec => []TypeOK
BY Invariance, PTL DEF IInv

(* What a run is given, field by field. *)
LEMMA GivenFields ==
    ASSUME IInv, NEW g \in given, NEW f \in RunField
    PROVE  g.req[f] = IF Says(g.run, f) THEN Asked(g.run, f)
                      ELSE IF f = "payload" THEN Null ELSE Zero
<1>1. Requested(g.run) /\ g.req[f] = Effective(g.run)[f]
  BY DEF IInv, Faithful, GivenFaithful, RunRequest
<1>. QED
  BY <1>1, EffectiveIsAsked

(* Through all translations, deliveries and redeliveries each run is given what
   its clients asked for, in every field they gave. *)
THEOREM RunsGetWhatWasAsked == Spec => []RunsAsAsked
<1>1. IInv => RunsAsAsked
  BY GivenFields DEF RunsAsAsked
<1>. QED
  BY <1>1, Invariance, PTL

(* Where nobody names a timeout the run has none: TimeoutDefaults fails of every
   such run, not of some, whatever openapi.yml's default is. *)
UnaskedHasNoTimeout ==
    \A g \in given :
        ~Says(g.run, "timeout_seconds") =>
            g.req["timeout_seconds"] = Zero /\ g.req["timeout_seconds"] # DefaultTimeout

(* BuildJobProto leaves timeout_seconds at zero and nothing after it fills it in. *)
THEOREM NoDefaultTimeout == Spec => []UnaskedHasNoTimeout
<1>1. IInv => UnaskedHasNoTimeout
  BY GivenFields, JobRequestAssumption, SubmissionAssumption DEF UnaskedHasNoTimeout, RunField
<1>. QED
  BY <1>1, Invariance, PTL

(* A client that reads 202 has a stored job, and a published message if it
   asked for a run. *)
THEOREM AcceptedMeansDone == Spec => []AcceptedIsDone
<1>1. IInv => AcceptedIsDone
  BY DEF IInv, ResultsHold, AcceptedIsDone
<1>. QED
  BY <1>1, Invariance, PTL

(* No run writes its overrides back: a stored job stays as it was submitted. *)
THEOREM RowsStay == Spec => RowsKeepSubmission
<1>1. IInv /\ [Next]_vars => [\A c \in Call : rows[c] # None => rows'[c] = rows[c]]_vars
  <2>. SUFFICES ASSUME IInv, [Next]_vars, NEW c \in Call, rows[c] # None
                PROVE  rows'[c] = rows[c]
    OBVIOUS
  <2>1. ASSUME NEW d \in Call, \/ Submit(d) \/ InsertJob(d) \/ InsertJobErr(d) \/ PublishJob(d)
                               \/ PublishJobErr(d) \/ Reply(d) \/ CallCancelled(d)
        PROVE  rows'[c] = rows[c]
    BY <2>1 DEF Submit, InsertJob, InsertJobErr, PublishJob, PublishJobErr, Reply,
                CallCancelled, IInv, TypeOK, RowsAreRequests
  <2>2. CASE \E p \in Push : RunJob(p)
    BY <2>2 DEF RunJob
  <2>. QED
    BY <2>1, <2>2, Frame
<1>. QED
  BY <1>1, Invariance, PTL DEF Spec, RowsKeepSubmission

-----------------------------------------------------------------------------
(* The refinement. *)

Stored == { c \in Call : rows[c] # None }
IntakeVars == <<Answer, autorun, Stored, published \cap Call>>

(* CreateJob returns: its caller is told so. *)
LEMMA ReturnShows ==
    ASSUME IInv, NEW c \in Call, NEW res \in {"ok", "error"},
           pc[c] \in {"insert", "publish"}, Returns(c, res)
    PROVE  Answer[c] = "asked" /\ Answer' = [Answer EXCEPT ![c] = res]
<1>1. /\ result[c] = "none"
      /\ \A d \in Call : /\ pc'[d] = IF d = c THEN "reply" ELSE pc[d]
                        /\ result'[d] = IF d = c THEN res ELSE result[d]
  BY DEF IInv, TypeOK, ResultsHold, Returns, Goto
<1>. QED
  BY <1>1 DEF Answer

(* An error of CreateJob without an effect. *)
LEMMA ErrorFails ==
    ASSUME IInv, NEW c \in Call, pc[c] \in {"insert", "publish"}, Returns(c, "error"),
           UNCHANGED <<autorun, rows>>, published' \cap Call = published \cap Call
    PROVE  Intake!Fail({c})
<1>1. Answer[c] = "asked" /\ Answer' = [Answer EXCEPT ![c] = "error"]
  BY ReturnShows
<1>2. Answer = [d \in Call |-> Answer[d]]
  BY DEF Answer
<1>. QED
  BY <1>1, <1>2 DEF Intake!Fail

LEMMA SubmitAsks ==
    ASSUME IInv, NEW c \in Call, Submit(c)
    PROVE  Intake!Ask(c)
<1>1. /\ pc[c] = "idle" /\ result[c] = "none" /\ UNCHANGED <<result, rows, published>>
      /\ \A d \in Call : pc'[d] = IF d = c THEN "insert" ELSE pc[d]
  BY DEF Submit, Goto, IInv, TypeOK, ResultsHold
<1>2. Answer[c] = "none" /\ Answer' = [Answer EXCEPT ![c] = "asked"]
  BY <1>1 DEF Answer
<1>. QED
  BY <1>1, <1>2 DEF Submit, Intake!Ask, Intake!Answers

LEMMA InsertStores ==
    ASSUME IInv, NEW c \in Call, InsertJob(c) \/ InsertJobErr(c)
    PROVE  Intake!Store(c) \/ Intake!Fail({c})
<1>1. BuildJobProto(request[c]) # None
  BY RowOfRequest, SubmissionAssumption DEF InsertJob, InsertJobErr, IInv, RowsAreRequests
<1>2. pc[c] = "insert" /\ Answer[c] = "asked" /\ UNCHANGED <<autorun, published>>
  BY DEF InsertJob, InsertJobErr, IInv, ResultsHold, Answer
<1>3. CASE rows' = [rows EXCEPT ![c] = BuildJobProto(request[c])]
  <2>1. Stored' = Stored \cup {c}
    BY <1>1, <1>3 DEF Stored, IInv, TypeOK
  <2>2. \/ Answer' = [Answer EXCEPT ![c] = IF c \in autorun THEN "asked" ELSE "ok"]
        \/ Answer' = [Answer EXCEPT ![c] = "error"]
    <3>1. CASE InsertJob(c) /\ c \in autorun
      <4>1. result' = result /\ \A d \in Call : pc'[d] = IF d = c THEN "publish" ELSE pc[d]
        BY <3>1 DEF InsertJob, Goto, IInv, TypeOK
      <4>. QED
        BY <1>2, <3>1, <4>1 DEF Answer
    <3>2. CASE InsertJob(c) /\ c \notin autorun
      BY <1>2, <3>2, ReturnShows DEF InsertJob
    <3>3. CASE InsertJobErr(c)
      BY <1>2, <3>3, ReturnShows DEF InsertJobErr
    <3>. QED
      BY <3>1, <3>2, <3>3
  <2>. QED
    BY <1>2, <2>1, <2>2 DEF Intake!Store, Intake!Answers, Stored
<1>4. CASE InsertJobErr(c) /\ rows' = rows
  BY <1>2, <1>4, ErrorFails DEF InsertJobErr
<1>. QED
  BY <1>3, <1>4 DEF InsertJob, InsertJobErr

LEMMA PublishSends ==
    ASSUME IInv, NEW c \in Call, PublishJob(c) \/ PublishJobErr(c), c \in autorun
    PROVE  Intake!Send(c) \/ Intake!Fail({c})
<1>1. /\ pc[c] = "publish" /\ c \in Stored /\ UNCHANGED <<autorun, rows>>
      /\ \E res \in {"ok", "error"} : Returns(c, res)
  BY DEF PublishJob, PublishJobErr, Stored, IInv, RowsAreRequests
<1>2. CASE published' = published \cup {c}
  <2>1. published' \cap Call = (published \cap Call) \cup {c}
    BY <1>2
  <2>2. /\ Answer[c] = "asked"
        /\ \/ Answer' = [Answer EXCEPT ![c] = "ok"]
           \/ Answer' = [Answer EXCEPT ![c] = "error"]
    BY <1>1, ReturnShows
  <2>. QED
    BY <1>1, <2>1, <2>2 DEF Intake!Send, Intake!Answers, Stored
<1>3. CASE PublishJobErr(c) /\ published' = published
  BY <1>1, <1>3, ErrorFails DEF PublishJobErr
<1>. QED
  BY <1>2, <1>3 DEF PublishJob, PublishJobErr, Enqueue

(* The gateway's answers and the dispatcher's half do not show. *)
LEMMA RestStutters ==
    ASSUME IInv,
           \/ \E c \in Call : Reply(c) \/ CallCancelled(c)
           \/ \E p \in Push : RunJob(p)
           \/ UNCHANGED <<pc, request, autorun, answer, result, rows, pushed, published>>
    PROVE  UNCHANGED IntakeVars
<1>1. CASE \E c \in Call : CallCancelled(c)
  BY <1>1 DEF CallCancelled, IntakeVars, Answer, Stored
<1>2. ASSUME NEW c \in Call, Reply(c) PROVE UNCHANGED IntakeVars
  <2>1. \A d \in Call : pc'[d] = "idle" <=> pc[d] = "idle"
    BY <1>2 DEF Reply, Goto, IInv, TypeOK
  <2>2. Answer' = Answer
    BY <1>2, <2>1 DEF Reply, Answer
  <2>. QED
    BY <1>2, <2>2 DEF Reply, IntakeVars, Stored
<1>3. ASSUME NEW p \in Push, RunJob(p) PROVE UNCHANGED IntakeVars
  <2>1. published' \cap Call = published \cap Call
    BY <1>3, SubmissionAssumption DEF RunJob, Enqueue
  <2>2. UNCHANGED <<Answer, autorun, Stored>>
    BY <1>3 DEF RunJob, gatewayVars, Answer, Stored
  <2>. QED
    BY <2>1, <2>2 DEF IntakeVars
<1>4. CASE UNCHANGED <<pc, request, autorun, answer, result, rows, pushed, published>>
  BY <1>4 DEF IntakeVars, Answer, Stored
<1>. QED
  BY <1>1, <1>2, <1>3, <1>4

(* Only a submission that asks for a run publishes. *)
PublishersAsked == \A c \in Call : pc[c] = "publish" => c \in autorun

LEMMA PublishersStep == IInv /\ PublishersAsked /\ [Next]_vars => PublishersAsked'
<1>. SUFFICES ASSUME IInv, PublishersAsked, [Next]_vars, NEW d \in Call, pc'[d] = "publish"
              PROVE  d \in autorun'
  BY DEF PublishersAsked
<1>. USE DEF IInv, TypeOK, PublishersAsked, Goto, Returns
<1>1. ASSUME NEW c \in Call, Submit(c) PROVE d \in autorun'
  BY <1>1 DEF Submit
<1>2. ASSUME NEW c \in Call, InsertJob(c) \/ InsertJobErr(c) PROVE d \in autorun'
  BY <1>2 DEF InsertJob, InsertJobErr
<1>3. ASSUME NEW c \in Call, PublishJob(c) \/ PublishJobErr(c) \/ Reply(c) \/ CallCancelled(c)
      PROVE  d \in autorun'
  BY <1>3 DEF PublishJob, PublishJobErr, Reply, CallCancelled
<1>4. CASE (\E p \in Push : RunJob(p)) \/ UNCHANGED <<pc, autorun>>
  BY <1>4 DEF RunJob, gatewayVars
<1>. QED
  BY <1>1, <1>2, <1>3, <1>4, Frame

(* The CreateJob that gateway and dispatcher see here keeps the promise that the
   scheduler's does: a stored job, then a message handed over, then "ok". *)
THEOREM SubmissionIsIntake == Spec => ImplementsIntake
<1>1. Init => Intake!Init /\ PublishersAsked
  BY DEF Init, Intake!Init, Answer, PublishersAsked
<1>2. IInv /\ PublishersAsked /\ [Next]_vars => [Intake!Next]_(Intake!vars)
  <2>. SUFFICES ASSUME IInv, PublishersAsked, [Next]_vars
                PROVE  Intake!Next \/ UNCHANGED IntakeVars
    BY DEF IntakeVars, Stored, Intake!vars
  <2>1. ASSUME NEW c \in Call,
               Submit(c) \/ InsertJob(c) \/ InsertJobErr(c) \/ PublishJob(c) \/ PublishJobErr(c)
        PROVE  Intake!Next
    <3>1. PublishJob(c) \/ PublishJobErr(c) => c \in autorun
      BY DEF PublishJob, PublishJobErr, PublishersAsked
    <3>. QED
      BY <2>1, <3>1, SubmitAsks, InsertStores, PublishSends DEF Intake!Next
  <2>. QED
    BY <2>1, RestStutters, Frame
<1>. QED
  BY <1>1, <1>2, PublishersStep, Invariance, PTL DEF Spec, ImplementsIntake, Intake!Safe
=============================================================================
