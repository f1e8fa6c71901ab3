------------------------------ MODULE Runtime ------------------------------
(***************************************************************************)
(* The runtime service (services/runtime), the process inside a worker     *)
(* pod: the Run handler enters an execution into the map, a goroutine      *)
(* starts the user process and waits for it, and one heartbeat loop walks  *)
(* the map under the read lock and reports what is running.                *)
(*                                                                         *)
(* The user process, the caller of Run, the dispatcher at the other end of *)
(* the heartbeat stream and the clock are the environment.                 *)
(***************************************************************************)
EXTENDS Integers

CONSTANTS
    Exec,           \* execution ids, one per Run call
    HasEntrypoint,  \* the calls whose request carries a non-empty entrypoint
    TimeoutTenths,  \* their timeout_seconds (a float), in tenths of a second
    Faults,         \* whether callers may vanish and the process be killed
    NoExec          \* no execution

ASSUME RuntimeAssumption ==
    /\ HasEntrypoint \subseteq Exec
    /\ TimeoutTenths \in [Exec -> Int]
    /\ Faults \in BOOLEAN
    /\ NoExec \notin Exec

VARIABLES
    up,         \* the process runs
    stopping,   \* its context has been cancelled by SIGINT or SIGTERM
    rpc,        \* each Run call: "none", "called", "over" (handler returned)
    cancelled,  \* the calls whose context is cancelled
    executions, \* the map g.executions, by id
    status,     \* exec.Status, kept after the entry has gone
    pc,         \* where the goroutine g.execute of each execution is
    expired,    \* executions whose timeout has fired
    proc,       \* the user process: "none", "alive", "ok" (exit 0) or "err"
    sig,        \* the strongest signal sent to it: "none", "term", "kill"
    done,       \* the channel done: "empty" or what cmd.Wait returned
    rlock,      \* the heartbeat loop holds g.mu for reading
    hb,         \* heartbeat loop: "connect", "select", "iterate", "send",
                \* "sleep" or "off"
    todo,       \* entries its range loop has not visited
    hbExec      \* the entry it is sending

callVars == <<rpc, cancelled>>
execVars == <<executions, status, pc>>
userVars == <<expired, proc, sig, done>>
hbVars   == <<rlock, hb, todo, hbExec>>
vars     == <<up, stopping, callVars, execVars, userVars, hbVars>>

(* A goroutine in "panic" is about to run its deferred delete, one in "dying" has. *)
Live == {"begin", "start", "wait", "term", "cleanup", "panic", "dying"}

TypeOK ==
    /\ up \in BOOLEAN /\ stopping \in BOOLEAN
    /\ rpc \in [Exec -> {"none", "called", "over"}]
    /\ cancelled \subseteq Exec
    /\ executions \subseteq Exec
    /\ status \in [Exec -> {"none", "pending", "running", "succeeded", "failed"}]
    /\ pc \in [Exec -> {"none", "done"} \cup Live]
    /\ expired \subseteq Exec
    /\ proc \in [Exec -> {"none", "alive", "ok", "err"}]
    /\ sig \in [Exec -> {"none", "term", "kill"}]
    /\ done \in [Exec -> {"empty", "ok", "err"}]
    /\ rlock \in BOOLEAN
    /\ hb \in {"connect", "select", "iterate", "send", "sleep", "off"}
    /\ todo \subseteq Exec
    /\ hbExec \in Exec \cup {NoExec}

Init ==
    /\ up = TRUE /\ stopping = FALSE
    /\ rpc = [e \in Exec |-> "none"] /\ cancelled = {}
    /\ executions = {}
    /\ status = [e \in Exec |-> "none"]
    /\ pc = [e \in Exec |-> "none"]
    /\ expired = {}
    /\ proc = [e \in Exec |-> "none"]
    /\ sig = [e \in Exec |-> "none"]
    /\ done = [e \in Exec |-> "empty"]
    /\ rlock = FALSE /\ hb = "connect" /\ todo = {} /\ hbExec = NoExec

-----------------------------------------------------------------------------
(* The Run handler. *)

RunCall(e) ==
    /\ up /\ ~stopping
    /\ rpc[e] = "none"
    /\ rpc' = [rpc EXCEPT ![e] = "called"]
    /\ UNCHANGED <<up, stopping, cancelled, execVars, userVars, hbVars>>

(* The caller gives up, or its connection is lost. *)
ClientGone(e) ==
    /\ Faults
    /\ rpc[e] = "called"
    /\ cancelled' = cancelled \cup {e}
    /\ UNCHANGED <<up, stopping, rpc, execVars, userVars, hbVars>>

(* Lock, insert, unlock, `go g.execute(ctx, ...)`, return. *)
RunInsert(e) ==
    /\ up /\ rpc[e] = "called"
    /\ ~rlock
    /\ executions' = executions \cup {e}
    /\ status' = [status EXCEPT ![e] = "pending"]
    /\ pc' = [pc EXCEPT ![e] = "begin"]
    /\ rpc' = [rpc EXCEPT ![e] = "over"]
    /\ UNCHANGED <<up, stopping, cancelled, userVars, hbVars>>

(* gRPC cancels the context of a unary call once its handler has returned; it
   is the context the execution's goroutine keeps using. *)
RpcEnds(e) ==
    /\ rpc[e] = "over"
    /\ e \notin cancelled
    /\ cancelled' = cancelled \cup {e}
    /\ UNCHANGED <<up, stopping, rpc, execVars, userVars, hbVars>>

-----------------------------------------------------------------------------
(* g.execute. *)

Goto(e, step) == pc' = [pc EXCEPT ![e] = step]
SetStatus(e, s) == status' = [status EXCEPT ![e] = s]

Begin(e) ==
    /\ pc[e] = "begin"
    /\ SetStatus(e, "running")
    /\ Goto(e, "start")
    /\ UNCHANGED <<up, stopping, callVars, executions, userVars, hbVars>>

(* Mutated form: the early return comes before the delete is deferred. *)
StartFailsUnremoved(e) ==
    /\ pc[e] = "start" /\ e \in HasEntrypoint
    /\ SetStatus(e, "failed")
    /\ Goto(e, "done")
    /\ UNCHANGED <<up, stopping, callVars, executions, userVars, hbVars>>

StartFails(e) ==
    /\ pc[e] = "start" /\ e \in HasEntrypoint
    /\ SetStatus(e, "failed")
    /\ Goto(e, "cleanup")
    /\ UNCHANGED <<up, stopping, callVars, executions, userVars, hbVars>>

(* The process runs; a second goroutine is in cmd.Wait. *)
StartProcess(e) ==
    /\ pc[e] = "start" /\ e \in HasEntrypoint
    /\ proc' = [proc EXCEPT ![e] = "alive"]
    /\ Goto(e, "wait")
    /\ UNCHANGED <<up, stopping, callVars, executions, status, expired, sig, done, hbVars>>

(* time.Duration(req.TimeoutSeconds) truncates the float before it is scaled:
   a timeout below one second, like a missing one, is none at all. *)
Timeout(e) == TimeoutTenths[e] \div 10

TimerFires(e) ==
    /\ pc[e] = "wait" /\ Timeout(e) > 0
    /\ e \notin expired
    /\ expired' = expired \cup {e}
    /\ UNCHANGED <<up, stopping, callVars, execVars, proc, sig, done, hbVars>>

(* Mutated form: the outcome of the wait is stored as it is. *)
ProcessDoneRaw(e) ==
    /\ pc[e] = "wait" /\ done[e] # "empty"
    /\ SetStatus(e, done[e])
    /\ Goto(e, "cleanup")
    /\ UNCHANGED <<up, stopping, callVars, executions, userVars, hbVars>>

(* select: the process has been waited for ... *)
ProcessDone(e) ==
    /\ pc[e] = "wait" /\ done[e] # "empty"
    /\ SetStatus(e, IF done[e] = "ok" THEN "succeeded" ELSE "failed")
    /\ Goto(e, "cleanup")
    /\ UNCHANGED <<up, stopping, callVars, executions, userVars, hbVars>>

(* ... or the context is done; when both are ready Go picks either. *)
ContextDone(e) ==
    /\ pc[e] = "wait"
    /\ e \in cancelled \cup expired
    /\ sig' = IF proc[e] = "alive" THEN [sig EXCEPT ![e] = "term"] ELSE sig
    /\ Goto(e, "term")
    /\ UNCHANGED <<up, stopping, callVars, executions, status, expired, proc, done, hbVars>>

(* Mutated form: a process that exits with 0 on SIGTERM counts as a success. *)
TermDoneBelievesExit(e) ==
    /\ pc[e] = "term" /\ done[e] # "empty"
    /\ SetStatus(e, IF done[e] = "ok" THEN "succeeded" ELSE "failed")
    /\ Goto(e, "cleanup")
    /\ UNCHANGED <<up, stopping, callVars, executions, userVars, hbVars>>

TermDone(e) ==
    /\ pc[e] = "term" /\ done[e] # "empty"
    /\ SetStatus(e, "failed")
    /\ Goto(e, "cleanup")
    /\ UNCHANGED <<up, stopping, callVars, executions, userVars, hbVars>>

(* Mutated form: after the grace period the process is left to itself. *)
TermKillForgotten(e) ==
    /\ pc[e] = "term"
    /\ SetStatus(e, "failed")
    /\ Goto(e, "cleanup")
    /\ UNCHANGED <<up, stopping, callVars, executions, userVars, hbVars>>

(* Ten seconds later: SIGKILL, and no further wait. *)
TermKill(e) ==
    /\ pc[e] = "term"
    /\ sig' = IF proc[e] = "alive" THEN [sig EXCEPT ![e] = "kill"] ELSE sig
    /\ SetStatus(e, "failed")
    /\ Goto(e, "cleanup")
    /\ UNCHANGED <<up, stopping, callVars, executions, expired, proc, done, hbVars>>

(* startProcess indexes the entrypoint before it looks at its length. *)
StartPanics(e) ==
    /\ pc[e] = "start" /\ e \notin HasEntrypoint
    /\ Goto(e, "panic")
    /\ UNCHANGED <<up, stopping, callVars, executions, status, userVars, hbVars>>

(* Mutated form: the entry is deleted without the write lock. *)
CleanupUnlocked(e) ==
    /\ pc[e] \in {"cleanup", "panic"}
    /\ executions' = executions \ {e}
    /\ Goto(e, IF pc[e] = "panic" THEN "dying" ELSE "done")
    /\ UNCHANGED <<up, stopping, callVars, status, userVars, hbVars>>

(* The deferred delete, under the write lock. It runs on every return and before
   a panic ends the process. *)
Cleanup(e) ==
    /\ pc[e] \in {"cleanup", "panic"}
    /\ ~rlock
    /\ executions' = executions \ {e}
    /\ Goto(e, IF pc[e] = "panic" THEN "dying" ELSE "done")
    /\ UNCHANGED <<up, stopping, callVars, status, userVars, hbVars>>

-----------------------------------------------------------------------------
(* The user process. It need not ever exit on its own, nor obey SIGTERM. *)

ProcessExits(e) ==
    /\ proc[e] = "alive" /\ sig[e] # "kill"
    /\ \E code \in {"ok", "err"} : proc' = [proc EXCEPT ![e] = code]
    /\ UNCHANGED <<up, stopping, callVars, execVars, expired, sig, done, hbVars>>

ProcessKilled(e) ==
    /\ proc[e] = "alive" /\ sig[e] = "kill"
    /\ proc' = [proc EXCEPT ![e] = "err"]
    /\ UNCHANGED <<up, stopping, callVars, execVars, expired, sig, done, hbVars>>

(* done <- cmd.Wait(): the channel has room for it, read or not. *)
WaitReturns(e) ==
    /\ up
    /\ proc[e] \in {"ok", "err"} /\ done[e] = "empty"
    /\ done' = [done EXCEPT ![e] = proc[e]]
    /\ UNCHANGED <<up, stopping, callVars, execVars, expired, proc, sig, hbVars>>

-----------------------------------------------------------------------------
(* startHeartbeatLoop and heartbeatLoop. *)

HbConnect ==
    /\ up /\ hb = "connect"
    /\ hb' \in IF stopping THEN {"off"} ELSE {"select", "sleep"}
    /\ UNCHANGED <<up, stopping, callVars, execVars, userVars, rlock, todo, hbExec>>

(* After time.Sleep(5 * time.Second). *)
HbReconnect ==
    /\ up /\ hb = "sleep"
    /\ hb' = "connect"
    /\ UNCHANGED <<up, stopping, callVars, execVars, userVars, rlock, todo, hbExec>>

HbTick ==
    /\ up /\ hb = "select"
    /\ hb' = "iterate"
    /\ rlock' = TRUE
    /\ todo' = executions
    /\ UNCHANGED <<up, stopping, callVars, execVars, userVars, hbExec>>

HbContextDone ==
    /\ up /\ hb = "select" /\ stopping
    /\ hb' = "sleep"
    /\ UNCHANGED <<up, stopping, callVars, execVars, userVars, rlock, todo, hbExec>>

(* The first load of exec.Status decides whether the entry is reported ... *)
HbVisit(e) ==
    /\ hb = "iterate" /\ e \in todo
    /\ todo' = todo \ {e}
    /\ IF status[e] = "running"
         THEN hb' = "send" /\ hbExec' = e
         ELSE UNCHANGED <<hb, hbExec>>
    /\ UNCHANGED <<up, stopping, callVars, execVars, userVars, rlock>>

(* ... and Send is called with the lock still held. *)
HbSend ==
    /\ hb = "send"
    /\ hb' = "iterate" /\ hbExec' = NoExec
    /\ UNCHANGED <<up, stopping, callVars, execVars, userVars, rlock, todo>>

(* Mutated form: the error return misses its RUnlock. *)
HbSendFailsLocked ==
    /\ hb = "send"
    /\ hb' = "sleep" /\ hbExec' = NoExec /\ todo' = {}
    /\ UNCHANGED <<up, stopping, callVars, execVars, userVars, rlock>>

HbSendFails ==
    /\ hb = "send"
    /\ hb' = "sleep" /\ hbExec' = NoExec /\ todo' = {}
    /\ rlock' = FALSE
    /\ UNCHANGED <<up, stopping, callVars, execVars, userVars>>

HbIterated ==
    /\ hb = "iterate" /\ todo = {}
    /\ hb' = "select"
    /\ rlock' = FALSE
    /\ UNCHANGED <<up, stopping, callVars, execVars, userVars, todo, hbExec>>

-----------------------------------------------------------------------------
(* The process of the runtime. Its end takes the goroutines and, as it is the
   first process of the container, the user processes with it. *)

ProcessEnds ==
    /\ up' = FALSE /\ stopping' = FALSE
    /\ rpc' = [e \in Exec |-> IF rpc[e] = "called" THEN "over" ELSE rpc[e]]
    /\ cancelled' = cancelled \cup { e \in Exec : rpc[e] # "none" }
    /\ executions' = {}
    /\ pc' = [e \in Exec |-> IF pc[e] \in Live THEN "done" ELSE pc[e]]
    /\ proc' = [e \in Exec |-> IF proc[e] = "alive" THEN "err" ELSE proc[e]]
    /\ rlock' = FALSE /\ hb' = "off" /\ todo' = {} /\ hbExec' = NoExec
    /\ UNCHANGED <<status, expired, sig, done>>

(* No goroutine recovers: once the deferred functions have run, the panic ends
   the process. *)
PanicEnds(e) == pc[e] = "dying" /\ ProcessEnds

Crash == Faults /\ up /\ ProcessEnds

Sigterm ==
    /\ up /\ ~stopping
    /\ stopping' = TRUE
    /\ UNCHANGED <<up, callVars, execVars, userVars, hbVars>>

(* GracefulStop waits for Run handlers, not for the executions they started. *)
MainReturns ==
    /\ up /\ stopping
    /\ \A e \in Exec : rpc[e] # "called"
    /\ ProcessEnds

Restart ==
    /\ ~up
    /\ up' = TRUE /\ hb' = "connect"
    /\ UNCHANGED <<stopping, callVars, execVars, userVars, rlock, todo, hbExec>>

-----------------------------------------------------------------------------
Execute(e) ==
    \/ Begin(e) \/ StartFails(e) \/ StartProcess(e) \/ StartPanics(e)
    \/ PanicEnds(e) \/ ProcessDone(e) \/ ContextDone(e) \/ TermDone(e) \/ TermKill(e)

Heartbeats ==
    \/ (\E e \in Exec : HbVisit(e)) \/ HbSend \/ HbSendFails \/ HbIterated

Next ==
    \/ \E e \in Exec :
        \/ RunCall(e) \/ ClientGone(e) \/ RunInsert(e) \/ RpcEnds(e)
        \/ Execute(e) \/ Cleanup(e)
        \/ TimerFires(e) \/ ProcessExits(e) \/ ProcessKilled(e) \/ WaitReturns(e)
    \/ Heartbeats \/ HbConnect \/ HbReconnect \/ HbTick \/ HbContextDone
    \/ Crash \/ Sigterm \/ MainReturns \/ Restart

Spec == Init /\ [][Next]_vars

(* Goroutines run, gRPC cancels a finished call's context, SIGKILL works, the
   ten seconds pass, and a Send in progress returns. A sync.RWMutex lets no new
   reader in while a writer waits, so a writer that is ready again and again
   gets the lock: strong fairness. Nothing is assumed of the user process, of
   the timeout or of the dispatcher. *)
Fairness ==
    /\ \A e \in Exec :
        /\ SF_vars(RunInsert(e)) /\ SF_vars(Cleanup(e))
        /\ WF_vars(RpcEnds(e)) /\ WF_vars(Execute(e))
        /\ WF_vars(ProcessKilled(e)) /\ WF_vars(WaitReturns(e))
    /\ WF_vars(Heartbeats)

FairSpec == Spec /\ Fairness

-----------------------------------------------------------------------------
(* A success is genuine: the process exited with 0 and nothing had signalled
   it, however its exit races with the timeout and the end of the call. *)
SucceededIsGenuine ==
    \A e \in Exec : status[e] = "succeeded" => proc[e] = "ok" /\ sig[e] = "none"

(* No user process is left behind: one that still runs has a goroutine that
   will deal with it and an entry the heartbeats report, or has been sent
   SIGKILL (the one path that does not wait for the exit). *)
ProcessAttended ==
    \A e \in Exec : proc[e] = "alive" /\ sig[e] # "kill" =>
        e \in executions /\ pc[e] \in {"wait", "term"}

(* The map the heartbeat loop ranges over loses no entry under it: it never
   reports an execution that has been removed. *)
IterationStable ==
    rlock => /\ todo \subseteq executions
             /\ hb = "send" => hbExec \in executions

(* The heartbeat loop cannot lock the Run handler out: every call returns,
   whatever happens to the stream. *)
RunReturns == \A e \in Exec : rpc[e] = "called" ~> rpc[e] = "over"

Ledger ==
    [e \in Exec |-> IF e \in executions THEN status[e]
                    ELSE IF pc[e] \in {"dying", "done"} THEN "gone" ELSE "absent"]

Dying == \E e \in Exec : pc[e] = "dying"

(* The runtime keeps the promise of ExecutionLifecycle: pending, running, one
   final status, removal; and every entry is removed, even if its process
   never exits on its own and no timeout was set. Only an execution without an
   entrypoint leaves without a final status, and takes the runtime with it. *)
Lifecycle == INSTANCE ExecutionLifecycle
               WITH state <- Ledger, broken <- Dying, Panics <- Exec \ HasEntrypoint
ImplementsLifecycle == Lifecycle!Spec

(* openapi.yml, timeout_seconds: an execution is given the time it asks for.
   Only a timeout that has fired makes the runtime signal the process. *)
SignalledOnlyOnTimeout ==
    \A e \in Exec : sig[e] # "none" => e \in expired

(* openapi.yml requires only image and payload of a job: whatever a request
   leaves out, an entry leaves the map with its final status unless the runtime
   is being stopped. *)
EntriesEndOnTheirOwn ==
    [][\A e \in executions \ executions' :
        stopping \/ status[e] \in {"succeeded", "failed"}]_vars
=============================================================================
