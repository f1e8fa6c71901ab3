---------------------------- MODULE RuntimeProofs ----------------------------
(***************************************************************************)
(* The safety properties of Runtime, and that its steps are steps of       *)
(* ExecutionLifecycle, for every set of executions and all timeouts.       *)
(***************************************************************************)
EXTENDS Runtime, TLAPS

(* The entry of an execution lives as long as its goroutine, which starts with
   the return of the handler; only a panic outlives the entry it has deleted. *)
EntriesAreLive ==
    \A e \in Exec :
        /\ e \in executions <=> pc[e] \in Live \ {"dying"}
        /\ rpc[e] # "over" => pc[e] = "none"

(* Where the goroutine is says what the status can be ... *)
StatusAt ==
    \A e \in Exec :
        /\ pc[e] = "none" => status[e] = "none"
        /\ pc[e] = "begin" => status[e] = "pending"
        /\ pc[e] \in {"start", "wait", "term", "panic", "dying"} => status[e] = "running"
        /\ pc[e] = "cleanup" => status[e] \in {"succeeded", "failed"}

(* ... and how far the user process can have come. *)
ProcessAt ==
    \A e \in Exec :
        /\ pc[e] \in {"none", "begin", "start", "panic", "dying"} => proc[e] = "none"
        /\ pc[e] \in {"none", "begin", "start", "panic", "dying", "wait"} => sig[e] = "none"
        /\ pc[e] \in {"cleanup", "done"} /\ proc[e] = "alive" => sig[e] = "kill"
        /\ sig[e] = "kill" => pc[e] \in {"cleanup", "done"}
        /\ done[e] # "empty" => proc[e] = done[e]

(* An execution panics if it has no entrypoint, and has a process only if it has one. *)
PanicAt ==
    \A e \in Exec :
        /\ pc[e] \in {"panic", "dying"} => e \notin HasEntrypoint
        /\ pc[e] \in {"wait", "term"} => e \in HasEntrypoint

(* The read lock is held from the tick to the end of the iteration, and there
   is no loop without a process. *)
LockHeld == (rlock <=> hb \in {"iterate", "send"}) /\ (up \/ hb = "off")

IInv ==
    /\ TypeOK /\ EntriesAreLive /\ StatusAt /\ ProcessAt /\ PanicAt /\ LockHeld
    /\ SucceededIsGenuine /\ IterationStable

-----------------------------------------------------------------------------
LEMMA InitInv == Init => IInv
<1>. SUFFICES ASSUME Init PROVE IInv
  OBVIOUS
<1>1. /\ up \in BOOLEAN /\ stopping \in BOOLEAN
      /\ cancelled \subseteq Exec /\ executions \subseteq Exec /\ expired \subseteq Exec
      /\ rlock \in BOOLEAN /\ todo \subseteq Exec /\ hbExec \in Exec \cup {NoExec}
      /\ hb \in {"connect", "select", "iterate", "send", "sleep", "off"}
  BY DEF Init
<1>2. /\ rpc \in [Exec -> {"none", "called", "over"}]
      /\ status \in [Exec -> {"none", "pending", "running", "succeeded", "failed"}]
  BY DEF Init
<1>3. pc \in [Exec -> {"none", "done"} \cup Live]
  BY DEF Init
<1>4. /\ proc \in [Exec -> {"none", "alive", "ok", "err"}]
      /\ sig \in [Exec -> {"none", "term", "kill"}]
      /\ done \in [Exec -> {"empty", "ok", "err"}]
  BY DEF Init
<1>5. TypeOK
  BY <1>1, <1>2, <1>3, <1>4 DEF TypeOK
<1>6. EntriesAreLive /\ StatusAt
  BY DEF Init, EntriesAreLive, StatusAt, Live
<1>7. ProcessAt /\ PanicAt
  BY DEF Init, ProcessAt, PanicAt
<1>8. LockHeld /\ SucceededIsGenuine /\ IterationStable
  BY DEF Init, LockHeld, SucceededIsGenuine, IterationStable
<1>. QED
  BY <1>5, <1>6, <1>7, <1>8 DEF IInv

(* The heartbeat loop leaves the executions alone. *)
LEMMA HeartbeatInv ==
    ASSUME IInv, \/ Heartbeats \/ HbConnect \/ HbReconnect \/ HbTick \/ HbContextDone
    PROVE  IInv'
<1>. USE DEF callVars, execVars, userVars
<1>1. UNCHANGED <<up, stopping, callVars, execVars, userVars>>
  BY DEF Heartbeats, HbVisit, HbSend, HbSendFails, HbIterated, HbConnect, HbReconnect, HbTick,
         HbContextDone
<1>2. TypeOK'
  BY <1>1 DEF IInv, TypeOK, Heartbeats, HbVisit, HbSend, HbSendFails, HbIterated, HbConnect,
              HbReconnect, HbTick, HbContextDone
<1>3. LockHeld' /\ IterationStable'
  BY <1>1 DEF IInv, LockHeld, IterationStable, Heartbeats, HbVisit, HbSend, HbSendFails,
              HbIterated, HbConnect, HbReconnect, HbTick, HbContextDone
<1>4. EntriesAreLive' /\ StatusAt' /\ ProcessAt' /\ PanicAt' /\ SucceededIsGenuine'
  BY <1>1 DEF IInv, EntriesAreLive, StatusAt, ProcessAt, PanicAt, SucceededIsGenuine
<1>. QED
  BY <1>2, <1>3, <1>4 DEF IInv

(* The handler, and what ends its context. *)
LEMMA CallInv ==
    ASSUME IInv, NEW e \in Exec,
           \/ RunCall(e) \/ ClientGone(e) \/ RunInsert(e) \/ RpcEnds(e)
    PROVE  IInv'
<1>. USE DEF IInv, TypeOK, callVars, execVars, userVars, hbVars, Live
<1>1. TypeOK'
  BY DEF RunCall, ClientGone, RunInsert, RpcEnds
<1>2. EntriesAreLive' /\ StatusAt' /\ ProcessAt' /\ PanicAt'
  BY DEF RunCall, ClientGone, RunInsert, RpcEnds, EntriesAreLive, StatusAt, ProcessAt, PanicAt
<1>3. SucceededIsGenuine'
  BY DEF RunCall, ClientGone, RunInsert, RpcEnds, SucceededIsGenuine
<1>4. LockHeld' /\ IterationStable'
  BY DEF RunCall, ClientGone, RunInsert, RpcEnds, LockHeld, IterationStable
<1>. QED
  BY <1>1, <1>2, <1>3, <1>4

(* The goroutine of an execution, up to the removal of the entry. *)
LEMMA ExecuteInv ==
    ASSUME IInv, NEW e \in Exec,
           \/ Begin(e) \/ StartFails(e) \/ StartProcess(e) \/ StartPanics(e) \/ ProcessDone(e)
           \/ ContextDone(e) \/ TermDone(e) \/ TermKill(e) \/ Cleanup(e)
    PROVE  IInv'
<1>. USE DEF IInv, TypeOK, callVars, execVars, userVars, hbVars, Live, Goto, SetStatus
<1>1. TypeOK'
  BY DEF Begin, StartFails, StartProcess, StartPanics, ProcessDone, ContextDone, TermDone, TermKill,
         Cleanup
<1>2. EntriesAreLive' /\ StatusAt'
  BY DEF Begin, StartFails, StartProcess, StartPanics, ProcessDone, ContextDone, TermDone, TermKill,
         Cleanup, EntriesAreLive, StatusAt
<1>3. ProcessAt' /\ PanicAt'
  BY DEF Begin, StartFails, StartProcess, StartPanics, ProcessDone, ContextDone, TermDone, TermKill,
         Cleanup, ProcessAt, PanicAt
<1>4. SucceededIsGenuine'
  BY DEF Begin, StartFails, StartProcess, StartPanics, ProcessDone, ContextDone, TermDone, TermKill,
         Cleanup, SucceededIsGenuine, StatusAt, ProcessAt
<1>5. LockHeld' /\ IterationStable'
  BY DEF Begin, StartFails, StartProcess, StartPanics, ProcessDone, ContextDone, TermDone, TermKill,
         Cleanup, LockHeld, IterationStable
<1>. QED
  BY <1>1, <1>2, <1>3, <1>4, <1>5

(* The user process and the timer. *)
LEMMA UserInv ==
    ASSUME IInv, NEW e \in Exec,
           \/ TimerFires(e) \/ ProcessExits(e) \/ ProcessKilled(e) \/ WaitReturns(e)
    PROVE  IInv'
<1>. USE DEF IInv, TypeOK, callVars, execVars, hbVars
<1>1. TypeOK'
  BY DEF TimerFires, ProcessExits, ProcessKilled, WaitReturns
<1>2. ProcessAt' /\ SucceededIsGenuine'
  BY DEF TimerFires, ProcessExits, ProcessKilled, WaitReturns, ProcessAt, SucceededIsGenuine
<1>3. EntriesAreLive' /\ StatusAt' /\ PanicAt' /\ LockHeld' /\ IterationStable'
  BY DEF TimerFires, ProcessExits, ProcessKilled, WaitReturns, EntriesAreLive, StatusAt,
         PanicAt, LockHeld, IterationStable
<1>. QED
  BY <1>1, <1>2, <1>3

(* The end of the process removes goroutines and entries at once. *)
LEMMA EndsInv == ASSUME IInv, ProcessEnds PROVE IInv'
<1>. USE DEF IInv, ProcessEnds, TypeOK, Live
<1>1. TypeOK' /\ EntriesAreLive' /\ StatusAt'
  BY RuntimeAssumption DEF EntriesAreLive, StatusAt
<1>2. ProcessAt' /\ PanicAt' /\ SucceededIsGenuine'
  BY DEF ProcessAt, PanicAt, SucceededIsGenuine
<1>3. LockHeld' /\ IterationStable'
  BY DEF LockHeld, IterationStable
<1>. QED
  BY <1>1, <1>2, <1>3

LEMMA SignalInv == ASSUME IInv, Sigterm \/ Restart PROVE IInv'
<1>. USE DEF Sigterm, Restart, callVars, execVars, userVars, hbVars
<1>1. UNCHANGED <<rpc, cancelled, execVars, userVars, rlock, todo, hbExec>>
  OBVIOUS
<1>2. TypeOK'
  BY DEF IInv, TypeOK
<1>3. EntriesAreLive' /\ StatusAt' /\ ProcessAt' /\ PanicAt' /\ SucceededIsGenuine'
  BY <1>1 DEF IInv, EntriesAreLive, StatusAt, ProcessAt, PanicAt, SucceededIsGenuine
<1>4. CASE Sigterm
  BY <1>2, <1>3, <1>4 DEF IInv, LockHeld, IterationStable
<1>5. CASE Restart
  <2>1. ~rlock /\ hb' = "connect" /\ up'
    BY <1>5 DEF IInv, LockHeld
  <2>. QED
    BY <1>1, <1>2, <1>3, <2>1 DEF IInv, LockHeld, IterationStable
<1>. QED
  BY <1>4, <1>5

LEMMA StutterInv == ASSUME IInv, UNCHANGED vars PROVE IInv'
BY DEF vars, IInv, TypeOK, EntriesAreLive, StatusAt, ProcessAt, PanicAt, LockHeld,
       SucceededIsGenuine, IterationStable, callVars, execVars, userVars, hbVars

(* Every step of Run, execute, the heartbeat loop and the user processes keeps
   the invariant. *)
THEOREM Invariance == Spec => []IInv
<1>1. IInv /\ [Next]_vars => IInv'
  BY HeartbeatInv, CallInv, ExecuteInv, UserInv, EndsInv, SignalInv, StutterInv
     DEF Next, Execute, PanicEnds, Crash, MainReturns
<1>. QED
  BY <1>1, InitInv, PTL DEF Spec

(* Every state of the runtime is well-typed. *)
THEOREM RuntimeTypeCorrect == Spec => []TypeOK
BY Invariance, PTL DEF IInv

(* No race of exit, timeout and end of the call turns anything but an exit
   with 0 of an undisturbed process into a success. *)
THEOREM SuccessIsGenuine == Spec => []SucceededIsGenuine
BY Invariance, PTL DEF IInv

(* A process that runs and has not been killed has its goroutine and entry. *)
THEOREM ProcessesAttended == Spec => []ProcessAttended
<1>1. IInv => ProcessAttended
  BY DEF IInv, TypeOK, EntriesAreLive, ProcessAt, ProcessAttended, Live
<1>. QED
  BY <1>1, Invariance, PTL

(* The read lock keeps the entries the heartbeat loop walks over. *)
THEOREM IterationIsStable == Spec => []IterationStable
BY Invariance, PTL DEF IInv

(* The panic of startProcess is the only way for an entry to be lost by the runtime's
   own doing: when every request has an entrypoint and nobody kills the process, an
   entry leaves the map with its final status or in a shutdown. *)
THEOREM EntriesEndGivenEntrypoints ==
    ASSUME HasEntrypoint = Exec, ~Faults
    PROVE  Spec => EntriesEndOnTheirOwn
<1>1. ASSUME IInv, [Next]_vars, NEW e \in executions \ executions'
      PROVE  stopping \/ status[e] \in {"succeeded", "failed"}
  <2>. USE <1>1 DEF callVars, execVars, userVars, hbVars
  <2>1. e \in Exec
    BY DEF IInv, TypeOK
  <2>2. CASE \E x \in Exec : Cleanup(x)
    BY <2>1, <2>2 DEF Cleanup, IInv, StatusAt, PanicAt
  <2>3. CASE MainReturns
    BY <2>3 DEF MainReturns
  <2>4. ~Crash /\ \A x \in Exec : ~PanicEnds(x)
    BY DEF Crash, PanicEnds, IInv, PanicAt
  <2>5. ASSUME NEW x \in Exec,
               \/ RunCall(x) \/ ClientGone(x) \/ RunInsert(x) \/ RpcEnds(x)
               \/ Execute(x) /\ ~PanicEnds(x)
               \/ TimerFires(x) \/ ProcessExits(x) \/ ProcessKilled(x) \/ WaitReturns(x)
        PROVE  executions \subseteq executions'
    BY <2>5 DEF RunCall, ClientGone, RunInsert, RpcEnds, Execute, Begin, StartFails,
                StartProcess, StartPanics, ProcessDone, ContextDone, TermDone, TermKill, TimerFires,
                ProcessExits, ProcessKilled, WaitReturns
  <2>6. CASE \/ Heartbeats \/ HbConnect \/ HbReconnect \/ HbTick \/ HbContextDone
             \/ Sigterm \/ Restart \/ UNCHANGED vars
    BY <2>6 DEF Heartbeats, HbVisit, HbSend, HbSendFails, HbIterated, HbConnect,
                HbReconnect, HbTick, HbContextDone, Sigterm, Restart, vars
  <2>. QED
    BY <2>2, <2>3, <2>4, <2>5, <2>6 DEF Next
<1>2. IInv /\ [Next]_vars =>
        \A e \in executions \ executions' : stopping \/ status[e] \in {"succeeded", "failed"}
  BY <1>1
<1>. QED
  BY <1>2, Invariance, PTL DEF Spec, EntriesEndOnTheirOwn

(* Why a process is signalled: a timeout of at least a second has fired, or the
   call that started the execution has come to its end, which with a caller that
   stays it does by returning. *)
SignalCause ==
    /\ \A e \in Exec : sig[e] # "none" => e \in expired \cup cancelled
    /\ \A e \in expired : Timeout(e) > 0
    /\ \A e \in cancelled : Faults \/ rpc[e] = "over"

(* The wait is given up for the same reasons only. *)
TermCause == \A e \in Exec : pc[e] = "term" => e \in expired \cup cancelled

LEMMA SignalCauseStep ==
    IInv /\ SignalCause /\ TermCause /\ [Next]_vars => SignalCause' /\ TermCause'
<1>. SUFFICES ASSUME IInv, SignalCause, TermCause, [Next]_vars PROVE SignalCause' /\ TermCause'
  OBVIOUS
<1>. USE DEF IInv, TypeOK, SignalCause, TermCause, Timeout, callVars, execVars, userVars, Goto
<1>1. ASSUME NEW e \in Exec, RunCall(e) \/ ClientGone(e) \/ RunInsert(e) \/ RpcEnds(e)
      PROVE  SignalCause' /\ TermCause'
  BY <1>1 DEF RunCall, ClientGone, RunInsert, RpcEnds
<1>2. ASSUME NEW e \in Exec, ContextDone(e) \/ TermKill(e) PROVE SignalCause' /\ TermCause'
  <2>1. /\ e \in expired \cup cancelled
        /\ \A x \in Exec \ {e} : sig'[x] = sig[x] /\ pc'[x] = pc[x]
        /\ UNCHANGED <<rpc, cancelled, expired>>
    BY <1>2 DEF ContextDone, TermKill
  <2>. QED
    BY <2>1
<1>3. ASSUME NEW e \in Exec, TimerFires(e) PROVE SignalCause' /\ TermCause'
  BY <1>3 DEF TimerFires
<1>4. ASSUME NEW e \in Exec, \/ Begin(e) \/ StartFails(e) \/ StartProcess(e) \/ StartPanics(e)
                             \/ ProcessDone(e) \/ TermDone(e) \/ Cleanup(e)
      PROVE  SignalCause' /\ TermCause'
  <2>1. /\ UNCHANGED <<rpc, cancelled, expired, sig>>
        /\ \E s \in {"start", "wait", "panic", "dying", "cleanup", "done"} :
             pc' = [pc EXCEPT ![e] = s]
    BY <1>4 DEF Begin, StartFails, StartProcess, StartPanics, ProcessDone, TermDone, Cleanup
  <2>. QED
    BY <2>1
<1>5. CASE ProcessEnds
  <2>1. /\ sig' = sig /\ expired' = expired /\ cancelled \subseteq cancelled'
        /\ \A e \in Exec : pc'[e] # "term"
    BY <1>5 DEF ProcessEnds, Live
  <2>2. \A e \in cancelled' : rpc'[e] = "over" \/ Faults
    BY <1>5 DEF ProcessEnds
  <2>. QED
    BY <2>1, <2>2
<1>6. CASE UNCHANGED <<rpc, cancelled, expired, sig, pc>>
  BY <1>6
<1>7. \/ UNCHANGED <<rpc, cancelled, expired, sig, pc>> \/ ProcessEnds
      \/ \E e \in Exec :
           \/ RunCall(e) \/ ClientGone(e) \/ RunInsert(e) \/ RpcEnds(e)
           \/ ContextDone(e) \/ TermKill(e) \/ TimerFires(e)
           \/ Begin(e) \/ StartFails(e) \/ StartProcess(e) \/ StartPanics(e) \/ ProcessDone(e)
           \/ TermDone(e) \/ Cleanup(e)
  BY DEF Next, Execute, PanicEnds, ProcessExits, ProcessKilled, WaitReturns, Heartbeats,
         HbVisit, HbSend, HbSendFails, HbIterated, HbConnect, HbReconnect, HbTick,
         HbContextDone, Crash, Sigterm, MainReturns, Restart, vars
<1>. QED
  BY <1>1, <1>2, <1>3, <1>4, <1>5, <1>6, <1>7

(* Next to a timeout the end of the call is the only thing that makes the runtime
   signal a process: what SignalledOnlyOnTimeout overlooks is this and nothing else. *)
THEOREM SignalsHaveCause == Spec => []SignalCause
<1>1. Init => SignalCause /\ TermCause
  BY DEF Init, SignalCause, TermCause
<1>. QED
  BY <1>1, SignalCauseStep, Invariance, PTL DEF Spec

-----------------------------------------------------------------------------
(* The refinement, liveness aside. *)

(* Steps that leave executions, statuses and goroutines alone are invisible. *)
LEMMA LedgerSame == UNCHANGED execVars => UNCHANGED Lifecycle!vars
BY DEF execVars, Ledger, Dying, Lifecycle!vars

(* A step of one execution moves its ledger entry and no other. *)
LEMMA LedgerMoves ==
    ASSUME IInv, NEW e \in Exec,
           \/ RunInsert(e) \/ Begin(e) \/ StartFails(e) \/ StartProcess(e) \/ StartPanics(e)
           \/ ProcessDone(e) \/ ContextDone(e) \/ TermDone(e) \/ TermKill(e) \/ Cleanup(e)
    PROVE  Ledger' = [Ledger EXCEPT ![e] = Ledger'[e]]
<1>1. \A x \in Exec \ {e} :
        /\ x \in executions' <=> x \in executions
        /\ status'[x] = status[x] /\ pc'[x] = pc[x]
  BY DEF IInv, TypeOK, execVars, RunInsert, Begin, StartFails, StartProcess, StartPanics,
         ProcessDone, ContextDone, TermDone, TermKill, Cleanup, Goto, SetStatus
<1>2. \A x \in Exec \ {e} : Ledger'[x] = Ledger[x]
  BY <1>1 DEF Ledger
<1>. QED
  BY <1>2 DEF Ledger

(* No step but a panic's delete makes the runtime one that is about to end. *)
LEMMA DyingSame ==
    ASSUME IInv, NEW e \in Exec,
           \/ RunInsert(e) \/ Begin(e) \/ StartFails(e) \/ StartProcess(e) \/ StartPanics(e)
           \/ ProcessDone(e) \/ ContextDone(e) \/ TermDone(e) \/ TermKill(e)
           \/ Cleanup(e) /\ pc[e] = "cleanup"
    PROVE  UNCHANGED Dying
<1>1. \A x \in Exec : pc'[x] = "dying" <=> pc[x] = "dying"
  BY DEF IInv, TypeOK, EntriesAreLive, Live, RunInsert, Begin, StartFails, StartProcess,
         StartPanics, ProcessDone, ContextDone, TermDone, TermKill, Cleanup, Goto
<1>. QED
  BY <1>1 DEF Dying

LEMMA StepRefines == IInv /\ [Next]_vars => [Lifecycle!Next]_(Lifecycle!vars)
<1>. SUFFICES ASSUME IInv, [Next]_vars PROVE Lifecycle!Next \/ UNCHANGED Lifecycle!vars
  OBVIOUS
<1>. USE DEF IInv, TypeOK, EntriesAreLive, StatusAt, Live, Lifecycle!Final
<1>1. ASSUME NEW e \in Exec, RunInsert(e) PROVE Lifecycle!Accept(e)
  <2>1. Ledger[e] = "absent" /\ Ledger'[e] = "pending"
    BY <1>1 DEF RunInsert, Ledger
  <2>. QED
    BY <1>1, <2>1, LedgerMoves, DyingSame DEF Lifecycle!Accept, Lifecycle!Move
<1>2. ASSUME NEW e \in Exec, Begin(e) PROVE Lifecycle!Begin(e)
  <2>1. Ledger[e] = "pending" /\ Ledger'[e] = "running"
    BY <1>2 DEF Begin, Goto, SetStatus, Ledger
  <2>. QED
    BY <1>2, <2>1, LedgerMoves, DyingSame DEF Lifecycle!Begin, Lifecycle!Move
<1>3. ASSUME NEW e \in Exec, StartFails(e) \/ ProcessDone(e) \/ TermDone(e) \/ TermKill(e)
      PROVE  Lifecycle!Finish(e)
  <2>1. Ledger' = [Ledger EXCEPT ![e] = Ledger'[e]] /\ UNCHANGED Dying
    BY <1>3, LedgerMoves, DyingSame
  <2>2. e \in executions /\ status[e] = "running" /\ e \in HasEntrypoint
    BY <1>3 DEF StartFails, ProcessDone, TermDone, TermKill, PanicAt
  <2>3. e \in executions' /\ status'[e] \in Lifecycle!Final
    BY <1>3, <2>2 DEF StartFails, ProcessDone, TermDone, TermKill, SetStatus
  <2>4. Ledger[e] = "running" /\ Ledger'[e] \in Lifecycle!Final
    BY <2>2, <2>3 DEF Ledger
  <2>. QED
    BY <2>1, <2>2, <2>4 DEF Lifecycle!Finish, Lifecycle!Move
<1>4. ASSUME NEW e \in Exec, StartProcess(e) \/ ContextDone(e) \/ StartPanics(e)
      PROVE  UNCHANGED Lifecycle!vars
  <2>1. UNCHANGED Ledger
    BY <1>4 DEF StartProcess, ContextDone, StartPanics, Goto, Ledger
  <2>. QED
    BY <1>4, <2>1, DyingSame DEF Lifecycle!vars
<1>5. ASSUME NEW e \in Exec, Cleanup(e), pc[e] = "cleanup" PROVE Lifecycle!Remove(e)
  <2>1. Ledger[e] \in Lifecycle!Final /\ Ledger'[e] = "gone"
    BY <1>5 DEF Cleanup, Goto, Ledger
  <2>. QED
    BY <1>5, <2>1, LedgerMoves, DyingSame DEF Lifecycle!Remove, Lifecycle!Move
<1>6. ASSUME NEW e \in Exec, Cleanup(e), pc[e] = "panic" PROVE Lifecycle!Abandon(e)
  <2>1. Ledger[e] = "running" /\ Ledger'[e] = "gone" /\ pc'[e] = "dying"
    BY <1>6 DEF Cleanup, Goto, Ledger
  <2>2. Dying' = TRUE /\ e \notin HasEntrypoint
    BY <1>6, <2>1 DEF Dying, PanicAt
  <2>. QED
    BY <1>6, <2>1, <2>2, LedgerMoves DEF Lifecycle!Abandon, Lifecycle!Move
<1>7. ASSUME ProcessEnds PROVE Lifecycle!Lose
  <2>1. Ledger' = [e \in Exec |-> IF Ledger[e] \in Lifecycle!Present THEN "gone" ELSE Ledger[e]]
    BY <1>7 DEF ProcessEnds, Ledger, Lifecycle!Present
  <2>2. Dying' = FALSE
    BY <1>7 DEF ProcessEnds, Dying
  <2>. QED
    BY <2>1, <2>2 DEF Lifecycle!Lose
<1>8. ASSUME NEW e \in Exec,
             \/ RunCall(e) \/ ClientGone(e) \/ RpcEnds(e) \/ TimerFires(e) \/ ProcessExits(e)
             \/ ProcessKilled(e) \/ WaitReturns(e)
      PROVE  UNCHANGED Lifecycle!vars
  BY <1>8, LedgerSame DEF RunCall, ClientGone, RpcEnds, TimerFires, ProcessExits, ProcessKilled,
                          WaitReturns
<1>9. CASE Heartbeats \/ HbConnect \/ HbReconnect \/ HbTick \/ HbContextDone
  BY <1>9, LedgerSame DEF Heartbeats, HbVisit, HbSend, HbSendFails, HbIterated, HbConnect,
                          HbReconnect, HbTick, HbContextDone
<1>10. CASE Sigterm \/ Restart \/ UNCHANGED vars
  BY <1>10, LedgerSame DEF Sigterm, Restart, vars
<1>11. ASSUME NEW e \in Exec, Cleanup(e) PROVE pc[e] \in {"cleanup", "panic"}
  BY <1>11 DEF Cleanup
<1>. QED
  BY <1>1, <1>2, <1>3, <1>4, <1>5, <1>6, <1>7, <1>8, <1>9, <1>10, <1>11
     DEF Next, Execute, PanicEnds, Crash, MainReturns, Lifecycle!Next, Lifecycle!Advance

(* Each entry of the map goes through the states of ExecutionLifecycle in
   order, whatever faults, races and restarts there are: it leaves the map with a
   final status, or with the runtime, or, without an entrypoint, just ahead of it. *)
THEOREM RefinesLifecycle == Spec => Lifecycle!Init /\ [][Lifecycle!Next]_(Lifecycle!vars)
<1>1. Init => Lifecycle!Init
  BY DEF Init, Ledger, Dying, Lifecycle!Init
<1>. QED
  BY <1>1, StepRefines, Invariance, PTL DEF Spec
=============================================================================
