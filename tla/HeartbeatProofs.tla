--------------------------- MODULE HeartbeatProofs ---------------------------
(***************************************************************************)
(* The safety properties of Heartbeat, for every set of executions and any *)
(* number of faults.                                                       *)
(***************************************************************************)
EXTENDS Heartbeat, TLAPS

(* The final status of an answered execution is the one it ended with, and it
   is not set before. *)
OutcomeKnown ==
    \A e \in Exec :
        /\ e \in Answered /\ state[e] \in Life!Final => outcome[e] = state[e]
        /\ outcome[e] # "none" => state[e] \in Life!Final \cup {"gone"}

(* The loop has executions to report only while its runtime lives; where it
   holds the read lock its ticker has just fired. *)
LoopSound ==
    /\ hb = "off" => \A e \in Exec : state[e] \notin Life!Present
    /\ IF RLocked THEN hbTimer = HbPeriod ELSE todo = {}
    /\ hb = "sleep" => hbTimer <= Backoff
    /\ hb = "send" => hbExec \in Exec /\ state[hbExec] \in {"running"} \cup Life!Final
    /\ hb # "send" => hbExec = NoExec

(* Only a stream that is open and whole has heartbeats of live executions under
   way, and they say what those executions have been. *)
WireSound ==
    /\ link # "ok" => wire = {}
    /\ \A b \in wire :
        /\ state[b.exec] \notin {"absent", "pending"}
        /\ ~Streaming => state[b.exec] = "gone"
        /\ b.status \in Life!Final /\ b.exec \in Answered => outcome[b.exec] = b.status

(* The map holds answered executions, and time has not passed since an
   execution that has yet to begin was registered. *)
RegistrySound ==
    /\ registry \cup calls \subseteq Answered
    /\ \A e \in registry \cup calls : state[e] # "absent"
    /\ \A e \in Exec : e \notin registry \/ state[e] = "pending" => age[e] = 0
    /\ disp = "down" => registry = {} /\ calls = {}

MonitorSound ==
    /\ disp = "up" => mon # "off"
    /\ mon = "check" => monTimer = MonPeriod
    /\ mon # "check" => toCheck = {}

OnWire(e) == \E b \in wire : b.exec = e

(* A heartbeat of e is still to come out of this round of the loop. *)
Coming(e) == e \in todo \/ hbExec = e \/ OnWire(e)

(* How long before the loop's last tick the last heartbeat of e, or its
   registration, can have been: a failure costs one round and one backoff, and
   a registration can meet the loop in its backoff. *)
Slack(e) == IF Heard(e) THEN (HbPeriod + Backoff) * missed[e] ELSE Backoff

(* Where the loop is bounds how long ago e was heard of. *)
InTime ==
    \A e \in Exec :
        Running(e) /\ (missed[e] = 0 \/ (Heard(e) /\ missed[e] = 1)) =>
            /\ hb = "connect" => age[e] <= Slack(e)
            /\ hb = "sleep" => age[e] + hbTimer <= Slack(e)
            /\ Streaming =>
                IF Coming(e) THEN age[e] <= Slack(e) + HbPeriod
                             ELSE age[e] + hbTimer <= Slack(e) + HbPeriod

(* An entry the monitor has passed over was not overdue when its ticker last
   fired; one it has yet to look at was not one period earlier. *)
Limit(e) == MonPeriod + (IF Heard(e) THEN Silence ELSE 1)

LookedAt ==
    mon # "off" =>
        \A e \in registry \ warned :
            age[e] + (IF e \in toCheck THEN 0 ELSE monTimer) < Limit(e)

Sound == OutcomeKnown /\ LoopSound /\ WireSound /\ RegistrySound /\ MonitorSound

IInv == TypeOK /\ Sound /\ ViewIsPast /\ InTime /\ LookedAt

-----------------------------------------------------------------------------
LEMMA InitInv == Init => IInv
<1>. SUFFICES ASSUME Init PROVE IInv
  OBVIOUS
<1>. USE HeartbeatAssumption DEF Init, Life!Init
<1>1. TypeOK
  <2>1. broken \in BOOLEAN
    BY Zenon
  <2>. QED
    BY <2>1 DEF TypeOK, Life!State, HbPeriod, MonPeriod, MaxAge, Silence
<1>2. Sound
  BY DEF Sound, OutcomeKnown, LoopSound, WireSound, RegistrySound, MonitorSound,
         Life!Final, RLocked, Streaming
<1>3. ViewIsPast /\ InTime /\ LookedAt
  BY DEF ViewIsPast, InTime, LookedAt, Running
<1>. QED
  BY <1>1, <1>2, <1>3 DEF IInv

(* What the actions on an execution do to its entry. *)
LEMMA Moves ==
    ASSUME NEW e \in Exec, TypeOK
    PROVE  /\ Life!Accept(e) => state[e] = "absent" /\ state' = [state EXCEPT ![e] = "pending"]
           /\ Life!Begin(e) => state[e] = "pending" /\ state' = [state EXCEPT ![e] = "running"]
           /\ Life!Finish(e) =>
                /\ state[e] = "running" /\ state'[e] \in Life!Final
                /\ state' = [state EXCEPT ![e] = state'[e]]
           /\ Life!Remove(e) =>
                state[e] \in Life!Final /\ state' = [state EXCEPT ![e] = "gone"]
           /\ Life!Abandon(e) =>
                state[e] = "running" /\ state' = [state EXCEPT ![e] = "gone"]
BY DEF Life!Accept, Life!Begin, Life!Finish, Life!Remove, Life!Abandon, Life!Move, TypeOK

(* The executions change with their own actions and the end of the runtime; but
   for these, the loop changes with its own steps and with time. *)
LEMMA RuntimeFrame ==
    ASSUME [Next]_vars
    PROVE  \/ \E e \in Exec : Accept(e) \/ Begin(e) \/ Finish(e) \/ Remove(e) \/ Abandon(e)
           \/ RuntimeEnds
           \/ UNCHANGED runtimeVars /\ (RuntimeRestarts \/ Loop \/ TimePasses)
           \/ UNCHANGED <<runtimeVars, hbVars>>
<1>1. CASE RuntimeRestarts \/ Loop \/ TimePasses
  BY <1>1 DEF RuntimeRestarts, Loop, HbConnect, HbConnectFails, HbTick, HbSend, HbSendFails,
              HbIterated, HbWake, HbVisit, TimePasses
<1>2. CASE Received \/ Monitor \/ \E e \in Exec : Register(e)
  BY <1>2 DEF Received, Recv, Monitor, MonitorTick, CheckEntry, MonitorDone, MonitorStops,
              Register
<1>3. CASE \/ LinkBreaks \/ LinkTimesOut \/ DispatcherSigterm \/ DispatcherExits
           \/ DispatcherCrashes \/ DispatcherRestarts \/ UNCHANGED vars
  BY <1>3 DEF LinkBreaks, LinkTimesOut, DispatcherSigterm, DispatcherExits,
              DispatcherCrashes, DispatcherRestarts, DispatcherGone, vars
<1>. QED
  BY <1>1, <1>2, <1>3 DEF Next, Settles

(* A panic sets broken, the end of the runtime resets it, and nothing else writes it. *)
LEMMA BrokenStep == TypeOK /\ [Next]_vars => broken' \in BOOLEAN
<1>. SUFFICES ASSUME TypeOK, [Next]_vars PROVE broken' \in BOOLEAN
  OBVIOUS
<1>1. broken \in BOOLEAN
  BY DEF TypeOK
<1>2. CASE \E e \in Exec : Accept(e) \/ Begin(e) \/ Finish(e) \/ Remove(e)
  <2>1. broken' = broken
    BY <1>2, Zenon DEF Accept, Begin, Finish, Remove, Life!Accept, Life!Begin, Life!Finish,
                       Life!Remove
  <2>. QED
    BY <1>1, <2>1
<1>3. CASE \E e \in Exec : Abandon(e)
  BY <1>3, Zenon DEF Abandon, Life!Abandon
<1>4. CASE RuntimeEnds
  BY <1>4, Zenon DEF RuntimeEnds, Life!Lose
<1>5. CASE UNCHANGED runtimeVars
  BY <1>1, <1>5 DEF runtimeVars
<1>. QED
  BY <1>2, <1>3, <1>4, <1>5, RuntimeFrame

LEMMA TypeStep == IInv /\ [Next]_vars => TypeOK'
<1>. SUFFICES ASSUME IInv, [Next]_vars PROVE TypeOK'
  OBVIOUS
<1>0. broken' \in BOOLEAN
  BY BrokenStep DEF IInv
<1>. USE HeartbeatAssumption DEF IInv, TypeOK, Beat, Life!State, Life!Final, HbPeriod,
     MonPeriod, MaxAge, Silence, Backoff, runtimeVars, hbVars, netVars, dispVars, monVars,
     histVars, Miss, AtMost, Fault
<1>1. ASSUME NEW e \in Exec, Accept(e) PROVE TypeOK'
  BY <1>0, <1>1, Moves DEF Accept
<1>2. ASSUME NEW e \in Exec, Begin(e) \/ Remove(e) \/ Abandon(e) PROVE TypeOK'
  BY <1>0, <1>2, Moves DEF Begin, Remove, Abandon
<1>3. ASSUME NEW e \in Exec, Finish(e) PROVE TypeOK'
  BY <1>0, <1>3, Moves DEF Finish
<1>4. CASE RuntimeEnds
  BY <1>0, <1>4 DEF RuntimeEnds, Life!Lose
<1>5. CASE RuntimeRestarts \/ HbConnect \/ HbConnectFails \/ HbIterated \/ HbWake
  BY <1>5 DEF RuntimeRestarts, HbConnect, HbConnectFails, HbIterated, HbWake
<1>6. CASE HbTick \/ \E e \in Exec : HbVisit(e)
  BY <1>6 DEF HbTick, HbVisit
<1>7. CASE HbSend \/ HbSendFails
  BY <1>7 DEF HbSend, HbSendFails, Sound, LoopSound
<1>8. CASE LinkBreaks \/ LinkTimesOut
  BY <1>8 DEF LinkBreaks, LinkTimesOut, LosesWire
<1>9. ASSUME NEW e \in Exec, Register(e) PROVE TypeOK'
  BY <1>9 DEF Register
<1>10. CASE Received
  BY <1>10 DEF Received, Recv
<1>11. CASE Monitor
  BY <1>11 DEF Monitor, MonitorTick, CheckEntry, MonitorDone, MonitorStops
<1>12. CASE DispatcherSigterm \/ DispatcherExits \/ DispatcherCrashes \/ DispatcherRestarts
  BY <1>12 DEF DispatcherSigterm, DispatcherExits, DispatcherCrashes, DispatcherRestarts,
               DispatcherGone
<1>13. CASE TimePasses
  BY <1>13 DEF TimePasses, Waiting
<1>14. CASE UNCHANGED vars
  BY <1>14 DEF vars
<1>. QED
  BY <1>1, <1>2, <1>3, <1>4, <1>5, <1>6, <1>7, <1>8, <1>9, <1>10, <1>11, <1>12, <1>13,
     <1>14 DEF Next, Settles, Loop

LEMMA DispatcherFrame ==
    ASSUME [Next]_vars
    PROVE  \/ \E e \in Exec : Accept(e) \/ Begin(e) \/ Finish(e) \/ Remove(e) \/ Abandon(e)
           \/ RuntimeEnds \/ TimePasses
           \/ Received \/ \E e \in Exec : Register(e)
           \/ DispatcherSigterm \/ DispatcherExits \/ DispatcherCrashes \/ DispatcherRestarts
           \/ UNCHANGED <<runtimeVars, dispVars>>
<1>1. CASE RuntimeRestarts \/ Loop
  BY <1>1 DEF RuntimeRestarts, Loop, HbConnect, HbConnectFails, HbTick, HbSend, HbSendFails,
              HbIterated, HbWake, HbVisit
<1>2. CASE Monitor \/ LinkBreaks \/ LinkTimesOut \/ UNCHANGED vars
  BY <1>2 DEF Monitor, MonitorTick, CheckEntry, MonitorDone, MonitorStops, LinkBreaks,
              LinkTimesOut, vars
<1>. QED
  BY <1>1, <1>2 DEF Next, Settles

LEMMA MonitorFrame ==
    ASSUME [Next]_vars
    PROVE  \/ Monitor \/ TimePasses
           \/ DispatcherSigterm \/ DispatcherExits \/ DispatcherCrashes \/ DispatcherRestarts
           \/ UNCHANGED <<disp, monVars>>
<1>1. CASE \E e \in Exec : \/ Accept(e) \/ Begin(e) \/ Finish(e) \/ Remove(e)
                         \/ Abandon(e) \/ Register(e)
  BY <1>1 DEF Accept, Begin, Finish, Remove, Abandon, Register, dispVars
<1>2. CASE RuntimeEnds \/ RuntimeRestarts \/ Loop
  BY <1>2 DEF RuntimeEnds, RuntimeRestarts, Loop, HbConnect, HbConnectFails, HbTick, HbSend,
              HbSendFails, HbIterated, HbWake, HbVisit, dispVars
<1>3. CASE Received \/ LinkBreaks \/ LinkTimesOut \/ UNCHANGED vars
  BY <1>3 DEF Received, Recv, LinkBreaks, LinkTimesOut, vars, dispVars
<1>. QED
  BY <1>1, <1>2, <1>3 DEF Next, Settles

(* The parts of Sound, one lemma each. In all of them a step that leaves the
   part's variables alone needs no argument. *)
LEMMA OutcomeStep == IInv /\ [Next]_vars => OutcomeKnown'
<1>. SUFFICES ASSUME IInv, [Next]_vars PROVE OutcomeKnown'
  OBVIOUS
<1>. USE DEF IInv, Sound, TypeOK, OutcomeKnown, Life!Final, runtimeVars
<1>1. ASSUME NEW e \in Exec, Accept(e) PROVE OutcomeKnown'
  BY <1>1, Moves DEF Accept
<1>2. ASSUME NEW e \in Exec, Begin(e) \/ Remove(e) \/ Abandon(e) PROVE OutcomeKnown'
  BY <1>2, Moves DEF Begin, Remove, Abandon
<1>3. ASSUME NEW e \in Exec, Finish(e) PROVE OutcomeKnown'
  BY <1>3, Moves DEF Finish
<1>4. CASE RuntimeEnds
  BY <1>4 DEF RuntimeEnds, Life!Lose, Life!Present
<1>5. CASE UNCHANGED runtimeVars
  BY <1>5
<1>. QED
  BY <1>1, <1>2, <1>3, <1>4, <1>5, RuntimeFrame

LEMMA LoopStep == IInv /\ [Next]_vars => LoopSound'
<1>. SUFFICES ASSUME IInv, [Next]_vars PROVE LoopSound'
  OBVIOUS
<1>. USE HeartbeatAssumption DEF IInv, Sound, TypeOK, LoopSound, RLocked, HbPeriod, Backoff,
     Life!Final, Life!Present, Life!State, runtimeVars, hbVars
<1>1. ASSUME NEW e \in Exec, Accept(e) \/ Begin(e) \/ Finish(e) \/ Remove(e) \/ Abandon(e)
      PROVE  LoopSound'
  BY <1>1, Moves DEF Accept, Begin, Finish, Remove, Abandon
<1>2. CASE RuntimeEnds \/ RuntimeRestarts
  BY <1>2 DEF RuntimeEnds, RuntimeRestarts, Life!Lose
<1>3. CASE Loop
  BY <1>3 DEF Loop, HbConnect, HbConnectFails, HbTick, HbSend, HbSendFails, HbIterated, HbWake,
              HbVisit
<1>4. CASE TimePasses
  BY <1>4 DEF TimePasses, Waiting
<1>5. CASE UNCHANGED <<runtimeVars, hbVars>>
  BY <1>5
<1>. QED
  BY <1>1, <1>2, <1>3, <1>4, <1>5, RuntimeFrame DEF Next, Settles

LEMMA WireStep == IInv /\ [Next]_vars => WireSound'
<1>. SUFFICES ASSUME IInv, [Next]_vars PROVE WireSound'
  OBVIOUS
<1>. USE HeartbeatAssumption DEF IInv, Sound, TypeOK, Beat, WireSound, Streaming, RLocked,
     Life!Final, Life!State, runtimeVars, hbVars, netVars
<1>1. ASSUME NEW e \in Exec, Accept(e) \/ Begin(e) \/ Finish(e) \/ Remove(e) \/ Abandon(e)
      PROVE  WireSound'
  BY <1>1, Moves DEF Accept, Begin, Finish, Remove, Abandon, OutcomeKnown
<1>2. CASE RuntimeEnds \/ RuntimeRestarts
  BY <1>2 DEF RuntimeEnds, RuntimeRestarts, Life!Lose, Life!Present
<1>3. CASE HbConnect \/ HbConnectFails \/ HbTick \/ HbIterated \/ HbWake \/ \E e \in Exec : HbVisit(e)
  BY <1>3 DEF HbConnect, HbConnectFails, HbTick, HbIterated, HbWake, HbVisit
<1>4. CASE HbSend \/ HbSendFails
  BY <1>4 DEF HbSend, HbSendFails, LoopSound, OutcomeKnown
<1>5. CASE LinkBreaks \/ LinkTimesOut
  BY <1>5 DEF LinkBreaks, LinkTimesOut, LosesWire
<1>6. CASE Received \/ \E e \in Exec : Register(e)
  BY <1>6 DEF Received, Recv, Register
<1>7. CASE DispatcherSigterm \/ DispatcherExits \/ DispatcherCrashes \/ DispatcherRestarts
  BY <1>7 DEF DispatcherSigterm, DispatcherExits, DispatcherCrashes, DispatcherRestarts,
              DispatcherGone
<1>8. CASE Monitor \/ TimePasses \/ UNCHANGED vars
  BY <1>8 DEF Monitor, MonitorTick, CheckEntry, MonitorDone, MonitorStops, TimePasses, vars
<1>. QED
  BY <1>1, <1>2, <1>3, <1>4, <1>5, <1>6, <1>7, <1>8 DEF Next, Settles, Loop

LEMMA RegistryStep == IInv /\ [Next]_vars => RegistrySound'
<1>. SUFFICES ASSUME IInv, [Next]_vars PROVE RegistrySound'
  OBVIOUS
<1>. USE HeartbeatAssumption DEF IInv, Sound, TypeOK, RegistrySound, Life!Final, Life!State,
     runtimeVars, dispVars
<1>1. ASSUME NEW e \in Exec, Accept(e) \/ Begin(e) \/ Finish(e) \/ Remove(e) \/ Abandon(e)
      PROVE  RegistrySound'
  BY <1>1, Moves DEF Accept, Begin, Finish, Remove, Abandon
<1>2. CASE RuntimeEnds
  BY <1>2 DEF RuntimeEnds, Life!Lose, Life!Present
<1>3. CASE Received \/ \E e \in Exec : Register(e)
  BY <1>3 DEF Received, Recv, Register, Beat
<1>4. CASE DispatcherSigterm \/ DispatcherExits \/ DispatcherCrashes \/ DispatcherRestarts
  BY <1>4 DEF DispatcherSigterm, DispatcherExits, DispatcherCrashes, DispatcherRestarts,
              DispatcherGone
<1>5. CASE TimePasses
  BY <1>5 DEF TimePasses, Waiting
<1>6. CASE UNCHANGED <<runtimeVars, dispVars>>
  BY <1>6
<1>. QED
  BY <1>1, <1>2, <1>3, <1>4, <1>5, <1>6, DispatcherFrame

LEMMA MonitorStep == IInv /\ [Next]_vars => MonitorSound'
<1>. SUFFICES ASSUME IInv, [Next]_vars PROVE MonitorSound'
  OBVIOUS
<1>. USE DEF IInv, Sound, TypeOK, MonitorSound, dispVars, monVars
<1>1. CASE Monitor
  BY <1>1 DEF Monitor, MonitorTick, CheckEntry, MonitorDone, MonitorStops
<1>2. CASE DispatcherSigterm \/ DispatcherExits \/ DispatcherCrashes \/ DispatcherRestarts
  BY <1>2 DEF DispatcherSigterm, DispatcherExits, DispatcherCrashes, DispatcherRestarts,
              DispatcherGone, RegistrySound
<1>3. CASE TimePasses
  BY <1>3 DEF TimePasses, Waiting
<1>4. CASE UNCHANGED <<disp, monVars>>
  BY <1>4
<1>. QED
  BY <1>1, <1>2, <1>3, <1>4, MonitorFrame

LEMMA ViewStep == IInv /\ [Next]_vars => ViewIsPast'
<1>. SUFFICES ASSUME IInv, [Next]_vars PROVE ViewIsPast'
  OBVIOUS
<1>. USE HeartbeatAssumption DEF IInv, Sound, TypeOK, ViewIsPast, RegistrySound, Life!Final,
     Life!State, runtimeVars, dispVars
<1>1. ASSUME NEW e \in Exec, Accept(e) \/ Begin(e) \/ Finish(e) \/ Remove(e) \/ Abandon(e)
      PROVE  ViewIsPast'
  BY <1>1, Moves DEF Accept, Begin, Finish, Remove, Abandon, OutcomeKnown
<1>2. CASE RuntimeEnds
  BY <1>2 DEF RuntimeEnds, Life!Lose, Life!Present
<1>3. CASE Received
  BY <1>3 DEF Received, Recv, Beat, WireSound
<1>4. ASSUME NEW e \in Exec, Register(e) PROVE ViewIsPast'
  BY <1>4 DEF Register
<1>5. CASE DispatcherSigterm \/ DispatcherExits \/ DispatcherCrashes \/ DispatcherRestarts
  BY <1>5 DEF DispatcherSigterm, DispatcherExits, DispatcherCrashes, DispatcherRestarts,
              DispatcherGone
<1>6. CASE TimePasses
  BY <1>6 DEF TimePasses
<1>7. CASE UNCHANGED <<runtimeVars, dispVars>>
  BY <1>7
<1>. QED
  BY <1>1, <1>2, <1>3, <1>4, <1>5, <1>6, <1>7, DispatcherFrame

(* The clock part of the argument. A heartbeat resets what it bounds; a round
   of the loop without failure produces one; a failure takes the slack of
   another round and a backoff. *)
LEMMA InTimeStep == IInv /\ [Next]_vars => InTime'
<1>. SUFFICES ASSUME IInv, [Next]_vars PROVE InTime'
  OBVIOUS
<1>. USE HeartbeatAssumption DEF IInv, Sound, TypeOK, Beat, InTime, Running, Heard, Coming,
     OnWire, Slack, Streaming, RLocked, HbPeriod, Backoff, Life!Final, Life!State, runtimeVars,
     hbVars, netVars, dispVars, histVars
<1>1. ASSUME NEW e \in Exec, Accept(e) \/ Begin(e) \/ Finish(e) \/ Remove(e) \/ Abandon(e)
      PROVE  InTime'
  BY <1>1, Moves DEF Accept, Begin, Finish, Remove, Abandon, RegistrySound, ViewIsPast, LoopSound
<1>2. CASE RuntimeEnds
  BY <1>2 DEF RuntimeEnds, Life!Lose, Life!Present
<1>3. CASE RuntimeRestarts
  BY <1>3 DEF RuntimeRestarts, LoopSound, Life!Present
<1>4. CASE HbConnect \/ HbWake
  BY <1>4 DEF HbConnect, HbWake
<1>5. CASE HbConnectFails
  BY <1>5 DEF HbConnectFails, Miss, AtMost
<1>6. CASE HbTick
  BY <1>6 DEF HbTick, Life!Present
<1>7. ASSUME NEW e \in Exec, HbVisit(e) PROVE InTime'
  BY <1>7 DEF HbVisit, LoopSound, ViewIsPast, RegistrySound
<1>8. CASE HbSend
  <2>1. CASE link = "ok"
    <3> DEFINE beat == [exec |-> hbExec, status |-> state[hbExec]]
    <3>1. hb = "send" /\ hb' = "iterate" /\ beat \in wire' /\ beat.exec = hbExec
      BY <1>8, <2>1 DEF HbSend
    <3>2. \A e \in Exec : Coming(e) => Coming(e)'
      BY <1>8, <2>1, <3>1 DEF HbSend
    <3>3. hbTimer = HbPeriod
      BY <3>1 DEF LoopSound
    <3>. QED
      BY <1>8, <2>1, <3>1, <3>2, <3>3 DEF HbSend
  <2>2. CASE link # "ok"
    BY <1>8, <2>2 DEF HbSend, LoopSound, Miss, AtMost
  <2>. QED
    BY <2>1, <2>2
<1>9. CASE HbSendFails
  BY <1>9 DEF HbSendFails, LoopSound, WireSound, Miss, AtMost
<1>10. CASE HbIterated
  BY <1>10 DEF HbIterated, LoopSound
<1>11. CASE LinkBreaks
  BY <1>11 DEF LinkBreaks, LosesWire, LoopSound, Miss, AtMost
<1>12. ASSUME NEW e \in Exec, Register(e) PROVE InTime'
  BY <1>12 DEF Register, LoopSound
<1>13. ASSUME NEW b \in wire, Recv(b) PROVE InTime'
  BY <1>13 DEF Recv, WireSound, LoopSound
<1>14. CASE DispatcherSigterm \/ DispatcherExits \/ DispatcherCrashes \/ DispatcherRestarts
  BY <1>14 DEF DispatcherSigterm, DispatcherExits, DispatcherCrashes, DispatcherRestarts,
               DispatcherGone
<1>15. CASE TimePasses
  <2>. SUFFICES ASSUME NEW e \in Exec, Running(e),
                       missed[e] = 0 \/ (Heard(e) /\ missed[e] = 1)
                PROVE  /\ hb = "sleep" => age'[e] + hbTimer' <= Slack(e)
                       /\ hb = "select" => age'[e] + hbTimer' <= Slack(e) + HbPeriod
    BY <1>15 DEF TimePasses, Waiting, LoopSound, Life!Present
  <2>1. age'[e] <= age[e] + 1 /\ age'[e] \in Nat
    BY <1>15 DEF TimePasses, AtMost, MaxAge, Silence, MonPeriod
  <2>2. hb # "off" => hbTimer' = hbTimer - 1 /\ hbTimer \in Nat
    BY <1>15 DEF TimePasses
  <2>3. hb = "select" => ~Coming(e)
    BY <1>15 DEF TimePasses, Waiting, LoopSound
  <2>. QED
    BY <2>1, <2>2, <2>3
<1>16. CASE LinkTimesOut \/ Monitor \/ UNCHANGED vars
  BY <1>16 DEF LinkTimesOut, Monitor, MonitorTick, CheckEntry, MonitorDone, MonitorStops, vars
<1>. QED
  BY <1>1, <1>2, <1>3, <1>4, <1>5, <1>6, <1>7, <1>8, <1>9, <1>10, <1>11, <1>12, <1>13, <1>14,
     <1>15, <1>16 DEF Next, Settles, Loop, Received

LEMMA LookedAtStep == IInv /\ [Next]_vars => LookedAt'
<1>. SUFFICES ASSUME IInv, [Next]_vars PROVE LookedAt'
  OBVIOUS
<1>. USE HeartbeatAssumption DEF IInv, Sound, TypeOK, LookedAt, Limit, Heard, MonitorSound,
     Silence, MonPeriod, MaxAge, Life!Final, dispVars, monVars
<1>1. CASE MonitorTick
  BY <1>1 DEF MonitorTick
<1>2. ASSUME NEW e \in Exec, CheckEntry(e) PROVE LookedAt'
  BY <1>2 DEF CheckEntry, Overdue
<1>3. CASE MonitorDone \/ MonitorStops
  BY <1>3 DEF MonitorDone, MonitorStops
<1>4. ASSUME NEW e \in Exec, Register(e) PROVE LookedAt'
  BY <1>4 DEF Register
<1>5. ASSUME NEW b \in wire, Recv(b) PROVE LookedAt'
  BY <1>5 DEF Recv, Beat
<1>6. CASE DispatcherSigterm \/ DispatcherExits \/ DispatcherCrashes \/ DispatcherRestarts
  BY <1>6 DEF DispatcherSigterm, DispatcherExits, DispatcherCrashes, DispatcherRestarts,
              DispatcherGone, RegistrySound
<1>7. CASE TimePasses
  BY <1>7 DEF TimePasses, Waiting, AtMost
<1>8. CASE UNCHANGED <<registry, view, age, monVars>>
  BY <1>8
<1>9. CASE \E e \in Exec : Accept(e) \/ Begin(e) \/ Finish(e) \/ Remove(e) \/ Abandon(e)
  BY <1>8, <1>9 DEF Accept, Begin, Finish, Remove, Abandon
<1>10. CASE RuntimeEnds
  BY <1>8, <1>10 DEF RuntimeEnds
<1>. QED
  BY <1>1, <1>2, <1>3, <1>4, <1>5, <1>6, <1>7, <1>8, <1>9, <1>10, MonitorFrame, DispatcherFrame
     DEF Monitor, Received

-----------------------------------------------------------------------------
(* Every step of loop, stream, handler, monitor and clock keeps the invariant. *)
THEOREM Invariance == Spec => []IInv
<1>1. IInv /\ [Next]_vars => IInv'
  BY TypeStep, OutcomeStep, LoopStep, WireStep, RegistryStep, MonitorStep, ViewStep,
     InTimeStep, LookedAtStep DEF IInv, Sound
<1>. QED
  BY <1>1, InitInv, PTL DEF Spec

(* Every state of runtime, stream and dispatcher is well-typed. *)
THEOREM HeartbeatTypeCorrect == Spec => []TypeOK
BY Invariance, PTL DEF IInv

(* The executions map of the dispatcher lags behind the runtime and never says
   what has not been. *)
THEOREM ViewNeverAhead == Spec => []ViewIsPast
BY Invariance, PTL DEF IInv

(* One failure between two heartbeats never reaches the timeout of thirty
   seconds: a round, a backoff and another round take twenty-five. *)
THEOREM OneFailureTolerated == Spec => []FailureIsTolerated
<1>1. IInv => FailureIsTolerated
  <2>. SUFFICES ASSUME IInv, NEW e \in Exec, Running(e), Heard(e), age[e] >= Silence,
                       missed[e] < 2
                PROVE  FALSE
    BY DEF IInv, TypeOK, FailureIsTolerated
  <2>1. hb # "off"
    BY DEF IInv, Sound, LoopSound, Running, Life!Present
  <2>2. missed[e] \in {0, 1} /\ age[e] \in Nat /\ hbTimer \in 0..HbPeriod
    BY DEF IInv, TypeOK
  <2>3. Slack(e) <= 3
    BY <2>2 DEF Slack, HbPeriod, Backoff
  <2>. QED
    BY <2>1, <2>2, <2>3 DEF IInv, InTime, TypeOK, Streaming, RLocked, Slack, HbPeriod, Backoff, Silence
<1>. QED
  BY <1>1, Invariance, PTL

(* The first heartbeat of a registered execution takes at most a backoff and a
   round, and arrives before the monitor's ticker fires a second time. *)
THEOREM FirstBeatBeforeSecondCheck == Spec => []FirstBeatInTime
<1>1. IInv => FirstBeatInTime
  <2>. SUFFICES ASSUME IInv, NEW e \in Exec, Running(e), ~Heard(e), missed[e] = 0
                PROVE  age[e] < MonPeriod
    BY DEF FirstBeatInTime
  <2>1. hb # "off"
    BY DEF IInv, Sound, LoopSound, Running, Life!Present
  <2>2. age[e] \in Nat /\ hbTimer \in 0..HbPeriod
    BY DEF IInv, TypeOK
  <2>. QED
    BY <2>1, <2>2 DEF IInv, InTime, TypeOK, Streaming, RLocked, Slack, HbPeriod, Backoff, MonPeriod
<1>. QED
  BY <1>1, Invariance, PTL

(* An entry that stays silent is reported within a minute, one that was never
   heard of within thirty seconds. *)
THEOREM SilenceIsReported == Spec => []LossDetected
<1>1. IInv => LossDetected
  BY DEF IInv, TypeOK, Sound, MonitorSound, LookedAt, LossDetected, Limit, Heard, Silence, MonPeriod
<1>. QED
  BY <1>1, Invariance, PTL
=============================================================================
