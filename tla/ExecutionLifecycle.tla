-------------------------- MODULE ExecutionLifecycle --------------------------
(***************************************************************************)
(* What a runtime promises about the executions it accepts: each entry of  *)
(* its map goes from pending to running to exactly one final status, and   *)
(* only then out of the map, unless the runtime itself ends first. The     *)
(* exception are executions whose start panics: their entries go while     *)
(* they are running, they never get a final status, and the runtime ends   *)
(* after them.                                                             *)
(***************************************************************************)
CONSTANTS
    Exec,           \* execution ids
    Panics          \* those whose start panics

VARIABLES
    state,          \* [Exec -> State]: the entry of each id in the map
    broken          \* an entry has gone by a panic: the runtime is about to end

vars == <<state, broken>>

Final == {"succeeded", "failed"}
State == {"absent", "pending", "running", "gone"} \cup Final
Present == {"pending", "running"} \cup Final

Init == state = [e \in Exec |-> "absent"] /\ broken = FALSE

Move(e, from, to) ==
    /\ state[e] \in from
    /\ \E s \in to : state' = [state EXCEPT ![e] = s]

Accept(e) == Move(e, {"absent"}, {"pending"}) /\ UNCHANGED broken
Begin(e)  == Move(e, {"pending"}, {"running"}) /\ UNCHANGED broken
Finish(e) == e \notin Panics /\ Move(e, {"running"}, Final) /\ UNCHANGED broken
Remove(e) == Move(e, Final, {"gone"}) /\ UNCHANGED broken

(* A panic runs the deferred functions of its goroutine before it ends the
   process, and so takes the entry out of the map beside its neighbours. *)
Abandon(e) == e \in Panics /\ Move(e, {"running"}, {"gone"}) /\ broken' = TRUE

(* The runtime ends: every entry is lost at once. *)
Lose ==
    /\ state' = [e \in Exec |-> IF state[e] \in Present THEN "gone" ELSE state[e]]
    /\ broken' = FALSE

Advance(e) == Begin(e) \/ Finish(e) \/ Remove(e) \/ Abandon(e)

Next == Lose \/ \E e \in Exec : Accept(e) \/ Advance(e)

(* An accepted execution does not stay, nor does a runtime after a panic. *)
Spec ==
    /\ Init /\ [][Next]_vars
    /\ \A e \in Exec : WF_vars(Advance(e))
    /\ WF_vars(broken /\ Lose)
=============================================================================
