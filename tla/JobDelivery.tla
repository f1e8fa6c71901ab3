----------------------------- MODULE JobDelivery -----------------------------
(***************************************************************************)
(* What queue and dispatcher together promise of a job message: it is owed *)
(* until a task for it has begun, at least once, however often connection  *)
(* or process are lost before; in one life of the process it begins at     *)
(* most one task; and a task makes at most one attempt. Windows, channels, *)
(* slots and acknowledgements do not show.                                 *)
(***************************************************************************)
CONSTANTS Msg, Attempt

VARIABLES
    state,      \* of each message: "none", "owed", "begun" or "settled"
    barred,     \* messages that have begun a task in this life of the process
    tasks,      \* those whose task has yet to make its attempt
    attempts    \* the attempts made for each message

vars == <<state, barred, tasks, attempts>>

Init ==
    /\ state = [m \in Msg |-> "none"]
    /\ barred = {} /\ tasks = {}
    /\ attempts = [m \in Msg |-> {}]

Becomes(m, from, to) ==
    /\ state[m] = from
    /\ state' = [state EXCEPT ![m] = to]

Accept(m) == Becomes(m, "none", "owed") /\ UNCHANGED <<barred, tasks, attempts>>

(* A message whose connection has gone meanwhile stays owed. *)
Begin(m) ==
    /\ m \notin barred
    /\ Becomes(m, "owed", "begun") \/ Becomes(m, "owed", "owed")
    /\ barred' = barred \cup {m} /\ tasks' = tasks \cup {m}
    /\ UNCHANGED attempts

Settle(m) == Becomes(m, "begun", "settled") /\ UNCHANGED <<barred, tasks, attempts>>

Try(m) ==
    /\ m \in tasks
    /\ tasks' = tasks \ {m}
    /\ \E a \in Attempt :
        /\ \A n \in Msg : a \notin attempts[n]
        /\ attempts' = [attempts EXCEPT ![m] = @ \cup {a}]
    /\ UNCHANGED <<state, barred>>

(* A task ends without an attempt. *)
Drop(m) == m \in tasks /\ tasks' = tasks \ {m} /\ UNCHANGED <<state, barred, attempts>>

(* The connection ends: what is not settled is owed again. With the process its
   tasks end. *)
Lose ==
    /\ state' = [m \in Msg |-> IF state[m] = "begun" THEN "owed" ELSE state[m]]
    /\ tasks' \in {tasks, {}}
    /\ UNCHANGED <<barred, attempts>>

NewLife == tasks = {} /\ barred' = {} /\ UNCHANGED <<state, tasks, attempts>>

Next ==
    \/ \E m \in Msg : Accept(m) \/ Begin(m) \/ Settle(m) \/ Try(m) \/ Drop(m)
    \/ Lose \/ NewLife

Spec == Init /\ [][Next]_vars
=============================================================================
