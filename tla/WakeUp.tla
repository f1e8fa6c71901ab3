-------------------------------- MODULE WakeUp --------------------------------
(***************************************************************************)
(* What ScaleWorker promises to concurrent callers of one worker: a test   *)
(* and set. Each call decides in a single instant, on the replicas of that *)
(* instant; how it gets there, with resource versions, a recovery, a lag   *)
(* in the status and a watch, does not show.                               *)
(***************************************************************************)
EXTENDS Naturals

CONSTANTS Call, MaxReplicas

VARIABLES
    exists,     \* the Deployment exists
    replicas,   \* what it asks for
    outcome     \* of each call: "open", then "woke" or "awake", then "picked" or "failed"

vars == <<exists, replicas, outcome>>

Init == exists = TRUE /\ replicas = 0 /\ outcome = [c \in Call |-> "open"]

Becomes(c, from, to) ==
    /\ outcome[c] \in from
    /\ \E o \in to : outcome' = [outcome EXCEPT ![c] = o]

(* The call sets a worker at zero replicas to one; it need not be told so. *)
Wakes(c) ==
    /\ exists /\ replicas = 0 /\ 1 <= MaxReplicas
    /\ replicas' = 1
    /\ Becomes(c, {"open"}, {"woke", "failed"})
    /\ UNCHANGED exists

(* The call finds it set by somebody else and leaves it alone. *)
FindsAwake(c) ==
    /\ exists /\ replicas > 0
    /\ Becomes(c, {"open"}, {"awake"})
    /\ UNCHANGED <<exists, replicas>>

FindsPod(c) == Becomes(c, {"woke", "awake"}, {"picked"}) /\ UNCHANGED <<exists, replicas>>

Fails(c) == Becomes(c, {"open", "woke", "awake"}, {"failed"}) /\ UNCHANGED <<exists, replicas>>

(* A call that finds no Deployment creates one, asleep. *)
Recreates(c) ==
    /\ ~exists
    /\ exists' = TRUE /\ replicas' = 0
    /\ outcome[c] = "open"
    /\ outcome' = outcome \/ Becomes(c, {"open"}, {"failed"})

(* Anybody else sets a number, or deletes the Deployment. *)
Others ==
    /\ exists
    /\ \/ replicas' \in 0 .. MaxReplicas /\ UNCHANGED exists
       \/ exists' = FALSE /\ replicas' = 0
    /\ UNCHANGED outcome

Act(c) == Wakes(c) \/ FindsAwake(c) \/ FindsPod(c) \/ Fails(c)

Next == Others \/ \E c \in Call : Act(c) \/ Recreates(c)

(* Every call comes to its end. *)
Spec == Init /\ [][Next]_vars /\ \A c \in Call : WF_vars(Act(c))
=============================================================================
