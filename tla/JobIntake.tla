------------------------------ MODULE JobIntake ------------------------------
(***************************************************************************)
(* What CreateJob promises its callers, whatever namespaces, workers and   *)
(* Deployments it makes on the way: a job is stored before it is sent to   *)
(* the broker, "ok" means that all that was asked for has been done, and   *)
(* nothing is undone. An "error" says nothing of what has been done.       *)
(***************************************************************************)
EXTENDS TLAPS

CONSTANTS Call

VARIABLES
    answer,     \* of each call: "none", then "asked", then "ok" or "error"
    wants,      \* the calls that ask for a run of their job
    stored,     \* the calls whose job has its row
    sent        \* the calls whose job has been handed to the broker

vars == <<answer, wants, stored, sent>>

Init ==
    /\ answer = [c \in Call |-> "none"]
    /\ wants = {} /\ stored = {} /\ sent = {}

Answers(c, a) == answer' = [answer EXCEPT ![c] = a]

Ask(c) ==
    /\ answer[c] = "none"
    /\ Answers(c, "asked")
    /\ wants' \in {wants, wants \cup {c}}
    /\ UNCHANGED <<stored, sent>>

(* The last step of a call may be reported as an error all the same. *)
Store(c) ==
    /\ answer[c] = "asked"
    /\ stored' = stored \cup {c}
    /\ Answers(c, IF c \in wants THEN "asked" ELSE "ok") \/ Answers(c, "error")
    /\ UNCHANGED <<wants, sent>>

Send(c) ==
    /\ answer[c] = "asked" /\ c \in wants \cap stored
    /\ sent' = sent \cup {c}
    /\ Answers(c, "ok") \/ Answers(c, "error")
    /\ UNCHANGED <<wants, stored>>

(* Calls fail one by one, or all at once with their process. *)
Fail(calls) ==
    /\ \A c \in calls : answer[c] = "asked"
    /\ answer' = [c \in Call |-> IF c \in calls THEN "error" ELSE answer[c]]
    /\ UNCHANGED <<wants, stored, sent>>

Next ==
    \/ \E c \in Call : Ask(c) \/ Store(c) \/ Send(c)
    \/ \E calls \in SUBSET Call : Fail(calls)

Safe == Init /\ [][Next]_vars

(* Every call is answered. *)
Spec == Safe /\ \A c \in Call : WF_vars(Store(c) \/ Send(c) \/ Fail({c}))

-----------------------------------------------------------------------------
(* "ok" is not said before everything asked for has been done. *)
OkIsDone ==
    \A c \in Call : answer[c] = "ok" => c \in stored /\ (c \in wants => c \in sent)

(* Only what is wanted is sent, and nothing before it is stored. *)
SentInOrder == sent \subseteq wants \cap stored

(* What has been done or answered stands, whatever happens to the service. *)
NothingUndone ==
    [][/\ stored \subseteq stored' /\ sent \subseteq sent'
       /\ \A c \in Call : answer[c] \in {"ok", "error"} => answer'[c] = answer[c]]_vars

-----------------------------------------------------------------------------
Typed ==
    /\ answer \in [Call -> {"none", "asked", "ok", "error"}]
    /\ wants \subseteq Call /\ stored \subseteq Call /\ sent \subseteq Call

(* A call that has not asked yet has nothing done for it. *)
NotAsked == \A c \in Call : answer[c] = "none" => c \notin wants \cup stored \cup sent

IntakeInv == Typed /\ NotAsked /\ OkIsDone /\ SentInOrder

LEMMA IntakeInvariance == Safe => []IntakeInv
<1>1. Init => IntakeInv
  BY DEF Init, IntakeInv, Typed, NotAsked, OkIsDone, SentInOrder
<1>2. IntakeInv /\ [Next]_vars => IntakeInv'
  <2>. SUFFICES ASSUME IntakeInv, [Next]_vars PROVE IntakeInv'
    OBVIOUS
  <2>. USE DEF IntakeInv, Typed, NotAsked, OkIsDone, SentInOrder, Answers
  <2>1. ASSUME NEW c \in Call, Ask(c) PROVE IntakeInv'
    BY <2>1 DEF Ask
  <2>2. ASSUME NEW c \in Call, Store(c) PROVE IntakeInv'
    BY <2>2 DEF Store
  <2>3. ASSUME NEW c \in Call, Send(c) PROVE IntakeInv'
    BY <2>3 DEF Send
  <2>4. ASSUME NEW calls \in SUBSET Call, Fail(calls) PROVE IntakeInv'
    BY <2>4 DEF Fail
  <2>5. CASE UNCHANGED vars
    BY <2>5 DEF vars
  <2>. QED
    BY <2>1, <2>2, <2>3, <2>4, <2>5 DEF Next
<1>. QED
  BY <1>1, <1>2, PTL DEF Safe

(* Whoever keeps this promise says "ok" of what it has done ... *)
THEOREM OkMeansDone == Safe => []OkIsDone
BY IntakeInvariance, PTL DEF IntakeInv

(* ... in the order in which a receiver of the message may rely on it ... *)
THEOREM MessagesFollowRows == Safe => []SentInOrder
BY IntakeInvariance, PTL DEF IntakeInv

(* ... and goes back on nothing. *)
THEOREM EffectsStand == Safe => NothingUndone
<1>1. IntakeInv /\ [Next]_vars =>
        [/\ stored \subseteq stored' /\ sent \subseteq sent'
         /\ \A c \in Call : answer[c] \in {"ok", "error"} => answer'[c] = answer[c]]_vars
  BY DEF IntakeInv, Typed, Next, Ask, Store, Send, Fail, Answers
<1>. QED
  BY <1>1, IntakeInvariance, PTL DEF Safe, NothingUndone
=============================================================================
