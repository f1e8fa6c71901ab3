----------------------- MODULE NamespaceLimitsProofs -----------------------
(***************************************************************************)
(* What the quota of a namespace does to the pods in it, for every row of  *)
(* limits: raising them does not help.                                     *)
(***************************************************************************)
EXTENDS NamespaceLimits, Integers, TLAPS

(* Whole numbers, the database's int columns. *)
OpsAreNumbers == Ops \subseteq [Limit -> Int]

(* Every limit of a row is positive; quota and defaults repeat the row. *)
LimitsInv ==
    /\ \A l \in Limit : row[l] \in Nat \ {0}
    /\ row = [l \in Limit |-> row[l]]
    /\ quota # None => quota = row /\ defaults = [l \in Resource |-> row[l]]
    /\ pods = 0

LEMMA DefaultsPositive == \A l \in Limit : buildDefaultNamespace[l] \in Nat \ {0}
BY DEF buildDefaultNamespace, Limit

(* A row that has its limits is not changed by defaulting it once more. *)
LEMMA OverridesIdempotent ==
    ASSUME LimitsInv
    PROVE  WithOverrides(row) = row
BY DEF LimitsInv, WithOverrides

(* The containers of one pod ask for twice the limit, and the quota has it once. *)
LEMMA NeverAdmitted ==
    ASSUME LimitsInv, quota # None
    PROVE  ~Admitted
<1>1. "CPURequestMilli" \in Resource /\ "CPURequestMilli" \in Limit
  BY DEF Resource, Limit
<1>2. Uses("CPURequestMilli") = 2 * row["CPURequestMilli"]
  BY <1>1 DEF LimitsInv, Uses, Containers
<1>. QED
  BY <1>1, <1>2 DEF LimitsInv, Admitted

(* models/namespace.go:17 lets a namespace have MaxPods pods, 20 by default. In fact
   createResourceQuota and createLimitRange let the cluster admit none, whatever
   numbers the row is given. *)
THEOREM NoPodEver == ASSUME OpsAreNumbers PROVE Spec => [](pods = 0)
<1>1. Init => LimitsInv
  BY DefaultsPositive DEF OpsAreNumbers, Init, LimitsInv, WithOverrides
<1>2. LimitsInv /\ [Next]_vars => LimitsInv'
  <2>. SUFFICES ASSUME LimitsInv, [Next]_vars PROVE LimitsInv'
    OBVIOUS
  <2>1. CASE CreateNamespace
    BY <2>1, OverridesIdempotent DEF CreateNamespace, LimitsInv
  <2>2. CASE CreatePod
    BY <2>2, NeverAdmitted DEF CreatePod, LimitsInv
  <2>3. CASE OperatorDeletes
    BY <2>3 DEF OperatorDeletes, LimitsInv
  <2>4. CASE UNCHANGED vars
    BY <2>4 DEF vars, LimitsInv
  <2>. QED
    BY <2>1, <2>2, <2>3, <2>4 DEF Next
<1>3. LimitsInv => pods = 0
  BY DEF LimitsInv
<1>. QED
  BY <1>1, <1>2, <1>3, PTL DEF Spec
=============================================================================
