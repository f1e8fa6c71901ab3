-------------------------- MODULE NamespaceLimits --------------------------
(***************************************************************************)
(* The numbers of a namespace (shared/k8s/namespace.go): the row, the      *)
(* ResourceQuota and the LimitRange made from it, and the worker pods the  *)
(* cluster then admits. Module Scheduler has the order and the failures of *)
(* the requests; here they succeed. CPU is in thousandths, memory in MiB.  *)
(***************************************************************************)
EXTENDS Naturals

CONSTANTS
    Ops,        \* what an operator may put into a row of limits, 0 for not given
    None

Limit == {"MaxPods", "CPURequestMilli", "CPULimitMilli", "MemoryRequestMB", "MemoryLimitMB"}

VARIABLES
    row,        \* table namespaces, or None
    quota,      \* the ResourceQuota's hard limits, or None
    defaults,   \* the LimitRange's defaults for a container, or None
    pods        \* worker pods that exist

vars == <<row, quota, defaults, pods>>

Resource == Limit \ {"MaxPods"}

buildDefaultNamespace ==
    [l \in Limit |->
        CASE l = "MaxPods" -> 20
          [] l = "CPURequestMilli" -> 100
          [] l = "CPULimitMilli" -> 500
          [] l = "MemoryRequestMB" -> 256
          [] l = "MemoryLimitMB" -> 512]

(* Positive numbers replace the defaults. *)
WithOverrides(ops) == [l \in Limit |-> IF ops[l] > 0 THEN ops[l] ELSE buildDefaultNamespace[l]]

(* A pod of CreateWorker's Deployment: the containers "runtime" and "worker",
   neither of which says what it needs. *)
Containers == 2

Uses(l) == IF l = "MaxPods" THEN 1 ELSE Containers * defaults[l]

Init ==
    /\ row \in { WithOverrides(ops) : ops \in Ops }
    /\ quota = None /\ defaults = None
    /\ pods = 0

(* createNamespace, createResourceQuota, createLimitRange: one set of numbers
   for the namespace and for each container in it. *)
CreateNamespace ==
    /\ quota = None
    /\ quota' = WithOverrides(row)
    /\ defaults' = [l \in Resource |-> WithOverrides(row)[l]]
    /\ UNCHANGED <<row, pods>>

(* The cluster creates a pod for a woken worker if the quota has room for it. *)
Admitted == \A l \in Limit : (pods + 1) * Uses(l) <= quota[l]

CreatePod ==
    /\ quota # None
    /\ Admitted
    /\ pods' = pods + 1
    /\ UNCHANGED <<row, quota, defaults>>

(* The namespace is deleted with all that is in it. *)
OperatorDeletes ==
    /\ quota # None
    /\ quota' = None /\ defaults' = None /\ pods' = 0
    /\ UNCHANGED row

Next == CreateNamespace \/ CreatePod \/ OperatorDeletes

Spec == Init /\ [][Next]_vars
=============================================================================
