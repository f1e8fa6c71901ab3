--------------------------- MODULE MCWorkerScaling ---------------------------
(* Constants of the small instances of WorkerScaling. *)
EXTENDS WorkerScaling, TLC

CONSTANTS c1, c2

MCCall == {c1, c2}
=============================================================================
