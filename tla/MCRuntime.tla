------------------------------ MODULE MCRuntime ------------------------------
(* Constants of the small instances of Runtime. *)
EXTENDS Runtime, TLC

CONSTANTS e1, e2

(* One execution with a timeout of 300 s, one with 0.5 s, which is none. *)
MCExec == {e1, e2}
MCTimeouts == e1 :> 3000 @@ e2 :> 5

(* The second one's job was submitted without an entrypoint. *)
OneEntrypoint == {e1}
=============================================================================
