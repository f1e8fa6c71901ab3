----------------------------- MODULE MCHeartbeat -----------------------------
(* Constants of the small instance of Heartbeat. *)
EXTENDS Heartbeat

CONSTANTS e1, e2

MCExec == {e1, e2}
MCAnswered == {e1}
MCPanics == {e2}
=============================================================================
