---------------------------- MODULE MCDispatcher ----------------------------
(* Constants of the small instances of Dispatcher. *)
EXTENDS Dispatcher, TLC

CONSTANTS m1, m2, bad, j1, ghost

MCMsg == {m1, m2, bad}
MCGarbled == {bad}
MCJob == {j1, ghost}
MCStoredJob == {j1}

(* Two pushes of one stored job. *)
TwoPushes == m1 :> j1 @@ m2 :> j1

(* The second message names a job id that has no row. *)
OneUnknown == m1 :> j1 @@ m2 :> ghost
=============================================================================
