---------------------------- MODULE MCSubmission ----------------------------
(* Constants of the small instance of Submission. *)
EXTENDS Submission, TLC

CONSTANTS c1, c2, p1, a, b, null, nil, default

MCCall == {c1, c2}
MCPush == {p1}
MCValue == {a, b, null, default}

(* Everything given; only what openapi.yml requires; no payload, zeros. *)
MCRequests ==
    { [f \in Field |-> a],
      [f \in Field |-> IF f = "payload" THEN a ELSE nil],
      [f \in Field |-> IF f = "payload" THEN nil ELSE Zero] }

(* Nothing; everything; explicit zeros and empty slices; the payload only. *)
MCOverrides ==
    { NoOverrides,
      [f \in Field |-> b],
      [f \in Field |-> Zero],
      [f \in Field |-> IF f = "payload" THEN b ELSE nil] }
=============================================================================
