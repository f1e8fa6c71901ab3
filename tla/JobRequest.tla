----------------------------- MODULE JobRequest -----------------------------
(***************************************************************************)
(* What is asked of a job and what becomes of it on the way: the gateway's *)
(* request (BuildJobProto), the row, the overrides of one run              *)
(* (buildOverridesOps), their JSON in the message, and their application   *)
(* (ApplyOverrides). Pure functions; priorities, ids and images are left   *)
(* out.                                                                    *)
(***************************************************************************)
EXTENDS Naturals, FiniteSets

CONSTANTS
    Value,      \* values of a field other than the zero value of its type
    Zero,       \* an empty slice, or the number 0
    Absent,     \* not given: nil
    Null        \* the payload of a request that has none: the JSON text null

ASSUME JobRequestAssumption ==
    /\ Null \in Value
    /\ Zero \notin Value /\ Absent \notin Value \cup {Zero}

Slice == {"payload", "entrypoint"}
Number == {"idle_timeout_seconds", "max_attempts", "timeout_seconds"}
Field == Slice \cup Number

(* A Go struct with pointers for the numbers, and one with plain fields. *)
Optional == [Field -> Value \cup {Zero, Absent}]
Plain == [Field -> Value \cup {Zero}]

(* Mutated form: the payload is passed on without being marshalled. *)
MarshalRaw(payload) == payload

(* json.Marshal of a map: nil becomes null, which is not empty. *)
Marshal(payload) == IF payload = Absent THEN Null ELSE payload

(* A field that is not given is left at its zero value: the defaults of
   openapi.yml are applied nowhere. *)
BuildJobProto(req) ==
    [f \in Field |->
        IF f = "payload" THEN Marshal(req[f])
        ELSE IF req[f] = Absent THEN Zero ELSE req[f]]

(* An empty slice counts as not given; a number counts as soon as it is there,
   whatever it is. *)
Given(ops) == { f \in Field : ops[f] # Absent /\ (f \in Slice => ops[f] # Zero) }

(* nil or the overrides of a RunJob request. *)
NoOverrides == [f \in Field |-> Absent]

BuildOverrides(req) == [f \in Field |-> IF f \in Given(req) THEN req[f] ELSE Absent]

(* Mutated form: plain numbers with omitempty, as the fields of Job are. *)
EncodePlain(ops) == [f \in { g \in Given(ops) : ops[g] # Zero } |-> ops[f]]

(* The JSON object: omitempty leaves out empty slices and nil pointers, not a
   pointer to 0. *)
Encode(ops) == [f \in Given(ops) |-> ops[f]]

Decode(body) == [f \in Field |-> IF f \in DOMAIN body THEN body[f] ELSE Absent]

(* The row as loaded, changed in place. *)
ApplyOverrides(job, ops) ==
    [f \in Field |-> IF f \in Given(ops) THEN ops[f] ELSE job[f]]

(* What runtime.Run is given of it. Nothing reads the other two fields. *)
RunField == {"payload", "entrypoint", "timeout_seconds"}
RunRequest(job) == [f \in RunField |-> job[f]]
=============================================================================
