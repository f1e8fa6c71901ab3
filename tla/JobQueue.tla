------------------------------ MODULE JobQueue ------------------------------
(***************************************************************************)
(* The RabbitMQ topology that shared/rabbitmq declares and the client      *)
(* operations the services perform on it: two direct exchanges, two        *)
(* queues, a manual-acknowledgement consumer with a prefetch window.       *)
(*                                                                         *)
(* A queue is the set of messages it holds: the code never relies on their *)
(* order, and a requeued message may come back in any position.            *)
(***************************************************************************)
EXTENDS Naturals, FiniteSets

CONSTANTS
    Msg,            \* the messages that publishers may hand to the broker
    Garbled,        \* the messages whose body does not parse as a JobMessage
    MaxWorkers      \* env MAX_WORKERS: the prefetch window (and, in the
                    \* dispatcher, the number of execution slots)

ASSUME MsgAssumption == IsFiniteSet(Msg) /\ Garbled \subseteq Msg
ASSUME MaxWorkersAssumption == MaxWorkers \in Nat \ {0}

JobsExchange == "wardu.jobs"
JobsDLX      == "wardu.jobs.dlx"

JobsQueue    == "wardu.jobs"
FailedQueue  == "wardu.jobs.failed"

Queue == {JobsQueue, FailedQueue}

(* The bindings of setup(): exchange, routing key, queue. *)
Binding == { <<JobsExchange, "job",    JobsQueue>>,
             <<JobsDLX,      "failed", FailedQueue>> }

(* A direct exchange copies a message into every queue bound under its key,
   and drops it when there is none (the publish is not "mandatory").       *)
Routed(exchange, key) == { q \in Queue : <<exchange, key, q>> \in Binding }

Route(q, exchange, key, m) ==
    [k \in Queue |-> IF k \in Routed(exchange, key) THEN q[k] \cup {m} ELSE q[k]]

VARIABLES
    queue,      \* [Queue -> SUBSET Msg]: ready messages at the broker
    published,  \* the messages the broker has accepted so far
    conn,       \* the consumer's connection: "open" or "closed"
    unacked,    \* delivered to the consumer and not settled
    buffer      \* the Go channel `msgs`: delivered, not yet received

queueVars == <<queue, published, conn, unacked, buffer>>

QueueTypeOK ==
    /\ queue \in [Queue -> SUBSET Msg]
    /\ published \subseteq Msg
    /\ conn \in {"open", "closed"}
    /\ unacked \subseteq Msg
    /\ buffer \subseteq Msg

QueueInit ==
    /\ queue = [k \in Queue |-> {}]
    /\ published = {}
    /\ conn = "open"
    /\ unacked = {}
    /\ buffer = {}

-----------------------------------------------------------------------------
(* PublishJob: a persistent message on JobsExchange under the key "job". A
   publish that returns an error or never reaches the broker changes nothing. *)
PublishJob(m) ==
    /\ m \notin published
    /\ published' = published \cup {m}
    /\ queue' = Route(queue, JobsExchange, "job", m)
    /\ UNCHANGED <<conn, unacked, buffer>>

(* The broker pushes ready messages while the window set by Qos has room. *)
Deliver(m) ==
    /\ conn = "open"
    /\ m \in queue[JobsQueue]
    /\ Cardinality(unacked) < MaxWorkers
    /\ queue' = [queue EXCEPT ![JobsQueue] = @ \ {m}]
    /\ unacked' = unacked \cup {m}
    /\ buffer' = buffer \cup {m}
    /\ UNCHANGED <<published, conn>>

(* Mutated form: deliveries are settled as they are received (auto-ack). *)
ReceiveAutoAck(m) ==
    /\ m \in buffer
    /\ buffer' = buffer \ {m}
    /\ unacked' = unacked \ {m}
    /\ UNCHANGED <<queue, published, conn>>

(* Receiving from the Go channel leaves the message unsettled. *)
Receive(m) ==
    /\ m \in buffer
    /\ buffer' = buffer \ {m}
    /\ UNCHANGED <<queue, published, conn, unacked>>

(* Mutated form: the handled message goes back to the queue. *)
AckRequeues(m) ==
    /\ unacked' = unacked \ {m}
    /\ queue' = [queue EXCEPT ![JobsQueue] = @ \cup {m}]
    /\ UNCHANGED <<published, conn, buffer>>

(* msg.Ack(false). On a closed connection the call fails and changes nothing:
   the broker has already taken everything unsettled back. *)
Ack(m) ==
    /\ unacked' = unacked \ {m}
    /\ UNCHANGED <<queue, published, conn, buffer>>

(* Mutated form: an unparsable message is skipped without a Nack. *)
RejectForgotten(m) ==
    /\ m \in buffer
    /\ buffer' = buffer \ {m}
    /\ UNCHANGED <<queue, published, conn, unacked>>

(* msg.Nack(false, false): the broker dead-letters the message through JobsDLX
   and, as the queue sets no dead-letter routing key, under the key it was
   published with. *)
Reject(m) ==
    /\ m \in buffer
    /\ buffer' = buffer \ {m}
    /\ unacked' = unacked \ {m}
    /\ queue' = Route(queue, JobsDLX, "job", m)
    /\ UNCHANGED <<published, conn>>

(* The connection ends, by rabbitmq.Close, a network failure or the end of the
   process: the broker requeues what is unsettled and the client library drops
   what the consumer had not received. *)
Disconnect ==
    /\ conn' = "closed"
    /\ queue' = [queue EXCEPT ![JobsQueue] = @ \cup unacked]
    /\ unacked' = {}
    /\ buffer' = {}
    /\ UNCHANGED published

(* rabbitmq.New: dial, declare the topology (a no-op the second time), consume. *)
Connect ==
    /\ conn = "closed"
    /\ conn' = "open"
    /\ UNCHANGED <<queue, published, unacked, buffer>>
=============================================================================
