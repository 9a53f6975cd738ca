------------------------------- MODULE Broker -------------------------------
(***************************************************************************)
(* RabbitMQ as src/common/queue.py uses it, and the consumer wrapper every *)
(* stage runs under: acknowledge, THEN call the handler, and swallow any   *)
(* exception it raises.  Each stage is one process in one container with   *)
(* one thread and prefetch 1, so it holds at most one message.             *)
(***************************************************************************)
EXTENDS Envelope

VARIABLES
    queue,      \* [QueueName -> Seq(Message)]
    discovery,  \* the discovery.candidate queue, Seq(Candidate)
    hand,       \* [Service -> Message or NoMessage]: what the handler works on
    step        \* [Service -> Step]: how far the handler has come

brokerVars == <<queue, discovery, hand, step>>

QueueName == {"raw.crawl", "telegram.raw", "sanitized", "analysis.ready", "ai.output"}

Service == {"sanitizer", "analysis", "ai_layer", "db_writer"}

(* Which queues start_consumer / start_multi_consumer subscribe a stage to. *)
Subscribed(s) ==
    CASE s = "sanitizer" -> {"raw.crawl", "telegram.raw"}
      [] s = "analysis"  -> {"sanitized"}
      [] s = "ai_layer"  -> {"analysis.ready"}
      [] s = "db_writer" -> {"ai.output"}

Step ==
    {"idle", "taken",                \* no message; acknowledged, nothing done yet
     "linking",                      \* analysis: publishing discovered onion links
     "classified",                   \* ai_layer: envelope built, not yet published
     "index", "graph", "reputation"} \* db_writer: the stores still to be written

BrokerTypeOK ==
    /\ queue \in [QueueName -> Seq(Message)]
    /\ discovery \in Seq(Candidate)
    /\ hand \in [Service -> Message \cup {NoMessage}]
    /\ step \in [Service -> Step]

BrokerInit ==
    /\ queue = [q \in QueueName |-> <<>>]
    /\ discovery = <<>>
    /\ hand = [s \in Service |-> NoMessage]
    /\ step = [s \in Service |-> "idle"]

(***************************************************************************)
(* Parts of steps                                                          *)
(***************************************************************************)
Publish(q, m) == queue' = [queue EXCEPT ![q] = Append(@, m)]

Finish(s) ==
    /\ hand' = [hand EXCEPT ![s] = NoMessage]
    /\ step' = [step EXCEPT ![s] = "idle"]

Advance(s, to) ==
    /\ step' = [step EXCEPT ![s] = to]
    /\ UNCHANGED hand

(***************************************************************************)
(* Consumer steps                                                          *)
(***************************************************************************)
(* The wrapper acknowledges before it calls the handler: from here on the  *)
(* only copy of the message is the one in the process's memory.            *)
Take(s, q) ==
    /\ step[s] = "idle"
    /\ queue[q] # <<>>
    /\ hand' = [hand EXCEPT ![s] = Head(queue[q])]
    /\ step' = [step EXCEPT ![s] = "taken"]
    /\ queue' = [queue EXCEPT ![q] = Tail(@)]
    /\ UNCHANGED discovery

(* The connection dies with the acknowledgement still unsent on the wire,  *)
(* so the broker keeps the message and delivers it again after reconnect.  *)
(* A stage that publishes does so on that same dead connection, fails, and *)
(* has no effect at all; db_writer publishes nothing, so its handler runs  *)
(* to the end on a message it will be given a second time.                 *)
TakeUnacknowledged ==
    /\ step["db_writer"] = "idle"
    /\ queue["ai.output"] # <<>>
    /\ hand' = [hand EXCEPT !["db_writer"] = Head(queue["ai.output"])]
    /\ step' = [step EXCEPT !["db_writer"] = "taken"]
    /\ UNCHANGED <<queue, discovery>>

(* The handler raises (a publish or a database call failed) and the        *)
(* wrapper's "except Exception: pass" drops the message, or the process    *)
(* dies with it.  db_writer's later stores catch their own errors, so only *)
(* its first write can raise.                                              *)
CallbackRaises(s) ==
    /\ step[s] # "idle"
    /\ s = "db_writer" => step[s] = "taken"
    /\ Finish(s)
    /\ UNCHANGED <<queue, discovery>>

(* RabbitMQ's data directory is a tmpfs: a broker restart empties the      *)
(* "durable" queues.                                                       *)
BrokerRestart ==
    /\ queue' = [q \in QueueName |-> <<>>]
    /\ discovery' = <<>>
    /\ UNCHANGED <<hand, step>>
=============================================================================
