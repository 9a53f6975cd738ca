----------------------------- MODULE QueueClient -----------------------------
(***************************************************************************)
(* src/common/queue.py, the consuming side in detail: one process under    *)
(* consume_with_retry / consume_multi_with_retry, its connection, and what *)
(* the broker knows of it.  Broker.tla takes from here that a message is   *)
(* acknowledged before it is handled and comes again only if that          *)
(* acknowledgement is lost.  A channel lives and dies with its connection, *)
(* except that the broker may close it alone.                              *)
(***************************************************************************)
EXTENDS Naturals, Sequences, FiniteSets

CONSTANTS
    Message,
    Queue,            \* the queues this process consumes
    QueueOf,          \* [Message -> Queue]
    MaxRetries,       \* max_retries
    MaxDisturbances   \* bound: disturbances in one behaviour

ASSUME QueueClientAssumption ==
    /\ QueueOf \in [Message -> Queue]
    /\ MaxRetries \in Nat \ {0}
    /\ MaxDisturbances \in Nat

VARIABLES
    \* the broker
    up,             \* can it be reached?
    arrived,        \* what was ever published to this process's queues
    ready,          \* waiting in a queue
    unacked,        \* delivered, acknowledgement not read yet
    wire,           \* written by this process, not read yet: Seq(Frame)
    sockets,        \* connections of this process that are open
    \* the process
    pc,             \* where it is in the loop of consume_with_retry
    connection,     \* what _connection and _channel are worth
    attempt,        \* attempt
    buffer,         \* delivered, the callback not called yet
    inHand,         \* {m} while the callback works on m
    publishes,      \* does its callback publish (all stages but db_writer)?
    \* history, in no line of the code
    ended,          \* how the process last ended
    effects,        \* [Message -> Nat]: results published or stored
    ackLost,        \* [Message -> Nat]: acknowledgements that never arrived
    shocks,         \* disturbances the process has met since it started
    disturbances    \* all disturbances

brokerSide == <<up, arrived, ready, unacked, wire, sockets>>
clientSide == <<pc, connection, attempt, buffer, inHand, publishes>>
history == <<ended, effects, ackLost, shocks, disturbances>>
vars == <<brokerSide, clientSide, history>>

Frame == [kind : {"ack", "publish"}, message : Message]

(* "dropped" is a dead connection whose death nobody has noticed: is_open  *)
(* is still true.  "no_channel" is an open one whose channel is closed.    *)
Connection == {"none", "open", "dropped", "no_channel", "closed"}

TypeOK ==
    /\ up \in BOOLEAN
    /\ arrived \in SUBSET Message
    /\ ready \in SUBSET Message
    /\ unacked \in SUBSET Message
    /\ wire \in Seq(Frame)
    /\ sockets \in Nat
    /\ pc \in {"start", "consume", "callback", "backoff", "stopped"}
    /\ connection \in Connection
    /\ attempt \in Nat
    /\ buffer \in SUBSET Message
    /\ inHand \in SUBSET Message
    /\ publishes \in BOOLEAN
    /\ ended \in {"never", "escalated", "silent", "killed"}
    /\ effects \in [Message -> Nat]
    /\ ackLost \in [Message -> Nat]
    /\ shocks \in Nat
    /\ disturbances \in 0..MaxDisturbances

Init ==
    /\ up = TRUE
    /\ arrived = {} /\ ready = {} /\ unacked = {} /\ wire = <<>>
    /\ sockets = 0
    /\ pc = "start" /\ connection = "none" /\ attempt = 0
    /\ buffer = {} /\ inHand = {}
    /\ publishes \in BOOLEAN
    /\ ended = "never"
    /\ effects = [m \in Message |-> 0]
    /\ ackLost = [m \in Message |-> 0]
    /\ shocks = 0 /\ disturbances = 0

(***************************************************************************)
(* The broker                                                              *)
(***************************************************************************)
Arrive(m) ==
    /\ up
    /\ m \notin arrived
    /\ arrived' = arrived \cup {m}
    /\ ready' = ready \cup {m}
    /\ UNCHANGED <<up, unacked, wire, sockets, clientSide, history>>

(* basic_qos(prefetch_count=1) holds for each consumer, that is for each   *)
(* queue.  The acknowledgement comes before the callback, so the next      *)
(* message is already in the buffer while the callback runs.               *)
Deliver(m) ==
    /\ connection = "open"
    /\ pc \in {"consume", "callback"}
    /\ m \in ready
    /\ \A n \in unacked : QueueOf[n] # QueueOf[m]
    /\ ready' = ready \ {m}
    /\ unacked' = unacked \cup {m}
    /\ buffer' = buffer \cup {m}
    /\ UNCHANGED <<up, arrived, wire, sockets, pc, connection, attempt, inHand,
                   publishes, history>>

(* The broker reads what was written, in the order it was written.         *)
ReadFrame ==
    /\ wire # <<>>
    /\ wire' = Tail(wire)
    /\ LET f == Head(wire) IN
          IF f.kind = "ack"
          THEN unacked' = unacked \ {f.message} /\ UNCHANGED effects
          ELSE effects' = [effects EXCEPT ![f.message] = @ + 1] /\ UNCHANGED unacked
    /\ UNCHANGED <<up, arrived, ready, sockets, clientSide, ended, ackLost, shocks,
                   disturbances>>

(* What the broker does when it loses the channel: unacknowledged messages *)
(* are queued again, and what was on the wire is gone.                     *)
Requeue ==
    /\ ready' = ready \cup unacked
    /\ unacked' = {}
    /\ wire' = <<>>
    /\ ackLost' = [m \in Message |->
          IF [kind |-> "ack", message |-> m] \in {wire[i] : i \in 1..Len(wire)}
          THEN ackLost[m] + 1 ELSE ackLost[m]]

(***************************************************************************)
(* connect, close                                                          *)
(***************************************************************************)
IsOpen == connection \in {"open", "dropped", "no_channel"}

(* A mistake to catch: a connection for every call.                        *)
ConnectAlways ==
    /\ up
    /\ connection' = "open"
    /\ sockets' = sockets + 1

(* connect: an open connection is kept, and its channel is not looked at.  *)
Connect ==
    \/ IsOpen /\ UNCHANGED <<connection, sockets>>
    \/ ~IsOpen /\ up /\ connection' = "open" /\ sockets' = sockets + 1

(* Is there a connection of ours the broker would see closing?             *)
Held == IF connection \in {"open", "no_channel"} THEN 1 ELSE 0

(* notify_critical: stderr at least, Slack if it is configured.            *)
NotifyCritical == ended' = "escalated"

(* The process ends, for whatever reason; main's finally closes.           *)
End ==
    /\ pc' = "stopped"
    /\ connection' = "none"
    /\ sockets' = 0
    /\ buffer' = {}
    /\ inHand' = {}

(***************************************************************************)
(* consume_with_retry                                                      *)
(***************************************************************************)
(* A mistake to catch: the loop goes on after the escalation.              *)
RetryForEver ==
    /\ UNCHANGED <<sockets, inHand>>
    /\ buffer' = {}
    /\ connection' = IF connection = "dropped" THEN "closed" ELSE connection
    /\ IF attempt + 1 >= MaxRetries
       THEN NotifyCritical /\ pc' = "start" /\ UNCHANGED attempt
       ELSE pc' = "backoff" /\ attempt' = attempt + 1 /\ UNCHANGED ended

(* The except branch: the attempts are counted over the whole life of the  *)
(* process, and the last one is escalated and raised.                      *)
Retry ==
    /\ attempt' = attempt + 1
    /\ \/ /\ attempt' >= MaxRetries
          /\ NotifyCritical
          /\ End
       \/ /\ attempt' < MaxRetries
          /\ pc' = "backoff"
          /\ connection' = IF connection = "dropped" THEN "closed" ELSE connection
          /\ buffer' = {}
          /\ UNCHANGED <<sockets, inHand, ended>>

(* start_consumer: connect, basic_qos, basic_consume.                      *)
StartConsumer ==
    /\ pc = "start"
    /\ connection \in {"none", "open"}
    /\ Connect
    /\ pc' = "consume"
    /\ UNCHANGED <<up, arrived, ready, unacked, wire, attempt, buffer, inHand,
                   publishes, history>>

StartConsumerRaises ==
    /\ pc = "start"
    /\ \/ connection \in {"dropped", "no_channel"}
       \/ ~IsOpen /\ ~up
    /\ Retry
    /\ UNCHANGED <<up, arrived, ready, unacked, wire, publishes, effects, ackLost,
                   shocks, disturbances>>

Write(kind, m) == wire' = Append(wire, [kind |-> kind, message |-> m])

(* wrapper: basic_ack first, then the callback.  On a dead connection or   *)
(* channel whose death has not been noticed the write succeeds and reaches *)
(* nobody, and the callback runs all the same.                             *)
Acknowledge(m) ==
    /\ pc = "consume"
    /\ m \in buffer
    /\ \/ connection = "open" /\ Write("ack", m) /\ UNCHANGED ackLost
       \/ /\ connection \in {"dropped", "no_channel"}
          /\ ackLost' = [ackLost EXCEPT ![m] = @ + 1]
          /\ UNCHANGED wire
    /\ buffer' = buffer \ {m}
    /\ inHand' = {m}
    /\ pc' = "callback"
    /\ UNCHANGED <<up, arrived, ready, unacked, sockets, connection, attempt,
                   publishes, ended, effects, shocks, disturbances>>

(* start_consuming, or the acknowledgement, raises on what was lost.       *)
ConsumeRaises ==
    /\ pc = "consume"
    /\ connection # "open"
    /\ Retry
    /\ UNCHANGED <<up, arrived, ready, unacked, wire, publishes, effects, ackLost,
                   shocks, disturbances>>

(* db_writer's callback stores and publishes nothing.                      *)
CallbackStores ==
    /\ pc = "callback"
    /\ ~publishes
    /\ effects' = [m \in Message |-> IF m \in inHand THEN effects[m] + 1 ELSE effects[m]]
    /\ inHand' = {}
    /\ pc' = "consume"
    /\ UNCHANGED <<brokerSide, connection, attempt, buffer, publishes, ended, ackLost,
                   shocks, disturbances>>

(* A mistake to catch: a failed publish is tried again on a new connection.*)
PublishAgain ==
    /\ pc = "callback"
    /\ publishes
    /\ up
    /\ connection' = "open"
    /\ sockets' = sockets + 1 - Held
    /\ \E m \in inHand : Write("publish", m)
    /\ inHand' = {}
    /\ pc' = "consume"
    /\ UNCHANGED <<up, arrived, ready, unacked, attempt, buffer, publishes, history>>

(* publish: connect, then basic_publish on the channel as it is, which a   *)
(* death nobody has noticed swallows.                                      *)
CallbackPublishes ==
    /\ pc = "callback"
    /\ publishes
    /\ Connect
    /\ IF connection' = "open"
       THEN \E m \in inHand : Write("publish", m)
       ELSE UNCHANGED wire
    /\ inHand' = {}
    /\ pc' = "consume"
    /\ UNCHANGED <<up, arrived, ready, unacked, attempt, buffer, publishes, history>>

(* "except Exception: pass": the publish meets the dead connection, or the *)
(* handler fails for a reason of its own.                                  *)
CallbackRaises ==
    /\ pc = "callback"
    /\ inHand' = {}
    /\ pc' = "consume"
    /\ connection' \in IF publishes /\ connection = "dropped"
                      THEN {"dropped", "closed"} ELSE {connection}
    /\ UNCHANGED <<brokerSide, attempt, buffer, publishes, history>>

(* A mistake to catch: reconnect without close.                            *)
ReconnectOnly ==
    /\ pc = "backoff"
    /\ Connect
    /\ pc' = "start"
    /\ UNCHANGED <<up, arrived, ready, unacked, wire, attempt, buffer, inHand,
                   publishes, history>>

(* reconnect: close, then connect.                                         *)
Reconnect ==
    /\ pc = "backoff"
    /\ up
    /\ connection' = "open"
    /\ sockets' = sockets - Held + 1
    /\ pc' = "start"
    /\ UNCHANGED <<up, arrived, ready, unacked, wire, attempt, buffer, inHand,
                   publishes, history>>

(* reconnect is called in the except branch: what it raises leaves the     *)
(* loop at once, with no further attempt and no notification.  connect     *)
(* raises while the broker is away; close does on a connection that died   *)
(* during the wait.                                                        *)
ReconnectRaises ==
    /\ pc = "backoff"
    /\ ~up \/ connection = "dropped"
    /\ End
    /\ ended' = "silent"
    /\ UNCHANGED <<up, arrived, ready, unacked, wire, attempt, publishes, effects,
                   ackLost, shocks, disturbances>>

(* compose: restart: always.  A process that starts while the broker is    *)
(* away meets that as its first disturbance.                               *)
Restart ==
    /\ pc = "stopped"
    /\ pc' = "start"
    /\ attempt' = 0
    /\ shocks' = IF up THEN 0 ELSE 1
    /\ UNCHANGED <<brokerSide, connection, buffer, inHand, publishes, ended, effects,
                   ackLost, disturbances>>

(***************************************************************************)
(* Disturbances                                                            *)
(***************************************************************************)
Disturb ==
    /\ disturbances < MaxDisturbances
    /\ disturbances' = disturbances + 1
    /\ shocks' = shocks + 1
    /\ UNCHANGED <<arrived, attempt, publishes, effects>>

(* Missed heartbeats, a reset: the broker lets the connection go.          *)
ConnectionDrops ==
    /\ Disturb
    /\ connection \in {"open", "no_channel"}
    /\ Requeue
    /\ connection' = "dropped"
    /\ sockets' = sockets - 1
    /\ UNCHANGED <<up, pc, buffer, inHand, ended>>

ChannelCloses ==
    /\ Disturb
    /\ connection = "open"
    /\ Requeue
    /\ connection' = "no_channel"
    /\ UNCHANGED <<up, sockets, pc, buffer, inHand, ended>>

(* The queues are on a tmpfs: what waited in them is lost.                 *)
BrokerStops ==
    /\ Disturb
    /\ up
    /\ up' = FALSE
    /\ ready' = {} /\ unacked' = {} /\ wire' = <<>>
    /\ connection' = IF connection \in {"open", "no_channel"} THEN "dropped" ELSE connection
    /\ sockets' = 0
    /\ UNCHANGED <<pc, buffer, inHand, ended, ackLost>>

BrokerStarts ==
    /\ ~up
    /\ up' = TRUE
    /\ UNCHANGED <<arrived, ready, unacked, wire, sockets, clientSide, history>>

ProcessKilled ==
    /\ Disturb
    /\ pc # "stopped"
    /\ Requeue
    /\ End
    /\ ended' = "killed"
    /\ UNCHANGED up

Loop ==
    \/ StartConsumer
    \/ StartConsumerRaises
    \/ \E m \in Message : Acknowledge(m)
    \/ ConsumeRaises
    \/ CallbackStores
    \/ CallbackPublishes
    \/ CallbackRaises
    \/ Reconnect
    \/ ReconnectRaises
    \/ Restart

Next ==
    \/ \E m \in Message : Arrive(m) \/ Deliver(m)
    \/ ReadFrame
    \/ Loop
    \/ ConnectionDrops
    \/ ChannelCloses
    \/ BrokerStops
    \/ BrokerStarts
    \/ ProcessKilled

Spec == Init /\ [][Next]_vars

(* The broker delivers, reads and is started again; the process runs, and  *)
(* compose starts it again.  Nothing is assumed of arrivals or of          *)
(* disturbances, which are finitely many.                                  *)
FairSpec ==
    /\ Spec
    /\ WF_vars(\E m \in Message : Deliver(m))
    /\ WF_vars(ReadFrame)
    /\ WF_vars(BrokerStarts)
    /\ WF_vars(Loop)

(***************************************************************************)
(* Properties                                                              *)
(***************************************************************************)
(* "One connection per service lifetime" (queue.py:33-34): through every   *)
(* drop, closed channel, restart of the broker and retry, the process      *)
(* never has two connections open, although connect is called by every     *)
(* start_consumer and every publish.                                       *)
OneConnection == sockets <= 1

(* What the pipeline's Broker module takes from this loop.  A callback     *)
(* whose effect is a publish over the connection it consumes from has that *)
(* effect at most once, since the acknowledgement is on the wire before    *)
(* it; one that writes to a store repeats it only for an acknowledgement   *)
(* that never arrived.                                                     *)
EffectOnce ==
    \A m \in Message :
        effects[m] <= IF publishes THEN 1 ELSE 1 + ackLost[m]

(* The attempts of consume_with_retry are never reset (queue.py:186): the  *)
(* escalation says max_retries attempts, and each of them was a            *)
(* disturbance of its own since the process started, however the failures  *)
(* of the consumer, of its callbacks and of reconnect interleave.          *)
EscalationEarned ==
    (pc = "stopped" /\ ended = "escalated") => shocks >= MaxRetries

(* Whatever dropped, closed or stopped, and although reconnect itself may  *)
(* end the process without a word (queue.py:208): in the end every message *)
(* is off its queue for good.                                              *)
Recovers ==
    \A m \in Message :
        (m \in arrived) ~> [](m \notin ready \cup unacked)
=============================================================================
