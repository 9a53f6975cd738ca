-------------------------- MODULE QueueClientProofs --------------------------
(***************************************************************************)
(* Proofs about QueueClient, for every number of messages, queues,         *)
(* attempts and disturbances.  The effects need the strengthening Wire:    *)
(* what is written comes from a live connection, is written once, and an   *)
(* acknowledgement is never behind its publish.                            *)
(***************************************************************************)
EXTENDS QueueClient, TLAPS

OnWire(kind, m) == \E i \in 1..Len(wire) : wire[i] = [kind |-> kind, message |-> m]

(* Could m still be handed to a callback that has not begun?               *)
Pending(m) ==
    \/ m \notin arrived
    \/ m \in ready
    \/ m \in unacked /\ ~OnWire("ack", m)

(***************************************************************************)
(* The parts of the inductive invariant                                    *)
(***************************************************************************)
Sockets ==
    /\ sockets = Held
    /\ ~up => connection \notin {"open", "no_channel"}
    /\ pc = "callback" => IsOpen

Idle ==
    /\ pc # "callback" => inHand = {}
    /\ pc \in {"start", "backoff", "stopped"} => buffer = {}
    /\ pc = "stopped" => connection = "none"
    /\ pc = "start" => connection # "closed"

(* A disturbance whose failed attempt is still to come.                    *)
Due ==
    \/ pc = "start" /\ connection \notin {"open", "none"}
    \/ pc = "start" /\ connection = "none" /\ ~up
    \/ pc \in {"consume", "callback"} /\ connection # "open"

AttemptsAccounted ==
    /\ attempt <= shocks
    /\ Due => attempt < shocks
    /\ (pc = "stopped" /\ ended = "escalated") => attempt >= MaxRetries

Custody ==
    /\ ready \cap unacked = {}
    /\ ready \cup unacked \subseteq arrived
    /\ buffer \cup inHand \subseteq arrived
    /\ connection = "open" => buffer \subseteq unacked
    /\ connection # "open" => unacked = {} /\ wire = <<>>

Wire ==
    /\ \A i, j \in 1..Len(wire) : wire[i] = wire[j] => i = j
    /\ \A i, j \in 1..Len(wire) :
          (i < j /\ wire[i].kind = "publish" /\ wire[j].kind = "ack")
             => wire[i].message # wire[j].message
    /\ \A m \in Message :
          /\ OnWire("ack", m) => m \in unacked /\ m \notin buffer
          /\ OnWire("publish", m) => publishes /\ m \in arrived

(* Of a publishing stage.                                                  *)
Published ==
    publishes =>
      \A m \in Message :
        /\ effects[m] <= 1
        /\ (Pending(m) \/ OnWire("ack", m) \/ OnWire("publish", m)
               \/ (m \in inHand /\ connection = "open")) => effects[m] = 0
        /\ Pending(m) => ~OnWire("publish", m) /\ ~(m \in inHand /\ connection = "open")
        /\ (m \in inHand /\ connection = "open") => ~OnWire("publish", m)

Working(m) == IF m \in inHand THEN 1 ELSE 0
Waiting(m) == IF Pending(m) THEN 1 ELSE 0

(* Of db_writer.                                                           *)
Stored ==
    ~publishes =>
      \A m \in Message : effects[m] + Working(m) + Waiting(m) <= 1 + ackLost[m]

IInv ==
    /\ TypeOK
    /\ Sockets
    /\ Idle
    /\ AttemptsAccounted
    /\ Custody
    /\ Wire
    /\ Published
    /\ Stored

(***************************************************************************)
(* The initial states                                                      *)
(***************************************************************************)
LEMMA InitHolds == Init => IInv
<1>1. SUFFICES ASSUME Init PROVE IInv
  OBVIOUS
<1> USE <1>1, QueueClientAssumption DEF Init, QueueClientAssumption
<1>2. TypeOK
  BY DEF TypeOK, Connection
<1>3. Sockets /\ Idle /\ AttemptsAccounted
  BY DEF Sockets, Held, IsOpen, Idle, AttemptsAccounted, Due
<1>4. Custody
  BY DEF Custody
<1>5. \A kind, m : ~OnWire(kind, m)
  BY DEF OnWire
<1>6. Wire
  BY <1>5 DEF Wire
<1>7. Published /\ Stored
  BY <1>5 DEF Published, Stored, Working, Waiting
<1> QED
  BY <1>2, <1>3, <1>4, <1>6, <1>7 DEF IInv

(***************************************************************************)
(* Types                                                                   *)
(***************************************************************************)
LEMMA RetryTypes ==
    ASSUME TypeOK, Sockets, Retry
    PROVE  /\ pc' \in {"backoff", "stopped"}
           /\ connection' \in Connection
           /\ attempt' \in Nat
           /\ sockets' \in Nat
           /\ buffer' = {}
           /\ inHand' \in SUBSET Message
           /\ ended' \in {"never", "escalated", "silent", "killed"}
BY DEF Retry, End, NotifyCritical, TypeOK, Connection

LEMMA RequeueTypes ==
    ASSUME TypeOK, Requeue
    PROVE  /\ ready' \in SUBSET Message
           /\ unacked' = {}
           /\ wire' = <<>>
           /\ ackLost' \in [Message -> Nat]
<1>1. \A m \in Message : ackLost[m] \in Nat /\ ackLost[m] + 1 \in Nat
  BY DEF TypeOK
<1>2. ackLost' \in [Message -> Nat]
  BY <1>1 DEF Requeue
<1> QED
  BY <1>2 DEF Requeue, TypeOK

LEMMA WriteTypes ==
    ASSUME TypeOK, NEW kind \in {"ack", "publish"}, NEW m \in Message, Write(kind, m)
    PROVE  wire' \in Seq(Frame)
<1>1. [kind |-> kind, message |-> m] \in Frame
  BY DEF Frame
<1>2. wire \in Seq(Frame)
  BY DEF TypeOK
<1> QED
  BY <1>1, <1>2 DEF Write

LEMMA DisturbTypes ==
    ASSUME TypeOK, Disturb
    PROVE  disturbances' \in 0..MaxDisturbances /\ shocks' \in Nat
BY QueueClientAssumption DEF QueueClientAssumption, TypeOK, Disturb

LEMMA TypeStep == TypeOK /\ Sockets /\ [Next]_vars => TypeOK'
<1>1. SUFFICES ASSUME TypeOK, Sockets, [Next]_vars PROVE TypeOK'
  OBVIOUS
<1> USE QueueClientAssumption DEF QueueClientAssumption, TypeOK, brokerSide, clientSide, history
<1>2. ASSUME NEW m \in Message, Arrive(m) PROVE TypeOK'
  BY <1>1, <1>2 DEF Arrive
<1>3. ASSUME NEW m \in Message, Deliver(m) PROVE TypeOK'
  BY <1>1, <1>3 DEF Deliver
<1>4. CASE ReadFrame
  <2>1. Head(wire) \in Frame /\ Tail(wire) \in Seq(Frame)
    BY <1>1, <1>4 DEF ReadFrame
  <2>2. Head(wire).message \in Message /\ effects[Head(wire).message] + 1 \in Nat
    BY <1>1, <2>1 DEF Frame
  <2>3. effects' \in [Message -> Nat] /\ unacked' \in SUBSET Message
    BY <1>1, <1>4, <2>2 DEF ReadFrame
  <2> QED
    BY <1>1, <1>4, <2>1, <2>3 DEF ReadFrame
<1>5. ASSUME NEW m \in Message, Acknowledge(m) PROVE TypeOK'
  <2>2. wire' \in Seq(Frame)
    BY <1>1, <1>5, WriteTypes DEF Acknowledge
  <2>3. ackLost' \in [Message -> Nat]
    BY <1>1, <1>5 DEF Acknowledge
  <2> QED
    BY <1>1, <1>5, <2>2, <2>3 DEF Acknowledge
<1>6. CASE StartConsumer
  BY <1>1, <1>6 DEF StartConsumer, Connect, Connection
<1>7. CASE StartConsumerRaises
  BY <1>1, <1>7, RetryTypes DEF StartConsumerRaises
<1>8. CASE ConsumeRaises
  BY <1>1, <1>8, RetryTypes DEF ConsumeRaises
<1>9. CASE CallbackStores
  <2>1. \A m \in Message : effects[m] \in Nat /\ effects[m] + 1 \in Nat
    BY <1>1
  <2>2. effects' \in [Message -> Nat]
    BY <1>9, <2>1 DEF CallbackStores
  <2> QED
    BY <1>1, <1>9, <2>2 DEF CallbackStores
<1>10. CASE CallbackPublishes
  <2>2. wire' \in Seq(Frame)
    BY <1>1, <1>10, WriteTypes DEF CallbackPublishes
  <2> QED
    BY <1>1, <1>10, <2>2 DEF CallbackPublishes, Connect, Connection
<1>11. CASE CallbackRaises
  BY <1>1, <1>11 DEF CallbackRaises, Connection
<1>12. CASE Reconnect
  BY <1>1, <1>12 DEF Reconnect, Connection, Sockets, Held
<1>13. CASE ReconnectRaises
  BY <1>1, <1>13 DEF ReconnectRaises, End, Connection
<1>14. CASE Restart
  BY <1>1, <1>14 DEF Restart
<1>15. CASE ConnectionDrops
  <2>1. disturbances' \in 0..MaxDisturbances /\ shocks' \in Nat
    BY <1>1, <1>15, DisturbTypes DEF ConnectionDrops
  <2>2. ready' \in SUBSET Message /\ unacked' = {} /\ wire' = <<>> /\ ackLost' \in [Message -> Nat]
    BY <1>1, <1>15, RequeueTypes DEF ConnectionDrops
  <2> QED
    BY <1>1, <1>15, <2>1, <2>2 DEF ConnectionDrops, Disturb, Connection, Sockets, Held
<1>16. CASE ChannelCloses
  <2>1. disturbances' \in 0..MaxDisturbances /\ shocks' \in Nat
    BY <1>1, <1>16, DisturbTypes DEF ChannelCloses
  <2>2. ready' \in SUBSET Message /\ unacked' = {} /\ wire' = <<>> /\ ackLost' \in [Message -> Nat]
    BY <1>1, <1>16, RequeueTypes DEF ChannelCloses
  <2> QED
    BY <1>1, <1>16, <2>1, <2>2 DEF ChannelCloses, Disturb, Connection
<1>17. CASE BrokerStops
  <2>1. disturbances' \in 0..MaxDisturbances /\ shocks' \in Nat
    BY <1>1, <1>17, DisturbTypes DEF BrokerStops
  <2>2. connection' \in Connection /\ ackLost' \in [Message -> Nat]
    BY <1>1, <1>17 DEF BrokerStops, Connection
  <2>3. effects' \in [Message -> Nat] /\ wire' \in Seq(Frame)
    BY <1>1, <1>17 DEF BrokerStops, Disturb
  <2> QED
    BY <1>1, <1>17, <2>1, <2>2, <2>3 DEF BrokerStops, Disturb
<1>18. CASE BrokerStarts
  BY <1>1, <1>18 DEF BrokerStarts
<1>19. CASE ProcessKilled
  <2>1. disturbances' \in 0..MaxDisturbances /\ shocks' \in Nat
    BY <1>1, <1>19, DisturbTypes DEF ProcessKilled
  <2>2. ready' \in SUBSET Message /\ unacked' = {} /\ wire' = <<>> /\ ackLost' \in [Message -> Nat]
    BY <1>1, <1>19, RequeueTypes DEF ProcessKilled
  <2> QED
    BY <1>1, <1>19, <2>1, <2>2 DEF ProcessKilled, Disturb, End, Connection
<1>20. CASE UNCHANGED vars
  BY <1>1, <1>20 DEF vars
<1> QED
  BY <1>1, <1>2, <1>3, <1>4, <1>5, <1>6, <1>7, <1>8, <1>9, <1>10, <1>11, <1>12,
     <1>13, <1>14, <1>15, <1>16, <1>17, <1>18, <1>19, <1>20 DEF Next, Loop

(***************************************************************************)
(* The loop: one connection, and a disturbance for every attempt           *)
(***************************************************************************)
Control == Sockets /\ Idle /\ AttemptsAccounted

LEMMA ControlStep == TypeOK /\ Control /\ [Next]_vars => Control'
<1>1. SUFFICES ASSUME TypeOK, Control, [Next]_vars PROVE Control'
  OBVIOUS
<1> USE QueueClientAssumption DEF QueueClientAssumption, TypeOK, Connection, brokerSide, clientSide, history,
        Control, Sockets, Held, IsOpen, Idle, AttemptsAccounted, Due
<1>2. ASSUME NEW m \in Message, Arrive(m) \/ Deliver(m) PROVE Control'
  BY <1>1, <1>2 DEF Arrive, Deliver
<1>3. CASE ReadFrame
  BY <1>1, <1>3 DEF ReadFrame
<1>4. ASSUME NEW m \in Message, Acknowledge(m) PROVE Control'
  BY <1>1, <1>4 DEF Acknowledge
<1>5. CASE StartConsumer
  BY <1>1, <1>5 DEF StartConsumer, Connect
<1>6. CASE StartConsumerRaises
  BY <1>1, <1>6 DEF StartConsumerRaises, Retry, End, NotifyCritical
<1>7. CASE ConsumeRaises
  BY <1>1, <1>7 DEF ConsumeRaises, Retry, End, NotifyCritical
<1>8. CASE CallbackStores
  BY <1>1, <1>8 DEF CallbackStores
<1>9. CASE CallbackPublishes
  BY <1>1, <1>9 DEF CallbackPublishes, Connect
<1>10. CASE CallbackRaises
  BY <1>1, <1>10 DEF CallbackRaises
<1>11. CASE Reconnect
  BY <1>1, <1>11 DEF Reconnect
<1>12. CASE ReconnectRaises
  BY <1>1, <1>12 DEF ReconnectRaises, End
<1>13. CASE Restart
  BY <1>1, <1>13 DEF Restart
<1>14. CASE ConnectionDrops
  BY <1>1, <1>14 DEF ConnectionDrops, Disturb
<1>15. CASE ChannelCloses
  BY <1>1, <1>15 DEF ChannelCloses, Disturb
<1>16. CASE BrokerStops
  BY <1>1, <1>16 DEF BrokerStops, Disturb
<1>17. CASE BrokerStarts
  BY <1>1, <1>17 DEF BrokerStarts
<1>18. CASE ProcessKilled
  BY <1>1, <1>18 DEF ProcessKilled, Disturb, End
<1>19. CASE UNCHANGED vars
  BY <1>1, <1>19 DEF vars
<1> QED
  BY <1>1, <1>2, <1>3, <1>4, <1>5, <1>6, <1>7, <1>8, <1>9, <1>10,
     <1>11, <1>12, <1>13, <1>14, <1>15, <1>16, <1>17, <1>18, <1>19 DEF Next, Loop

(***************************************************************************)
(* The wire                                                                *)
(***************************************************************************)
LEMMA WrittenFrame ==
    ASSUME TypeOK, NEW kind \in {"ack", "publish"}, NEW m \in Message, Write(kind, m)
    PROVE  /\ Len(wire') = Len(wire) + 1
           /\ \A i \in 1..Len(wire) : wire'[i] = wire[i]
           /\ wire'[Len(wire) + 1] = [kind |-> kind, message |-> m]
           /\ \A k, n : OnWire(k, n)' <=> (OnWire(k, n) \/ (k = kind /\ n = m))
<1>1. wire \in Seq(Frame) /\ Len(wire) \in Nat
  BY DEF TypeOK
<1> DEFINE f == [kind |-> kind, message |-> m]
<1>2. f \in Frame
  BY DEF Frame
<1>3. wire' = Append(wire, f)
  BY DEF Write
<1> HIDE DEF f
<1>4. /\ Len(wire') = Len(wire) + 1
      /\ \A i \in 1..Len(wire) : wire'[i] = wire[i]
      /\ wire'[Len(wire) + 1] = f
  BY <1>1, <1>2, <1>3
<1>5. ASSUME NEW k, NEW n
      PROVE  OnWire(k, n)' <=> (OnWire(k, n) \/ [kind |-> k, message |-> n] = f)
  <2>1. 1..Len(wire') = 1..Len(wire) \cup {Len(wire) + 1}
    BY <1>1, <1>4
  <2> QED
    BY <1>1, <1>4, <2>1 DEF OnWire
<1>6. \A k, n : [kind |-> k, message |-> n] = f <=> (k = kind /\ n = m)
  BY DEF f
<1> QED
  BY <1>4, <1>5, <1>6 DEF f

LEMMA ReadWire ==
    ASSUME TypeOK, Wire, wire # <<>>, wire' = Tail(wire)
    PROVE  /\ Len(wire) \in Nat \ {0}
           /\ Len(wire') = Len(wire) - 1
           /\ \A i \in 1..Len(wire') : wire'[i] = wire[i + 1]
           /\ Head(wire) = wire[1] /\ Head(wire) \in Frame
           /\ OnWire(Head(wire).kind, Head(wire).message)
           /\ \A k, n : (k = Head(wire).kind /\ n = Head(wire).message) => ~OnWire(k, n)'
           /\ \A k, n : OnWire(k, n)' => OnWire(k, n)
           /\ \A k, n : OnWire(k, n) =>
                  OnWire(k, n)' \/ (k = Head(wire).kind /\ n = Head(wire).message)
<1>1. wire \in Seq(Frame) /\ Len(wire) \in Nat \ {0}
  BY DEF TypeOK
<1>2. /\ Len(wire') = Len(wire) - 1
      /\ \A i \in 1..Len(wire') : wire'[i] = wire[i + 1]
      /\ Head(wire) = wire[1] /\ Head(wire) \in Frame
  BY <1>1
<1>3. Head(wire) = [kind |-> Head(wire).kind, message |-> Head(wire).message]
  BY <1>2 DEF Frame
<1>4. OnWire(Head(wire).kind, Head(wire).message)
  BY <1>1, <1>2, <1>3 DEF OnWire
<1>5. \A i \in 1..Len(wire') : i + 1 \in 1..Len(wire) /\ i + 1 # 1
  BY <1>1, <1>2
<1>6. ASSUME NEW k, NEW n, k = Head(wire).kind, n = Head(wire).message
      PROVE  ~OnWire(k, n)'
  <2>1. SUFFICES ASSUME NEW i \in 1..Len(wire'), wire'[i] = Head(wire) PROVE FALSE
    BY <1>3, <1>6 DEF OnWire
  <2>2. wire[i + 1] = wire[1] /\ i + 1 \in 1..Len(wire) /\ 1 \in 1..Len(wire) /\ i + 1 # 1
    BY <1>1, <1>2, <1>5, <2>1
  <2> QED
    BY <2>2 DEF Wire
<1>7. \A k, n : OnWire(k, n)' => OnWire(k, n)
  BY <1>2, <1>5 DEF OnWire
<1>8. ASSUME NEW k, NEW n, OnWire(k, n)
      PROVE  OnWire(k, n)' \/ (k = Head(wire).kind /\ n = Head(wire).message)
  <2>1. PICK i \in 1..Len(wire) : wire[i] = [kind |-> k, message |-> n]
    BY <1>8 DEF OnWire
  <2>2. CASE i = 1
    <3>1. Head(wire) = [kind |-> k, message |-> n]
      BY <1>2, <2>1, <2>2
    <3> QED
      BY <3>1
  <2>3. CASE i # 1
    <3>1. i - 1 \in 1..Len(wire') /\ wire'[i - 1] = wire[i]
      BY <1>1, <1>2, <2>3
    <3> QED
      BY <2>1, <3>1 DEF OnWire
  <2> QED
    BY <2>2, <2>3
<1> QED
  BY <1>1, <1>2, <1>4, <1>6, <1>7, <1>8

LEMMA SameWire == wire' = wire => \A k, n : OnWire(k, n)' <=> OnWire(k, n)
BY DEF OnWire

LEMMA EmptyWire == wire' = <<>> => \A k, n : ~OnWire(k, n)'
BY DEF OnWire

(***************************************************************************)
(* Custody: where a message can be                                         *)
(***************************************************************************)
LEMMA CustodyStep ==
    ASSUME TypeOK, Control, Custody, Wire, [Next]_vars
    PROVE  Custody'
<1> USE DEF TypeOK, Custody, Control, Sockets, Held, IsOpen, Idle, brokerSide, clientSide, history
<1>1. ASSUME NEW m \in Message, Arrive(m) PROVE Custody'
  BY <1>1 DEF Arrive
<1>2. ASSUME NEW m \in Message, Deliver(m) PROVE Custody'
  BY <1>2 DEF Deliver
<1>3. CASE ReadFrame
  <2>1. /\ Head(wire).message \in Message
        /\ OnWire(Head(wire).kind, Head(wire).message)
    BY <1>3, ReadWire DEF ReadFrame, Frame
  <2>2. unacked' \subseteq unacked /\ buffer \cap unacked \subseteq unacked'
    BY <1>3, <2>1 DEF ReadFrame, Wire
  <2>3. wire' = Tail(wire) /\ wire # <<>>
    BY <1>3 DEF ReadFrame
  <2> QED
    BY <1>3, <2>2, <2>3 DEF ReadFrame
<1>4. ASSUME NEW m \in Message, Acknowledge(m) PROVE Custody'
  BY <1>4 DEF Acknowledge, Write
<1>5. CASE CallbackPublishes
  BY <1>5 DEF CallbackPublishes, Connect, Write
<1>6. CASE StartConsumer
  BY <1>6 DEF StartConsumer, Connect, IsOpen
<1>7. CASE StartConsumerRaises
  BY <1>7 DEF StartConsumerRaises, Retry, End, IsOpen
<1>8. CASE ConsumeRaises
  BY <1>8 DEF ConsumeRaises, Retry, End
<1>9. CASE CallbackStores
  BY <1>9 DEF CallbackStores
<1>10. CASE CallbackRaises
  BY <1>10 DEF CallbackRaises
<1>11. CASE Reconnect
  BY <1>11 DEF Reconnect
<1>12. CASE ReconnectRaises
  BY <1>12 DEF ReconnectRaises, End
<1>13. CASE Restart
  BY <1>13 DEF Restart
<1>14. CASE ConnectionDrops
  BY <1>14 DEF ConnectionDrops, Disturb, Requeue
<1>15. CASE ChannelCloses
  BY <1>15 DEF ChannelCloses, Disturb, Requeue
<1>16. CASE BrokerStops
  BY <1>16 DEF BrokerStops, Disturb
<1>17. CASE BrokerStarts
  BY <1>17 DEF BrokerStarts
<1>18. CASE ProcessKilled
  BY <1>18 DEF ProcessKilled, Disturb, End, Requeue
<1>19. CASE UNCHANGED vars
  BY <1>19 DEF vars
<1> QED
  BY <1>1, <1>2, <1>3, <1>4, <1>5, <1>6, <1>7, <1>8, <1>9, <1>10,
     <1>11, <1>12, <1>13, <1>14, <1>15, <1>16, <1>17, <1>18, <1>19 DEF Next, Loop

(***************************************************************************)
(* Wire                                                                    *)
(***************************************************************************)
LEMMA WireKept ==
    ASSUME Wire, wire' = wire, publishes' = publishes, arrived \subseteq arrived',
           \A m \in unacked : m \notin buffer => m \in unacked' /\ m \notin buffer'
    PROVE  Wire'
<1>1. \A k, n : OnWire(k, n)' <=> OnWire(k, n)
  BY SameWire
<1>2. \A m \in Message :
          /\ OnWire("ack", m)' => m \in unacked' /\ m \notin buffer'
          /\ OnWire("publish", m)' => publishes' /\ m \in arrived'
  BY <1>1 DEF Wire
<1>3. /\ \A i, j \in 1..Len(wire') : wire'[i] = wire'[j] => i = j
      /\ \A i, j \in 1..Len(wire') :
            (i < j /\ wire'[i].kind = "publish" /\ wire'[j].kind = "ack")
               => wire'[i].message # wire'[j].message
  BY DEF Wire
<1> QED
  BY <1>2, <1>3 DEF Wire

LEMMA WireEmptied == wire' = <<>> => Wire'
<1>1. SUFFICES ASSUME wire' = <<>> PROVE Wire'
  OBVIOUS
<1>2. 1..Len(wire') = {}
  BY <1>1
<1>3. \A k, n : ~OnWire(k, n)'
  BY <1>1, EmptyWire
<1> QED
  BY <1>2, <1>3 DEF Wire

LEMMA WireWritten ==
    ASSUME TypeOK, Wire, NEW kind \in {"ack", "publish"}, NEW m \in Message,
           Write(kind, m), ~OnWire(kind, m), kind = "ack" => ~OnWire("publish", m),
           arrived' = arrived, publishes' = publishes, unacked' = unacked,
           buffer' \subseteq buffer,
           kind = "ack" => m \in unacked /\ m \notin buffer',
           kind = "publish" => publishes /\ m \in arrived
    PROVE  Wire'
<1>1. /\ Len(wire) \in Nat /\ Len(wire') = Len(wire) + 1
      /\ \A i \in 1..Len(wire) : wire'[i] = wire[i] /\ wire[i] \in Frame
      /\ wire'[Len(wire) + 1] = [kind |-> kind, message |-> m]
      /\ \A k, n : OnWire(k, n)' <=> (OnWire(k, n) \/ (k = kind /\ n = m))
  BY WrittenFrame DEF TypeOK
<1>2. \A i \in 1..Len(wire') : i \in 1..Len(wire) \/ i = Len(wire) + 1
  BY <1>1
<1>3. \A i \in 1..Len(wire) : wire[i] # [kind |-> kind, message |-> m]
  BY DEF OnWire
<1>4. \A i, j \in 1..Len(wire') : wire'[i] = wire'[j] => i = j
  BY <1>1, <1>2, <1>3 DEF Wire
<1>5. ASSUME NEW i \in 1..Len(wire'), NEW j \in 1..Len(wire'), i < j,
             wire'[i].kind = "publish", wire'[j].kind = "ack",
             wire'[i].message = wire'[j].message
      PROVE  FALSE
  <2>1. i \in 1..Len(wire) /\ wire'[i] = wire[i] /\ wire[i] \in Frame
    BY <1>1, <1>2, <1>5
  <2>2. CASE j \in 1..Len(wire)
    BY <1>1, <1>5, <2>1, <2>2 DEF Wire
  <2>3. CASE j = Len(wire) + 1
    <3>1. kind = "ack" /\ wire[i].message = m /\ wire[i].kind = "publish"
      BY <1>1, <1>5, <2>1, <2>3
    <3>2. wire[i] = [kind |-> "publish", message |-> m]
      BY <2>1, <3>1 DEF Frame
    <3> QED
      BY <2>1, <3>1, <3>2 DEF OnWire
  <2> QED
    BY <1>2, <2>2, <2>3
<1>6. ASSUME NEW n \in Message
      PROVE  /\ OnWire("ack", n)' => n \in unacked' /\ n \notin buffer'
             /\ OnWire("publish", n)' => publishes' /\ n \in arrived'
  BY <1>1 DEF Wire
<1> QED
  BY <1>4, <1>5, <1>6 DEF Wire

LEMMA WireStep ==
    ASSUME TypeOK, Control, Custody, Wire, Custody', Published, [Next]_vars
    PROVE  Wire'
<1> USE DEF Control, Sockets, Held, IsOpen, Idle, Custody, brokerSide, clientSide, history
<1>1. ASSUME NEW m \in Message, Arrive(m) PROVE Wire'
  BY <1>1, WireKept DEF Arrive
<1>2. ASSUME NEW m \in Message, Deliver(m) PROVE Wire'
  BY <1>2, WireKept DEF Deliver, Wire
<1>3. CASE ReadFrame
  <2> USE <1>3, ReadWire
  <2>1. \A i \in 1..Len(wire') : i + 1 \in 1..Len(wire)
    BY DEF ReadFrame
  <2>2. \A i, j \in 1..Len(wire') : wire'[i] = wire'[j] => i = j
    BY <2>1 DEF ReadFrame, Wire
  <2>3. \A i, j \in 1..Len(wire') :
          (i < j /\ wire'[i].kind = "publish" /\ wire'[j].kind = "ack")
             => wire'[i].message # wire'[j].message
    <3>1. SUFFICES ASSUME NEW i \in 1..Len(wire'), NEW j \in 1..Len(wire'), i < j,
                          wire[i + 1].kind = "publish", wire[j + 1].kind = "ack"
                   PROVE  wire[i + 1].message # wire[j + 1].message
      BY DEF ReadFrame
    <3>2. i + 1 < j + 1
      BY <3>1
    <3> QED
      BY <2>1, <3>1, <3>2 DEF Wire
  <2>4. ASSUME NEW m \in Message, OnWire("ack", m)'
        PROVE  m \in unacked' /\ m \notin buffer'
    <3>1. OnWire("ack", m) /\ ~(Head(wire).kind = "ack" /\ Head(wire).message = m)
      BY <2>4 DEF ReadFrame
    <3> QED
      BY <3>1 DEF ReadFrame, Wire, clientSide
  <2>5. ASSUME NEW m \in Message, OnWire("publish", m)' PROVE publishes' /\ m \in arrived'
    BY <2>5 DEF ReadFrame, Wire, clientSide
  <2> QED
    BY <2>2, <2>3, <2>4, <2>5 DEF Wire
<1>4. ASSUME NEW m \in Message, Acknowledge(m) PROVE Wire'
  <2>1. CASE connection = "open"
    <3>1. Write("ack", m) /\ m \in buffer /\ m \in unacked
      BY <1>4, <2>1 DEF Acknowledge, Custody
    <3>2. ~OnWire("ack", m)
      BY <3>1 DEF Wire
    <3>3. ~OnWire("publish", m)
      BY <3>1, <3>2 DEF Wire, Published, Pending
    <3> QED
      BY <1>4, <3>1, <3>2, <3>3, WireWritten DEF Acknowledge
  <2>2. CASE connection # "open"
    BY <1>4, <2>2, WireEmptied DEF Acknowledge
  <2> QED
    BY <2>1, <2>2
<1>5. CASE CallbackPublishes
  <2>1. CASE connection' = "open"
    <3>1. connection = "open"
      BY <1>5, <2>1 DEF CallbackPublishes, Connect
    <3>2. PICK m \in inHand : Write("publish", m)
      BY <1>5, <2>1 DEF CallbackPublishes
    <3>3. m \in Message /\ m \in arrived /\ publishes /\ ~OnWire("publish", m)
      BY <1>5, <3>1, <3>2 DEF CallbackPublishes, TypeOK, Published
    <3> QED
      BY <1>5, <3>2, <3>3, WireWritten DEF CallbackPublishes
  <2>2. CASE connection' # "open"
    BY <1>5, <2>2, WireEmptied DEF CallbackPublishes, Connect
  <2> QED
    BY <2>1, <2>2
<1>6. CASE StartConsumer
  BY <1>6, WireKept, WireEmptied DEF StartConsumer, Connect, IsOpen
<1>7. CASE StartConsumerRaises
  BY <1>7, WireKept, WireEmptied DEF StartConsumerRaises, Retry, End, IsOpen
<1>8. CASE ConsumeRaises
  BY <1>8, WireKept, WireEmptied DEF ConsumeRaises, Retry, End
<1>9. CASE CallbackStores
  BY <1>9, WireKept, WireEmptied DEF CallbackStores
<1>10. CASE CallbackRaises
  BY <1>10, WireKept, WireEmptied DEF CallbackRaises
<1>11. CASE Reconnect
  BY <1>11, WireKept, WireEmptied DEF Reconnect
<1>12. CASE ReconnectRaises
  BY <1>12, WireKept, WireEmptied DEF ReconnectRaises, End
<1>13. CASE Restart
  BY <1>13, WireKept, WireEmptied DEF Restart
<1>14. CASE ConnectionDrops
  BY <1>14, WireKept, WireEmptied DEF ConnectionDrops, Disturb, Requeue
<1>15. CASE ChannelCloses
  BY <1>15, WireKept, WireEmptied DEF ChannelCloses, Disturb, Requeue
<1>16. CASE BrokerStops
  BY <1>16, WireKept, WireEmptied DEF BrokerStops, Disturb
<1>17. CASE BrokerStarts
  BY <1>17, WireKept, WireEmptied DEF BrokerStarts
<1>18. CASE ProcessKilled
  BY <1>18, WireKept, WireEmptied DEF ProcessKilled, Disturb, End, Requeue
<1>19. CASE UNCHANGED vars
  BY <1>19, WireKept, WireEmptied DEF vars
<1> QED
  BY <1>1, <1>2, <1>3, <1>4, <1>5, <1>6, <1>7, <1>8, <1>9, <1>10,
     <1>11, <1>12, <1>13, <1>14, <1>15, <1>16, <1>17, <1>18, <1>19 DEF Next, Loop

(***************************************************************************)
(* What a publishing stage has published                                   *)
(***************************************************************************)
LEMMA PublishedKept ==
    ASSUME Published, wire' = wire, effects' = effects, publishes' = publishes,
           \A m \in Message : Pending(m)' => Pending(m),
           \A m \in inHand' : connection' = "open" => m \in inHand /\ connection = "open"
    PROVE  Published'
<1>1. \A k, n : OnWire(k, n)' <=> OnWire(k, n)
  BY SameWire
<1> QED
  BY <1>1 DEF Published

LEMMA PublishedEmptied ==
    ASSUME Published, wire' = <<>>, effects' = effects, publishes' = publishes,
           connection' # "open",
           \A m \in Message : Pending(m)' => Pending(m) \/ OnWire("ack", m)
    PROVE  Published'
<1>1. \A k, n : ~OnWire(k, n)'
  BY EmptyWire
<1> QED
  BY <1>1 DEF Published

(* What can be pending once the channel is lost, or nothing has moved.     *)
LEMMA PendingRequeued ==
    ASSUME Requeue, arrived' = arrived, NEW m, Pending(m)'
    PROVE  Pending(m) \/ OnWire("ack", m)
BY DEF Requeue, Pending

LEMMA PendingKept ==
    ASSUME wire' = wire, arrived' = arrived, ready' = ready, unacked' = unacked
    PROVE  \A m : Pending(m)' <=> Pending(m)
<1>1. \A k, n : OnWire(k, n)' <=> OnWire(k, n)
  BY SameWire
<1> QED
  BY <1>1 DEF Pending

LEMMA AckFirst ==
    ASSUME TypeOK, Wire, wire # <<>>, Head(wire).kind = "publish"
    PROVE  ~OnWire("ack", Head(wire).message)
<1>1. SUFFICES ASSUME NEW j \in 1..Len(wire),
                      wire[j] = [kind |-> "ack", message |-> Head(wire).message]
               PROVE  FALSE
  BY DEF OnWire
<1>2. Head(wire) = wire[1] /\ Len(wire) \in Nat \ {0}
  BY DEF TypeOK
<1>3. wire[j].kind = "ack" /\ wire[j].message = wire[1].message
  BY <1>1, <1>2
<1>4. j # 1 /\ 1 \in 1..Len(wire) /\ 1 < j
  BY <1>2, <1>3
<1> QED
  BY <1>2, <1>3, <1>4 DEF Wire

LEMMA PublishedStep ==
    ASSUME TypeOK, Control, Custody, Wire, Published, [Next]_vars
    PROVE  Published'
<1> USE DEF Control, Sockets, Held, IsOpen, Idle, Custody, brokerSide, clientSide, history
<1>1. ASSUME NEW m \in Message, Arrive(m) PROVE Published'
  <2>1. \A n \in Message : Pending(n)' => Pending(n)
    BY <1>1, SameWire DEF Arrive, Pending
  <2> QED
    BY <1>1, <2>1, PublishedKept DEF Arrive
<1>2. ASSUME NEW m \in Message, Deliver(m) PROVE Published'
  <2>1. \A n \in Message : Pending(n)' => Pending(n)
    BY <1>2, SameWire DEF Deliver, Pending
  <2> QED
    BY <1>2, <2>1, PublishedKept DEF Deliver
<1>3. CASE ReadFrame
  <2> DEFINE h == Head(wire).message
             k == Head(wire).kind
  <2>1. /\ h \in Message /\ k \in {"ack", "publish"}
        /\ OnWire(k, h)
        /\ \A i, n : (i = k /\ n = h) => ~OnWire(i, n)'
        /\ \A i, n : OnWire(i, n)' => OnWire(i, n)
        /\ \A i, n : OnWire(i, n) => OnWire(i, n)' \/ (i = k /\ n = h)
    BY <1>3, ReadWire DEF ReadFrame, Frame
  <2>2. /\ connection' = connection /\ inHand' = inHand /\ publishes' = publishes
        /\ arrived' = arrived /\ ready' = ready
        /\ k = "ack" => unacked' = unacked \ {h} /\ effects' = effects
        /\ k # "ack" => unacked' = unacked /\ effects' = [effects EXCEPT ![h] = @ + 1]
    BY <1>3 DEF ReadFrame
  <2> HIDE DEF h, k
  <2>3. CASE k = "ack"
    <3>1. h \in unacked /\ h \in arrived /\ h \notin ready
      BY <2>1, <2>3 DEF Wire
    <3>2. \A n \in Message : Pending(n)' => Pending(n)
      BY <2>1, <2>2, <2>3, <3>1 DEF Pending
    <3> QED
      BY <2>1, <2>2, <2>3, <3>2 DEF Published
  <2>4. CASE k = "publish"
    <3>1. ~OnWire("ack", h)
      BY <1>3, <2>4, AckFirst DEF ReadFrame, h, k
    <3>2. publishes => /\ effects[h] = 0 /\ ~Pending(h)
                       /\ ~(h \in inHand /\ connection = "open")
      BY <2>1, <2>4 DEF Published
    <3>3. \A n \in Message : Pending(n)' <=> Pending(n)
      BY <2>1, <2>2, <2>4 DEF Pending
    <3>4. /\ \A n \in Message : n # h => effects'[n] = effects[n]
          /\ effects'[h] = effects[h] + 1
      BY <2>1, <2>2, <2>4 DEF TypeOK
    <3>5. \A n : n = h => ~OnWire("publish", n)' /\ ~OnWire("ack", n)'
      BY <2>1, <2>4, <3>1
    <3>6. ASSUME publishes, NEW n \in Message
          PROVE /\ effects'[n] <= 1
                /\ (Pending(n)' \/ OnWire("ack", n)' \/ OnWire("publish", n)'
                       \/ (n \in inHand' /\ connection' = "open")) => effects'[n] = 0
                /\ Pending(n)' =>
                      ~OnWire("publish", n)' /\ ~(n \in inHand' /\ connection' = "open")
                /\ (n \in inHand' /\ connection' = "open") => ~OnWire("publish", n)'
      <4>1. CASE n = h
        BY <2>2, <3>2, <3>3, <3>4, <3>5, <3>6, <4>1
      <4>2. CASE n # h
        BY <2>1, <2>2, <3>3, <3>4, <3>6, <4>2 DEF Published
      <4> QED
        BY <4>1, <4>2
    <3> QED
      BY <2>2, <3>6 DEF Published
  <2> QED
    BY <2>1, <2>3, <2>4
<1>4. ASSUME NEW m \in Message, Acknowledge(m) PROVE Published'
  <2>1. CASE connection = "open"
    <3>1. Write("ack", m) /\ m \in buffer /\ m \in unacked /\ inHand' = {m}
      BY <1>4, <2>1 DEF Acknowledge
    <3>2. Pending(m)
      BY <3>1 DEF Wire, Pending
    <3>3. \A k, n : OnWire(k, n)' <=> (OnWire(k, n) \/ (k = "ack" /\ n = m))
      BY <3>1, WrittenFrame
    <3>4. \A n \in Message : Pending(n)' => Pending(n) /\ n # m
      BY <1>4, <3>1, <3>3 DEF Acknowledge, Pending
    <3> QED
      BY <1>4, <2>1, <3>1, <3>2, <3>3, <3>4 DEF Acknowledge, Published
  <2>2. CASE connection # "open"
    <3>1. \A n : Pending(n)' <=> Pending(n)
      BY <1>4, <2>2, PendingKept DEF Acknowledge
    <3> QED
      BY <1>4, <2>2, <3>1, PublishedKept DEF Acknowledge
  <2> QED
    BY <2>1, <2>2
<1>5. CASE CallbackPublishes
  <2>1. CASE connection' = "open"
    <3>1. connection = "open"
      BY <1>5, <2>1 DEF CallbackPublishes, Connect
    <3>2. PICK m \in inHand : Write("publish", m)
      BY <1>5, <2>1 DEF CallbackPublishes
    <3>3. m \in Message
      BY <3>2 DEF TypeOK
    <3>4. \A k, n : OnWire(k, n)' <=> (OnWire(k, n) \/ (k = "publish" /\ n = m))
      BY <3>2, <3>3, WrittenFrame
    <3>5. \A n \in Message : Pending(n)' <=> Pending(n)
      BY <1>5, <3>4 DEF CallbackPublishes, Pending
    <3> QED
      BY <1>5, <3>1, <3>2, <3>3, <3>4, <3>5 DEF CallbackPublishes, Published
  <2>2. CASE connection' # "open"
    <3>1. wire' = wire /\ wire = <<>>
      BY <1>5, <2>2 DEF CallbackPublishes, Connect
    <3>2. \A n : Pending(n)' <=> Pending(n)
      BY <1>5, <3>1, PendingKept DEF CallbackPublishes
    <3> QED
      BY <1>5, <2>2, <3>1, <3>2, PublishedKept DEF CallbackPublishes
  <2> QED
    BY <2>1, <2>2
<1>6. CASE StartConsumer
  <2>1. \A m : Pending(m)' <=> Pending(m)
    BY <1>6, PendingKept DEF StartConsumer
  <2> QED
    BY <1>6, <2>1, PublishedKept DEF StartConsumer, Connect
<1>7. CASE StartConsumerRaises
  <2>1. \A m : Pending(m)' <=> Pending(m)
    BY <1>7, PendingKept DEF StartConsumerRaises
  <2> QED
    BY <1>7, <2>1, PublishedKept DEF StartConsumerRaises, Retry, End
<1>8. CASE ConsumeRaises
  <2>1. \A m : Pending(m)' <=> Pending(m)
    BY <1>8, PendingKept DEF ConsumeRaises
  <2> QED
    BY <1>8, <2>1, PublishedKept DEF ConsumeRaises, Retry, End
<1>9. CASE CallbackStores
  BY <1>9 DEF CallbackStores, Published
<1>10. CASE CallbackRaises
  <2>1. \A m : Pending(m)' <=> Pending(m)
    BY <1>10, PendingKept DEF CallbackRaises
  <2> QED
    BY <1>10, <2>1, PublishedKept DEF CallbackRaises
<1>11. CASE Reconnect
  <2>1. \A m : Pending(m)' <=> Pending(m)
    BY <1>11, PendingKept DEF Reconnect
  <2> QED
    BY <1>11, <2>1, PublishedKept DEF Reconnect
<1>12. CASE ReconnectRaises
  <2>1. \A m : Pending(m)' <=> Pending(m)
    BY <1>12, PendingKept DEF ReconnectRaises
  <2> QED
    BY <1>12, <2>1, PublishedKept DEF ReconnectRaises, End
<1>13. CASE Restart
  <2>1. \A m : Pending(m)' <=> Pending(m)
    BY <1>13, PendingKept DEF Restart
  <2> QED
    BY <1>13, <2>1, PublishedKept DEF Restart
<1>14. CASE ConnectionDrops
  <2>1. \A m \in Message : Pending(m)' => Pending(m) \/ OnWire("ack", m)
    BY <1>14, PendingRequeued DEF ConnectionDrops, Disturb
  <2> QED
    BY <1>14, <2>1, PublishedEmptied DEF ConnectionDrops, Disturb, Requeue
<1>15. CASE ChannelCloses
  <2>1. \A m \in Message : Pending(m)' => Pending(m) \/ OnWire("ack", m)
    BY <1>15, PendingRequeued DEF ChannelCloses, Disturb
  <2> QED
    BY <1>15, <2>1, PublishedEmptied DEF ChannelCloses, Disturb, Requeue
<1>16. CASE BrokerStops
  <2>1. \A m \in Message : Pending(m)' => Pending(m)
    BY <1>16 DEF BrokerStops, Disturb, Pending
  <2> QED
    BY <1>16, <2>1, PublishedEmptied DEF BrokerStops, Disturb
<1>17. CASE BrokerStarts
  <2>1. \A m : Pending(m)' <=> Pending(m)
    BY <1>17, PendingKept DEF BrokerStarts
  <2> QED
    BY <1>17, <2>1, PublishedKept DEF BrokerStarts
<1>18. CASE ProcessKilled
  <2>1. \A m \in Message : Pending(m)' => Pending(m) \/ OnWire("ack", m)
    BY <1>18, PendingRequeued DEF ProcessKilled, Disturb
  <2> QED
    BY <1>18, <2>1, PublishedEmptied DEF ProcessKilled, Disturb, End, Requeue
<1>19. CASE UNCHANGED vars
  <2>1. \A m : Pending(m)' <=> Pending(m)
    BY <1>19, PendingKept DEF vars
  <2> QED
    BY <1>19, <2>1, PublishedKept DEF vars
<1> QED
  BY <1>1, <1>2, <1>3, <1>4, <1>5, <1>6, <1>7, <1>8, <1>9, <1>10,
     <1>11, <1>12, <1>13, <1>14, <1>15, <1>16, <1>17, <1>18, <1>19 DEF Next, Loop

(***************************************************************************)
(* What db_writer has stored                                               *)
(***************************************************************************)
LEMMA StoredKept ==
    ASSUME Stored, TypeOK, TypeOK', publishes' = publishes, effects' = effects,
           \A m \in Message : ackLost[m] <= ackLost'[m],
           \A m \in Message :
               \/ (m \in inHand' => m \in inHand) /\ (Pending(m)' => Pending(m))
               \/ ackLost'[m] = ackLost[m] + 1 /\ (m \in inHand' => m \in inHand)
               \/ ackLost'[m] = ackLost[m] + 1 /\ (Pending(m)' => Pending(m))
               \/ Pending(m) /\ ~Pending(m)'
    PROVE  Stored'
<1>1. SUFFICES ASSUME ~publishes, NEW m \in Message
               PROVE  effects'[m] + Working(m)' + Waiting(m)' <= 1 + ackLost'[m]
  BY DEF Stored
<1>2. effects[m] \in Nat /\ ackLost[m] \in Nat /\ ackLost'[m] \in Nat
  BY DEF TypeOK
<1>3. effects[m] + Working(m) + Waiting(m) <= 1 + ackLost[m]
  BY <1>1 DEF Stored
<1> QED
  BY <1>1, <1>2, <1>3 DEF Working, Waiting

LEMMA RequeueStored ==
    ASSUME Stored, TypeOK, TypeOK', Requeue, arrived' = arrived, publishes' = publishes,
           effects' = effects, inHand' \subseteq inHand
    PROVE  Stored'
<1>1. ASSUME NEW m \in Message
      PROVE  /\ ackLost[m] \in Nat
             /\ ackLost'[m] = IF OnWire("ack", m) THEN ackLost[m] + 1 ELSE ackLost[m]
  BY DEF Requeue, OnWire, TypeOK
<1>2. \A m \in Message : ackLost[m] <= ackLost'[m]
  BY <1>1
<1>3. \A m \in Message : Pending(m)' => Pending(m) \/ OnWire("ack", m)
  BY PendingRequeued
<1>4. \A m \in Message :
          \/ (m \in inHand' => m \in inHand) /\ (Pending(m)' => Pending(m))
          \/ ackLost'[m] = ackLost[m] + 1 /\ (m \in inHand' => m \in inHand)
  BY <1>1, <1>3
<1> QED
  BY <1>2, <1>4, StoredKept

LEMMA StoredStep ==
    ASSUME TypeOK, TypeOK', Control, Custody, Wire, Stored, [Next]_vars
    PROVE  Stored'
<1> USE DEF Control, Sockets, Held, IsOpen, Idle, Custody, brokerSide, clientSide, history
<1>0. \A m \in Message : ackLost[m] \in Nat /\ effects[m] \in Nat /\ ackLost[m] <= ackLost[m]
  BY DEF TypeOK
<1>1. ASSUME NEW m \in Message, Arrive(m) PROVE Stored'
  <2>1. \A n \in Message : Pending(n)' => Pending(n)
    BY <1>1, SameWire DEF Arrive, Pending
  <2> QED
    BY <1>0, <1>1, <2>1, StoredKept DEF Arrive
<1>2. ASSUME NEW m \in Message, Deliver(m) PROVE Stored'
  <2>1. \A n \in Message : Pending(n)' => Pending(n)
    BY <1>2, SameWire DEF Deliver, Pending
  <2> QED
    BY <1>0, <1>2, <2>1, StoredKept DEF Deliver
<1>3. CASE ReadFrame
  <2> DEFINE h == Head(wire).message
             k == Head(wire).kind
  <2>1. /\ h \in Message /\ k \in {"ack", "publish"}
        /\ OnWire(k, h)
        /\ \A i, n : OnWire(i, n)' => OnWire(i, n)
        /\ \A i, n : OnWire(i, n) => OnWire(i, n)' \/ (i = k /\ n = h)
    BY <1>3, ReadWire DEF ReadFrame, Frame
  <2>2. CASE k = "ack"
    <3>1. /\ connection' = connection /\ inHand' = inHand /\ publishes' = publishes
          /\ arrived' = arrived /\ ready' = ready /\ ackLost' = ackLost
          /\ unacked' = unacked \ {h} /\ effects' = effects
      BY <1>3, <2>2 DEF ReadFrame, k, h
    <3> HIDE DEF h, k
    <3>2. h \in unacked /\ h \in arrived /\ h \notin ready
      BY <2>1, <2>2 DEF Wire
    <3>3. \A n \in Message : Pending(n)' => Pending(n)
      BY <2>1, <2>2, <3>1, <3>2 DEF Pending
    <3> QED
      BY <1>0, <3>1, <3>3, StoredKept
  <2>3. CASE k = "publish"
    <3>1. publishes /\ publishes'
      BY <1>3, <2>1, <2>3 DEF Wire, ReadFrame
    <3> QED
      BY <3>1 DEF Stored
  <2> QED
    BY <2>1, <2>2, <2>3
<1>4. ASSUME NEW m \in Message, Acknowledge(m) PROVE Stored'
  <2>1. CASE connection = "open"
    <3>1. /\ Write("ack", m) /\ m \in buffer /\ m \in unacked
          /\ inHand' = {m} /\ ackLost' = ackLost
      BY <1>4, <2>1 DEF Acknowledge
    <3>2. Pending(m)
      BY <3>1 DEF Wire, Pending
    <3>3. \A k, n : OnWire(k, n)' <=> (OnWire(k, n) \/ (k = "ack" /\ n = m))
      BY <3>1, WrittenFrame
    <3>4. \A n \in Message : Pending(n)' => Pending(n) /\ n # m
      BY <1>4, <3>1, <3>3 DEF Acknowledge, Pending
    <3>5. \A n \in Message : n = m \/ (n \in inHand' => n \in inHand)
      BY <3>1
    <3>6. \A n \in Message :
              \/ (n \in inHand' => n \in inHand) /\ (Pending(n)' => Pending(n))
              \/ Pending(n) /\ ~Pending(n)'
      BY <3>2, <3>4, <3>5
    <3> QED
      BY <1>0, <1>4, <3>1, <3>6, StoredKept DEF Acknowledge
  <2>2. CASE connection # "open"
    <3>1. \A n : Pending(n)' <=> Pending(n)
      BY <1>4, <2>2, PendingKept DEF Acknowledge
    <3>2. /\ ackLost'[m] = ackLost[m] + 1 /\ inHand' = {m}
          /\ \A n \in Message : n # m => ackLost'[n] = ackLost[n]
      BY <1>4, <2>2 DEF Acknowledge, TypeOK
    <3>3. \A n \in Message : ackLost[n] <= ackLost'[n]
      BY <1>0, <3>2
    <3> QED
      BY <1>4, <3>1, <3>2, <3>3, StoredKept DEF Acknowledge
  <2> QED
    BY <2>1, <2>2
<1>5. CASE CallbackPublishes
  BY <1>5 DEF CallbackPublishes, Stored
<1>6. CASE CallbackStores
  <2>1. \A m : Pending(m)' <=> Pending(m)
    BY <1>6, PendingKept DEF CallbackStores
  <2>2. ASSUME ~publishes, NEW m \in Message
        PROVE  effects'[m] + Working(m)' + Waiting(m)' <= 1 + ackLost'[m]
    <3>1. effects[m] + Working(m) + Waiting(m) <= 1 + ackLost[m]
      BY <2>2 DEF Stored
    <3>2. /\ effects'[m] = IF m \in inHand THEN effects[m] + 1 ELSE effects[m]
          /\ ackLost' = ackLost /\ inHand' = {}
      BY <1>6 DEF CallbackStores
    <3>3. Waiting(m)' = Waiting(m)
      BY <2>1 DEF Waiting
    <3>4. Waiting(m) \in Nat
      BY DEF Waiting
    <3>5. Working(m)' = 0
      BY <3>2 DEF Working
    <3> QED
      BY <1>0, <3>1, <3>2, <3>3, <3>4, <3>5 DEF Working
  <2> QED
    BY <1>6, <2>2 DEF CallbackStores, Stored
<1>7. CASE StartConsumer
  <2>1. \A m : Pending(m)' <=> Pending(m)
    BY <1>7, PendingKept DEF StartConsumer
  <2> QED
    BY <1>0, <1>7, <2>1, StoredKept DEF StartConsumer, Connect
<1>8. CASE StartConsumerRaises
  <2>1. \A m : Pending(m)' <=> Pending(m)
    BY <1>8, PendingKept DEF StartConsumerRaises
  <2> QED
    BY <1>0, <1>8, <2>1, StoredKept DEF StartConsumerRaises, Retry, End
<1>9. CASE ConsumeRaises
  <2>1. \A m : Pending(m)' <=> Pending(m)
    BY <1>9, PendingKept DEF ConsumeRaises
  <2> QED
    BY <1>0, <1>9, <2>1, StoredKept DEF ConsumeRaises, Retry, End
<1>10. CASE CallbackRaises
  <2>1. \A m : Pending(m)' <=> Pending(m)
    BY <1>10, PendingKept DEF CallbackRaises
  <2> QED
    BY <1>0, <1>10, <2>1, StoredKept DEF CallbackRaises
<1>11. CASE Reconnect
  <2>1. \A m : Pending(m)' <=> Pending(m)
    BY <1>11, PendingKept DEF Reconnect
  <2> QED
    BY <1>0, <1>11, <2>1, StoredKept DEF Reconnect
<1>12. CASE ReconnectRaises
  <2>1. \A m : Pending(m)' <=> Pending(m)
    BY <1>12, PendingKept DEF ReconnectRaises
  <2> QED
    BY <1>0, <1>12, <2>1, StoredKept DEF ReconnectRaises, End
<1>13. CASE Restart
  <2>1. \A m : Pending(m)' <=> Pending(m)
    BY <1>13, PendingKept DEF Restart
  <2> QED
    BY <1>0, <1>13, <2>1, StoredKept DEF Restart
<1>14. CASE ConnectionDrops
  <2>1. Requeue /\ arrived' = arrived /\ effects' = effects /\ publishes' = publishes
        /\ inHand' \subseteq inHand
    BY <1>14 DEF ConnectionDrops, Disturb
  <2> QED
    BY <2>1, RequeueStored
<1>15. CASE ChannelCloses
  <2>1. Requeue /\ arrived' = arrived /\ effects' = effects /\ publishes' = publishes
        /\ inHand' \subseteq inHand
    BY <1>15 DEF ChannelCloses, Disturb
  <2> QED
    BY <2>1, RequeueStored
<1>16. CASE BrokerStops
  <2>1. \A m \in Message : Pending(m)' => Pending(m)
    BY <1>16 DEF BrokerStops, Disturb, Pending
  <2> QED
    BY <1>0, <1>16, <2>1, StoredKept DEF BrokerStops, Disturb
<1>17. CASE BrokerStarts
  <2>1. \A m : Pending(m)' <=> Pending(m)
    BY <1>17, PendingKept DEF BrokerStarts
  <2> QED
    BY <1>0, <1>17, <2>1, StoredKept DEF BrokerStarts
<1>18. CASE ProcessKilled
  <2>1. Requeue /\ arrived' = arrived /\ effects' = effects /\ publishes' = publishes
        /\ inHand' \subseteq inHand
    BY <1>18 DEF ProcessKilled, Disturb, End
  <2> QED
    BY <2>1, RequeueStored
<1>19. CASE UNCHANGED vars
  <2>1. \A m : Pending(m)' <=> Pending(m)
    BY <1>19, PendingKept DEF vars
  <2> QED
    BY <1>0, <1>19, <2>1, StoredKept DEF vars
<1> QED
  BY <1>1, <1>2, <1>3, <1>4, <1>5, <1>6, <1>7, <1>8, <1>9, <1>10,
     <1>11, <1>12, <1>13, <1>14, <1>15, <1>16, <1>17, <1>18, <1>19 DEF Next, Loop

(***************************************************************************)
(* The theorems                                                            *)
(***************************************************************************)
LEMMA Inductive == IInv /\ [Next]_vars => IInv'
<1>1. SUFFICES ASSUME IInv, [Next]_vars PROVE IInv'
  OBVIOUS
<1>2. TypeOK'
  BY <1>1, TypeStep DEF IInv
<1>3. Control'
  BY <1>1, ControlStep DEF IInv, Control
<1>4. Custody'
  BY <1>1, CustodyStep DEF IInv, Control
<1>5. Wire'
  BY <1>1, <1>4, WireStep DEF IInv, Control
<1>6. Published'
  BY <1>1, PublishedStep DEF IInv, Control
<1>7. Stored'
  BY <1>1, <1>2, StoredStep DEF IInv, Control
<1> QED
  BY <1>2, <1>3, <1>4, <1>5, <1>6, <1>7 DEF IInv, Control

LEMMA Invariant == Spec => []IInv
BY InitHolds, Inductive, PTL DEF Spec

(* Every variable keeps its type.                                          *)
THEOREM TypeCorrect == Spec => []TypeOK
<1>1. IInv => TypeOK
  BY DEF IInv
<1> QED
  BY <1>1, Invariant, PTL

(* Connections are never opened beside one that is still open.             *)
THEOREM OneConnectionHolds == Spec => []OneConnection
<1>1. IInv => OneConnection
  BY DEF IInv, Sockets, Held, OneConnection
<1> QED
  BY <1>1, Invariant, PTL

(* max_retries attempts stand for as many disturbances.                    *)
THEOREM EscalationHolds == Spec => []EscalationEarned
<1>1. IInv => EscalationEarned
  BY QueueClientAssumption
     DEF IInv, TypeOK, AttemptsAccounted, EscalationEarned, QueueClientAssumption
<1> QED
  BY <1>1, Invariant, PTL

(* One effect of a message, or one more for every lost acknowledgement of  *)
(* a stage that stores.                                                    *)
THEOREM EffectHolds == Spec => []EffectOnce
<1>1. IInv => EffectOnce
  <2>1. SUFFICES ASSUME IInv, NEW m \in Message
                 PROVE  effects[m] <= IF publishes THEN 1 ELSE 1 + ackLost[m]
    BY DEF EffectOnce
  <2>2. CASE publishes
    BY <2>1, <2>2 DEF IInv, Published
  <2>3. CASE ~publishes
    <3>1. effects[m] + Working(m) + Waiting(m) <= 1 + ackLost[m]
      BY <2>1, <2>3 DEF IInv, Stored
    <3>2. effects[m] \in Nat /\ ackLost[m] \in Nat
      BY <2>1 DEF IInv, TypeOK
    <3>3. Working(m) \in Nat /\ Waiting(m) \in Nat
      BY DEF Working, Waiting
    <3> QED
      BY <2>3, <3>1, <3>2, <3>3
  <2> QED
    BY <2>2, <2>3
<1> QED
  BY <1>1, Invariant, PTL
=============================================================================
