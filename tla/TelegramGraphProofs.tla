------------------------- MODULE TelegramGraphProofs -------------------------
(***************************************************************************)
(* Proofs about the actor graph, for any messages, senders and handles in  *)
(* any order and for any number of faults.                                 *)
(***************************************************************************)
EXTENDS TelegramGraph, FiniteSetTheorems, TLAPS

(***************************************************************************)
(* Types                                                                   *)
(***************************************************************************)
(* What db_writer's statements find: the message in hand has no node       *)
(* before the first, and none of the edges that are still to be drawn.     *)
HandInv ==
    /\ step = "node" => hand \notin posted
    /\ step \in {"reply", "mentions"} =>
           hand \in posted /\ \A h \in unlinked : <<hand, h>> \notin cited
    /\ step = "reply" => hand \notin answered

TypeInv == TypeOK /\ HandInv

LEMMA Product == \A m, n \in Nat : m * n \in Nat
OBVIOUS

LEMMA FaultType == TypeOK /\ Fault => faults' \in 0..MaxFaults
  BY GraphAssumption DEF GraphAssumption, TypeOK, Fault

LEMMA TypeInit == Init => TypeInv
<1> SUFFICES ASSUME Init PROVE TypeInv
  OBVIOUS
<1> USE GraphAssumption DEF GraphAssumption
<1>1. NoWeights \in Weights
  BY DEF NoWeights, Weights
<1>2. NothingSeen \in [actors : SUBSET actors, handle : [User -> Handle \union {NoHandle}]]
  BY DEF NothingSeen
<1>3. [u \in User |-> NoWeights] \in [User -> Weights]
  BY <1>1
<1>4. [u \in User |-> [t \in User \union Handle |-> 0]] \in [User -> [User \union Handle -> Nat]]
  OBVIOUS
<1>5. 0 \in 0..MaxFaults
  OBVIOUS
<1>6. [u \in User |-> NoHandle] \in [User -> Handle \union {NoHandle}]
  OBVIOUS
<1>7. QED
  BY <1>1, <1>2, <1>3, <1>4, <1>5, <1>6 DEF Init, TypeInv, TypeOK, HandInv

LEMMA TypeWrite ==
  ASSUME TypeInv, NEW m \in Message, WriteTelegramMessage(m)
  PROVE  TypeInv'
<1> USE GraphAssumption DEF GraphAssumption, TypeInv, TypeOK, HandInv, NewMessage, graph, analytics
<1>1. CASE Identified(m)
  <2>1. AuthorOf[m] \in User
    BY <1>1 DEF Identified
  <2>2. handle' \in [User -> Handle \union {NoHandle}]
    <3> DEFINE known == IF HandleOf[m] = NoHandle THEN handle[AuthorOf[m]] ELSE HandleOf[m]
    <3>1. known \in Handle \union {NoHandle}
      BY <2>1
    <3>2. handle' = [handle EXCEPT ![AuthorOf[m]] = known]
      BY <1>1 DEF WriteTelegramMessage
    <3>3. handle \in [User -> Handle \union {NoHandle}]
      OBVIOUS
    <3> HIDE DEF known
    <3>4. QED
      BY <2>1, <3>1, <3>2, <3>3
  <2>3. /\ stored' = stored \union {m} /\ actors' = actors \union {AuthorOf[m]}
        /\ hand' = m /\ step' = "node" /\ unlinked' = unlinked
    BY <1>1 DEF WriteTelegramMessage
  <2>4. seen' \in [actors : SUBSET actors', handle : [User -> Handle \union {NoHandle}]]
    BY <2>3 DEF WriteTelegramMessage
  <2>5. QED
    BY <2>1, <2>2, <2>3, <2>4 DEF WriteTelegramMessage
<1>2. CASE ~Identified(m)
  BY <1>2 DEF WriteTelegramMessage, update
<1>3. QED
  BY <1>1, <1>2

LEMMA TypeNode ==
  ASSUME TypeInv, UpdateActorNode
  PROVE  TypeInv'
<1> USE GraphAssumption DEF GraphAssumption, TypeInv, TypeOK, HandInv, rows, analytics
<1>1. /\ hand \in Message /\ AuthorOf[hand] \in User
      /\ HandleOf[hand] \in Handle \union {NoHandle} /\ MentionsIn[hand] \in SUBSET Handle
  BY DEF UpdateActorNode
<1>2. nodeHandle' \in [User -> Handle \union {NoHandle}]
  BY <1>1 DEF UpdateActorNode
<1>3. /\ step' \in {"idle", "reply", "mentions"}
      /\ unlinked' \in SUBSET Handle
      /\ step' # "idle" => hand' = hand
      /\ hand' \in Message \union {NoMessage}
  BY <1>1 DEF UpdateActorNode, Proceed
<1>4. hand \notin posted /\ hand \in posted'
  BY DEF UpdateActorNode
<1>5. \A h \in Handle : <<hand, h>> \notin cited
  BY <1>4
<1>6. hand \notin answered
  BY <1>4
<1>7. HandInv'
  BY <1>3, <1>4, <1>5, <1>6 DEF UpdateActorNode
<1>8. /\ posted' \in SUBSET stored /\ nodes' \in SUBSET actors
      /\ posted \in SUBSET posted' /\ \A m \in posted' : AuthorOf[m] \in nodes'
  BY DEF UpdateActorNode
<1>9. answered' \in SUBSET posted' /\ cited' \in SUBSET (posted' \X Handle)
  BY <1>8 DEF UpdateActorNode
<1>10. QED
  BY <1>1, <1>2, <1>3, <1>7, <1>8, <1>9 DEF UpdateActorNode

LEMMA TypeReply ==
  ASSUME TypeInv, DrawReply
  PROVE  TypeInv'
<1> USE GraphAssumption DEF GraphAssumption, TypeInv, TypeOK, HandInv, rows, analytics
<1>1. hand \in posted /\ AuthorOf[hand] \in User
  BY DEF DrawReply
<1>2. /\ step' \in {"idle", "mentions"}
      /\ unlinked' \in SUBSET unlinked
      /\ step' # "idle" => hand' = hand
      /\ hand' \in Message \union {NoMessage}
  BY DEF DrawReply, Proceed
<1>3. replied' \in Weights /\ answered' \in SUBSET posted
  <2>1. CASE ReplyTo[hand] \in posted /\ AuthorOf[ReplyTo[hand]] # AuthorOf[hand]
    <3>1. AuthorOf[ReplyTo[hand]] \in User
      BY <2>1
    <3>2. replied[AuthorOf[hand]][AuthorOf[ReplyTo[hand]]] + 1 \in Nat
      BY <1>1, <3>1 DEF Weights
    <3>3. replied' = [replied EXCEPT ![AuthorOf[hand]][AuthorOf[ReplyTo[hand]]] =
                          replied[AuthorOf[hand]][AuthorOf[ReplyTo[hand]]] + 1]
      BY <2>1, <1>1, <3>1 DEF DrawReply, Weights
    <3>4. QED
      BY <1>1, <2>1, <3>1, <3>2, <3>3 DEF DrawReply, Weights
  <2>2. CASE ~(ReplyTo[hand] \in posted /\ AuthorOf[ReplyTo[hand]] # AuthorOf[hand])
    BY <2>2 DEF DrawReply
  <2>3. QED
    BY <2>1, <2>2
<1>4. HandInv'
  BY <1>1, <1>2 DEF DrawReply
<1>5. QED
  BY <1>2, <1>3, <1>4 DEF DrawReply

(* What drawing a mention adds to the counts.                              *)
LEMMA MentionDrawn ==
  ASSUME TypeInv, NEW h \in Handle, DrawMention(h)
  PROVE  /\ hand \in posted /\ AuthorOf[hand] \in User
         /\ mentioned' \in [User -> [User \union Handle -> Nat]]
         /\ \A a \in User, t \in User \union Handle :
                mentioned'[a][t] =
                    IF /\ a = AuthorOf[hand]
                       /\ t \in (IF Holders(h) = {} THEN {h} ELSE Holders(h))
                    THEN mentioned[a][t] + 1
                    ELSE mentioned[a][t]
<1> DEFINE from == AuthorOf[hand]
           targets == IF Holders(h) = {} THEN {h} ELSE Holders(h)
           row == [t \in User \union Handle |->
                      IF t \in targets THEN mentioned[from][t] + 1 ELSE mentioned[from][t]]
<1>1. hand \in posted /\ from \in User
  BY DEF TypeInv, TypeOK, HandInv, DrawMention
<1>2. mentioned \in [User -> [User \union Handle -> Nat]]
  BY DEF TypeInv, TypeOK
<1>3. mentioned' = [mentioned EXCEPT ![from] = row]
  BY DEF DrawMention
<1>4. row \in [User \union Handle -> Nat]
  BY <1>1, <1>2
<1>5. mentioned' \in [User -> [User \union Handle -> Nat]]
  BY <1>1, <1>2, <1>3, <1>4
<1>6. ASSUME NEW a \in User
      PROVE  mentioned'[a] = IF a = from THEN row ELSE mentioned[a]
  BY <1>2, <1>3
<1>7. ASSUME NEW a \in User, NEW t \in User \union Handle
      PROVE  mentioned'[a][t] =
                 IF a = from /\ t \in targets THEN mentioned[a][t] + 1 ELSE mentioned[a][t]
  <2> HIDE DEF targets
  <2>1. row[t] = IF t \in targets THEN mentioned[from][t] + 1 ELSE mentioned[from][t]
    OBVIOUS
  <2> HIDE DEF row
  <2>2. CASE a = from
    BY <1>6, <2>1, <2>2
  <2>3. CASE a # from
    BY <1>6, <2>3
  <2>4. QED
    BY <2>2, <2>3
<1>8. QED
  BY <1>1, <1>5, <1>7

LEMMA TypeMention ==
  ASSUME TypeInv, NEW h \in Handle, DrawMention(h)
  PROVE  TypeInv'
<1> USE DEF TypeInv, TypeOK, HandInv, rows, analytics
<1>1. hand \in posted /\ mentioned' \in [User -> [User \union Handle -> Nat]]
  BY MentionDrawn
<1>2. /\ step' \in {"idle", "mentions"}
      /\ unlinked' \in SUBSET (unlinked \ {h})
      /\ step' # "idle" => hand' = hand
      /\ hand' \in Message \union {NoMessage}
  BY DEF DrawMention, Proceed
<1>3. placeholders' \in SUBSET Handle
  BY DEF DrawMention
<1>4. cited' = cited \union {<<hand, h>>} /\ cited' \in SUBSET (posted \X Handle)
  BY <1>1 DEF DrawMention
<1>5. HandInv'
  BY <1>1, <1>2, <1>4 DEF DrawMention
<1>6. QED
  BY <1>1, <1>2, <1>3, <1>4, <1>5 DEF DrawMention

LEMMA TypeAnalytics ==
  ASSUME TypeInv, Analytics \/ PauseNotRead \/ RunFails
  PROVE  TypeInv'
<1> USE GraphAssumption DEF GraphAssumption, TypeInv, TypeOK, HandInv, rows, update, graph
<1>1. CASE ReadActors
  BY <1>1 DEF ReadActors, BeginRun
<1>2. CASE PauseNotRead
  BY <1>2, FaultType DEF PauseNotRead, BeginRun
<1>3. CASE ReadReplies
  <2>1. ASSUME NEW s \in User, NEW d \in User PROVE RepliesOf(s, d) \in Nat
    BY Product DEF RepliesOf, Weights
  <2>2. edges' \in Weights
    BY <1>3, <2>1 DEF ReadReplies, Weights
  <2>3. QED
    BY <1>3, <2>2 DEF ReadReplies
<1>4. CASE ReadMentions
  <2>1. ASSUME NEW s \in User, NEW d \in User PROVE MentionsOf(seen, s, d) \in Nat
    <3>1. mentioned[s][d] \in Nat
      OBVIOUS
    <3>2. seen.handle[d] # NoHandle => mentioned[s][seen.handle[d]] \in Nat
      OBVIOUS
    <3>3. QED
      BY <3>1, <3>2, Product DEF MentionsOf
  <2>2. ASSUME NEW s \in User, NEW d \in User
        PROVE  edges[s][d] + MentionsOf(seen, s, d) \in Nat
    BY <2>1 DEF Weights
  <2>3. edges' \in Weights
    BY <1>4, <2>2 DEF ReadMentions, Weights
  <2>4. QED
    BY <1>4, <2>3 DEF ReadMentions
<1>5. CASE WriteBack
  BY <1>5 DEF WriteBack
<1>6. ASSUME EndRun
      PROVE  /\ phase' = "idle"
             /\ edges' \in Weights
             /\ seen' \in [actors : SUBSET actors, handle : [User -> Handle \union {NoHandle}]]
  BY <1>6 DEF EndRun, NoWeights, NothingSeen, Weights
<1>7. CASE Annotate
  <2>1. annotated' \in [User -> Weights]
    BY <1>7 DEF Annotate
  <2>2. QED
    BY <1>6, <1>7, <2>1 DEF Annotate
<1>8. CASE RunFails
  BY <1>6, <1>8, FaultType DEF RunFails
<1>9. QED
  BY <1>1, <1>2, <1>3, <1>4, <1>5, <1>7, <1>8 DEF Analytics

LEMMA TypeNext == TypeInv /\ [Next]_vars => TypeInv'
<1> SUFFICES ASSUME TypeInv, [Next]_vars PROVE TypeInv'
  OBVIOUS
<1>1. ASSUME NEW m \in Message, WriteTelegramMessage(m) PROVE TypeInv'
  BY <1>1, TypeWrite
<1>2. CASE GraphUpdate
  BY <1>2, TypeNode, TypeReply, TypeMention DEF GraphUpdate
<1>3. CASE Analytics \/ PauseNotRead \/ RunFails
  BY <1>3, TypeAnalytics
<1>4. CASE SetPaused
  BY <1>4 DEF SetPaused, TypeInv, TypeOK, HandInv, rows, update, graph, analytics
<1>5. CASE GraphError
  BY <1>5, FaultType DEF GraphError, TypeInv, TypeOK, HandInv, rows, graph, analytics
<1>6. CASE UNCHANGED vars
  BY <1>6 DEF vars, TypeInv, TypeOK, HandInv
<1>7. QED
  BY <1>1, <1>2, <1>3, <1>4, <1>5, <1>6 DEF Next

LEMMA TypeHolds == Spec => []TypeInv
<1>1. QED
  BY TypeInit, TypeNext, PTL DEF Spec

(* Every variable keeps its type: what is read, scored and drawn is always *)
(* about stored messages and their senders.                                *)
THEOREM TypeCorrect == Spec => []TypeOK
<1>1. TypeInv => TypeOK
  BY DEF TypeInv
<1>2. QED
  BY <1>1, TypeHolds, PTL

(***************************************************************************)
(* What the graph counts                                                   *)
(***************************************************************************)
(* A node's handle, and a known handle of a row, is one its sender had.    *)
HandleInv ==
    \A u \in User :
        /\ handle[u] = NoHandle \/ handle[u] \in HandlesOf(u)
        /\ u \in nodes => nodeHandle[u] \in HandlesOf(u)

Answers(a, b) == {m \in answered : AuthorOf[m] = a /\ AuthorOf[ReplyTo[m]] = b}

ReplyInv == \A a, b \in User : replied[a][b] = Cardinality(Answers(a, b))

(* The property for every handle a sender ever had: a row may take one up  *)
(* again at any time.                                                      *)
MentionInv ==
    \A a \in User :
        /\ \A h \in Handle : mentioned[a][h] <= Cardinality(Cited(a, {h}))
        /\ \A u \in User : mentioned[a][u] <= Cardinality(Cited(a, HandlesOf(u)))
        /\ \A u \in User : \A h \in HandlesOf(u) \intersect Handle :
               Cardinality(Cited(a, {h})) <= mentioned[a][u] + mentioned[a][h]

AttentionInv == HandleInv /\ ReplyInv /\ MentionInv

LEMMA HandleOwner ==
  ASSUME NEW u \in User, NEW v \in User, NEW h \in Handle,
         h \in HandlesOf(u), h \in HandlesOf(v)
  PROVE  u = v
  BY GraphAssumption DEF GraphAssumption, HandlesOf

LEMMA AttentionInit == Init => AttentionInv
<1> SUFFICES ASSUME Init PROVE AttentionInv
  OBVIOUS
<1>1. \A a, b \in User : Answers(a, b) = {} /\ replied[a][b] = 0
  BY DEF Init, Answers, NoWeights
<1>2. \A a \in User : \A H : Cited(a, H) = {}
  BY DEF Init, Cited
<1>3. \A a \in User, t \in User \union Handle : mentioned[a][t] = 0
  BY DEF Init
<1>4. HandleInv
  BY DEF Init, HandleInv
<1>5. Cardinality({}) = 0
  BY FS_EmptySet
<1>6. ReplyInv
  BY <1>1, <1>5 DEF ReplyInv
<1>7. \A a \in User : \A H : Cardinality(Cited(a, H)) = 0
  BY <1>2, <1>5
<1>8. MentionInv
  BY <1>3, <1>7 DEF MentionInv
<1>9. QED
  BY <1>4, <1>6, <1>8 DEF AttentionInv

LEMMA FiniteCounts ==
  ASSUME TypeInv
  PROVE  /\ \A a, b \in User : IsFiniteSet(Answers(a, b)) /\ Cardinality(Answers(a, b)) \in Nat
         /\ \A a \in User : \A H : IsFiniteSet(Cited(a, H)) /\ Cardinality(Cited(a, H)) \in Nat
<1>1. answered \in SUBSET Message /\ cited \in SUBSET (Message \X Handle)
  BY DEF TypeInv, TypeOK
<1>2. IsFiniteSet(Message) /\ IsFiniteSet(Handle)
  BY GraphAssumption DEF GraphAssumption
<1>3. IsFiniteSet(answered) /\ IsFiniteSet(cited)
  BY <1>1, <1>2, FS_Product, FS_Subset
<1>4. \A a, b \in User : Answers(a, b) \in SUBSET answered
  BY DEF Answers
<1>5. \A a \in User : \A H : Cited(a, H) \in SUBSET cited
  BY DEF Cited
<1>6. QED
  BY <1>3, <1>4, <1>5, FS_Subset, FS_CardinalityType

LEMMA AttentionReply ==
  ASSUME TypeInv, ReplyInv, DrawReply
  PROVE  ReplyInv'
<1> DEFINE from == AuthorOf[hand]
           to == AuthorOf[ReplyTo[hand]]
<1>1. hand \in posted /\ hand \notin answered /\ from \in User
  BY DEF TypeInv, TypeOK, HandInv, DrawReply
<1>2. CASE ReplyTo[hand] \in posted /\ to # from
  <2>1. to \in User
    BY <1>2 DEF TypeInv, TypeOK
  <2>2. replied' = [replied EXCEPT ![from][to] = @ + 1] /\ answered' = answered \union {hand}
    BY <1>2 DEF DrawReply
  <2>3. ASSUME NEW a \in User, NEW b \in User
        PROVE  replied'[a][b] = Cardinality(Answers(a, b)')
    <3>1. IsFiniteSet(Answers(a, b)) /\ replied[a][b] = Cardinality(Answers(a, b))
      BY FiniteCounts DEF ReplyInv
    <3>2. CASE a = from /\ b = to
      <4>1. Answers(a, b)' = Answers(a, b) \union {hand} /\ hand \notin Answers(a, b)
        BY <1>1, <2>2, <3>2 DEF Answers
      <4>2. Cardinality(Answers(a, b)') = Cardinality(Answers(a, b)) + 1
        BY <3>1, <4>1, FS_AddElement
      <4>3. replied'[a][b] = replied[a][b] + 1
        BY <1>1, <2>1, <2>2, <3>2 DEF TypeInv, TypeOK, Weights
      <4>4. QED
        BY <3>1, <4>2, <4>3
    <3>3. CASE ~(a = from /\ b = to)
      <4>1. Answers(a, b)' = Answers(a, b)
        BY <2>2, <3>3 DEF Answers
      <4>2. replied'[a][b] = replied[a][b]
        BY <1>1, <2>1, <2>2, <3>3 DEF TypeInv, TypeOK, Weights
      <4>3. QED
        BY <3>1, <4>1, <4>2
    <3>4. QED
      BY <3>2, <3>3
  <2>4. QED
    BY <2>3 DEF ReplyInv
<1>3. CASE ~(ReplyTo[hand] \in posted /\ to # from)
  BY <1>3 DEF DrawReply, ReplyInv, Answers
<1>4. QED
  BY <1>2, <1>3

(* A mention is drawn once, and to a node that answers to the handle.      *)
LEMMA AttentionMention ==
  ASSUME TypeInv, HandleInv, MentionInv, NEW h \in Handle, DrawMention(h)
  PROVE  MentionInv'
<1> DEFINE from == AuthorOf[hand]
           targets == IF Holders(h) = {} THEN {h} ELSE Holders(h)
<1>1. from \in User /\ \A a \in User, t \in User \union Handle :
          mentioned'[a][t] = IF a = from /\ t \in targets THEN mentioned[a][t] + 1
                                                          ELSE mentioned[a][t]
  BY MentionDrawn
<1>2. <<hand, h>> \notin cited /\ cited' = cited \union {<<hand, h>>}
  BY DEF TypeInv, HandInv, DrawMention
<1>3. \A a \in User, t \in User \union Handle : mentioned[a][t] \in Nat
  BY DEF TypeInv, TypeOK
<1>4. ASSUME NEW a \in User, NEW H
      PROVE  Cardinality(Cited(a, H)') =
                 IF a = from /\ h \in H THEN Cardinality(Cited(a, H)) + 1
                                        ELSE Cardinality(Cited(a, H))
  <2>1. CASE a = from /\ h \in H
    <3>1. Cited(a, H)' = Cited(a, H) \union {<<hand, h>>} /\ <<hand, h>> \notin Cited(a, H)
      BY <1>2, <2>1 DEF Cited
    <3>2. QED
      BY <2>1, <3>1, FiniteCounts, FS_AddElement
  <2>2. CASE ~(a = from /\ h \in H)
    <3>1. Cited(a, H)' = Cited(a, H)
      BY <1>2, <2>2 DEF Cited
    <3>2. QED
      BY <2>2, <3>1
  <2>3. QED
    BY <2>1, <2>2
<1>5. \A t \in Handle : t \in targets => t = h
  BY GraphAssumption DEF GraphAssumption, Holders, TypeInv, TypeOK
<1>6. \A u \in User : u \in targets => h \in HandlesOf(u)
  BY GraphAssumption DEF GraphAssumption, Holders, HandleInv
<1>7. \A u \in User : h \in HandlesOf(u) => h \in targets \/ u \in targets
  <2> SUFFICES ASSUME NEW u \in User, h \in HandlesOf(u), h \notin targets
               PROVE  u \in targets
    OBVIOUS
  <2>1. targets = Holders(h)
    OBVIOUS
  <2>2. PICK v \in nodes : nodeHandle[v] = h
    BY <2>1 DEF Holders
  <2>3. v \in User /\ h \in HandlesOf(v)
    BY <2>2 DEF HandleInv, TypeInv, TypeOK
  <2>4. v = u
    BY <2>3, HandleOwner
  <2>5. QED
    BY <2>1, <2>2, <2>4 DEF Holders
<1> HIDE DEF targets, from
<1>8. ASSUME NEW a \in User
      PROVE  /\ \A g \in Handle : mentioned'[a][g] <= Cardinality(Cited(a, {g})')
             /\ \A u \in User : mentioned'[a][u] <= Cardinality(Cited(a, HandlesOf(u))')
             /\ \A u \in User : \A g \in HandlesOf(u) \intersect Handle :
                    Cardinality(Cited(a, {g})') <= mentioned'[a][u] + mentioned'[a][g]
  <2>1. ASSUME NEW g \in Handle
        PROVE  mentioned'[a][g] <= Cardinality(Cited(a, {g})')
    <3>1. Cardinality(Cited(a, {g})) \in Nat /\ mentioned[a][g] <= Cardinality(Cited(a, {g}))
      BY FiniteCounts DEF MentionInv
    <3>2. Cardinality(Cited(a, {g})') = IF a = from /\ h = g THEN Cardinality(Cited(a, {g})) + 1
                                                             ELSE Cardinality(Cited(a, {g}))
      BY <1>4
    <3>3. QED
      BY <1>1, <1>3, <1>5, <3>1, <3>2
  <2>2. ASSUME NEW u \in User
        PROVE  mentioned'[a][u] <= Cardinality(Cited(a, HandlesOf(u))')
    <3>1. /\ Cardinality(Cited(a, HandlesOf(u))) \in Nat
          /\ mentioned[a][u] <= Cardinality(Cited(a, HandlesOf(u)))
      BY FiniteCounts DEF MentionInv
    <3>2. QED
      BY <1>1, <1>3, <1>4, <1>6, <3>1
  <2>3. ASSUME NEW u \in User, NEW g \in HandlesOf(u) \intersect Handle
        PROVE  Cardinality(Cited(a, {g})') <= mentioned'[a][u] + mentioned'[a][g]
    <3>1. /\ Cardinality(Cited(a, {g})) \in Nat
          /\ Cardinality(Cited(a, {g})) <= mentioned[a][u] + mentioned[a][g]
      BY FiniteCounts DEF MentionInv
    <3>2. Cardinality(Cited(a, {g})') = IF a = from /\ h = g THEN Cardinality(Cited(a, {g})) + 1
                                                             ELSE Cardinality(Cited(a, {g}))
      BY <1>4
    <3>3. mentioned'[a][u] \in Nat /\ mentioned'[a][g] \in Nat
      BY <1>1, <1>3
    <3>4. mentioned'[a][u] >= mentioned[a][u] /\ mentioned'[a][g] >= mentioned[a][g]
      BY <1>1, <1>3
    <3>5. CASE a = from /\ h = g
      <4>1. u \in targets \/ g \in targets
        BY <1>7, <3>5
      <4>2. mentioned'[a][u] = mentioned[a][u] + 1 \/ mentioned'[a][g] = mentioned[a][g] + 1
        BY <1>1, <3>5, <4>1
      <4>3. mentioned[a][u] \in Nat /\ mentioned[a][g] \in Nat
        BY <1>3
      <4>4. QED
        BY <3>1, <3>2, <3>3, <3>4, <3>5, <4>2, <4>3
    <3>6. CASE ~(a = from /\ h = g)
      <4>1. mentioned[a][u] \in Nat /\ mentioned[a][g] \in Nat
        BY <1>3
      <4>2. QED
        BY <3>1, <3>2, <3>3, <3>4, <3>6, <4>1
    <3>7. QED
      BY <3>5, <3>6
  <2>4. QED
    BY <2>1, <2>2, <2>3
<1>9. QED
  BY <1>8 DEF MentionInv, HandlesOf

(* Only these steps touch the counts and the handles.                      *)
LEMMA AttentionFrame ==
  ASSUME TypeInv, [Next]_vars
  PROVE  /\ DrawReply \/ UNCHANGED <<replied, answered>>
         /\ (\E h \in Handle : DrawMention(h)) \/ UNCHANGED <<mentioned, cited>>
         /\ UpdateActorNode \/ UNCHANGED <<nodes, nodeHandle>>
         /\ (\E m \in Message : WriteTelegramMessage(m)) \/ UNCHANGED handle
  BY DEF Next, vars, GraphUpdate, Analytics, WriteTelegramMessage, UpdateActorNode, DrawReply,
         DrawMention, ReadActors, BeginRun, ReadReplies, ReadMentions, WriteBack, Annotate,
         SetPaused, GraphError, PauseNotRead, RunFails, rows, update, graph, analytics

LEMMA HandleNext ==
  ASSUME TypeInv, HandleInv, [Next]_vars
  PROVE  HandleInv'
<1>1. \A u \in User : handle'[u] = NoHandle \/ handle'[u] \in HandlesOf(u)
  <2>1. ASSUME NEW m \in Message, WriteTelegramMessage(m)
        PROVE  \A u \in User : handle'[u] = handle[u] \/ (AuthorOf[m] = u /\ handle'[u] = HandleOf[m])
    BY <2>1 DEF WriteTelegramMessage, TypeInv, TypeOK
  <2>2. QED
    BY <2>1, AttentionFrame DEF HandleInv, HandlesOf
<1>2. \A u \in User : u \in nodes' => nodeHandle'[u] \in HandlesOf(u)
  <2>1. CASE UpdateActorNode
    <3>1. hand \in Message /\ AuthorOf[hand] \in User
      BY <2>1 DEF UpdateActorNode, TypeInv, TypeOK
    <3>2. /\ nodes' = nodes \union {AuthorOf[hand]}
          /\ nodeHandle' = [nodeHandle EXCEPT ![AuthorOf[hand]] = HandleOf[hand]]
      BY <2>1 DEF UpdateActorNode
    <3>3. QED
      BY <3>1, <3>2 DEF HandleInv, HandlesOf, TypeInv, TypeOK
  <2>2. QED
    BY <2>1, AttentionFrame DEF HandleInv
<1>3. QED
  BY <1>1, <1>2 DEF HandleInv, HandlesOf

LEMMA AttentionNext == TypeInv /\ AttentionInv /\ [Next]_vars => AttentionInv'
<1> SUFFICES ASSUME TypeInv, AttentionInv, [Next]_vars PROVE AttentionInv'
  OBVIOUS
<1>1. HandleInv'
  BY HandleNext DEF AttentionInv
<1>2. ReplyInv'
  <2>1. CASE UNCHANGED <<replied, answered>>
    BY <2>1 DEF AttentionInv, ReplyInv, Answers
  <2>2. QED
    BY <2>1, AttentionFrame, AttentionReply DEF AttentionInv
<1>3. MentionInv'
  <2>1. CASE UNCHANGED <<mentioned, cited>>
    BY <2>1 DEF AttentionInv, MentionInv, Cited, HandlesOf
  <2>2. QED
    BY <2>1, AttentionFrame, AttentionMention DEF AttentionInv
<1>4. QED
  BY <1>1, <1>2, <1>3 DEF AttentionInv

(* For any messages in any order, any number of swallowed errors and any   *)
(* renamed or hidden usernames, as long as no username changes hands: a    *)
(* reply is counted once, and no mention is counted twice on a node or     *)
(* missing from both nodes of its actor.                                   *)
THEOREM AttentionHolds == Spec => []AttentionCounted
<1>1. TypeInv /\ AttentionInv => AttentionCounted
  <2> SUFFICES ASSUME TypeInv, AttentionInv PROVE AttentionCounted
    OBVIOUS
  <2>1. actors \in SUBSET User /\ handle \in [User -> Handle \union {NoHandle}]
    BY DEF TypeInv, TypeOK
  <2>2. \A u \in User : handle[u] # NoHandle => handle[u] \in HandlesOf(u) \intersect Handle
    BY <2>1 DEF AttentionInv, HandleInv
  <2>3. QED
    BY <2>1, <2>2 DEF AttentionInv, ReplyInv, MentionInv, Answers, AttentionCounted
<1>2. QED
  BY <1>1, TypeHolds, AttentionInit, AttentionNext, PTL DEF Spec
=============================================================================
