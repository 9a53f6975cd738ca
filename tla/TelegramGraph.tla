----------------------------- MODULE TelegramGraph -----------------------------
(***************************************************************************)
(* The actor graph of the Telegram groups: db_writer's                     *)
(* write_telegram_message and update_telegram_graph, and graph_analytics,  *)
(* which folds the mentions of handles onto actors and writes scores back. *)
(*                                                                         *)
(* A sender is known by its id, the target of a mention by its handle      *)
(* only: an actor mentioned before its first message is stored has a node  *)
(* of its own for the handle, besides the node of the sender.              *)
(*                                                                         *)
(* What the pipeline delivers may come late, twice, in any order or never. *)
(* A score is represented by the weighted edges it is computed from.       *)
(***************************************************************************)
EXTENDS Naturals, FiniteSets

CONSTANTS
    User,         \* sender ids
    Handle,
    NoHandle,     \* a sender without a username
    Message,      \* keys of telegram_messages: (group, message)
    NoMessage,
    NoUser,       \* a message without a sender id
    AuthorOf,     \* [Message -> User or NoUser]
    HandleOf,     \* [Message -> Handle or NoHandle]: the sender's, when it was collected
    ReplyTo,      \* [Message -> Message or NoMessage]
    MentionsIn,   \* [Message -> SUBSET Handle]
    W_REPLY,      \* the weights of the edges, in halves
    W_MENTION,
    MaxFaults     \* bound

(* A username belongs to one account at a time; here, for good.            *)
ASSUME GraphAssumption ==
    /\ AuthorOf \in [Message -> User \union {NoUser}]
    /\ HandleOf \in [Message -> Handle \union {NoHandle}]
    /\ ReplyTo \in [Message -> Message \union {NoMessage}]
    /\ MentionsIn \in [Message -> SUBSET Handle]
    /\ NoUser \notin User
    /\ NoHandle \notin Handle
    /\ NoMessage \notin Message
    /\ User \cap Handle = {}
    /\ \A m, n \in Message :
           HandleOf[m] = HandleOf[n] /\ HandleOf[m] # NoHandle => AuthorOf[m] = AuthorOf[n]
    /\ IsFiniteSet(Message)
    /\ IsFiniteSet(Handle)
    /\ W_REPLY \in Nat
    /\ W_MENTION \in Nat
    /\ MaxFaults \in Nat

VARIABLES
    stored,       \* telegram_messages
    actors,       \* tg_user_id of the rows of telegram_actors
    handle,       \* their handle
    hand,         \* the message whose graph update is under way
    step,         \* the statement of the update that comes next
    unlinked,     \* the mentions it has still to draw
    nodes,        \* (:Actor) nodes with a user_id
    nodeHandle,   \* their handle
    placeholders, \* (:Actor) nodes with a handle only
    posted,       \* (:Message) nodes, with their POSTED edge
    replied,      \* REPLIED_TO counts
    mentioned,    \* MENTIONED counts, to both kinds of node
    phase,        \* how far graph_analytics is in run_once
    seen,         \* the rows of telegram_actors it read
    edges,        \* the edges it read, folded onto actors
    scored,       \* for each actor, the edges its row's scores were computed from
    annotated,    \* likewise for the scores on the actor's node
    paused,       \* system_settings.analytics_enabled = 'false'
    faults,
    \* history
    answered,     \* messages whose reply edge was drawn
    cited         \* mentions that were drawn

rows == <<stored, actors, handle>>
update == <<hand, step, unlinked>>
graph == <<nodes, nodeHandle, placeholders, posted, replied, mentioned, answered, cited>>
analytics == <<phase, seen, edges, scored, annotated>>
vars == <<stored, actors, handle, hand, step, unlinked, nodes, nodeHandle, placeholders, posted,
          replied, mentioned, phase, seen, edges, scored, annotated, paused, faults, answered,
          cited>>

Weights == [User -> [User -> Nat]]

NoWeights == [s \in User |-> [d \in User |-> 0]]

TypeOK ==
    /\ stored \in SUBSET Message
    /\ actors \in SUBSET User
    /\ handle \in [User -> Handle \union {NoHandle}]
    /\ hand \in Message \union {NoMessage}
    /\ step \in {"idle", "node", "reply", "mentions"}
    /\ step # "idle" => hand \in stored /\ AuthorOf[hand] \in actors
    /\ unlinked \in SUBSET Handle
    /\ nodes \in SUBSET actors
    /\ nodeHandle \in [User -> Handle \union {NoHandle}]
    /\ placeholders \in SUBSET Handle
    /\ posted \in SUBSET stored
    /\ \A m \in posted : AuthorOf[m] \in nodes
    /\ replied \in Weights
    /\ mentioned \in [User -> [User \union Handle -> Nat]]
    /\ phase \in {"idle", "actors", "replies", "edges", "written"}
    /\ seen \in [actors : SUBSET actors, handle : [User -> Handle \union {NoHandle}]]
    /\ edges \in Weights
    /\ scored \in [User -> Weights]
    /\ annotated \in [User -> Weights]
    /\ paused \in BOOLEAN
    /\ faults \in 0..MaxFaults
    /\ answered \in SUBSET posted
    /\ cited \in SUBSET (posted \X Handle)

NothingSeen == [actors |-> {}, handle |-> [u \in User |-> NoHandle]]

Init ==
    /\ stored = {}
    /\ actors = {}
    /\ handle = [u \in User |-> NoHandle]
    /\ hand = NoMessage
    /\ step = "idle"
    /\ unlinked = {}
    /\ nodes = {}
    /\ nodeHandle = [u \in User |-> NoHandle]
    /\ placeholders = {}
    /\ posted = {}
    /\ replied = NoWeights
    /\ mentioned = [u \in User |-> [t \in User \union Handle |-> 0]]
    /\ phase = "idle"
    /\ seen = NothingSeen
    /\ edges = NoWeights
    /\ scored = [u \in User |-> NoWeights]
    /\ annotated = [u \in User |-> NoWeights]
    /\ paused = FALSE
    /\ faults = 0
    /\ answered = {}
    /\ cited = {}

(***************************************************************************)
(* db_writer                                                               *)
(***************************************************************************)
(* Several statements, each committed on its own; after the last one, or   *)
(* an error, the message is done with.                                     *)
Proceed(next, rest) ==
    IF next = "mentions" /\ rest = {}
    THEN step' = "idle" /\ hand' = NoMessage /\ unlinked' = {}
    ELSE step' = next /\ unlinked' = rest /\ UNCHANGED hand

(* A mistake to catch: a conflict on the natural key updates the row.      *)
AnyMessage(m) == TRUE

(* ON CONFLICT (tg_group_id, tg_message_id) DO NOTHING: a message that is  *)
(* already stored changes nothing, wherever its first handling stopped.    *)
NewMessage(m) == m \notin stored

Identified(m) == AuthorOf[m] # NoUser

(* write_telegram_message.  Without a sender id there is no actor, and     *)
(* update_telegram_graph returns at once.                                  *)
WriteTelegramMessage(m) ==
    /\ step = "idle"
    /\ NewMessage(m)
    /\ stored' = stored \union {m}
    /\ IF Identified(m)
       THEN /\ actors' = actors \union {AuthorOf[m]}
            /\ handle' = [handle EXCEPT ![AuthorOf[m]] =
                   IF HandleOf[m] = NoHandle THEN @ ELSE HandleOf[m]]
            /\ hand' = m
            /\ step' = "node"
            /\ UNCHANGED unlinked
       ELSE UNCHANGED <<actors, handle, update>>
    /\ UNCHANGED <<graph, analytics, paused, faults>>

(* update_telegram_graph: the actor, the message, and what joins them.     *)
(* The row keeps a handle it knew, the node does not.                      *)
UpdateActorNode ==
    /\ step = "node"
    /\ nodes' = nodes \union {AuthorOf[hand]}
    /\ nodeHandle' = [nodeHandle EXCEPT ![AuthorOf[hand]] = HandleOf[hand]]
    /\ posted' = posted \union {hand}
    /\ IF ReplyTo[hand] = NoMessage
       THEN Proceed("mentions", MentionsIn[hand])
       ELSE Proceed("reply", MentionsIn[hand])
    /\ UNCHANGED <<rows, placeholders, replied, mentioned, analytics, paused, faults,
                   answered, cited>>

(* Best effort: only if the message replied to is in the graph, and is     *)
(* somebody else's.                                                        *)
DrawReply ==
    /\ step = "reply"
    /\ LET from == AuthorOf[hand]
           original == ReplyTo[hand]
       IN IF original \in posted /\ AuthorOf[original] # from
          THEN /\ replied' = [replied EXCEPT ![from][AuthorOf[original]] = @ + 1]
               /\ answered' = answered \union {hand}
          ELSE UNCHANGED <<replied, answered>>
    /\ Proceed("mentions", unlinked)
    /\ UNCHANGED <<rows, nodes, nodeHandle, placeholders, posted, mentioned, analytics, paused,
                   faults, cited>>

(* MERGE (b:Actor {handle: h}) finds every node with the handle, sender or *)
(* placeholder, and makes a placeholder if there is none.                  *)
Holders(h) == {u \in nodes : nodeHandle[u] = h} \union ({h} \intersect placeholders)

DrawMention(h) ==
    /\ step = "mentions"
    /\ h \in unlinked
    /\ LET from == AuthorOf[hand]
           targets == IF Holders(h) = {} THEN {h} ELSE Holders(h)
       IN /\ mentioned' = [mentioned EXCEPT ![from] =
                 [t \in User \union Handle |-> IF t \in targets THEN @[t] + 1 ELSE @[t]]]
          /\ placeholders' = placeholders \union (targets \intersect Handle)
    /\ cited' = cited \union {<<hand, h>>}
    /\ Proceed("mentions", unlinked \ {h})
    /\ UNCHANGED <<rows, nodes, nodeHandle, posted, replied, analytics, paused, faults, answered>>

(***************************************************************************)
(* graph_analytics                                                         *)
(***************************************************************************)
(* run_once, unless paused; and the first half of read_graph.  Without     *)
(* actors there is nothing to do.                                          *)
BeginRun ==
    /\ phase = "idle"
    /\ actors # {}
    /\ seen' = [actors |-> actors, handle |-> handle]
    /\ phase' = "actors"
    /\ UNCHANGED <<rows, update, graph, edges, scored, annotated, paused>>

ReadActors == ~paused /\ BeginRun /\ UNCHANGED faults

(* add: no edges from an actor to itself.                                  *)
RepliesOf(s, d) == IF s = d THEN 0 ELSE W_REPLY * replied[s][d]

(* A placeholder's mentions go to the actor whose row has its handle.      *)
MentionsOf(known, s, d) ==
    IF s = d THEN 0
    ELSE W_MENTION * (mentioned[s][d]
             + IF d \in known.actors /\ known.handle[d] # NoHandle
               THEN mentioned[s][known.handle[d]]
               ELSE 0)

ReadReplies ==
    /\ phase = "actors"
    /\ edges' = [s \in User |-> [d \in User |-> RepliesOf(s, d)]]
    /\ phase' = "replies"
    /\ UNCHANGED <<rows, update, graph, seen, scored, annotated, paused, faults>>

ReadMentions ==
    /\ phase = "replies"
    /\ edges' = [s \in User |-> [d \in User |-> edges[s][d] + MentionsOf(seen, s, d)]]
    /\ phase' = "edges"
    /\ UNCHANGED <<rows, update, graph, seen, scored, annotated, paused, faults>>

(* compute_scores: the actors read, and whoever an edge joins.             *)
Scored == seen.actors \union {u \in User : \E v \in User : edges[u][v] + edges[v][u] > 0}

(* A mistake to catch: a row that has scores is left alone.                *)
RewrittenOnce(u) == u \in Scored \intersect actors /\ scored[u] = NoWeights

Rewritten(u) == u \in Scored \intersect actors

(* write_back: the rows of telegram_actors in one transaction ...          *)
WriteBack ==
    /\ phase = "edges"
    /\ scored' = [u \in User |-> IF Rewritten(u) THEN edges ELSE scored[u]]
    /\ phase' = "written"
    /\ UNCHANGED <<rows, update, graph, seen, edges, annotated, paused, faults>>

EndRun == phase' = "idle" /\ seen' = NothingSeen /\ edges' = NoWeights

(* ... then the nodes.                                                     *)
Annotate ==
    /\ phase = "written"
    /\ annotated' = [u \in User |-> IF u \in Scored \intersect nodes THEN edges ELSE annotated[u]]
    /\ EndRun
    /\ UNCHANGED <<rows, update, graph, scored, paused, faults>>

(* The operator's pause flag.                                              *)
SetPaused ==
    /\ paused' = ~paused
    /\ UNCHANGED <<rows, update, graph, analytics, faults>>

(***************************************************************************)
(* Faults                                                                  *)
(***************************************************************************)
Fault == faults < MaxFaults /\ faults' = faults + 1

(* The graph's database fails and the error is swallowed, or db_writer is  *)
(* stopped: the rest of the update is lost.                                *)
GraphError ==
    /\ Fault
    /\ step # "idle"
    /\ step' = "idle"
    /\ hand' = NoMessage
    /\ unlinked' = {}
    /\ UNCHANGED <<rows, graph, analytics, paused>>

(* analytics_paused: a flag that cannot be read does not pause.            *)
PauseNotRead == Fault /\ paused /\ BeginRun

(* main: an exception ends the run, one of the annotation is swallowed; or *)
(* the process is stopped.                                                 *)
RunFails ==
    /\ Fault
    /\ phase # "idle"
    /\ EndRun
    /\ UNCHANGED <<rows, update, graph, scored, annotated, paused>>

(***************************************************************************)
(* The specification                                                       *)
(***************************************************************************)
GraphUpdate == UpdateActorNode \/ DrawReply \/ \E h \in Handle : DrawMention(h)

Analytics == ReadActors \/ ReadReplies \/ ReadMentions \/ WriteBack \/ Annotate

Next ==
    \/ \E m \in Message : WriteTelegramMessage(m)
    \/ GraphUpdate
    \/ Analytics
    \/ SetPaused
    \/ GraphError
    \/ PauseNotRead
    \/ RunFails

Spec == Init /\ [][Next]_vars

(* db_writer goes on with the message in hand; graph_analytics runs again  *)
(* and again.                                                              *)
FairSpec ==
    /\ Spec
    /\ WF_vars(GraphUpdate)
    /\ WF_vars(Analytics)

(***************************************************************************)
(* Properties                                                              *)
(***************************************************************************)
Cited(a, handles) == {c \in cited : AuthorOf[c[1]] = a /\ c[2] \in handles}

HandlesOf(u) == {HandleOf[m] : m \in {n \in Message : AuthorOf[n] = u}}

(* The counts of the graph are those of distinct messages, however often,  *)
(* late or partly each was handled: an edge counts a reply once; a node    *)
(* counts a mention once; and a mention is on the actor's own node or on   *)
(* the placeholder graph_analytics folds onto the actor.  (Once an actor   *)
(* has both, a mention is on both, and the fold adds them up; and what is  *)
(* on the placeholder of a handle the actor has given up, it drops.)       *)
AttentionCounted ==
    \A a \in User :
        /\ \A b \in User : replied[a][b] =
                Cardinality({m \in answered : AuthorOf[m] = a /\ AuthorOf[ReplyTo[m]] = b})
        /\ \A h \in Handle : mentioned[a][h] <= Cardinality(Cited(a, {h}))
        /\ \A u \in actors :
            /\ mentioned[a][u] <= Cardinality(Cited(a, HandlesOf(u)))
            /\ handle[u] # NoHandle =>
                   Cardinality(Cited(a, {handle[u]})) <= mentioned[a][u] + mentioned[a][handle[u]]

Current ==
    LET known == [actors |-> actors, handle |-> handle]
    IN  [s \in User |-> [d \in User |-> RepliesOf(s, d) + MentionsOf(known, s, d)]]

(* Scores follow the graph: once the pause is lifted for good, the scores  *)
(* of every actor, in its row and on its node, are in the end those of the *)
(* graph as it is, although each run reads rows and edges at different     *)
(* times and writes them to two stores.                                    *)
ScoresCatchUp ==
    <>[]~paused =>
        <>[]\A u \in actors :
            /\ scored[u] = Current
            /\ u \in nodes => annotated[u] = Current

=============================================================================
