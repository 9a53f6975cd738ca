---------------------------- MODULE PipelineProofs ----------------------------
(***************************************************************************)
(* Machine-checked proofs about the pipeline, for every set of records,    *)
(* sources, faults and commands.  Each theorem rests on an inductive       *)
(* invariant, a conjunction of the property and of what the processes hold *)
(* between their steps.                                                    *)
(***************************************************************************)
EXTENDS PipelineProperties, Counting

(***************************************************************************)
(* Types                                                                   *)
(***************************************************************************)
(* A stage that is not idle has a message in hand.                         *)
Working == \A s \in Service : step[s] # "idle" => hand[s] \in Message

TypeInv == TypeOK /\ Working

LEMMA TypeInit == Init => TypeInv
<1> SUFFICES ASSUME Init PROVE TypeInv
  OBVIOUS
<1>1. BrokerTypeOK /\ AnalysisTypeOK /\ Working
  BY DEF Init, BrokerInit, AnalysisInit, BrokerTypeOK, AnalysisTypeOK, Working, Step
<1>2. AiTypeOK
  <2>1. <<>> \in Seq(Command)
    OBVIOUS
  <2>2. QED
    BY <2>1 DEF Init, AiInit, AiTypeOK, Command
<1>3. DbTypeOK
  BY DEF Init, DbInit, DbTypeOK, Status
<1>4. QED
  BY <1>1, <1>2, <1>3, BoundsAssumption DEF Init, TypeInv, TypeOK, BoundsAssumption

(* The parts of a step keep the broker's types.                            *)
LEMMA PublishType ==
  ASSUME BrokerTypeOK, NEW q \in QueueName, NEW m \in Message, Publish(q, m)
  PROVE  queue' \in [QueueName -> Seq(Message)]
BY DEF BrokerTypeOK, Publish

LEMMA FinishType ==
  ASSUME BrokerTypeOK, Working, NEW s \in Service, Finish(s)
  PROVE  /\ hand' \in [Service -> Message \cup {NoMessage}]
         /\ step' \in [Service -> Step]
         /\ Working'
BY DEF BrokerTypeOK, Working, Finish, Step

LEMMA AdvanceType ==
  ASSUME BrokerTypeOK, Working, NEW s \in Service, NEW to \in Step,
         step[s] # "idle", Advance(s, to)
  PROVE  /\ hand' \in [Service -> Message \cup {NoMessage}]
         /\ step' \in [Service -> Step]
         /\ Working'
BY DEF BrokerTypeOK, Working, Advance

LEMMA TakeType ==
  ASSUME BrokerTypeOK, Working, NEW s \in Service, NEW q \in QueueName, Take(s, q)
  PROVE  /\ queue' \in [QueueName -> Seq(Message)]
         /\ hand' \in [Service -> Message \cup {NoMessage}]
         /\ step' \in [Service -> Step]
         /\ Working'
<1>1. /\ queue[q] \in Seq(Message)
      /\ queue[q] # <<>>
  BY DEF BrokerTypeOK, Take
<1>2. Head(queue[q]) \in Message /\ Tail(queue[q]) \in Seq(Message)
  BY <1>1
<1>3. QED
  BY <1>2 DEF BrokerTypeOK, Working, Take, Step

LEMMA SubscribedType == \A s \in Service : Subscribed(s) \subseteq QueueName
BY DEF Service, Subscribed, QueueName

(* What the process works on, while it works.                              *)
LEMMA InHandType ==
  ASSUME TypeInv, NEW s \in Service, step[s] # "idle"
  PROVE  /\ hand[s] \in Message
         /\ hand[s].rec \in Record
         /\ hand[s].pi \in Nat
         /\ SourceOf[hand[s].rec] \in Source
BY EnvelopeAssumption DEF TypeInv, Working, Message, EnvelopeAssumption

(* Each stage's steps keep the broker's types and its own.                 *)
LEMMA SanitizerType ==
  ASSUME TypeInv, ProcessRawRecord
  PROVE  BrokerTypeOK' /\ Working'
<1> DEFINE m == hand["sanitizer"]
<1>1. "sanitizer" \in Service /\ step["sanitizer"] # "idle"
  BY DEF Service, ProcessRawRecord
<1>2. m \in Message /\ m.rec \in Record
  BY <1>1, InHandType
<1>3. InjectionGateway(m) \in Message
  BY <1>2, EnvelopeAssumption DEF InjectionGateway, Message, EnvelopeAssumption
<1>4. queue' \in [QueueName -> Seq(Message)]
  BY <1>3, PublishType DEF ProcessRawRecord, TypeInv, TypeOK, QueueName
<1>5. QED
  BY <1>1, <1>4, FinishType DEF ProcessRawRecord, TypeInv, TypeOK, BrokerTypeOK

LEMMA AnalysisType ==
  ASSUME TypeInv, PublishAnalysis \/ \E u \in Url : PublishCandidate(u)
  PROVE  BrokerTypeOK' /\ Working' /\ AnalysisTypeOK'
<1> DEFINE m == hand["analysis"]
<1>1. "analysis" \in Service /\ step["analysis"] # "idle"
  BY DEF Service, PublishAnalysis, PublishCandidate
<1>2. m \in Message /\ m.rec \in Record /\ SourceOf[m.rec] \in Source
  BY <1>1, InHandType
<1>3. LinksOf[m.rec] \in SUBSET Url
  BY <1>2, EnvelopeAssumption DEF EnvelopeAssumption
<1>4. CASE PublishAnalysis
  <2>1. queue' \in [QueueName -> Seq(Message)]
    BY <1>2, <1>4, PublishType DEF PublishAnalysis, TypeInv, TypeOK, QueueName
  <2>2. /\ hand' \in [Service -> Message \cup {NoMessage}]
        /\ step' \in [Service -> Step]
        /\ Working'
    BY <1>1, <1>4, FinishType, AdvanceType DEF PublishAnalysis, TypeInv, TypeOK, Step
  <2>3. QED
    BY <1>3, <1>4, <2>1, <2>2
    DEF PublishAnalysis, TypeInv, TypeOK, BrokerTypeOK, AnalysisTypeOK
<1>5. CASE \E u \in Url : PublishCandidate(u)
  <2> PICK u \in Url : PublishCandidate(u)
    BY <1>5
  <2>1. [url |-> u, from |-> SourceOf[m.rec]] \in Candidate
    BY <1>2 DEF Candidate
  <2>2. discovery' \in Seq(Candidate) /\ linksLeft' \in SUBSET Url
    BY <2>1 DEF PublishCandidate, TypeInv, TypeOK, BrokerTypeOK, AnalysisTypeOK
  <2>3. /\ hand' \in [Service -> Message \cup {NoMessage}]
        /\ step' \in [Service -> Step]
        /\ Working'
    BY <1>1, FinishType DEF PublishCandidate, TypeInv, TypeOK, BrokerTypeOK, Working
  <2>4. QED
    BY <2>2, <2>3 DEF PublishCandidate, TypeInv, TypeOK, BrokerTypeOK, AnalysisTypeOK
<1>6. QED
  BY <1>4, <1>5

LEMMA DrainType ==
  ASSUME AiTypeOK
  PROVE  DisabledAfterDrain \in BOOLEAN
<1>1. CASE pending = <<>>
  BY <1>1 DEF AiTypeOK, DisabledAfterDrain
<1>2. CASE pending # <<>>
  BY <1>2 DEF DisabledAfterDrain
<1>3. QED
  BY <1>1, <1>2

LEMMA CheckControlType ==
  ASSUME AiTypeOK, CheckControlMessages
  PROVE  bound' \in BOOLEAN /\ pending' \in Seq(Command) /\ aiDisabled' \in BOOLEAN
<1>1. <<>> \in Seq(Command)
  OBVIOUS
<1>2. QED
  BY <1>1, DrainType DEF CheckControlMessages

LEMMA CheckRaisesType ==
  ASSUME AiTypeOK, CheckControlRaises
  PROVE  AiTypeOK'
<1>1. CASE UNCHANGED <<control, aiDisabled, lost>>
  BY <1>1 DEF CheckControlRaises, AiTypeOK, control
<1>2. ASSUME NEW drained \in 0..Len(pending), NEW applied \in 0..drained,
             pending' = SubSeq(pending, drained + 1, Len(pending)),
             aiDisabled' = IF applied = 0 THEN aiDisabled ELSE pending[applied] = "disable",
             bound' = TRUE,
             lost' = (lost \/ (applied < drained /\ drained = Len(pending)))
      PROVE  AiTypeOK'
  <2>1. pending' \in Seq(Command)
    <3>1. pending \in Seq(Command) /\ Len(pending) \in Nat
      BY DEF AiTypeOK
    <3>2. \A i \in (drained + 1)..Len(pending) : pending[i] \in Command
      BY <3>1
    <3>3. QED
      BY <1>2, <3>1, <3>2
  <2>2. aiDisabled' \in BOOLEAN
    BY <1>2 DEF AiTypeOK
  <2>3. lost' \in BOOLEAN
    BY <1>2 DEF AiTypeOK
  <2>4. QED
    BY <1>2, <2>1, <2>2, <2>3 DEF CheckControlRaises, AiTypeOK
<1>3. QED
  BY <1>1, <1>2 DEF CheckControlRaises

LEMMA AiType ==
  ASSUME TypeInv,
         \/ SkipWhileDisabled
         \/ SkipDisabledSource
         \/ TripSource
         \/ Classify
         \/ PublishClassification
  PROVE  BrokerTypeOK' /\ Working' /\ AiTypeOK'
<1> DEFINE m == InHand
<1>1. "ai_layer" \in Service /\ step["ai_layer"] # "idle"
  BY DEF Service, SkipWhileDisabled, SkipDisabledSource, TripSource, Classify,
         PublishClassification
<1>2. m \in Message /\ m.rec \in Record /\ m.pi \in Nat /\ HandSource \in Source
  BY <1>1, InHandType DEF InHand, HandSource
<1>3. Total \in Nat
  BY <1>2 DEF Total, TypeInv, TypeOK, AiTypeOK
<1>4. CASE SkipWhileDisabled \/ SkipDisabledSource
  BY <1>1, <1>4, FinishType, CheckControlType
  DEF SkipWhileDisabled, SkipDisabledSource, TypeInv, TypeOK, BrokerTypeOK, AiTypeOK, aiHistory
<1>5. CASE TripSource
  <2>1. /\ incidents' \in [Source -> Nat]
        /\ disabledSources' \in SUBSET Source
    BY <1>2, <1>3, <1>5 DEF TripSource, TypeInv, TypeOK, AiTypeOK
  <2>2. QED
    BY <1>1, <1>5, <2>1, FinishType, CheckControlType
    DEF TripSource, TypeInv, TypeOK, BrokerTypeOK, AiTypeOK, aiHistory
<1>6. CASE Classify
  <2>1. incidents' \in [Source -> Nat]
    BY <1>2, <1>3, <1>6 DEF Classify, TypeInv, TypeOK, AiTypeOK
  <2>2. ClassifiedEnvelope \in Message
    <3>1. (Total >= 3) \in BOOLEAN
      OBVIOUS
    <3>2. InHand.content \subseteq Content /\ {"quotes"} \subseteq Content
      BY <1>2 DEF Message, Content
    <3>3. (IF Quarantined(m.rec) THEN {} ELSE m.content) \cup {"quotes"} \in SUBSET Content
      BY <3>2
    <3>4. QED
      BY <1>2, <3>1, <3>3 DEF ClassifiedEnvelope, Message
  <2>3. /\ hand' \in [Service -> Message \cup {NoMessage}]
        /\ step' \in [Service -> Step]
        /\ Working'
    BY <1>1, <1>6, <2>2 DEF Classify, TypeInv, TypeOK, BrokerTypeOK, Working, Step
  <2>4. QED
    BY <1>6, <2>1, <2>3, CheckControlType
    DEF Classify, TypeInv, TypeOK, BrokerTypeOK, AiTypeOK, aiHistory
<1>7. CASE PublishClassification
  <2>1. queue' \in [QueueName -> Seq(Message)]
    BY <1>2, <1>7, PublishType
    DEF PublishClassification, TypeInv, TypeOK, QueueName
  <2>2. /\ released' \in [Source -> Nat]
        /\ sinceCommand' \in Nat
    BY <1>2, <1>7 DEF PublishClassification, TypeInv, TypeOK, AiTypeOK
  <2>3. QED
    BY <1>1, <1>7, <2>1, <2>2, FinishType
    DEF PublishClassification, TypeInv, TypeOK, BrokerTypeOK, AiTypeOK, aiMemory, control, order
<1>8. QED
  BY <1>4, <1>5, <1>6, <1>7

LEMMA OperatorType ==
  ASSUME TypeInv, NEW c \in Command, NEW stored \in BOOLEAN, OperatorCommand(c, stored)
  PROVE  BrokerTypeOK' /\ Working' /\ AiTypeOK'
BY DEF OperatorCommand, TypeInv, TypeOK, BrokerTypeOK, Working, AiTypeOK, aiMemory, brokerVars

LEMMA DbTypeLemma ==
  ASSUME TypeInv, DbStep
  PROVE  BrokerTypeOK' /\ Working' /\ DbTypeOK'
<1> USE DEF TypeInv, TypeOK
<1> DEFINE Busy == "db_writer" \in Service /\ step["db_writer"] # "idle"
<1>1. ASSUME Busy
      PROVE  Rec \in Record /\ Row.pi \in Nat /\ SourceOf[Rec] \in Source
  BY <1>1, InHandType DEF Row, Rec
<1>2. CASE DropUnstoredSource \/ SkipDuplicate
  <2>1. Busy
    BY <1>2 DEF Service, DropUnstoredSource, SkipDuplicate, Storable
  <2>2. QED
    BY <1>2, <2>1, FinishType
    DEF DropUnstoredSource, SkipDuplicate, BrokerTypeOK, DbTypeOK, dbVars
<1>3. CASE QuarantineAndEscalate
  <2>1. Busy
    BY <1>3 DEF Service, QuarantineAndEscalate
  <2>2. QED
    BY <1>1, <1>3, <2>1, FinishType
    DEF QuarantineAndEscalate, BrokerTypeOK, DbTypeOK, stores, reputation
<1>4. CASE WriteToPostgres
  <2>1. Busy
    BY <1>4 DEF Service, WriteToPostgres, Storable
  <2>2. [rec |-> Rec, corroborating |-> Corroborating(Rec)] \in Finding
    <3>1. \A f \in findings : SourceOf[f.rec] \in Source
      BY EnvelopeAssumption DEF DbTypeOK, Finding, EnvelopeAssumption
    <3>2. QED
      BY <1>1, <2>1, <3>1 DEF Corroborating, Finding
  <2>3. rawEvidence' \in SUBSET Record /\ findings' \in SUBSET Finding
    BY <1>1, <1>4, <2>1, <2>2 DEF WriteToPostgres, DbTypeOK
  <2>4. QED
    BY <1>4, <2>1, <2>3, AdvanceType
    DEF WriteToPostgres, BrokerTypeOK, DbTypeOK, reputation, Step
<1>5. CASE WriteTelegramMessage
  <2>1. Busy
    BY <1>5 DEF Service, WriteTelegramMessage, Storable
  <2>2. /\ telegramMessages' \in SUBSET Record
        /\ messageCount' \in [Actor -> Nat]
    BY <1>1, <1>5, <2>1 DEF WriteTelegramMessage, DbTypeOK
  <2>3. QED
    BY <1>5, <2>1, <2>2, AdvanceType
    DEF WriteTelegramMessage, BrokerTypeOK, DbTypeOK, reputation, Step
<1>6. CASE IndexToOpensearch \/ UpdateGraph
  <2>1. Busy
    BY <1>6 DEF Service, IndexToOpensearch, UpdateGraph
  <2>2. opensearch' \in SUBSET Record /\ graph' \in SUBSET Record
    BY <1>1, <1>6, <2>1 DEF IndexToOpensearch, UpdateGraph, DbTypeOK
  <2>3. QED
    BY <1>6, <2>1, <2>2, AdvanceType
    DEF IndexToOpensearch, UpdateGraph, BrokerTypeOK, DbTypeOK, stores, reputation, Step
<1>7. CASE UpdateSourceReputation
  <2>1. Busy
    BY <1>7 DEF Service, UpdateSourceReputation
  <2>2. poisoning' \in [Source -> Nat] /\ status' \in [Source -> Status]
    BY <1>1, <1>7, <2>1 DEF UpdateSourceReputation, DbTypeOK, Status
  <2>3. QED
    BY <1>7, <2>1, <2>2, FinishType
    DEF UpdateSourceReputation, BrokerTypeOK, DbTypeOK, stores
<1>8. CASE ProcessDiscoveredCandidate
  <2>1. Head(discovery) \in Candidate /\ Tail(discovery) \in Seq(Candidate)
    BY <1>8 DEF ProcessDiscoveredCandidate, BrokerTypeOK
  <2>2. candidates' \in SUBSET Candidate /\ discovery' \in Seq(Candidate)
    BY <1>8, <2>1 DEF ProcessDiscoveredCandidate, DbTypeOK
  <2>3. QED
    BY <1>8, <2>2
    DEF ProcessDiscoveredCandidate, BrokerTypeOK, Working, DbTypeOK, stores, reputation
<1>9. QED
  BY <1>2, <1>3, <1>4, <1>5, <1>6, <1>7, <1>8 DEF DbStep

LEMMA FaultType ==
  ASSUME TypeInv, FaultStep
  PROVE  TypeInv'
<1> USE DEF TypeInv, TypeOK, Fault
<1>0. collected' \in SUBSET Record /\ faults' \in 0..MaxFaults /\ commands' \in 0..MaxCommands
  <2>1. Fault
    BY DEF FaultStep, HandlerRaises, Redelivery, BrokerFails, AiFails, DbFails,
           SettingNotStored
  <2>2. faults' \in 0..MaxFaults
    BY <2>1, BoundsAssumption DEF BoundsAssumption
  <2>3. commands' = commands \/ (commands < MaxCommands /\ commands' = commands + 1)
    BY DEF FaultStep, HandlerRaises, Redelivery, BrokerFails, AiFails, DbFails,
           SettingNotStored
  <2>4. QED
    BY <2>1, <2>2, <2>3, BoundsAssumption DEF BoundsAssumption
<1>1. ASSUME NEW s \in Service, HandlerRaises(s)
      PROVE  TypeInv'
  <2>1. AiTypeOK'
    BY <1>1, CheckRaisesType DEF HandlerRaises, AiTypeOK, aiVars
  <2>2. QED
    BY <1>0, <1>1, <2>1, FinishType
    DEF HandlerRaises, CallbackRaises, BrokerTypeOK, AnalysisTypeOK, DbTypeOK, dbVars
<1>2. CASE Redelivery
  <2>1. Head(queue["ai.output"]) \in Message
    BY <1>2 DEF Redelivery, TakeUnacknowledged, BrokerTypeOK, QueueName
  <2>2. BrokerTypeOK' /\ Working'
    BY <1>2, <2>1 DEF Redelivery, TakeUnacknowledged, BrokerTypeOK, Working, Step
  <2>3. QED
    BY <1>0, <1>2, <2>2
    DEF Redelivery, AnalysisTypeOK, AiTypeOK, DbTypeOK, analysisVars, aiVars, dbVars
<1>3. CASE BrokerFails
  <2>1. <<>> \in Seq(Message) /\ <<>> \in Seq(Candidate) /\ <<>> \in Seq(Command)
    OBVIOUS
  <2>2. QED
    BY <1>0, <1>3, <2>1
    DEF BrokerFails, BrokerRestart, ControlLost, BrokerTypeOK, Working, AnalysisTypeOK,
        AiTypeOK, DbTypeOK, analysisVars, aiMemory, dbVars
<1>4. CASE AiFails
  <2>1. "ai_layer" \in Service
    BY DEF Service
  <2>2. BrokerTypeOK' /\ Working'
    BY <1>4, <2>1, FinishType DEF AiFails, AiRestart, BrokerTypeOK
  <2>3. QED
    BY <1>0, <1>4, <2>2
    DEF AiFails, AiRestart, AnalysisTypeOK, AiTypeOK, DbTypeOK, analysisVars, control, dbVars
<1>5. CASE DbFails
  <2>1. "db_writer" \in Service
    BY DEF Service
  <2>2. BrokerTypeOK' /\ Working'
    <3>1. CASE StoreErrorSwallowed
      BY <2>1, <3>1, FinishType, AdvanceType
      DEF StoreErrorSwallowed, BrokerTypeOK, Step
    <3>2. CASE CandidateLost
      <4>1. Tail(discovery) \in Seq(Candidate)
        BY <3>2 DEF CandidateLost, BrokerTypeOK
      <4>2. QED
        BY <3>2, <4>1 DEF CandidateLost, BrokerTypeOK, Working
    <3>3. CASE DbWriterStops
      BY <2>1, <3>3, FinishType DEF DbWriterStops, BrokerTypeOK
    <3>4. QED
      BY <1>5, <3>1, <3>2, <3>3 DEF DbFails
  <2>3. QED
    BY <1>0, <1>5, <2>2
    DEF DbFails, StoreErrorSwallowed, CandidateLost, DbWriterStops, AnalysisTypeOK,
        AiTypeOK, DbTypeOK, analysisVars, aiVars, dbVars
<1>6. ASSUME NEW c \in Command, SettingNotStored(c)
      PROVE  TypeInv'
  BY <1>0, <1>6, OperatorType
  DEF SettingNotStored, AnalysisTypeOK, DbTypeOK, analysisVars, dbVars
<1>7. QED
  BY <1>1, <1>2, <1>3, <1>4, <1>5, <1>6 DEF FaultStep

LEMMA TypeNext == TypeInv /\ [Next]_vars => TypeInv'
<1> SUFFICES ASSUME TypeInv, [Next]_vars
             PROVE  TypeInv'
  OBVIOUS
<1> USE DEF TypeInv, TypeOK
<1>1. ASSUME NEW r \in Record, Collect(r)
      PROVE  TypeInv'
  <2>1. RawRecord(r) \in Message
    BY DEF RawRecord, Message, Content
  <2>2. queue' \in [QueueName -> Seq(Message)]
    BY <1>1, <2>1, PublishType DEF Collect, QueueName
  <2>3. QED
    BY <1>1, <2>2
    DEF Collect, BrokerTypeOK, Working, AnalysisTypeOK, AiTypeOK, DbTypeOK, analysisVars,
        aiVars, dbVars, bounds
<1>2. ASSUME NEW s \in Service, Consume(s)
      PROVE  TypeInv'
  <2> PICK q \in QueueName : Take(s, q)
    BY <1>2, SubscribedType DEF Consume
  <2>1. BrokerTypeOK' /\ Working'
    BY TakeType DEF Take, BrokerTypeOK
  <2>2. QED
    BY <1>2, <2>1
    DEF Consume, AnalysisTypeOK, AiTypeOK, DbTypeOK, analysisVars, aiVars, dbVars, bounds
<1>3. CASE SanitizerStep
  BY <1>3, SanitizerType
  DEF SanitizerStep, AnalysisTypeOK, AiTypeOK, DbTypeOK, analysisVars, aiVars, dbVars, bounds
<1>4. CASE AnalysisStep
  BY <1>4, AnalysisType
  DEF AnalysisStep, AiTypeOK, DbTypeOK, aiVars, dbVars, bounds
<1>5. CASE AiStep
  BY <1>5, AiType
  DEF AiStep, AnalysisTypeOK, DbTypeOK, analysisVars, dbVars, bounds
<1>6. CASE DbStep
  BY <1>6, DbTypeLemma
  DEF DbStep, AnalysisTypeOK, AiTypeOK, analysisVars, aiVars, bounds
<1>7. ASSUME NEW c \in Command, Operate(c)
      PROVE  TypeInv'
  <2>1. BrokerTypeOK' /\ Working' /\ AiTypeOK'
    BY <1>7, OperatorType DEF Operate
  <2>2. commands' \in 0..MaxCommands
    BY <1>7, BoundsAssumption DEF Operate, BoundsAssumption
  <2>3. QED
    BY <1>7, <2>1, <2>2 DEF Operate, AnalysisTypeOK, DbTypeOK, analysisVars, dbVars
<1>8. CASE FaultStep
  BY <1>8, FaultType
<1>9. CASE UNCHANGED vars
  BY <1>9
  DEF vars, BrokerTypeOK, Working, AnalysisTypeOK, AiTypeOK, DbTypeOK, brokerVars,
      analysisVars, aiVars, dbVars, bounds
<1>10. QED
  BY <1>1, <1>2, <1>3, <1>4, <1>5, <1>6, <1>7, <1>8, <1>9 DEF Next

(* The type invariant, with every fault: whatever the stages, the operator *)
(* and the broker do, a stage at work holds a message of the pipeline's    *)
(* one envelope shape.                                                     *)
THEOREM TypeCorrect == Spec => []TypeInv
<1>1. Init => TypeInv
  BY TypeInit
<1>2. TypeInv /\ [Next]_vars => TypeInv'
  BY TypeNext
<1>3. QED
  BY <1>1, <1>2, PTL DEF Spec

THEOREM TypeSafe == Spec => []TypeOK
<1>1. TypeInv => TypeOK
  BY DEF TypeInv
<1>2. QED
  BY <1>1, TypeCorrect, PTL

(***************************************************************************)
(* The evidence stores                                                     *)
(***************************************************************************)
(* Only db_writer's own steps touch the stores; any other step leaves its  *)
(* work alone, or ends it, or hands it the next message.                   *)
LEMMA DbFrame ==
  ASSUME TypeInv, [Next]_vars
  PROVE  \/ DbStep
         \/ StoreErrorSwallowed
         \/ /\ UNCHANGED dbVars
            /\ \/ UNCHANGED <<hand["db_writer"], step["db_writer"]>>
               \/ step'["db_writer"] \in {"idle", "taken"}
<1> DEFINE Rest == /\ UNCHANGED dbVars
                   /\ \/ UNCHANGED <<hand["db_writer"], step["db_writer"]>>
                      \/ step'["db_writer"] \in {"idle", "taken"}
<1>0. /\ hand \in [Service -> Message \cup {NoMessage}]
      /\ step \in [Service -> Step]
      /\ Service = {"sanitizer", "analysis", "ai_layer", "db_writer"}
  BY DEF TypeInv, TypeOK, BrokerTypeOK, Service
<1>1. ASSUME NEW r \in Record, Collect(r)
      PROVE  Rest
  BY <1>1 DEF Collect
<1>2. ASSUME NEW s \in Service, Consume(s)
      PROVE  Rest
  BY <1>0, <1>2 DEF Consume, Take
<1>3. CASE SanitizerStep
  BY <1>0, <1>3 DEF SanitizerStep, ProcessRawRecord, Finish
<1>4. CASE AnalysisStep
  BY <1>0, <1>4 DEF AnalysisStep, PublishAnalysis, PublishCandidate, Finish, Advance
<1>5. CASE AiStep
  BY <1>0, <1>5 DEF AiStep, SkipWhileDisabled, SkipDisabledSource, TripSource, Classify,
     PublishClassification, Finish
<1>6. ASSUME NEW c \in Command, Operate(c)
      PROVE  Rest
  BY <1>6 DEF Operate, OperatorCommand, brokerVars
<1>7. CASE FaultStep
  <2>1. ASSUME NEW s \in Service, HandlerRaises(s)
        PROVE  Rest
    BY <1>0, <2>1 DEF HandlerRaises, CallbackRaises, Finish
  <2>2. CASE Redelivery
    BY <1>0, <2>2 DEF Redelivery, TakeUnacknowledged
  <2>3. CASE BrokerFails
    BY <2>3 DEF BrokerFails, BrokerRestart
  <2>4. CASE AiFails
    BY <1>0, <2>4 DEF AiFails, AiRestart, Finish
  <2>5. CASE DbFails
    BY <1>0, <2>5 DEF DbFails, CandidateLost, DbWriterStops, Finish
  <2>6. ASSUME NEW c \in Command, SettingNotStored(c)
        PROVE  Rest
    BY <2>6 DEF SettingNotStored, OperatorCommand, brokerVars
  <2>7. QED
    BY <1>7, <2>1, <2>2, <2>3, <2>4, <2>5, <2>6 DEF FaultStep
<1>8. CASE UNCHANGED vars
  BY <1>8 DEF vars, brokerVars
<1>9. QED
  BY <1>1, <1>2, <1>3, <1>4, <1>5, <1>6, <1>7, <1>8 DEF Next

(* What is stored came through the gate of its path, and a store written   *)
(* late is written for a record that is stored already.                    *)
StoreInv ==
    /\ \A r \in rawEvidence : PlatformOf[r] = "web" /\ ~Quarantined(r)
    /\ \A r \in telegramMessages : PlatformOf[r] = "telegram" /\ ~Quarantined(r)
    /\ EvidenceUnique
    /\ IndexedWasStored
    /\ step["db_writer"] = "index" => Rec \in rawEvidence
    /\ step["db_writer"] \in {"graph", "reputation"} => Rec \in Stored

LEMMA StoreInit == Init => StoreInv
BY DEF Init, BrokerInit, DbInit, StoreInv, EvidenceUnique, IndexedWasStored, Stored, Service

LEMMA StoreNext ==
  ASSUME TypeInv, StoreInv, [Next]_vars
  PROVE  StoreInv'
<1> USE DEF StoreInv, EvidenceUnique, IndexedWasStored, Stored, Rec, Row
<1>0. /\ hand \in [Service -> Message \cup {NoMessage}]
      /\ step \in [Service -> Step]
      /\ "db_writer" \in Service
  BY DEF TypeInv, TypeOK, BrokerTypeOK, Service
<1>1. CASE DropUnstoredSource \/ QuarantineAndEscalate \/ SkipDuplicate
  BY <1>0, <1>1
  DEF DropUnstoredSource, QuarantineAndEscalate, SkipDuplicate, Finish, dbVars, stores
<1>2. CASE WriteToPostgres
  <2>1. /\ PlatformOf[Rec] = "web"
        /\ ~Quarantined(Rec)
        /\ \A r \in rawEvidence : KeyOf[r] # KeyOf[Rec]
    BY <1>2 DEF WriteToPostgres, Storable, StoredPage
  <2>2. /\ step'["db_writer"] = "index"
        /\ hand' = hand
        /\ rawEvidence' = rawEvidence \cup {Rec}
        /\ UNCHANGED <<telegramMessages, opensearch, graph>>
    BY <1>0, <1>2 DEF WriteToPostgres, Advance
  <2>3. \A f \in findings' : f.rec \in rawEvidence' /\ HighRisk(f.rec)
    BY <1>2 DEF WriteToPostgres
  <2>4. EvidenceUnique'
    BY <2>1, <2>2 DEF SameContent
  <2>5. QED
    BY <2>1, <2>2, <2>3, <2>4
<1>3. CASE WriteTelegramMessage
  <2>1. /\ PlatformOf[Rec] = "telegram"
        /\ ~Quarantined(Rec)
        /\ \A r \in telegramMessages : KeyOf[r] # KeyOf[Rec]
    BY <1>3 DEF WriteTelegramMessage, Storable, StoredMessage
  <2>2. /\ step'["db_writer"] = "graph"
        /\ hand' = hand
        /\ telegramMessages' = telegramMessages \cup {Rec}
        /\ UNCHANGED <<rawEvidence, findings, opensearch, graph>>
    BY <1>0, <1>3 DEF WriteTelegramMessage, Advance
  <2>3. EvidenceUnique'
    BY <2>1, <2>2 DEF SameContent
  <2>4. QED
    BY <2>1, <2>2, <2>3
<1>4. CASE IndexToOpensearch
  BY <1>0, <1>4 DEF IndexToOpensearch, Advance, stores
<1>5. CASE UpdateGraph
  BY <1>0, <1>5 DEF UpdateGraph, Advance, stores
<1>6. CASE UpdateSourceReputation
  BY <1>0, <1>6 DEF UpdateSourceReputation, Finish, stores
<1>7. CASE ProcessDiscoveredCandidate
  BY <1>7 DEF ProcessDiscoveredCandidate, stores
<1>8. CASE StoreErrorSwallowed
  BY <1>0, <1>8 DEF StoreErrorSwallowed, Advance, Finish, dbVars
<1>9. CASE /\ UNCHANGED dbVars
           /\ \/ UNCHANGED <<hand["db_writer"], step["db_writer"]>>
              \/ step'["db_writer"] \in {"idle", "taken"}
  BY <1>9 DEF dbVars
<1>10. QED
  BY <1>1, <1>2, <1>3, <1>4, <1>5, <1>6, <1>7, <1>8, <1>9, DbFrame DEF DbStep

(* Once per content hash or natural key, and indexes that only point at    *)
(* committed evidence: with any number of duplicates, redeliveries and     *)
(* crashes, and no UNIQUE constraint on the web path's tables.             *)
THEOREM EvidenceStaysUnique == Spec => [](EvidenceUnique /\ IndexedWasStored)
<1>1. Init => TypeInv /\ StoreInv
  BY TypeInit, StoreInit
<1>2. TypeInv /\ StoreInv /\ [Next]_vars => TypeInv' /\ StoreInv'
  BY TypeNext, StoreNext
<1>3. StoreInv => EvidenceUnique /\ IndexedWasStored
  BY DEF StoreInv
<1>4. QED
  BY <1>1, <1>2, <1>3, PTL DEF Spec

(***************************************************************************)
(* The classifier stage                                                    *)
(***************************************************************************)
(* Only the stage itself, its restart, the operator and a broker restart   *)
(* touch its memory; any other step leaves its message alone, or ends its  *)
(* work, or hands it the next message.                                     *)
LEMMA AiFrame ==
  ASSUME TypeInv, [Next]_vars
  PROVE  \/ AiStep
         \/ AiFails
         \/ BrokerFails
         \/ \E c \in Command : Operate(c) \/ SettingNotStored(c)
         \/ CheckControlRaises /\ step'["ai_layer"] = "idle"
         \/ /\ UNCHANGED aiVars
            /\ \/ UNCHANGED <<hand["ai_layer"], step["ai_layer"]>>
               \/ step'["ai_layer"] \in {"idle", "taken"}
<1> DEFINE Rest == /\ UNCHANGED aiVars
                   /\ \/ UNCHANGED <<hand["ai_layer"], step["ai_layer"]>>
                      \/ step'["ai_layer"] \in {"idle", "taken"}
<1>0. /\ hand \in [Service -> Message \cup {NoMessage}]
      /\ step \in [Service -> Step]
      /\ Service = {"sanitizer", "analysis", "ai_layer", "db_writer"}
  BY DEF TypeInv, TypeOK, BrokerTypeOK, Service
<1>1. ASSUME NEW r \in Record, Collect(r)
      PROVE  Rest
  BY <1>1 DEF Collect
<1>2. ASSUME NEW s \in Service, Consume(s)
      PROVE  Rest
  BY <1>0, <1>2 DEF Consume, Take
<1>3. CASE SanitizerStep
  BY <1>0, <1>3 DEF SanitizerStep, ProcessRawRecord, Finish
<1>4. CASE AnalysisStep
  BY <1>0, <1>4 DEF AnalysisStep, PublishAnalysis, PublishCandidate, Finish, Advance
<1>5. CASE DbStep
  BY <1>0, <1>5 DEF DbStep, DropUnstoredSource, QuarantineAndEscalate, WriteToPostgres,
     SkipDuplicate, IndexToOpensearch, WriteTelegramMessage, UpdateGraph,
     UpdateSourceReputation, ProcessDiscoveredCandidate, Finish, Advance
<1>6. CASE Redelivery
  BY <1>0, <1>6 DEF Redelivery, TakeUnacknowledged
<1>7. ASSUME NEW s \in Service, HandlerRaises(s)
      PROVE  Rest \/ (CheckControlRaises /\ step'["ai_layer"] = "idle")
  BY <1>0, <1>7 DEF HandlerRaises, CallbackRaises, Finish
<1>8. CASE DbFails
  BY <1>0, <1>8 DEF DbFails, StoreErrorSwallowed, CandidateLost, DbWriterStops, Finish,
     Advance
<1>9. CASE UNCHANGED vars
  BY <1>9 DEF vars, brokerVars
<1>10. QED
  BY <1>1, <1>2, <1>3, <1>4, <1>5, <1>6, <1>7, <1>8, <1>9 DEF Next, FaultStep

(* Who moves a message of ai.output, and where to.                         *)
LEMMA OutputFrame ==
  ASSUME TypeInv, [Next]_vars
  PROVE  /\ \/ UNCHANGED queue["ai.output"]
            \/ /\ step["ai_layer"] = "classified"
               /\ queue'["ai.output"] = Append(queue["ai.output"], hand["ai_layer"])
            \/ /\ queue["ai.output"] # <<>>
               /\ queue'["ai.output"] = Tail(queue["ai.output"])
            \/ queue'["ai.output"] = <<>>
         /\ \/ UNCHANGED <<hand["db_writer"], step["db_writer"]>>
            \/ UNCHANGED hand["db_writer"] /\ step["db_writer"] # "idle"
            \/ step'["db_writer"] = "idle"
            \/ /\ queue["ai.output"] # <<>>
               /\ hand'["db_writer"] = Head(queue["ai.output"])
<1> DEFINE Queue == \/ UNCHANGED queue["ai.output"]
                    \/ /\ step["ai_layer"] = "classified"
                       /\ queue'["ai.output"] = Append(queue["ai.output"], hand["ai_layer"])
                    \/ /\ queue["ai.output"] # <<>>
                       /\ queue'["ai.output"] = Tail(queue["ai.output"])
                    \/ queue'["ai.output"] = <<>>
           Hand == \/ UNCHANGED <<hand["db_writer"], step["db_writer"]>>
                   \/ UNCHANGED hand["db_writer"] /\ step["db_writer"] # "idle"
                   \/ step'["db_writer"] = "idle"
                   \/ /\ queue["ai.output"] # <<>>
                      /\ hand'["db_writer"] = Head(queue["ai.output"])
<1>0. /\ queue \in [QueueName -> Seq(Message)]
      /\ hand \in [Service -> Message \cup {NoMessage}]
      /\ step \in [Service -> Step]
      /\ Service = {"sanitizer", "analysis", "ai_layer", "db_writer"}
      /\ QueueName = {"raw.crawl", "telegram.raw", "sanitized", "analysis.ready", "ai.output"}
  BY DEF TypeInv, TypeOK, BrokerTypeOK, Service, QueueName
<1>1. ASSUME NEW r \in Record, Collect(r)
      PROVE  Queue /\ Hand
  BY <1>0, <1>1 DEF Collect, Publish
<1>2. ASSUME NEW s \in Service, Consume(s)
      PROVE  Queue /\ Hand
  <2> PICK q \in QueueName : q \in Subscribed(s) /\ Take(s, q)
    BY <1>2, SubscribedType DEF Consume
  <2>1. CASE s = "db_writer"
    BY <1>0, <2>1 DEF Take, Subscribed
  <2>2. CASE s # "db_writer"
    BY <1>0, <2>2 DEF Take, Subscribed
  <2>3. QED
    BY <2>1, <2>2
<1>3. CASE SanitizerStep
  BY <1>0, <1>3 DEF SanitizerStep, ProcessRawRecord, Finish, Publish
<1>4. CASE AnalysisStep
  BY <1>0, <1>4 DEF AnalysisStep, PublishAnalysis, PublishCandidate, Finish, Advance, Publish
<1>5. CASE AiStep
  BY <1>0, <1>5 DEF AiStep, SkipWhileDisabled, SkipDisabledSource, TripSource, Classify,
     PublishClassification, Finish, Publish, InHand
<1>6. CASE DbStep
  BY <1>0, <1>6 DEF DbStep, DropUnstoredSource, QuarantineAndEscalate, WriteToPostgres,
     SkipDuplicate, IndexToOpensearch, WriteTelegramMessage, UpdateGraph,
     UpdateSourceReputation, ProcessDiscoveredCandidate, Finish, Advance, Storable
<1>7. ASSUME NEW c \in Command, Operate(c) \/ SettingNotStored(c)
      PROVE  Queue /\ Hand
  BY <1>7 DEF Operate, SettingNotStored, OperatorCommand, brokerVars
<1>8. CASE Redelivery
  BY <1>0, <1>8 DEF Redelivery, TakeUnacknowledged
<1>9. ASSUME NEW s \in Service, HandlerRaises(s)
      PROVE  Queue /\ Hand
  BY <1>0, <1>9 DEF HandlerRaises, CallbackRaises, Finish
<1>10. CASE BrokerFails
  BY <1>0, <1>10 DEF BrokerFails, BrokerRestart
<1>11. CASE AiFails
  BY <1>0, <1>11 DEF AiFails, AiRestart, Finish
<1>12. CASE DbFails
  BY <1>0, <1>12 DEF DbFails, StoreErrorSwallowed, CandidateLost, DbWriterStops, Finish,
     Advance
<1>13. CASE UNCHANGED vars
  BY <1>13 DEF vars, brokerVars
<1>14. QED
  BY <1>1, <1>2, <1>3, <1>4, <1>5, <1>6, <1>7, <1>8, <1>9, <1>10, <1>11, <1>12, <1>13
  DEF Next, FaultStep

(***************************************************************************)
(* Nothing of a quarantine category is retained                            *)
(***************************************************************************)
Clean(m) == Quarantined(m.rec) => "page" \notin m.content

RedactInv ==
    /\ step["ai_layer"] = "classified" => Clean(InHand)
    /\ \A i \in 1..Len(queue["ai.output"]) : Clean(queue["ai.output"][i])
    /\ step["db_writer"] # "idle" => Clean(Row)

LEMMA RedactInit == Init => RedactInv
BY DEF Init, BrokerInit, RedactInv, Service, QueueName

LEMMA RedactNext ==
  ASSUME TypeInv, RedactInv, [Next]_vars
  PROVE  RedactInv'
<1>0. /\ hand \in [Service -> Message \cup {NoMessage}]
      /\ step \in [Service -> Step]
      /\ "ai_layer" \in Service
      /\ queue["ai.output"] \in Seq(Message)
  BY DEF TypeInv, TypeOK, BrokerTypeOK, Service, QueueName
<1>1. (step["ai_layer"] = "classified" => Clean(InHand))'
  <2>1. CASE Classify
    <3>1. hand'["ai_layer"] = ClassifiedEnvelope
      BY <1>0, <2>1 DEF Classify
    <3>2. QED
      BY <3>1 DEF InHand, Clean, ClassifiedEnvelope
  <2>2. CASE AiStep /\ ~Classify
    BY <1>0, <2>2 DEF AiStep, SkipWhileDisabled, SkipDisabledSource, TripSource,
       PublishClassification, Finish
  <2>3. CASE AiFails
    BY <1>0, <2>3 DEF AiFails, AiRestart, Finish
  <2>4. CASE BrokerFails
    BY <2>4 DEF BrokerFails, BrokerRestart, RedactInv, InHand, Clean
  <2>5. CASE \E c \in Command : Operate(c) \/ SettingNotStored(c)
    BY <2>5 DEF Operate, SettingNotStored, OperatorCommand, brokerVars, RedactInv, InHand, Clean
  <2>6. CASE \/ UNCHANGED <<hand["ai_layer"], step["ai_layer"]>>
             \/ step'["ai_layer"] \in {"idle", "taken"}
    BY <2>6 DEF RedactInv, InHand, Clean
  <2>7. QED
    BY <2>1, <2>2, <2>3, <2>4, <2>5, <2>6, AiFrame
<1>2. (\A i \in 1..Len(queue["ai.output"]) : Clean(queue["ai.output"][i]))'
  <2> DEFINE q == queue["ai.output"]
             r == queue'["ai.output"]
  <2> SUFFICES ASSUME NEW i \in 1..Len(r)
               PROVE  Clean(r[i])
    BY DEF Clean
  <2>1. CASE UNCHANGED queue["ai.output"]
    BY <2>1 DEF RedactInv
  <2>2. CASE /\ step["ai_layer"] = "classified"
             /\ r = Append(q, hand["ai_layer"])
    <3>1. Clean(hand["ai_layer"])
      BY <2>2 DEF RedactInv, InHand
    <3>2. CASE i = Len(q) + 1
      BY <1>0, <2>2, <3>1, <3>2
    <3>3. CASE i # Len(q) + 1
      <4>1. i \in 1..Len(q) /\ r[i] = q[i]
        BY <1>0, <2>2, <3>3
      <4>2. QED
        BY <4>1 DEF RedactInv
    <3>4. QED
      BY <3>2, <3>3
  <2>3. CASE q # <<>> /\ r = Tail(q)
    <3>1. i + 1 \in 1..Len(q) /\ r[i] = q[i + 1]
      BY <1>0, <2>3
    <3>2. QED
      BY <3>1 DEF RedactInv
  <2>4. CASE r = <<>>
    BY <2>4
  <2>5. QED
    BY <2>1, <2>2, <2>3, <2>4, OutputFrame
<1>3. (step["db_writer"] # "idle" => Clean(Row))'
  <2>1. CASE /\ queue["ai.output"] # <<>>
             /\ hand'["db_writer"] = Head(queue["ai.output"])
    <3>1. 1 \in 1..Len(queue["ai.output"]) /\ Head(queue["ai.output"]) = queue["ai.output"][1]
      BY <1>0, <2>1
    <3>2. QED
      BY <2>1, <3>1 DEF RedactInv, Row, Clean
  <2>2. CASE \/ UNCHANGED <<hand["db_writer"], step["db_writer"]>>
             \/ UNCHANGED hand["db_writer"] /\ step["db_writer"] # "idle"
             \/ step'["db_writer"] = "idle"
    BY <2>2 DEF RedactInv, Row, Clean
  <2>3. QED
    BY <2>1, <2>2, OutputFrame
<1>4. QED
  BY <1>1, <1>2, <1>3 DEF RedactInv

(* A quarantine-category record is in no evidence table, index, graph or   *)
(* finding, and its page is in no queue and no process past the classifier *)
(* stage, with every fault.  What the classification quotes from the page  *)
(* is outside the claim: it does reach db_writer.                          *)
THEOREM QuarantineHolds == Spec => []NeverRetained
<1>1. Init => TypeInv /\ StoreInv /\ RedactInv
  BY TypeInit, StoreInit, RedactInit
<1>2. TypeInv /\ StoreInv /\ RedactInv /\ [Next]_vars => TypeInv' /\ StoreInv' /\ RedactInv'
  BY TypeNext, StoreNext, RedactNext
<1>3. StoreInv /\ RedactInv => NeverRetained
  BY DEF StoreInv, RedactInv, NeverRetained, IndexedWasStored, Stored, Clean, Rec
<1>4. QED
  BY <1>1, <1>2, <1>3, PTL DEF Spec

(***************************************************************************)
(* The two brakes                                                          *)
(***************************************************************************)
(* A source that is not tripped has been let through no more than was      *)
(* counted, the envelope waiting to be published included; and while one   *)
(* waits, its source is not tripped.                                       *)
PoisonInv ==
    /\ \A s \in Source : released[s] < PI_CAMPAIGN_THRESHOLD
    /\ \A s \in Source : s \in disabledSources <=> incidents[s] >= PI_CAMPAIGN_THRESHOLD
    /\ \A s \in Source : s \notin disabledSources => released[s] <= incidents[s]
    /\ step["ai_layer"] = "classified" =>
          /\ HandSource \notin disabledSources
          /\ released[HandSource] + InHand.pi <= incidents[HandSource]

LEMMA PoisonInit == Init => PoisonInv
BY ThresholdAssumption DEF ThresholdAssumption, Init, BrokerInit, AiInit, PoisonInv, Service

LEMMA PoisonNext ==
  ASSUME TypeInv, PoisonInv, [Next]_vars
  PROVE  PoisonInv'
<1>0. /\ hand \in [Service -> Message \cup {NoMessage}]
      /\ step \in [Service -> Step]
      /\ "ai_layer" \in Service
      /\ incidents \in [Source -> Nat]
      /\ released \in [Source -> Nat]
      /\ PI_CAMPAIGN_THRESHOLD \in Nat \ {0}
  BY ThresholdAssumption
  DEF TypeInv, TypeOK, BrokerTypeOK, AiTypeOK, Service, ThresholdAssumption
<1>1. ASSUME step["ai_layer"] # "idle"
      PROVE  /\ InHand \in Message
             /\ HandSource \in Source
             /\ InHand.pi \in Nat
             /\ Total \in Nat
             /\ Total = incidents[HandSource] + InHand.pi
  BY <1>0, <1>1, InHandType DEF InHand, HandSource, Total
<1>2. CASE SkipWhileDisabled \/ SkipDisabledSource
  BY <1>0, <1>2
  DEF SkipWhileDisabled, SkipDisabledSource, Finish, aiHistory, PoisonInv
<1>3. CASE TripSource
  <2>1. /\ incidents' = [incidents EXCEPT ![HandSource] = Total]
        /\ disabledSources' = disabledSources \cup {HandSource}
        /\ Total >= PI_CAMPAIGN_THRESHOLD
        /\ UNCHANGED released
        /\ step'["ai_layer"] = "idle"
        /\ HandSource \in Source
        /\ Total \in Nat
    BY <1>0, <1>1, <1>3 DEF TripSource, Finish, aiHistory
  <2>2. QED
    BY <1>0, <2>1 DEF PoisonInv
<1>4. CASE Classify
  <2>1. /\ incidents' = [incidents EXCEPT ![HandSource] = Total]
        /\ HandSource \notin disabledSources
        /\ Total < PI_CAMPAIGN_THRESHOLD
        /\ UNCHANGED <<disabledSources, released>>
        /\ hand'["ai_layer"] = ClassifiedEnvelope
        /\ HandSource \in Source
        /\ InHand.pi \in Nat
        /\ Total \in Nat
        /\ Total = incidents[HandSource] + InHand.pi
    BY <1>0, <1>1, <1>4 DEF Classify, aiHistory
  <2>2. HandSource' = HandSource /\ InHand'.pi = InHand.pi
    BY <2>1 DEF HandSource, InHand, ClassifiedEnvelope
  <2>3. QED
    BY <1>0, <2>1, <2>2 DEF PoisonInv
<1>5. CASE PublishClassification
  <2>1. /\ released' = [released EXCEPT ![HandSource] = @ + InHand.pi]
        /\ UNCHANGED <<disabledSources, incidents>>
        /\ step["ai_layer"] = "classified"
        /\ step'["ai_layer"] = "idle"
        /\ HandSource \in Source
        /\ InHand.pi \in Nat
    BY <1>0, <1>1, <1>5 DEF PublishClassification, Finish, aiMemory
  <2>2. incidents[HandSource] < PI_CAMPAIGN_THRESHOLD
    BY <1>0, <2>1 DEF PoisonInv
  <2>3. QED
    BY <1>0, <2>1, <2>2 DEF PoisonInv
<1>6. CASE AiFails
  BY <1>0, <1>6 DEF AiFails, AiRestart, Finish, PoisonInv
<1>7. CASE BrokerFails
  BY <1>7
  DEF BrokerFails, BrokerRestart, ControlLost, aiMemory, PoisonInv, InHand, HandSource
<1>8. CASE \E c \in Command : Operate(c) \/ SettingNotStored(c)
  BY <1>8
  DEF Operate, SettingNotStored, OperatorCommand, aiMemory, brokerVars, PoisonInv, InHand,
      HandSource
<1>9. CASE /\ UNCHANGED aiVars
           /\ \/ UNCHANGED <<hand["ai_layer"], step["ai_layer"]>>
              \/ step'["ai_layer"] \in {"idle", "taken"}
  BY <1>9 DEF aiVars, PoisonInv, InHand, HandSource
<1>10. CASE CheckControlRaises /\ step'["ai_layer"] = "idle"
  BY <1>10 DEF CheckControlRaises, PoisonInv
<1>11. QED
  BY <1>2, <1>3, <1>4, <1>5, <1>6, <1>7, <1>8, <1>9, <1>10, AiFrame DEF AiStep

(* While the classifier process lives, the patterns it lets through for    *)
(* one source stay below PI_CAMPAIGN_THRESHOLD, whatever the threshold.    *)
THEOREM PoisonBudgetHolds == Spec => []PoisonBudget
<1>1. Init => TypeInv /\ PoisonInv
  BY TypeInit, PoisonInit
<1>2. TypeInv /\ PoisonInv /\ [Next]_vars => TypeInv' /\ PoisonInv'
  BY TypeNext, PoisonNext
<1>3. PoisonInv => PoisonBudget
  BY DEF PoisonInv, PoisonBudget
<1>4. QED
  BY <1>1, <1>2, <1>3, PTL DEF Spec

(* While the last command is not lost, the stage obeys it as soon as it    *)
(* has drained what waits.  Of a disable it then lets at most one envelope *)
(* out, the one past its control check; a stage that has read a disable    *)
(* has nothing in hand to publish.                                         *)
Disabling == command = "disable" /\ ~lost

SwitchInv ==
    /\ ~lost => (DisabledAfterDrain <=> command = "disable")
    /\ Disabling => sinceCommand <= 1
    /\ Disabling /\ step["ai_layer"] = "classified" => sinceCommand = 0
    /\ aiDisabled => step["ai_layer"] # "classified"

LEMMA SwitchInit == Init => SwitchInv
BY DEF Init, BrokerInit, AiInit, SwitchInv, Disabling, DisabledAfterDrain, Service

LEMMA SwitchNext ==
  ASSUME TypeInv, SwitchInv, [Next]_vars
  PROVE  SwitchInv'
<1>0. /\ step \in [Service -> Step]
      /\ "ai_layer" \in Service
      /\ sinceCommand \in Nat
      /\ pending \in Seq(Command)
      /\ aiDisabled \in BOOLEAN
      /\ lost \in BOOLEAN
  BY DEF TypeInv, TypeOK, BrokerTypeOK, AiTypeOK, Service
<1> USE DEF Disabling, SwitchInv
<1>1. CASE SkipWhileDisabled \/ SkipDisabledSource \/ TripSource
  <2>1. /\ aiDisabled' = DisabledAfterDrain
        /\ pending' = <<>>
        /\ UNCHANGED <<sinceCommand, command, lost>>
        /\ step'["ai_layer"] = "idle"
    BY <1>0, <1>1 DEF SkipWhileDisabled, SkipDisabledSource, TripSource, Finish,
       CheckControlMessages, aiHistory
  <2>2. DisabledAfterDrain' = DisabledAfterDrain
    BY <2>1 DEF DisabledAfterDrain
  <2>3. QED
    BY <2>1, <2>2
<1>2. CASE Classify
  <2>1. /\ ~DisabledAfterDrain
        /\ aiDisabled' = DisabledAfterDrain
        /\ pending' = <<>>
        /\ UNCHANGED <<command, lost>>
    BY <1>2 DEF Classify, CheckControlMessages, aiHistory
  <2>2. ~DisabledAfterDrain' /\ ~aiDisabled'
    BY <2>1 DEF DisabledAfterDrain
  <2>3. ~Disabling'
    BY <2>1
  <2>4. ~lost' => command' # "disable"
    BY <2>1
  <2>5. QED
    BY <2>2, <2>3, <2>4
<1>3. CASE PublishClassification
  <2>1. /\ step["ai_layer"] = "classified"
        /\ step'["ai_layer"] = "idle"
        /\ sinceCommand' = sinceCommand + 1
        /\ UNCHANGED <<aiDisabled, pending, command, lost>>
    BY <1>0, <1>3 DEF PublishClassification, Finish, aiMemory, control, order
  <2>2. DisabledAfterDrain' = DisabledAfterDrain
    BY <2>1 DEF DisabledAfterDrain
  <2>3. QED
    BY <1>0, <2>1, <2>2
<1>4. CASE AiFails
  <2>1. /\ aiDisabled' = FALSE
        /\ UNCHANGED <<pending, sinceCommand, command>>
        /\ lost' = (lost \/ (aiDisabled /\ pending = <<>>))
        /\ step'["ai_layer"] = "idle"
    BY <1>0, <1>4 DEF AiFails, AiRestart, Finish, control
  <2>2. ~lost' => ~lost /\ (pending # <<>> \/ ~aiDisabled)
    BY <2>1, Zenon
  <2>3. pending # <<>> \/ ~aiDisabled => (DisabledAfterDrain' <=> DisabledAfterDrain)
    BY <1>0, <2>1 DEF DisabledAfterDrain
  <2>4. QED
    BY <2>1, <2>2, <2>3
<1>5. CASE BrokerFails
  <2>1. /\ pending' = <<>>
        /\ UNCHANGED <<aiDisabled, sinceCommand, command, step>>
        /\ lost' = (lost \/ pending # <<>>)
    BY <1>5 DEF BrokerFails, BrokerRestart, ControlLost, aiMemory
  <2>2. pending = <<>> => DisabledAfterDrain' = DisabledAfterDrain
    BY <2>1 DEF DisabledAfterDrain
  <2>3. ~lost' => ~lost /\ pending = <<>>
    BY <2>1, Zenon
  <2>4. QED
    BY <2>1, <2>2, <2>3
<1>6. ASSUME NEW c \in Command, Operate(c) \/ SettingNotStored(c)
      PROVE  SwitchInv'
  <2>1. /\ sinceCommand' = 0
        /\ UNCHANGED <<aiDisabled, step>>
        /\ command' = c
        /\ lost' = ~bound
        /\ bound => pending' = Append(pending, c)
    BY <1>6 DEF Operate, SettingNotStored, OperatorCommand, aiMemory, brokerVars
  <2>2. bound => (DisabledAfterDrain' <=> c = "disable")
    BY <1>0, <2>1 DEF DisabledAfterDrain
  <2>3. ~lost' => (DisabledAfterDrain' <=> command' = "disable")
    BY <2>1, <2>2, Zenon
  <2>4. sinceCommand' = 0 /\ (aiDisabled' => step'["ai_layer"] # "classified")
    BY <2>1
  <2>5. QED
    BY <2>3, <2>4
<1>7. CASE CheckControlRaises /\ step'["ai_layer"] = "idle"
  <2>1. UNCHANGED <<sinceCommand, command>>
    BY <1>7 DEF CheckControlRaises
  <2>2. CASE UNCHANGED <<control, aiDisabled, lost>>
    <3>1. DisabledAfterDrain' = DisabledAfterDrain
      BY <2>2 DEF DisabledAfterDrain, control
    <3>2. QED
      BY <1>7, <2>1, <2>2, <3>1
  <2>3. ASSUME NEW drained \in 0..Len(pending), NEW applied \in 0..drained,
               applied > 0 => drained = Len(pending),
               pending' = SubSeq(pending, drained + 1, Len(pending)),
               aiDisabled' = IF applied = 0 THEN aiDisabled ELSE pending[applied] = "disable",
               lost' = (lost \/ (applied < drained /\ drained = Len(pending)))
        PROVE  SwitchInv'
    <3>0. Len(pending) \in Nat
      BY <1>0
    <3>1. ~lost' => ~lost /\ (drained < Len(pending) \/ applied = drained)
      <4>1. ~lost' => ~lost /\ ~(applied < drained /\ drained = Len(pending))
        BY <2>3, Zenon
      <4>2. QED
        BY <3>0, <4>1
    <3>2. CASE drained < Len(pending)
      <4>0. /\ pending # <<>>
            /\ pending' = SubSeq(pending, drained + 1, Len(pending))
            /\ \A i \in (drained + 1)..Len(pending) : pending[i] \in Command
        BY <1>0, <2>3, <3>0, <3>2
      <4>1. /\ pending' \in Seq(Command)
            /\ Len(pending') = Len(pending) - drained
            /\ \A i \in 1..Len(pending') : pending'[i] = pending[drained + i]
        BY <1>0, <3>0, <3>2, <4>0
      <4>2. pending'[Len(pending')] = pending[Len(pending)]
        BY <3>0, <3>2, <4>1
      <4>3. DisabledAfterDrain' = DisabledAfterDrain
        <5>1. pending' # <<>>
          BY <3>0, <3>2, <4>1
        <5>2. QED
          BY <4>0, <4>2, <5>1, Zenon DEF DisabledAfterDrain
      <4>4. QED
        BY <1>7, <2>1, <3>1, <4>3
    <3>3. CASE drained = Len(pending) /\ applied = drained
      <4>1. pending' = <<>>
        BY <1>0, <2>3, <3>0, <3>3
      <4>2. DisabledAfterDrain' = DisabledAfterDrain
        BY <1>0, <2>3, <3>0, <3>3, <4>1 DEF DisabledAfterDrain
      <4>3. QED
        BY <1>7, <2>1, <3>1, <4>2
    <3>4. CASE drained = Len(pending) /\ applied # drained
      BY <1>7, <2>1, <3>1, <3>4
    <3>5. QED
      BY <2>3, <3>0, <3>2, <3>3, <3>4
  <2>4. QED
    BY <1>7, <2>2, <2>3 DEF CheckControlRaises
<1>8. CASE /\ UNCHANGED aiVars
           /\ \/ UNCHANGED <<hand["ai_layer"], step["ai_layer"]>>
              \/ step'["ai_layer"] \in {"idle", "taken"}
  <2>1. UNCHANGED <<aiDisabled, pending, sinceCommand, command, lost>>
    BY <1>8 DEF aiVars
  <2>2. DisabledAfterDrain' = DisabledAfterDrain
    BY <2>1 DEF DisabledAfterDrain
  <2>3. QED
    BY <1>8, <2>1, <2>2
<1>9. QED
  BY <1>1, <1>2, <1>3, <1>4, <1>5, <1>6, <1>7, <1>8, AiFrame DEF AiStep

(* Unless a disable is lost or forgotten, which "lost" records where it    *)
(* happens, at most one envelope comes out after it, however commands,     *)
(* messages and faults interleave.                                         *)
THEOREM SwitchHolds == Spec => []KillSwitchWindow
<1>1. Init => TypeInv /\ SwitchInv
  BY TypeInit, SwitchInit
<1>2. TypeInv /\ SwitchInv /\ [Next]_vars => TypeInv' /\ SwitchInv'
  BY TypeNext, SwitchNext
<1>3. SwitchInv => KillSwitchWindow
  BY DEF SwitchInv, Disabling, KillSwitchWindow
<1>4. QED
  BY <1>1, <1>2, <1>3, PTL DEF Spec

(***************************************************************************)
(* Corroboration                                                           *)
(***************************************************************************)
LEMMA CorroboratedInit == Init => FindingsCorroborated
BY DEF Init, DbInit, FindingsCorroborated

(* Findings are only ever added, and by one action.                        *)
LEMMA FindingsFrame ==
  ASSUME TypeInv, [Next]_vars
  PROVE  \/ UNCHANGED findings
         \/ findings' = findings \cup {[rec |-> Rec, corroborating |-> Corroborating(Rec)]}
<1>1. CASE DbStep
  BY <1>1 DEF DbStep, DropUnstoredSource, QuarantineAndEscalate, WriteToPostgres,
     SkipDuplicate, IndexToOpensearch, WriteTelegramMessage, UpdateGraph,
     UpdateSourceReputation, ProcessDiscoveredCandidate, dbVars, stores
<1>2. CASE StoreErrorSwallowed \/ UNCHANGED dbVars
  BY <1>2 DEF StoreErrorSwallowed, dbVars
<1>3. QED
  BY <1>1, <1>2, DbFrame

LEMMA CorroboratedNext ==
  ASSUME TypeInv, FindingsCorroborated, [Next]_vars
  PROVE  FindingsCorroborated'
<1>1. CASE UNCHANGED findings
  BY <1>1 DEF FindingsCorroborated
<1>2. CASE findings' = findings \cup {[rec |-> Rec, corroborating |-> Corroborating(Rec)]}
  <2> DEFINE n == [rec |-> Rec, corroborating |-> Corroborating(Rec)]
  <2>1. /\ n.rec = Rec
        /\ n.corroborating = Corroborating(Rec)
    OBVIOUS
  <2>2. \A g \in findings : Overlap(Rec, g.rec) => SourceOf[g.rec] \in Corroborating(Rec)
    BY DEF Corroborating
  <2>3. \A g \in findings : Overlap(g.rec, Rec) => Overlap(Rec, g.rec)
    BY DEF Overlap
  <2>4. ~Overlap(Rec, Rec)
    BY DEF Overlap
  <2>5. \A s \in Corroborating(Rec) :
            \E g \in findings : SourceOf[g.rec] = s /\ Overlap(Rec, g.rec)
    BY DEF Corroborating
  <2>6. SUFFICES ASSUME NEW f \in findings'
                 PROVE  /\ \A g \in findings' :
                              Overlap(f.rec, g.rec) =>
                                  \/ SourceOf[g.rec] \in f.corroborating
                                  \/ SourceOf[f.rec] \in g.corroborating
                        /\ \A s \in f.corroborating :
                              \E g \in findings' :
                                  SourceOf[g.rec] = s /\ Overlap(f.rec, g.rec)
    BY DEF FindingsCorroborated, Overlap
  <2>7. CASE f \in findings
    BY <1>2, <2>1, <2>2, <2>3, <2>7 DEF FindingsCorroborated
  <2>8. CASE f = n
    BY <1>2, <2>1, <2>2, <2>4, <2>5, <2>8
  <2>9. QED
    BY <1>2, <2>7, <2>8
<1>3. QED
  BY <1>1, <1>2, FindingsFrame

(* Of two findings that overlap, the later one counted the earlier one,    *)
(* whatever the sources, categories and entities.                          *)
THEOREM CorroborationHolds == Spec => []FindingsCorroborated
<1>1. Init => TypeInv /\ FindingsCorroborated
  BY TypeInit, CorroboratedInit
<1>2. TypeInv /\ FindingsCorroborated /\ [Next]_vars => TypeInv' /\ FindingsCorroborated'
  BY TypeNext, CorroboratedNext
<1>3. QED
  BY <1>1, <1>2, PTL DEF Spec

(***************************************************************************)
(* The senders' counts                                                     *)
(***************************************************************************)
CountInv == IsFiniteSet(telegramMessages) /\ MessageCountExact

LEMMA CountInit == Init => CountInv
<1> SUFFICES ASSUME Init PROVE CountInv
  OBVIOUS
<1>1. /\ telegramMessages = {}
      /\ messageCount = [a \in Actor |-> 0]
  BY DEF Init, DbInit
<1>2. \A a \in Actor : {r \in telegramMessages : AuthorOf[r] = a} = {}
  BY <1>1
<1>3. QED
  BY <1>1, <1>2, FS_EmptySet DEF CountInv, MessageCountExact

LEMMA CountNext ==
  ASSUME TypeInv, CountInv, [Next]_vars
  PROVE  CountInv'
<1>0. messageCount \in [Actor -> Nat]
  BY DEF TypeInv, TypeOK, DbTypeOK
<1>1. CASE WriteTelegramMessage
  <2> DEFINE Of(a) == {r \in telegramMessages : AuthorOf[r] = a}
  <2>1. /\ telegramMessages' = telegramMessages \cup {Rec}
        /\ messageCount' = IF AuthorOf[Rec] \in Actor
                           THEN [messageCount EXCEPT ![AuthorOf[Rec]] = @ + 1]
                           ELSE messageCount
        /\ Rec \notin telegramMessages
    BY <1>1 DEF WriteTelegramMessage, StoredMessage
  <2>2. IsFiniteSet(telegramMessages')
    BY <2>1, FS_AddElement DEF CountInv
  <2>3. ASSUME NEW a \in Actor
        PROVE  messageCount'[a] = Cardinality({r \in telegramMessages' : AuthorOf[r] = a})
    <3>1. IsFiniteSet(Of(a)) /\ messageCount[a] = Cardinality(Of(a))
      BY FS_Subset DEF CountInv, MessageCountExact
    <3>2. CASE AuthorOf[Rec] = a
      <4>1. {r \in telegramMessages' : AuthorOf[r] = a} = Of(a) \cup {Rec}
        BY <2>1, <3>2
      <4>2. Rec \notin Of(a)
        BY <2>1
      <4>3. Cardinality(Of(a) \cup {Rec}) = Cardinality(Of(a)) + 1
        BY <3>1, <4>2, FS_AddElement
      <4>4. messageCount'[a] = messageCount[a] + 1
        BY <1>0, <2>1, <3>2
      <4>5. QED
        BY <3>1, <4>1, <4>3, <4>4
    <3>3. CASE AuthorOf[Rec] # a
      <4>1. {r \in telegramMessages' : AuthorOf[r] = a} = Of(a)
        BY <2>1, <3>3
      <4>2. messageCount'[a] = messageCount[a]
        BY <1>0, <2>1, <3>3
      <4>3. QED
        BY <3>1, <4>1, <4>2
    <3>4. QED
      BY <3>2, <3>3
  <2>4. QED
    BY <2>2, <2>3 DEF CountInv, MessageCountExact
<1>2. CASE DbStep /\ ~WriteTelegramMessage
  <2>1. UNCHANGED <<telegramMessages, messageCount>>
    BY <1>2 DEF DbStep, DropUnstoredSource, QuarantineAndEscalate, WriteToPostgres,
       SkipDuplicate, IndexToOpensearch, UpdateGraph, UpdateSourceReputation,
       ProcessDiscoveredCandidate, dbVars, stores
  <2>2. QED
    BY <2>1 DEF CountInv, MessageCountExact
<1>3. CASE StoreErrorSwallowed \/ UNCHANGED dbVars
  BY <1>3 DEF StoreErrorSwallowed, dbVars, CountInv, MessageCountExact
<1>4. QED
  BY <1>1, <1>2, <1>3, DbFrame

(* A sender's message_count is the number of that sender's stored          *)
(* messages, however often a message is collected or redelivered.          *)
THEOREM CountsExact == Spec => []MessageCountExact
<1>1. Init => TypeInv /\ CountInv
  BY TypeInit, CountInit
<1>2. TypeInv /\ CountInv /\ [Next]_vars => TypeInv' /\ CountInv'
  BY TypeNext, CountNext
<1>3. CountInv => MessageCountExact
  BY DEF CountInv
<1>4. QED
  BY <1>1, <1>2, <1>3, PTL DEF Spec

(***************************************************************************)
(* Refinement of EvidenceLedger                                            *)
(***************************************************************************)
(* What a step on a queue or a hand does to the set of records in flight.  *)
LEMMA PublishInFlight ==
  ASSUME TypeInv, NEW q \in QueueName, NEW m \in Message, Publish(q, m)
  PROVE  Waiting' = Waiting \cup {m.rec}
<1>0. queue \in [QueueName -> Seq(Message)]
  BY DEF TypeInv, TypeOK, BrokerTypeOK
<1> DEFINE Recs(s) == {s[i].rec : i \in 1..Len(s)}
<1>1. ASSUME NEW s \in Seq(Message)
      PROVE  Recs(Append(s, m)) = Recs(s) \cup {m.rec}
  <2>1. /\ Len(Append(s, m)) = Len(s) + 1
        /\ Append(s, m)[Len(s) + 1] = m
        /\ \A i \in 1..Len(s) : Append(s, m)[i] = s[i]
        /\ Len(s) \in Nat
    OBVIOUS
  <2>2. 1..(Len(s) + 1) = (1..Len(s)) \cup {Len(s) + 1}
    BY <2>1
  <2>3. QED
    BY <2>1, <2>2
<1>2. /\ queue'[q] = Append(queue[q], m)
      /\ \A p \in QueueName : p # q => queue'[p] = queue[p]
  BY <1>0 DEF Publish
<1>3. /\ Recs(queue'[q]) = Recs(queue[q]) \cup {m.rec}
      /\ \A p \in QueueName : p # q => Recs(queue'[p]) = Recs(queue[p])
  BY <1>0, <1>1, <1>2
<1>4. Waiting = UNION {Recs(queue[p]) : p \in QueueName}
  BY DEF Waiting
<1>5. Waiting' = UNION {Recs(queue'[p]) : p \in QueueName}
  BY DEF Waiting
<1> HIDE DEF Recs
<1>6. ASSUME NEW r \in Waiting'
      PROVE  r \in Waiting \cup {m.rec}
  <2>1. PICK p \in QueueName : r \in Recs(queue'[p])
    BY <1>5
  <2>2. QED
    BY <1>3, <1>4, <2>1
<1>7. ASSUME NEW r \in Waiting \cup {m.rec}
      PROVE  r \in Waiting'
  <2>1. CASE r = m.rec
    BY <1>3, <1>5, <2>1
  <2>2. CASE r \in Waiting
    <3>1. PICK p \in QueueName : r \in Recs(queue[p])
      BY <1>4, <2>2
    <3>2. r \in Recs(queue'[p])
      BY <1>3, <3>1
    <3>3. QED
      BY <1>5, <3>2
  <2>3. QED
    BY <2>1, <2>2
<1>8. QED
  BY <1>6, <1>7

LEMMA HeadWaits ==
  ASSUME TypeInv, NEW q \in QueueName, queue[q] # <<>>
  PROVE  Head(queue[q]).rec \in Waiting
<1>1. queue[q] \in Seq(Message)
  BY DEF TypeInv, TypeOK, BrokerTypeOK
<1>2. 1 \in 1..Len(queue[q]) /\ Head(queue[q]) = queue[q][1]
  BY <1>1
<1>3. QED
  BY <1>2 DEF Waiting

LEMMA TakeInFlight ==
  ASSUME TypeInv, NEW s \in Service, NEW q \in QueueName, Take(s, q)
  PROVE  InFlight' \subseteq InFlight
<1>0. /\ queue \in [QueueName -> Seq(Message)]
      /\ hand \in [Service -> Message \cup {NoMessage}]
      /\ step \in [Service -> Step]
  BY DEF TypeInv, TypeOK, BrokerTypeOK
<1>1. Waiting' \subseteq Waiting
  <2>1. ASSUME NEW p \in QueueName, NEW i \in 1..Len(queue'[p])
        PROVE  queue'[p][i].rec \in Waiting
    <3>1. CASE p = q
      <4>1. queue'[p] = Tail(queue[p]) /\ queue[p] # <<>> /\ queue[p] \in Seq(Message)
        BY <1>0, <3>1 DEF Take
      <4>2. i + 1 \in 1..Len(queue[p]) /\ queue'[p][i] = queue[p][i + 1]
        BY <4>1
      <4>3. QED
        BY <4>2 DEF Waiting
    <3>2. CASE p # q
      BY <1>0, <3>2 DEF Take, Waiting
    <3>3. QED
      BY <3>1, <3>2
  <2>2. SUFFICES ASSUME NEW r \in Waiting'
                 PROVE  r \in Waiting
    OBVIOUS
  <2>3. \E p \in QueueName : \E i \in 1..Len(queue'[p]) : r = queue'[p][i].rec
    BY DEF Waiting
  <2>4. QED
    BY <2>1, <2>3
<1>2. InHands' \subseteq InHands \cup {Head(queue[q]).rec}
  BY <1>0 DEF Take, InHands
<1>3. QED
  BY <1>1, <1>2, HeadWaits DEF InFlight, Take

(* A handler's end takes its record out of the hands; a handler's progress *)
(* does not.                                                               *)
LEMMA FinishInFlight ==
  ASSUME TypeInv, NEW s \in Service, Finish(s)
  PROVE  InHands' \subseteq InHands
BY DEF TypeInv, TypeOK, BrokerTypeOK, Finish, InHands

LEMMA AdvanceInFlight ==
  ASSUME TypeInv, NEW s \in Service, NEW to \in Step, to # "idle", step[s] # "idle",
         Advance(s, to)
  PROVE  InHands' = InHands
BY DEF TypeInv, TypeOK, BrokerTypeOK, Advance, InHands

LEMMA InHandInFlight ==
  ASSUME NEW s \in Service, step[s] # "idle"
  PROVE  hand[s].rec \in InFlight
BY DEF InFlight, InHands

(* Each stage's step publishes what it holds, or lets go of it.            *)
LEMMA StagesLeave ==
  ASSUME TypeInv, SanitizerStep \/ AnalysisStep \/ AiStep
  PROVE  InFlight' \subseteq InFlight /\ UNCHANGED <<collected, Stored>>
<1>0. /\ hand \in [Service -> Message \cup {NoMessage}]
      /\ step \in [Service -> Step]
      /\ Service = {"sanitizer", "analysis", "ai_layer", "db_writer"}
      /\ QueueName = {"raw.crawl", "telegram.raw", "sanitized", "analysis.ready", "ai.output"}
  BY DEF TypeInv, TypeOK, BrokerTypeOK, Service, QueueName
<1>1. UNCHANGED <<collected, Stored>>
  BY DEF SanitizerStep, AnalysisStep, AiStep, dbVars, Stored
<1>2. CASE SanitizerStep
  <2>1. /\ hand["sanitizer"] \in Message
        /\ hand["sanitizer"].rec \in InFlight
        /\ PatternsOf[hand["sanitizer"].rec] \in Nat
    BY <1>0, <1>2, InHandType, InHandInFlight, EnvelopeAssumption
    DEF SanitizerStep, ProcessRawRecord, EnvelopeAssumption
  <2>2. /\ InjectionGateway(hand["sanitizer"]) \in Message
        /\ InjectionGateway(hand["sanitizer"]).rec = hand["sanitizer"].rec
    BY <2>1 DEF InjectionGateway, Message
  <2>3. Waiting' = Waiting \cup {hand["sanitizer"].rec}
    BY <1>0, <1>2, <2>2, PublishInFlight DEF SanitizerStep, ProcessRawRecord
  <2>4. InHands' \subseteq InHands
    BY <1>0, <1>2, FinishInFlight DEF SanitizerStep, ProcessRawRecord
  <2>5. QED
    BY <1>1, <2>1, <2>3, <2>4 DEF InFlight
<1>3. CASE AnalysisStep /\ PublishAnalysis
  <2>1. /\ hand["analysis"] \in Message
        /\ hand["analysis"].rec \in InFlight
        /\ step["analysis"] # "idle"
    BY <1>0, <1>3, InHandType, InHandInFlight DEF PublishAnalysis
  <2>2. Waiting' = Waiting \cup {hand["analysis"].rec}
    BY <1>0, <1>3, <2>1, PublishInFlight DEF PublishAnalysis
  <2>3. InHands' \subseteq InHands
    BY <1>0, <1>3, <2>1, FinishInFlight, AdvanceInFlight DEF PublishAnalysis, Step
  <2>4. QED
    BY <1>1, <2>1, <2>2, <2>3 DEF InFlight
<1>4. CASE AnalysisStep /\ ~PublishAnalysis
  <2>1. UNCHANGED queue /\ InHands' \subseteq InHands
    BY <1>0, <1>4, FinishInFlight DEF AnalysisStep, PublishCandidate, InHands
  <2>2. QED
    BY <1>1, <2>1 DEF InFlight, Waiting
<1>5. CASE AiStep /\ PublishClassification
  <2>1. InHand \in Message /\ InHand.rec \in InFlight
    BY <1>0, <1>5, InHandType, InHandInFlight DEF PublishClassification, InHand
  <2>2. Waiting' = Waiting \cup {InHand.rec}
    BY <1>0, <1>5, <2>1, PublishInFlight DEF PublishClassification
  <2>3. InHands' \subseteq InHands
    BY <1>0, <1>5, FinishInFlight DEF PublishClassification
  <2>4. QED
    BY <1>1, <2>1, <2>2, <2>3 DEF InFlight
<1>6. CASE AiStep /\ Classify
  <2>1. /\ hand' = [hand EXCEPT !["ai_layer"] = ClassifiedEnvelope]
        /\ step' = [step EXCEPT !["ai_layer"] = "classified"]
        /\ step["ai_layer"] # "idle"
        /\ ClassifiedEnvelope.rec = hand["ai_layer"].rec
        /\ UNCHANGED queue
    BY <1>6 DEF Classify, ClassifiedEnvelope, InHand
  <2>2. InHands' \subseteq InHands
    BY <1>0, <2>1 DEF InHands
  <2>3. QED
    BY <1>1, <2>1, <2>2 DEF InFlight, Waiting
<1>7. CASE AiStep /\ ~PublishClassification /\ ~Classify
  <2>1. Finish("ai_layer") /\ UNCHANGED queue
    BY <1>7 DEF AiStep, SkipWhileDisabled, SkipDisabledSource, TripSource
  <2>2. QED
    BY <1>0, <1>1, <2>1, FinishInFlight DEF InFlight, Waiting
<1>8. QED
  BY <1>2, <1>3, <1>4, <1>5, <1>6, <1>7

(* db_writer stores the record it holds, or stores nothing new.            *)
LEMMA DbStoresOrLeaves ==
  ASSUME TypeInv, StoreInv, DbStep
  PROVE  \/ \E r \in Record : Ledger!StoreOnce(r)
         \/ InFlight' \subseteq InFlight /\ UNCHANGED <<collected, Stored>>
<1>0. /\ "db_writer" \in Service
      /\ UNCHANGED collected
  BY DEF Service, DbStep
<1>1. CASE WriteToPostgres \/ WriteTelegramMessage
  <2>1. /\ step["db_writer"] # "idle"
        /\ UNCHANGED queue
        /\ \E to \in Step : to # "idle" /\ Advance("db_writer", to)
    BY <1>1 DEF WriteToPostgres, WriteTelegramMessage, Storable, Step
  <2>2. Rec \in Record /\ Rec \in InFlight
    BY <1>0, <2>1, InHandType, InHandInFlight DEF Rec, Row
  <2>3. InFlight' = InFlight
    BY <1>0, <2>1, AdvanceInFlight DEF InFlight, Waiting
  <2>4. \A x \in Stored : ~SameContent(Rec, x)
    BY <1>1 DEF WriteToPostgres, WriteTelegramMessage, Storable, StoredPage, StoredMessage,
       StoreInv, Stored, SameContent
  <2>5. Stored' = Stored \cup {Rec}
    BY <1>1 DEF WriteToPostgres, WriteTelegramMessage, Stored
  <2>6. Ledger!StoreOnce(Rec)
    BY <1>0, <2>2, <2>3, <2>4, <2>5 DEF Ledger!StoreOnce
  <2>7. QED
    BY <2>2, <2>6
<1>2. CASE IndexToOpensearch \/ UpdateGraph
  <2>1. /\ step["db_writer"] # "idle"
        /\ UNCHANGED <<queue, rawEvidence, telegramMessages>>
        /\ \E to \in Step : to # "idle" /\ Advance("db_writer", to)
    BY <1>2 DEF IndexToOpensearch, UpdateGraph, Step, stores
  <2>2. QED
    BY <1>0, <2>1, AdvanceInFlight DEF InFlight, Waiting, Stored
<1>3. CASE ProcessDiscoveredCandidate
  BY <1>0, <1>3 DEF ProcessDiscoveredCandidate, InFlight, Waiting, InHands, Stored, stores
<1>4. CASE \/ DropUnstoredSource
           \/ QuarantineAndEscalate
           \/ SkipDuplicate
           \/ UpdateSourceReputation
  <2>1. /\ Finish("db_writer")
        /\ UNCHANGED <<queue, rawEvidence, telegramMessages>>
    BY <1>4 DEF DropUnstoredSource, QuarantineAndEscalate, SkipDuplicate,
       UpdateSourceReputation, stores, dbVars
  <2>2. QED
    BY <1>0, <2>1, FinishInFlight DEF InFlight, Waiting, Stored
<1>5. QED
  BY <1>1, <1>2, <1>3, <1>4 DEF DbStep

(* A fault takes records away, or delivers one again that never left.      *)
LEMMA FaultsLeave ==
  ASSUME TypeInv, FaultStep
  PROVE  InFlight' \subseteq InFlight /\ UNCHANGED <<collected, Stored>>
<1>0. /\ queue \in [QueueName -> Seq(Message)]
      /\ hand \in [Service -> Message \cup {NoMessage}]
      /\ step \in [Service -> Step]
      /\ Service = {"sanitizer", "analysis", "ai_layer", "db_writer"}
      /\ "ai.output" \in QueueName
  BY DEF TypeInv, TypeOK, BrokerTypeOK, Service, QueueName
<1>1. UNCHANGED <<collected, Stored>>
  BY DEF FaultStep, HandlerRaises, Redelivery, BrokerFails, AiFails, DbFails,
     SettingNotStored, Fault, StoreErrorSwallowed, CandidateLost, DbWriterStops, dbVars, Stored
<1>2. ASSUME NEW s \in Service, HandlerRaises(s)
      PROVE  InFlight' \subseteq InFlight
  BY <1>2, FinishInFlight DEF HandlerRaises, CallbackRaises, InFlight, Waiting
<1>3. CASE Redelivery
  <2>1. InHands' \subseteq InHands \cup {Head(queue["ai.output"]).rec}
    BY <1>0, <1>3 DEF Redelivery, TakeUnacknowledged, InHands
  <2>2. UNCHANGED queue /\ queue["ai.output"] # <<>>
    BY <1>3 DEF Redelivery, TakeUnacknowledged
  <2>3. QED
    BY <1>0, <1>1, <2>1, <2>2, HeadWaits DEF InFlight, Waiting
<1>4. CASE BrokerFails
  <2>1. /\ queue' = [q \in QueueName |-> <<>>]
        /\ UNCHANGED <<hand, step>>
    BY <1>4 DEF BrokerFails, BrokerRestart
  <2>2. Waiting' = {}
    BY <2>1 DEF Waiting
  <2>3. QED
    BY <1>1, <2>1, <2>2 DEF InFlight, InHands
<1>5. CASE AiFails
  BY <1>0, <1>1, <1>5, FinishInFlight DEF AiFails, AiRestart, InFlight, Waiting
<1>6. CASE DbFails
  <2>1. UNCHANGED queue
    BY <1>6 DEF DbFails, StoreErrorSwallowed, CandidateLost, DbWriterStops
  <2>2. InHands' \subseteq InHands
    <3>1. CASE \E to \in {"graph", "reputation"} :
                  step["db_writer"] # "idle" /\ Advance("db_writer", to)
      BY <1>0, <3>1, AdvanceInFlight DEF Step
    <3>2. CASE Finish("db_writer")
      BY <1>0, <3>2, FinishInFlight
    <3>3. CASE UNCHANGED <<hand, step>>
      BY <3>3 DEF InHands
    <3>4. QED
      BY <1>6, <3>1, <3>2, <3>3 DEF DbFails, StoreErrorSwallowed, CandidateLost, DbWriterStops
  <2>3. QED
    BY <1>1, <2>1, <2>2 DEF InFlight, Waiting
<1>7. ASSUME NEW c \in Command, SettingNotStored(c)
      PROVE  InFlight' \subseteq InFlight
  BY <1>7 DEF SettingNotStored, OperatorCommand, brokerVars, InFlight, Waiting, InHands
<1>8. QED
  BY <1>1, <1>2, <1>3, <1>4, <1>5, <1>6, <1>7 DEF FaultStep

LEMMA LedgerStep ==
  ASSUME TypeInv, StoreInv, [Next]_vars
  PROVE  [Ledger!LedgerNext]_(Ledger!ledgerVars)
<1> USE DEF Ledger!LedgerNext, Ledger!ledgerVars
<1>1. ASSUME InFlight' \subseteq InFlight, UNCHANGED <<collected, Stored>>
      PROVE  Ledger!LedgerNext
  BY <1>1 DEF Ledger!Leave
<1>2. ASSUME NEW r \in Record, Collect(r)
      PROVE  Ledger!LedgerNext
  <2>1. RawRecord(r) \in Message /\ RawRecord(r).rec = r
    BY DEF RawRecord, Message, Content
  <2>2. Waiting' = Waiting \cup {r}
    BY <1>2, <2>1, PublishInFlight DEF Collect, QueueName
  <2>3. UNCHANGED <<hand, step, Stored>>
    BY <1>2 DEF Collect, dbVars, Stored
  <2>4. InFlight' = InFlight \cup {r}
    BY <2>2, <2>3 DEF InFlight, InHands
  <2>5. Ledger!Enter(r)
    BY <1>2, <2>3, <2>4 DEF Ledger!Enter, Collect
  <2>6. QED
    BY <2>5
<1>3. ASSUME NEW s \in Service, Consume(s)
      PROVE  Ledger!LedgerNext
  <2>1. InFlight' \subseteq InFlight
    BY <1>3, TakeInFlight, SubscribedType DEF Consume
  <2>2. UNCHANGED <<collected, Stored>>
    BY <1>3 DEF Consume, dbVars, Stored
  <2>3. QED
    BY <1>1, <2>1, <2>2
<1>4. CASE SanitizerStep \/ AnalysisStep \/ AiStep
  BY <1>1, <1>4, StagesLeave
<1>5. CASE DbStep
  BY <1>1, <1>5, DbStoresOrLeaves
<1>6. ASSUME NEW c \in Command, Operate(c)
      PROVE  Ledger!LedgerNext
  <2>1. /\ InFlight' = InFlight
        /\ UNCHANGED <<collected, Stored>>
    BY <1>6 DEF Operate, OperatorCommand, brokerVars, dbVars, InFlight, Waiting, InHands, Stored
  <2>2. QED
    BY <1>1, <2>1
<1>7. CASE FaultStep
  BY <1>1, <1>7, FaultsLeave
<1>8. CASE UNCHANGED vars
  BY <1>8 DEF vars, brokerVars, dbVars, InFlight, Waiting, InHands, Stored
<1>9. QED
  BY <1>2, <1>3, <1>4, <1>5, <1>6, <1>7, <1>8 DEF Next

LEMMA LedgerInitially == Init => Ledger!LedgerInit
<1> SUFFICES ASSUME Init PROVE Ledger!LedgerInit
  OBVIOUS
<1>1. Waiting = {}
  BY DEF Init, BrokerInit, Waiting
<1>2. InHands = {}
  BY DEF Init, BrokerInit, InHands
<1>3. QED
  BY <1>1, <1>2 DEF Init, DbInit, Ledger!LedgerInit, InFlight, Stored

(* The pipeline, with every fault, implements the ledger: each record      *)
(* enters once, is stored at most once per content key and only while it   *)
(* is on its way, and never comes back after it has left.                  *)
THEOREM ImplementsLedger == Spec => AtMostOnce
<1>1. Init => TypeInv /\ StoreInv /\ Ledger!LedgerInit
  BY TypeInit, StoreInit, LedgerInitially
<1>2. TypeInv /\ StoreInv /\ [Next]_vars => TypeInv' /\ StoreInv'
  BY TypeNext, StoreNext
<1>3. TypeInv /\ StoreInv /\ [Next]_vars => [Ledger!LedgerNext]_(Ledger!ledgerVars)
  BY LedgerStep
<1>4. QED
  BY <1>1, <1>2, <1>3, PTL DEF Spec, AtMostOnce, Ledger!LedgerSpec

(***************************************************************************)
(* The stores against each other                                           *)
(***************************************************************************)
Pending(steps) == IF step["db_writer"] \in steps THEN {Rec} ELSE {}

(* Without a fault, index and graph lack the record in hand at most, and   *)
(* only until db_writer has come to them.                                  *)
AgreeInv ==
    faults = 0 =>
        /\ opensearch = rawEvidence \ Pending({"index"})
        /\ graph = {r \in Stored : PlatformOf[r] = "telegram" => AuthorOf[r] \in Actor}
                       \ Pending({"index", "graph"})

(* A fault-free step is db_writer's, or leaves its stores and its work     *)
(* alone, or gives it a message when it has none.                          *)
LEMMA FaultFreeFrame ==
  ASSUME TypeInv, [Next]_vars, faults' = 0
  PROVE  /\ faults = 0
         /\ \/ DbStep
            \/ /\ UNCHANGED dbVars
               /\ \/ UNCHANGED <<hand["db_writer"], step["db_writer"]>>
                  \/ step["db_writer"] = "idle" /\ step'["db_writer"] = "taken"
<1> DEFINE Rest == /\ faults = 0
                   /\ UNCHANGED dbVars
                   /\ \/ UNCHANGED <<hand["db_writer"], step["db_writer"]>>
                      \/ step["db_writer"] = "idle" /\ step'["db_writer"] = "taken"
<1>0. /\ hand \in [Service -> Message \cup {NoMessage}]
      /\ step \in [Service -> Step]
      /\ Service = {"sanitizer", "analysis", "ai_layer", "db_writer"}
      /\ faults \in Nat
  BY BoundsAssumption DEF BoundsAssumption, TypeInv, TypeOK, BrokerTypeOK, Service
<1>1. ASSUME NEW r \in Record, Collect(r)
      PROVE  Rest
  BY <1>1 DEF Collect, bounds
<1>2. ASSUME NEW s \in Service, Consume(s)
      PROVE  Rest
  BY <1>0, <1>2 DEF Consume, Take, bounds
<1>3. CASE SanitizerStep
  BY <1>0, <1>3 DEF SanitizerStep, ProcessRawRecord, Finish, bounds
<1>4. CASE AnalysisStep
  BY <1>0, <1>4 DEF AnalysisStep, PublishAnalysis, PublishCandidate, Finish, Advance, bounds
<1>5. CASE AiStep
  BY <1>0, <1>5 DEF AiStep, SkipWhileDisabled, SkipDisabledSource, TripSource, Classify,
     PublishClassification, Finish, bounds
<1>6. ASSUME NEW c \in Command, Operate(c)
      PROVE  Rest
  BY <1>6 DEF Operate, OperatorCommand, brokerVars
<1>7. FaultStep => faults' = faults + 1
  BY DEF FaultStep, HandlerRaises, Redelivery, BrokerFails, AiFails, DbFails,
         SettingNotStored, Fault
<1>8. ~FaultStep
  BY <1>0, <1>7
<1>9. CASE DbStep
  BY <1>9 DEF DbStep, bounds
<1>10. CASE UNCHANGED vars
  BY <1>10 DEF vars, brokerVars, bounds
<1>11. QED
  BY <1>1, <1>2, <1>3, <1>4, <1>5, <1>6, <1>8, <1>9, <1>10 DEF Next

LEMMA AgreeNext ==
  ASSUME TypeInv, StoreInv, AgreeInv, [Next]_vars
  PROVE  AgreeInv'
<1> SUFFICES ASSUME faults' = 0
             PROVE  /\ opensearch' = rawEvidence' \ Pending({"index"})'
                    /\ graph' = {r \in Stored' : PlatformOf[r] = "telegram" => AuthorOf[r] \in Actor}
                                    \ Pending({"index", "graph"})'
  BY DEF AgreeInv
<1> DEFINE Graphed(S) == {r \in S : PlatformOf[r] = "telegram" => AuthorOf[r] \in Actor}
<1> USE DEF Pending, Stored, Rec, Row
<1>0. /\ hand \in [Service -> Message \cup {NoMessage}]
      /\ step \in [Service -> Step]
      /\ "db_writer" \in Service
  BY DEF TypeInv, TypeOK, BrokerTypeOK, Service
<1>1. /\ opensearch = rawEvidence \ Pending({"index"})
      /\ graph = Graphed(Stored) \ Pending({"index", "graph"})
  BY FaultFreeFrame DEF AgreeInv
<1>2. /\ \A r \in rawEvidence : PlatformOf[r] = "web"
      /\ \A r \in telegramMessages : PlatformOf[r] = "telegram"
      /\ step["db_writer"] = "index" => Rec \in rawEvidence
      /\ step["db_writer"] = "graph" => Rec \in Stored
  BY DEF StoreInv
<1>3. CASE \/ DropUnstoredSource \/ QuarantineAndEscalate \/ SkipDuplicate
           \/ UpdateSourceReputation
  <2>1. /\ step["db_writer"] \in {"taken", "reputation"}
        /\ step'["db_writer"] = "idle"
        /\ UNCHANGED <<rawEvidence, telegramMessages, opensearch, graph>>
    BY <1>0, <1>3
    DEF DropUnstoredSource, QuarantineAndEscalate, SkipDuplicate, UpdateSourceReputation,
        Storable, Finish, dbVars, stores
  <2>2. QED
    BY <1>1, <2>1
<1>4. CASE WriteToPostgres
  <2>1. /\ step["db_writer"] = "taken" /\ step'["db_writer"] = "index" /\ hand' = hand
        /\ rawEvidence' = rawEvidence \cup {Rec}
        /\ Rec \notin rawEvidence /\ PlatformOf[Rec] = "web"
        /\ UNCHANGED <<telegramMessages, opensearch, graph>>
    BY <1>0, <1>4 DEF WriteToPostgres, Storable, StoredPage, Advance
  <2>2. Rec \notin telegramMessages
    BY <1>2, <2>1
  <2>3. QED
    BY <1>1, <2>1, <2>2
<1>5. CASE WriteTelegramMessage
  <2>1. /\ step["db_writer"] = "taken" /\ step'["db_writer"] = "graph" /\ hand' = hand
        /\ telegramMessages' = telegramMessages \cup {Rec}
        /\ Rec \notin telegramMessages /\ PlatformOf[Rec] = "telegram"
        /\ UNCHANGED <<rawEvidence, opensearch, graph>>
    BY <1>0, <1>5 DEF WriteTelegramMessage, Storable, StoredMessage, Advance
  <2>2. Rec \notin rawEvidence
    BY <1>2, <2>1
  <2>3. QED
    BY <1>1, <2>1, <2>2
<1>6. CASE IndexToOpensearch
  <2>1. /\ step["db_writer"] = "index" /\ step'["db_writer"] = "graph" /\ hand' = hand
        /\ opensearch' = opensearch \cup {Rec}
        /\ UNCHANGED <<rawEvidence, telegramMessages, graph>>
    BY <1>0, <1>6 DEF IndexToOpensearch, Advance, stores
  <2>2. QED
    BY <1>1, <1>2, <2>1
<1>7. CASE UpdateGraph
  <2>1. /\ step["db_writer"] = "graph" /\ step'["db_writer"] = "reputation"
        /\ graph' = graph \cup Graphed({Rec})
        /\ UNCHANGED <<rawEvidence, telegramMessages, opensearch>>
    BY <1>0, <1>7 DEF UpdateGraph, Advance, stores
  <2>2. QED
    BY <1>1, <1>2, <2>1
<1>8. CASE ProcessDiscoveredCandidate
  <2>1. /\ UNCHANGED <<step, rawEvidence, telegramMessages, opensearch, graph>>
        /\ step["db_writer"] = "idle"
    BY <1>8 DEF ProcessDiscoveredCandidate, stores
  <2>2. QED
    BY <1>1, <2>1
<1>9. CASE /\ UNCHANGED dbVars
           /\ \/ UNCHANGED <<hand["db_writer"], step["db_writer"]>>
              \/ step["db_writer"] = "idle" /\ step'["db_writer"] = "taken"
  <2>1. UNCHANGED <<rawEvidence, telegramMessages, opensearch, graph>>
    BY <1>9 DEF dbVars
  <2>2. Pending({"index"})' = Pending({"index"})
        /\ Pending({"index", "graph"})' = Pending({"index", "graph"})
    BY <1>9
  <2>3. QED
    BY <1>1, <2>1, <2>2
<1>10. QED
  BY <1>3, <1>4, <1>5, <1>6, <1>7, <1>8, <1>9, FaultFreeFrame DEF DbStep

(* As long as nothing fails, evidence, index and graph agree between two   *)
(* records, although each is written on its own.                           *)
THEOREM StoresStayInAgreement == Spec => []StoresAgree
<1>1. Init => TypeInv /\ StoreInv /\ AgreeInv
  BY TypeInit, StoreInit DEF Init, BrokerInit, DbInit, AgreeInv, Pending, Stored, Service
<1>2. TypeInv /\ StoreInv /\ AgreeInv /\ [Next]_vars => TypeInv' /\ StoreInv' /\ AgreeInv'
  BY TypeNext, StoreNext, AgreeNext
<1>3. AgreeInv => StoresAgree
  BY DEF AgreeInv, StoresAgree, Pending, Stored
<1>4. QED
  BY <1>1, <1>2, <1>3, PTL DEF Spec

(***************************************************************************)
(* Reputation                                                              *)
(***************************************************************************)
(* A message claims no more patterns than the gateway found in its record. *)
Honest == {m \in Message : m.pi <= PatternsOf[m.rec]}

HonestInv ==
    /\ queue \in [QueueName -> Seq(Honest)]
    /\ \A s \in Service : step[s] # "idle" => hand[s] \in Honest

LEMMA HonestInit == Init => HonestInv
<1>1. <<>> \in Seq(Honest)
  OBVIOUS
<1>2. QED
  BY <1>1 DEF Init, BrokerInit, HonestInv

LEMMA HonestPublish ==
  ASSUME HonestInv, NEW q \in QueueName, NEW m \in Honest, Publish(q, m)
  PROVE  queue' \in [QueueName -> Seq(Honest)]
BY DEF HonestInv, Publish

LEMMA HonestTake ==
  ASSUME TypeInv, HonestInv, NEW q \in QueueName, queue[q] # <<>>
  PROVE  Head(queue[q]) \in Honest /\ Tail(queue[q]) \in Seq(Honest)
<1>1. queue[q] \in Seq(Honest)
  BY DEF HonestInv
<1>2. QED
  BY <1>1

LEMMA HonestStages ==
  ASSUME TypeInv, HonestInv, SanitizerStep \/ AnalysisStep \/ AiStep
  PROVE  HonestInv'
<1>0. /\ hand \in [Service -> Message \cup {NoMessage}]
      /\ step \in [Service -> Step]
      /\ Service = {"sanitizer", "analysis", "ai_layer", "db_writer"}
      /\ QueueName = {"raw.crawl", "telegram.raw", "sanitized", "analysis.ready", "ai.output"}
  BY DEF TypeInv, TypeOK, BrokerTypeOK, Service, QueueName
<1>1. ASSUME NEW s \in Service, Finish(s)
      PROVE  \A t \in Service : step'[t] # "idle" => hand'[t] \in Honest
  BY <1>0, <1>1 DEF Finish, HonestInv
<1>2. CASE SanitizerStep
  <2> DEFINE m == hand["sanitizer"]
  <2>1. m \in Message /\ PatternsOf[m.rec] \in Nat
    BY <1>0, <1>2, InHandType, EnvelopeAssumption
    DEF SanitizerStep, ProcessRawRecord, EnvelopeAssumption
  <2>2. InjectionGateway(m) \in Honest
    BY <2>1 DEF InjectionGateway, Honest, Message
  <2>3. queue' \in [QueueName -> Seq(Honest)]
    BY <1>0, <1>2, <2>2, HonestPublish DEF SanitizerStep, ProcessRawRecord
  <2>4. QED
    BY <1>0, <1>1, <1>2, <2>3 DEF SanitizerStep, ProcessRawRecord, HonestInv
<1>3. CASE AnalysisStep /\ PublishAnalysis
  <2>1. hand["analysis"] \in Honest
    BY <1>0, <1>3 DEF PublishAnalysis, HonestInv
  <2>2. queue' \in [QueueName -> Seq(Honest)]
    BY <1>0, <1>3, <2>1, HonestPublish DEF PublishAnalysis
  <2>3. Finish("analysis") \/ Advance("analysis", "linking")
    BY <1>3 DEF PublishAnalysis
  <2>4. QED
    BY <1>0, <1>1, <2>1, <2>2, <2>3 DEF HonestInv, Advance
<1>4. CASE AnalysisStep /\ ~PublishAnalysis
  <2>1. UNCHANGED queue /\ (Finish("analysis") \/ UNCHANGED <<hand, step>>)
    BY <1>4 DEF AnalysisStep, PublishCandidate
  <2>2. QED
    BY <1>0, <1>1, <2>1 DEF HonestInv
<1>5. CASE AiStep /\ PublishClassification
  <2>1. InHand \in Honest
    BY <1>0, <1>5 DEF PublishClassification, InHand, HonestInv
  <2>2. queue' \in [QueueName -> Seq(Honest)]
    BY <1>0, <1>5, <2>1, HonestPublish DEF PublishClassification
  <2>3. QED
    BY <1>0, <1>1, <1>5, <2>2 DEF PublishClassification, HonestInv
<1>6. CASE AiStep /\ Classify
  <2>1. InHand \in Honest /\ InHand \in Message
    BY <1>0, <1>6 DEF Classify, InHand, HonestInv, Honest
  <2>2. ClassifiedEnvelope \in Honest
    <3>1. (Total >= 3) \in BOOLEAN
      OBVIOUS
    <3>2. InHand.content \subseteq Content /\ {"quotes"} \subseteq Content
      BY <2>1 DEF Message, Content
    <3>3. (IF Quarantined(InHand.rec) THEN {} ELSE InHand.content) \cup {"quotes"}
             \in SUBSET Content
      BY <3>2
    <3>4. QED
      BY <2>1, <3>1, <3>3 DEF ClassifiedEnvelope, Honest, Message
  <2>3. QED
    BY <1>0, <1>6, <2>2 DEF Classify, HonestInv
<1>7. CASE AiStep /\ ~PublishClassification /\ ~Classify
  <2>1. Finish("ai_layer") /\ UNCHANGED queue
    BY <1>7 DEF AiStep, SkipWhileDisabled, SkipDisabledSource, TripSource
  <2>2. QED
    BY <1>0, <1>1, <2>1 DEF HonestInv
<1>8. QED
  BY <1>2, <1>3, <1>4, <1>5, <1>6, <1>7

LEMMA HonestNext ==
  ASSUME TypeInv, HonestInv, [Next]_vars
  PROVE  HonestInv'
<1>0. /\ hand \in [Service -> Message \cup {NoMessage}]
      /\ step \in [Service -> Step]
      /\ Service = {"sanitizer", "analysis", "ai_layer", "db_writer"}
      /\ QueueName = {"raw.crawl", "telegram.raw", "sanitized", "analysis.ready", "ai.output"}
  BY DEF TypeInv, TypeOK, BrokerTypeOK, Service, QueueName
<1>1. ASSUME NEW s \in Service, Finish(s), UNCHANGED queue
      PROVE  HonestInv'
  BY <1>0, <1>1 DEF Finish, HonestInv
<1>2. ASSUME NEW s \in Service, NEW to \in Step, step[s] # "idle", Advance(s, to),
             UNCHANGED queue
      PROVE  HonestInv'
  BY <1>0, <1>2 DEF Advance, HonestInv
<1>3. ASSUME UNCHANGED <<queue, hand, step>>
      PROVE  HonestInv'
  BY <1>3 DEF HonestInv
<1>4. ASSUME NEW r \in Record, Collect(r)
      PROVE  HonestInv'
  <2>1. RawRecord(r) \in Honest
    BY EnvelopeAssumption DEF RawRecord, Honest, Message, Content, EnvelopeAssumption
  <2>2. queue' \in [QueueName -> Seq(Honest)]
    BY <1>0, <1>4, <2>1, HonestPublish DEF Collect
  <2>3. QED
    BY <1>4, <2>2 DEF Collect, HonestInv
<1>5. ASSUME NEW s \in Service, Consume(s)
      PROVE  HonestInv'
  <2> PICK q \in QueueName : Take(s, q)
    BY <1>5, SubscribedType DEF Consume
  <2>1. Head(queue[q]) \in Honest /\ Tail(queue[q]) \in Seq(Honest)
    BY HonestTake DEF Take
  <2>2. QED
    BY <1>0, <2>1 DEF Take, HonestInv
<1>6. CASE SanitizerStep \/ AnalysisStep \/ AiStep
  BY <1>6, HonestStages
<1>7. CASE DbStep
  <2>1. /\ UNCHANGED queue
        /\ \/ Finish("db_writer")
           \/ UNCHANGED <<hand, step>>
           \/ step["db_writer"] # "idle" /\ \E to \in Step : Advance("db_writer", to)
    BY <1>7 DEF DbStep, DropUnstoredSource, QuarantineAndEscalate, WriteToPostgres,
       SkipDuplicate, IndexToOpensearch, WriteTelegramMessage, UpdateGraph,
       UpdateSourceReputation, ProcessDiscoveredCandidate, Storable, Step
  <2>2. QED
    BY <1>0, <1>1, <1>2, <1>3, <2>1
<1>8. ASSUME NEW c \in Command, Operate(c) \/ SettingNotStored(c)
      PROVE  HonestInv'
  BY <1>3, <1>8 DEF Operate, SettingNotStored, OperatorCommand, brokerVars
<1>9. ASSUME NEW s \in Service, HandlerRaises(s)
      PROVE  HonestInv'
  BY <1>1, <1>9 DEF HandlerRaises, CallbackRaises
<1>10. CASE Redelivery
  <2>1. Head(queue["ai.output"]) \in Honest
    BY <1>0, <1>10, HonestTake DEF Redelivery, TakeUnacknowledged
  <2>2. QED
    BY <1>0, <1>10, <2>1 DEF Redelivery, TakeUnacknowledged, HonestInv
<1>11. CASE BrokerFails
  <2>1. <<>> \in Seq(Honest)
    OBVIOUS
  <2>2. QED
    BY <1>11, <2>1 DEF BrokerFails, BrokerRestart, HonestInv
<1>12. CASE AiFails
  BY <1>0, <1>1, <1>12 DEF AiFails, AiRestart
<1>13. CASE DbFails
  <2>1. /\ UNCHANGED queue
        /\ \/ Finish("db_writer")
           \/ UNCHANGED <<hand, step>>
           \/ step["db_writer"] # "idle" /\ \E to \in Step : Advance("db_writer", to)
    BY <1>13 DEF DbFails, StoreErrorSwallowed, CandidateLost, DbWriterStops, Step
  <2>2. QED
    BY <1>0, <1>1, <1>2, <1>3, <2>1
<1>14. CASE UNCHANGED vars
  BY <1>3, <1>14 DEF vars, brokerVars
<1>15. QED
  BY <1>4, <1>5, <1>6, <1>7, <1>8, <1>9, <1>10, <1>11, <1>12, <1>13, <1>14
  DEF Next, FaultStep

(* The patterns of a source's stored evidence.                             *)
StoredOf(s) == {r \in Stored : SourceOf[r] = s}

(* What the record in db_writer's hands may still add to its source.       *)
Owed(s) ==
    IF step["db_writer"] \in {"index", "graph", "reputation"} /\ SourceOf[Rec] = s
    THEN Row.pi ELSE 0

ReputationInv ==
    /\ IsFiniteSet(Stored)
    /\ \A s \in Source : poisoning[s] + Owed(s) <= SumOver(PatternsOf, StoredOf(s))

LEMMA ReputationInit == Init => ReputationInv
<1> SUFFICES ASSUME Init PROVE ReputationInv
  OBVIOUS
<1>1. Stored = {} /\ poisoning = [s \in Source |-> 0] /\ step["db_writer"] = "idle"
  BY DEF Init, DbInit, BrokerInit, Stored, Service
<1>2. ASSUME NEW s \in Source
      PROVE  poisoning[s] + Owed(s) <= SumOver(PatternsOf, StoredOf(s))
  <2>1. StoredOf(s) = {}
    BY <1>1 DEF StoredOf
  <2>2. SumOver(PatternsOf, {}) \in Nat
    BY FS_EmptySet, SumType
  <2>3. QED
    BY <1>1, <2>1, <2>2 DEF Owed
<1>3. QED
  BY <1>1, <1>2, FS_EmptySet DEF ReputationInv

LEMMA ReputationNext ==
  ASSUME TypeInv, StoreInv, HonestInv, ReputationInv, [Next]_vars
  PROVE  ReputationInv'
<1>0. /\ hand \in [Service -> Message \cup {NoMessage}]
      /\ step \in [Service -> Step]
      /\ "db_writer" \in Service
      /\ poisoning \in [Source -> Nat]
      /\ PatternsOf \in [Record -> Nat]
      /\ Stored \subseteq Record
      /\ IsFiniteSet(Stored)
  BY EnvelopeAssumption
  DEF TypeInv, TypeOK, BrokerTypeOK, DbTypeOK, Service, EnvelopeAssumption, Stored,
      ReputationInv
<1>1. ASSUME NEW s \in Source
      PROVE  SumOver(PatternsOf, StoredOf(s)) \in Nat /\ IsFiniteSet(StoredOf(s))
  <2>1. IsFiniteSet(StoredOf(s)) /\ \A r \in StoredOf(s) : PatternsOf[r] \in Nat
    BY <1>0, FS_Subset DEF StoredOf
  <2>2. QED
    BY <2>1, SumType
<1>2. ASSUME step["db_writer"] # "idle"
      PROVE  Rec \in Record /\ Row.pi \in Nat /\ Row.pi <= PatternsOf[Rec]
  BY <1>0, <1>2 DEF HonestInv, Honest, Message, Rec, Row
<1>3. \A s \in Source : Owed(s) \in Nat
  BY <1>2 DEF Owed
<1>4. ASSUME UNCHANGED <<Stored, poisoning>>, \A s \in Source : Owed(s)' \in {0, Owed(s)}
      PROVE  ReputationInv'
  <2>1. ASSUME NEW s \in Source
        PROVE  poisoning'[s] + Owed(s)' <= SumOver(PatternsOf, StoredOf(s)')
    <3>1. StoredOf(s)' = StoredOf(s)
      BY <1>4 DEF StoredOf
    <3>2. poisoning[s] + Owed(s) <= SumOver(PatternsOf, StoredOf(s))
      BY DEF ReputationInv
    <3>3. QED
      BY <1>0, <1>1, <1>3, <1>4, <3>1, <3>2
  <2>2. QED
    BY <1>0, <1>4, <2>1 DEF ReputationInv
<1>5. CASE WriteToPostgres \/ WriteTelegramMessage
  <2>1. /\ step["db_writer"] = "taken"
        /\ step'["db_writer"] \in {"index", "graph"}
        /\ UNCHANGED <<hand, poisoning>>
        /\ Stored' = Stored \cup {Rec}
    BY <1>0, <1>5 DEF WriteToPostgres, WriteTelegramMessage, Storable, Advance, Stored,
       reputation
  <2>2. Rec \notin Stored
    BY <1>5 DEF WriteToPostgres, WriteTelegramMessage, Storable, StoredPage, StoredMessage,
       StoreInv, Stored
  <2>3. Rec \in Record /\ Row.pi \in Nat /\ Row.pi <= PatternsOf[Rec] /\ PatternsOf[Rec] \in Nat
    BY <1>0, <1>2, <2>1
  <2>4. ASSUME NEW s \in Source
        PROVE  poisoning'[s] + Owed(s)' <= SumOver(PatternsOf, StoredOf(s)')
    <3>1. /\ poisoning[s] + Owed(s) <= SumOver(PatternsOf, StoredOf(s))
          /\ Owed(s) = 0
          /\ poisoning'[s] = poisoning[s]
      BY <2>1 DEF ReputationInv, Owed
    <3>2. CASE SourceOf[Rec] = s
      <4>1. StoredOf(s)' = StoredOf(s) \cup {Rec} /\ Rec \notin StoredOf(s)
        BY <2>1, <2>2, <3>2 DEF StoredOf
      <4>2. \A r \in StoredOf(s) : PatternsOf[r] \in Nat
        BY <1>0 DEF StoredOf
      <4>3. SumOver(PatternsOf, StoredOf(s) \cup {Rec})
              = PatternsOf[Rec] + SumOver(PatternsOf, StoredOf(s))
        BY <1>1, <2>3, <4>1, <4>2, SumAdd
      <4>4. Owed(s)' = Row.pi
        BY <2>1, <3>2 DEF Owed, Rec, Row
      <4>5. QED
        BY <1>0, <1>1, <2>3, <3>1, <4>1, <4>3, <4>4
    <3>3. CASE SourceOf[Rec] # s
      <4>1. StoredOf(s)' = StoredOf(s)
        BY <2>1, <3>3 DEF StoredOf
      <4>2. Owed(s)' = 0
        BY <2>1, <3>3 DEF Owed, Rec, Row
      <4>3. QED
        BY <3>1, <4>1, <4>2
    <3>4. QED
      BY <3>2, <3>3
  <2>5. IsFiniteSet(Stored')
    BY <1>0, <2>1, FS_AddElement
  <2>6. QED
    BY <2>4, <2>5 DEF ReputationInv
<1>6. CASE UpdateSourceReputation
  <2>1. /\ step["db_writer"] = "reputation"
        /\ step'["db_writer"] = "idle"
        /\ poisoning' = [poisoning EXCEPT ![SourceOf[Rec]] = poisoning[SourceOf[Rec]] + Row.pi]
        /\ UNCHANGED Stored
    BY <1>0, <1>6 DEF UpdateSourceReputation, Finish, stores, Stored
  <2>2. ASSUME NEW s \in Source
        PROVE  poisoning'[s] + Owed(s)' <= SumOver(PatternsOf, StoredOf(s)')
    <3>1. /\ poisoning[s] + Owed(s) <= SumOver(PatternsOf, StoredOf(s))
          /\ Owed(s)' = 0
          /\ StoredOf(s)' = StoredOf(s)
      BY <2>1 DEF ReputationInv, Owed, StoredOf
    <3>2. poisoning'[s] = poisoning[s] + Owed(s)
      BY <1>0, <2>1 DEF Owed
    <3>3. poisoning'[s] \in Nat
      BY <1>0, <1>3, <3>2
    <3>4. QED
      BY <3>1, <3>2, <3>3
  <2>3. QED
    BY <1>0, <2>1, <2>2 DEF ReputationInv
<1>7. CASE \/ DropUnstoredSource
           \/ QuarantineAndEscalate
           \/ SkipDuplicate
  <2>1. step'["db_writer"] = "idle" /\ UNCHANGED <<Stored, poisoning>>
    BY <1>0, <1>7 DEF DropUnstoredSource, QuarantineAndEscalate, SkipDuplicate, Finish,
       stores, reputation, dbVars, Stored
  <2>2. QED
    BY <1>4, <2>1 DEF Owed
<1>8. CASE IndexToOpensearch \/ UpdateGraph
  <2>1. /\ step["db_writer"] \in {"index", "graph"}
        /\ step'["db_writer"] \in {"graph", "reputation"}
        /\ UNCHANGED <<hand, Stored, poisoning>>
    BY <1>0, <1>8 DEF IndexToOpensearch, UpdateGraph, Advance, stores, reputation, Stored
  <2>2. QED
    BY <1>4, <2>1 DEF Owed, Rec, Row
<1>9. CASE ProcessDiscoveredCandidate
  BY <1>4, <1>9 DEF ProcessDiscoveredCandidate, stores, reputation, Stored, Owed, Rec, Row
<1>10. CASE StoreErrorSwallowed
  <2>1. /\ UNCHANGED <<Stored, poisoning>>
        /\ \/ step'["db_writer"] = "idle"
           \/ /\ step["db_writer"] \in {"index", "graph"}
              /\ step'["db_writer"] \in {"graph", "reputation"}
              /\ UNCHANGED hand
    BY <1>0, <1>10 DEF StoreErrorSwallowed, Advance, Finish, dbVars, Stored
  <2>2. QED
    BY <1>4, <2>1 DEF Owed, Rec, Row
<1>11. CASE /\ UNCHANGED dbVars
            /\ \/ UNCHANGED <<hand["db_writer"], step["db_writer"]>>
               \/ step'["db_writer"] \in {"idle", "taken"}
  BY <1>4, <1>11 DEF dbVars, Stored, Owed, Rec, Row
<1>12. QED
  BY <1>5, <1>6, <1>7, <1>8, <1>9, <1>10, <1>11, DbFrame DEF DbStep

(* No duplicate, redelivery or crash scores a page twice: a source's       *)
(* poisoning count never exceeds the patterns of its stored evidence.      *)
THEOREM ReputationHolds == Spec => []ReputationBacked
<1> DEFINE IInv == TypeInv /\ StoreInv /\ HonestInv /\ ReputationInv
<1>1. Init => IInv
  BY TypeInit, StoreInit, HonestInit, ReputationInit
<1>2. IInv /\ [Next]_vars => IInv'
  BY TypeNext, StoreNext, HonestNext, ReputationNext
<1>3. IInv => ReputationBacked
  <2> SUFFICES ASSUME IInv, NEW s \in Source
               PROVE  poisoning[s] <= SumOver(PatternsOf, StoredOf(s))
    BY DEF ReputationBacked, SumOver, StoredOf
  <2>1. /\ IsFiniteSet(StoredOf(s))
        /\ \A r \in StoredOf(s) : PatternsOf[r] \in Nat
    BY FS_Subset, EnvelopeAssumption
    DEF ReputationInv, StoredOf, Stored, TypeInv, TypeOK, DbTypeOK, EnvelopeAssumption
  <2>2. SumOver(PatternsOf, StoredOf(s)) \in Nat
    BY <2>1, SumType
  <2>3. poisoning[s] \in Nat /\ Owed(s) \in Nat
    BY DEF TypeInv, TypeOK, DbTypeOK, Owed, Row, HonestInv, Honest, Message, Service
  <2>4. poisoning[s] + Owed(s) <= SumOver(PatternsOf, StoredOf(s))
    BY DEF ReputationInv
  <2>5. QED
    BY <2>2, <2>3, <2>4
<1>4. QED
  BY <1>1, <1>2, <1>3, PTL DEF Spec
===============================================================================
