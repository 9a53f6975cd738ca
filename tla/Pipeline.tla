------------------------------ MODULE Pipeline ------------------------------
(***************************************************************************)
(* The processing pipeline: collectors -> sanitizer -> analysis ->         *)
(* ai_layer -> db_writer, composed over one broker, with the operator's    *)
(* kill switch and a budget of faults.                                     *)
(***************************************************************************)
EXTENDS Sanitizer, Analysis, AiLayer, DbWriter

CONSTANTS
    MaxFaults,    \* bound: faults in one behaviour
    MaxCommands   \* bound: kill switch commands in one behaviour

ASSUME BoundsAssumption == MaxFaults \in Nat /\ MaxCommands \in Nat

VARIABLES
    collected,    \* records a collector has published
    faults,       \* faults so far
    commands      \* kill switch commands so far

bounds == <<faults, commands>>

vars == <<brokerVars, analysisVars, aiVars, dbVars, collected, bounds>>

Init ==
    /\ BrokerInit
    /\ AnalysisInit
    /\ AiInit
    /\ DbInit
    /\ collected = {}
    /\ faults = 0
    /\ commands = 0

(***************************************************************************)
(* Steps                                                                   *)
(***************************************************************************)
(* A collector publishes a record, once: the record_id is fresh.           *)
Collect(r) ==
    /\ r \notin collected
    /\ collected' = collected \cup {r}
    /\ Publish(IF PlatformOf[r] = "web" THEN "raw.crawl" ELSE "telegram.raw", RawRecord(r))
    /\ UNCHANGED <<discovery, hand, step, analysisVars, aiVars, dbVars, bounds>>

Consume(s) ==
    /\ \E q \in Subscribed(s) : Take(s, q)
    /\ UNCHANGED <<analysisVars, aiVars, dbVars, collected, bounds>>

SanitizerStep ==
    /\ ProcessRawRecord
    /\ UNCHANGED <<analysisVars, aiVars, dbVars, collected, bounds>>

AnalysisStep ==
    /\ PublishAnalysis \/ \E u \in Url : PublishCandidate(u)
    /\ UNCHANGED <<aiVars, dbVars, collected, bounds>>

AiStep ==
    /\ \/ SkipWhileDisabled
       \/ SkipDisabledSource
       \/ TripSource
       \/ Classify
       \/ PublishClassification
    /\ UNCHANGED <<analysisVars, dbVars, collected, bounds>>

DbStep ==
    /\ \/ DropUnstoredSource
       \/ QuarantineAndEscalate
       \/ WriteToPostgres
       \/ SkipDuplicate
       \/ IndexToOpensearch
       \/ WriteTelegramMessage
       \/ UpdateGraph
       \/ UpdateSourceReputation
       \/ ProcessDiscoveredCandidate
    /\ UNCHANGED <<analysisVars, aiVars, collected, bounds>>

Operate(c) ==
    /\ commands < MaxCommands
    /\ commands' = commands + 1
    /\ OperatorCommand(c, TRUE)
    /\ UNCHANGED <<analysisVars, dbVars, collected, faults>>

(***************************************************************************)
(* Faults                                                                  *)
(***************************************************************************)
Fault ==
    /\ faults < MaxFaults
    /\ faults' = faults + 1
    /\ UNCHANGED collected

HandlerRaises(s) ==
    /\ Fault
    /\ CallbackRaises(s)
    /\ linksLeft' = IF s = "analysis" THEN {} ELSE linksLeft
    /\ IF s = "ai_layer" /\ step[s] = "taken"
       THEN CheckControlRaises
       ELSE UNCHANGED aiVars
    /\ UNCHANGED <<dbVars, commands>>

Redelivery ==
    /\ Fault
    /\ TakeUnacknowledged
    /\ UNCHANGED <<analysisVars, aiVars, dbVars, commands>>

BrokerFails ==
    /\ Fault
    /\ BrokerRestart
    /\ ControlLost
    /\ UNCHANGED <<analysisVars, dbVars, commands>>

AiFails ==
    /\ Fault
    /\ AiRestart
    /\ UNCHANGED <<analysisVars, dbVars, commands>>

DbFails ==
    /\ Fault
    /\ StoreErrorSwallowed \/ CandidateLost \/ DbWriterStops
    /\ UNCHANGED <<analysisVars, aiVars, commands>>

SettingNotStored(c) ==
    /\ Fault
    /\ commands < MaxCommands
    /\ commands' = commands + 1
    /\ OperatorCommand(c, FALSE)
    /\ UNCHANGED <<analysisVars, dbVars>>

FaultStep ==
    \/ \E s \in Service : HandlerRaises(s)
    \/ Redelivery
    \/ BrokerFails
    \/ AiFails
    \/ DbFails
    \/ \E c \in Command : SettingNotStored(c)

Next ==
    \/ \E r \in Record : Collect(r)
    \/ \E s \in Service : Consume(s)
    \/ SanitizerStep
    \/ AnalysisStep
    \/ AiStep
    \/ DbStep
    \/ \E c \in Command : Operate(c)
    \/ FaultStep

Spec == Init /\ [][Next]_vars

(* Every stage is a loop in a process that compose restarts whenever it    *)
(* stops, so a stage that can take a step eventually takes one.  The       *)
(* collectors, the operator and the faults are under no obligation.        *)
Fairness ==
    /\ WF_vars(Consume("sanitizer") \/ SanitizerStep)
    /\ WF_vars(Consume("analysis") \/ AnalysisStep)
    /\ WF_vars(Consume("ai_layer") \/ AiStep)
    /\ WF_vars(Consume("db_writer") \/ DbStep)

FairSpec == Spec /\ Fairness

TypeOK ==
    /\ BrokerTypeOK
    /\ AnalysisTypeOK
    /\ AiTypeOK
    /\ DbTypeOK
    /\ collected \in SUBSET Record
    /\ faults \in 0..MaxFaults
    /\ commands \in 0..MaxCommands
=============================================================================
