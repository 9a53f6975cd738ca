------------------------------- MODULE AiLayer -------------------------------
(***************************************************************************)
(* src/ai_layer: the rule classifier stage with its two brakes.  The       *)
(* operator's kill switch arrives over the control.ai fanout exchange and  *)
(* is read once per message, before it is classified.  The PI-campaign     *)
(* quarantine counts injection patterns per source and stops classifying a *)
(* source at PI_CAMPAIGN_THRESHOLD.  All of that state is in memory.       *)
(***************************************************************************)
EXTENDS Broker

CONSTANT PI_CAMPAIGN_THRESHOLD

ASSUME ThresholdAssumption == PI_CAMPAIGN_THRESHOLD \in Nat \ {0}

VARIABLES
    incidents,        \* _pi_incidents_per_source
    disabledSources,  \* _disabled_sources
    aiDisabled,       \* _ai_disabled
    bound,            \* is control.ai.<hostname> declared and bound?
    pending,          \* the commands waiting on it
    setting,          \* system_settings.ai_processing_enabled, as the panel shows it
    \* history, in no line of the code
    released,         \* [Source -> Nat]: patterns in what was classified since start
    sinceCommand,     \* envelopes published since the operator's last command
    command,          \* that command
    lost              \* has it been dropped, or forgotten after it was read?

aiMemory == <<incidents, disabledSources, aiDisabled>>
control == <<bound, pending>>
order == <<command, lost>>
aiHistory == <<released, sinceCommand, command, lost>>
aiVars == <<incidents, disabledSources, aiDisabled, bound, pending, setting,
            released, sinceCommand, command, lost>>

Command == {"disable", "enable"}

AiTypeOK ==
    /\ incidents \in [Source -> Nat]
    /\ disabledSources \in SUBSET Source
    /\ aiDisabled \in BOOLEAN
    /\ bound \in BOOLEAN
    /\ pending \in Seq(Command)
    /\ setting \in Command
    /\ released \in [Source -> Nat]
    /\ sinceCommand \in Nat
    /\ command \in Command
    /\ lost \in BOOLEAN

AiInit ==
    /\ incidents = [s \in Source |-> 0]
    /\ disabledSources = {}
    /\ aiDisabled = FALSE
    /\ bound = FALSE
    /\ pending = <<>>
    /\ setting = "enable"
    /\ released = [s \in Source |-> 0]
    /\ sinceCommand = 0
    /\ command = "enable"
    /\ lost = FALSE

(***************************************************************************)
(* The kill switch                                                         *)
(***************************************************************************)
(* Draining the queue applies the commands in order, so the last one wins. *)
DisabledAfterDrain ==
    IF pending = <<>> THEN aiDisabled ELSE pending[Len(pending)] = "disable"

(* check_control_messages binds the queue on every call: before the first  *)
(* message is processed there is no queue for a command to wait on.        *)
CheckControlMessages ==
    /\ bound' = TRUE
    /\ pending' = <<>>
    /\ aiDisabled' = DisabledAfterDrain

(* check_control_messages raises: while it binds the queue, or while it    *)
(* drains it, when the commands read so far are gone because basic_get     *)
(* acknowledges as it reads, or while it applies them one by one.          *)
CheckControlRaises ==
    /\ \/ UNCHANGED <<control, aiDisabled, lost>>
       \/ \E drained \in 0..Len(pending) : \E applied \in 0..drained :
            /\ applied > 0 => drained = Len(pending)
            /\ bound' = TRUE
            /\ pending' = SubSeq(pending, drained + 1, Len(pending))
            /\ aiDisabled' = IF applied = 0 THEN aiDisabled
                             ELSE pending[applied] = "disable"
            /\ lost' = (lost \/ (applied < drained /\ drained = Len(pending)))
    /\ UNCHANGED <<incidents, disabledSources, setting, released, sinceCommand, command>>

(* /admin/ai/disable and /admin/ai/enable: broadcast first, then store the *)
(* setting.  The store may fail after the broadcast went out, and the      *)
(* broadcast reaches nobody while no queue is bound.                       *)
OperatorCommand(c, stored) ==
    /\ pending' = IF bound THEN Append(pending, c) ELSE pending
    /\ setting' = IF stored THEN c ELSE setting
    /\ sinceCommand' = 0
    /\ command' = c
    /\ lost' = ~bound
    /\ UNCHANGED <<aiMemory, bound, released, brokerVars>>

(***************************************************************************)
(* process_analysis_result                                                 *)
(***************************************************************************)
InHand == hand["ai_layer"]
HandSource == SourceOf[InHand.rec]

(* The source's running total once this message is counted.                *)
Total == incidents[HandSource] + InHand.pi

(* The stage is switched off: the message, already acknowledged, is gone.  *)
SkipWhileDisabled ==
    /\ step["ai_layer"] = "taken"
    /\ DisabledAfterDrain
    /\ CheckControlMessages
    /\ Finish("ai_layer")
    /\ UNCHANGED <<queue, discovery, incidents, disabledSources, setting, aiHistory>>

(* A tripped source is skipped before its patterns are counted.            *)
SkipDisabledSource ==
    /\ step["ai_layer"] = "taken"
    /\ ~DisabledAfterDrain
    /\ HandSource \in disabledSources
    /\ CheckControlMessages
    /\ Finish("ai_layer")
    /\ UNCHANGED <<queue, discovery, incidents, disabledSources, setting, aiHistory>>

(* The message that crosses the threshold trips its source and is skipped. *)
TripSource ==
    /\ step["ai_layer"] = "taken"
    /\ ~DisabledAfterDrain
    /\ HandSource \notin disabledSources
    /\ Total >= PI_CAMPAIGN_THRESHOLD
    /\ CheckControlMessages
    /\ incidents' = [incidents EXCEPT ![HandSource] = Total]
    /\ disabledSources' = disabledSources \cup {HandSource}
    /\ Finish("ai_layer")
    /\ UNCHANGED <<queue, discovery, setting, aiHistory>>

(* A mistake to catch: the page is stripped by db_writer's gate only.      *)
UnredactedEnvelope ==
    [rec |-> InHand.rec, pi |-> InHand.pi, degraded |-> Total >= 3,
     content |-> InHand.content \cup {"quotes"}]

(* The envelope for db_writer: flagged degraded from three patterns on.    *)
(* When the category may not be retained the page is stripped from it, and *)
(* nothing else is: the classification keeps what it quotes.               *)
ClassifiedEnvelope ==
    [rec |-> InHand.rec, pi |-> InHand.pi, degraded |-> Total >= 3,
     content |-> (IF Quarantined(InHand.rec) THEN {} ELSE InHand.content)
                    \cup {"quotes"}]

(* Mistakes to catch: the threshold is off by one, or the switch is tested *)
(* first and the commands on the control queue are read after it.          *)
ClassifyAtThreshold ==
    /\ step["ai_layer"] = "taken"
    /\ ~DisabledAfterDrain
    /\ HandSource \notin disabledSources
    /\ Total <= PI_CAMPAIGN_THRESHOLD
    /\ CheckControlMessages
    /\ incidents' = [incidents EXCEPT ![HandSource] = Total]
    /\ hand' = [hand EXCEPT !["ai_layer"] = ClassifiedEnvelope]
    /\ step' = [step EXCEPT !["ai_layer"] = "classified"]
    /\ UNCHANGED <<queue, discovery, disabledSources, setting, aiHistory>>

ClassifyBeforeDrain ==
    /\ step["ai_layer"] = "taken"
    /\ ~aiDisabled
    /\ HandSource \notin disabledSources
    /\ Total < PI_CAMPAIGN_THRESHOLD
    /\ CheckControlMessages
    /\ incidents' = [incidents EXCEPT ![HandSource] = Total]
    /\ hand' = [hand EXCEPT !["ai_layer"] = ClassifiedEnvelope]
    /\ step' = [step EXCEPT !["ai_layer"] = "classified"]
    /\ UNCHANGED <<queue, discovery, disabledSources, setting, aiHistory>>

Classify ==
    /\ step["ai_layer"] = "taken"
    /\ ~DisabledAfterDrain
    /\ HandSource \notin disabledSources
    /\ Total < PI_CAMPAIGN_THRESHOLD
    /\ CheckControlMessages
    /\ incidents' = [incidents EXCEPT ![HandSource] = Total]
    /\ hand' = [hand EXCEPT !["ai_layer"] = ClassifiedEnvelope]
    /\ step' = [step EXCEPT !["ai_layer"] = "classified"]
    /\ UNCHANGED <<queue, discovery, disabledSources, setting, aiHistory>>

PublishClassification ==
    /\ step["ai_layer"] = "classified"
    /\ Publish("ai.output", InHand)
    /\ Finish("ai_layer")
    /\ released' = [released EXCEPT ![HandSource] = @ + InHand.pi]
    /\ sinceCommand' = sinceCommand + 1
    /\ UNCHANGED <<discovery, aiMemory, control, setting, order>>

(* The process dies and compose restarts it ("restart: always"): counters, *)
(* tripped sources and the switch come back clean.  The control queue is   *)
(* only ever polled, never consumed, so auto_delete does not remove it and *)
(* the restarted container finds the commands still waiting on it.         *)
AiRestart ==
    /\ step["ai_layer"] # "idle" \/ aiDisabled \/ \E s \in Source : incidents[s] > 0
    /\ Finish("ai_layer")
    /\ incidents' = [s \in Source |-> 0]
    /\ disabledSources' = {}
    /\ aiDisabled' = FALSE
    /\ released' = [s \in Source |-> 0]
    /\ lost' = (lost \/ (aiDisabled /\ pending = <<>>))
    /\ UNCHANGED <<queue, discovery, control, setting, sinceCommand, command>>

(* The broker forgets the control queue with everything else.              *)
ControlLost ==
    /\ bound' = FALSE
    /\ pending' = <<>>
    /\ lost' = (lost \/ pending # <<>>)
    /\ UNCHANGED <<aiMemory, setting, released, sinceCommand, command>>
=============================================================================
