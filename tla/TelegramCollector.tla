--------------------------- MODULE TelegramCollector ---------------------------
(***************************************************************************)
(* src/telegram_collector: the collection cycle.  One single-threaded      *)
(* process, restarted by compose, reads the new messages of every approved *)
(* group, oldest first, publishes those with text to telegram.raw, and     *)
(* moves a high-water mark per group.  The marks are saved once a cycle.   *)
(* An operator can switch collection off through a fanout exchange.        *)
(***************************************************************************)
EXTENDS Naturals, Sequences

CONSTANTS
    Group,
    MaxId,           \* bound: messages are numbered 1..MaxId
    LastId,          \* [Group -> 0..MaxId]: bound: messages posted to the group
    HasText,         \* [Group -> SUBSET Id]: messages that are not media only
    HISTORY_LIMIT,
    MaxFaults,       \* bound: crashes and errors in one behaviour
    MaxCommands      \* bound: operator commands in one behaviour

Id == 1..MaxId

ASSUME CollectorAssumption ==
    /\ MaxId \in Nat
    /\ LastId \in [Group -> 0..MaxId]
    /\ HasText \in [Group -> SUBSET Id]
    /\ HISTORY_LIMIT \in Nat \ {0}
    /\ MaxFaults \in Nat
    /\ MaxCommands \in Nat

VARIABLES
    \* the process
    pc,          \* where it is
    highwater,   \* _highwater; 0 for a group without an entry
    disabled,    \* _collection_disabled
    groupsLeft,  \* groups of this cycle still to collect
    group,       \* the group being collected
    high,        \* the largest id read so far
    fetched,     \* the last id of the history as fetched when the group was opened
    \* outside it
    file,        \* the marks in STATE_FILE; all 0 when it is empty or cut short
    latest,      \* [Group -> Nat]: the newest message of the group
    approved,    \* groups with status 'approved' and a legal basis
    control,     \* commands waiting on this process's control queue
    bound,       \* the control queue exists and is bound to the exchange
    faults,
    commands,
    \* history
    published,   \* [Group -> [Id -> Nat]]: publishes of the message that returned
    setbacks,    \* stops of the process and groups given up halfway
    command,     \* the operator's last command
    lost,        \* has it been dropped, or forgotten after it was read?
    late,        \* cycles begun since that command, if it is a disable
    missed       \* failed polls since that command

reading == <<group, high, fetched>>
order == <<command, lost>>
switch == <<disabled, control, bound, command, lost, late, missed>>
outside == <<latest, approved, commands>>
history == <<published, setbacks>>
vars == <<pc, highwater, disabled, groupsLeft, group, high, fetched, file, latest, approved,
          control, bound, faults, commands, published, setbacks, command, lost, late,
          missed>>

Command == {"disable", "enable"}

Location == {"down", "poll", "list", "groups", "reading", "saving"}

Marks == [Group -> 0..MaxId]

NoMarks == [g \in Group |-> 0]

TypeOK ==
    /\ pc \in Location
    /\ highwater \in Marks
    /\ disabled \in BOOLEAN
    /\ groupsLeft \in SUBSET Group
    /\ group \in Group
    /\ high \in 0..MaxId
    /\ fetched \in 0..MaxId
    /\ file \in Marks
    /\ latest \in Marks
    /\ approved \in SUBSET Group
    /\ control \in Seq(Command)
    /\ bound \in BOOLEAN
    /\ faults \in 0..MaxFaults
    /\ commands \in 0..MaxCommands
    /\ published \in [Group -> [Id -> Nat]]
    /\ setbacks \in Nat
    /\ command \in Command
    /\ lost \in BOOLEAN
    /\ late \in Nat
    /\ missed \in Nat

Init ==
    /\ pc = "down"
    /\ highwater = NoMarks
    /\ disabled = FALSE
    /\ groupsLeft = {}
    /\ group \in Group
    /\ high = 0
    /\ fetched = 0
    /\ file = NoMarks
    /\ latest = NoMarks
    /\ approved = {}
    /\ control = <<>>
    /\ bound = FALSE
    /\ faults = 0
    /\ commands = 0
    /\ published = [g \in Group |-> [i \in Id |-> 0]]
    /\ setbacks = 0
    /\ command = "enable"
    /\ lost = FALSE
    /\ late = 0
    /\ missed = 0

(***************************************************************************)
(* main: start and stop                                                    *)
(***************************************************************************)
(* load_state: the switch is off again, whatever the operator last said.   *)
Start ==
    /\ pc = "down"
    /\ pc' = "poll"
    /\ highwater' = file
    /\ UNCHANGED <<groupsLeft, reading, file, switch, outside, faults, history>>

(* What dies with the process.                                             *)
Stop ==
    /\ pc' = "down"
    /\ highwater' = NoMarks
    /\ disabled' = FALSE
    /\ groupsLeft' = {}
    /\ high' = 0
    /\ fetched' = 0
    /\ setbacks' = setbacks + 1
    /\ lost' = (lost \/ (disabled /\ control = <<>>))
    /\ UNCHANGED <<group, file, outside, control, bound, command, late, missed, published>>

(***************************************************************************)
(* The switch                                                              *)
(***************************************************************************)
(* What the process believes after reading the waiting commands: each of   *)
(* them sets the switch, so the last one decides.                          *)
DisabledAfterDrain ==
    IF control = <<>> THEN disabled ELSE control[Len(control)] = "disable"

(* check_kill_switch: declare and bind the queue, then drain it.           *)
CheckKillSwitch ==
    /\ pc = "poll"
    /\ pc' = "list"
    /\ disabled' = DisabledAfterDrain
    /\ control' = <<>>
    /\ bound' = TRUE
    /\ UNCHANGED <<highwater, groupsLeft, reading, file, outside, faults, history,
                   order, late, missed>>

SkipWhileDisabled ==
    /\ pc = "list"
    /\ disabled
    /\ pc' = "poll"
    /\ UNCHANGED <<highwater, groupsLeft, reading, file, switch, outside, faults, history>>

(***************************************************************************)
(* The cycle                                                               *)
(***************************************************************************)
(* bound: cycles are counted as far as the failed polls could excuse, and  *)
(* one further.                                                            *)
CountCycle ==
    late' = IF command = "disable" /\ late < MaxFaults + 2 THEN late + 1 ELSE late

(* A mistake to catch: the switch is read and not obeyed.                  *)
ListGroupsRegardless ==
    /\ pc = "list"
    /\ pc' = "groups"
    /\ groupsLeft' = approved
    /\ CountCycle
    /\ UNCHANGED <<highwater, disabled, control, bound, order, missed, reading, file, outside,
                   faults, history>>

(* load_approved_groups: the list the whole cycle works from.              *)
ListGroups ==
    /\ pc = "list"
    /\ ~disabled
    /\ pc' = "groups"
    /\ groupsLeft' = approved
    /\ CountCycle
    /\ UNCHANGED <<highwater, disabled, control, bound, order, missed, reading, file, outside,
                   faults, history>>

(* The part of the history that one cycle asks for.                        *)
Within(n, g) == n <= latest[g] /\ n <= highwater[g] + HISTORY_LIMIT

Fetch(g) ==
    fetched' = IF Within(latest[g], g) THEN latest[g] ELSE highwater[g] + HISTORY_LIMIT

(* A mistake to catch: min_id taken as the first message to read.          *)
BeginGroupInclusive(g) ==
    /\ pc = "groups"
    /\ g \in groupsLeft
    /\ pc' = "reading"
    /\ groupsLeft' = groupsLeft \ {g}
    /\ group' = g
    /\ high' = IF highwater[g] = 0 THEN 0 ELSE highwater[g] - 1
    /\ Fetch(g)
    /\ UNCHANGED <<highwater, file, switch, outside, faults, history>>

(* collect_group up to the first page of iter_messages.  The groups come   *)
(* in the order of the database.                                           *)
BeginGroup(g) ==
    /\ pc = "groups"
    /\ g \in groupsLeft
    /\ pc' = "reading"
    /\ groupsLeft' = groupsLeft \ {g}
    /\ group' = g
    /\ high' = highwater[g]
    /\ Fetch(g)
    /\ UNCHANGED <<highwater, file, switch, outside, faults, history>>

(* Mistakes to catch: the newest message is read first; a message without  *)
(* text ends the loop before the mark has moved past it.                   *)
ReadMessageNewest ==
    /\ pc = "reading"
    /\ high < fetched
    /\ high' = fetched
    /\ published' = IF fetched \in HasText[group]
                    THEN [published EXCEPT ![group][fetched] = @ + 1]
                    ELSE published
    /\ UNCHANGED <<pc, highwater, groupsLeft, group, fetched, file, switch, outside, faults,
                   setbacks>>

ReadMessageUntilMedia ==
    /\ pc = "reading"
    /\ Within(high + 1, group)
    /\ IF high + 1 \in HasText[group]
       THEN /\ high' = high + 1
            /\ published' = [published EXCEPT ![group][high + 1] = @ + 1]
            /\ UNCHANGED <<pc, highwater, fetched>>
       ELSE /\ pc' = "groups"
            /\ highwater' = [highwater EXCEPT ![group] = high]
            /\ high' = 0
            /\ fetched' = 0
            /\ UNCHANGED published
    /\ UNCHANGED <<groupsLeft, group, file, switch, outside, faults, setbacks>>

(* The next message, oldest first; one with text is published.  History is *)
(* fetched page by page, so a message posted meanwhile may be read too.    *)
ReadMessage ==
    /\ pc = "reading"
    /\ Within(high + 1, group)
    /\ high' = high + 1
    /\ published' = IF high + 1 \in HasText[group]
                    THEN [published EXCEPT ![group][high + 1] = @ + 1]
                    ELSE published
    /\ UNCHANGED <<pc, highwater, groupsLeft, group, fetched, file, switch, outside, faults,
                   setbacks>>

(* The history as fetched is read to its end, and the mark moves.          *)
EndGroup ==
    /\ pc = "reading"
    /\ high >= fetched
    /\ pc' = "groups"
    /\ highwater' = [highwater EXCEPT ![group] = high]
    /\ high' = 0
    /\ fetched' = 0
    /\ UNCHANGED <<groupsLeft, group, file, switch, outside, faults, history>>

(* save_state opens the file for writing, which empties it ...             *)
TruncateState ==
    /\ pc = "groups"
    /\ groupsLeft = {}
    /\ pc' = "saving"
    /\ file' = NoMarks
    /\ UNCHANGED <<highwater, groupsLeft, reading, switch, outside, faults, history>>

(* ... and writes every mark.                                              *)
SaveState ==
    /\ pc = "saving"
    /\ pc' = "poll"
    /\ file' = highwater
    /\ UNCHANGED <<highwater, groupsLeft, reading, switch, outside, faults, history>>

(***************************************************************************)
(* Outside the process                                                     *)
(***************************************************************************)
Post(g) ==
    /\ latest[g] < LastId[g]
    /\ latest' = [latest EXCEPT ![g] = @ + 1]
    /\ UNCHANGED <<pc, highwater, groupsLeft, reading, file, switch, approved, commands,
                   faults, history>>

(* An administrator approves the group or withdraws the approval.          *)
SetApproval(g) ==
    /\ approved' = IF g \in approved THEN approved \ {g} ELSE approved \cup {g}
    /\ UNCHANGED <<pc, highwater, groupsLeft, reading, file, switch, latest, commands,
                   faults, history>>

(* The exchange gives a command to the queues bound at that moment.        *)
OperatorCommand(c) ==
    /\ commands < MaxCommands
    /\ commands' = commands + 1
    /\ control' = IF bound THEN Append(control, c) ELSE control
    /\ command' = c
    /\ lost' = ~bound
    /\ late' = 0
    /\ missed' = 0
    /\ UNCHANGED <<pc, highwater, disabled, bound, groupsLeft, reading, file, latest, approved,
                   faults, history>>

(***************************************************************************)
(* Faults                                                                  *)
(***************************************************************************)
Fault ==
    /\ faults < MaxFaults
    /\ faults' = faults + 1

(* The process is killed, or halts because PostgreSQL does not answer.     *)
Crash ==
    /\ Fault
    /\ pc # "down"
    /\ Stop

(* check_kill_switch swallows any error: while it binds the queue, while   *)
(* it drains it (the commands read so far were acknowledged as they were   *)
(* read, and none is applied), or while it applies them one by one.        *)
PollFails ==
    /\ Fault
    /\ pc = "poll"
    /\ pc' = "list"
    /\ \/ UNCHANGED <<disabled, control, bound, lost>>
       \/ \E drained \in 0..Len(control) : \E applied \in 0..drained :
            /\ applied > 0 => drained = Len(control)
            /\ bound' = TRUE
            /\ control' = SubSeq(control, drained + 1, Len(control))
            /\ disabled' = IF applied = 0 THEN disabled ELSE control[applied] = "disable"
            /\ lost' = (lost \/ (applied < drained /\ drained = Len(control)))
    /\ missed' = missed + 1
    /\ UNCHANGED <<highwater, command, late, groupsLeft, reading, file, outside, history>>

(* get_entity fails: the group is left out of this cycle.                  *)
GroupInaccessible(g) ==
    /\ Fault
    /\ pc = "groups"
    /\ g \in groupsLeft
    /\ groupsLeft' = groupsLeft \ {g}
    /\ UNCHANGED <<pc, highwater, reading, file, switch, outside, history>>

(* Telegram or the broker fails halfway: main goes on with the next group, *)
(* and this group's mark stays where it was.                               *)
GroupError ==
    /\ Fault
    /\ pc = "reading"
    /\ pc' = "groups"
    /\ high' = 0
    /\ fetched' = 0
    /\ setbacks' = setbacks + 1
    /\ UNCHANGED <<highwater, groupsLeft, group, file, switch, outside, published>>

(* save_state swallows an OSError: the file is as it was or, once opened,  *)
(* empty.                                                                  *)
SaveFails ==
    /\ Fault
    /\ \/ pc = "groups" /\ groupsLeft = {}
       \/ pc = "saving"
    /\ pc' = "poll"
    /\ UNCHANGED <<highwater, groupsLeft, reading, file, switch, outside, history>>

(* The control queue is not durable.                                       *)
BrokerRestart ==
    /\ Fault
    /\ control' = <<>>
    /\ bound' = FALSE
    /\ lost' = (lost \/ control # <<>>)
    /\ UNCHANGED <<pc, highwater, disabled, command, late, missed, groupsLeft, reading, file, outside,
                   history>>

Work ==
    \/ Start
    \/ CheckKillSwitch
    \/ SkipWhileDisabled
    \/ ListGroups
    \/ \E g \in Group : BeginGroup(g)
    \/ ReadMessage
    \/ EndGroup
    \/ TruncateState
    \/ SaveState

Environment ==
    \/ \E g \in Group : Post(g) \/ SetApproval(g)
    \/ \E c \in Command : OperatorCommand(c)

FaultStep ==
    \/ Crash
    \/ PollFails
    \/ \E g \in Group : GroupInaccessible(g)
    \/ GroupError
    \/ SaveFails
    \/ BrokerRestart

Next == Work \/ Environment \/ FaultStep

Spec == Init /\ [][Next]_vars

(* The process is a loop that compose restarts.                            *)
FairSpec == Spec /\ WF_vars(Work)

(***************************************************************************)
(* Properties                                                              *)
(***************************************************************************)
(* At least once: a mark, in memory or on disk, never passes a message     *)
(* with text that was not published; nothing below it is read again.       *)
NothingSkipped ==
    \A g \in Group : \A i \in HasText[g] :
        i <= highwater[g] \/ i <= file[g] => published[g][i] > 0

(* No replay without a cause: a message is published once, and once more   *)
(* at most for each stop of the process and each group given up halfway.   *)
ReplayBound ==
    \A g \in Group : \A i \in Id : published[g][i] <= 1 + setbacks

(* "the high-water mark advances monotonically": a living process never    *)
(* moves a mark back, whatever fails in a cycle.                           *)
MarksMonotone ==
    [][pc # "down" /\ pc' # "down" => \A g \in Group : highwater[g] <= highwater'[g]]_vars

(* The switch: after a disable one more cycle may begin (the one whose     *)
(* poll came just before), and one more for each poll that fails, for as   *)
(* long as the disable is neither lost nor forgotten: sent while no queue  *)
(* is bound, drained by a poll that then failed, dropped with the queue by *)
(* a broker restart, or read by a process that has stopped since.  After   *)
(* each of these collection goes on until it is switched off again.        *)
SwitchStopsCycles == command = "disable" /\ ~lost => late <= missed + 1

(* A group that stays approved, with collection not switched off for good, *)
(* is caught up with again and again: neither media nor the history limit  *)
(* nor an error holds its texts back for ever.                             *)
CaughtUp ==
    \A g \in Group :
        <>[](g \in approved /\ ~DisabledAfterDrain)
            => []<>(\A i \in HasText[g] : i <= latest[g] => published[g][i] > 0)
=============================================================================
