---------------------------- MODULE CollectorProofs ----------------------------
(***************************************************************************)
(* Proofs about the collection cycle, for any groups, histories, limits    *)
(* and numbers of faults and commands.                                     *)
(***************************************************************************)
EXTENDS TelegramCollector, TLAPS

(***************************************************************************)
(* Types                                                                   *)
(***************************************************************************)
LEMMA TypeInit == Init => TypeOK
<1> SUFFICES ASSUME Init PROVE TypeOK
  OBVIOUS
<1>1. NoMarks \in Marks
  BY CollectorAssumption DEF NoMarks, Marks, CollectorAssumption
<1>2. <<>> \in Seq(Command)
  OBVIOUS
<1>3. published \in [Group -> [Id -> Nat]]
  BY DEF Init
<1>4. 0 \in 0..MaxId /\ 0 \in 0..MaxFaults /\ 0 \in 0..MaxCommands
  BY CollectorAssumption DEF CollectorAssumption
<1>5. QED
  BY <1>1, <1>2, <1>3, <1>4 DEF Init, TypeOK, Location, Command

(* Reading a message stays inside the history.                             *)
LEMMA ReadType ==
  ASSUME TypeOK, ReadMessage
  PROVE  high' \in 0..MaxId /\ published' \in [Group -> [Id -> Nat]]
<1>1. high + 1 \in Id
  BY CollectorAssumption DEF TypeOK, ReadMessage, Within, CollectorAssumption, Marks, Id
<1>2. published[group] \in [Id -> Nat] /\ published[group][high + 1] + 1 \in Nat
  BY <1>1 DEF TypeOK
<1>3. QED
  BY <1>1, <1>2 DEF TypeOK, ReadMessage, Id

LEMMA TypeWork == TypeOK /\ Work => TypeOK'
<1> SUFFICES ASSUME TypeOK, Work PROVE TypeOK'
  OBVIOUS
<1> USE CollectorAssumption DEF CollectorAssumption, TypeOK, Location, Marks,
        reading, switch, order, outside, history
<1>1. CASE Start
  BY <1>1 DEF Start
<1>2. CASE CheckKillSwitch
  <2>1. disabled' \in BOOLEAN
    BY <1>2 DEF CheckKillSwitch, DisabledAfterDrain
  <2>2. control' \in Seq(Command)
    BY <1>2 DEF CheckKillSwitch
  <2>3. QED
    BY <1>2, <2>1, <2>2 DEF CheckKillSwitch
<1>3. CASE SkipWhileDisabled
  BY <1>3 DEF SkipWhileDisabled
<1>4. CASE ListGroups
  BY <1>4 DEF ListGroups, CountCycle
<1>5. ASSUME NEW g \in Group, BeginGroup(g) PROVE TypeOK'
  <2>1. high' \in 0..MaxId
    BY <1>5 DEF BeginGroup
  <2>2. fetched' \in 0..MaxId
    BY <1>5 DEF BeginGroup, Fetch, Within
  <2>3. QED
    BY <1>5, <2>1, <2>2 DEF BeginGroup
<1>6. CASE ReadMessage
  BY <1>6, ReadType DEF ReadMessage
<1>7. CASE EndGroup
  BY <1>7 DEF EndGroup
<1>8. CASE TruncateState
  BY <1>8 DEF TruncateState, NoMarks
<1>9. CASE SaveState
  BY <1>9 DEF SaveState
<1>10. QED
  BY <1>1, <1>2, <1>3, <1>4, <1>5, <1>6, <1>7, <1>8, <1>9 DEF Work

LEMMA TypeEnvironment == TypeOK /\ Environment => TypeOK'
<1> SUFFICES ASSUME TypeOK, Environment PROVE TypeOK'
  OBVIOUS
<1> USE CollectorAssumption DEF CollectorAssumption, TypeOK, Marks,
        reading, switch, outside, history
<1>1. ASSUME NEW g \in Group, Post(g) PROVE TypeOK'
  <2>1. latest' \in Marks
    BY <1>1 DEF Post
  <2>2. QED
    BY <1>1, <2>1 DEF Post
<1>2. ASSUME NEW g \in Group, SetApproval(g) PROVE TypeOK'
  BY <1>2 DEF SetApproval
<1>3. ASSUME NEW c \in Command, OperatorCommand(c) PROVE TypeOK'
  <2>1. control' \in Seq(Command)
    BY <1>3 DEF OperatorCommand
  <2>2. commands' \in 0..MaxCommands
    BY <1>3 DEF OperatorCommand
  <2>3. QED
    BY <1>3, <2>1, <2>2 DEF OperatorCommand
<1>4. QED
  BY <1>1, <1>2, <1>3 DEF Environment

LEMMA TypeFault == TypeOK /\ FaultStep => TypeOK'
<1> SUFFICES ASSUME TypeOK, FaultStep PROVE TypeOK'
  OBVIOUS
<1>a. Fault
  BY DEF FaultStep, Crash, PollFails, GroupInaccessible, GroupError, SaveFails, BrokerRestart
<1>b. faults' \in 0..MaxFaults
  BY <1>a, CollectorAssumption DEF Fault, TypeOK, CollectorAssumption
<1> USE CollectorAssumption DEF CollectorAssumption, TypeOK, Location, Marks,
        reading, switch, outside, history
<1>1. CASE Crash
  <2>1. highwater' \in Marks
    BY <1>1 DEF Crash, Stop, NoMarks
  <2>2. high' \in 0..MaxId /\ fetched' \in 0..MaxId
    BY <1>1 DEF Crash, Stop
  <2>3. disabled' \in BOOLEAN /\ bound' \in BOOLEAN
    BY <1>1 DEF Crash, Stop
  <2>9. command' \in Command /\ lost' \in BOOLEAN
    BY <1>1 DEF Crash, Stop
  <2>4. groupsLeft' \in SUBSET Group /\ setbacks' \in Nat /\ pc' \in Location
    BY <1>1 DEF Crash, Stop
  <2>5. group' \in Group /\ file' \in Marks /\ late' \in Nat /\ missed' \in Nat
    BY <1>1 DEF Crash, Stop
  <2>6. latest' \in Marks /\ approved' \in SUBSET Group /\ control' \in Seq(Command)
    BY <1>1 DEF Crash, Stop
  <2>7. commands' \in 0..MaxCommands /\ published' \in [Group -> [Id -> Nat]]
    BY <1>1 DEF Crash, Stop
  <2>8. QED
    BY <1>b, <2>1, <2>2, <2>3, <2>4, <2>5, <2>6, <2>7, <2>9
<1>2. CASE PollFails
  <2>1. /\ control' \in Seq(Command)
        /\ bound' \in BOOLEAN
        /\ disabled' \in BOOLEAN
        /\ lost' \in BOOLEAN
    <3>1. CASE UNCHANGED <<disabled, control, bound, lost>>
      BY <3>1
    <3>2. ASSUME NEW drained \in 0..Len(control), NEW applied \in 0..drained,
                 bound' = TRUE,
                 control' = SubSeq(control, drained + 1, Len(control)),
                 disabled' = IF applied = 0 THEN disabled ELSE control[applied] = "disable",
                 lost' = (lost \/ (applied < drained /\ drained = Len(control)))
          PROVE  /\ control' \in Seq(Command)
                 /\ bound' \in BOOLEAN
                 /\ disabled' \in BOOLEAN
                 /\ lost' \in BOOLEAN
      <4>1. control \in Seq(Command) /\ Len(control) \in Nat
        BY DEF TypeOK
      <4>2. \A i \in (drained + 1)..Len(control) : control[i] \in Command
        BY <4>1
      <4>3. control' \in Seq(Command)
        BY <3>2, <4>1, <4>2
      <4>4. QED
        BY <3>2, <4>3
    <3>3. QED
      BY <1>2, <3>1, <3>2 DEF PollFails
  <2>2. missed' \in Nat
    BY <1>2 DEF PollFails
  <2>3. QED
    BY <1>b, <1>2, <2>1, <2>2 DEF PollFails
<1>3. ASSUME NEW g \in Group, GroupInaccessible(g) PROVE TypeOK'
  BY <1>b, <1>3 DEF GroupInaccessible
<1>4. CASE GroupError
  BY <1>b, <1>4 DEF GroupError
<1>5. CASE SaveFails
  BY <1>b, <1>5 DEF SaveFails
<1>6. CASE BrokerRestart
  <2>1. control' \in Seq(Command)
    BY <1>6 DEF BrokerRestart
  <2>2. QED
    BY <1>b, <1>6, <2>1 DEF BrokerRestart
<1>7. QED
  BY <1>1, <1>2, <1>3, <1>4, <1>5, <1>6 DEF FaultStep

LEMMA TypeStep == TypeOK /\ [Next]_vars => TypeOK'
<1>1. TypeOK /\ UNCHANGED vars => TypeOK'
  BY DEF TypeOK, vars
<1>2. QED
  BY <1>1, TypeWork, TypeEnvironment, TypeFault DEF Next

(* The type invariant of the collector holds in every behaviour.           *)
THEOREM TypeCorrect == Spec => []TypeOK
BY TypeInit, TypeStep, PTL DEF Spec

(***************************************************************************)
(* Marks and publishes                                                     *)
(***************************************************************************)
(* How far the group has been read in this life of the process, with the   *)
(* part of the cycle that no mark covers yet.                              *)
Read(g) == IF pc = "reading" /\ g = group THEN high ELSE highwater[g]

(* What was read was published, and so was what the file covers; what was  *)
(* not read, or was forgotten in a setback, was published no more often    *)
(* than there were setbacks.  A process that is down has read nothing.     *)
PublishedInv ==
    \A g \in Group : \A i \in HasText[g] :
        i <= Read(g) \/ i <= file[g] => published[g][i] > 0

CountedInv ==
    \A g \in Group : \A i \in Id :
        /\ published[g][i] <= 1 + setbacks
        /\ Read(g) < i => published[g][i] <= setbacks

ProcessInv ==
    /\ pc = "reading" => highwater[group] <= high
    /\ pc = "down" => highwater = NoMarks

CollectInv == TypeOK /\ ProcessInv /\ PublishedInv /\ CountedInv

LEMMA CollectInit == Init => CollectInv
<1> SUFFICES ASSUME Init PROVE CollectInv
  OBVIOUS
<1>1. \A g \in Group : \A i \in Id : published[g][i] = 0
  BY DEF Init
<1>2. \A g \in Group : Read(g) = 0 /\ file[g] = 0
  BY DEF Init, Read, NoMarks
<1>3. \A g \in Group : \A i \in HasText[g] : i \in Id /\ 0 < i
  BY CollectorAssumption DEF CollectorAssumption, Id
<1>4. QED
  BY <1>1, <1>2, <1>3, TypeInit
     DEF Init, CollectInv, ProcessInv, PublishedInv, CountedInv, Id

(* What was published stays published when nothing counts as read or as    *)
(* covered that was neither before.                                        *)
LEMMA PublishedKept ==
  ASSUME TypeOK, TypeOK', PublishedInv, published' = published,
         \A g \in Group : Read(g)' <= Read(g) \/ Read(g)' <= file[g],
         \A g \in Group : file'[g] <= Read(g) \/ file'[g] <= file[g]
  PROVE  PublishedInv'
<1> SUFFICES ASSUME NEW g \in Group, NEW i \in HasText[g],
                    i <= Read(g)' \/ i <= file'[g]
             PROVE  published'[g][i] > 0
  BY DEF PublishedInv
<1>1. i \in Nat
  BY CollectorAssumption DEF CollectorAssumption, Id
<1>2. Read(g) \in Nat /\ Read(g)' \in Nat /\ file[g] \in Nat /\ file'[g] \in Nat
  BY DEF TypeOK, Marks, Read
<1>3. i <= Read(g) \/ i <= file[g]
  BY <1>1, <1>2
<1>4. QED
  BY <1>3 DEF PublishedInv

(* The counts stay right when a group is read no less far than before ...  *)
LEMMA CountedKept ==
  ASSUME TypeOK, TypeOK', CountedInv, published' = published, setbacks' = setbacks,
         \A g \in Group : Read(g) <= Read(g)'
  PROVE  CountedInv'
<1> SUFFICES ASSUME NEW g \in Group, NEW i \in Id
             PROVE  /\ published'[g][i] <= 1 + setbacks'
                    /\ Read(g)' < i => published'[g][i] <= setbacks'
  BY DEF CountedInv
<1>1. Read(g) \in Nat /\ Read(g)' \in Nat /\ i \in Nat
  BY DEF TypeOK, Marks, Read, Id
<1>2. Read(g)' < i => Read(g) < i
  BY <1>1
<1>3. QED
  BY <1>2 DEF CountedInv

(* ... and when it is read less far, as long as the setback is counted.    *)
LEMMA CountedSetback ==
  ASSUME TypeOK, TypeOK', CountedInv, published' = published, setbacks' = setbacks + 1
  PROVE  CountedInv'
<1> SUFFICES ASSUME NEW g \in Group, NEW i \in Id
             PROVE  /\ published'[g][i] <= 1 + setbacks'
                    /\ Read(g)' < i => published'[g][i] <= setbacks'
  BY DEF CountedInv
<1>1. published[g][i] \in Nat /\ setbacks \in Nat
  BY DEF TypeOK
<1>2. published[g][i] <= 1 + setbacks
  BY DEF CountedInv
<1>3. QED
  BY <1>1, <1>2

(* The steps that neither read, publish nor save.                          *)
Elsewhere ==
    \/ CheckKillSwitch
    \/ SkipWhileDisabled
    \/ ListGroups
    \/ Environment
    \/ PollFails
    \/ \E g \in Group : GroupInaccessible(g)
    \/ SaveFails
    \/ BrokerRestart
    \/ UNCHANGED vars

LEMMA ElsewhereFrame ==
  ASSUME TypeOK, Elsewhere
  PROVE  /\ highwater' = highwater /\ high' = high /\ group' = group /\ file' = file
         /\ published' = published /\ setbacks' = setbacks
         /\ (pc' = "reading") = (pc = "reading")
         /\ (pc' = "down") = (pc = "down")
<1> USE DEF reading, outside, history, switch
<1>1. CASE CheckKillSwitch
  BY <1>1 DEF CheckKillSwitch
<1>2. CASE SkipWhileDisabled
  BY <1>2 DEF SkipWhileDisabled
<1>3. CASE ListGroups
  BY <1>3 DEF ListGroups
<1>4. CASE Environment
  BY <1>4 DEF Environment, Post, SetApproval, OperatorCommand
<1>5. CASE PollFails
  BY <1>5 DEF PollFails
<1>6. CASE \E g \in Group : GroupInaccessible(g)
  BY <1>6 DEF GroupInaccessible
<1>7. CASE SaveFails
  BY <1>7 DEF SaveFails
<1>8. CASE BrokerRestart
  BY <1>8 DEF BrokerRestart
<1>9. CASE UNCHANGED vars
  BY <1>9 DEF vars
<1>10. QED
  BY <1>1, <1>2, <1>3, <1>4, <1>5, <1>6, <1>7, <1>8, <1>9 DEF Elsewhere

LEMMA CollectStep == CollectInv /\ [Next]_vars => CollectInv'
<1> SUFFICES ASSUME CollectInv, [Next]_vars PROVE CollectInv'
  OBVIOUS
<1> USE DEF CollectInv
<1>t. TypeOK'
  BY TypeStep
<1>n. /\ high \in Nat
      /\ \A g \in Group : highwater[g] \in Nat /\ file[g] \in Nat /\ Read(g) \in Nat
  BY DEF TypeOK, Marks, Read
<1>1. CASE Elsewhere
  <2>1. ProcessInv'
    BY <1>1, ElsewhereFrame DEF ProcessInv
  <2>2. \A g \in Group : Read(g)' = Read(g) /\ file'[g] = file[g]
    BY <1>1, ElsewhereFrame DEF Read
  <2>3. published' = published /\ setbacks' = setbacks
    BY <1>1, ElsewhereFrame
  <2>4. PublishedInv' /\ CountedInv'
    BY <1>t, <1>n, <2>2, <2>3, PublishedKept, CountedKept
  <2>5. QED
    BY <1>t, <2>1, <2>4
<1>2. CASE Start
  <2>1. ProcessInv'
    BY <1>2 DEF Start, ProcessInv
  <2>2. \A g \in Group : Read(g) = 0 /\ Read(g)' = file[g] /\ file'[g] = file[g]
    BY <1>2 DEF Start, Read, ProcessInv, NoMarks
  <2>3. published' = published /\ setbacks' = setbacks
    BY <1>2 DEF Start, history
  <2>4. PublishedInv' /\ CountedInv'
    BY <1>t, <1>n, <2>2, <2>3, PublishedKept, CountedKept
  <2>5. QED
    BY <1>t, <2>1, <2>4
<1>3. ASSUME NEW t \in Group, BeginGroup(t) PROVE CollectInv'
  <2>1. ProcessInv'
    BY <1>n, <1>3 DEF BeginGroup, ProcessInv
  <2>2. \A g \in Group : Read(g)' = Read(g) /\ file'[g] = file[g]
    BY <1>3 DEF BeginGroup, Read
  <2>3. published' = published /\ setbacks' = setbacks
    BY <1>3 DEF BeginGroup, history
  <2>4. PublishedInv' /\ CountedInv'
    BY <1>t, <1>n, <2>2, <2>3, PublishedKept, CountedKept
  <2>5. QED
    BY <1>t, <2>1, <2>4
<1>4. CASE ReadMessage
  <2>1. ProcessInv'
    BY <1>n, <1>4 DEF ReadMessage, ProcessInv, TypeOK
  <2>2. /\ \A g \in Group : IF g = group THEN Read(g) = high /\ Read(g)' = high + 1
                                           ELSE Read(g)' = Read(g)
        /\ group \in Group /\ high + 1 \in Id
        /\ file' = file /\ setbacks' = setbacks
    BY <1>n, <1>4, CollectorAssumption
       DEF ReadMessage, Read, TypeOK, Within, Marks, CollectorAssumption, Id
  <2>3. /\ published' \in [Group -> [Id -> Nat]]
        /\ \A g \in Group : \A i \in Id :
              IF g = group /\ i = high + 1 /\ i \in HasText[g]
              THEN published'[g][i] = published[g][i] + 1
              ELSE published'[g][i] = published[g][i]
    BY <1>4, <2>2, ReadType DEF ReadMessage, TypeOK
  <2>4. PublishedInv'
    <3> SUFFICES ASSUME NEW g \in Group, NEW i \in HasText[g],
                        i <= Read(g)' \/ i <= file'[g]
                 PROVE  published'[g][i] > 0
      BY DEF PublishedInv
    <3>1. i \in Id /\ published[g][i] \in Nat
      BY CollectorAssumption DEF CollectorAssumption, TypeOK
    <3>2. CASE g = group /\ i = high + 1
      BY <3>1, <3>2, <2>3
    <3>3. CASE ~(g = group /\ i = high + 1)
      <4>1. i <= Read(g) \/ i <= file[g]
        BY <1>n, <2>2, <3>1, <3>3 DEF Id
      <4>2. QED
        BY <2>3, <3>1, <3>3, <4>1 DEF PublishedInv
    <3>4. QED
      BY <3>2, <3>3
  <2>5. CountedInv'
    <3> SUFFICES ASSUME NEW g \in Group, NEW i \in Id
                 PROVE  /\ published'[g][i] <= 1 + setbacks'
                        /\ Read(g)' < i => published'[g][i] <= setbacks'
      BY DEF CountedInv
    <3>1. published[g][i] \in Nat /\ setbacks \in Nat
      BY DEF TypeOK
    <3>i. i \in Nat
      BY DEF Id
    <3>2. CASE g = group /\ i = high + 1
      BY <1>n, <2>2, <2>3, <3>1, <3>i, <3>2 DEF CountedInv
    <3>3. CASE ~(g = group /\ i = high + 1)
      <4>1. Read(g)' < i => Read(g) < i
        BY <1>n, <2>2, <3>i, <3>3
      <4>2. QED
        BY <2>2, <2>3, <3>3, <4>1 DEF CountedInv
    <3>4. QED
      BY <3>2, <3>3
  <2>6. QED
    BY <1>t, <2>1, <2>4, <2>5
<1>5. CASE EndGroup
  <2>1. ProcessInv'
    BY <1>5 DEF EndGroup, ProcessInv
  <2>2. \A g \in Group : Read(g)' = Read(g) /\ file'[g] = file[g]
    BY <1>5 DEF EndGroup, Read, TypeOK, Marks
  <2>3. published' = published /\ setbacks' = setbacks
    BY <1>5 DEF EndGroup, history
  <2>4. PublishedInv' /\ CountedInv'
    BY <1>t, <1>n, <2>2, <2>3, PublishedKept, CountedKept
  <2>5. QED
    BY <1>t, <2>1, <2>4
<1>6. CASE TruncateState
  <2>1. ProcessInv'
    BY <1>6 DEF TruncateState, ProcessInv
  <2>2. \A g \in Group : Read(g)' = Read(g) /\ file'[g] = 0
    BY <1>6 DEF TruncateState, Read, NoMarks, reading
  <2>3. published' = published /\ setbacks' = setbacks
    BY <1>6 DEF TruncateState, history
  <2>4. PublishedInv' /\ CountedInv'
    BY <1>t, <1>n, <2>2, <2>3, PublishedKept, CountedKept
  <2>5. QED
    BY <1>t, <2>1, <2>4
<1>7. CASE SaveState
  <2>1. ProcessInv'
    BY <1>7 DEF SaveState, ProcessInv
  <2>2. \A g \in Group : Read(g)' = Read(g) /\ file'[g] = Read(g)
    BY <1>7 DEF SaveState, Read, reading
  <2>3. published' = published /\ setbacks' = setbacks
    BY <1>7 DEF SaveState, history
  <2>4. PublishedInv' /\ CountedInv'
    BY <1>t, <1>n, <2>2, <2>3, PublishedKept, CountedKept
  <2>5. QED
    BY <1>t, <2>1, <2>4
<1>8. CASE Crash
  <2>1. ProcessInv'
    BY <1>8 DEF Crash, Stop, ProcessInv
  <2>2. \A g \in Group : Read(g)' = 0 /\ file'[g] = file[g]
    BY <1>8 DEF Crash, Stop, Read, NoMarks
  <2>3. published' = published /\ setbacks' = setbacks + 1
    BY <1>8 DEF Crash, Stop
  <2>4. PublishedInv' /\ CountedInv'
    BY <1>t, <1>n, <2>2, <2>3, PublishedKept, CountedSetback
  <2>5. QED
    BY <1>t, <2>1, <2>4
<1>9. CASE GroupError
  <2>1. ProcessInv'
    BY <1>9 DEF GroupError, ProcessInv
  <2>2. \A g \in Group : Read(g)' <= Read(g) /\ file'[g] = file[g]
    BY <1>n, <1>9 DEF GroupError, Read, ProcessInv
  <2>3. published' = published /\ setbacks' = setbacks + 1
    BY <1>9 DEF GroupError
  <2>4. PublishedInv' /\ CountedInv'
    BY <1>t, <1>n, <2>2, <2>3, PublishedKept, CountedSetback
  <2>5. QED
    BY <1>t, <2>1, <2>4
<1>10. QED
  BY <1>1, <1>2, <1>3, <1>4, <1>5, <1>6, <1>7, <1>8, <1>9 DEF Elsewhere, Next, Work, FaultStep

LEMMA CollectHolds == Spec => []CollectInv
BY CollectInit, CollectStep, PTL DEF Spec

(* At least once: whatever fails, and however often, no mark in memory or  *)
(* on disk passes a text that was not published.                           *)
THEOREM AtLeastOnce == Spec => []NothingSkipped
<1>1. CollectInv => NothingSkipped
  <2> SUFFICES ASSUME CollectInv, NEW g \in Group, NEW i \in HasText[g],
                      i <= highwater[g] \/ i <= file[g]
               PROVE  published[g][i] > 0
    BY DEF NothingSkipped
  <2>1. i \in Nat /\ highwater[g] \in Nat /\ high \in Nat
    BY CollectorAssumption DEF CollectorAssumption, CollectInv, TypeOK, Marks, Id
  <2>2. i <= Read(g) \/ i <= file[g]
    BY <2>1 DEF CollectInv, ProcessInv, Read
  <2>3. QED
    BY <2>2 DEF CollectInv, PublishedInv
<1>2. QED
  BY <1>1, CollectHolds, PTL

(* A text is published once, and once more at most for every setback.      *)
THEOREM ReplaysExplained == Spec => []ReplayBound
<1>1. CollectInv => ReplayBound
  BY DEF CollectInv, CountedInv, ReplayBound
<1>2. QED
  BY <1>1, CollectHolds, PTL

(* A living process never moves a mark back.                               *)
THEOREM MarksAdvance == Spec => MarksMonotone
<1>1. CollectInv /\ [Next]_vars =>
        [pc # "down" /\ pc' # "down" => \A g \in Group : highwater[g] <= highwater'[g]]_vars
  <2> SUFFICES ASSUME CollectInv, Next, pc # "down", pc' # "down", NEW g \in Group
               PROVE  highwater[g] <= highwater'[g]
    OBVIOUS
  <2>1. highwater[g] \in Nat /\ high \in Nat
    BY DEF CollectInv, TypeOK, Marks
  <2>2. CASE EndGroup
    BY <2>1, <2>2 DEF EndGroup, CollectInv, ProcessInv, TypeOK, Marks
  <2>3. CASE Elsewhere
    BY <2>1, <2>3, ElsewhereFrame DEF CollectInv
  <2>4. CASE Start \/ Crash
    BY <2>4 DEF Start, Crash, Stop
  <2>5. ASSUME NEW t \in Group, BeginGroup(t) PROVE highwater[g] <= highwater'[g]
    BY <2>1, <2>5 DEF BeginGroup
  <2>6. CASE ReadMessage \/ TruncateState \/ SaveState \/ GroupError
    BY <2>1, <2>6 DEF ReadMessage, TruncateState, SaveState, GroupError
  <2>7. QED
    BY <2>2, <2>3, <2>4, <2>5, <2>6 DEF Elsewhere, Next, Work, FaultStep
<1>2. QED
  BY <1>1, CollectHolds, PTL DEF Spec, MarksMonotone

(***************************************************************************)
(* The switch                                                              *)
(***************************************************************************)
(* A cycle begins after a disable only if its poll came before it or       *)
(* failed: while the last command is not lost, a process that has drained  *)
(* what waited obeys it.                                                   *)
Disabling == command = "disable" /\ ~lost

LateInv ==
    /\ ~lost => (DisabledAfterDrain <=> command = "disable")
    /\ Disabling => late <= missed + 1
    /\ Disabling /\ pc = "list" /\ ~disabled => late <= missed

SwitchInv == TypeOK /\ LateInv

LEMMA SwitchInit == Init => SwitchInv
BY TypeInit DEF Init, SwitchInv, LateInv, Disabling, DisabledAfterDrain

(* The steps that concern the switch in no way.                            *)
SwitchFrame ==
    /\ UNCHANGED <<disabled, control, command, lost, late, missed>>
    /\ pc' = "list" => pc = "list"

LEMMA SwitchStep == SwitchInv /\ [Next]_vars => SwitchInv'
<1> SUFFICES ASSUME SwitchInv, [Next]_vars PROVE SwitchInv'
  OBVIOUS
<1>t. /\ TypeOK'
      /\ late \in Nat /\ missed \in Nat /\ MaxFaults \in Nat
      /\ control \in Seq(Command)
      /\ disabled \in BOOLEAN /\ lost \in BOOLEAN
  BY TypeStep, CollectorAssumption DEF SwitchInv, TypeOK, CollectorAssumption
<1> USE DEF SwitchInv, LateInv, Disabling
<1>1. CASE SwitchFrame
  <2>1. DisabledAfterDrain' = DisabledAfterDrain
    BY <1>1 DEF SwitchFrame, DisabledAfterDrain
  <2>2. QED
    BY <1>t, <1>1, <2>1 DEF SwitchFrame
<1>2. CASE CheckKillSwitch
  <2>1. /\ disabled' = DisabledAfterDrain
        /\ control' = <<>>
        /\ UNCHANGED <<command, lost, late, missed>>
    BY <1>2 DEF CheckKillSwitch, order
  <2>2. DisabledAfterDrain' = DisabledAfterDrain
    BY <2>1 DEF DisabledAfterDrain
  <2>3. QED
    BY <1>t, <2>1, <2>2
<1>3. CASE ListGroups
  <2>1. /\ pc = "list" /\ pc' = "groups" /\ ~disabled
        /\ UNCHANGED <<disabled, control, command, lost, missed>>
        /\ late' \in {late, late + 1}
    BY <1>3 DEF ListGroups, CountCycle, order
  <2>2. DisabledAfterDrain' = DisabledAfterDrain
    BY <2>1 DEF DisabledAfterDrain
  <2>3. QED
    BY <1>t, <2>1, <2>2
<1>4. ASSUME NEW c \in Command, OperatorCommand(c) PROVE SwitchInv'
  <2>1. /\ late' = 0 /\ missed' = 0
        /\ command' = c
        /\ lost' = ~bound
        /\ bound => control' = Append(control, c)
    BY <1>4 DEF OperatorCommand
  <2>2. bound => (DisabledAfterDrain' <=> c = "disable")
    BY <1>t, <2>1 DEF DisabledAfterDrain
  <2>3. ~lost' => (DisabledAfterDrain' <=> command' = "disable")
    BY <2>1, <2>2, Zenon
  <2>4. QED
    BY <1>t, <2>1, <2>3
<1>5. CASE Crash
  <2>1. /\ disabled' = FALSE
        /\ UNCHANGED <<control, command, late, missed>>
        /\ lost' = (lost \/ (disabled /\ control = <<>>))
        /\ pc' # "list"
    BY <1>5 DEF Crash, Stop
  <2>2. ~lost' => ~lost /\ (control # <<>> \/ ~disabled)
    BY <2>1, Zenon
  <2>3. control # <<>> \/ ~disabled => (DisabledAfterDrain' <=> DisabledAfterDrain)
    BY <1>t, <2>1 DEF DisabledAfterDrain
  <2>4. QED
    BY <1>t, <2>1, <2>2, <2>3
<1>6. CASE PollFails
  <2>1. missed' = missed + 1 /\ UNCHANGED <<command, late>>
    BY <1>6 DEF PollFails
  <2>2. CASE UNCHANGED <<disabled, control, bound, lost>>
    <3>1. DisabledAfterDrain' = DisabledAfterDrain
      BY <2>2 DEF DisabledAfterDrain
    <3>2. QED
      BY <1>t, <2>1, <2>2, <3>1
  <2>3. ASSUME NEW drained \in 0..Len(control), NEW applied \in 0..drained,
               applied > 0 => drained = Len(control),
               control' = SubSeq(control, drained + 1, Len(control)),
               disabled' = IF applied = 0 THEN disabled ELSE control[applied] = "disable",
               lost' = (lost \/ (applied < drained /\ drained = Len(control)))
        PROVE  SwitchInv'
    <3>0. Len(control) \in Nat
      BY <1>t
    <3>1. ~lost' => ~lost /\ (drained < Len(control) \/ applied = drained)
      <4>1. ~lost' => ~lost /\ ~(applied < drained /\ drained = Len(control))
        BY <2>3, Zenon
      <4>2. QED
        BY <3>0, <4>1
    <3>2. CASE drained < Len(control)
      <4>0. /\ control # <<>>
            /\ control' = SubSeq(control, drained + 1, Len(control))
            /\ \A i \in (drained + 1)..Len(control) : control[i] \in Command
        BY <1>t, <2>3, <3>0, <3>2
      <4>1. /\ control' \in Seq(Command)
            /\ Len(control') = Len(control) - drained
            /\ \A i \in 1..Len(control') : control'[i] = control[drained + i]
        BY <1>t, <3>0, <3>2, <4>0
      <4>2. control'[Len(control')] = control[Len(control)]
        BY <3>0, <3>2, <4>1
      <4>3. DisabledAfterDrain' = DisabledAfterDrain
        <5>1. control' # <<>>
          BY <3>0, <3>2, <4>1
        <5>2. QED
          BY <4>0, <4>2, <5>1, Zenon DEF DisabledAfterDrain
      <4>4. QED
        BY <1>t, <2>1, <3>1, <4>3
    <3>3. CASE drained = Len(control) /\ applied = drained
      <4>1. control' = <<>>
        BY <1>t, <2>3, <3>0, <3>3
      <4>2. DisabledAfterDrain' = DisabledAfterDrain
        BY <1>t, <2>3, <3>0, <3>3, <4>1 DEF DisabledAfterDrain
      <4>3. QED
        BY <1>t, <2>1, <3>1, <4>2
    <3>4. CASE drained = Len(control) /\ applied # drained
      BY <1>t, <2>1, <3>1, <3>4
    <3>5. QED
      BY <2>3, <3>0, <3>2, <3>3, <3>4
  <2>4. QED
    BY <1>6, <2>2, <2>3 DEF PollFails
<1>7. CASE BrokerRestart
  <2>1. /\ control' = <<>>
        /\ UNCHANGED <<pc, disabled, command, late, missed>>
        /\ lost' = (lost \/ control # <<>>)
    BY <1>7 DEF BrokerRestart
  <2>2. control = <<>> => DisabledAfterDrain' = DisabledAfterDrain
    BY <2>1 DEF DisabledAfterDrain
  <2>3. ~lost' => ~lost /\ control = <<>>
    BY <2>1, Zenon
  <2>4. QED
    BY <1>t, <2>1, <2>2, <2>3
<1>8. QED
  <2> USE DEF SwitchFrame, switch
  <2>1. CASE Start \/ SkipWhileDisabled \/ ReadMessage \/ EndGroup \/ TruncateState \/ SaveState
    BY <1>1, <2>1 DEF Start, SkipWhileDisabled, ReadMessage, EndGroup, TruncateState, SaveState
  <2>2. ASSUME NEW g \in Group, BeginGroup(g) \/ Post(g) \/ SetApproval(g) \/ GroupInaccessible(g)
        PROVE  SwitchInv'
    BY <1>1, <2>2 DEF BeginGroup, Post, SetApproval, GroupInaccessible
  <2>3. CASE GroupError \/ SaveFails \/ UNCHANGED vars
    BY <1>1, <2>3 DEF GroupError, SaveFails, vars
  <2>4. QED
    BY <1>2, <1>3, <1>4, <1>5, <1>6, <1>7, <2>1, <2>2, <2>3
       DEF Next, Work, Environment, FaultStep

(* Unless a disable is lost or forgotten, which "lost" records where it    *)
(* happens, one more cycle may begin after it, and one more for each       *)
(* failed poll, in whatever order commands, crashes, restarts of the       *)
(* broker and polls come.                                                  *)
THEOREM SwitchHolds == Spec => []SwitchStopsCycles
<1>1. SwitchInv => SwitchStopsCycles
  BY DEF SwitchInv, LateInv, Disabling, SwitchStopsCycles
<1>2. QED
  BY <1>1, SwitchInit, SwitchStep, PTL DEF Spec
=============================================================================
