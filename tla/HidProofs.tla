------------------------------ MODULE HidProofs ------------------------------
(* Machine-checked, of both directions of HID.  Out: a remote that is started  *)
(* and stopped by commands follows its button (HidVoiceControl).  In: the      *)
(* fields that the parser makes of a Report Map share no bit and stay within   *)
(* the declared size of their report (HidDescriptor), and each report decodes  *)
(* to what the HID rules make of the Report Map, but for a few readings that   *)
(* are named (HidLayout).                                                      *)
EXTENDS HidVoiceControl, HidLayout, FiniteSetTheorems, TLAPS

-----------------------------------------------------------------------------
(* Host-controlled HID voice.                                                 *)

LEMMA HidTypeInit == Init => TypeOK
  BY DEF Init, TypeOK, Positions

LEMMA HidTypeStep ==
  ASSUME TypeOK, [Next]_vars
  PROVE  TypeOK'
<1> USE TaskAssumption
<1> USE DEF TypeOK, Positions, Tasks, Go, remote, flags, Runs
<1>1. CASE Press
  BY <1>1 DEF Press, MayStart
<1>2. CASE Release
  BY <1>2 DEF Release
<1>3. CASE Packet
  BY <1>3 DEF Packet
<1>4. CASE DelayOver
  BY <1>4 DEF DelayOver
<1>5. CASE WriteStart
  BY <1>5 DEF WriteStart
<1>6. CASE StartLands
  BY <1>6 DEF StartLands, WriteFails
<1>7. CASE StartDone
  BY <1>7 DEF StartDone, AfterStart
<1>8. CASE StartFailed
  BY <1>8 DEF StartFailed
<1>9. CASE UnwindStart
  BY <1>9 DEF UnwindStart
<1>10. ASSUME NEW t \in Tasks, WriteStop(t)
       PROVE  TypeOK'
  BY <1>10 DEF WriteStop
<1>11. ASSUME NEW t \in Tasks, StopLands(t)
       PROVE  TypeOK'
  BY <1>11 DEF StopLands, WriteFails
<1>12. ASSUME NEW t \in Tasks, StopDone(t)
       PROVE  TypeOK'
  BY <1>12 DEF StopDone, Cleared
<1>13. ASSUME NEW command \in {"start", "stop"}, StrayLands(command)
       PROVE  TypeOK'
  BY <1>13 DEF StrayLands
<1>14. CASE Disconnect
  BY <1>14 DEF Disconnect, CancelStart
<1>15. CASE Connect
  BY <1>15 DEF Connect
<1>16. CASE Map
  BY <1>16 DEF Map
<1>17. CASE UnloadBegins
  <2>1. Stray(Start) \in SUBSET {"start", "stop"}
    BY DEF Stray
  <2> QED
    BY <1>17, <2>1 DEF UnloadBegins, CancelStart
<1>18. CASE UnloadDone
  <2>1. \A t \in Tasks : Stray(t) \in SUBSET {"start", "stop"}
    BY DEF Stray
  <2> QED
    BY <1>18, <2>1 DEF UnloadDone
<1>19. CASE UNCHANGED vars
  BY <1>19 DEF vars
<1> QED
  BY <1>1, <1>2, <1>3, <1>4, <1>5, <1>6, <1>7, <1>8, <1>9, <1>10, <1>11, <1>12,
     <1>13, <1>14, <1>15, <1>16, <1>17, <1>18, <1>19
  DEF Next, StartTask, StopTask, Unloading

\* Every variable keeps to the values its code counterpart can take.
THEOREM HidTypeCorrect == Spec => []TypeOK
<1>1. TypeOK /\ [Next]_vars => TypeOK'
  BY HidTypeStep
<1> QED
  BY HidTypeInit, <1>1, PTL DEF Spec

\* Only the start task sleeps, starts a stream, or fails to.
NoTaskRuns == \A t \in Tasks : pc[t] = "idle"
StopPositions == {"identifyStop", "stopping", "stopped"}
StopOnly == \A t \in Tasks \ {Start} : pc[t] \in StopPositions \cup {"idle"}

\* What needs the command report has it: a press, a stream, and a task of a
\* connection.
Mapped ==
  /\ pressed \/ active => mapped
  /\ link /\ ~NoTaskRuns => mapped

\* A lost link leaves nothing of the press, and the start task is cancelled.
LinkLost ==
  ~link => /\ ~streaming /\ strays = {}
           /\ unload # "done" => ~pressed /\ ~active /\ ~mapped
           /\ pc[Start] # "idle" => cancelled

\* The unload stops for as long as its own stop command takes; a done one leaves
\* nothing behind.
UnloadKnown ==
  /\ pc[Unload] # "idle" <=> unload = "stopping"
  /\ unload = "done" => NoTaskRuns /\ ~active

\* The only task, at each of its positions.
Command(t) ==
  /\ \A u \in Tasks \ {t} : pc[u] = "idle"
  /\ pc[t] \in {"delay", "identify", "starting"} => ~active /\ ~streaming
  /\ pc[t] = "started" => ~active /\ streaming
  /\ pc[t] # "refused"
  /\ pc[t] \in {"identifyStop", "stopping"} => active /\ streaming /\ ~pressed
  /\ pc[t] = "stopped" => active /\ ~streaming /\ ~pressed

Following ==
  /\ active = streaming
  /\ ~pressed => ~streaming
  /\ pressed /\ ~seen => streaming

OneCommand ==
  unload = "loaded" /\ link =>
    /\ strays = {} /\ ~cancelled
    /\ NoTaskRuns => Following
    /\ \A t \in Tasks : pc[t] # "idle" => Command(t)

\* During and after an unload only its own stop command finds a stream to stop.
Silenced ==
  unload # "loaded" =>
    /\ "start" \notin strays
    /\ pc[Start] = "idle" \/ (pc[Start] = "delay" /\ cancelled)
    /\ streaming => pc[Unload] \in {"identifyStop", "stopping"}

Ordered == StopOnly /\ Mapped /\ LinkLost /\ UnloadKnown
Unraced == ~raced => OneCommand /\ Silenced

VoiceInv == TypeOK /\ Ordered /\ Unraced

\* Each of its parts survives every step.
LEMMA VoiceStep ==
  ASSUME VoiceInv, Next
  PROVE  Ordered' /\ Unraced'
<1> USE VoiceInv, TaskAssumption DEF VoiceInv
<1> USE DEF Tasks, Go, remote, flags, Runs, Connected, Stopping,
            TypeOK, Ordered, StopOnly, StopPositions, NoTaskRuns, Mapped, LinkLost, UnloadKnown,
            Unraced, OneCommand, Command, Following, Silenced
<1>1. CASE Press
  <2>1. Ordered'
    BY <1>1 DEF Press, MayStart, Idle
  <2>2. ~raced' => OneCommand'
    BY <1>1 DEF Press, MayStart, Idle
  <2>3. ~raced' => Silenced'
    BY <1>1 DEF Press, MayStart, Idle
  <2> QED
    BY <2>1, <2>2, <2>3
<1>2. CASE Release
  <2>1. Ordered'
    BY <1>2 DEF Release
  <2>2. ~raced' => OneCommand'
    <3> SUFFICES ASSUME ~raced, unload = "loaded", link PROVE OneCommand'
      BY <1>2 DEF Release
    <3>1. /\ OneCommand /\ pressed /\ ~pressed' /\ strays' = {} /\ ~cancelled'
          /\ UNCHANGED <<streaming, active, seen>>
      BY <1>2 DEF Release
    <3>2. CASE active
      <4>1. NoTaskRuns /\ streaming
        BY <3>1, <3>2 DEF Positions
      <4>2. PICK t \in StopTasks : pc' = [pc EXCEPT ![t] = "identifyStop"]
        BY <1>2, <3>2 DEF Release
      <4>3. pc'[t] = "identifyStop" /\ \A u \in Tasks \ {t} : pc'[u] = "idle"
        BY <4>1, <4>2
      <4> QED
        BY <1>2, <3>1, <3>2, <4>1, <4>3 DEF Release
    <3>3. CASE ~active
      <4>1. pc' = pc
        BY <1>2, <3>3 DEF Release
      <4>2. NoTaskRuns => ~streaming
        BY <3>1, <3>3
      <4> QED
        BY <1>2, <3>1, <3>3, <4>1, <4>2 DEF Release
    <3> QED
      BY <3>2, <3>3
  <2>3. ~raced' => Silenced'
    BY <1>2 DEF Release
  <2> QED
    BY <2>1, <2>2, <2>3
<1>3. CASE Packet
  <2>1. Ordered'
    BY <1>3 DEF Packet
  <2>2. ~raced' => OneCommand'
    BY <1>3 DEF Packet
  <2>3. ~raced' => Silenced'
    BY <1>3 DEF Packet
  <2> QED
    BY <2>1, <2>2, <2>3
<1>4. CASE DelayOver
  <2>1. Ordered'
    BY <1>4 DEF DelayOver, StillWanted
  <2>2. ~raced' => OneCommand'
    BY <1>4 DEF DelayOver, StillWanted
  <2>3. ~raced' => Silenced'
    BY <1>4 DEF DelayOver, StillWanted
  <2> QED
    BY <2>1, <2>2, <2>3
<1>5. CASE WriteStart
  <2>1. Ordered'
    BY <1>5 DEF WriteStart, CanWrite, MaySkip
  <2>2. ~raced' => OneCommand'
    BY <1>5 DEF WriteStart, CanWrite, MaySkip
  <2>3. ~raced' => Silenced'
    BY <1>5 DEF WriteStart, CanWrite, MaySkip
  <2> QED
    BY <2>1, <2>2, <2>3
<1>6. CASE StartLands
  <2>1. Ordered'
    BY <1>6 DEF StartLands, WriteFails
  <2>2. ~raced' => OneCommand'
    BY <1>6 DEF StartLands, WriteFails
  <2>3. ~raced' => Silenced'
    BY <1>6 DEF StartLands, WriteFails
  <2> QED
    BY <2>1, <2>2, <2>3
<1>7. CASE StartDone
  <2>1. Ordered'
    BY <1>7 DEF StartDone, AfterStart
  <2>2. ~raced' => OneCommand'
    BY <1>7 DEF StartDone, AfterStart
  <2>3. ~raced' => Silenced'
    BY <1>7 DEF StartDone, AfterStart
  <2> QED
    BY <2>1, <2>2, <2>3
<1>8. CASE StartFailed
  <2>1. Ordered'
    BY <1>8 DEF StartFailed
  <2>2. ~raced' => OneCommand'
    BY <1>8 DEF StartFailed
  <2>3. ~raced' => Silenced'
    BY <1>8 DEF StartFailed
  <2> QED
    BY <2>1, <2>2, <2>3
<1>9. CASE UnwindStart
  <2>1. Ordered'
    BY <1>9 DEF UnwindStart
  <2>2. ~raced' => OneCommand'
    BY <1>9 DEF UnwindStart
  <2>3. ~raced' => Silenced'
    BY <1>9 DEF UnwindStart
  <2> QED
    BY <2>1, <2>2, <2>3
<1>10. ASSUME NEW t \in Tasks, WriteStop(t)
       PROVE  Ordered' /\ Unraced'
  <2>1. Ordered'
    BY <1>10 DEF WriteStop, CanWrite, MaySkip
  <2>2. ~raced' => OneCommand'
    BY <1>10 DEF WriteStop, CanWrite, MaySkip
  <2>3. ~raced' => Silenced'
    BY <1>10 DEF WriteStop, CanWrite, MaySkip
  <2> QED
    BY <2>1, <2>2, <2>3
<1>11. ASSUME NEW t \in Tasks, StopLands(t)
       PROVE  Ordered' /\ Unraced'
  <2>1. Ordered'
    BY <1>11 DEF StopLands, WriteFails
  <2>2. ~raced' => OneCommand'
    BY <1>11 DEF StopLands, WriteFails
  <2>3. ~raced' => Silenced'
    BY <1>11 DEF StopLands, WriteFails
  <2> QED
    BY <2>1, <2>2, <2>3
<1>12. ASSUME NEW t \in Tasks, StopDone(t)
       PROVE  Ordered' /\ Unraced'
  <2>1. Ordered'
    BY <1>12 DEF StopDone, Cleared
  <2>2. ~raced' => OneCommand'
    BY <1>12 DEF StopDone, Cleared
  <2>3. ~raced' => Silenced'
    BY <1>12 DEF StopDone, Cleared
  <2> QED
    BY <2>1, <2>2, <2>3
<1>13. ASSUME NEW command \in {"start", "stop"}, StrayLands(command)
       PROVE  Ordered' /\ Unraced'
  <2>1. Ordered'
    BY <1>13 DEF StrayLands
  <2>2. ~raced' => OneCommand'
    BY <1>13 DEF StrayLands
  <2>3. ~raced' => Silenced'
    BY <1>13 DEF StrayLands
  <2> QED
    BY <2>1, <2>2, <2>3
<1>14. CASE Disconnect
  <2>1. Ordered'
    BY <1>14 DEF Disconnect, CancelStart
  <2>2. ~raced' => OneCommand'
    BY <1>14 DEF Disconnect, CancelStart
  <2>3. ~raced' => Silenced'
    BY <1>14 DEF Disconnect, CancelStart
  <2> QED
    BY <2>1, <2>2, <2>3
<1>15. CASE Connect
  <2>1. Ordered'
    BY <1>15 DEF Connect, Idle
  <2>2. ~raced' => OneCommand'
    BY <1>15 DEF Connect, Idle
  <2>3. ~raced' => Silenced'
    BY <1>15 DEF Connect, Idle
  <2> QED
    BY <2>1, <2>2, <2>3
<1>16. CASE Map
  <2>1. Ordered'
    BY <1>16 DEF Map
  <2>2. ~raced' => OneCommand'
    BY <1>16 DEF Map
  <2>3. ~raced' => Silenced'
    BY <1>16 DEF Map
  <2> QED
    BY <2>1, <2>2, <2>3
<1>17. CASE UnloadBegins
  <2>1. Ordered'
    BY <1>17 DEF UnloadBegins, CancelStart, UnloadStops, Stray
  <2>2. ~raced' => OneCommand'
    BY <1>17 DEF UnloadBegins, CancelStart, UnloadStops, Stray
  <2>3. ~raced' => Silenced'
    <3> SUFFICES ASSUME ~raced' PROVE Silenced'
      OBVIOUS
    <3>1. /\ ~raced /\ unload = "loaded" /\ Silenced /\ (link => OneCommand)
          /\ pc[Start] \in {"idle", "delay"} /\ cancelled' = (pc[Start] # "idle")
      BY <1>17 DEF UnloadBegins, CancelStart
    <3>2. "start" \notin strays'
      BY <1>17, <3>1 DEF UnloadBegins, Stray
    <3>3. (pc[Start] = "idle" \/ (pc[Start] = "delay" /\ cancelled))'
      BY <1>17, <3>1 DEF UnloadBegins
    <3>4. streaming => active
      BY <3>1, <1>17 DEF UnloadBegins
    <3>5. (streaming => pc[Unload] \in {"identifyStop", "stopping"})'
      BY <1>17, <3>4 DEF UnloadBegins, UnloadStops
    <3> QED
      BY <3>2, <3>3, <3>5
  <2> QED
    BY <2>1, <2>2, <2>3
<1>18. CASE UnloadDone
  <2>1. Ordered'
    BY <1>18 DEF UnloadDone, Stray
  <2>2. ~raced' => OneCommand'
    BY <1>18 DEF UnloadDone, Stray
  <2>3. ~raced' => Silenced'
    <3> SUFFICES ASSUME ~raced PROVE Silenced'
      BY <1>18 DEF UnloadDone
    <3>1. Silenced /\ unload # "loaded" /\ pc[Unload] = "idle"
      BY <1>18 DEF UnloadDone
    <3>2. \A t \in Tasks : "start" \notin Stray(t)
      BY <3>1 DEF Stray
    <3> QED
      BY <1>18, <3>1, <3>2 DEF UnloadDone
  <2> QED
    BY <2>1, <2>2, <2>3
<1> QED
  BY <1>1, <1>2, <1>3, <1>4, <1>5, <1>6, <1>7, <1>8, <1>9, <1>10, <1>11, <1>12, <1>13,
     <1>14, <1>15, <1>16, <1>17, <1>18
  DEF Next, StartTask, StopTask, Unloading

LEMMA VoiceStutter ==
  ASSUME VoiceInv, UNCHANGED vars
  PROVE  Ordered' /\ Unraced'
BY DEF vars, remote, flags, VoiceInv, Ordered, StopOnly, NoTaskRuns, Mapped,
       LinkLost,
       UnloadKnown, Unraced, OneCommand, Command, Following, Silenced

LEMMA VoiceInit ==
  ASSUME Init
  PROVE  VoiceInv
<1>1. TypeOK
  BY HidTypeInit
<1>2. Start \in Tasks /\ Unload \in Tasks
  BY DEF Tasks
<1> QED
  BY <1>1, <1>2, TaskAssumption
  DEF Init, Tasks, VoiceInv, Ordered, StopOnly, NoTaskRuns, Mapped,
      LinkLost, UnloadKnown,
      Unraced, OneCommand, Command, Following, Silenced

\* When nothing is under way, the flag says what the remote does and the remote does
\* what the button says, in whatever order the tasks of a press, of releases, of a link
\* loss and of an unload ran, except those `raced` records.
THEOREM VoiceFollowsButton == Spec => []RemoteFollowsButton
<1>1. VoiceInv => RemoteFollowsButton
  <2> SUFFICES ASSUME VoiceInv, Settled
               PROVE  RemoteFollowsButton
    BY DEF RemoteFollowsButton
  <2>1. NoTaskRuns /\ OneCommand /\ Silenced
    BY DEF VoiceInv, Unraced, Settled, Idle, NoTaskRuns
  <2>2. pc[Unload] = "idle"
    BY <2>1 DEF NoTaskRuns, Tasks
  <2> QED
    BY <2>1, <2>2 DEF VoiceInv, RemoteFollowsButton, TypeOK, Ordered, LinkLost,
       OneCommand,
       Following, Silenced
<1>2. Init => VoiceInv
  BY VoiceInit
<1>3. VoiceInv /\ [Next]_vars => VoiceInv'
  BY HidTypeStep, VoiceStep, VoiceStutter DEF VoiceInv
<1> QED
  BY <1>1, <1>2, <1>3, PTL DEF Spec

-----------------------------------------------------------------------------
(* The parser.                                                                *)

\* What a parser at an item knows of it.
LEMMA ItemType ==
  ASSUME ParserTypeOK, NEW T, Reads(T)
  PROVE  /\ Item \in Items /\ Item.tag \in T
         /\ Item.tag = "id" => Item.value \in Ids
         /\ report_map' = report_map /\ report_map \in Descriptors
         /\ offset' \in 1 .. Len(report_map) + 1
<1>1. report_map \in Seq(Items) /\ offset \in DOMAIN report_map
  BY DescriptorAssumption DEF ParserTypeOK, Reads
<1> QED
  BY <1>1, DescriptorAssumption DEF ParserTypeOK, Reads, Item

LEMMA QualifiedType ==
  ASSUME globals \in Globals, NEW item \in Items
  PROVE  Qualified(item) \in Usages
  BY DEF Qualified, Globals, GlobalTags, Usages, Items

LEMMA FieldType ==
  ASSUME ParserTypeOK
  PROVE  Field \in Fields
  BY DEF Field, Fields, ParserTypeOK, Globals, GlobalTags, Variable

LEMMA FieldParts ==
  ASSUME NEW f \in Fields
  PROVE  /\ f.id \in Ids /\ f.offset \in Nat /\ f.size \in Nat /\ f.count \in Nat
         /\ f.offset + f.size * f.count \in Nat
<1>1. f.id \in Ids /\ f.offset \in Nat /\ f.size \in Nat /\ f.count \in Nat
  BY DEF Fields
<1> QED
  BY <1>1

\* An Input item takes room behind the fields of its report that are there.
LEMMA WidthType ==
  ASSUME globals \in Globals
  PROVE  Width \in Nat
  BY DEF Width, Globals, GlobalTags

LEMMA ParserTypeStep ==
  ASSUME ParserTypeOK, [ParserNext]_parserVars
  PROVE  ParserTypeOK'
<1> USE DEF ParserTypeOK
<1>1. CASE Global
  <2>1. globals' \in Globals
    BY <1>1, ItemType DEF Global, Globals, GlobalTags, Items
  <2> QED
    BY <1>1, <2>1, ItemType DEF Global
<1>2. CASE Push
  BY <1>2, ItemType DEF Push
<1>3. CASE Pop
  <2>1. stack[Len(stack)] \in Globals /\ SubSeq(stack, 1, Len(stack) - 1) \in Seq(Globals)
    BY <1>3 DEF Pop
  <2> QED
    BY <1>3, <2>1, ItemType DEF Pop, Restored
<1>4. CASE Local
  <2>1. Qualified(Item) \in Usages
    BY <1>4, ItemType, QualifiedType DEF Local
  <2>2. locals' \in [usages : Seq(Usages), min : Usages, max : Usages]
    <3>1. Item.tag \in {"usage", "min", "max"}
      BY <1>4, ItemType DEF Local
    <3>2. CASE Item.tag = "usage"
      <4>1. locals' = [locals EXCEPT !.usages = Append(@, Qualified(Item))]
        BY <1>4, <3>2 DEF Local
      <4>2. Append(locals.usages, Qualified(Item)) \in Seq(Usages)
        BY <2>1
      <4> QED
        BY <4>1, <4>2
    <3>3. CASE Item.tag = "min"
      BY <1>4, <2>1, <3>3 DEF Local
    <3>4. CASE Item.tag = "max"
      BY <1>4, <2>1, <3>4 DEF Local
    <3> QED
      BY <3>1, <3>2, <3>3, <3>4
  <2> QED
    BY <1>4, <2>2, ItemType DEF Local
<1>5. CASE Skip
  BY <1>5, ItemType DEF Skip
<1>6. CASE Input
  <2>1. NoLocals \in [usages : Seq(Usages), min : Usages, max : Usages]
    BY DEF NoLocals, Usages
  <2>2. bits' \in [Ids -> Nat]
    BY <1>6, WidthType DEF Input, Globals
  <2>3. fields' \in Seq(Fields)
    BY <1>6, FieldType DEF Input
  <2> QED
    BY <1>6, <2>1, <2>2, <2>3, ItemType DEF Input
<1>7. CASE OtherMain
  <2>1. NoLocals \in [usages : Seq(Usages), min : Usages, max : Usages]
    BY DEF NoLocals, Usages
  <2> QED
    BY <1>7, <2>1, ItemType DEF OtherMain
<1>8. CASE Reject
  BY <1>8, ItemType DEF Reject
<1>9. CASE Finish
  BY <1>9 DEF Finish
<1>10. CASE UNCHANGED parserVars
  BY <1>10 DEF parserVars
<1> QED
  BY <1>1, <1>2, <1>3, <1>4, <1>5, <1>6, <1>7, <1>8, <1>9, <1>10 DEF ParserNext

\* The parser keeps to its types for every set of Report Maps.
THEOREM ParserTypeCorrect == ParserSpec => []ParserTypeOK
<1>1. ParserInit => ParserTypeOK
  <2>1. NoLocals \in [usages : Seq(Usages), min : Usages, max : Usages]
    BY DEF NoLocals, Usages
  <2> QED
    BY <2>1, DescriptorAssumption DEF ParserInit, ParserTypeOK, Globals, GlobalTags
<1>2. ParserTypeOK /\ [ParserNext]_parserVars => ParserTypeOK'
  BY ParserTypeStep
<1> QED
  BY <1>1, <1>2, PTL DEF ParserSpec

\* A step other than Input touches neither the fields nor the room they take; one
\* with Input puts at most one field into the room it adds.
LEMMA FitStep ==
  ASSUME ParserTypeOK, FieldsFit, [ParserNext]_parserVars
  PROVE  FieldsFit'
<1>1. CASE Input /\ fields' = fields
  <2> DEFINE i == globals["id"]
  <2>1. Width \in Nat /\ i \in Ids /\ bits \in [Ids -> Nat]
    BY WidthType DEF ParserTypeOK, Globals
  <2>2. bits' = [bits EXCEPT ![i] = @ + Width]
    BY <1>1 DEF Input
  <2>3. ASSUME NEW n \in DOMAIN fields
        PROVE  bits[fields[n].id] <= bits'[fields[n].id]
    <3>1. fields[n].id \in Ids
      BY FieldParts DEF ParserTypeOK
    <3> QED
      BY <2>1, <2>2, <3>1
  <2>4. ASSUME NEW n \in DOMAIN fields
        PROVE  /\ fields[n].offset + fields[n].size * fields[n].count \in Nat
               /\ bits[fields[n].id] \in Nat /\ bits'[fields[n].id] \in Nat
    <3>1. fields[n] \in Fields
      BY DEF ParserTypeOK
    <3> QED
      BY <2>1, <2>2, <3>1, FieldParts
  <2> QED
    BY <1>1, <2>3, <2>4 DEF FieldsFit
<1>2. CASE Input /\ fields' = Append(fields, Field)
  <2> DEFINE i == globals["id"]
             End(f) == f.offset + f.size * f.count
             N == Len(fields)
  <2>1. /\ Width \in Nat /\ i \in Ids /\ bits \in [Ids -> Nat]
        /\ fields \in Seq(Fields) /\ N \in Nat /\ DOMAIN fields = 1 .. N
    BY WidthType DEF ParserTypeOK, Globals
  <2>2. bits' = [bits EXCEPT ![i] = @ + Width]
    BY <1>2 DEF Input
  <2>3. Field.id = i /\ Field.offset = bits[i] /\ End(Field) = bits[i] + Width
    BY DEF Field, Width
  <2>4. /\ DOMAIN fields' = 1 .. N + 1
        /\ fields'[N + 1] = Field
        /\ \A n \in 1 .. N : fields'[n] = fields[n]
    BY <1>2, <2>1, FieldType
  <2>5. \A n \in 1 .. N : fields[n] \in Fields /\ fields[n].id \in Ids /\ End(fields[n]) \in Nat
    BY <2>1, FieldParts
  <2>6. \A n \in 1 .. N : End(fields[n]) <= bits[fields[n].id]
    BY <2>1 DEF FieldsFit
  <2>7. \A m, n \in 1 .. N :
            m < n /\ fields[m].id = fields[n].id => End(fields[m]) <= fields[n].offset
    BY <2>1 DEF FieldsFit
  <2> HIDE DEF i, End, N
  <2>8. \A n \in 1 .. N : bits[fields[n].id] <= bits'[fields[n].id]
    BY <2>1, <2>2, <2>5
  <2>9. \A n \in DOMAIN fields' : End(fields'[n]) <= bits'[fields'[n].id]
    <3>1. ASSUME NEW n \in 1 .. N
          PROVE  End(fields'[n]) <= bits'[fields'[n].id]
      <4>1. /\ bits[fields[n].id] \in Nat /\ bits'[fields[n].id] \in Nat
            /\ End(fields[n]) \in Nat
        BY <2>1, <2>2, <2>5
      <4> QED
        BY <2>4, <2>6, <2>8, <4>1
    <3>2. End(fields'[N + 1]) <= bits'[fields'[N + 1].id]
      BY <2>1, <2>2, <2>3, <2>4
    <3> QED
      BY <2>1, <2>4, <3>1, <3>2
  <2>10. \A m, n \in DOMAIN fields' :
             m < n /\ fields'[m].id = fields'[n].id =>
                 End(fields'[m]) <= fields'[n].offset
    <3>1. ASSUME NEW m \in 1 .. N + 1, NEW n \in 1 .. N + 1, m < n,
                 fields'[m].id = fields'[n].id
          PROVE  End(fields'[m]) <= fields'[n].offset
      <4>1. m \in 1 .. N
        BY <2>1, <3>1
      <4>2. CASE n \in 1 .. N
        BY <2>4, <2>7, <3>1, <4>1, <4>2
      <4>3. CASE n = N + 1
        BY <2>3, <2>4, <2>6, <3>1, <4>1, <4>3
      <4> QED
        BY <2>1, <4>2, <4>3
    <3> QED
      BY <2>4, <3>1
  <2> QED
    BY <2>9, <2>10 DEF FieldsFit, End
<1>3. CASE ~Input
  <2>1. fields' = fields /\ bits' = bits
    BY <1>3 DEF ParserNext, parserVars, Global, Push, Pop, Local, Skip, OtherMain, Reject, Finish
  <2> QED
    BY <2>1 DEF FieldsFit
<1> QED
  BY <1>1, <1>2, <1>3 DEF Input

\* Whatever the Report Map, no two fields of one report overlap, and none is longer
\* than the size that the manager compares a voice report with.
THEOREM NoOverlap == ParserSpec => []FieldsFit
<1>1. ParserInit => FieldsFit
  BY DEF ParserInit, FieldsFit
<1>2. ParserTypeOK /\ FieldsFit /\ [ParserNext]_parserVars => FieldsFit'
  BY FitStep
<1> QED
  BY <1>1, <1>2, ParserTypeCorrect, PTL DEF ParserSpec

-----------------------------------------------------------------------------
(* What the parser gathers is what the items mean.                             *)

\* Nothing before item i breaks the Report Map.
SoundBefore(i) ==
  \A j \in Before(i) : Tag(j) # "cut" /\ (Tag(j) = "pop" => Depth(j) > 0)

\* What _parse_input_fields has to know in globals at item i.
GlobalsAt(i) == [t \in GlobalTags |-> GlobalAt(t, i)]

\* The globals saved in place k are those of the Push that opened level k.
SavedAt(p, k) ==
  /\ Tag(p) = "push" /\ Depth(p) = k - 1
  /\ \A q \in p + 1 .. offset : Depth(q) >= k
  /\ stack[k] = GlobalsAt(p)

Nested ==
  /\ Depth(offset) = Len(stack)
  /\ \A k \in 1 .. Len(stack) : \E p \in Before(offset) : SavedAt(p, k)

\* The usage that hid.py makes of item j, on the page that is set when it reads it.
AsRead(j) ==
  <<IF report_map[j].page = 0 THEN GlobalAt("page", j) ELSE report_map[j].page,
    report_map[j].value>>
LastRead(i, t) == AsRead(Max(Named(i, t)))

\* An end of a range that the items before i leave open has no usage.
End(i, t) == IF Named(i, t) = {} THEN NoUsage ELSE LastRead(i, t)

\* There is a last one among the local items of a kind.
HasLast(i) ==
  \A t \in {"usage", "min", "max"} : Named(i, t) # {} => Max(Named(i, t)) \in Named(i, t)

\* The list us and the range min .. max are those that the local items for i name.
Collects(us, min, max, i) ==
  /\ Len(us) = Cardinality(Named(i, "usage"))
  /\ \A k \in 1 .. Len(us) :
       \E j \in Named(i, "usage") : Rank(i, j) = k - 1 /\ us[k] = AsRead(j)
  /\ Named(i, "usage") # {} => us[Len(us)] = LastRead(i, "usage")
  /\ min = End(i, "min") /\ max = End(i, "max")
  /\ HasLast(i)

\* The field f stands for the Input item i.
Describes(f, i) ==
  /\ f.id = GlobalAt("id", i) /\ f.offset = Offset(i)
  /\ f.size = GlobalAt("size", i) /\ f.count = GlobalAt("count", i)
  /\ f.page = GlobalAt("page", i) /\ f.variable = Variable(report_map[i])
  /\ Collects(f.usages, f.min, f.max, i)

\* Every field stands for an item, and every item has its field.
Described ==
  /\ \A n \in DOMAIN fields : \E i \in Visible \cap Before(offset) : Describes(fields[n], i)
  /\ \A i \in Visible \cap Before(offset) : \E n \in DOMAIN fields : Describes(fields[n], i)

\* bit_offsets: where the next field of report d begins.
CountsBits(d) ==
  /\ IsFiniteSet(Taken(d, offset))
  /\ bits[d] = Cardinality(Taken(d, offset))

\* What the parser has gathered up to item offset is what the items before it mean.
Follows ==
  /\ SoundBefore(offset)
  /\ Nested
  /\ globals = GlobalsAt(offset)
  /\ \A d \in Ids : CountsBits(d)
  /\ Collects(locals.usages, locals.min, locals.max, offset)
  /\ Described
  /\ status = "parsed" => offset = Len(report_map) + 1

\* It gives up on a broken Report Map only, and until then what it has follows the items.
FollowInv == IF status = "rejected" THEN Broken ELSE Follows

(* The Report Map stays what it is, and with it all that is said of its items. *)
LEMMA SameMap ==
  ASSUME report_map' = report_map
  PROVE  /\ \A i : Tag(i)' = Tag(i)
         /\ \A i : Depth(i)' = Depth(i)
         /\ \A t, i : GlobalAt(t, i)' = GlobalAt(t, i)
         /\ \A t, i : Named(i, t)' = Named(i, t)
         /\ \A i : AsRead(i)' = AsRead(i)
<1>1. \A i : Tag(i)' = Tag(i)
  BY DEF Tag
<1>2. \A i : Depth(i)' = Depth(i)
  BY <1>1 DEF Depth
<1>3. \A t, i : Settings(t, i)' = Settings(t, i)
  BY <1>1, <1>2 DEF Settings, Undone
<1>4. \A t, i : GlobalAt(t, i)' = GlobalAt(t, i)
  BY <1>3 DEF GlobalAt
<1>5. \A i : LocalsOf(i)' = LocalsOf(i)
  BY <1>1 DEF LocalsOf
<1>6. \A t, i : Named(i, t)' = Named(i, t)
  BY <1>1, <1>5 DEF Named
<1>7. \A i : AsRead(i)' = AsRead(i)
  BY <1>4 DEF AsRead
<1> QED
  BY <1>1, <1>2, <1>4, <1>6, <1>7

LEMMA SameBits ==
  ASSUME report_map' = report_map
  PROVE  /\ Inputs' = Inputs /\ \A i : Room(i)' = Room(i)
         /\ \A d, i : Taken(d, i)' = Taken(d, i)
         /\ \A i : Offset(i)' = Offset(i)
<1>1. Inputs' = Inputs
  BY SameMap DEF Inputs
<1>2. \A i : Room(i)' = Room(i)
  BY SameMap DEF Room
<1>3. \A d, i : Taken(d, i)' = Taken(d, i)
  BY SameMap, <1>1, <1>2 DEF Taken
<1>4. \A i : Offset(i)' = Offset(i)
  BY SameMap, <1>3 DEF Offset
<1> QED
  BY <1>1, <1>2, <1>3, <1>4

LEMMA SameMeaning ==
  ASSUME report_map' = report_map
  PROVE  /\ Broken' = Broken /\ Visible' = Visible
         /\ \A i : SoundBefore(i)' = SoundBefore(i) /\ GlobalsAt(i)' = GlobalsAt(i)
         /\ \A us, min, max, i : Collects(us, min, max, i)' = Collects(us, min, max, i)
         /\ \A f, i : Describes(f, i)' = Describes(f, i)
<1>1. Broken' = Broken
  BY SameMap DEF Broken
<1>2. Visible' = Visible
  BY SameBits DEF Visible
<1>3. \A i : SoundBefore(i)' = SoundBefore(i)
  BY SameMap DEF SoundBefore
<1>4. \A i : GlobalsAt(i)' = GlobalsAt(i)
  BY SameMap DEF GlobalsAt
<1>5. \A t, i : LastRead(i, t)' = LastRead(i, t)
  <2>1. \A t, i : Max(Named(i, t))' = Max(Named(i, t))
    BY SameMap
  <2> QED
    BY SameMap, <2>1 DEF LastRead
<1>6. \A i, j : Rank(i, j)' = Rank(i, j)
  BY SameMap DEF Rank
<1>7. \A us, min, max, i : Collects(us, min, max, i)' = Collects(us, min, max, i)
  <2>1. \A i : HasLast(i)' = HasLast(i)
    BY SameMap DEF HasLast
  <2> QED
    BY SameMap, <1>5, <1>6, <2>1 DEF Collects, End
<1>8. \A f, i : Describes(f, i)' = Describes(f, i)
  BY SameMap, SameBits, <1>7 DEF Describes
<1> QED
  BY <1>1, <1>2, <1>3, <1>4, <1>7, <1>8

(* ------------------------------ one more item ---------------------------- *)

LEMMA MaxIs ==
  ASSUME NEW S \in SUBSET Nat, NEW m \in S, \A x \in S : x <= m
  PROVE  Max(S) = m
<1> DEFINE M == CHOOSE x \in S : \A y \in S : x >= y
<1>1. M \in S /\ \A y \in S : M >= y
  <2>1. \E x \in S : \A y \in S : x >= y
    OBVIOUS
  <2> QED
    BY <2>1
<1>2. M \in Nat /\ m \in Nat /\ M >= m /\ M <= m
  BY <1>1
<1>3. M = m
  BY <1>2
<1> QED
  BY <1>3 DEF Max

LEMMA Counted ==
  ASSUME NEW i \in Nat \ {0}, NEW x
  PROVE  LET Seen(n) == {j \in Before(n) : Tag(j) = x}
         IN /\ IsFiniteSet(Seen(i)) /\ Cardinality(Seen(i)) \in Nat
            /\ Cardinality(Seen(i + 1)) =
                 Cardinality(Seen(i)) + (IF Tag(i) = x THEN 1 ELSE 0)
<1> DEFINE Seen(n) == {j \in Before(n) : Tag(j) = x}
<1>1. IsFiniteSet(1 .. i - 1)
  BY FS_Interval
<1>2. Seen(i) \in SUBSET (1 .. i - 1)
  BY DEF Before
<1>3. IsFiniteSet(Seen(i))
  BY <1>1, <1>2, FS_Subset
<1>4. Cardinality(Seen(i)) \in Nat
  BY <1>3, FS_CardinalityType
<1>5. CASE Tag(i) = x
  <2>1. Seen(i + 1) = Seen(i) \cup {i} /\ i \notin Seen(i)
    BY <1>5 DEF Before
  <2>2. Cardinality(Seen(i) \cup {i}) = Cardinality(Seen(i)) + 1
    BY <1>3, <2>1, FS_AddElement
  <2> QED
    BY <1>3, <1>4, <1>5, <2>1, <2>2
<1>6. CASE Tag(i) # x
  <2>1. Seen(i + 1) = Seen(i)
    BY <1>6 DEF Before
  <2> QED
    BY <1>3, <1>4, <1>6, <2>1
<1> QED
  BY <1>5, <1>6

LEMMA DepthStep ==
  ASSUME NEW i \in Nat \ {0}
  PROVE  /\ Depth(i) \in Int
         /\ Tag(i) = "push" => Depth(i + 1) = Depth(i) + 1
         /\ Tag(i) = "pop" => Depth(i + 1) = Depth(i) - 1
         /\ Tag(i) \notin {"push", "pop"} => Depth(i + 1) = Depth(i)
<1> DEFINE Seen(x, n) == {j \in Before(n) : Tag(j) = x}
<1>1. \A x \in {"push", "pop"} :
        /\ Cardinality(Seen(x, i)) \in Nat
        /\ Cardinality(Seen(x, i + 1)) =
             Cardinality(Seen(x, i)) + (IF Tag(i) = x THEN 1 ELSE 0)
  BY Counted
<1>2. \A n : Depth(n) = Cardinality(Seen("push", n)) - Cardinality(Seen("pop", n))
  BY DEF Depth
<1> HIDE DEF Seen
<1> QED
  BY <1>1, <1>2

\* An item that does not go back leaves the other globals as they are,
LEMMA SettingsKept ==
  ASSUME NEW i \in Nat \ {0}, NEW t, Tag(i) # "pop", Tag(i) # t
  PROVE  Settings(t, i + 1) = Settings(t, i) /\ GlobalAt(t, i + 1) = GlobalAt(t, i)
<1>1. Depth(i) \in Int /\ Depth(i + 1) \in Int /\ Depth(i + 1) >= Depth(i)
  BY DepthStep
<1>2. ASSUME NEW j \in Before(i)
      PROVE  Undone(j, i + 1) <=> Undone(j, i)
  <2>1. j \in Nat \ {0} /\ j .. i + 1 = (j .. i) \cup {i + 1} /\ i \in j .. i
    BY DEF Before
  <2>2. Depth(j) \in Int
    BY <2>1, DepthStep
  <2>3. Depth(i + 1) < Depth(j) => Depth(i) < Depth(j)
    BY <1>1, <2>2
  <2> QED
    BY <2>1, <2>3 DEF Undone
<1>3. Settings(t, i + 1) = Settings(t, i)
  BY <1>2 DEF Settings, Before
<1> QED
  BY <1>3 DEF GlobalAt

\* one that sets a global is the last that does,
LEMMA SettingsMade ==
  ASSUME NEW i \in Nat \ {0}, Tag(i) \in GlobalTags
  PROVE  GlobalAt(Tag(i), i + 1) = report_map[i].value
<1>1. Depth(i + 1) = Depth(i) /\ Depth(i) \in Int
  BY DepthStep DEF GlobalTags
<1>2. ~Undone(i, i + 1)
  <2>1. i .. i + 1 = {i, i + 1}
    OBVIOUS
  <2> QED
    BY <1>1, <2>1 DEF Undone
<1>3. i \in Settings(Tag(i), i + 1)
  BY <1>2 DEF Settings, Before
<1>4. Settings(Tag(i), i + 1) \in SUBSET Nat /\ \A j \in Settings(Tag(i), i + 1) : j <= i
  BY DEF Settings, Before
<1>5. Max(Settings(Tag(i), i + 1)) = i
  BY <1>3, <1>4, MaxIs
<1> QED
  BY <1>3, <1>5 DEF GlobalAt

\* and a Pop goes back to the globals of the Push that opened the level.
LEMMA SettingsBack ==
  ASSUME NEW i \in Nat \ {0}, Tag(i) = "pop", NEW t \in GlobalTags,
         NEW p \in Before(i), Tag(p) = "push", Depth(p) = Depth(i) - 1,
         \A q \in p + 1 .. i : Depth(q) >= Depth(i)
  PROVE  GlobalAt(t, i + 1) = GlobalAt(t, p)
<1>1. p \in Nat \ {0} /\ p < i
  BY DEF Before
<1>2. \A q \in 1 .. i + 1 : Depth(q) \in Int
  BY DepthStep
<1>3. Depth(i + 1) = Depth(i) - 1
  BY DepthStep
<1>4. ASSUME NEW j \in Before(i + 1), Tag(j) = t
      PROVE  ~Undone(j, i + 1) <=> j \in Before(p) /\ ~Undone(j, p)
  <2>1. j \in 1 .. i /\ j # p /\ j # i
    BY <1>4 DEF Before, GlobalTags
  <2>2. CASE j > p
    <3>1. j \in p + 1 .. i /\ i + 1 \in j .. i + 1
      BY <1>1, <2>1, <2>2
    <3>2. Depth(i + 1) < Depth(j)
      BY <1>2, <1>3, <2>1, <3>1
    <3>3. Undone(j, i + 1)
      BY <3>1, <3>2 DEF Undone
    <3> QED
      BY <1>1, <2>1, <2>2, <3>3 DEF Before
  <2>3. CASE j < p
    <3>1. j \in Before(p) /\ p \in j .. p
      BY <1>1, <2>1, <2>3 DEF Before
    <3>2. ASSUME Undone(j, p) PROVE Undone(j, i + 1)
      <4>1. j .. p \subseteq j .. i + 1
        BY <1>1, <2>1
      <4> QED
        BY <3>2, <4>1 DEF Undone
    <3>3. ASSUME ~Undone(j, p) PROVE ~Undone(j, i + 1)
      <4>1. Depth(p) >= Depth(j)
        BY <1>1, <1>2, <2>1, <3>1, <3>3 DEF Undone
      <4>2. ASSUME NEW q \in j .. i + 1 PROVE ~(Depth(q) < Depth(j))
        <5>1. CASE q \in j .. p
          BY <3>3, <5>1 DEF Undone
        <5>2. CASE q \in p + 1 .. i
          BY <1>1, <1>2, <2>1, <4>1, <5>2
        <5>3. CASE q = i + 1
          BY <1>1, <1>2, <1>3, <2>1, <4>1, <5>3
        <5> QED
          BY <1>1, <2>1, <5>1, <5>2, <5>3
      <4> QED
        BY <4>2 DEF Undone
    <3> QED
      BY <3>1, <3>2, <3>3
  <2> QED
    BY <1>1, <2>1, <2>2, <2>3
<1>5. Before(p) \subseteq Before(i + 1)
  BY <1>1 DEF Before
<1>6. Settings(t, i + 1) = Settings(t, p)
  BY <1>4, <1>5 DEF Settings
<1> QED
  BY <1>6 DEF GlobalAt

\* The local items: a Main item ends them, and one more of a kind is the last of it.
LEMMA NamedStep ==
  ASSUME NEW i \in Nat \ {0}
  PROVE  /\ Tag(i) \in {"input", "main"} => \A t : Named(i + 1, t) = {}
         /\ \A t : /\ Tag(i) \notin {"input", "main"}
                   /\ Tag(i) \notin {"usage", "min", "max"} \/ t # Tag(i)
                   => Named(i + 1, t) = Named(i, t)
         /\ Tag(i) \in {"usage", "min", "max"} =>
              Named(i + 1, Tag(i)) = Named(i, Tag(i)) \cup {i}
         /\ \A t : Named(i, t) \in SUBSET Before(i) /\ IsFiniteSet(Named(i, t))
<1>1. \A t : Named(i, t) \in SUBSET Before(i)
  BY DEF Named, LocalsOf
<1>2. \A t : IsFiniteSet(Named(i, t))
  <2>1. IsFiniteSet(Before(i))
    BY FS_Interval DEF Before
  <2> QED
    BY <1>1, <2>1, FS_Subset
<1>3. CASE Tag(i) \in {"input", "main"}
  <2>1. \A j \in Before(i + 1) : i \in j .. i
    BY DEF Before
  <2>2. LocalsOf(i + 1) = {}
    BY <1>3, <2>1 DEF LocalsOf
  <2>3. \A t : Named(i + 1, t) = {}
    BY <2>2 DEF Named
  <2> QED
    BY <1>1, <1>2, <1>3, <2>3
<1>4. CASE Tag(i) \notin {"input", "main"}
  <2>1. Before(i + 1) = Before(i) \cup {i} /\ i \notin Before(i)
    BY DEF Before
  <2>2. \A j \in Before(i) : j .. i = (j .. i - 1) \cup {i}
    BY DEF Before
  <2>3. i .. i = {i} /\ i + 1 - 1 = i
    OBVIOUS
  <2>4. LocalsOf(i + 1) =
          LocalsOf(i) \cup (IF Tag(i) \in {"usage", "min", "max"} THEN {i} ELSE {})
    BY <1>4, <2>1, <2>2, <2>3 DEF LocalsOf
  <2>5. \A t : Named(i + 1, t) = Named(i, t) \cup
                (IF Tag(i) \in {"usage", "min", "max"} /\ t = Tag(i) THEN {i} ELSE {})
    BY <2>4 DEF Named
  <2> QED
    BY <1>1, <1>2, <1>4, <2>5
<1> QED
  BY <1>3, <1>4

LEMMA CollectsNothing ==
  ASSUME NEW i, \A t : Named(i, t) = {}
  PROVE  Collects(<<>>, NoUsage, NoUsage, i)
BY FS_EmptySet DEF Collects, End, HasLast

LEMMA CollectsOther ==
  ASSUME NEW i \in Nat \ {0}, NEW us, NEW min, NEW max, Collects(us, min, max, i),
         Tag(i) \notin {"input", "main", "usage", "min", "max"}
  PROVE  Collects(us, min, max, i + 1)
<1>1. \A t : Named(i + 1, t) = Named(i, t)
  BY NamedStep
<1>2. \A t : LastRead(i + 1, t) = LastRead(i, t)
  BY <1>1 DEF LastRead
<1>3. \A j : Rank(i + 1, j) = Rank(i, j)
  BY <1>1 DEF Rank
<1> QED
  BY <1>1, <1>2, <1>3 DEF Collects, End, HasLast

LEMMA LastIsNew ==
  ASSUME NEW i \in Nat \ {0}, Tag(i) \in {"usage", "min", "max"}
  PROVE  /\ Named(i + 1, Tag(i)) # {} /\ LastRead(i + 1, Tag(i)) = AsRead(i)
         /\ \A t : t # Tag(i) => /\ Named(i + 1, t) = Named(i, t)
                                 /\ LastRead(i + 1, t) = LastRead(i, t)
         /\ HasLast(i) => HasLast(i + 1)
<1>1. /\ Named(i + 1, Tag(i)) = Named(i, Tag(i)) \cup {i}
      /\ Named(i, Tag(i)) \subseteq Before(i)
  BY NamedStep
<1>2. Named(i + 1, Tag(i)) \in SUBSET Nat /\ \A j \in Named(i + 1, Tag(i)) : j <= i
  BY <1>1 DEF Before
<1>3. Max(Named(i + 1, Tag(i))) = i
  BY <1>1, <1>2, MaxIs
<1>4. \A t : t # Tag(i) => Named(i + 1, t) = Named(i, t)
  BY NamedStep
<1>5. HasLast(i) => HasLast(i + 1)
  BY <1>1, <1>3, <1>4 DEF HasLast
<1> QED
  BY <1>1, <1>3, <1>4, <1>5 DEF LastRead

LEMMA CollectsEnds ==
  ASSUME NEW i \in Nat \ {0}, NEW us, NEW min, NEW max, Collects(us, min, max, i),
         Tag(i) \in {"min", "max"}
  PROVE  /\ Tag(i) = "min" => Collects(us, AsRead(i), max, i + 1)
         /\ Tag(i) = "max" => Collects(us, min, AsRead(i), i + 1)
<1>1. /\ Named(i + 1, "usage") = Named(i, "usage")
      /\ LastRead(i + 1, "usage") = LastRead(i, "usage")
  BY LastIsNew
<1>2. \A j : Rank(i + 1, j) = Rank(i, j)
  BY <1>1 DEF Rank
<1>3. /\ Tag(i) = "min" => End(i + 1, "min") = AsRead(i) /\ End(i + 1, "max") = End(i, "max")
      /\ Tag(i) = "max" => End(i + 1, "max") = AsRead(i) /\ End(i + 1, "min") = End(i, "min")
  BY LastIsNew DEF End
<1>4. HasLast(i + 1)
  BY LastIsNew DEF Collects
<1> QED
  BY <1>1, <1>2, <1>3, <1>4 DEF Collects

LEMMA CollectsUsage ==
  ASSUME NEW i \in Nat \ {0}, NEW S, NEW us \in Seq(S), NEW min, NEW max,
         Collects(us, min, max, i), Tag(i) = "usage", AsRead(i) \in S
  PROVE  Collects(Append(us, AsRead(i)), min, max, i + 1)
<1> DEFINE old == Named(i, "usage")
           new == Named(i + 1, "usage")
           vs == Append(us, AsRead(i))
           n == Len(us)
<1>1. new = old \cup {i} /\ i \notin old /\ old \subseteq Before(i) /\ IsFiniteSet(old)
  BY NamedStep DEF Before
<1>2. n = Cardinality(old) /\ n \in Nat
  BY DEF Collects
<1>3. Cardinality(new) = n + 1
  BY <1>1, <1>2, FS_AddElement
<1>4. /\ vs \in Seq(S) /\ Len(vs) = n + 1 /\ vs[n + 1] = AsRead(i)
      /\ \A k \in 1 .. n : vs[k] = us[k]
  OBVIOUS
<1>5. Rank(i + 1, i) = n
  <2>1. {l \in new : l < i} = old
    BY <1>1 DEF Before
  <2> QED
    BY <1>2, <2>1 DEF Rank
<1>6. \A j \in old : Rank(i + 1, j) = Rank(i, j)
  <2>1. \A j \in old : {l \in new : l < j} = {l \in old : l < j}
    BY <1>1 DEF Before
  <2> QED
    BY <2>1 DEF Rank
<1>7. \A k \in 1 .. Len(vs) : \E j \in new : Rank(i + 1, j) = k - 1 /\ vs[k] = AsRead(j)
  <2>1. ASSUME NEW k \in 1 .. n
        PROVE  \E j \in new : Rank(i + 1, j) = k - 1 /\ vs[k] = AsRead(j)
    <3>1. PICK j \in old : Rank(i, j) = k - 1 /\ us[k] = AsRead(j)
      BY DEF Collects
    <3> QED
      BY <1>1, <1>4, <1>6, <3>1
  <2>2. i \in new /\ Rank(i + 1, i) = (n + 1) - 1 /\ vs[n + 1] = AsRead(i)
    BY <1>1, <1>2, <1>4, <1>5
  <2>3. \A k \in 1 .. n + 1 : k \in 1 .. n \/ k = n + 1
    BY <1>2
  <2> HIDE DEF vs, n
  <2> QED
    BY <1>4, <2>1, <2>2, <2>3
<1>8. /\ LastRead(i + 1, "usage") = AsRead(i)
      /\ \A t \in {"min", "max"} : End(i + 1, t) = End(i, t)
  BY LastIsNew DEF End
<1>9. HasLast(i + 1)
  BY LastIsNew DEF Collects
<1> QED
  BY <1>3, <1>4, <1>7, <1>8, <1>9 DEF Collects

\* The bits of a report: an Input item takes those behind the ones taken.
LEMMA TakenStep ==
  ASSUME ParserTypeOK, NEW i \in Nat \ {0}, NEW d, IsFiniteSet(Taken(d, i)), Room(i) \in Nat
  PROVE  /\ IsFiniteSet(Taken(d, i + 1))
         /\ Cardinality(Taken(d, i + 1)) =
              Cardinality(Taken(d, i))
                + (IF i \in Inputs /\ GlobalAt("id", i) = d THEN Room(i) ELSE 0)
<1> DEFINE of(n) == {l \in Inputs : l < n /\ GlobalAt("id", l) = d}
           bitsOf(j) == {j} \X (1 .. Room(j))
<1>1. Inputs \subseteq Nat
  <2>1. report_map \in Seq(Items)
    BY DescriptorAssumption DEF ParserTypeOK
  <2> QED
    BY <2>1 DEF Inputs
<1>2. Cardinality(Taken(d, i)) \in Nat
  BY FS_CardinalityType
<1>3. \A l \in Inputs : l < i + 1 <=> l < i \/ l = i
  BY <1>1
<1>4. CASE i \in Inputs /\ GlobalAt("id", i) = d
  <2>1. of(i + 1) = of(i) \cup {i}
    BY <1>3, <1>4
  <2>2. Taken(d, i + 1) = Taken(d, i) \cup bitsOf(i)
    BY <2>1 DEF Taken
  <2>3. IsFiniteSet(bitsOf(i)) /\ Cardinality(bitsOf(i)) = Room(i)
    <3>1. IsFiniteSet(1 .. Room(i)) /\ Cardinality(1 .. Room(i)) = Room(i)
      BY FS_Interval
    <3>2. IsFiniteSet({i}) /\ Cardinality({i}) = 1
      BY FS_Singleton
    <3>3. /\ IsFiniteSet(bitsOf(i))
          /\ Cardinality(bitsOf(i)) = Cardinality({i}) * Cardinality(1 .. Room(i))
      BY <3>1, <3>2, FS_Product
    <3> QED
      BY <3>1, <3>2, <3>3
  <2>4. Taken(d, i) \cap bitsOf(i) = {}
    <3>1. \A b \in Taken(d, i) : b[1] < i
      BY DEF Taken
    <3>2. \A b \in bitsOf(i) : b[1] = i
      OBVIOUS
    <3> QED
      BY <3>1, <3>2
  <2>5. /\ IsFiniteSet(Taken(d, i) \cup bitsOf(i))
        /\ Cardinality(Taken(d, i) \cup bitsOf(i)) =
             Cardinality(Taken(d, i)) + Cardinality(bitsOf(i))
               - Cardinality(Taken(d, i) \cap bitsOf(i))
    BY <2>3, FS_Union
  <2>6. Cardinality(Taken(d, i) \cap bitsOf(i)) = 0
    BY <2>4, FS_EmptySet
  <2> HIDE DEF bitsOf
  <2>7. Cardinality(Taken(d, i) \cup bitsOf(i)) = Cardinality(Taken(d, i)) + Room(i)
    BY <1>2, <2>3, <2>5, <2>6
  <2>8. /\ IsFiniteSet(Taken(d, i + 1))
        /\ Cardinality(Taken(d, i + 1)) = Cardinality(Taken(d, i)) + Room(i)
    BY <2>2, <2>5, <2>7
  <2> QED
    BY <1>4, <2>8
<1>5. CASE ~(i \in Inputs /\ GlobalAt("id", i) = d)
  <2>1. of(i + 1) = of(i)
    BY <1>3, <1>5
  <2>2. Taken(d, i + 1) = Taken(d, i)
    BY <2>1 DEF Taken
  <2> QED
    BY <1>2, <1>5, <2>2
<1> QED
  BY <1>4, <1>5

(* ------------------------------- the steps ------------------------------- *)

\* What is known of the item that a step reads.
LEMMA ReadsOne ==
  ASSUME ParserTypeOK, NEW T, Reads(T)
  PROVE  /\ offset \in Nat \ {0} /\ offset \in DOMAIN report_map /\ offset' = offset + 1
         /\ report_map' = report_map /\ status = "parsing"
         /\ Item = report_map[offset] /\ Tag(offset) = Item.tag /\ Tag(offset) \in T
         /\ Item \in Items
<1>1. report_map \in Seq(Items)
  BY DescriptorAssumption DEF ParserTypeOK
<1> QED
  BY <1>1 DEF ParserTypeOK, Reads, Item, Tag

LEMMA SoundStep ==
  ASSUME ParserTypeOK, Follows, NEW T, Reads(T), "cut" \notin T,
         "pop" \in T => stack # <<>>
  PROVE  SoundBefore(offset)'
<1>1. SoundBefore(offset + 1)
  <2>1. Before(offset + 1) = Before(offset) \cup {offset}
    BY ReadsOne DEF Before
  <2>2. Tag(offset) # "cut"
    BY ReadsOne
  <2>3. Tag(offset) = "pop" => Depth(offset) > 0
    <3>1. Len(stack) \in Nat /\ (stack # <<>> => Len(stack) > 0)
      BY DEF ParserTypeOK
    <3>2. Depth(offset) = Len(stack)
      BY DEF Follows, Nested
    <3> QED
      BY ReadsOne, <3>1, <3>2
  <2> QED
    BY <2>1, <2>2, <2>3 DEF Follows, SoundBefore
<1> QED
  BY <1>1, ReadsOne, SameMeaning

\* A level that the item does not close keeps the globals that were saved for it.
LEMMA LevelKept ==
  ASSUME ParserTypeOK, Follows, NEW T, Reads(T), NEW k \in 1 .. Len(stack),
         k <= Depth(offset + 1)
  PROVE  \E p \in Before(offset + 1) :
            /\ Tag(p) = "push" /\ Depth(p) = k - 1
            /\ \A q \in p + 1 .. offset + 1 : Depth(q) >= k
            /\ stack[k] = GlobalsAt(p)
<1>1. PICK p \in Before(offset) : SavedAt(p, k)
  BY DEF Follows, Nested
<1>2. p \in Before(offset + 1)
  BY ReadsOne DEF Before
<1>3. ASSUME NEW q \in p + 1 .. offset + 1 PROVE Depth(q) >= k
  <2>1. q \in p + 1 .. offset \/ q = offset + 1
    BY ReadsOne DEF Before
  <2> QED
    BY <1>1, <2>1 DEF SavedAt
<1> QED
  BY <1>1, <1>2, <1>3 DEF SavedAt

LEMMA NestedNext ==
  ASSUME report_map' = report_map, offset' = offset + 1, Depth(offset + 1) = Len(stack'),
         \A k \in 1 .. Len(stack') : \E p \in Before(offset + 1) :
            /\ Tag(p) = "push" /\ Depth(p) = k - 1
            /\ \A q \in p + 1 .. offset + 1 : Depth(q) >= k
            /\ stack'[k] = GlobalsAt(p)
  PROVE  Nested'
<1>1. Depth(offset)' = Len(stack')
  BY SameMap
<1>2. \A k, p : SavedAt(p, k)' <=>
            /\ Tag(p) = "push" /\ Depth(p) = k - 1
            /\ \A q \in p + 1 .. offset + 1 : Depth(q) >= k
            /\ stack'[k] = GlobalsAt(p)
  BY SameMap, SameMeaning DEF SavedAt
<1>3. Before(offset)' = Before(offset + 1)
  BY DEF Before
<1> QED
  BY <1>1, <1>2, <1>3 DEF Nested

LEMMA NestedStep ==
  ASSUME ParserTypeOK, Follows, Push \/ Pop \/ Global \/ Local \/ Skip \/ Input \/ OtherMain
  PROVE  Nested'
<1> DEFINE n == Len(stack)
<1>1. n \in Nat /\ stack \in Seq(Globals) /\ Depth(offset) = n
  BY DEF ParserTypeOK, Follows, Nested
<1>2. CASE Push
  <2>1. Reads({"push"}) /\ stack' = Append(stack, globals)
    BY <1>2 DEF Push
  <2>2. Tag(offset) = "push" /\ offset \in Nat \ {0}
    BY <2>1, ReadsOne
  <2>3. Depth(offset + 1) = n + 1
    BY <1>1, <2>2, DepthStep
  <2>4. /\ Len(stack') = n + 1 /\ stack'[n + 1] = globals
        /\ \A k \in 1 .. n : stack'[k] = stack[k]
    BY <1>1, <2>1 DEF ParserTypeOK
  <2>5. ASSUME NEW k \in 1 .. n + 1
        PROVE  \E p \in Before(offset + 1) :
                  /\ Tag(p) = "push" /\ Depth(p) = k - 1
                  /\ \A q \in p + 1 .. offset + 1 : Depth(q) >= k
                  /\ stack'[k] = GlobalsAt(p)
    <3>1. CASE k \in 1 .. n
      <4>1. k <= Depth(offset + 1)
        BY <1>1, <2>3, <3>1
      <4> QED
        BY <2>1, <2>4, <3>1, <4>1, LevelKept
    <3>2. CASE k = n + 1
      <4>1. offset \in Before(offset + 1)
        BY <2>2 DEF Before
      <4>2. \A q \in offset + 1 .. offset + 1 : Depth(q) >= k
        BY <1>1, <2>2, <2>3, <3>2
      <4>3. Depth(offset) = k - 1 /\ stack'[k] = GlobalsAt(offset)
        BY <1>1, <2>4, <3>2 DEF Follows
      <4> QED
        BY <2>2, <4>1, <4>2, <4>3
    <3> QED
      BY <1>1, <3>1, <3>2
  <2> QED
    BY <2>1, <2>3, <2>4, <2>5, ReadsOne, NestedNext
<1>3. CASE Pop
  <2>1. Reads({"pop"}) /\ stack # <<>> /\ stack' = SubSeq(stack, 1, n - 1)
    BY <1>3 DEF Pop
  <2>2. Tag(offset) = "pop" /\ offset \in Nat \ {0}
    BY <2>1, ReadsOne
  <2>3. Depth(offset + 1) = n - 1
    BY <1>1, <2>2, DepthStep
  <2>4. Len(stack') = n - 1 /\ \A k \in 1 .. n - 1 : stack'[k] = stack[k]
    BY <1>1, <2>1
  <2>5. ASSUME NEW k \in 1 .. n - 1
        PROVE  \E p \in Before(offset + 1) :
                  /\ Tag(p) = "push" /\ Depth(p) = k - 1
                  /\ \A q \in p + 1 .. offset + 1 : Depth(q) >= k
                  /\ stack'[k] = GlobalsAt(p)
    <3>1. k \in 1 .. n /\ k <= Depth(offset + 1)
      BY <1>1, <2>3
    <3> QED
      BY <2>1, <2>4, <3>1, LevelKept
  <2> QED
    BY <2>1, <2>3, <2>4, <2>5, ReadsOne, NestedNext
<1>4. CASE Global \/ Local \/ Skip \/ Input \/ OtherMain
  <2>1. PICK T : Reads(T) /\ T \cap {"push", "pop"} = {} /\ stack' = stack
    BY <1>4 DEF Global, Local, Skip, Input, OtherMain, GlobalTags
  <2>2. Tag(offset) \notin {"push", "pop"} /\ offset \in Nat \ {0}
    BY <2>1, ReadsOne
  <2>3. Depth(offset + 1) = n
    BY <1>1, <2>2, DepthStep
  <2>4. \A k \in 1 .. n : k <= Depth(offset + 1)
    BY <1>1, <2>3
  <2> QED
    BY <2>1, <2>3, <2>4, ReadsOne, LevelKept, NestedNext
<1> QED
  BY <1>2, <1>3, <1>4

LEMMA GlobalsStep ==
  ASSUME ParserTypeOK, Follows, Push \/ Pop \/ Global \/ Local \/ Skip \/ Input \/ OtherMain
  PROVE  globals' = GlobalsAt(offset)'
<1>1. globals' = GlobalsAt(offset + 1)
  <2>1. CASE Global
    <3>1. Reads(GlobalTags) /\ globals' = [globals EXCEPT ![Item.tag] = Item.value]
      BY <2>1 DEF Global
    <3>2. offset \in Nat \ {0} /\ Tag(offset) \in GlobalTags /\ Tag(offset) = Item.tag
          /\ Item = report_map[offset]
      BY <3>1, ReadsOne
    <3>3. GlobalAt(Tag(offset), offset + 1) = Item.value
      BY <3>2, SettingsMade
    <3>4. \A t \in GlobalTags \ {Tag(offset)} :
             GlobalAt(t, offset + 1) = GlobalAt(t, offset)
      BY <3>2, SettingsKept DEF GlobalTags
    <3>5. globals = GlobalsAt(offset)
      BY DEF Follows
    <3> QED
      BY <3>1, <3>2, <3>3, <3>4, <3>5 DEF GlobalsAt
  <2>2. CASE Pop
    <3> DEFINE n == Len(stack)
    <3>1. Reads({"pop"}) /\ stack # <<>> /\ globals' = stack[n]
      BY <2>2 DEF Pop, Restored
    <3>2. offset \in Nat \ {0} /\ Tag(offset) = "pop"
      BY <3>1, ReadsOne
    <3>3. n \in 1 .. n /\ Depth(offset) = n /\ n \in Nat
      BY <3>1 DEF ParserTypeOK, Follows, Nested
    <3>4. PICK p \in Before(offset) : SavedAt(p, n)
      BY <3>3 DEF Follows, Nested
    <3>5. \A t \in GlobalTags : GlobalAt(t, offset + 1) = GlobalAt(t, p)
      BY <3>2, <3>3, <3>4, SettingsBack DEF SavedAt
    <3> QED
      BY <3>1, <3>4, <3>5 DEF SavedAt, GlobalsAt
  <2>3. CASE Push \/ Local \/ Skip \/ Input \/ OtherMain
    <3>1. PICK T : Reads(T) /\ T \cap (GlobalTags \cup {"pop"}) = {} /\ globals' = globals
      BY <2>3 DEF Push, Local, Skip, Input, OtherMain, GlobalTags
    <3>2. offset \in Nat \ {0} /\ Tag(offset) \notin GlobalTags \cup {"pop"}
      BY <3>1, ReadsOne
    <3>3. \A t \in GlobalTags : GlobalAt(t, offset + 1) = GlobalAt(t, offset)
      BY <3>2, SettingsKept
    <3> QED
      BY <3>1, <3>3 DEF Follows, GlobalsAt
  <2> QED
    BY <2>1, <2>2, <2>3
<1>2. PICK T : Reads(T)
  BY DEF Push, Pop, Global, Local, Skip, Input, OtherMain
<1> QED
  BY <1>1, <1>2, ReadsOne, SameMeaning

LEMMA GlobalFacts ==
  ASSUME ParserTypeOK, Follows
  PROVE  /\ \A t \in GlobalTags : globals[t] = GlobalAt(t, offset) /\ globals[t] \in Nat
         /\ globals["id"] \in Ids
         /\ Room(offset) = Width /\ Room(offset) \in Nat
<1>1. \A t \in GlobalTags : globals[t] = GlobalAt(t, offset)
  BY DEF Follows, GlobalsAt
<1>2. \A t \in GlobalTags : globals[t] \in Nat
  BY DEF ParserTypeOK, Globals
<1>3. globals["id"] \in Ids
  BY DEF ParserTypeOK, Globals
<1>4. "size" \in GlobalTags /\ "count" \in GlobalTags
  BY DEF GlobalTags
<1>5. Room(offset) = globals["size"] * globals["count"]
  BY <1>1, <1>4 DEF Room
<1>6. globals["size"] * globals["count"] \in Nat
  BY <1>2, <1>4
<1> QED
  BY <1>1, <1>2, <1>3, <1>5, <1>6 DEF Width

LEMMA BitsStep ==
  ASSUME ParserTypeOK, Follows, NEW d \in Ids,
         Push \/ Pop \/ Global \/ Local \/ Skip \/ Input \/ OtherMain
  PROVE  CountsBits(d)'
<1>1. PICK T : Reads(T) /\ ("input" \in T => Input) /\ (Input => T = {"input"})
                 /\ (~Input => bits' = bits)
  <2>1. CASE Input
    BY <2>1 DEF Input
  <2>2. CASE ~Input
    BY <2>2 DEF Push, Pop, Global, Local, Skip, OtherMain, GlobalTags
  <2> QED
    BY <2>1, <2>2
<1>2. IsFiniteSet(Taken(d, offset)) /\ bits[d] = Cardinality(Taken(d, offset))
      /\ bits[d] \in Nat
  BY DEF Follows, CountsBits, ParserTypeOK
<1>3. /\ IsFiniteSet(Taken(d, offset + 1))
      /\ Cardinality(Taken(d, offset + 1)) =
           bits[d] + (IF offset \in Inputs /\ GlobalAt("id", offset) = d THEN Width ELSE 0)
  BY <1>1, <1>2, ReadsOne, GlobalFacts, TakenStep
<1>4. offset \in Inputs <=> Input
  BY <1>1, ReadsOne DEF Inputs
<1>5. GlobalAt("id", offset) = globals["id"] /\ globals["id"] \in Ids
  BY GlobalFacts DEF GlobalTags
<1>6. bits'[d] =
        bits[d] + (IF offset \in Inputs /\ GlobalAt("id", offset) = d THEN Width ELSE 0)
  <2>1. CASE Input
    <3>1. bits' = [bits EXCEPT ![globals["id"]] = @ + Width] /\ bits \in [Ids -> Nat]
      BY <2>1 DEF Input, ParserTypeOK
    <3> QED
      BY <1>2, <1>4, <1>5, <2>1, <3>1
  <2>2. CASE ~Input
    BY <1>1, <1>2, <1>4, <2>2
  <2> QED
    BY <2>1, <2>2
<1> QED
  BY <1>1, <1>3, <1>6, ReadsOne, SameBits DEF CountsBits

LEMMA CollectsStep ==
  ASSUME ParserTypeOK, Follows, Push \/ Pop \/ Global \/ Local \/ Skip \/ Input \/ OtherMain
  PROVE  Collects(locals.usages, locals.min, locals.max, offset)'
<1> DEFINE l == locals
<1>1. PICK T : Reads(T)
  BY DEF Push, Pop, Global, Local, Skip, Input, OtherMain
<1>2. /\ offset \in Nat \ {0} /\ Tag(offset) = Item.tag
      /\ Item = report_map[offset] /\ Item \in Items
  BY <1>1, ReadsOne
<1>3. Collects(l.usages, l.min, l.max, offset)
  BY DEF Follows
<1>4. l \in [usages : Seq(Usages), min : Usages, max : Usages]
  BY DEF ParserTypeOK
<1>5. Collects(l'.usages, l'.min, l'.max, offset + 1)
  <2>1. CASE Local
    <3>1. Tag(offset) \in {"usage", "min", "max"}
      BY <2>1, ReadsOne DEF Local
    <3>2. Qualified(Item) = AsRead(offset)
      BY <1>2, GlobalFacts DEF Qualified, AsRead, GlobalTags
    <3>3. Qualified(Item) \in Usages
      BY <1>2, QualifiedType DEF ParserTypeOK
    <3>4. CASE Tag(offset) = "usage"
      <4>1. l' = [l EXCEPT !.usages = Append(@, AsRead(offset))]
        BY <1>2, <2>1, <3>2, <3>4 DEF Local
      <4>2. l'.usages = Append(l.usages, AsRead(offset)) /\ l'.min = l.min /\ l'.max = l.max
        BY <1>4, <4>1
      <4>3. l.usages \in Seq(Usages)
        BY <1>4
      <4> QED
        BY <1>2, <1>3, <3>2, <3>3, <3>4, <4>2, <4>3, CollectsUsage
    <3>5. CASE Tag(offset) = "min"
      <4>1. l' = [l EXCEPT !.min = AsRead(offset)]
        BY <1>2, <2>1, <3>2, <3>5 DEF Local
      <4>2. l'.usages = l.usages /\ l'.min = AsRead(offset) /\ l'.max = l.max
        BY <1>4, <4>1
      <4> QED
        BY <1>2, <1>3, <3>5, <4>2, CollectsEnds
    <3>6. CASE Tag(offset) = "max"
      <4>1. l' = [l EXCEPT !.max = AsRead(offset)]
        BY <1>2, <2>1, <3>2, <3>6 DEF Local
      <4>2. l'.usages = l.usages /\ l'.min = l.min /\ l'.max = AsRead(offset)
        BY <1>4, <4>1
      <4> QED
        BY <1>2, <1>3, <3>6, <4>2, CollectsEnds
    <3> QED
      BY <3>1, <3>4, <3>5, <3>6
  <2>2. CASE Input \/ OtherMain
    <3>1. Tag(offset) \in {"input", "main"} /\ l' = NoLocals
      BY <2>2, ReadsOne DEF Input, OtherMain
    <3>2. \A t : Named(offset + 1, t) = {}
      BY <1>2, <3>1, NamedStep
    <3>3. l'.usages = <<>> /\ l'.min = NoUsage /\ l'.max = NoUsage
      BY <3>1 DEF NoLocals
    <3> QED
      BY <3>2, <3>3, CollectsNothing
  <2>3. CASE Push \/ Pop \/ Global \/ Skip
    <3>1. Tag(offset) \notin {"input", "main", "usage", "min", "max"} /\ l' = l
      BY <2>3, ReadsOne DEF Push, Pop, Global, Skip, GlobalTags
    <3> QED
      BY <1>2, <1>3, <3>1, CollectsOther
  <2> QED
    BY <2>1, <2>2, <2>3
<1> QED
  BY <1>1, <1>5, ReadsOne, SameMeaning

\* An Input item makes a field that stands for it, or has no controls.
LEMMA FieldDescribes ==
  ASSUME ParserTypeOK, Follows, Item = report_map[offset]
  PROVE  Describes(Field, offset)
<1>1. /\ globals["id"] = GlobalAt("id", offset)
      /\ globals["size"] = GlobalAt("size", offset)
      /\ globals["count"] = GlobalAt("count", offset)
      /\ globals["page"] = GlobalAt("page", offset) /\ globals["id"] \in Ids
  BY GlobalFacts DEF GlobalTags
<1>2. bits[globals["id"]] = Offset(offset)
  BY <1>1 DEF Follows, CountsBits, Offset
<1>3. Collects(locals.usages, locals.min, locals.max, offset)
  BY DEF Follows
<1> QED
  BY <1>1, <1>2, <1>3 DEF Field, Describes

LEMMA DescribedStep ==
  ASSUME ParserTypeOK, Follows, Push \/ Pop \/ Global \/ Local \/ Skip \/ Input \/ OtherMain
  PROVE  Described'
<1>1. PICK T : Reads(T)
  BY DEF Push, Pop, Global, Local, Skip, Input, OtherMain
<1>2. offset \in Nat \ {0} /\ Tag(offset) = Item.tag /\ Item = report_map[offset]
      /\ offset \in DOMAIN report_map
  BY <1>1, ReadsOne
<1>3. Before(offset)' = Before(offset) \cup {offset} /\ offset \notin Before(offset)
  BY <1>1, ReadsOne DEF Before
<1>4. Visible' = Visible /\ \A f, i : Describes(f, i)' <=> Describes(f, i)
  BY <1>1, ReadsOne, SameMeaning
<1>5. SUFFICES
        /\ \A n \in DOMAIN fields' :
             \E i \in Visible \cap (Before(offset) \cup {offset}) : Describes(fields'[n], i)
        /\ \A i \in Visible \cap (Before(offset) \cup {offset}) :
             \E n \in DOMAIN fields' : Describes(fields'[n], i)
  BY <1>3, <1>4 DEF Described
<1>6. CASE offset \notin Visible /\ fields' = fields
  BY <1>6 DEF Follows, Described
<1>7. CASE offset \in Visible /\ fields' = Append(fields, Field)
  <2> DEFINE N == Len(fields)
  <2>1. Describes(Field, offset)
    BY <1>2, FieldDescribes
  <2>2. fields \in Seq(Fields) /\ Field \in Fields
    BY FieldType DEF ParserTypeOK
  <2>3. /\ DOMAIN fields = 1 .. N /\ DOMAIN fields' = 1 .. N + 1 /\ N \in Nat
        /\ fields'[N + 1] = Field /\ \A n \in 1 .. N : fields'[n] = fields[n]
    BY <1>7, <2>2
  <2>4. \A n \in 1 .. N + 1 : n \in 1 .. N \/ n = N + 1
    BY <2>3
  <2>5. \A n \in 1 .. N : n \in 1 .. N + 1 /\ N + 1 \in 1 .. N + 1
    BY <2>3
  <2>6. N + 1 \in 1 .. N + 1
    BY <2>3
  <2> HIDE DEF N
  <2> QED
    BY <1>7, <2>1, <2>3, <2>4, <2>5, <2>6 DEF Follows, Described
<1>8. CASE Input
  <2>1. Tag(offset) = "input" /\ offset \in Inputs
    BY <1>2, <1>8, ReadsOne DEF Input, Inputs
  <2>2. globals["size"] \in Nat /\ globals["count"] \in Nat
        /\ Room(offset) = globals["size"] * globals["count"]
    BY GlobalFacts DEF GlobalTags, Width
  <2>3. Room(offset) > 0 <=> globals["size"] # 0 /\ globals["count"] # 0
    BY <2>2
  <2>4. fields' = IF Constant(Item) \/ globals["size"] = 0 \/ globals["count"] = 0
                  THEN fields ELSE Append(fields, Field)
    BY <1>8 DEF Input
  <2>5. offset \in Visible <=>
          ~(Constant(Item) \/ globals["size"] = 0 \/ globals["count"] = 0)
    BY <1>2, <2>1, <2>3 DEF Visible
  <2> QED
    BY <1>6, <1>7, <2>4, <2>5
<1>9. CASE ~Input
  <2>1. Tag(offset) # "input" /\ fields' = fields
    BY <1>9, ReadsOne DEF Push, Pop, Global, Local, Skip, OtherMain, GlobalTags
  <2>2. offset \notin Visible
    BY <2>1 DEF Visible, Inputs
  <2> QED
    BY <1>6, <2>1, <2>2
<1> QED
  BY <1>8, <1>9

LEMMA FollowStep ==
  ASSUME ParserTypeOK, FollowInv, [ParserNext]_parserVars
  PROVE  FollowInv'
<1>1. CASE Push \/ Pop \/ Global \/ Local \/ Skip \/ Input \/ OtherMain
  <2>1. PICK T : /\ Reads(T) /\ "cut" \notin T /\ ("pop" \in T => stack # <<>>)
                 /\ status' = status
    BY <1>1 DEF Push, Pop, Global, Local, Skip, Input, OtherMain, GlobalTags
  <2>2. Follows /\ status' = "parsing"
    BY <2>1, ReadsOne DEF FollowInv
  <2>3. SoundBefore(offset)'
    BY <2>1, <2>2, SoundStep
  <2>4. \A d \in Ids : CountsBits(d)'
    BY <1>1, <2>2, BitsStep
  <2> QED
    BY <1>1, <2>2, <2>3, <2>4, NestedStep, GlobalsStep, CollectsStep, DescribedStep
    DEF Follows, FollowInv
<1>2. CASE Reject
  <2>1. PICK T : /\ Reads(T) /\ T \subseteq {"cut", "pop"} /\ ("pop" \in T => stack = <<>>)
                 /\ status' = "rejected"
    BY <1>2 DEF Reject
  <2>2. Follows
    BY <2>1, ReadsOne DEF FollowInv
  <2>3. stack = <<>> => Depth(offset) = 0
    BY <2>2 DEF Follows, Nested
  <2>4. Broken
    BY <2>1, <2>3, ReadsOne DEF Broken
  <2> QED
    BY <2>1, <2>4, ReadsOne, SameMeaning DEF FollowInv
<1>3. CASE Finish
  <2>1. /\ report_map' = report_map /\ offset' = offset /\ globals' = globals
        /\ stack' = stack /\ bits' = bits /\ locals' = locals /\ fields' = fields
        /\ status' = "parsed" /\ status = "parsing" /\ offset > Len(report_map)
    BY <1>3 DEF Finish
  <2>2. Follows
    BY <2>1 DEF FollowInv
  <2>3. Nested'
    BY <2>1, <2>2, SameMap, SameMeaning DEF Follows, Nested, SavedAt, Before
  <2>4. Described'
    BY <2>1, <2>2, SameMeaning DEF Follows, Described, Before
  <2>5. (\A d \in Ids : CountsBits(d))'
    BY <2>1, <2>2, SameBits DEF Follows, CountsBits
  <2>6. offset = Len(report_map) + 1
    <3>1. report_map \in Seq(Items)
      BY DescriptorAssumption DEF ParserTypeOK
    <3> QED
      BY <2>1, <3>1 DEF ParserTypeOK
  <2>7. SoundBefore(offset)' /\ globals' = GlobalsAt(offset)'
    BY <2>1, <2>2, SameMeaning DEF Follows
  <2>8. Collects(locals.usages, locals.min, locals.max, offset)'
    BY <2>1, <2>2, SameMeaning DEF Follows
  <2> QED
    BY <2>1, <2>3, <2>4, <2>5, <2>6, <2>7, <2>8 DEF Follows, FollowInv
<1>4. CASE UNCHANGED parserVars
  <2>1. /\ report_map' = report_map /\ offset' = offset /\ globals' = globals
        /\ stack' = stack /\ bits' = bits /\ locals' = locals /\ fields' = fields
        /\ status' = status
    BY <1>4 DEF parserVars
  <2>2. CASE status = "rejected"
    BY <2>1, <2>2, SameMeaning DEF FollowInv
  <2>3. CASE status # "rejected"
    <3>1. Follows
      BY <2>3 DEF FollowInv
    <3>2. Nested' /\ Described'
      BY <2>1, <3>1, SameMap, SameMeaning DEF Follows, Nested, SavedAt, Before, Described
    <3>3. (\A d \in Ids : CountsBits(d))'
      BY <2>1, <3>1, SameBits DEF Follows, CountsBits
    <3>4. SoundBefore(offset)' /\ globals' = GlobalsAt(offset)'
      BY <2>1, <3>1, SameMeaning DEF Follows
    <3>5. Collects(locals.usages, locals.min, locals.max, offset)'
      BY <2>1, <3>1, SameMeaning DEF Follows
    <3> QED
      BY <2>1, <2>3, <3>1, <3>2, <3>3, <3>4, <3>5 DEF Follows, FollowInv
  <2> QED
    BY <2>2, <2>3
<1> QED
  BY <1>1, <1>2, <1>3, <1>4 DEF ParserNext

LEMMA FollowInit ==
  ASSUME ParserInit
  PROVE  FollowInv
<1>1. /\ Before(offset) = {} /\ offset = 1
      /\ stack = <<>> /\ fields = <<>> /\ status = "parsing"
  BY DEF ParserInit, Before
<1>2. Depth(offset) = 0
  BY <1>1, FS_EmptySet DEF Depth
<1>3. \A t : GlobalAt(t, offset) = 0
  BY <1>1 DEF GlobalAt, Settings
<1>4. \A t : Named(offset, t) = {}
  BY <1>1 DEF Named, LocalsOf
<1>5. Collects(locals.usages, locals.min, locals.max, offset)
  BY <1>4, CollectsNothing DEF ParserInit, NoLocals
<1>6. \A d : Taken(d, offset) = {}
  <2>1. report_map \in Seq(Items)
    BY DescriptorAssumption DEF ParserInit
  <2>2. \A l \in Inputs : ~(l < offset)
    BY <1>1, <2>1 DEF Inputs
  <2> QED
    BY <2>2 DEF Taken
<1>7. Nested
  BY <1>1, <1>2 DEF Nested
<1>8. Described
  BY <1>1 DEF Described
<1>9. globals = GlobalsAt(offset)
  BY <1>3 DEF ParserInit, GlobalsAt
<1>10. \A d \in Ids : CountsBits(d)
  BY <1>6, FS_EmptySet DEF ParserInit, CountsBits
<1> QED
  BY <1>1, <1>5, <1>7, <1>8, <1>9, <1>10 DEF FollowInv, Follows, SoundBefore

(* ------------------------------ the decoder ------------------------------ *)

\* No two usages of a list have the same place in it.
LEMMA RanksDiffer ==
  ASSUME NEW i \in Nat \ {0}, NEW j \in Named(i, "usage"), NEW l \in Named(i, "usage"),
         Rank(i, j) = Rank(i, l)
  PROVE  j = l
<1>1. Named(i, "usage") \subseteq Nat /\ IsFiniteSet(Named(i, "usage"))
  BY NamedStep DEF Before
<1> DEFINE below(x) == {m \in Named(i, "usage") : m < x}
<1>2. \A x : IsFiniteSet(below(x))
  BY <1>1, FS_Subset
<1>3. ASSUME NEW x \in Named(i, "usage"), NEW y \in Named(i, "usage"), x < y,
             Rank(i, x) = Rank(i, y)
      PROVE  FALSE
  <2>1. below(x) \in SUBSET below(y) /\ x \in below(y) /\ x \notin below(x)
    BY <1>1, <1>3
  <2>2. Cardinality(below(x)) = Cardinality(below(y))
    BY <1>3 DEF Rank
  <2>3. below(x) = below(y)
    BY <1>2, <2>1, <2>2, FS_Subset
  <2> QED
    BY <2>1, <2>3
<1>4. j \in Nat /\ l \in Nat
  BY <1>1
<1> QED
  BY <1>3, <1>4

\* While no Usage Page changes before the Main item, both readings of a usage agree.
LEMMA ReadAsMeant ==
  ASSUME NEW i, ~Rebound(i)
  PROVE  \A t : \A j \in Named(i, t) : Meant(i, j) = AsRead(j)
BY DEF Rebound, Named, Meant, AsRead

LEMMA LastAsMeant ==
  ASSUME NEW i, HasLast(i), ~Rebound(i), NEW t \in {"usage", "min", "max"}, Named(i, t) # {}
  PROVE  LastNamed(i, t) = LastRead(i, t)
BY ReadAsMeant DEF HasLast, LastNamed, LastRead

\* What the field f of a variable item i has for its control k is the usage of it.
LEMMA UsageAgrees ==
  ASSUME NEW f \in Fields, NEW i \in Visible, i \in Nat \ {0}, Describes(f, i),
         NEW k \in Nat, NEW v, f.variable, ~Mixed(i), ~Rebound(i), ~Beyond(i, k)
  PROVE  UsageForValue(f, k, v) = UsageOf(i, k)
<1> DEFINE listed == Named(i, "usage")
           n == Len(f.usages)
<1>1. f.variable \in BOOLEAN /\ f.usages \in Seq(Usages) /\ n \in Nat
  BY DEF Fields
<1>2. n = Cardinality(listed) /\ f.min = End(i, "min") /\ f.max = End(i, "max")
  BY DEF Describes, Collects
<1>3. IsFiniteSet(listed) /\ (n = 0 <=> listed = {})
  <2>1. IsFiniteSet(listed)
    BY NamedStep
  <2> QED
    BY <1>2, <2>1, FS_EmptySet
<1>4. HasLast(i) /\ \A a, b : <<a, b>> # NoUsage
  BY DEF Describes, Collects, NoUsage
<1>5. CASE k < n
  <2>1. UsageForValue(f, k, v) = f.usages[k + 1]
    BY <1>1, <1>5 DEF UsageForValue
  <2>2. k + 1 \in 1 .. n /\ (k + 1) - 1 = k /\ listed # {}
    BY <1>1, <1>3, <1>5
  <2>3. PICK j \in listed : Rank(i, j) = k /\ f.usages[k + 1] = AsRead(j)
    BY <2>2 DEF Describes, Collects
  <2>4. (CHOOSE l \in listed : Rank(i, l) = k) = j
    BY <2>3, RanksDiffer
  <2>5. Declared(i, k) = Listed(i, k)
    BY <1>2, <1>5, <2>2 DEF Declared
  <2>6. Listed(i, k) = AsRead(j)
    BY <2>3, <2>4, ReadAsMeant DEF Listed
  <2>7. UsageOf(i, k) = AsRead(j)
    BY <1>4, <2>5, <2>6 DEF UsageOf, AsRead
  <2> QED
    BY <2>1, <2>3, <2>7
<1>6. CASE k >= n /\ listed # {}
  <2>1. Named(i, "min") = {} /\ Named(i, "max") = {}
    BY <1>6 DEF Mixed
  <2>2. f.min = NoUsage
    BY <1>2, <2>1 DEF End
  <2>3. f.usages # <<>> /\ f.usages[Len(f.usages)] = LastRead(i, "usage")
    BY <1>1, <1>3, <1>6 DEF Describes, Collects
  <2>4. ~(k < n)
    BY <1>1, <1>6
  <2>5. UsageForValue(f, k, v) = LastRead(i, "usage")
    BY <1>6, <2>2, <2>3, <2>4 DEF UsageForValue
  <2>6. Declared(i, k) = NoUsage
    BY <1>2, <1>6, <2>4 DEF Declared
  <2>7. UsageOf(i, k) = LastNamed(i, "usage")
    BY <1>6, <2>6 DEF UsageOf
  <2> QED
    BY <1>4, <1>6, <2>5, <2>7, LastAsMeant
<1>7. CASE k >= n /\ listed = {}
  <2>1. f.usages = <<>> /\ ~(k < n)
    BY <1>1, <1>3, <1>7
  <2>2. \A t : End(i, t) # NoUsage <=> Named(i, t) # {}
    BY <1>4 DEF End, LastRead, AsRead
  <2>3. /\ Named(i, "min") # {} => f.min = LastNamed(i, "min")
        /\ Named(i, "max") # {} => f.max = LastNamed(i, "max")
    BY <1>2, <1>4, LastAsMeant DEF End
  <2>4. UsageForValue(f, k, v) =
          IF /\ f.min # NoUsage /\ f.max # NoUsage
             /\ f.min[1] = f.max[1] /\ f.min[2] + k <= f.max[2]
          THEN <<f.min[1], f.min[2] + k>> ELSE NoUsage
    BY <1>7, <2>1 DEF UsageForValue
  <2>5. (f.min # NoUsage <=> Named(i, "min") # {}) /\ (f.max # NoUsage <=> Named(i, "max") # {})
    BY <1>2, <2>2
  <2>6. Declared(i, k) =
          IF Ranged(i) /\ LastNamed(i, "min")[2] + k <= LastNamed(i, "max")[2]
          THEN <<LastNamed(i, "min")[1], LastNamed(i, "min")[2] + k>> ELSE NoUsage
    BY <1>7 DEF Declared
  <2>7. UsageForValue(f, k, v) = Declared(i, k)
    BY <2>3, <2>4, <2>5, <2>6 DEF Ranged
  <2>8. UsageOf(i, k) = Declared(i, k)
    BY <1>7 DEF UsageOf, Beyond
  <2> QED
    BY <2>7, <2>8
<1> QED
  BY <1>1, <1>5, <1>6, <1>7

\* An array that is read directly selects the usage that its value is.
LEMMA ArrayAgrees ==
  ASSUME NEW i, NEW v, Direct(i)
  PROVE  \A u \in Selected(i, v) : u = <<GlobalAt("page", i), v>> /\ v # 0
<1> SUFFICES ASSUME NEW k \in 0 .. v, v = GlobalAt("lmin", i) + k,
                    Declared(i, k) # NoUsage, Declared(i, k)[2] # 0
             PROVE  Declared(i, k) = <<GlobalAt("page", i), v>> /\ v # 0
  BY DEF Selected
<1>1. Declared(i, k) = <<GlobalAt("page", i), GlobalAt("lmin", i) + k>>
  BY DEF Declared, Direct
<1> QED
  BY <1>1

\* One control of an Input item, as HidLayout has it.
ControlOf(i, k) ==
  [id |-> GlobalAt("id", i), at |-> Offset(i) + k * GlobalAt("size", i),
   size |-> GlobalAt("size", i), item |-> i, index |-> k]

LEMMA ControlsAre ==
  \A c : c \in Layout <=>
    \E i \in Visible : \E k \in 0 .. GlobalAt("count", i) - 1 : c = ControlOf(i, k)
BY DEF Layout, Controls, ControlOf

\* A control that hid.py does not read in its own way stands for what the decoder makes
\* of it, and for nothing if that passes it over.
LEMMA ControlAgrees ==
  ASSUME NEW f \in Fields, NEW i \in Visible, i \in Nat \ {0}, Describes(f, i),
         NEW k \in Nat, NEW raw
  PROVE  /\ ControlOf(i, k).id = f.id
         /\ ValueAt(f, k, raw) # 0 => Speaks(ControlOf(i, k), raw)
         /\ Speaks(ControlOf(i, k), raw)
              /\ ~Departs(ControlOf(i, k), Control(ControlOf(i, k), raw)) =>
                Stands(ControlOf(i, k), Control(ControlOf(i, k), raw)) =
                  IF ValueAt(f, k, raw) # 0
                  THEN {UsageForValue(f, k, ValueAt(f, k, raw))} ELSE {}
<1> DEFINE c == ControlOf(i, k)
           v == ValueAt(f, k, raw)
<1>1. /\ c.id = f.id /\ c.at = f.offset + k * f.size /\ c.size = f.size
      /\ c.item = i /\ c.index = k /\ (Own(c) <=> f.variable)
  BY DEF ControlOf, Describes, Own
<1> HIDE DEF c
<1>2. Control(c, raw) = v
  BY <1>1 DEF Control, ValueAt
<1>3. f.page = GlobalAt("page", i)
  BY DEF Describes
<1> HIDE DEF v
<1>4. v # 0 => Speaks(c, raw)
  BY <1>2 DEF Speaks
<1>5. CASE f.variable
  <2> SUFFICES ASSUME Speaks(c, raw), ~Departs(c, v)
               PROVE  v # 0 /\ Stands(c, v) = {UsageForValue(f, k, v)}
    BY <1>1, <1>2, <1>4 DEF c, v
  <2>1. v # 0
    BY <1>1, <1>2, <1>5 DEF Speaks
  <2>2. ~Mixed(i) /\ ~Rebound(i) /\ ~Beyond(i, k)
    BY <1>1, <1>5 DEF Departs
  <2>3. UsageForValue(f, k, v) = UsageOf(i, k)
    BY <1>5, <2>2, UsageAgrees
  <2> QED
    BY <1>1, <1>5, <2>1, <2>3 DEF Stands
<1>6. CASE ~f.variable
  <2> SUFFICES ASSUME ~Departs(c, v)
               PROVE  Stands(c, v) = IF v # 0 THEN {UsageForValue(f, k, v)} ELSE {}
    BY <1>1, <1>2, <1>4 DEF c, v
  <2>1. Direct(i) /\ (v # 0 => Selected(i, v) # {}) /\ Stands(c, v) = Selected(i, v)
    BY <1>1, <1>6 DEF Departs, Stands
  <2>2. \A u \in Selected(i, v) : u = <<GlobalAt("page", i), v>> /\ v # 0
    BY <2>1, ArrayAgrees
  <2>3. UsageForValue(f, k, v) = <<GlobalAt("page", i), v>>
    BY <1>3, <1>6 DEF UsageForValue
  <2>4. CASE v # 0
    BY <2>1, <2>2, <2>3, <2>4
  <2>5. CASE v = 0
    BY <2>1, <2>2, <2>5
  <2> QED
    BY <2>4, <2>5
<1>7. f.variable \in BOOLEAN
  BY DEF Fields
<1> QED
  BY <1>1, <1>2, <1>4, <1>5, <1>6, <1>7 DEF c, v

\* The decoder's answer and the reference, element by element.
LEMMA Decoded ==
  ASSUME NEW id, NEW raw, NEW u
  PROVE  u \in Decode(id, raw) <=>
           /\ u # NoUsage
           /\ \E n \in DOMAIN fields :
                /\ fields[n].id = id
                /\ \E k \in 0 .. fields[n].count - 1 :
                     /\ ValueAt(fields[n], k, raw) # 0
                     /\ u = UsageForValue(fields[n], k, ValueAt(fields[n], k, raw))
<1> DEFINE Of(f) == {UsageForValue(f, k, ValueAt(f, k, raw)) :
                       k \in {j \in 0 .. f.count - 1 : ValueAt(f, j, raw) # 0}}
           Chosen == {fields[n] : n \in {m \in DOMAIN fields : fields[m].id = id}}
           All == UNION {Of(f) : f \in Chosen}
<1>1. u \in Decode(id, raw) <=> u \in All /\ u # NoUsage
  <2>1. Decode(id, raw) = All \ {NoUsage}
    BY DEF Decode
  <2> HIDE DEF All
  <2> QED
    BY <2>1
<1>2. u \in All <=> \E f \in Chosen : u \in Of(f)
  <2> HIDE DEF Of, Chosen
  <2> QED
    OBVIOUS
<1>3. \A f : u \in Of(f) <=> \E k \in 0 .. f.count - 1 :
                /\ ValueAt(f, k, raw) # 0 /\ u = UsageForValue(f, k, ValueAt(f, k, raw))
  OBVIOUS
<1>4. \A f : f \in Chosen <=> \E n \in DOMAIN fields : fields[n].id = id /\ f = fields[n]
  OBVIOUS
<1> HIDE DEF Of, Chosen, All
<1> QED
  BY <1>1, <1>2, <1>3, <1>4

LEMMA Meaning ==
  ASSUME NEW id, NEW raw, NEW u
  PROVE  u \in Active(Layout, id, raw) <=>
           /\ u # NoUsage
           /\ \E c \in Speaking(Layout, id, raw) : u \in Stands(c, Control(c, raw))
<1> DEFINE Said(c) == Stands(c, Control(c, raw))
           All == UNION {Said(c) : c \in Speaking(Layout, id, raw)}
<1>1. Active(Layout, id, raw) = All \ {NoUsage}
  BY DEF Active
<1>2. u \in All <=> \E c \in Speaking(Layout, id, raw) : u \in Said(c)
  <2> HIDE DEF Said
  <2> QED
    OBVIOUS
<1> HIDE DEF All
<1> QED
  BY <1>1, <1>2

LEMMA DecoderAgrees ==
  ASSUME ParserTypeOK, Follows, offset = Len(report_map) + 1, NEW id, NEW raw,
         \A c \in Speaking(Layout, id, raw) : ~Departs(c, Control(c, raw))
  PROVE  Decode(id, raw) = Active(Layout, id, raw)
<1>1. Visible \subseteq Nat \ {0} /\ Visible \subseteq Before(offset)
  <2>1. report_map \in Seq(Items)
    BY DescriptorAssumption DEF ParserTypeOK
  <2> QED
    BY <2>1 DEF Visible, Inputs, Before
<1>2. \A n \in DOMAIN fields : fields[n] \in Fields
  BY DEF ParserTypeOK
<1>3. /\ \A n \in DOMAIN fields : \E i \in Visible : Describes(fields[n], i)
      /\ \A i \in Visible : \E n \in DOMAIN fields : Describes(fields[n], i)
  BY <1>1 DEF Follows, Described
<1>4. ASSUME NEW u \in Decode(id, raw)
      PROVE  u \in Active(Layout, id, raw)
  <2>1. u # NoUsage
    BY Decoded
  <2>2. PICK n \in DOMAIN fields :
          /\ fields[n].id = id
          /\ \E k \in 0 .. fields[n].count - 1 :
               /\ ValueAt(fields[n], k, raw) # 0
               /\ u = UsageForValue(fields[n], k, ValueAt(fields[n], k, raw))
    BY Decoded
  <2>3. PICK k \in 0 .. fields[n].count - 1 :
          /\ ValueAt(fields[n], k, raw) # 0
          /\ u = UsageForValue(fields[n], k, ValueAt(fields[n], k, raw))
    BY <2>2
  <2>4. PICK i \in Visible : Describes(fields[n], i)
    BY <1>3
  <2>5. ControlOf(i, k) \in Layout
    BY <2>4, ControlsAre DEF Describes
  <2>6. k \in Nat /\ fields[n] \in Fields /\ i \in Nat \ {0}
    BY <1>1, <1>2
  <2> DEFINE c == ControlOf(i, k)
  <2>7. c.id = id /\ Speaks(c, raw)
    BY <2>2, <2>3, <2>4, <2>6, ControlAgrees
  <2>8. c \in Speaking(Layout, id, raw)
    BY <2>5, <2>7 DEF Speaking
  <2>9. Stands(c, Control(c, raw)) = {u}
    BY <2>3, <2>4, <2>6, <2>7, <2>8, ControlAgrees
  <2> HIDE DEF c
  <2> QED
    BY <2>1, <2>8, <2>9, Meaning
<1>5. ASSUME NEW u \in Active(Layout, id, raw)
      PROVE  u \in Decode(id, raw)
  <2>1. u # NoUsage
    BY Meaning
  <2>2. PICK c \in Speaking(Layout, id, raw) : u \in Stands(c, Control(c, raw))
    BY Meaning
  <2>3. c \in Layout /\ c.id = id /\ Speaks(c, raw)
    BY DEF Speaking
  <2>4. PICK i \in Visible : \E k \in 0 .. GlobalAt("count", i) - 1 : c = ControlOf(i, k)
    BY <2>3, ControlsAre
  <2>5. PICK k \in 0 .. GlobalAt("count", i) - 1 : c = ControlOf(i, k)
    BY <2>4
  <2>6. PICK n \in DOMAIN fields : Describes(fields[n], i)
    BY <1>3
  <2>7. k \in 0 .. fields[n].count - 1
    BY <2>6 DEF Describes
  <2>8. k \in Nat /\ fields[n] \in Fields /\ i \in Nat \ {0}
    BY <1>1, <1>2
  <2>9. /\ fields[n].id = id
        /\ Stands(c, Control(c, raw)) =
             IF ValueAt(fields[n], k, raw) # 0
             THEN {UsageForValue(fields[n], k, ValueAt(fields[n], k, raw))} ELSE {}
    BY <2>2, <2>3, <2>5, <2>6, <2>8, ControlAgrees
  <2>10. /\ ValueAt(fields[n], k, raw) # 0
         /\ u = UsageForValue(fields[n], k, ValueAt(fields[n], k, raw))
    BY <2>2, <2>9
  <2> QED
    BY <2>1, <2>7, <2>9, <2>10, Decoded
<1> QED
  BY <1>4, <1>5

\* A Report Map is rejected exactly if it is broken, and otherwise every report decodes to
\* the usages that the HID rules give it, unless a control that hid.py reads in its own way
\* says something in it, for every Report Map and every report (hid.py 60-81, 91-207).
THEOREM DecoderIsRight == ParserSpec => []DecodesWhatWasMeant
<1>1. ParserTypeOK /\ FollowInv => DecodesWhatWasMeant
  <2> SUFFICES ASSUME ParserTypeOK, FollowInv PROVE DecodesWhatWasMeant
    OBVIOUS
  <2>1. status = "rejected" => Broken
    BY DEF FollowInv
  <2>2. ASSUME status = "parsed"
        PROVE  /\ ~Broken
               /\ \A id \in Ids, raw \in Reports :
                    \/ \E c \in Speaking(Layout, id, raw) : Departs(c, Control(c, raw))
                    \/ Decode(id, raw) = Active(Layout, id, raw)
    <3>1. Follows /\ offset = Len(report_map) + 1
      BY <2>2 DEF FollowInv, Follows
    <3>2. DOMAIN report_map = Before(offset)
      <4>1. report_map \in Seq(Items)
        BY DescriptorAssumption DEF ParserTypeOK
      <4> QED
        BY <3>1, <4>1 DEF Before
    <3>3. ~Broken
      <4>1. \A i \in DOMAIN report_map : Depth(i) > 0 => Depth(i) # 0
        OBVIOUS
      <4> QED
        BY <3>1, <3>2, <4>1 DEF Follows, SoundBefore, Broken
    <3> QED
      BY <3>1, <3>3, DecoderAgrees
  <2> QED
    BY <2>1, <2>2 DEF DecodesWhatWasMeant
<1>2. ParserInit => FollowInv
  BY FollowInit
<1>3. ParserTypeOK /\ FollowInv /\ [ParserNext]_parserVars => FollowInv'
  BY FollowStep
<1> QED
  BY <1>1, <1>2, <1>3, ParserTypeCorrect, PTL DEF ParserSpec
=============================================================================
