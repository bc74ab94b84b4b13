---------------------------- MODULE CaptureProofs ----------------------------
(* Machine-checked: a capture of an Android TV remote has one timer and ends   *)
(* with it, for any number of tasks and timers and channels of any length.     *)
EXTENDS AtvvCapture, SequenceTheorems, TLAPS

-----------------------------------------------------------------------------
(* What a channel holds before and after one more message.                    *)

LEMMA NoElements == Len(<<>>) = 0 /\ \A S : <<>> \in Seq(S)
OBVIOUS

LEMMA TailElements ==
  ASSUME NEW S, NEW s \in Seq(S), s # <<>>
  PROVE  /\ Tail(s) \in Seq(S) /\ Len(Tail(s)) = Len(s) - 1 /\ Head(s) = s[1] /\ Len(s) > 0
         /\ \A i \in DOMAIN Tail(s) : Tail(s)[i] = s[i + 1] /\ i + 1 \in DOMAIN s
OBVIOUS

LEMMA LastElement ==
  ASSUME NEW S, NEW s \in Seq(S), s # <<>>, Len(s) # 1
  PROVE  Tail(s) # <<>> /\ Tail(s)[Len(Tail(s))] = s[Len(s)]
<1>1. Len(s) \in Nat /\ Len(s) # 0
  BY EmptySeq
<1>2. Len(Tail(s)) = Len(s) - 1
  BY HeadTailProperties
<1>3. Len(Tail(s)) \in 1 .. Len(Tail(s)) /\ Len(Tail(s)) + 1 = Len(s)
  BY <1>1, <1>2
<1>4. Tail(s) # <<>>
  <2>1. Len(Tail(s)) # 0 /\ Len(<<>>) = 0
    BY <1>1, <1>2, NoElements
  <2> QED
    BY <2>1
<1>5. Tail(s)[Len(Tail(s))] = s[Len(Tail(s)) + 1]
  BY <1>3, HeadTailProperties
<1> QED
  BY <1>3, <1>4, <1>5

LEMMA AppendElements ==
  ASSUME NEW S, NEW s \in Seq(S), NEW e \in S
  PROVE  /\ Append(s, e) \in Seq(S) /\ Len(Append(s, e)) = Len(s) + 1
         /\ Append(s, e) # <<>>
         /\ Append(s, e)[Len(s) + 1] = e
         /\ \A i \in DOMAIN s : Append(s, e)[i] = s[i]
         /\ \A i \in DOMAIN Append(s, e) : i \in DOMAIN s \/ i = Len(s) + 1
OBVIOUS

-----------------------------------------------------------------------------
(* Android TV captures.                                                       *)

LEMMA CaptureTypeInit == Init => TypeOK
<1> SUFFICES ASSUME Init PROVE TypeOK
  OBVIOUS
<1>1. commands \in Seq({"open", "close"}) /\ Len(commands) = 0
  BY NoElements DEF Init
<1>2. notices \in Seq({"search", "stop"}) /\ Len(notices) = 0
  BY NoElements DEF Init
<1>3. /\ link \in BOOLEAN /\ mic \in BOOLEAN /\ active \in BOOLEAN
      /\ {unclosed, raced} \subseteq BOOLEAN
      /\ armed \in SUBSET Timers /\ timer \in armed \cup {NoTimer}
      /\ pc \in [Tasks -> {"idle", "calling", "written"}]
      /\ unload \in {"loaded", "closing", "flagged", "done"}
  BY DEF Init
<1> QED
  BY <1>1, <1>2, <1>3, BoundAssumption DEF TypeOK

LEMMA CaptureTypeStep == TypeOK /\ [Next]_vars => TypeOK'
<1> SUFFICES ASSUME TypeOK, [Next]_vars PROVE TypeOK'
  OBVIOUS
<1> USE SlotAssumption, BoundAssumption DEF TypeOK, Go, remote, channels, capture
<1>0. notices # <<>> => /\ Tail(notices) \in Seq({"search", "stop"})
                        /\ Len(Tail(notices)) <= MaxChannel
  BY TailElements
<1>20. Len(notices) \in Nat /\ Len(commands) \in Nat
  OBVIOUS
<1>21. \A n \in {"search", "stop"} : 
        /\ Append(notices, n) \in Seq({"search", "stop"})
        /\ Len(notices) < MaxChannel => Len(Append(notices, n)) <= MaxChannel
  BY <1>20, AppendElements
<1>22. \A n \in {"open", "close"} : 
        /\ Append(commands, n) \in Seq({"open", "close"})
        /\ Len(commands) < MaxChannel => Len(Append(commands, n)) <= MaxChannel
  BY <1>20, AppendElements
<1>1. CASE Press
  BY <1>1, <1>20, <1>21 DEF Press
<1>2. CASE Execute
  <2>1. commands' \in Seq({"open", "close"}) /\ Len(commands') <= MaxChannel
    BY <1>2, TailElements DEF Execute
  <2>2. notices' \in Seq({"search", "stop"}) /\ Len(notices') <= MaxChannel
    BY <1>2, <1>21 DEF Execute
  <2> QED
    BY <1>2, <2>1, <2>2 DEF Execute
<1>3. CASE EndAudio
  BY <1>3, <1>21 DEF EndAudio
<1>4. CASE Notice
  <2>1. /\ armed' \in SUBSET Timers /\ timer' \in armed' \cup {NoTimer} /\ active' \in BOOLEAN
        /\ pc' \in [Tasks -> {"idle", "calling", "written"}]
    BY <1>4 DEF Notice, StartCapture, Begin, CancelCapture, OpenBounded
  <2> QED
    BY <1>0, <1>4, <2>1 DEF Notice
<1>5. ASSUME NEW t \in Tasks, NEW command \in {"open", "close"}, Call(t, command)
      PROVE  TypeOK'
  <2>1. commands' \in Seq({"open", "close"}) /\ Len(commands') <= MaxChannel
    BY <1>5, <1>22 DEF Call
  <2> QED
    BY <1>5, <2>1 DEF Call
<1>6. ASSUME NEW o \in Openers, OpenDone(o)
      PROVE  TypeOK'
  BY <1>6 DEF OpenDone, OpenBounded
<1>8. ASSUME NEW h \in Timers, TimerRuns(h)
      PROVE  TypeOK'
  BY <1>8 DEF TimerRuns, TimerCleared, Begin
<1>9. ASSUME NEW c \in Closers, CloseDone(c)
      PROVE  TypeOK'
  BY <1>9 DEF CloseDone, Closed
<1>10. CASE Disconnect
  <2>1. commands' \in Seq({"open", "close"}) /\ Len(commands') = 0
    BY <1>10, NoElements DEF Disconnect
  <2>2. notices' \in Seq({"search", "stop"}) /\ Len(notices') = 0
    BY <1>10, NoElements DEF Disconnect
  <2>3. /\ link' \in BOOLEAN /\ mic' \in BOOLEAN /\ active' \in BOOLEAN
        /\ {unclosed', raced'} \subseteq BOOLEAN
        /\ armed' \in SUBSET Timers /\ timer' \in armed' \cup {NoTimer}
        /\ pc' = pc /\ unload' = unload
    BY <1>10 DEF Disconnect, CancelCapture
  <2> QED
    BY <2>1, <2>2, <2>3
<1>11. CASE Connect
  BY <1>11 DEF Connect
<1>12. CASE UnloadBegins
  BY <1>12 DEF UnloadBegins, CancelCapture
<1>13. CASE UnloadFlags
  BY <1>13 DEF UnloadFlags
<1>14. CASE UnloadDone
  BY <1>14 DEF UnloadDone
<1>15. CASE UNCHANGED vars
  BY <1>15 DEF vars
<1> QED
  BY <1>1, <1>2, <1>3, <1>4, <1>5, <1>6, <1>8, <1>9, <1>10, <1>11, <1>12, <1>13,
     <1>14, <1>15
  DEF Next, OpenTask, CloseTask, UnloadTask, Tasks

\* Every variable keeps to its values, for any number of tasks and timers, and the timer
\* the manager knows of is one the event loop will run.
THEOREM CaptureTypeCorrect == Spec => []TypeOK
BY CaptureTypeInit, CaptureTypeStep, PTL DEF Spec

Sent == {commands[i] : i \in DOMAIN commands}
Closing == \E c \in Closers : pc[c] # "idle"

\* A link that is down carries nothing, and the unload awaits only its own command.
LinkDown == ~link => ~mic /\ commands = <<>> /\ notices = <<>>
UnloadAwaits == pc[Unload] # "idle" => unload = "closing"

\* A search that is under way is alone, ...
Searched ==
  "search" \in Waiting =>
    /\ notices = <<"search">> /\ commands = <<>> /\ NoTask
    /\ unload = "loaded"

\* ... and so is the task that opens the microphone for it.
OneOpener ==
  \A o \in Openers : pc[o] # "idle" =>
    /\ \A t \in Tasks \ {o} : pc[t] = "idle"
    /\ notices = <<>> /\ timer = NoTimer /\ ~active /\ unload = "loaded"
    /\ Sent \subseteq {"open"}

\* The flag is that of a capture with a timer or of one being closed.
OneTimer ==
  /\ armed \subseteq {timer}
  /\ timer # NoTimer => active /\ ~Closing
  /\ active => timer # NoTimer \/ Closing

\* Somebody will see to a microphone that is open or about to be, unless BlueZ refused
\* what would close it, ...
Attended ==
  WillBeOpen => \/ timer # NoTimer \/ unclosed
                \/ \E o \in Openers : pc[o] = "written"
                \/ \E c \in Closers \cup {Unload} : pc[c] = "calling"

\* ... and one whose end is announced or ordered is not opened behind that.
Ending == "stop" \in Waiting \/ "close" \in Sent => ~WillBeOpen

Unloaded == unload # "loaded" => timer = NoTimer /\ ~Opening

Parts == Searched /\ OneOpener /\ OneTimer /\ Attended /\ Ending /\ Unloaded

CaptureInv == TypeOK /\ LinkDown /\ UnloadAwaits /\ (~raced => Parts)

\* What the channels do to what is asked of them.
LEMMA NoticesOneMore ==
  ASSUME TypeOK, NEW n \in {"search", "stop"}, notices' = Append(notices, n)
  PROVE  Waiting' = Waiting \cup {n} /\ (notices = <<>> => notices' = <<n>>)
<1>1. notices \in Seq({"search", "stop"}) /\ Len(notices) \in Nat
  BY DEF TypeOK
<1>2. Waiting' \subseteq Waiting \cup {n}
  BY <1>1, AppendElements DEF Waiting
<1>3. Waiting \subseteq Waiting'
  BY <1>1, AppendElements DEF Waiting
<1>4. n \in Waiting'
  BY <1>1, AppendElements DEF Waiting
<1>5. notices = <<>> => notices' = <<n>>
  OBVIOUS
<1> QED
  BY <1>2, <1>3, <1>4, <1>5

LEMMA NoticesOneLess ==
  ASSUME TypeOK, notices # <<>>, notices' = Tail(notices)
  PROVE  /\ Waiting' \subseteq Waiting /\ Head(notices) \in Waiting
         /\ Len(notices) = 1 => notices' = <<>>
<1>1. notices \in Seq({"search", "stop"})
  BY DEF TypeOK
<1>2. Waiting' \subseteq Waiting
  BY <1>1, TailElements DEF Waiting
<1>3. Head(notices) \in Waiting
  BY <1>1, TailElements DEF Waiting
<1>4. Len(notices) = 1 => notices' = <<>>
  BY <1>1, TailElements
<1> QED
  BY <1>2, <1>3, <1>4

LEMMA NoNotices ==
  ASSUME notices = <<>>
  PROVE  Waiting = {}
BY DEF Waiting

LEMMA CommandsOneMore ==
  ASSUME TypeOK, NEW n \in {"open", "close"}, commands' = Append(commands, n)
  PROVE  /\ Sent' = Sent \cup {n}
         /\ WillBeOpen' = (n = "open")
<1>1. commands \in Seq({"open", "close"}) /\ Len(commands) \in Nat
  BY DEF TypeOK
<1>2. Sent' \subseteq Sent \cup {n}
  BY <1>1, AppendElements DEF Sent
<1>3. Sent \subseteq Sent'
  BY <1>1, AppendElements DEF Sent
<1>4. n \in Sent'
  BY <1>1, AppendElements DEF Sent
<1>5. WillBeOpen' = (n = "open")
  BY <1>1, AppendElements DEF WillBeOpen
<1> QED
  BY <1>2, <1>3, <1>4, <1>5

\* Executing a command changes nothing about what will become of the microphone.
LEMMA CommandsOneLess ==
  ASSUME TypeOK, Execute
  PROVE  /\ Sent' \subseteq Sent /\ Head(commands) \in Sent
         /\ WillBeOpen' = WillBeOpen
<1>1. /\ commands \in Seq({"open", "close"}) /\ Len(commands) \in Nat
      /\ commands # <<>> /\ commands' = Tail(commands)
      /\ Head(commands) = "open" => mic'
      /\ Head(commands) # "open" => ~mic'
  BY DEF TypeOK, Execute
<1>2. Sent' \subseteq Sent
  BY <1>1, TailElements DEF Sent
<1>3. Head(commands) \in Sent
  BY <1>1, TailElements DEF Sent
<1>4. CASE Len(commands) = 1
  <2>1. commands' = <<>> /\ Head(commands) = commands[Len(commands)]
    BY <1>1, <1>4, TailElements
  <2> QED
    BY <1>1, <1>2, <1>3, <2>1 DEF WillBeOpen, TypeOK, Execute
<1>5. CASE Len(commands) # 1
  <2>1. commands' # <<>> /\ commands'[Len(commands')] = commands[Len(commands)]
    BY <1>1, <1>5, LastElement
  <2> QED
    BY <1>1, <1>2, <1>3, <2>1 DEF WillBeOpen
<1> QED
  BY <1>4, <1>5

LEMMA CaptureInit == Init => CaptureInv
<1> SUFFICES ASSUME Init PROVE CaptureInv
  OBVIOUS
<1>1. TypeOK /\ Waiting = {} /\ Sent = {}
  BY CaptureTypeInit, NoNotices DEF Init, Sent
<1>2. ~Opening /\ ~Closing /\ pc[Unload] = "idle" /\ ~WillBeOpen
  BY DEF Init, Tasks, Opening, Closing, WillBeOpen
<1> QED
  BY <1>1, <1>2
  DEF Init, CaptureInv, LinkDown, UnloadAwaits, Parts, Searched, OneOpener, OneTimer,
      Attended, Ending, Unloaded, Opening, Closing

\* A press opens at most one capture: what the parts say survives every step that
\* `raced` does not record.
LEMMA CaptureStep ==
  ASSUME CaptureInv, Next
  PROVE  LinkDown' /\ UnloadAwaits' /\ (~raced' => Parts')
<1> USE CaptureInv, SlotAssumption
<1> USE DEF CaptureInv, TypeOK, Tasks, Go, remote, channels, capture, LinkDown,
UnloadAwaits,
            Parts, Searched, OneOpener, OneTimer, Attended, Ending, Unloaded,
            Opening, Closing, NoTask, Quiet, CanWrite, Stopping
<1>1. CASE Press
  <2>1. /\ Waiting' = Waiting \cup {"search"}
        /\ notices = <<>> => notices' = <<"search">> /\ Waiting = {}
    BY <1>1, NoticesOneMore, NoNotices DEF Press
  <2>2. WillBeOpen' = WillBeOpen /\ Sent' = Sent
    BY <1>1 DEF Press, WillBeOpen, Sent
  <2>3. LinkDown' /\ UnloadAwaits'
    BY <1>1 DEF Press
  <2>4. ASSUME ~raced' PROVE Parts'
    <3>1. Parts /\ Quiet /\ unload = "loaded"
      BY <1>1, <2>4 DEF Press
    <3>2. Searched' /\ OneOpener' /\ OneTimer'
      BY <1>1, <2>1, <3>1 DEF Press
    <3>3. Sent = {}
      BY <3>1 DEF Sent
    <3>4. Attended' /\ Ending' /\ Unloaded'
      BY <1>1, <2>1, <2>2, <3>1, <3>3 DEF Press
    <3> QED
      BY <3>2, <3>4
  <2> QED
    BY <2>3, <2>4
<1>2. CASE Execute
  <2>1. Sent' \subseteq Sent /\ Head(commands) \in Sent /\ WillBeOpen' = WillBeOpen
    BY <1>2, CommandsOneLess
  <2>2. \/ notices' = notices /\ Waiting' = Waiting
        \/ Head(commands) = "close" /\ Waiting' = Waiting \cup {"stop"}
    <3>1. CASE notices' = notices
      BY <1>2, <3>1 DEF Execute, Waiting
    <3>2. CASE Head(commands) = "close" /\ notices' = Append(notices, "stop")
      BY <3>2, NoticesOneMore
    <3> QED
      BY <1>2, <3>1, <3>2 DEF Execute
  <2>3. LinkDown' /\ UnloadAwaits'
    BY <1>2 DEF Execute
  <2>4. ASSUME ~raced' PROVE Parts'
    <3>1. Parts /\ commands # <<>>
      BY <1>2, <2>4 DEF Execute
    <3>2. Searched' /\ OneTimer' /\ Unloaded'
      BY <1>2, <2>2, <3>1 DEF Execute
    <3>3. OneOpener'
      BY <1>2, <2>1, <2>2, <3>1 DEF Execute
    <3>4. Attended' /\ Ending'
      BY <1>2, <2>1, <2>2, <3>1 DEF Execute
    <3> QED
      BY <3>2, <3>3, <3>4
  <2> QED
    BY <2>3, <2>4
<1>3. CASE EndAudio
  <2>1. Waiting' = Waiting \cup {"stop"} /\ (notices = <<>> => Waiting = {})
    BY <1>3, NoticesOneMore, NoNotices DEF EndAudio
  <2>2. Sent' = Sent
    BY <1>3 DEF EndAudio, Sent
  <2>3. LinkDown' /\ UnloadAwaits'
    BY <1>3 DEF EndAudio
  <2>4. ASSUME ~raced' PROVE Parts'
    <3>1. Parts /\ Quiet
      BY <1>3, <2>4 DEF EndAudio
    <3>2. ~WillBeOpen'
      BY <1>3, <3>1 DEF EndAudio, WillBeOpen
    <3>3. Searched' /\ OneTimer' /\ Unloaded' /\ OneOpener'
      BY <1>3, <2>1, <3>1 DEF EndAudio
    <3> QED
      BY <3>2, <3>3
  <2> QED
    BY <2>3, <2>4
<1>4. CASE Notice
  <2>1. /\ Waiting' \subseteq Waiting /\ Head(notices) \in Waiting
        /\ notices = <<"search">> => notices' = <<>> /\ Waiting' = {}
    <3>1. Waiting' \subseteq Waiting /\ Head(notices) \in Waiting
      BY <1>4, NoticesOneLess DEF Notice
    <3>2. notices = <<"search">> => notices' = <<>>
      BY <1>4, NoticesOneLess DEF Notice
    <3>3. notices' = <<>> => Waiting' = {}
      BY DEF Waiting
    <3> QED
      BY <3>1, <3>2, <3>3
  <2>2. WillBeOpen' = WillBeOpen /\ Sent' = Sent
    BY <1>4 DEF Notice, WillBeOpen, Sent
  <2>3. LinkDown' /\ UnloadAwaits'
    BY <1>4 DEF Notice, StartCapture, Begin
  <2>4. ASSUME ~raced' PROVE Parts'
    <3>1. Parts /\ link
      BY <1>4, <2>4 DEF Notice
    <3>2. CASE Head(notices) = "search"
      <4>1. notices = <<"search">> /\ commands = <<>> /\ NoTask /\ unload = "loaded"
        BY <2>1, <3>1, <3>2
      <4>2. notices' = <<>> /\ Waiting' = {} /\ Sent = {}
        BY <2>1, <4>1 DEF Sent
      <4>3. CASE active
        <5>1. UNCHANGED <<capture, pc, unload, unclosed>>
          BY <1>4, <3>2, <4>1, <4>3 DEF Notice, StartCapture
        <5> QED
          BY <2>2, <3>1, <4>1, <4>2, <5>1
      <4>4. CASE ~active
        <5>1. /\ CancelCapture /\ UNCHANGED <<unload, unclosed>>
              /\ \E o \in Openers : pc[o] = "idle" /\ Go(o, "calling")
          BY <1>4, <3>1, <3>2, <4>1, <4>4 DEF Notice, StartCapture, Begin
        <5>2. PICK o \in Openers : pc' = [pc EXCEPT ![o] = "calling"]
          BY <5>1
        <5>3. armed' = {} /\ timer' = NoTimer /\ ~active' /\ timer = NoTimer
              /\ (WillBeOpen => unclosed)
          BY <3>1, <4>1, <4>4, <5>1 DEF CancelCapture
        <5>4. /\ \A t \in Tasks \ {o} : pc'[t] = "idle"
              /\ \A c \in Closers : pc'[c] = "idle"
          BY <4>1, <5>2
        <5> QED
          BY <2>2, <4>1, <4>2, <5>1, <5>3, <5>4
      <4> QED
        BY <4>3, <4>4
    <3>3. CASE Head(notices) # "search" /\ unload # "done"
      <4>1. CancelCapture /\ UNCHANGED <<pc, unload, unclosed>> /\ "stop" \in Waiting /\ ~WillBeOpen
        BY <1>4, <2>1, <3>1, <3>3 DEF Notice
      <4>2. armed' = {} /\ timer' = NoTimer /\ ~active'
        BY <3>1, <4>1 DEF CancelCapture
      <4>3. notices # <<>> /\ "search" \notin Waiting
        BY <1>4, <2>1, <3>1, <3>3 DEF Notice
      <4> QED
        BY <2>1, <2>2, <3>1, <4>1, <4>2, <4>3
    <3>4. CASE Head(notices) # "search" /\ unload = "done"
      <4>1. UNCHANGED <<capture, pc, unload, unclosed>>
        BY <1>4, <3>4 DEF Notice
      <4>2. notices # <<>> /\ "search" \notin Waiting
        BY <1>4, <2>1, <3>1, <3>4 DEF Notice
      <4> QED
        BY <2>1, <2>2, <3>1, <4>1, <4>2
    <3> QED
      BY <3>2, <3>3, <3>4
  <2> QED
    BY <2>3, <2>4
<1>5. ASSUME NEW o \in Openers, Call(o, "open")
      PROVE  LinkDown' /\ UnloadAwaits' /\ (~raced' => Parts')
  <2>1. LinkDown' /\ UnloadAwaits'
    BY <1>5 DEF Call
  <2>2. ASSUME ~raced' PROVE Parts'
    <3>1. /\ Parts /\ pc[o] = "calling" /\ Waiting = {} /\ Waiting' = {}
          /\ \A t \in Tasks \ {o} : pc'[t] = "idle"
          /\ UNCHANGED <<notices, capture, unload>>
      BY <1>5, <2>2, NoNotices DEF Call, Waiting
    <3>2. CASE commands' = Append(commands, "open") /\ link /\ pc'[o] = "written"
      <4>1. Sent' = Sent \cup {"open"}
        BY <3>2, CommandsOneMore
      <4> QED
        BY <3>1, <3>2, <4>1
    <3>3. CASE commands' = commands /\ pc'[o] = "idle" /\ unclosed' = unclosed
      <4>1. Sent' = Sent /\ WillBeOpen' = WillBeOpen
        BY <1>5, <3>3 DEF Call, Sent, WillBeOpen
      <4>2. /\ \A t \in Tasks : pc'[t] = "idle"
            /\ WillBeOpen => unclosed
        BY <3>1, <3>3
      <4> QED
        BY <3>1, <3>3, <4>1, <4>2
    <3> QED
      BY <1>5, <3>2, <3>3 DEF Call
  <2> QED
    BY <2>1, <2>2
<1>6. ASSUME NEW t \in Closers \cup {Unload}, Call(t, "close")
      PROVE  LinkDown' /\ UnloadAwaits' /\ (~raced' => Parts')
  <2>1. LinkDown' /\ UnloadAwaits'
    BY <1>6 DEF Call
  <2>2. ASSUME ~raced' PROVE Parts'
    <3>1. /\ Parts /\ pc[t] = "calling" /\ ~Opening /\ "search" \notin Waiting
          /\ pc'[t] # "idle" /\ \A u \in Tasks \ {t} : pc'[u] = pc[u]
          /\ Waiting' = Waiting /\ UNCHANGED <<notices, capture, unload>>
      BY <1>6, <2>2 DEF Call, Waiting
    <3>2. WillBeOpen' => unclosed'
      <4>1. CASE commands' = Append(commands, "close")
        BY <4>1, CommandsOneMore
      <4>2. CASE commands' = commands
        BY <1>6, <2>2, <4>2 DEF Call, WillBeOpen
      <4> QED
        BY <1>6, <4>1, <4>2 DEF Call
    <3>3. ~Opening' /\ Closing' = Closing
      BY <3>1
    <3>4. Ending'
      <4>1. CASE commands' = Append(commands, "close")
        BY <4>1, CommandsOneMore
      <4>2. CASE commands' = commands
        BY <1>6, <3>1, <4>2 DEF Call, WillBeOpen, Sent
      <4> QED
        BY <1>6, <4>1, <4>2 DEF Call
    <3> QED
      BY <3>1, <3>2, <3>3, <3>4
  <2> QED
    BY <2>1, <2>2
<1>7. ASSUME NEW o \in Openers, OpenDone(o)
      PROVE  LinkDown' /\ UnloadAwaits' /\ (~raced' => Parts')
  <2>1. LinkDown' /\ UnloadAwaits'
    BY <1>7 DEF OpenDone
  <2>2. ASSUME ~raced' PROVE Parts'
    <3>0. /\ Parts /\ pc[o] # "idle" /\ pc' = [pc EXCEPT ![o] = "idle"]
          /\ \A t \in Tasks \ {o} : pc[t] = "idle"
      BY <1>7, <2>2 DEF OpenDone
    <3>1. /\ Waiting = {} /\ Waiting' = {} /\ Sent' = Sent /\ Sent \subseteq {"open"}
          /\ unload = "loaded" /\ OpenBounded(armed) /\ UNCHANGED unload
          /\ \A t \in Tasks : pc'[t] = "idle"
      BY <1>7, <3>0, NoNotices DEF OpenDone, Waiting, Sent
    <3>2. PICK h \in Timers \ armed : timer' = h /\ armed' = armed \cup {h}
      BY <3>1 DEF OpenBounded
    <3>3. armed' = {timer'} /\ timer' # NoTimer /\ active'
      <4>1. armed = {} /\ active'
        BY <3>0, <3>1 DEF OpenBounded
      <4> QED
        BY <3>2, <4>1
    <3> QED
      BY <3>0, <3>1, <3>3
  <2> QED
    BY <2>1, <2>2
<1>9. ASSUME NEW h \in Timers, TimerRuns(h)
      PROVE  LinkDown' /\ UnloadAwaits' /\ (~raced' => Parts')
  <2>1. LinkDown' /\ UnloadAwaits'
    BY <1>9 DEF TimerRuns, Begin
  <2>2. ASSUME ~raced' PROVE Parts'
    <3>1. /\ Parts /\ Waiting = {} /\ Waiting' = {} /\ Sent' = Sent /\ WillBeOpen' = WillBeOpen
          /\ h \in armed /\ armed' = armed \ {h} /\ timer' = NoTimer
          /\ UNCHANGED <<unload, unclosed>>
      BY <1>9, <2>2, NoNotices DEF TimerRuns, TimerCleared, Waiting, Sent, WillBeOpen
    <3>2. timer = h /\ timer # NoTimer /\ active /\ ~Opening /\ unload = "loaded"
      BY <3>1
    <3>3. CASE CanWrite
      <4>1. PICK c \in Closers : pc' = [pc EXCEPT ![c] = "calling"]
        BY <1>9, <3>3 DEF TimerRuns, Begin
      <4>2. ~Opening' /\ Closing' /\ pc'[c] = "calling"
        BY <3>2, <4>1
      <4> QED
        BY <3>1, <3>2, <4>2
    <3>4. CASE ~CanWrite
      <4>1. ~active' /\ pc' = pc /\ ~WillBeOpen
        BY <1>9, <3>2, <3>4 DEF TimerRuns, WillBeOpen
      <4> QED
        BY <3>1, <3>2, <4>1
    <3> QED
      BY <3>3, <3>4
  <2> QED
    BY <2>1, <2>2
<1>10. ASSUME NEW c \in Closers, CloseDone(c)
       PROVE  LinkDown' /\ UnloadAwaits' /\ (~raced' => Parts')
  <2>1. LinkDown' /\ UnloadAwaits'
    BY <1>10 DEF CloseDone
  <2>2. ASSUME ~raced' PROVE Parts'
    <3>1. /\ Parts /\ Closing /\ ~Opening /\ timer = NoTimer /\ timer' = NoTimer /\ ~active'
          /\ pc[c] = "written" /\ UNCHANGED <<armed, unload, unclosed, notices>>
          /\ Waiting' = Waiting /\ Sent' = Sent /\ WillBeOpen' = WillBeOpen
      BY <1>10, <2>2 DEF CloseDone, Closed, Waiting, Sent, WillBeOpen
    <3>2. pc'[c] = "idle" /\ \A u \in Tasks \ {c} : pc'[u] = pc[u]
      BY <1>10 DEF CloseDone
    <3>3. ~Opening' /\ "search" \notin Waiting
      BY <3>1, <3>2
    <3>4. Attended'
      BY <3>1, <3>2
    <3> QED
      BY <3>1, <3>3, <3>4
  <2> QED
    BY <2>1, <2>2
<1>11. CASE Disconnect
  <2>1. LinkDown' /\ UnloadAwaits'
    BY <1>11 DEF Disconnect
  <2>2. ASSUME ~raced' PROVE Parts'
    <3>1. /\ Parts /\ Waiting' = {} /\ Sent' = {} /\ ~WillBeOpen'
          /\ notices' = <<>> /\ UNCHANGED <<pc, unload>>
      BY <1>11, <2>2 DEF Disconnect, Waiting, Sent, WillBeOpen
    <3>2. \/ UNCHANGED capture
          \/ armed' = {} /\ timer' = NoTimer /\ ~active'
      BY <1>11, <3>1 DEF Disconnect, CancelCapture
    <3> QED
      BY <3>1, <3>2
  <2> QED
    BY <2>1, <2>2
<1>12. CASE Connect
  <2>1. Waiting' = Waiting /\ Sent' = Sent /\ WillBeOpen' = WillBeOpen
    BY <1>12 DEF Connect, Waiting, Sent, WillBeOpen
  <2> QED
    BY <1>12, <2>1 DEF Connect
<1>13. CASE UnloadBegins
  <2>0. Waiting' = Waiting /\ Sent' = Sent /\ WillBeOpen' = WillBeOpen
    BY <1>13 DEF UnloadBegins, Waiting, Sent, WillBeOpen
  <2>1. LinkDown' /\ UnloadAwaits'
    BY <1>13 DEF UnloadBegins
  <2>2. ASSUME ~raced' PROVE Parts'
    <3>1. Parts /\ ~Opening /\ "search" \notin Waiting /\ unload = "loaded"
      BY <1>13, <2>2 DEF UnloadBegins
    <3>2. CASE UnloadCloses
      <4>1. /\ armed' = {} /\ timer' = NoTimer /\ ~active'
            /\ pc' = [pc EXCEPT ![Unload] = IF link THEN "calling" ELSE "written"]
            /\ UNCHANGED <<link, notices>>
        BY <1>13, <3>1, <3>2 DEF UnloadBegins, CancelCapture
      <4>2. ~Opening' /\ (link => pc'[Unload] = "calling")
        BY <3>1, <4>1
      <4>3. WillBeOpen => link
        BY DEF WillBeOpen
      <4> QED
        BY <2>0, <3>1, <4>1, <4>2, <4>3
    <3>3. CASE ~UnloadCloses
      <4>1. timer = NoTimer /\ UNCHANGED <<capture, pc, unclosed, notices>>
        BY <1>13, <3>3 DEF UnloadBegins, UnloadCloses
      <4> QED
        BY <2>0, <3>1, <4>1
    <3> QED
      BY <3>2, <3>3
  <2> QED
    BY <2>1, <2>2
<1>14. CASE UnloadFlags
  <2>1. LinkDown' /\ UnloadAwaits'
    BY <1>14 DEF UnloadFlags
  <2>2. ASSUME ~raced' PROVE Parts'
    <3>1. /\ Parts /\ pc[Unload] = "written" /\ UNCHANGED <<capture, unclosed, notices>>
          /\ Waiting' = Waiting /\ Sent' = Sent /\ WillBeOpen' = WillBeOpen
          /\ unload # "loaded" /\ unload' = "flagged"
      BY <1>14, <2>2 DEF UnloadFlags, Waiting, Sent, WillBeOpen
    <3>2. pc'[Unload] = "idle" /\ \A u \in Tasks \ {Unload} : pc'[u] = pc[u]
      BY <1>14 DEF UnloadFlags
    <3>3. ~Opening' /\ "search" \notin Waiting /\ Closing' = Closing /\ timer = NoTimer
      BY <3>1, <3>2
    <3>4. Attended'
      BY <3>1, <3>2, <3>3
    <3> QED
      BY <3>1, <3>3, <3>4
  <2> QED
    BY <2>1, <2>2
<1>15. CASE UnloadDone
  <2>1. /\ Waiting' = Waiting /\ Sent' = Sent /\ WillBeOpen' = WillBeOpen
        /\ unload = "flagged" /\ unload' = "done"
        /\ UNCHANGED <<remote, channels, capture, pc, unclosed, raced>>
    BY <1>15 DEF UnloadDone, Waiting, Sent, WillBeOpen
  <2> QED
    BY <2>1
<1> QED
  BY <1>1, <1>2, <1>3, <1>4, <1>5, <1>6, <1>7, <1>9, <1>10, <1>11, <1>12, <1>13,
     <1>14, <1>15
  DEF Next, OpenTask, CloseTask, UnloadTask

LEMMA CaptureStutter ==
  ASSUME CaptureInv, UNCHANGED vars
  PROVE  LinkDown' /\ UnloadAwaits' /\ (~raced' => Parts')
BY DEF vars, remote, channels, capture, CaptureInv, LinkDown, UnloadAwaits, Parts, Searched,
       OneOpener, OneTimer, Attended, Ending, Unloaded, Opening, Closing, NoTask, Waiting,
       Sent, WillBeOpen

\* Unless captures raced, a capture has one timer, the flag is that of a capture with a
\* timer, and no microphone is open without one unless BlueZ refused to close it, for
\* channels of any length.
THEOREM CapturesAreBounded == Spec => []CaptureBounded
<1>1. CaptureInv => CaptureBounded
  <2> SUFFICES ASSUME CaptureInv, ~raced
               PROVE  CaptureBounded
    BY DEF CaptureBounded, Settled
  <2>1. Quiet => /\ ~Opening /\ ~Closing /\ (mic => WillBeOpen)
                 /\ \A t \in Tasks : pc[t] = "idle"
    BY DEF Quiet, NoTask, Opening, Closing, Tasks, WillBeOpen
  <2> QED
    BY <2>1 DEF CaptureInv, Parts, OneTimer, Attended, Unloaded, CaptureBounded, Settled,
       Tasks
<1>2. CaptureInv /\ [Next]_vars => CaptureInv'
  BY CaptureTypeStep, CaptureStep, CaptureStutter DEF CaptureInv
<1> QED
  BY CaptureInit, <1>1, <1>2, PTL DEF Spec
=============================================================================
