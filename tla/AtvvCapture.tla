----------------------------- MODULE AtvvCapture -----------------------------
(***************************************************************************)
(* Android TV voice capture (manager.py).  The remote announces a press of *)
(* its voice button (control opcode 0x08); the manager answers MIC_OPEN    *)
(* and five seconds later MIC_CLOSE; the remote reports the end of the     *)
(* audio (opcode 0x00).                                                    *)
(*                                                                         *)
(* The commands are GATT writes without response: BlueZ answers the D-Bus  *)
(* call when it has queued the command, and the remote gets it later.      *)
(* Commands and notifications are two FIFO channels that cross each other. *)
(***************************************************************************)
EXTENDS Naturals, Sequences, FiniteSets

CONSTANTS
  Openers,     \* slots for _async_start_atvv_capture
  Closers,     \* slots for _async_close_atvv_capture
  Unload,      \* the MIC_CLOSE that async_stop writes itself
  Timers,      \* slots for TimerHandles of the event loop
  NoTimer,     \* None in _atvv_close_timer
  MaxChannel   \* bound on the length of each channel

Tasks == Openers \cup Closers \cup {Unload}

ASSUME SlotAssumption ==
  /\ Openers \cap Closers = {} /\ Unload \notin Openers \cup Closers
  /\ NoTimer \notin Timers
ASSUME BoundAssumption == MaxChannel \in Nat \ {0}

VARIABLES
  link,      \* BlueZ: the remote is connected
  mic,       \* remote: it sends audio
  commands,  \* the channel to the remote
  notices,   \* the channel from the remote
  active,    \* _atvv_capture_active
  timer,     \* _atvv_close_timer
  armed,     \* timers the event loop will run
  pc,        \* position of each task
  unload,    \* position of async_stop
  unclosed,  \* history: BlueZ has refused the MIC_CLOSE of a stream that goes on, and
             \* taken no command since
  raced      \* history: the button went down while tasks or messages of the press
             \* before were under way, or the audio or the timer of a capture ended
             \* while messages were, or an unload met a capture being opened

remote == <<link, mic>>
channels == <<commands, notices>>
capture == <<active, timer, armed>>
vars == <<remote, channels, capture, pc, unload, unclosed, raced>>

Stopping == unload \in {"flagged", "done"}

\* The conditions under which _async_write_atvv does not skip the write.
CanWrite == link /\ ~Stopping

Opening == \E o \in Openers : pc[o] # "idle"
Waiting == {notices[i] : i \in DOMAIN notices}
NoTask == \A t \in Tasks : pc[t] = "idle"
Quiet == NoTask /\ commands = <<>> /\ notices = <<>>

\* Whether the microphone is open once the remote has executed what is sent.
WillBeOpen ==
  IF commands = <<>> THEN mic ELSE commands[Len(commands)] = "open"

Go(t, position) == pc' = [pc EXCEPT ![t] = position]

\* A new task of one kind makes its call.
Begin(kind) == \E t \in kind : pc[t] = "idle" /\ Go(t, "calling")

Init ==
  /\ link = TRUE /\ mic = FALSE
  /\ commands = <<>> /\ notices = <<>>
  /\ active = FALSE /\ timer = NoTimer /\ armed = {}
  /\ pc = [t \in Tasks |-> "idle"]
  /\ unload = "loaded" /\ unclosed = FALSE /\ raced = FALSE

-----------------------------------------------------------------------------
(* The remote.                                                             *)

\* (The bound leaves room for the notice of a MIC_CLOSE.)
Press ==
  /\ link /\ Len(notices) + 1 < MaxChannel
  /\ notices' = Append(notices, "search")
  /\ raced' = (raced \/ ~Quiet \/ unload # "loaded")
  /\ UNCHANGED <<remote, commands, capture, pc, unload, unclosed>>

\* The remote executes a command; closing an open stream ends its audio.
Execute ==
  /\ commands # <<>>
  /\ commands' = Tail(commands)
  /\ \/ /\ Head(commands) = "open"
        /\ mic' = TRUE /\ UNCHANGED notices
     \/ /\ Head(commands) = "close" /\ mic /\ Len(notices) < MaxChannel
        /\ mic' = FALSE /\ notices' = Append(notices, "stop")
     \/ /\ Head(commands) = "close" /\ ~mic
        /\ UNCHANGED <<mic, notices>>
  /\ UNCHANGED <<link, capture, pc, unload, unclosed, raced>>

\* The remote ends the audio by itself.
EndAudio ==
  /\ link /\ mic /\ Len(notices) < MaxChannel
  /\ mic' = FALSE /\ notices' = Append(notices, "stop") /\ unclosed' = FALSE
  /\ raced' = (raced \/ ~Quiet)
  /\ UNCHANGED <<link, commands, capture, pc, unload>>

-----------------------------------------------------------------------------
(* The handlers.                                                           *)

\* _cancel_atvv_capture
CancelCapture ==
  /\ armed' = armed \ {timer} /\ timer' = NoTimer /\ active' = FALSE

\* Mutant: the capture is marked, but nothing will close it.
OpenUnbounded(others) == active' = TRUE /\ UNCHANGED <<timer, armed>>

\* What _async_start_atvv_capture does after the write, beside the other timers that
\* are armed.
OpenBounded(others) ==
  /\ active' = TRUE
  /\ \E h \in Timers \ others : timer' = h /\ armed' = others \cup {h}

\* A second search is ignored only when the first capture is open; a write that
\* is skipped looks like one that succeeded.
StartCapture ==
  IF active
  THEN UNCHANGED <<capture, pc>>
  ELSE \/ /\ CanWrite
          /\ CancelCapture
          /\ Begin(Openers)
       \/ ~CanWrite /\ OpenBounded(armed \ {timer}) /\ UNCHANGED pc

\* The control branch of _async_bluez_value_changed; nothing listens any more
\* after the unload.
Notice ==
  /\ notices # <<>>
  /\ notices' = Tail(notices)
  /\ \/ Head(notices) = "search" /\ unload # "done" /\ StartCapture
     \/ Head(notices) = "stop" /\ unload # "done" /\ CancelCapture /\ UNCHANGED pc
     \/ unload = "done" /\ UNCHANGED <<capture, pc>>
  /\ UNCHANGED <<remote, commands, unload, unclosed, raced>>

\* BlueZ takes a command, or refuses it: always when the link is down, and sometimes
\* when it is up.  A task whose MIC_OPEN is refused has nothing more to do; what follows
\* a MIC_CLOSE is the same either way.
Call(t, command) ==
  /\ pc[t] = "calling"
  /\ \/ /\ link /\ Len(commands) < MaxChannel
        /\ commands' = Append(commands, command) /\ Go(t, "written")
        /\ unclosed' = FALSE
     \/ /\ Go(t, IF command = "open" THEN "idle" ELSE "written")
        /\ unclosed' = (unclosed \/ (command = "close" /\ WillBeOpen /\ ~raced))
        /\ UNCHANGED commands
  /\ UNCHANGED <<remote, notices, capture, unload, raced>>

\* The task goes on after MIC_OPEN; the unload has cancelled it meanwhile.
OpenDone(o) ==
  /\ pc[o] = "written"
  /\ Go(o, "idle")
  /\ IF unload = "done" THEN UNCHANGED capture ELSE OpenBounded(armed)
  /\ UNCHANGED <<remote, channels, unload, unclosed, raced>>

\* Mutant: the timer that has run is still taken for a pending one.
TimerKept == timer

TimerCleared == NoTimer

\* _schedule_atvv_close: it clears the current timer, whichever one ran.  A
\* close that is skipped has no await.
TimerRuns(h) ==
  /\ h \in armed
  /\ raced' = (raced \/ notices # <<>>)
  /\ armed' = armed \ {h} /\ timer' = TimerCleared
  /\ \/ /\ CanWrite /\ UNCHANGED active
        /\ Begin(Closers)
     \/ ~CanWrite /\ active' = FALSE /\ UNCHANGED pc
  /\ UNCHANGED <<remote, channels, unload, unclosed>>

\* Mutant: the flag is left set.
ClosedNever == active

Closed == FALSE

\* `finally` in _async_close_atvv_capture.
CloseDone(c) ==
  /\ pc[c] = "written"
  /\ Go(c, "idle")
  /\ active' = Closed
  /\ UNCHANGED <<remote, channels, timer, armed, unload, unclosed, raced>>

-----------------------------------------------------------------------------
(* The connection and the unload.                                          *)

Disconnect ==
  /\ link
  /\ link' = FALSE /\ mic' = FALSE /\ commands' = <<>> /\ notices' = <<>>
  /\ unclosed' = FALSE
  /\ IF unload = "done" THEN UNCHANGED capture ELSE CancelCapture
  /\ UNCHANGED <<pc, unload, raced>>

\* Reconnecting takes longer than the failed tasks need to end.
Connect ==
  /\ ~link /\ NoTask
  /\ link' = TRUE
  /\ UNCHANGED <<mic, channels, capture, pc, unload, unclosed, raced>>

\* The condition under which async_stop closes a capture.
UnloadCloses == timer # NoTimer

UnloadBegins ==
  /\ unload = "loaded"
  /\ raced' = (raced \/ Opening \/ "search" \in Waiting)
  /\ IF UnloadCloses
     THEN /\ CancelCapture
          /\ unload' = "closing"
          /\ Go(Unload, IF CanWrite THEN "calling" ELSE "written")
     ELSE unload' = "flagged" /\ UNCHANGED <<capture, pc>>
  /\ UNCHANGED <<remote, channels, unclosed>>

UnloadFlags ==
  /\ pc[Unload] = "written"
  /\ Go(Unload, "idle")
  /\ unload' = "flagged"
  /\ UNCHANGED <<remote, channels, capture, unclosed, raced>>

UnloadDone ==
  /\ unload = "flagged"
  /\ unload' = "done"
  /\ UNCHANGED <<remote, channels, capture, pc, unclosed, raced>>

-----------------------------------------------------------------------------
OpenTask(o) == Call(o, "open") \/ OpenDone(o)

CloseTask(c) == Call(c, "close") \/ CloseDone(c)

UnloadTask == Call(Unload, "close") \/ UnloadFlags \/ UnloadDone

Next ==
  \/ Press \/ Execute \/ EndAudio
  \/ Notice
  \/ \E o \in Openers : OpenTask(o)
  \/ \E h \in Timers : TimerRuns(h)
  \/ \E c \in Closers : CloseTask(c)
  \/ Disconnect \/ Connect
  \/ UnloadBegins \/ UnloadTask

Spec == Init /\ [][Next]_vars

\* Messages arrive, tasks run on and timers run out; nobody has to press, end
\* the audio, disconnect or unload.
Fairness ==
  /\ WF_vars(Execute) /\ WF_vars(Notice) /\ WF_vars(UnloadTask)
  /\ \A o \in Openers : WF_vars(OpenTask(o))
  /\ \A c \in Closers : WF_vars(CloseTask(c))
  /\ \A h \in Timers : WF_vars(TimerRuns(h))

LiveSpec == Spec /\ Fairness

-----------------------------------------------------------------------------
\* Every variable keeps to the values its code counterpart can take, and the
\* timer the manager knows of is one that will run.
TypeOK ==
  /\ link \in BOOLEAN /\ mic \in BOOLEAN /\ active \in BOOLEAN
  /\ commands \in Seq({"open", "close"}) /\ Len(commands) <= MaxChannel
  /\ notices \in Seq({"search", "stop"}) /\ Len(notices) <= MaxChannel
  /\ armed \in SUBSET Timers
  /\ timer \in armed \cup {NoTimer}
  /\ pc \in [Tasks -> {"idle", "calling", "written"}]
  /\ unload \in {"loaded", "closing", "flagged", "done"}
  /\ {unclosed, raced} \subseteq BOOLEAN

\* Nothing is under way, and no press or notice met another capture in the way
\* `raced` records.
Settled == Quiet /\ ~raced

\* A capture has exactly one timer.  When nothing is under way, the flag is that
\* of a capture with a timer, so that the next search is not ignored for good, and
\* an open microphone has one that closes it; and unless captures raced, no other
\* timer is left behind that would close a later capture too early.  An unloaded
\* entry leaves no microphone open.  A microphone whose MIC_CLOSE BlueZ refused stays
\* open: nothing repeats the command.
CaptureBounded ==
  /\ Settled => (active <=> timer # NoTimer)
  /\ Settled /\ unload = "loaded" /\ mic => timer # NoTimer \/ unclosed
  /\ ~raced => armed \subseteq {timer}
  /\ Settled /\ unload = "done" => ~mic \/ unclosed

\* Every capture ends: a microphone that was opened is closed, unless captures
\* raced or BlueZ refused to tell the remote, and the flag that makes searches be
\* ignored comes down whatever races or fails.
CaptureEnds ==
  /\ mic ~> ~mic \/ raced \/ unclosed
  /\ active ~> ~active
=============================================================================
