--------------------------- MODULE HidVoiceControl ---------------------------
(***************************************************************************)
(* Host-controlled HID voice (manager.py): remotes that do not send audio  *)
(* by themselves get a start command 150 ms after the voice button goes    *)
(* down and a stop command when it comes up.                               *)
(*                                                                         *)
(* The start task, the stop tasks of several releases and async_stop share *)
(* four flags and one remote.  Each command takes three awaits: the delay  *)
(* (start only), the look-up of the remote's command pair, and the write.  *)
(* A write that is under way reaches the remote even if its task is        *)
(* cancelled (hidraw writes run in a thread, D-Bus calls are sent).        *)
(***************************************************************************)
EXTENDS Naturals, FiniteSets

CONSTANTS
  Start,        \* the _async_start_hid_voice_command task
  StopTasks,    \* slots for the stop tasks that releases create
  Unload        \* async_stop, which may await a stop of its own

Tasks == {Start, Unload} \cup StopTasks

ASSUME TaskAssumption ==
  Start # Unload /\ Start \notin StopTasks /\ Unload \notin StopTasks

VARIABLES
  link,       \* BlueZ: the remote is connected
  streaming,  \* remote: it sends audio because of a start command
  strays,     \* writes under way whose task was cancelled
  mapped,     \* the command report is in _hid_output_report_paths
  pressed,    \* _hid_voice_button_pressed
  seen,       \* _hid_voice_packet_seen
  active,     \* _hid_voice_command_active
  pc,         \* position of each task
  cancelled,  \* the start task was cancelled and has not unwound
  unload,     \* position of async_stop
  raced       \* history, of this connection: the button went down while tasks of
              \* the press before lived, or the start command was on its way in an
              \* unload, or a write failed while the link was up

remote == <<link, streaming, strays>>
flags == <<mapped, pressed, seen, active>>
vars == <<remote, flags, pc, cancelled, unload, raced>>

Positions == {"idle", "delay", "identify", "starting", "started", "refused",
              "identifyStop", "stopping", "stopped"}

Stopping == unload \in {"flagged", "done"}
Connected == link /\ unload # "done"

Idle == strays = {} /\ \A t \in Tasks : pc[t] = "idle"

Go(t, position) == pc' = [pc EXCEPT ![t] = position]

Init ==
  /\ link = TRUE /\ streaming = FALSE /\ strays = {}
  /\ mapped = FALSE /\ pressed = FALSE /\ seen = FALSE /\ active = FALSE
  /\ pc = [t \in Tasks |-> "idle"]
  /\ cancelled = FALSE
  /\ unload = "loaded" /\ raced = FALSE

-----------------------------------------------------------------------------
(* The user and the remote.                                                *)

\* The early returns of _schedule_hid_voice_start.
MayStart == mapped /\ ~active /\ pc[Start] = "idle"

\* A decoded press of the voice button; the mapping comes before the
\* subscription that delivers it.  A report of it while it is down (another key
\* went down) starts again what has ended without a stream.  (A start task that is cancelled unwinds on
\* the next turn of the loop, before another report can come in.)
Press ==
  /\ Connected /\ mapped /\ ~cancelled
  /\ pressed' = TRUE
  /\ raced' = (raced \/ (~pressed /\ ~Idle) \/ unload # "loaded")
  /\ IF MayStart
     THEN Go(Start, "delay") /\ seen' = FALSE
     ELSE UNCHANGED <<pc, seen>>
  /\ UNCHANGED <<remote, mapped, active, cancelled, unload>>

\* The release stops a stream that is known to be open.
Release ==
  /\ Connected /\ pressed
  /\ pressed' = FALSE
  /\ IF active
     THEN \E t \in StopTasks : pc[t] = "idle" /\ Go(t, "identifyStop")
     ELSE UNCHANGED pc
  /\ UNCHANGED <<remote, mapped, seen, active, cancelled, unload, raced>>

\* A voice packet, because of a start command or because the remote is one
\* that starts by itself while the button is held.
Packet ==
  /\ Connected /\ (streaming \/ pressed)
  /\ seen' = TRUE
  /\ UNCHANGED <<remote, mapped, pressed, active, pc, cancelled, unload, raced>>

-----------------------------------------------------------------------------
(* The start task.                                                         *)

Runs(t, position) ==
  pc[t] = position /\ (t = Start => ~cancelled)

StillWanted == ~seen /\ pressed /\ Connected /\ ~Stopping

DelayOver ==
  /\ Runs(Start, "delay")
  /\ IF StillWanted THEN Go(Start, "identify") ELSE Go(Start, "idle")
  /\ UNCHANGED <<remote, flags, cancelled, unload, raced>>

\* A write goes out over hidraw or BlueZ; it is skipped only when there is no
\* hidraw node and BlueZ cannot be used.
CanWrite == link
MaySkip == ~Connected \/ Stopping \/ ~mapped

WriteStart ==
  /\ Runs(Start, "identify")
  /\ \/ CanWrite /\ Go(Start, "starting") /\ UNCHANGED active
     \/ MaySkip /\ Go(Start, "idle") /\ active' = FALSE
  /\ UNCHANGED <<remote, mapped, pressed, seen, cancelled, unload, raced>>

WriteFails == raced' = (raced \/ link)

\* The remote executes the start, or the write fails; the task still sleeps.
StartLands ==
  /\ Runs(Start, "starting")
  /\ \/ link /\ Go(Start, "started") /\ streaming' = TRUE /\ UNCHANGED raced
     \/ Go(Start, "refused") /\ UNCHANGED streaming /\ WriteFails
  /\ UNCHANGED <<link, strays, flags, cancelled, unload>>

\* Mutant: a release that came during the write is not noticed.
AfterStartHeld == "idle"

\* The button may have come up while the start command was being written.
AfterStart == IF pressed THEN "idle" ELSE "identifyStop"

StartDone ==
  /\ Runs(Start, "started")
  /\ active' = TRUE
  /\ Go(Start, AfterStart)
  /\ UNCHANGED <<remote, mapped, pressed, seen, cancelled, unload, raced>>

\* The exception is logged; the flag stays as it is.
StartFailed ==
  /\ Runs(Start, "refused")
  /\ Go(Start, "idle")
  /\ UNCHANGED <<remote, flags, cancelled, unload, raced>>

-----------------------------------------------------------------------------
(* _async_stop_hid_voice_command, in the start task, in a task of a        *)
(* release, or awaited by async_stop.                                      *)

WriteStop(t) ==
  /\ Runs(t, "identifyStop")
  /\ \/ CanWrite /\ Go(t, "stopping")
     \/ MaySkip /\ Go(t, "stopped")
  /\ UNCHANGED <<remote, flags, cancelled, unload, raced>>

StopLands(t) ==
  /\ Runs(t, "stopping")
  /\ Go(t, "stopped")
  /\ \/ link /\ streaming' = FALSE /\ UNCHANGED raced
     \/ UNCHANGED streaming /\ WriteFails
  /\ UNCHANGED <<link, strays, flags, cancelled, unload>>

\* Mutant: the flag is left set.
ClearedNever == active

\* `finally`: the flag goes down whatever became of the write.
Cleared == FALSE

StopDone(t) ==
  /\ Runs(t, "stopped")
  /\ active' = Cleared
  /\ Go(t, "idle")
  /\ unload' = IF t = Unload THEN "flagged" ELSE unload
  /\ UNCHANGED <<remote, mapped, pressed, seen, cancelled, raced>>

-----------------------------------------------------------------------------
(* Cancellation.                                                           *)

\* The write a cancelled task has under way; a link loss has failed it already.
Stray(t) ==
  CASE link /\ pc[t] = "starting" -> {"start"}
    [] link /\ pc[t] = "stopping" -> {"stop"}
    [] OTHER -> {}

\* Mutant: the cancellation is noted whether or not the task lives.
CancelAlways == cancelled' = TRUE

\* _cancel_hid_voice_start
CancelStart == cancelled' = (pc[Start] # "idle")

UnwindStart ==
  /\ cancelled
  /\ cancelled' = FALSE
  /\ Go(Start, "idle")
  /\ active' = IF pc[Start] \in {"identifyStop", "stopping", "stopped"}
               THEN FALSE ELSE active
  /\ UNCHANGED <<remote, mapped, pressed, seen, unload, raced>>

StrayLands(command) ==
  /\ command \in strays
  /\ strays' = strays \ {command}
  /\ streaming' = (command = "start")
  /\ UNCHANGED <<link, flags, pc, cancelled, unload, raced>>

-----------------------------------------------------------------------------
(* The connection and the unload.                                          *)

\* A link loss ends the stream, fails the writes and clears the state of the
\* press.
Disconnect ==
  /\ link
  /\ link' = FALSE /\ streaming' = FALSE /\ strays' = {}
  /\ IF unload = "done"
     THEN UNCHANGED <<flags, cancelled>>
     ELSE /\ CancelStart
          /\ mapped' = FALSE /\ pressed' = FALSE
          /\ seen' = FALSE /\ active' = FALSE
  /\ UNCHANGED <<pc, unload, raced>>

\* Reconnecting takes longer than the failed tasks need to end.
Connect ==
  /\ ~link /\ Idle
  /\ link' = TRUE /\ raced' = FALSE
  /\ UNCHANGED <<streaming, strays, flags, pc, cancelled, unload>>

\* The mapping finds the command report.
Map ==
  /\ Connected /\ ~Stopping /\ ~mapped
  /\ mapped' = TRUE
  /\ UNCHANGED <<remote, pressed, seen, active, pc, cancelled, unload, raced>>

\* async_stop awaits a stop of its own for a stream that is known to be open,
\* and sets _stopping.  (It may also await closing an ATVV capture, but remotes
\* with the command report have no ATVV.)
UnloadStops == active

UnloadBegins ==
  /\ unload = "loaded"
  /\ CancelStart
  /\ raced' = (raced \/ pc[Start] \notin {"idle", "delay"})
  /\ strays' = strays \cup Stray(Start)
  /\ IF UnloadStops
     THEN unload' = "stopping" /\ Go(Unload, "identifyStop")
     ELSE unload' = "flagged" /\ UNCHANGED pc
  /\ UNCHANGED <<link, streaming, flags>>

\* The rest of async_stop; then Home Assistant cancels the entry's tasks.
UnloadDone ==
  /\ unload = "flagged"
  /\ unload' = "done"
  /\ strays' = strays \cup UNION {Stray(t) : t \in Tasks}
  /\ pc' = [t \in Tasks |-> "idle"]
  /\ cancelled' = FALSE
  /\ active' = FALSE
  /\ UNCHANGED <<link, streaming, mapped, pressed, seen, raced>>

-----------------------------------------------------------------------------
StartTask ==
  \/ DelayOver \/ WriteStart \/ StartLands \/ StartDone \/ StartFailed
  \/ UnwindStart

StopTask(t) == WriteStop(t) \/ StopLands(t) \/ StopDone(t)

Unloading == UnloadBegins \/ UnloadDone

Next ==
  \/ Press \/ Release \/ Packet
  \/ StartTask
  \/ \E t \in Tasks : StopTask(t)
  \/ \E command \in {"start", "stop"} : StrayLands(command)
  \/ Disconnect \/ Connect \/ Map
  \/ Unloading

Spec == Init /\ [][Next]_vars

\* Tasks run on and writes are answered; nobody has to press, release,
\* connect or unload.
Fairness ==
  /\ WF_vars(StartTask)
  /\ \A t \in Tasks : WF_vars(StopTask(t))
  /\ \A command \in {"start", "stop"} : WF_vars(StrayLands(command))
  /\ WF_vars(UnloadDone)

LiveSpec == Spec /\ Fairness

-----------------------------------------------------------------------------
\* Every variable keeps to the values its code counterpart can take, and only
\* the start task is ever cancelled before the unload ends.
TypeOK ==
  /\ link \in BOOLEAN /\ streaming \in BOOLEAN
  /\ strays \in SUBSET {"start", "stop"}
  /\ mapped \in BOOLEAN /\ pressed \in BOOLEAN
  /\ seen \in BOOLEAN /\ active \in BOOLEAN
  /\ pc \in [Tasks -> Positions]
  /\ cancelled \in BOOLEAN
  /\ cancelled => pc[Start] # "idle"
  /\ unload \in {"loaded", "stopping", "flagged", "done"}
  /\ raced \in BOOLEAN

\* Nothing is under way, and no step of this connection fell into another press,
\* a failed write or an unload in the way `raced` records.
Settled == Idle /\ ~raced

\* When nothing is under way, the flag says what the remote does, and the remote
\* does what the button says: it is silent when the button is up, also after a
\* release that raced the start command, and it has been started when the button
\* is down and it sends nothing by itself.  An unloaded entry leaves it silent.
RemoteFollowsButton ==
  /\ Settled /\ unload = "loaded" =>
       /\ active = streaming
       /\ ~pressed => ~streaming
       /\ pressed /\ ~seen => streaming
  /\ Settled /\ unload = "done" => ~streaming

\* Once the button is up the stream ends, unless it goes down again or presses
\* raced, and the flag comes down, whatever raced or failed: a flag that is stuck
\* would make every later press look like one of an open stream and never start
\* another.
ReleaseEndsVoice ==
  /\ ~pressed /\ streaming ~> pressed \/ ~streaming \/ raced
  /\ ~pressed /\ active ~> pressed \/ ~active
=============================================================================
