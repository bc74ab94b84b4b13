----------------------------- MODULE GattSession -----------------------------
(***************************************************************************)
(* The GATT session of BluetoothHidRemoteManager (manager.py): on every    *)
(* connection that BlueZ's HID profile makes, map the remote's reports and *)
(* subscribe to them; while BlueZ is not ready, one retry task probes the  *)
(* same connection; on unload give every subscription back.                *)
(*                                                                         *)
(* All code runs on one event loop, so an action is what happens between   *)
(* two awaits.  Several mapping tasks can be suspended at once; they share *)
(* _notification_paths, the report decoder and _notification_lock, and the *)
(* connection callback changes all of these between any two of their steps.*)
(***************************************************************************)
EXTENDS Naturals, FiniteSets

CONSTANTS
  Paths,          \* characteristics that can notify (HID input and ATVV)
  MapTasks,       \* slots for _async_map_report_characteristics_then_retry
  RetryTasks,     \* slots for _async_retry_metadata
  NoTask,         \* None in _metadata_retry_task; nobody on the lock
  Stop,           \* async_stop on the lock
  Probes,         \* len(_METADATA_RETRY_DELAYS)
  Watchers,       \* device watchers registered: 2 if _async_bluetooth_update
                  \* ran again while the first registration was suspended
  OpusRemote,     \* the Report Map declares the HID Opus voice report
  FastReconnect   \* may a connection be reported before the tasks of the
                  \* previous one have unwound?

Tasks == MapTasks \cup RetryTasks

ASSUME TaskAssumption ==
  /\ MapTasks \cap RetryTasks = {}
  /\ NoTask \notin Tasks /\ Stop \notin Tasks /\ NoTask # Stop
ASSUME ProbesAssumption == Probes \in Nat \ {0}
ASSUME WatchersAssumption == Watchers \in Nat \ {0}
ASSUME FlagAssumption == OpusRemote \in BOOLEAN /\ FastReconnect \in BOOLEAN

VARIABLES
  link,       \* BlueZ: the remote is connected
  subs,       \* BlueZ: subscriptions it holds for this D-Bus client
  orphans,    \* StartNotify calls in flight whose caller was cancelled
  tracked,    \* _notification_paths
  decoder,    \* _report_decoder is not None
  atvv,       \* the ATVV paths of this connection are mapped
  retry,      \* _metadata_retry_task
  lock,       \* holder of _notification_lock
  unload,     \* position of async_stop
  releasing,  \* paths _async_stop_notifications has still to release
  pc,         \* position of each task
  todo,       \* its paths still to subscribe to, after the one in flight
  flight,     \* the path of its StartNotify or StopNotify call
  hid,        \* the connection it maps has a HID service
  probe,      \* which of the delays a retry task is in
  cancelled,  \* tasks cancel() was called on and that have not resumed yet
  leaked,     \* history, of this connection: paths whose StartNotify lost its
              \* caller, or whose StopNotify failed
  outcome     \* history: how the latest mapping of this connection ended

bluez == <<link, subs, orphans>>
shared == <<tracked, decoder, atvv, retry, lock>>
unloading == <<unload, releasing>>
local == <<pc, todo, flight, hid, probe, cancelled>>
history == <<leaked, outcome>>
vars == <<bluez, shared, unloading, local, history>>

Positions == {"free", "sleep", "services", "map", "references", "lock",
              "starting", "started", "refused", "late", "caps"}

Live(t) == pc[t] # "free"
LiveTasks == {t \in Tasks : Live(t)}
Idle == LiveTasks = {}

\* _stopping, and self.connected (cleared at the end of async_stop).
Stopping == unload \in {"waiting", "releasing", "done"}
Connected == link /\ unload # "done"

Init ==
  /\ link \in BOOLEAN
  /\ subs = {} /\ orphans = {} /\ tracked = {}
  /\ decoder = FALSE /\ atvv = FALSE
  /\ retry = NoTask /\ lock = NoTask
  /\ unload = "loaded" /\ releasing = {}
  /\ \E m \in MapTasks :
       pc = [t \in Tasks |-> IF t = m /\ link THEN "services" ELSE "free"]
  /\ todo = [t \in Tasks |-> {}]
  /\ flight = [t \in Tasks |-> {}]
  /\ hid = [t \in Tasks |-> FALSE]
  /\ probe = [t \in RetryTasks |-> 0]
  /\ cancelled = {}
  /\ leaked = {} /\ outcome = "none"

-----------------------------------------------------------------------------
(* How a mapping ends.                                                     *)

SupportsVoice == (decoder /\ OpusRemote) \/ atvv

\* What _async_map_report_characteristics returns after subscribing.
Mapped(t) == (hid[t] /\ decoder) \/ SupportsVoice

\* The early returns of _schedule_metadata_retry.
MaySchedule == ~Stopping /\ Connected /\ retry \notin LiveTasks

\* Mutant: a mapping that failed is never retried.
NeverSchedule(t, complete) ==
  /\ pc' = [pc EXCEPT ![t] = "free"]
  /\ UNCHANGED <<retry, probe>>

\* A mapping task ends; an incomplete one leaves a retry task behind.
EndMapTask(t, complete) ==
  \/ /\ complete \/ ~MaySchedule
     /\ pc' = [pc EXCEPT ![t] = "free"]
     /\ UNCHANGED <<retry, probe>>
  \/ /\ ~complete /\ MaySchedule
     /\ \E r \in RetryTasks :
          /\ ~Live(r)
          /\ pc' = [pc EXCEPT ![t] = "free", ![r] = "sleep"]
          /\ probe' = [probe EXCEPT ![r] = 1]
          /\ retry' = r

\* Mutant: one delay too many.
DelaysPassed(t) == probe[t] > Probes

LastDelay(t) == probe[t] = Probes

NextDelay(t) == probe[t] + 1

\* A retry task sleeps again, or ends after success or its last delay.  Its
\* `finally` clears the reference whichever task that names.
EndProbe(t, complete) ==
  \/ /\ complete \/ LastDelay(t)
     /\ pc' = [pc EXCEPT ![t] = "free"]
     /\ probe' = [probe EXCEPT ![t] = 0]
     /\ retry' = NoTask
  \/ /\ ~complete /\ ~LastDelay(t)
     /\ pc' = [pc EXCEPT ![t] = "sleep"]
     /\ probe' = [probe EXCEPT ![t] = NextDelay(t)]
     /\ UNCHANGED retry

Return(t, complete) ==
  /\ IF t \in MapTasks THEN EndMapTask(t, complete) ELSE EndProbe(t, complete)
  /\ todo' = [todo EXCEPT ![t] = {}]
  /\ flight' = [flight EXCEPT ![t] = {}]
  /\ hid' = [hid EXCEPT ![t] = FALSE]
  /\ outcome' = IF complete THEN "complete"
                ELSE IF t \in RetryTasks /\ LastDelay(t) THEN "exhausted"
                ELSE "incomplete"

\* After the notifications: GET_CAPS goes out if the remote has ATVV.
AfterNotifications(t) ==
  \/ /\ hid[t] /\ atvv /\ Connected /\ ~Stopping
     /\ pc' = [pc EXCEPT ![t] = "caps"]
     /\ todo' = [todo EXCEPT ![t] = {}]
     /\ flight' = [flight EXCEPT ![t] = {}]
     /\ UNCHANGED <<hid, probe, retry, outcome>>
  \/ /\ ~(hid[t] /\ atvv /\ Connected /\ ~Stopping)
     /\ Return(t, Mapped(t))

-----------------------------------------------------------------------------
(* Steps of a mapping task, from one await to the next.                    *)

Runs(t, position) == pc[t] = position /\ t \notin cancelled

\* get_services raises: BlueZ has not resolved the services (yet).
ServicesFail(t) ==
  /\ Runs(t, "services")
  /\ Return(t, FALSE)
  /\ UNCHANGED <<bluez, tracked, decoder, atvv, lock, unloading, cancelled,
                 leaked>>

\* _async_start_notifications returns at once, or queues for the lock.
EnterNotifications(t, paths, complete) ==
  \/ /\ Connected /\ ~Stopping
     /\ pc' = [pc EXCEPT ![t] = "lock"]
     /\ todo' = [todo EXCEPT ![t] = paths]
     /\ UNCHANGED <<retry, flight, hid, probe, outcome>>
  \/ /\ ~Connected \/ Stopping
     /\ Return(t, complete)

\* get_services returns a HID service.  The Report Map is read only once in
\* the manager's life, the Report References on every connection.
HidFound(t, paths, voice) ==
  /\ Runs(t, "services")
  /\ atvv' = voice
  /\ hid' = [hid EXCEPT ![t] = TRUE]
  /\ todo' = [todo EXCEPT ![t] = paths]
  /\ pc' = [pc EXCEPT ![t] = IF decoder THEN "references" ELSE "map"]
  /\ UNCHANGED <<bluez, tracked, decoder, retry, lock, unloading, flight,
                 probe, cancelled, history>>

\* get_services returns no HID service: only ATVV paths are subscribed to.
NoHidFound(t, paths, voice) ==
  /\ Runs(t, "services")
  /\ atvv' = voice
  /\ EnterNotifications(t, paths, (decoder /\ OpusRemote) \/ voice)
  /\ UNCHANGED <<bluez, tracked, decoder, lock, unloading, cancelled, leaked>>

\* The Report Map read ends; a failure is only logged.
ReadReportMap(t, parsed) ==
  /\ Runs(t, "map")
  /\ decoder' = (decoder \/ parsed)
  /\ pc' = [pc EXCEPT ![t] = "references"]
  /\ UNCHANGED <<bluez, tracked, atvv, retry, lock, unloading, todo, flight,
                 hid, probe, cancelled, history>>

ReadReferences(t) ==
  /\ Runs(t, "references")
  /\ EnterNotifications(t, todo[t], Mapped(t))
  /\ UNCHANGED <<bluez, tracked, decoder, atvv, lock, unloading, cancelled,
                 leaked>>

\* The loop under _notification_lock: StartNotify on the next path that
\* `have` lacks, or release the lock.
NextPath(t, have) ==
  \/ /\ Connected /\ ~Stopping
     /\ \E p \in todo[t] \ have :
          /\ flight' = [flight EXCEPT ![t] = {p}]
          /\ todo' = [todo EXCEPT ![t] = @ \ {p}]
     /\ pc' = [pc EXCEPT ![t] = "starting"]
     /\ lock' = t
     /\ UNCHANGED <<retry, hid, probe, outcome>>
  \/ /\ ~Connected \/ Stopping \/ todo[t] \subseteq have
     /\ lock' = NoTask
     /\ AfterNotifications(t)

TakeLock(t) ==
  /\ Runs(t, "lock")
  /\ lock = NoTask
  /\ NextPath(t, tracked)
  /\ UNCHANGED <<bluez, tracked, decoder, atvv, unloading, cancelled, leaked>>

\* BlueZ carries out StartNotify, or refuses it; the task is still suspended.
StartAnswered(t) ==
  /\ pc[t] = "starting" /\ t \notin cancelled
  /\ \/ /\ subs' = subs \cup flight[t]
        /\ pc' = [pc EXCEPT ![t] = "started"]
     \/ /\ pc' = [pc EXCEPT ![t] = "refused"]
        /\ UNCHANGED subs
  /\ UNCHANGED <<link, orphans, shared, unloading, todo, flight, hid, probe,
                 cancelled, history>>

\* A refused path is logged and skipped.
StartRefused(t) ==
  /\ Runs(t, "refused")
  /\ NextPath(t, tracked)
  /\ UNCHANGED <<bluez, tracked, decoder, atvv, unloading, cancelled, leaked>>

\* Mutant: what changed during the call is not looked at.
WantedAlways == TRUE

\* The state is read again after the call.
StillWanted == Connected /\ ~Stopping

StartAccepted(t) ==
  /\ Runs(t, "started")
  /\ StillWanted
  /\ tracked' = tracked \cup flight[t]
  /\ NextPath(t, tracked')
  /\ UNCHANGED <<bluez, decoder, atvv, unloading, cancelled, leaked>>

\* Too late: the subscription is given back at once.
StartTooLate(t) ==
  /\ Runs(t, "started")
  /\ ~StillWanted
  /\ pc' = [pc EXCEPT ![t] = "late"]
  /\ UNCHANGED <<bluez, shared, unloading, todo, flight, hid, probe,
                 cancelled, history>>

\* Mutant: no StopNotify is sent for it.
KeptAnyway(t) == {}

GivenBack(t) == flight[t]

\* StopNotify raises: that is logged, and the subscription stays.
StopFails(paths) ==
  /\ leaked' = leaked \cup (subs \cap paths)
  /\ UNCHANGED subs

\* That StopNotify is answered or fails, and the mapping returns.
LateReleased(t) ==
  /\ Runs(t, "late")
  /\ \/ subs' = subs \ GivenBack(t) /\ UNCHANGED leaked
     \/ StopFails(flight[t])
  /\ lock' = NoTask
  /\ AfterNotifications(t)
  /\ UNCHANGED <<link, orphans, tracked, decoder, atvv, unloading, cancelled>>

\* GET_CAPS was written, or the write raised.
CapsWritten(t, ok) ==
  /\ Runs(t, "caps")
  /\ Return(t, ok /\ Mapped(t))
  /\ UNCHANGED <<bluez, tracked, decoder, atvv, lock, unloading, cancelled,
                 leaked>>

\* A delay of the retry task is over.
Wake(t) ==
  /\ Runs(t, "sleep")
  /\ \/ /\ Connected /\ ~Stopping
        /\ pc' = [pc EXCEPT ![t] = "services"]
        /\ UNCHANGED <<retry, probe>>
     \/ /\ ~Connected \/ Stopping
        /\ pc' = [pc EXCEPT ![t] = "free"]
        /\ probe' = [probe EXCEPT ![t] = 0]
        /\ retry' = NoTask
  /\ UNCHANGED <<bluez, tracked, decoder, atvv, lock, unloading, todo, flight,
                 hid, cancelled, history>>

-----------------------------------------------------------------------------
(* Cancellation.  CancelledError is no Exception: it passes every handler   *)
(* of the mapping and leaves a StartNotify call without its caller.         *)

\* cancel() on the tasks in ts.
CancelTasks(ts) ==
  /\ cancelled' = cancelled \cup ts
  /\ orphans' = orphans \cup
       UNION {flight[t] : t \in {u \in ts : pc[u] = "starting"}}
  /\ leaked' = leaked \cup
       UNION {flight[t] : t \in {u \in ts : pc[u] \in {"starting", "started"}}}

\* _cancel_metadata_retry, but for the reference it clears.
RetryTask == {retry} \cap LiveTasks

\* Mutant: the lock is not released when the call is cancelled.
StayLocked(t) == lock

Unlock(t) == IF lock = t THEN NoTask ELSE lock

\* The cancelled task unwinds: the lock is released, a retry task's `finally`
\* clears the reference, and BlueZ carries out a StopNotify under way, or not.
Unwind(t) ==
  /\ t \in cancelled
  /\ cancelled' = cancelled \ {t}
  /\ pc' = [pc EXCEPT ![t] = "free"]
  /\ todo' = [todo EXCEPT ![t] = {}]
  /\ flight' = [flight EXCEPT ![t] = {}]
  /\ hid' = [hid EXCEPT ![t] = FALSE]
  /\ lock' = Unlock(t)
  /\ \/ pc[t] = "late" /\ subs' = subs \ flight[t] /\ UNCHANGED leaked
     \/ pc[t] = "late" /\ StopFails(flight[t])
     \/ pc[t] # "late" /\ UNCHANGED <<subs, leaked>>
  /\ IF t \in RetryTasks
     THEN retry' = NoTask /\ probe' = [probe EXCEPT ![t] = 0]
     ELSE UNCHANGED <<retry, probe>>
  /\ UNCHANGED <<link, orphans, tracked, decoder, atvv, unloading, outcome>>

\* BlueZ carries out a call whose caller is gone, or refuses it.
OrphanAnswered(p) ==
  /\ p \in orphans
  /\ orphans' = orphans \ {p}
  /\ subs' \in {subs, subs \cup {p}}
  /\ UNCHANGED <<link, shared, unloading, local, history>>

-----------------------------------------------------------------------------
(* The connection callback.                                                *)

\* BlueZ reports the connection; unless unloading, the callback of every
\* watcher starts a mapping task.
Connect ==
  /\ ~link
  /\ FastReconnect \/ Idle
  /\ link' = TRUE
  /\ outcome' = "none"
  /\ IF Stopping
     THEN UNCHANGED pc
     ELSE \E ms \in SUBSET {m \in MapTasks : ~Live(m)} :
            /\ Cardinality(ms) = Watchers
            /\ pc' = [t \in Tasks |-> IF t \in ms THEN "services" ELSE pc[t]]
  /\ UNCHANGED <<subs, orphans, shared, unloading, todo, flight, hid, probe,
                 cancelled, leaked>>

\* The link drops: BlueZ forgets the subscriptions and fails the calls in
\* flight; the callback, until unloaded, clears what belongs to the connection.
Disconnect ==
  /\ link
  /\ link' = FALSE
  /\ subs' = {} /\ orphans' = {}
  /\ leaked' = {} /\ outcome' = "none"
  /\ pc' = [t \in Tasks |-> IF pc[t] = "starting" THEN "refused" ELSE pc[t]]
  /\ IF unload = "done"
     THEN UNCHANGED <<tracked, atvv, retry, cancelled>>
     ELSE /\ tracked' = {}
          /\ atvv' = FALSE
          /\ retry' = NoTask
          /\ cancelled' = cancelled \cup RetryTask
  /\ UNCHANGED <<decoder, lock, unloading, todo, flight, hid, probe>>

-----------------------------------------------------------------------------
(* async_stop.                                                             *)

\* It cancels the retry task and first awaits what closes a voice capture.
StopBegins ==
  /\ unload = "loaded"
  /\ unload' = "closing"
  /\ retry' = NoTask
  /\ CancelTasks(RetryTask)
  /\ UNCHANGED <<link, subs, tracked, decoder, atvv, lock, releasing, pc, todo,
                 flight, hid, probe, outcome>>

\* _stopping is set, and _async_stop_notifications queues for the lock.
StopFlagged ==
  /\ unload = "closing"
  /\ unload' = "waiting"
  /\ UNCHANGED <<bluez, shared, releasing, local, history>>

StopTakesLock ==
  /\ unload = "waiting"
  /\ lock = NoTask
  /\ tracked' = {}
  /\ IF link /\ tracked # {}
     THEN /\ unload' = "releasing"
          /\ releasing' = tracked
          /\ lock' = Stop
          /\ UNCHANGED atvv
     ELSE /\ unload' = "done"
          /\ atvv' = FALSE
          /\ UNCHANGED <<releasing, lock>>
  /\ UNCHANGED <<bluez, decoder, retry, local, history>>

\* StopNotify is answered, or fails, for one path; after the last one the
\* watcher goes.
StopReleases(p) ==
  /\ unload = "releasing"
  /\ p \in releasing
  /\ \/ subs' = subs \ {p} /\ UNCHANGED leaked
     \/ StopFails({p})
  /\ releasing' = releasing \ {p}
  /\ IF releasing' = {}
     THEN unload' = "done" /\ lock' = NoTask /\ atvv' = FALSE
     ELSE UNCHANGED <<unload, lock, atvv>>
  /\ UNCHANGED <<link, orphans, tracked, decoder, retry, local, outcome>>

\* After async_unload_entry Home Assistant cancels the entry's tasks.
HaCancels ==
  /\ unload = "done"
  /\ LiveTasks \ cancelled # {}
  /\ CancelTasks(LiveTasks)
  /\ UNCHANGED <<link, subs, shared, unloading, pc, todo, flight, hid, probe,
                 outcome>>

-----------------------------------------------------------------------------
Mapping(t) ==
  \/ ServicesFail(t)
  \/ \E paths \in SUBSET Paths, voice \in BOOLEAN :
       HidFound(t, paths, voice) \/ NoHidFound(t, paths, voice)
  \/ \E parsed \in BOOLEAN : ReadReportMap(t, parsed)
  \/ ReadReferences(t)
  \/ TakeLock(t)
  \/ StartRefused(t) \/ StartAccepted(t) \/ StartTooLate(t)
  \/ LateReleased(t)
  \/ \E ok \in BOOLEAN : CapsWritten(t, ok)
  \/ t \in RetryTasks /\ Wake(t)
  \/ Unwind(t)

BlueZ ==
  \/ \E t \in Tasks : StartAnswered(t)
  \/ \E p \in Paths : OrphanAnswered(p)
  \/ Connect \/ Disconnect

Unloading ==
  \/ StopBegins \/ StopFlagged \/ StopTakesLock
  \/ \E p \in Paths : StopReleases(p)
  \/ HaCancels

Next == (\E t \in Tasks : Mapping(t)) \/ BlueZ \/ Unloading

Spec == Init /\ [][Next]_vars

\* The loop runs every task that can run, BlueZ answers every call; nobody
\* has to connect, disconnect or unload.  (A task is never ready for a step of
\* its own and waiting for BlueZ at once, nor is async_stop at two positions,
\* so one condition for each says as much as one for each of its steps.)
Fairness ==
  /\ \A t \in Tasks : WF_vars(Mapping(t) \/ StartAnswered(t))
  /\ WF_vars(StopFlagged \/ StopTakesLock \/ \E p \in Paths : StopReleases(p))

LiveSpec == Spec /\ Fairness

-----------------------------------------------------------------------------
\* Every variable keeps to the values its code counterpart can take.
TypeOK ==
  /\ link \in BOOLEAN
  /\ subs \in SUBSET Paths /\ orphans \in SUBSET Paths
  /\ tracked \in SUBSET Paths
  /\ decoder \in BOOLEAN /\ atvv \in BOOLEAN
  /\ retry \in RetryTasks \cup {NoTask}
  /\ lock \in Tasks \cup {NoTask, Stop}
  /\ unload \in {"loaded", "closing", "waiting", "releasing", "done"}
  /\ releasing \in SUBSET Paths
  /\ pc \in [Tasks -> Positions]
  /\ todo \in [Tasks -> SUBSET Paths]
  /\ flight \in [Tasks -> SUBSET Paths]
  /\ hid \in [Tasks -> BOOLEAN]
  /\ probe \in [RetryTasks -> 0 .. Probes]
  /\ cancelled \in SUBSET Tasks
  /\ leaked \in SUBSET Paths
  /\ outcome \in {"none", "complete", "incomplete", "exhausted"}

\* A path the manager believes to be subscribed to, and so would not
\* subscribe to again, is one BlueZ delivers notifications for.
TrackedIsSubscribed == tracked \subseteq subs

\* Tasks with a subscription that is in no set yet.
InHand == {t \in Tasks : pc[t] \in {"started", "late"}}

\* Every subscription has an owner that gives it back: the tracked set, a
\* task that has just got it, or the unload in progress.  The only ones
\* without are those whose StartNotify was cancelled in flight, or whose
\* StopNotify BlueZ did not carry out.
EverySubscriptionOwned ==
  subs \subseteq tracked \cup releasing \cup leaked
    \cup UNION {flight[t] : t \in InHand}

\* A mapping that ended incomplete is followed by a retry for as long as the
\* connection lasts, until the delays are used up: nobody forgets the remote.  And
\* until the unload begins at most one retry task probes a connection (the cancelled
\* ones that still have to unwind not counted), however many mappings end.
NeverForgotten ==
  unload = "loaded" =>
    /\ Idle /\ link => outcome \in {"complete", "exhausted"}
    /\ \A r, s \in (LiveTasks \cap RetryTasks) \ cancelled : r = s

\* async_stop is never stuck behind the lock, and every task of a connection ends.
NothingHangs ==
  /\ unload = "closing" ~> unload = "done"
  /\ \A t \in Tasks : []<>~Live(t)
=============================================================================
