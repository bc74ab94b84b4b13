# Bluetooth HID Remote: a TLA+ model of the integration

The repository is a Home Assistant custom integration that turns a Bluetooth
LE (HOGP) remote into Home Assistant events. It pairs the remote through
BlueZ, subscribes to its input reports over D-Bus, keeps its Linux event nodes
away from the host console, and feeds its microphone to an Assist pipeline.
Almost everything runs on one asyncio event loop; what makes it hard is that
every `await` is a place where the link, the user, another task, another D-Bus
client or the unload of the entry may change what the code has just read.

This directory holds one module per component, the TLC configurations that
check it, proofs of some theorems in TLAPS, and `PROJECT.json`, which maps every
definition to the source lines it stands for. All source paths below are
relative to `src/custom_components/bluetooth_hid_remote/`.

1. Inventory
2. The modules and the code they model
3. The runs
4. Bounds
5. Fairness
6. Proofs
7. Disagreements between the code and its documents
8. What is not modelled, and the plan

---------------------------------------------------------------------------

## 1. Inventory

| component | source | state it keeps | operations | what makes it hard |
|---|---|---|---|---|
| Console input grabber | `input_grab.py` | `_fds` (open descriptors), `_status`, `_stopping`, one polling task | start, reconcile every 250 ms, status callback, stop | reconciliation runs on an executor thread that cancellation does not reach; the kernel creates, destroys and renumbers nodes between a scan and an open |
| GATT session | `manager.py` 190-502, 919-1018 | `connected`, `_notification_paths`, the report decoder, ATVV characteristics, `_metadata_retry_task`, `_notification_lock`, `_stopping` | connection callback, map a connection, retry the mapping, StartNotify and StopNotify, unload | several mapping tasks suspended at once, link loss and reconnection inside any of them, cancellation of a call that BlueZ still carries out |
| Host-controlled HID voice | `manager.py` 690-802, `hidraw.py` | `_hid_voice_button_pressed`, `_hid_voice_packet_seen`, `_hid_voice_command_active`, the start task | press, delayed start command, stop command, disconnect, unload | press, release and unload during the delay, the look-up or the write |
| Key reports | `manager.py` 1020-1218 | BlueZ cache snapshots, active paths, last usages, voice button | subscription, value change, disconnect | BlueZ replays cached values; rollover; keys without a decoded usage; idle reports that come first |
| ATVV capture and audio | `manager.py` 832-917, 1044-1152 | `_atvv_capture_active`, `_atvv_close_timer`, `_atvv_decoder`, frame size | search, MIC_OPEN, 5 s timer, MIC_CLOSE, audio start, synchronisation, packets, audio stop, unload | writes without response and notifications cross each other; overlapping presses; a decoder that no longer has the encoder's state |
| Assist satellite | `assist_satellite.py`, buffers of `voice.py` | Opus and PCM buffers, 15 s timeout, processing task, entity state | key, packet, stream end, timeout, decode, pipeline, response, removal | packets after the end of their utterance, runs of any length |
| Pairing | `pairing.py` | a dedicated D-Bus connection, agent, discovery, watcher tasks, BlueZ's device | pair, replace a bond, rebuild a bond, remove, clean-up | about 20 awaits, each of which may fail, time out or be cancelled, against a device that sleeps and vanishes |
| Compatibility cache repair | `compatibility.py`, two shell scripts | the BlueZ GATT cache file, its snapshot or marker, `bluetooth.service`, a transient unit | repair, restore | two processes and two systemd units; a crash half-way through a file copy |
| Config flow and bond recovery | `config_flow.py` | one pairing task per flow, its result, the entry being rebuilt | forms, progress, routing of the result, rebuild of a loaded entry's bond | second submissions, a flow closed at any await, unload, rebuild and set-up that must fail closed |
| Entry lifecycle | `__init__.py` | runtime data of the entry | set-up, unload, reload, removal with the bond | reloads that race a set-up or a rebuild |
| Voice codecs | `voice.py` | decoder predictor and step | ADPCM, Ogg pages, WAV | numeric edges |
| HID report parser | `hid.py` | globals, their stack, local items, bit offsets while it parses; the fields after that | descriptor to fields, report to usages | global and local items, push and pop, padding, several reports in one map |
| Key mapping | `keymap.py`, `android_keycodes.py` | none | usage to key | none: tables |
| Entities | `event.py`, `sensor.py`, `binary_sensor.py`, `select.py` | copies of what the manager publishes | listeners | none of its own |
| Data and release scripts | `const.py`, `strings.json`, `scripts/` | none | none at run time | none |

### How they interact

```
 Options flow --rebuilds--\
     |                     v
     |   ConfigFlow --> Pairing ------------\
     |      |  \-----> CacheRepair ---------- BlueZ / systemd over D-Bus
     v      v                               /
 Entry lifecycle --starts, stops--> GattSession --StartNotify--> BlueZ --> remote
     |                                | value changes
     |                                v
     |                            KeyReports --voice button--> HidVoiceControl --write--> remote
     |                                |   \--control opcodes--> AtvvCapture    --write--> remote
     |                                v events                     | decoded PCM
     |                             Entities                        v
     |                                \--search key, packets--> AssistSatellite --> Assist pipeline
     \--starts, stops--> InputGrab --EVIOCGRAB--> kernel
```

* `BluetoothHidRemoteManager` (`manager.py`) is one object with four concerns:
  session, key reports, HID voice, ATVV. They share `connected`, `_stopping` and
  the loop, and otherwise only call each other at the arrows above, which is why
  each has a module of its own.
* `async_stop` ends all four. The part of it that concerns a module is in that
  module (`StopFlagged` ... in GattSession, `Unloading` in HidVoiceControl,
  `UnloadBegins` / `UnloadTask` in AtvvCapture).
* Listeners (event entities, the satellite, sensors) are called synchronously.
* The flows see of Pairing what a call returns or raises and what it leaves in
  BlueZ. That is the interface `PairingContract`: Pairing is shown to keep it, and
  the flows are checked against nothing else.
* Home Assistant's core is external: the lock of an entry, its states, the
  listener of its options, and what it does with flows that are closed.

### What makes each component correct

* **InputGrab**: nothing is held after the unload; a sensor that is on describes
  grabs that exist; every node of the remote is held in the end and nothing else
  stays held.
* **GattSession**: every subscription that BlueZ makes for us has somebody who
  will give it back; a connection that is not mapped yet has somebody who will map
  it; no two retries run; what is recorded as subscribed is subscribed.
* **HidVoiceControl, AtvvCapture**: the remote's microphone is open only while
  its button is down (or its timer runs), never after an unload, and no flag stays
  up that would block the next press.
* **KeyReports**: no press that nobody made, none that is lost, and a release
  carries the usages of its own press.
* **AssistSatellite, AtvvAudio**: one bounded recording at a time that belongs to
  one press and is one piece of one stream, one run per press, idle again in the
  end, silence after removal.
* **Pairing**: an attempt either leaves a verified, trusted bond or none of its
  own; the agent covers the whole exchange; everything is released.
* **CacheRepair**: BlueZ comes back, the script does not run beside it, and the
  file that was there before the first repair survives.
* **ConfigFlow, EntryLifecycle**: one pairing call at a time, no bond without
  the protection of a loaded entry, a manager for every loaded entry and for no
  other, and no progress that is shown for ever.
* **HidDescriptor**: fields that share no bit, and for each report the usages the
  remote means.

The hazards behind these, each at its line, are listed under `hazards` in
`PROJECT.json` with the properties that would catch them.

---------------------------------------------------------------------------

## 2. The modules and the code they model

Conventions common to all of them:

* One **action is what runs between two awaits** of a coroutine (asyncio switches
  tasks nowhere else), one executor thread's work under its lock, or one step of
  a script. The position of a coroutine is a variable `pc` (or `loop`), whose
  values are named after the await the coroutine is suspended in.
* **The environment** (BlueZ, the remote, the kernel, systemd, the user) is part
  of each module: its actions take an operation into effect and its answer is
  where the task goes on. Cancelling a task removes the caller, not the call: a
  call that was sent may still take effect.
* **History variables** (called so where they are declared) record what a property
  needs and no action's guard reads.
* **Exceptions are named.** Where the code does not keep a property under some
  interleaving, the interleaving is in the model all the same. A history variable
  records that it happened (`reused`, `raced`, `mishaps`, `unreplayed`, `cut`,
  `overlap`, `unclosed`, `late`, `short`, `disturbed`, `leaked`, `excuse`,
  `unstopped`), and the property excludes what it records. Each is needed: the
  property fails without it. Some record a little more than the runs that
  fail (`raced` any press during the tasks of the last one, `excuse` any bond
  left by a set-up that failed), so that in those cases nothing is claimed. Several
  exclude the very case a hazard names: the property then says that it is the only
  way to go wrong. The comment of the variable says what it records, and section 7
  lists them all. One exception is a constant, `FastReconnect` of GattSession: with it a
  reconnection may be reported before the tasks of the last connection have
  unwound. It is off in the runs, and in the proofs of the two properties that need it
  off; the other proofs hold with it on or off.

| module | code | state | actions |
|---|---|---|---|
| **InputGrab** | `input_grab.py` | `device` is the kernel; `fds`, `stopping`, `status` are the fields of the same name; `job`, `matching`, `todo`, `errors`, `result` the locals of one `_reconcile_sync`; `release` one `_release_all_sync`; `loop` the coroutine | `NodeAppears`, `NodeVanishes`; thread: `ScanNodes`, `GrabNode`, `GrabFails`, `ReturnStatus`, `ReleaseAll`; loop: `Start`, `Poll`, `PublishStatus`, `Stop`, `DropResult`, `StopDone` |
| **GattSession** | `manager.py` session | BlueZ: `link`, `subs`, `orphans`; manager: `tracked` (`_notification_paths`), `decoder`, `atvv`, `retry`, `lock`, `unload`; per task: `pc`, `todo`, `flight`, `hid`, `probe`, `cancelled` | the steps of `_async_map_report_characteristics_then_retry` and `_async_retry_metadata` under `Mapping(t)`; BlueZ's connection, loss and answers; the steps of `async_stop` |
| **HidVoiceControl** | `manager.py` 690-802 | the three flags, `mapped`, `pc` of the start task, two stop tasks and `async_stop`, and the remote: `streaming`, `strays` | `Press`, `Release`, `Packet`, `StartTask`, `StopTask(t)`, `StrayLands`, `Disconnect`, `Connect`, `Map`, `Unloading` |
| **KeyReports** | `manager.py` 1020-1218 | BlueZ's cached `value`, subscriptions; `snapshot`, `active`, `usages`, `button`; `told`, what listeners heard last, which a link loss leaves as it is | `Ask`, `Refuse`, `Subscribe`, `KeyDown`, `KeyUp`, `Map`, `Connect`, `Disconnect` |
| **AtvvCapture** | `manager.py` 832-917 and the handlers of opcodes 0x00 and 0x08 | two FIFO channels, `mic`, `active`, `timer`, `armed`, `pc` | `Press`, `Execute`, `EndAudio`, `Notice`, `OpenTask`, `TimerRuns`, `CloseTask`, `Disconnect`, `Connect`, `UnloadBegins`, `UnloadTask` |
| **AssistSatellite** | `assist_satellite.py` 140-298 | key, stream, `buffer`, `timeout`, runs, `playing`, entity `state` | `Press`, `Release`, `StreamStarts`, `OpusEnds`, `StreamEnds`, `Packet`, `Timeout`, `Decoded`, `RunFails`, `RunEnds`, `ResponsePlayed`, `Remove` |
| **AtvvAudio** | `manager.py` 1044-1152 | extends AssistSatellite: `decoder` is `_atvv_decoder` (absent, in the encoder's state, or not), `limit` is `_atvv_frame_bytes`; `missed`, `spliced`, `disturbed` are the history of the recording | `Capabilities`, `Search`, `AudioStarts`, `AudioSync`, `AudioStops`, `Drops`, `Undecodable`, `Decodable`, and those of the satellite under `Others`, `TimesOut`, `Plays`, `Ends(r)` |
| **PairingContract** | the interface of `pairing.py`: 54-86, 161-192, 380-448, 634-699 | `bond`, who made it, `trusted`; `call` and `outcome`; `mishaps`, what frees a call of a part of its promise | `Starts(k)`, `Works`, `Ends(r)`, `Forgets`, `Refuses`, `Others` |
| **Pairing** | `pairing.py` 161-337, 380-699 | BlueZ's `dev` and its bond; `conn`, what BlueZ does for our connection; `owed`, the flags of the `finally` blocks; `seen`, what the verification watched | `Begin`, one action per await and answer under `Call`, `Cancel`, `Bluez` |
| **CacheRepair** | `compatibility.py` 169-484 and both scripts | the cache file, snapshot, marker; BlueZ and the job systemd has for it; the helper's next command; `pc`, `stopped` | `Begin`, `Task`, `Close`, `Script`, `UnitFollows`, `BluezLearns` |
| **ConfigFlow** | `config_flow.py` 56-362 | `step`, the form shown; `task` (`_pairing_task`), `operation`, `error`, `applied` (the fields of these names) | `FlowOpens`, `Submits(o)`, `TaskBegins`, `TaskEnds`, `Progresses`, `ShowsResult`, `FlowCloses`, `BondChanges` |
| **EntryLifecycle** | `__init__.py`, `config_flow.py` 365-583, `pairing.py` 340-377 | `state` of the entry, `manager` (that of `runtime_data` runs), `stray` (an older one does), `op` (the operation under the entry's lock and its await), `wanted` (those that wait), `opts`, `rebuild` (`_bond_task`), `bondError` | set-up: `MapperLoads`, `SetUpGoes`, `SetUpRaises`, `UndoesSetUp`; unload: `PlatformsUnload`, `ManagerStops`; `LockTaken`, `BondForgotten`; the options flow and its task: `OptionsOpen`, `OptionsSaved`, `RebuildSubmitted` ... `RebuildResult`, `OptionsClose`; `Restart` |
| **HidDescriptor** | `hid.py` 39-207 | the locals of the loop: `offset`, `globals`, `stack`, `bits`, `locals`, `fields` | one action per kind of item: `Global`, `Push`, `Pop`, `Local`, `Skip`, `Input`, `OtherMain`, `Reject`, `Finish`; `Decode` is the decoder |
| **HidLayout** | what a Report Map means by the HID rules: a usage takes the page that is set at its Main item, the value of an array is the number of a declared usage, counted from the Logical Minimum, the last usage goes on for the controls that have none. `Departs` names where `hid.py` reads otherwise | none | none: the reference definition that `DecodesWhatWasMeant` compares with |

How they are composed:

```
 MCEntryLifecycle -> EntryLifecycle -EXTENDS-> ConfigFlow -INSTANCE-> PairingContract
                                                                        ^
 MCPairing -> Pairing -INSTANCE ... WITH bond <- ..., the refinement ---/

 MCAtvvAudio -> AtvvAudio -EXTENDS-> AssistSatellite

 MCHidDescriptor -> HidLayout -EXTENDS-> HidDescriptor
```

* **Pairing and the flows** meet in PairingContract. `KeepsContract` in Pairing is
  the specification of the contract under a refinement mapping (`BondTold`,
  `CallTold`, `OutcomeTold`, `MishapsTold`); EntryLifecycle takes the actions of
  the contract, and no other step on the bond. What holds in EntryLifecycle
  therefore rests on `pairing.py` as it is, without its twenty awaits.
* **The entry and both flows** are one specification, since they meet in the
  entry's lock, its state and the bond: EntryLifecycle extends ConfigFlow.
* **The remote's audio and the satellite** are one specification: AtvvAudio
  holds the satellite's specification (`AtvvSpec`), of which Opus remotes take
  the part without a decoder in the manager.
* HidVoiceControl takes the press and release that KeyReports establishes in
  `ButtonMeansHeld` as an input; KeyReports takes decoding, which HidDescriptor
  establishes, as the set of keys that the descriptor explains.

The modules whose names end in `Proofs` hold the theorems (section 6).

What data is abstracted to:

* A GATT path, an event node, a timer, a task is a model value. A report is the set
  of keys that are down on its characteristic; decoding is the set of keys the
  descriptor explains (`Unknown` holds the others). Report metadata is whether the
  decoder exists.
* A voice packet counts one in its buffer; ATVV control messages are their opcode.
* A BlueZ device is a record of exactly the properties that `pairing.py` reads:
  exported, `Paired`/`Bonded` (one field), `Trusted`, `ServicesResolved`, and the
  HOGP service.
* The cache file is the one of before the repair, one that BlueZ wrote since, the
  bundled one, half a file, or missing.

* To the flows a bond is absent, there, or verified (full, of a device with HOGP);
  a failure is stale, pending or any other.
* A HID item is a tag, a value and the page of a four-byte usage; a report is a number.

---------------------------------------------------------------------------

## 3. The runs

One run per component checks all of its properties, invariants and liveness
together; GattSession, whose state space is the largest, has a second one for
liveness. One further run is expected to fail and belongs to section 7. The names
are those of `PROJECT.json`.

* `input_grab` (9,712 states): two nodes with any device behind them, an unload at
  any step. `StoppedHoldsNothing`: a reconciliation that was queued or running
  when `async_stop` cancelled its coroutine grabs nothing after the release
  (`_sync_lock` and the second look at `_stopping` make this true).
  `ActiveMeansHeld`: a sensor that is on, with no change of nodes since the scan,
  describes live grabs of every node of the remote. `GrabsBecomeRight`: a node that
  could not be opened is tried until it is, and a device grabbed because its number
  changed hands between the sysfs read and the open is released.
* `gatt_session` (501,531 states): two characteristics, both watchers registered, two
  mapping and two retry tasks; BlueZ carries out each StartNotify and StopNotify or not. `TrackedIsSubscribed` (a path in
  `_notification_paths` is one BlueZ delivers), `EverySubscriptionOwned` (the
  tracked set, a task or the unload will give it back), `NeverForgotten` (an
  incomplete mapping is followed by a retry until the delays are used up, and by
  one only, while the entry is loaded).
* `gatt_session_live` (184,133 states): `NothingHangs` (the unload is never stuck behind
  `_notification_lock`, and every task of a connection ends), for a remote whose
  mapping is complete without a decoder.
* `hid_voice` (17,673 states): presses, releases, failing writes, link losses and an
  unload. `RemoteFollowsButton`: button, flag and remote agree when nothing is under
  way; a release inside the delay, the look-up or the start write leaves the remote
  silent, and so does an unload. `ReleaseEndsVoice`: the stream ends after the
  release, and the flag comes down, the latter without exception.
* `key_reports` (110,370 states): two reports, three keys on one of them, one the
  decoder does not know, rollover, and one report that another client keeps
  subscribed, so that values arrive before our StartNotify is answered; cached
  values are replayed or not; links drop with keys down. `ToldIsHeld` (no press that
  nobody made, none that is lost, and only a link loss leaves one without its
  release), `ButtonMeansHeld` (the voice button does not stay down),
  `ReleaseMatchesPress`.
* `atvv` (255,758 states): searches and audio stops cross MIC_OPEN and MIC_CLOSE in
  two channels, and BlueZ refuses commands with the link up as well as down.
  `CaptureBounded` (one timer per capture, none besides, and no microphone open
  after an unload, unless BlueZ refused to close it), `CaptureEnds` (the part about
  the flag without exception).
* `assist` (6,903 states): AtvvAudio, with an Opus or an ATVV remote. `OneAtATime` (one
  recording with its timeout or one run, and neither after removal),
  `RecordingsFollowPress` (a recording ends with its press, and a press makes one
  run), `SoundIsWhole` (a PCM recording is one piece of one stream, decoded in
  step), `ReturnsToIdle`, and in `TypeOK` the limit of the buffer.
* `pairing` (57,065 states): two calls of any kind one after another on a device in any
  state: unknown, seen, bonded with or without HOGP, while other programs pair or
  remove it. `ReleasedOnExit`, `ExchangeCovered` (agent and discovery outlive our
  Pair, also in the clean-up), `KeepsContract` (a failed attempt leaves no bond of
  its own, also when BlueZ completes it after our deadline; a reported bond
  exists; a trusted one is verified; a bond the call found goes only if asked
  for), `CallEnds`.
* `cache_repair` (56,720 states): four calls in any order, each of whose D-Bus calls may
  fail, time out or be closed. `OriginalIsKept` (two repairs in a row keep the
  first snapshot; a repair after a restoration takes a fresh one), `HelperIsAlone`
  (a script whose call stays with it has BlueZ out of its way), `EndsInOrder` (success means the work was done, and BlueZ is
  started again).
* `entry` (263,331 states): the set-up flow, the entry, its options flow and a rebuild of
  its bond, interleaved with reloads, deletion, closed flows, restarts and other
  programs. `OneCall` (no second submission starts a second call on the bond),
  `NoOrphan` (no bond of ours without a loaded entry, but in the named ways),
  `ManagerFollowsEntry` (a loaded entry has one, and none is left running but by a
  set-up that was cancelled or an entry that was removed while it could not be
  unloaded), `NothingSpins` (each progress ends).
* `report_map` (115,292 states): 8,192 Report Maps and ten reports each. `FieldsFit`,
  `DecodesWhatWasMeant` (a map is rejected exactly if it is broken; each report of
  another decodes to the usages that the HID rules give it, unless a control that
  speaks in it is one `hid.py` reads in a way of its own, four of which are named).
* Expected to fail: `entry_orphan`.

Every property of a passing run has a mutant in `PROJECT.json`: a version of one
mapped definition with a plausible bug (a guard dropped, a reset left out, an
order swapped) under which TLC reports that property violated. The mutated forms
stand, marked as such, before the definitions they replace and are used nowhere.

---------------------------------------------------------------------------

## 4. Bounds

| module | bound | why it is enough |
|---|---|---|
| InputGrab | 2 nodes | a node that is not the remote's beside one that is, or two of the remote's, one held and one not; the code treats nodes one by one and only compares the two sets in the status |
| GattSession | 2 paths (1 for liveness), 2 mapping and 2 retry slots, 2 delays (5 in the code), 2 watchers | two paths give "one subscribed, one under way"; a second slot of each kind gives a task that has not unwound beside its successor; delays only count, so one before the last and the last are the two cases. A third overlapping task waits for the same lock |
| HidVoiceControl | 1 start task, 2 stop tasks | a press schedules at most one start; two stops are a stop and its successor; a release that finds no free slot is not taken |
| KeyReports | 2 reports, 4 keys | the voice button, a second and an undecoded key of its report, and a key of another report |
| AtvvCapture | channels of 2, 2 openers, 2 closers, 2 timers | a message of the last capture and one of the next in each direction; a lost timer and the current one |
| AssistSatellite | 3 packets (750 in the code), 2 run slots, 2 responses played at once | below, at and beyond the limit; a run and one more, to refute `OneAtATime` if it could be; a response that ends while a later one is played |
| Pairing | 2 calls | the second call finds what the first left, in any state the device can have; a third finds no state that the second cannot |
| CacheRepair | 4 calls | repair, repair, restore, repair covers an old, a kept and a fresh snapshot |
| EntryLifecycle | the user asks for one operation while none waits | one under the lock and one waiting is every case the code can tell apart: the third to come finds what the second leaves. Option changes add a reload without that bound. Nothing else is bounded: any number of flows, rebuilds, restarts, one after another |
| HidDescriptor | three of 16 pieces of a Report Map between a head and a last group, with or without a Push first; reports of 8 bits: each single bit, all, and one mixed | what an item does depends on the globals, one saved copy of them, the local items since the last Main item and the offset of its ID; three pieces make each meet each, and the last group shows what they left behind |

Symmetry is used for the task slots of GattSession in its run of invariants only.
`CHECK_DEADLOCK FALSE` is set where the system may stop: after the removal of
the satellite's entity, at the end of a Report Map, and in CacheRepair, whose
calls are bounded and where BlueZ may stay stopped. The calls of Pairing are
bounded too, but the device goes on changing.

---------------------------------------------------------------------------

## 5. Fairness

Fairness is only assumed of what the event loop, an executor or a service owes:

* **The loop resumes a task whose await is answered** (weak fairness of each task's
  steps: `Mapping(t)`, `StartTask`, `StopTask(t)`, `OpenTask(o)`, `Call`, and in
  EntryLifecycle `Task(FlowTask)`, `Task(RebuildTask)`, `Task(Entry)`): asyncio runs
  its ready queue in order.
* **A D-Bus call is answered** (`StartAnswered(t)`, in one condition with the steps of the
  task that waits for it: with success or an error): dbus-fast has no
  timeout of its own, but the bus daemon and BlueZ answer or disconnect.
* **A timer runs** when its time has come, whatever else happens first.
* **An executor thread ends** and, in InputGrab only, **opening a node that exists
  does not fail for ever** (strong fairness of `GrabNode(n)`): a transient
  permission error before udev has finished is what the retry in the code is for.

* **A pairing call ends**, in EntryLifecycle only: this is `CallEnds`, checked of
  Pairing under the first two.

KeyReports, CacheRepair and HidDescriptor are checked for safety only and assume no
fairness. `NothingHangs` is checked with `FastReconnect` off: with it on, weak
fairness lets one task wait for ever for a lock (or for a free slot of the model)
that reconnections keep giving to others, which `asyncio.Lock`, a queue, does not.
Nobody is ever obliged to press or release a key, to connect, to disconnect, to
send audio or to unload.

---------------------------------------------------------------------------

## 6. Proofs

Proved for every value of the constants, under the named assumptions of the
modules (slots are distinct, flags are Booleans, bounds are natural numbers;
InputGrab, PairingContract, ConfigFlow and EntryLifecycle assume nothing). Each
module proves an inductive invariant, one lemma per action, from which the listed
properties follow. Every invariant below was checked by TLC first.

**KeyProofs**, about InputGrab

* `GrabTypeCorrect`: `GrabSpec => []GrabTypeOK`. It includes `todo \subseteq matching \ Held`:
  no path is opened that has a descriptor, so none is overwritten and leaked.
* `StopIsFinal`: `GrabSpec => []StoppedHoldsNothing`. Not inductive: a job that is about
  to pass its check could grab later. The strengthening is `StopOrder`, that
  `_stopping` was set before the release was queued, and that after the release
  no job is beyond its check. `GrabInv == GrabTypeOK /\ StopOrder`.
* `ActiveIsTrue`: `GrabSpec => []ActiveMeansHeld`. `ActiveInv` adds `ScanIsCurrent`
  (while no node changes, the locals of the reconciliation, then its result, then
  the status describe the kernel's nodes and only descriptors that are open) and
  `GrabsAreLive` (a descriptor belongs to the device at its path, or to one that
  is gone and not replaced, unless the path is in `reused`).

**GattSessionProofs**

* `TypeCorrect`: `Spec => []TypeOK`, any number of paths, tasks and delays; a retry
  never goes beyond its last delay.
* `SubscriptionsOwned`: `Spec => []EverySubscriptionOwned`, also with
  `FastReconnect`. The argument: whoever is between asking for a subscription and
  recording it holds `_notification_lock` (`LockHeld`), so that at most one
  subscription is unrecorded; a lost link has no subscription (`LinkDown`);
  and a call whose caller was cancelled, like a subscription whose StopNotify failed, is
  in the history variable `leaked` (`CallersLost`). `OwnedInv` is their conjunction with the type invariant.

* `BeliefIsTrue` (`TrackedIsSubscribed`), from `OwnedInv` and `Granted`: an answer that
  is on its way to a task is about a subscription BlueZ has. Both this and the next
  theorem are stated for `~FastReconnect`: with it they are false (section 7).
* `RemoteIsProbed` (`NeverForgotten`). What a task is about to do is known only while it
  is not cancelled, and a cancelled one may still unwind beside its successor.
  `ProbeInv` says that a task that is not cancelled is the only one of its kind
  (`Alone`), that a cancelled one is alive (`CancelledLive`), and at each of its
  awaits that somebody goes on with the mapping (`Followed`). The property ends with
  the unload: three mappings that overlap while it closes can leave two retry tasks,
  which it then cancels.

**KeyProofs**, about KeyReports

* `TypeCorrect`, `PressesAreTrue` (`ToldIsHeld`), `ButtonIsTrue` (`ButtonMeansHeld`)
  and `ReleasesAreTrue` (the action property `ReleaseMatchesPress`), for any
  reports, keys, Report Map and other clients. What listeners were told says
  nothing of the cache of BlueZ that decides what is swallowed, so the invariant
  relates both: `Matched` (the active reports are those with a press, and the
  remembered usages are those of that press; of what listeners were told, both leave out
  the presses that a link loss cut off), `Cached` (what is still captured is
  what BlueZ has cached, and a subscription asked for without a capture has a value
  that is exact), `Pressed` (a report with a press has the exact value), and, for
  the button, `Shared` and `Believed` (while it is believed to be down its report
  is the last one, or was shared).

**AtvvAudioProofs**, about AtvvSpec, the satellite and the decoder together

* `TypeCorrect`, `Alone` (`OneAtATime`), `OfOnePress` (`RecordingsFollowPress`) and
  `Whole` (`SoundIsWhole`), for any limit of the buffer and any number of run slots.
  `SInv` adds that the only task alive is the one in `_processing_task`
  (`RunIsKnown`) and that a press that had its run has it still, or has no
  stream and an empty buffer (`AnsweredOnce`); `InStep` that a stream left alone has
  a decoder in the encoder's state, or has nothing in the buffer.

**PairingProofs**

* `TypeCorrect`, `GivenBack` (`ReleasedOnExit`), for any number of calls. `CallInv`
  says at each await what of the `finally` blocks is still owed: before Pair is
  sent no bond is ours (`BeforePair`); from then on a failure has the removal
  ahead of it, or has failed in it (`RemovalOwed`); what the call will report is
  true already (`Promised`).
* `AskedUnderCover` (`ExchangeCovered`): the order of the clean-up, removal first,
  is what keeps agent and discovery under a Pair that BlueZ still carries out.
* `Refines`: `Spec => Contract!Spec`, the refinement. Initial states map to initial
  states, and each action maps to one of the contract or to a stutter; the
  promises of `Ends` follow from `Promised` and `RemovalOwed`.

**EntryLifecycleProofs**

* `TypeCorrect` (`TypeOK`), one lemma for the entry and one for the flows.
* `NoBondIsOrphaned` (`NoOrphan`), from `OrphanInv`: a bond of ours that has no
  manager and no excuse has something under way that will see to it, namely a
  set-up or the removal of the entry, a flow, a rebuild, or a call that was closed
  with its own bond still to clean up.
* `ManagerIsOwned` (`ManagerFollowsEntry`): a loaded entry has a manager, since an operation
  under the lock knows the state of the entry at each of its awaits (`Locked`), and a
  rebuild waits for an operation of its own only (`Rebuilding`). The second part is about
  steps: a manager is `Behind`, running without an entry that has use for it, after a
  step that is not recorded in `unstopped` only if it was before. It says what `unstopped`
  is for: the cancelled set-up and the removal after a failed unload are the only ways
  there.
* `CallIsOwned` (`OneCall`): the set-up flow lives only while there is no entry and
  no rebuild at work (`Apart`), and a task goes with the progress that shows it
  (`Shown`), so that no other call can start.

**CacheRepairProofs**

* `TypeCorrect`, `OriginalKept`, `HelperAlone` and `OrderlyEnd` (`EndsInOrder`), for any
  number of calls. `Scripted` and `Snapped` say what each command of a script finds
  (a snapshot is that of the cache which the repair replaces), `Watched` that a
  script runs beside its call, between the launch of the unit and the answer to StopUnit,
  with BlueZ down, or is recorded in `mishaps`, `Worked` that a script that is
  done has done what the call asked, `Restarted` where BlueZ is owed a start.

**HidProofs**, about HidDescriptor

* `ParserTypeCorrect` and `NoOverlap` (`FieldsFit`), for every set of Report Maps: each
  field ends at or before the offset that the parser has reached for its ID.
* `DecoderIsRight` (`DecodesWhatWasMeant`): a Report Map of any length is rejected only
  if it is broken, and one that is parsed decodes every report to the usages that
  the HID rules give it, unless a control that `Departs` speaks in it. The decoder takes
  the value of an array for a Usage ID and the page of a usage from where it stands;
  that this comes to what HidLayout says (an index from the Logical Minimum, the page at
  the Main item) is proved of the arrays that are `Direct` and the items that are not
  `Rebound`, the others being excepted. HidLayout looks back from an item at those before it and
  keeps no state; the invariant, `FollowInv`, says that the parser's locals hold at
  each item what such a look back finds. Its parts: each saved copy of the globals is
  that of the Push that opened its level, and the stack is as deep as `Depth`
  (`Nested`), so that a Pop restores what `Undone` leaves; the globals are the last
  settings that are not undone; the lists of usages and the ends of the range are
  those named since the last Main item, in order (`Collects`); the offset of each ID
  is the number of bits that the Input items before take of it (`CountsBits`, the
  reason why HidLayout defines an offset by counting bits); and fields and items
  with controls correspond (`Described`). All of `FollowInv` holds of the maps with
  controls that depart too; only their decoding is left open.

**CaptureProofs**, about AtvvCapture

* `CaptureTypeCorrect` and `CapturesAreBounded` (`CaptureBounded`), for any number of
  tasks and timers and any length of the channels. The flag, the timer and the
  microphone are set by different steps, so the invariant, `CaptureInv`, follows one
  capture through the two channels: a search that is under way is alone
  (`Searched`), and so is the task that opens the microphone for it (`OneOpener`);
  whatever is sent, a microphone that will be open has a timer or a task that sees
  to it, or BlueZ refused what would close it (`Attended`), and one whose end is sent or announced will not be open
  (`Ending`). `WillBeOpen` looks ahead to the last command in the channel, which
  executing the first one does not change (`CommandsOneLess`).

**HidProofs**, about HidVoiceControl

* `HidTypeCorrect` and `VoiceFollowsButton` (`RemoteFollowsButton`), for any number of stop
  tasks. `VoiceInv`: unless tasks raced there is at most one command at a time, and at
  each await of it flag, remote and button are what that await needs (`OneCommand`,
  `Command`); from the unload on no start is on its way, and a stream is open only
  for the unload's own stop (`Silenced`).

A module of proofs that is about two components extends both, which have no name in
common; their theorems do not depend on each other. (This is why the
specifications of InputGrab, HidDescriptor and AtvvAudio are called `GrabSpec`,
`ParserSpec` and `AtvvSpec`.)

Every invariant and every action property of a passing run is a theorem. Only
model-checked is liveness: `GrabsBecomeRight`, `NothingHangs`, `ReleaseEndsVoice`,
`CaptureEnds`, `ReturnsToIdle`, `CallEnds` and `NothingSpins`. The proof system does
not handle fairness and `ENABLED`.

---------------------------------------------------------------------------

## 7. Disagreements between the code and its documents

One run checks, without its exception, what a docstring and a plan of the
repository say, and TLC finds it violated. `PROJECT.json` quotes the lines.

| run | refuted property | what happens |
|---|---|---|
| `entry_orphan` | `FailsClosed` | the rebuild of a loaded entry's bond unloads the entry first. If `async_rebuild_hogp_bond` then raises before it has removed the old bond, or with `PairingServicePendingError` after it has made a complete new one, the handler removes nothing (`if rebuilt`, `config_flow.py` 586): a bond the host can use stays beside an entry without a manager |

The other exceptions in the properties, each of which TLC needs (without it the
property fails). They are behaviours of the code as it is; how likely each is
depends on the remote and the host.

| property | excepted case |
|---|---|
| InputGrab `ActiveMeansHeld`, `GrabsBecomeRight` | a node recreated under a number whose old descriptor is still in `_fds` (`reused`): the path is skipped and counts as held |
| GattSession `TrackedIsSubscribed`, `NeverForgotten` | checked and proved with `FastReconnect` off: a loss and a reconnection handled between BlueZ's answer and the resumed task make a dead subscription count as held, and a cancelled retry that unwinds late clears the reference to its successor |
| GattSession `EverySubscriptionOwned` | `leaked`: a StartNotify cancelled in flight, which BlueZ still carries out and the unload does not know of; and a StopNotify that BlueZ does not carry out, which is logged and not repeated (965-971, 1012-1018) |
| HidVoiceControl, all but the flag in `ReleaseEndsVoice` | `raced`: a press during the stop write of the last release starts nothing, and a stop of an earlier press clears the flag of a later stream; an unload inside the start write sends no stop; a write fails while the link is up |
| KeyReports `ToldIsHeld` | `unreplayed`: if BlueZ does not replay the captured value, the first press with that value is swallowed, however late it comes |
| KeyReports `ToldIsHeld` | `cut`: a link loss clears the manager's own state and tells the listeners nothing (`manager.py` 346-368), so that the last event of a key held then stays its press; the idle report after the reconnection is ignored, since no press is remembered (1163-1183) |
| KeyReports `ButtonMeansHeld` | `overlap`: a key of the same report that outlives the voice button hides its release |
| AtvvCapture, all but the flags | `raced`: a search during MIC_OPEN opens a second capture and loses the first timer; the end of one capture, reported late, cancels the timer of the next; an unload inside MIC_OPEN sends no MIC_CLOSE |
| AtvvCapture, all but the flags | `unclosed`: a MIC_CLOSE that BlueZ refuses while the link is up is logged and not repeated (896-903, and 225-230 in the unload): the flag is down, no timer is left, and the microphone stays open until the remote ends the stream, the link drops or another command gets through |
| AssistSatellite `RecordingsFollowPress` | `late`: a packet that arrives after the key came up opens a recording of its own; `short`: a run that ends while its stream goes on makes the next packet start another |
| AtvvAudio `SoundIsWhole` | `disturbed`: a search, a second start, a synchronisation out of range or an overlong packet in the middle of a stream leaves a gap or a wrong decoder, and the recording goes on |
| Pairing `ReleasedOnExit`, `KeepsContract` | `cut`: the flow was closed inside the clean-up, the rest of which is skipped, the shutdown of the connection included; `kept` (for the second and `ExchangeCovered`): BlueZ refused to remove the device |
| Pairing `KeepsContract` | `overtaken`: a bond that another program made during the attempt is removed when the attempt fails; `removed`: another program removed the bond that is reported |
| CacheRepair `OriginalIsKept` | `torn`: a script killed between its snapshot and its first write of the cache, or BlueZ writing the cache at that moment beside a script it was started beside, can leave half a snapshot that the next repair takes for a whole one, or one of a cache that is not what the repair replaced |
| CacheRepair `HelperIsAlone` | `unwatched`: if the unit cannot be found or its state cannot be read, or the flow is closed meanwhile, the call goes on while the script still runs. StopUnit only queues a job (`compatibility.py` 247-249), nobody waits for it, and BlueZ is started (403) beside the dying script |
| CacheRepair `EndsInOrder` | `lost`: a flow closed while StopUnit is being answered leaves BlueZ stopped |
| EntryLifecycle `ManagerFollowsEntry` | `unstopped`, of which see below |
| EntryLifecycle `NoOrphan` | `excuse`: BlueZ refused the removal, a flow was closed with a bond on its hands, a set-up outside a rebuild failed, or a rebuild raised (the finding above) |
| HidLayout `DecodesWhatWasMeant` | four readings of `hid.py` that differ from the HID rules, for a report in which such a control says something: an array whose usages are not a range on its own page that begins at the Logical Minimum, or a value outside the range, because the value is taken for a Usage ID (195-196, not `Direct`); a usage whose page is not the one set at its Main item (147, `Rebound`); a variable control beyond the end of a range, which gets no usage instead of the last one (199-207, `Beyond`); and, left open by the HID tables, a list and a range for one Main item (`Mixed`) |

`unstopped` is a second disagreement with documents, and TLC finds it when the exception is
taken out of `ManagerFollowsEntry`. `README.md:270` of the repository says "Entry unload,
reload, setup failure, and Core shutdown close every descriptor", and
`docs/implementation-plan.md:121` "Failed setup and every unload path release all
descriptors". In two cases they are not released, and a manager goes on without an entry
until Home Assistant restarts: a flow is closed while its rebuild sets the entry up again
(`CancelledError` is no `Exception`, so that `__init__.py` 43 does not stop the manager), and
an entry is removed although its platforms could not be unloaded (`__init__.py` 53-54 returns
before `async_stop`, and Home Assistant removes the entry all the same). If that remote is
set up again, two managers run (`stray`). Such a manager still grabs the remote's nodes, but
it is not the protection that `NoOrphan` asks for, which is that of an entry that is loaded,
failed to unload or is being set up (`Protected`).

One behaviour is in the model and in no property. A StartNotify that BlueZ refuses
once is logged and not repeated on that connection, so that report stays silent
until the next one.

Assumptions that the model makes and the code does not enforce:

* CacheRepair: a script that was left behind has ended, or systemd has killed it, before
  the next call starts (its unit may run for 10 s).
* Pairing: no call starts on the device while a Pair of a call that was cut may
  still be carried out.
* EntryLifecycle, about Home Assistant's core: operations on an entry exclude each
  other; it refuses to unload an entry whose last unload failed, to set up one
  that is not "not loaded", and to find one that is gone; a set-up or unload that
  is cancelled ends in any of the ways its core has had (the task goes on or is
  cancelled too). One set-up flow and one options flow at a time, and a set-up
  flow only for a remote without an entry.
* ConfigFlow and EntryLifecycle: neither flow is opened again while the cancelled task
  of the last one unwinds (the guards `task = "none"` of `FlowOpens` and
  `rebuild = "idle"` of `OptionsOpen`). Each flow has a task of its own, so that nothing
  in `config_flow.py` prevents it; `OneCall` rests on it, as does the
  assumption on Pairing above.

---------------------------------------------------------------------------

## 8. What is not modelled, and the plan

Not modelled, with no intention to:

* the entity platforms, which copy what the manager publishes;
* `hidraw.py` beyond "a write that succeeds or fails after a while", and ffmpeg;
* the key tables of `keymap.py` and `android_keycodes.py`, looked up without state;
* what the agent answers to BlueZ (`pairing.py` 94-156): it keeps no state;
* the migration of old entries (`__init__.py` 80), which rewrites options once;
* voice codecs: ADPCM, Ogg and WAV are arithmetic on one stream. What a decoder
  that is out of step does to a recording is in AtvvAudio; Opus packets have 80
  bytes, so that lacing values of longer ones are never needed;
* constants, translations, release scripts, formatting, logging, diagnostics.

What would come next:

1. **Compositions**: KeyReports with HidVoiceControl and AssistSatellite, one press
   from report to pipeline; GattSession with KeyReports, where a subscription that
   is not tracked loses events.
2. **Abstract specifications**: a bounded capture that AtvvCapture and
   HidVoiceControl implement; "the original or the replacement" for CacheRepair.
3. **Proofs**: that those implementations hold for every value of the constants, as
   that of PairingContract does.
4. **ADPCM** as a function on 16-bit integers against its reference tables.
