----------------------------- MODULE KeyReports -----------------------------
(***************************************************************************)
(* From BlueZ characteristic values to key events (manager.py).  A report  *)
(* is the set of keys that are down on its characteristic; the empty set   *)
(* is the all-zero release.  The manager has to tell a key that was just   *)
(* pressed from the value that BlueZ had cached and replays when the       *)
(* subscription starts, and a release from an idle report, and it attaches *)
(* to a release the usages of the press that went before.                  *)
(***************************************************************************)
EXTENDS FiniteSets

CONSTANTS
  Paths,         \* input Report characteristics
  Keys,          \* keys of the remote
  PathOf,        \* the characteristic that reports each key
  Search,        \* the voice button
  Unknown,       \* keys whose usage the Report Map does not yield
  NoKey,         \* no key of the remote
  Overheard      \* characteristics another D-Bus client keeps subscribed

ASSUME KeyAssumption ==
  /\ PathOf \in [Keys -> Paths]
  /\ Search \in Keys /\ Unknown \subseteq Keys \ {Search}
  /\ Overheard \subseteq Paths
  /\ NoKey \notin Keys

VARIABLES
  link,      \* BlueZ: the remote is connected
  held,      \* the keys that are physically down
  value,     \* the Value property BlueZ has cached for each characteristic
  asked,     \* characteristics whose StartNotify is under way
  on,        \* characteristics subscribed for this client
  mapped,    \* _report_metadata_by_path is filled
  decoder,   \* _report_decoder is not None
  snapshot,  \* _initial_cached_values_by_path
  active,    \* _active_report_paths
  usages,    \* _active_usages_by_path
  button,    \* _hid_voice_button_pressed
  told,      \* the last event listeners received from each characteristic
  cut,       \* history: the last event is a press that a link loss cut off
  unreplayed,  \* history: subscribed without the replay of the captured
               \* value, and no value received since
  fresh,       \* history: a key of it went down while it was subscribed and
               \* not unreplayed
  overlap      \* history: the last press of Search shared its report

remote == <<link, held, value, asked, on>>
events == <<active, usages, button, told, cut>>
history == <<fresh, unreplayed, overlap>>
vars == <<remote, mapped, decoder, snapshot, events, history>>

\* No Value property; nothing captured.
NoValue == {NoKey}

Quiet == [down |-> FALSE, keys |-> {}]

Down(p, keys) == {k \in keys : PathOf[k] = p}

\* BlueZ sends property changes of p to the integration.
Notifies(p) == link /\ p \in on \cup Overheard

Init ==
  /\ link = FALSE /\ held = {}
  /\ value = [p \in Paths |-> NoValue]
  /\ asked = {} /\ on = {}
  /\ mapped = FALSE /\ decoder = FALSE
  /\ snapshot = [p \in Paths |-> NoValue]
  /\ active = {} /\ usages = [p \in Paths |-> {}]
  /\ button = FALSE
  /\ told = [p \in Paths |-> Quiet] /\ cut = {}
  /\ fresh = {} /\ unreplayed = {} /\ overlap = FALSE

-----------------------------------------------------------------------------
(* _async_bluez_value_changed and _publish_report.                         *)

\* Without metadata the report ID is 0, which no field of the map describes.
Decode(v) == IF mapped /\ decoder THEN v \ Unknown ELSE {}

\* Mutant: a press that decodes to nothing leaves the earlier usages in place.
StaleUsages(p, v) == IF Decode(v) # {} \/ v = {} THEN Decode(v) ELSE usages[p]

\* Mutant: a release does not forget the usages it carried.
NeverForgotten(p, v) == IF v = {} THEN usages[p] ELSE Decode(v)

\* What _active_usages_by_path keeps after a report.
Remembered(p, v) == Decode(v)

\* Mutant: a release carries only what it decodes to, which is nothing.
BareRelease(p, v) == Decode(v)

\* The usages an event carries: its own or, for a release, those remembered.
Carried(p, v) == IF v = {} THEN usages[p] ELSE Decode(v)

IdleReport(p, v) == v = {} /\ p \notin active

Publish(p, v) ==
  /\ told' = [told EXCEPT ![p] = [down |-> v # {}, keys |-> Carried(p, v)]]
  /\ cut' = cut \ {p}
  /\ button' = IF Search \in Carried(p, v) THEN v # {} ELSE button

Report(p, v) ==
  IF IdleReport(p, v)
  THEN UNCHANGED events
  ELSE /\ active' = IF v = {} THEN active \ {p} ELSE active \cup {p}
       /\ usages' = [usages EXCEPT ![p] = Remembered(p, v)]
       /\ Publish(p, v)

Replayed(p, v) == v = snapshot[p]

\* Mutant: every value of the connection is compared with the snapshot.
CompareAll(p) == snapshot[p]

\* Only the first value after the snapshot is compared with it.
CompareFirst(p) == NoValue

Receive(p, v) ==
  /\ snapshot' = [snapshot EXCEPT ![p] = CompareFirst(p)]
  /\ IF Replayed(p, v) THEN UNCHANGED events ELSE Report(p, v)

-----------------------------------------------------------------------------
(* Mapping and subscribing.                                                *)

\* A mapping fills the metadata; the Report Map may not be readable yet.
Map ==
  /\ link /\ ~(mapped /\ decoder)
  /\ mapped' = TRUE
  /\ decoder' \in {decoder, TRUE}
  /\ UNCHANGED <<remote, snapshot, events, history>>

\* _capture_initial_cached_value, and the call of StartNotify.
Ask(p) ==
  /\ link /\ mapped /\ p \notin asked \cup on
  /\ asked' = asked \cup {p}
  /\ snapshot' = [snapshot EXCEPT ![p] = value[p]]
  /\ UNCHANGED <<link, held, value, on, mapped, decoder, events, history>>

Refuse(p) ==
  /\ p \in asked
  /\ asked' = asked \ {p}
  /\ snapshot' = [snapshot EXCEPT ![p] = NoValue]
  /\ UNCHANGED <<link, held, value, on, mapped, decoder, events, history>>

\* BlueZ starts the subscription, with or without a replay.
Subscribe(p) ==
  /\ p \in asked
  /\ asked' = asked \ {p} /\ on' = on \cup {p}
  /\ \/ value[p] # NoValue /\ Receive(p, value[p]) /\ UNCHANGED unreplayed
     \/ /\ unreplayed' = unreplayed \cup (IF snapshot[p] = NoValue THEN {} ELSE {p})
        /\ UNCHANGED <<snapshot, events>>
  /\ UNCHANGED <<link, held, value, mapped, decoder, fresh, overlap>>

-----------------------------------------------------------------------------
(* The remote.                                                             *)

\* The report of a changed set of keys reaches the integration, if it does.
Send(p, keys) ==
  IF Notifies(p)
  THEN /\ value' = [value EXCEPT ![p] = Down(p, keys)]
       /\ Receive(p, Down(p, keys))
       /\ unreplayed' = unreplayed \ {p}
  ELSE UNCHANGED <<value, snapshot, events, unreplayed>>

KeyDown(k) ==
  /\ k \notin held
  /\ held' = held \cup {k}
  /\ Send(PathOf[k], held')
  /\ fresh' = fresh \cup ({PathOf[k]} \cap (on \ unreplayed))
  /\ overlap' =
       IF k = Search THEN Down(PathOf[k], held) # {}
       ELSE overlap \/ (Search \in held /\ PathOf[k] = PathOf[Search])
  /\ UNCHANGED <<link, asked, on, mapped, decoder>>

KeyUp(k) ==
  /\ k \in held
  /\ held' = held \ {k}
  /\ Send(PathOf[k], held')
  /\ fresh' = IF Down(PathOf[k], held') = {} THEN fresh \ {PathOf[k]} ELSE fresh
  /\ UNCHANGED <<link, asked, on, mapped, decoder, overlap>>

Connect ==
  /\ ~link
  /\ link' = TRUE
  /\ UNCHANGED <<held, value, asked, on, mapped, decoder, snapshot, events, history>>

\* _async_bluez_connected_changed.  Listeners are told nothing: what was pressed stays
\* pressed to them.
Disconnect ==
  /\ link
  /\ link' = FALSE /\ asked' = {} /\ on' = {}
  /\ mapped' = FALSE
  /\ snapshot' = [p \in Paths |-> NoValue]
  /\ active' = {} /\ usages' = [p \in Paths |-> {}] /\ button' = FALSE
  /\ cut' = {p \in Paths : told[p].down}
  /\ fresh' = {} /\ unreplayed' = {}
  /\ UNCHANGED <<held, value, decoder, told, overlap>>

-----------------------------------------------------------------------------
Next ==
  \/ Map \/ Connect \/ Disconnect
  \/ \E p \in Paths : Ask(p) \/ Refuse(p) \/ Subscribe(p)
  \/ \E k \in Keys : KeyDown(k) \/ KeyUp(k)

Spec == Init /\ [][Next]_vars

-----------------------------------------------------------------------------
\* Every variable keeps to the values its code counterpart can take; usages
\* are remembered only for characteristics with a press.
TypeOK ==
  /\ link \in BOOLEAN /\ mapped \in BOOLEAN /\ decoder \in BOOLEAN
  /\ held \in SUBSET Keys
  /\ value \in [Paths -> (SUBSET Keys) \cup {NoValue}]
  /\ snapshot \in [Paths -> (SUBSET Keys) \cup {NoValue}]
  /\ asked \in SUBSET Paths /\ on \in SUBSET Paths /\ asked \cap on = {}
  /\ active \in SUBSET Paths
  /\ usages \in [Paths -> SUBSET Keys]
  /\ \A p \in Paths : usages[p] # {} => p \in active
  /\ button \in BOOLEAN
  /\ told \in [Paths -> [down : BOOLEAN, keys : SUBSET Keys]]
  /\ cut \in SUBSET {p \in Paths : told[p].down}
  /\ fresh \in SUBSET on /\ unreplayed \in SUBSET on /\ overlap \in BOOLEAN

\* A press that listeners were told of and that can still have its release.
Pressing(p) == told[p].down /\ p \notin cut

\* A press that listeners are told of is one: some key of that report is down, and
\* neither a replayed value nor an idle report produces an event of its own.  The
\* exception is a press that a link loss cut off: its release is never published.  A
\* key that went down while its report was subscribed has been told; the exception is a
\* report whose captured value BlueZ did not replay.
ToldIsHeld ==
  /\ \A p \in Paths : Pressing(p) => Down(p, held) # {}
  /\ \A p \in fresh : Pressing(p)

\* A release is published only after a press of the same connection, and carries the
\* usages of that press, also when they are none.
ReleaseMatchesPress ==
  [][\A p \in Paths :
       ~told'[p].down /\ told'[p] # told[p] =>
         Pressing(p) /\ told'[p].keys = told[p].keys]_vars

\* The voice button is believed to be down only while it is, unless another
\* key of its report was down together with it.
ButtonMeansHeld == button => Search \in held \/ overlap
=============================================================================
