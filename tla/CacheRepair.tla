---------------------------- MODULE CacheRepair ----------------------------
(***************************************************************************)
(* compatibility.py and the two scripts it runs: the GATT cache of one     *)
(* tested remote is replaced, or put back, by a one-shot systemd unit      *)
(* while bluetooth.service is stopped.                                     *)
(*                                                                         *)
(* pc names the await of the Home Assistant task, helper the next command  *)
(* of the script.  Both run side by side; systemd starts and stops BlueZ   *)
(* some time after it was told to.                                         *)
(***************************************************************************)
EXTENDS Integers

CONSTANTS
    MaxCalls    \* bound: repairs and restorations started

ASSUME CacheRepairAssumption == MaxCalls \in Nat \ {0}

VARIABLES
    cache,      \* $DEST: what it holds, "missing" if there is no file
    backup,     \* $BACKUP: what it holds, "none" if there is no file
    marker,     \* $MISSING exists
    before,     \* ghost: what the repair in place replaced, "none" without one
    bluez,      \* BlueZ owns its bus name
    wanted,     \* the last job given to systemd for bluetooth.service: it runs
    refused,    \* ghost: systemd refused to start it after the last stop
    helper,     \* "none", the next command of the script, "done" or "failed"
    pc, op,
    stopped,    \* bluez_stopped
    result, calls,
    mishaps     \* ghost: "torn" if a script ended, or BlueZ wrote the cache, between a
                \* snapshot and the first write of the cache, until the snapshot is
                \* gone; "unwatched" if this call went on while the script it had
                \* started still ran; "lost" if a flow was ever closed while BlueZ was
                \* told to stop

files == <<cache, backup, marker, before>>
task  == <<pc, op, stopped, result, calls>>
vars  == <<files, bluez, wanted, refused, helper, task, mishaps>>

Contents == {"original", "learned", "verified", "partial"}
Commands == {"snapshot", "copy", "replace", "write", "restore", "rewrite", "forget"}
Running  == helper \in Commands

Init ==
    /\ cache \in {"original", "missing"}
    /\ backup = "none" /\ marker = FALSE /\ before = "none"
    /\ bluez = TRUE /\ wanted = TRUE /\ refused = FALSE /\ helper = "none"
    /\ pc = "idle" /\ op = "install" /\ stopped = FALSE
    /\ result = "none" /\ calls = 0 /\ mishaps = {}

(* ------------------------------ the scripts ----------------------------- *)

\* Mutant: the marker is not looked for.
NoBackup == backup = "none"

\* Nothing was saved by an earlier run.
NothingSaved == backup = "none" /\ ~marker

\* install-bluez-cache.sh: save the cache that is there, or that there is none.
Snapshot ==
    /\ helper = "snapshot"
    /\ IF ~NothingSaved
       THEN helper' = "replace" /\ UNCHANGED <<backup, marker>>
       ELSE IF cache = "missing"
            THEN helper' = "replace" /\ marker' = TRUE /\ UNCHANGED backup
            ELSE helper' = "copy" /\ backup' = "partial" /\ UNCHANGED marker
    /\ UNCHANGED <<cache, before>>

SnapshotCopied ==
    /\ helper = "copy" /\ helper' = "replace"
    /\ backup' = cache
    /\ UNCHANGED <<cache, marker, before>>

\* The copy truncates $DEST first.
Replace ==
    /\ helper = "replace" /\ helper' = "write"
    /\ cache' = "partial"
    /\ before' = IF before = "none" THEN cache ELSE before
    /\ UNCHANGED <<backup, marker>>

Replaced ==
    /\ helper = "write" /\ helper' = "done"
    /\ cache' = "verified"
    /\ UNCHANGED <<backup, marker, before>>

\* restore-bluez-cache.sh
Restore ==
    /\ helper = "restore"
    /\ UNCHANGED <<backup, marker, before>>
    /\ CASE backup # "none"            -> helper' = "rewrite" /\ cache' = "partial"
         [] backup = "none" /\ marker  -> helper' = "forget" /\ cache' = "missing"
         [] backup = "none" /\ ~marker -> helper' = "failed" /\ UNCHANGED cache

Restored ==
    /\ helper = "rewrite" /\ helper' = "forget"
    /\ cache' = backup
    /\ UNCHANGED <<backup, marker, before>>

Forget ==
    /\ helper = "forget" /\ helper' = "done"
    /\ backup' = "none" /\ marker' = FALSE /\ before' = "none"
    /\ UNCHANGED cache

\* TimeoutStartUSec, or the job of a StopUnit of the unit, some time after its answer.
Killed ==
    /\ Running /\ helper' = "failed"
    /\ UNCHANGED files

\* A script that ends now leaves half a snapshot, or one that will be older than
\* the cache the next repair replaces; and so is one if BlueZ writes the cache now.
Torn == {m \in {"torn"} : helper \in {"copy", "replace"}}

Script ==
    /\ \/ /\ Snapshot \/ SnapshotCopied \/ Replace \/ Replaced \/ Restore \/ Restored
          /\ UNCHANGED mishaps
       \/ Forget /\ mishaps' = mishaps \ {"torn"}
       \/ Killed /\ mishaps' = mishaps \cup Torn
    /\ UNCHANGED <<bluez, wanted, refused, task>>

(* --------------------- systemd, and BlueZ when it runs ------------------ *)

UnitFollows ==
    /\ bluez # wanted /\ bluez' = wanted
    /\ UNCHANGED <<files, wanted, refused, helper, task, mishaps>>

\* BlueZ writes down what it finds on the device.
BluezLearns ==
    /\ bluez /\ cache' = "learned" /\ mishaps' = mishaps \cup Torn
    /\ UNCHANGED <<backup, marker, before, bluez, wanted, refused, helper, task>>

(* -------------------------- the task's own steps ------------------------ *)

\* The device and its adapter are looked up in BlueZ.  A script left behind by
\* an earlier call is over within its 10 s, before the next call.
Begin ==
    /\ pc \in {"idle", "done"} /\ calls < MaxCalls /\ ~Running
    /\ calls' = calls + 1 /\ stopped' = FALSE /\ mishaps' = mishaps \ {"unwatched"}
    /\ op' \in {"install", "restore"}
    /\ IF bluez THEN pc' = "stop" /\ result' = "none"
                ELSE pc' = "done" /\ result' = "unsupported"
    /\ UNCHANGED <<files, bluez, wanted, refused, helper>>

\* Mutant: an error on the way leaves BlueZ stopped.
NeverRestart(s) == FALSE

\* The `finally` block has BlueZ to start.
MustRestart(s) == s

Finally(r, s) ==
    /\ result' = r
    /\ pc' = IF MustRestart(s) THEN "start" ELSE "done"

BluezToldToStop ==
    /\ pc = "stop"
    /\ \/ /\ wanted' = FALSE /\ refused' = FALSE /\ stopped' = TRUE
          /\ pc' = "waitDown" /\ UNCHANGED result
       \/ Finally("error", FALSE) /\ UNCHANGED <<wanted, refused, stopped>>
    /\ UNCHANGED <<files, bluez, helper, op, calls, mishaps>>

\* Mutant: the helper does not wait for BlueZ to leave.
DownAtOnce == TRUE

BluezLeft == ~bluez

BluezWaitedFor ==
    /\ pc = "waitDown"
    /\ \/ BluezLeft /\ pc' = "launch" /\ UNCHANGED result
       \/ Finally("error", stopped)
    /\ UNCHANGED <<files, bluez, wanted, refused, helper, op, stopped, calls, mishaps>>

\* Mutant: no snapshot is taken.
ReplaceAtOnce == IF op = "install" THEN "replace" ELSE "restore"

FirstCommand == IF op = "install" THEN "snapshot" ELSE "restore"

HelperLaunched ==
    /\ pc = "launch"
    /\ \/ helper' = FirstCommand /\ pc' = "unit" /\ UNCHANGED result
       \/ Finally("error", stopped) /\ UNCHANGED helper
    /\ UNCHANGED <<files, bluez, wanted, refused, op, stopped, calls, mishaps>>

\* The call leaves the script to itself.
Unwatched == {m \in {"unwatched"} : Running}

UnitFound ==
    /\ pc = "unit"
    /\ \/ pc' = "waitUnit" /\ UNCHANGED <<result, mishaps>>
       \/ Finally("error", stopped) /\ mishaps' = mishaps \cup Unwatched
    /\ UNCHANGED <<files, bluez, wanted, refused, helper, op, stopped, calls>>

\* ActiveState of a one-shot unit with RemainAfterExit.
Active == helper = "done"

\* The unit is active, or it failed, or its state cannot be read, which may be while
\* the script still runs.
UnitWatched ==
    /\ pc = "waitUnit" /\ pc' = "stopUnit"
    /\ \/ Active /\ UNCHANGED result
       \/ result' = "error"
    /\ UNCHANGED <<files, bluez, wanted, refused, helper, op, stopped, calls, mishaps>>

\* StopUnit of the helper, whose errors are suppressed.  The answer says that systemd
\* has queued the job: a script that still runs is killed later, and nobody waits
\* for that.
HelperStopped ==
    /\ pc = "stopUnit"
    /\ helper' \in {helper} \cup {h \in {"none"} : ~Running}
    /\ mishaps' = mishaps \cup Unwatched
    /\ Finally(result, stopped)
    /\ UNCHANGED <<files, bluez, wanted, refused, op, stopped, calls>>

BluezToldToStart ==
    /\ pc = "start"
    /\ \/ wanted' = TRUE /\ pc' = "waitUp" /\ UNCHANGED <<refused, result>>
       \/ refused' = TRUE /\ pc' = "done" /\ result' = "notRestarted" /\ UNCHANGED wanted
    /\ UNCHANGED <<files, bluez, helper, op, stopped, calls, mishaps>>

BluezBack ==
    /\ pc = "waitUp" /\ pc' = "done"
    /\ \/ bluez /\ result' = IF result = "none" THEN "ok" ELSE result
       \/ result' = "notRestarted"
    /\ UNCHANGED <<files, bluez, wanted, refused, helper, op, stopped, calls, mishaps>>

\* The flow is closed: CancelledError at the current await.  The message that
\* was being answered was sent.
Close ==
    /\ result # "cancelled" /\ pc \notin {"idle", "done"}
    /\ result' = "cancelled"
    /\ CASE pc = "stop" -> pc' = "done"
         [] pc \in {"waitDown", "launch", "unit"} -> pc' = "start"
         [] pc = "waitUnit" -> pc' = "stopUnit"
         [] pc = "stopUnit" -> pc' = "start"
         [] pc \in {"start", "waitUp"} -> pc' = "done"
    /\ wanted' = IF pc = "stop" THEN FALSE ELSE wanted \/ pc = "start"
    /\ refused' = (refused /\ pc # "stop")
    /\ helper' = IF pc = "launch" THEN FirstCommand ELSE helper
    /\ mishaps' = mishaps \cup {m \in {"lost"} : pc = "stop"}
                         \cup {m \in Unwatched' : pc' = "start"}
    /\ UNCHANGED <<files, bluez, op, stopped, calls>>

Task ==
    \/ BluezToldToStop \/ BluezWaitedFor \/ HelperLaunched \/ UnitFound
    \/ UnitWatched \/ HelperStopped \/ BluezToldToStart \/ BluezBack

Next == Begin \/ Task \/ Close \/ Script \/ UnitFollows \/ BluezLearns

Spec == Init /\ [][Next]_vars

(* ------------------------------ properties ------------------------------ *)

\* Every variable keeps to its values, and a snapshot is a file or a marker.
TypeOK ==
    /\ cache \in Contents \cup {"missing"} /\ backup \in Contents \cup {"none"}
    /\ before \in Contents \cup {"none", "missing"}
    /\ backup # "none" => ~marker
    /\ {marker, bluez, wanted, refused, stopped} \subseteq BOOLEAN
    /\ helper \in Commands \cup {"none", "done", "failed"}
    /\ pc \in {"idle", "stop", "waitDown", "launch", "unit", "waitUnit", "stopUnit",
               "start", "waitUp", "done"}
    /\ op \in {"install", "restore"} /\ calls \in 0 .. MaxCalls
    /\ mishaps \subseteq {"torn", "unwatched", "lost"}
    /\ result \in {"none", "ok", "error", "cancelled", "notRestarted", "unsupported"}

\* While a repair is in place, what it replaced can be put back, however often it
\* was applied, unless the snapshot and the first write of the cache were torn apart:
\* the script died between them, or BlueZ wrote the cache beside it
\* (install-bluez-cache.sh 32-42).
OriginalIsKept ==
    before # "none" /\ "torn" \notin mishaps =>
        backup = before \/ (before = "missing" /\ marker)

\* No file is touched while BlueZ runs or is on its way, as long as the call that
\* started the script stays with it.  It does not if the unit cannot be found, if its
\* state cannot be read or the flow is closed: StopUnit is not waited for, and BlueZ is
\* started beside a script that has yet to die (compatibility.py 244-249, 386-408).
HelperIsAlone == Running /\ "unwatched" \notin mishaps => ~bluez /\ ~wanted

\* A call that returned without error did its work (compatibility.py 316-331), and
\* after any call BlueZ runs or was told to, unless systemd refused it or the flow
\* was closed over the stop itself (400-408).
EndsInOrder ==
    pc = "done" =>
        /\ result = "ok" => (before # "none" <=> op = "install")
        /\ "lost" \in mishaps \/ wanted \/ refused
=============================================================================
