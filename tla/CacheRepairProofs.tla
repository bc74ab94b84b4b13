------------------------- MODULE CacheRepairProofs -------------------------
(* Machine-checked, for any number of repairs and restorations: what a repair *)
(* replaced can be put back, no file is touched beside BlueZ while the call   *)
(* stays with its script, and a call that returns did its work and has BlueZ  *)
(* running.                                                                   *)
EXTENDS CacheRepair, TLAPS

(* ------------------------------ the invariant ---------------------------- *)

Installing == {"snapshot", "copy", "replace", "write"}
Restoring == {"restore", "rewrite", "forget"}
Attended == {"unit", "waitUnit", "stopUnit"}

\* No snapshot was torn from its replacement.
Clean == "torn" \notin mishaps

\* What the next command of a script relies on.
Scripted ==
    /\ helper = "copy" => backup = "partial" /\ cache # "missing"
    /\ helper = "rewrite" => backup # "none"
    /\ helper = "write" => before # "none"

\* A snapshot is that of the cache which the repair replaces.
Snapped ==
    Clean =>
        /\ before = "none" /\ helper \notin {"copy", "replace"} => NothingSaved
        /\ before = "none" /\ helper = "replace" =>
               backup = cache \/ (cache = "missing" /\ marker)
        /\ helper = "copy" => before = "none"

\* A script runs while its call attends to it, with BlueZ down and out of the way.
Watched ==
    /\ Running /\ "unwatched" \notin mishaps => pc \in Attended
    /\ pc \in {"stop", "waitDown", "launch"} => ~Running
    /\ pc \in {"waitDown", "launch"} \cup Attended => ~wanted /\ stopped = TRUE
    /\ pc \in {"launch"} \cup Attended => ~bluez

\* What the script has done, before and after its call has taken note of it.
Worked ==
    /\ pc \in {"unit", "waitUnit"} =>
           /\ helper \in Installing => op = "install"
           /\ helper \in Restoring => op = "restore"
           /\ helper = "done" => (before # "none" <=> op = "install")
    /\ pc \in {"stopUnit", "start", "waitUp", "done"} /\ result \in {"none", "ok"} =>
           ~Running /\ (before # "none" <=> op = "install")

\* BlueZ was told to run, unless systemd refused or the flow was closed too early.
Restarted ==
    /\ pc \in {"idle", "stop", "done"} => "lost" \in mishaps \/ wanted \/ refused
    /\ pc = "waitUp" => wanted

CallInv == Scripted /\ Snapped /\ OriginalIsKept /\ Watched /\ Worked /\ Restarted
IInv == TypeOK /\ CallInv

(* ------------------------------- the scripts ----------------------------- *)

\* What a step of a script leaves alone.
LEMMA ScriptBeside ==
    ASSUME IInv, Running, UNCHANGED <<bluez, wanted, refused, task>>,
           mishaps' \subseteq {"torn", "unwatched", "lost"}, mishaps \ {"torn"} \subseteq mishaps'
    PROVE  /\ Watched' /\ Restarted'
           /\ ~(pc \in {"stopUnit", "start", "waitUp", "done"} /\ result \in {"none", "ok"})
           /\ op' = op /\ pc' = pc /\ result' = result
           /\ {bluez', wanted', refused', stopped'} \subseteq BOOLEAN
           /\ mishaps \subseteq mishaps' => (Clean' => Clean)
<1>1. UNCHANGED <<pc, op, stopped, result, calls>>
  BY DEF task
<1>2. Watched' /\ Restarted'
  BY <1>1 DEF IInv, CallInv, Watched, Restarted, Running
<1> QED
  BY <1>1, <1>2 DEF IInv, TypeOK, CallInv, Worked, Clean

LEMMA SnapshotStep ==
    ASSUME IInv, Snapshot, UNCHANGED <<bluez, wanted, refused, task>>, UNCHANGED mishaps
    PROVE  IInv'
<1>1. /\ helper = "snapshot" /\ UNCHANGED <<cache, before>>
      /\ \/ ~NothingSaved /\ helper' = "replace" /\ UNCHANGED <<backup, marker>>
         \/ /\ NothingSaved /\ cache = "missing"
            /\ helper' = "replace" /\ marker' = TRUE /\ UNCHANGED backup
         \/ /\ NothingSaved /\ cache # "missing"
            /\ helper' = "copy" /\ backup' = "partial" /\ UNCHANGED marker
  BY DEF Snapshot, files
<1>2. mishaps' \subseteq {"torn", "unwatched", "lost"} /\ mishaps \subseteq mishaps'
  BY DEF IInv, TypeOK, Torn
<1>3. /\ Watched' /\ Restarted'
      /\ ~(pc \in {"stopUnit", "start", "waitUp", "done"} /\ result \in {"none", "ok"})
      /\ op' = op /\ pc' = pc /\ result' = result
      /\ Clean' => Clean
  BY <1>1, <1>2, ScriptBeside DEF Running, Commands
<1>4. TypeOK'
  <2>1. helper' \in {"replace", "copy"} /\ backup' \in Contents \cup {"none"}
    BY <1>1 DEF IInv, TypeOK, Contents
  <2>2. marker' \in BOOLEAN /\ (backup' # "none" => ~marker')
    <3>1. marker \in BOOLEAN /\ (backup # "none" => ~marker)
      BY DEF IInv, TypeOK
    <3>2. CASE UNCHANGED <<backup, marker>>
      BY <3>1, <3>2
    <3>3. CASE NothingSaved /\ marker' = TRUE /\ UNCHANGED backup
      BY <3>3 DEF NothingSaved
    <3>4. CASE NothingSaved /\ UNCHANGED marker
      BY <3>1, <3>4 DEF NothingSaved
    <3> QED
      BY <1>1, <3>2, <3>3, <3>4
  <2> QED
    BY <1>1, <1>2, <2>1, <2>2 DEF IInv, TypeOK, Commands, task
<1>5. Scripted'
  BY <1>1 DEF IInv, TypeOK, CallInv, Scripted, Contents, NothingSaved
<1>6. Snapped'
  BY <1>1, <1>3 DEF IInv, CallInv, Scripted, Snapped, OriginalIsKept, Clean, NothingSaved
<1>7. OriginalIsKept'
  BY <1>1, <1>3 DEF IInv, CallInv, Scripted, Snapped, OriginalIsKept, Clean, NothingSaved, TypeOK,
         Contents
<1>8. Worked'
  BY <1>1, <1>3 DEF IInv, CallInv, Scripted, Worked, Installing, Restoring, TypeOK, Contents, Running,
         Commands
<1> QED
  BY <1>3, <1>4, <1>5, <1>6, <1>7, <1>8 DEF IInv, CallInv

LEMMA SnapshotCopiedStep ==
    ASSUME IInv, SnapshotCopied, UNCHANGED <<bluez, wanted, refused, task>>, UNCHANGED mishaps
    PROVE  IInv'
<1>1. /\ helper = "copy" /\ helper' = "replace" /\ backup' = cache
      /\ UNCHANGED <<cache, marker, before>>
  BY DEF SnapshotCopied, files
<1>2. mishaps' \subseteq {"torn", "unwatched", "lost"} /\ mishaps \subseteq mishaps'
  BY DEF IInv, TypeOK, Torn
<1>3. /\ Watched' /\ Restarted'
      /\ ~(pc \in {"stopUnit", "start", "waitUp", "done"} /\ result \in {"none", "ok"})
      /\ op' = op /\ pc' = pc /\ result' = result
      /\ Clean' => Clean
  BY <1>1, <1>2, ScriptBeside DEF Running, Commands
<1>4. TypeOK'
  BY <1>1, <1>2 DEF IInv, CallInv, Scripted, TypeOK, Contents, Commands, task
<1>5. Scripted'
  BY <1>1 DEF IInv, TypeOK, CallInv, Scripted, Contents, NothingSaved
<1>6. Snapped'
  BY <1>1, <1>3 DEF IInv, CallInv, Scripted, Snapped, OriginalIsKept, Clean, NothingSaved
<1>7. OriginalIsKept'
  BY <1>1, <1>3 DEF IInv, CallInv, Scripted, Snapped, OriginalIsKept, Clean, NothingSaved, TypeOK,
         Contents
<1>8. Worked'
  BY <1>1, <1>3 DEF IInv, CallInv, Scripted, Worked, Installing, Restoring, TypeOK, Contents, Running,
         Commands
<1> QED
  BY <1>3, <1>4, <1>5, <1>6, <1>7, <1>8 DEF IInv, CallInv

LEMMA ReplaceStep ==
    ASSUME IInv, Replace, UNCHANGED <<bluez, wanted, refused, task>>, UNCHANGED mishaps
    PROVE  IInv'
<1>1. /\ helper = "replace" /\ helper' = "write" /\ cache' = "partial"
      /\ before' = (IF before = "none" THEN cache ELSE before)
      /\ UNCHANGED <<backup, marker>>
  BY DEF Replace, files
<1>2. mishaps' \subseteq {"torn", "unwatched", "lost"} /\ mishaps \subseteq mishaps'
  BY DEF IInv, TypeOK, Torn
<1>3. /\ Watched' /\ Restarted'
      /\ ~(pc \in {"stopUnit", "start", "waitUp", "done"} /\ result \in {"none", "ok"})
      /\ op' = op /\ pc' = pc /\ result' = result
      /\ Clean' => Clean
  BY <1>1, <1>2, ScriptBeside DEF Running, Commands
<1>4. TypeOK'
  BY <1>1, <1>2 DEF IInv, CallInv, Scripted, TypeOK, Contents, Commands, task
<1>5. Scripted'
  BY <1>1 DEF IInv, TypeOK, CallInv, Scripted, Contents, NothingSaved
<1>6. Snapped'
  <2>1. before' # "none"
    BY <1>1 DEF IInv, TypeOK, Contents
  <2> QED
    BY <1>1, <2>1 DEF Snapped
<1>7. OriginalIsKept'
  BY <1>1, <1>3 DEF IInv, CallInv, Scripted, Snapped, OriginalIsKept, Clean, NothingSaved, TypeOK,
         Contents
<1>8. Worked'
  BY <1>1, <1>3 DEF IInv, CallInv, Scripted, Worked, Installing, Restoring, TypeOK, Contents, Running,
         Commands
<1> QED
  BY <1>3, <1>4, <1>5, <1>6, <1>7, <1>8 DEF IInv, CallInv

LEMMA ReplacedStep ==
    ASSUME IInv, Replaced, UNCHANGED <<bluez, wanted, refused, task>>, UNCHANGED mishaps
    PROVE  IInv'
<1>1. /\ helper = "write" /\ helper' = "done" /\ cache' = "verified"
      /\ UNCHANGED <<backup, marker, before>>
  BY DEF Replaced, files
<1>2. mishaps' \subseteq {"torn", "unwatched", "lost"} /\ mishaps \subseteq mishaps'
  BY DEF IInv, TypeOK, Torn
<1>3. /\ Watched' /\ Restarted'
      /\ ~(pc \in {"stopUnit", "start", "waitUp", "done"} /\ result \in {"none", "ok"})
      /\ op' = op /\ pc' = pc /\ result' = result
      /\ Clean' => Clean
  BY <1>1, <1>2, ScriptBeside DEF Running, Commands
<1>4. TypeOK'
  BY <1>1, <1>2 DEF IInv, CallInv, Scripted, TypeOK, Contents, Commands, task
<1>5. Scripted'
  BY <1>1 DEF IInv, TypeOK, CallInv, Scripted, Contents, NothingSaved
<1>6. Snapped'
  BY <1>1, <1>3 DEF IInv, CallInv, Scripted, Snapped, OriginalIsKept, Clean, NothingSaved
<1>7. OriginalIsKept'
  BY <1>1, <1>3 DEF IInv, CallInv, Scripted, Snapped, OriginalIsKept, Clean, NothingSaved, TypeOK,
         Contents
<1>8. Worked'
  BY <1>1, <1>3 DEF IInv, CallInv, Scripted, Worked, Installing, Restoring, TypeOK, Contents, Running,
         Commands
<1> QED
  BY <1>3, <1>4, <1>5, <1>6, <1>7, <1>8 DEF IInv, CallInv

LEMMA RestoreStep ==
    ASSUME IInv, Restore, UNCHANGED <<bluez, wanted, refused, task>>, UNCHANGED mishaps
    PROVE  IInv'
<1>1. /\ helper = "restore" /\ UNCHANGED <<backup, marker, before>>
      /\ \/ backup # "none" /\ helper' = "rewrite" /\ cache' = "partial"
         \/ backup = "none" /\ marker /\ helper' = "forget" /\ cache' = "missing"
         \/ backup = "none" /\ ~marker /\ helper' = "failed" /\ UNCHANGED cache
  BY DEF Restore, files
<1>2. mishaps' \subseteq {"torn", "unwatched", "lost"} /\ mishaps \subseteq mishaps'
  BY DEF IInv, TypeOK, Torn
<1>3. /\ Watched' /\ Restarted'
      /\ ~(pc \in {"stopUnit", "start", "waitUp", "done"} /\ result \in {"none", "ok"})
      /\ op' = op /\ pc' = pc /\ result' = result
      /\ Clean' => Clean
  BY <1>1, <1>2, ScriptBeside DEF Running, Commands
<1>4. TypeOK'
  BY <1>1, <1>2 DEF IInv, CallInv, Scripted, TypeOK, Contents, Commands, task
<1>5. Scripted'
  BY <1>1 DEF IInv, TypeOK, CallInv, Scripted, Contents, NothingSaved
<1>6. Snapped'
  BY <1>1, <1>3 DEF IInv, CallInv, Scripted, Snapped, OriginalIsKept, Clean, NothingSaved
<1>7. OriginalIsKept'
  BY <1>1, <1>3 DEF IInv, CallInv, Scripted, Snapped, OriginalIsKept, Clean, NothingSaved, TypeOK,
         Contents
<1>8. Worked'
  BY <1>1, <1>3 DEF IInv, CallInv, Scripted, Worked, Installing, Restoring, TypeOK, Contents, Running,
         Commands
<1> QED
  BY <1>3, <1>4, <1>5, <1>6, <1>7, <1>8 DEF IInv, CallInv

LEMMA RestoredStep ==
    ASSUME IInv, Restored, UNCHANGED <<bluez, wanted, refused, task>>, UNCHANGED mishaps
    PROVE  IInv'
<1>1. /\ helper = "rewrite" /\ helper' = "forget" /\ cache' = backup
      /\ UNCHANGED <<backup, marker, before>>
  BY DEF Restored, files
<1>2. mishaps' \subseteq {"torn", "unwatched", "lost"} /\ mishaps \subseteq mishaps'
  BY DEF IInv, TypeOK, Torn
<1>3. /\ Watched' /\ Restarted'
      /\ ~(pc \in {"stopUnit", "start", "waitUp", "done"} /\ result \in {"none", "ok"})
      /\ op' = op /\ pc' = pc /\ result' = result
      /\ Clean' => Clean
  BY <1>1, <1>2, ScriptBeside DEF Running, Commands
<1>4. TypeOK'
  BY <1>1, <1>2 DEF IInv, CallInv, Scripted, TypeOK, Contents, Commands, task
<1>5. Scripted'
  BY <1>1 DEF IInv, TypeOK, CallInv, Scripted, Contents, NothingSaved
<1>6. Snapped'
  BY <1>1, <1>3 DEF IInv, CallInv, Scripted, Snapped, OriginalIsKept, Clean, NothingSaved
<1>7. OriginalIsKept'
  BY <1>1, <1>3 DEF IInv, CallInv, Scripted, Snapped, OriginalIsKept, Clean, NothingSaved, TypeOK,
         Contents
<1>8. Worked'
  BY <1>1, <1>3 DEF IInv, CallInv, Scripted, Worked, Installing, Restoring, TypeOK, Contents, Running,
         Commands
<1> QED
  BY <1>3, <1>4, <1>5, <1>6, <1>7, <1>8 DEF IInv, CallInv

LEMMA ForgetStep ==
    ASSUME IInv, Forget, UNCHANGED <<bluez, wanted, refused, task>>, mishaps' = mishaps \ {"torn"}
    PROVE  IInv'
<1>1. /\ helper = "forget" /\ helper' = "done"
      /\ backup' = "none" /\ marker' = FALSE /\ before' = "none" /\ UNCHANGED cache
  BY DEF Forget, files
<1>2. mishaps' \subseteq {"torn", "unwatched", "lost"} /\ mishaps \ {"torn"} \subseteq mishaps'
  BY DEF IInv, TypeOK, Torn
<1>3. /\ Watched' /\ Restarted'
      /\ ~(pc \in {"stopUnit", "start", "waitUp", "done"} /\ result \in {"none", "ok"})
      /\ op' = op /\ pc' = pc /\ result' = result
  BY <1>1, <1>2, ScriptBeside DEF Running, Commands
<1>4. TypeOK'
  BY <1>1, <1>2 DEF IInv, CallInv, Scripted, TypeOK, Contents, Commands, task
<1>5. Scripted'
  BY <1>1 DEF IInv, TypeOK, CallInv, Scripted, Contents, NothingSaved
<1>6. Snapped'
  BY <1>1, <1>3 DEF IInv, CallInv, Scripted, Snapped, OriginalIsKept, Clean, NothingSaved
<1>7. OriginalIsKept'
  BY <1>1, <1>3 DEF IInv, CallInv, Scripted, Snapped, OriginalIsKept, Clean, NothingSaved, TypeOK,
         Contents
<1>8. Worked'
  BY <1>1, <1>3 DEF IInv, CallInv, Scripted, Worked, Installing, Restoring, TypeOK, Contents, Running,
         Commands
<1> QED
  BY <1>3, <1>4, <1>5, <1>6, <1>7, <1>8 DEF IInv, CallInv

LEMMA KilledStep ==
    ASSUME IInv, Killed, mishaps' = mishaps \cup Torn, UNCHANGED <<bluez, wanted, refused, task>>
    PROVE  IInv'
<1>1. Running /\ helper' = "failed" /\ UNCHANGED <<cache, backup, marker, before>>
  BY DEF Killed, files
<1>2. mishaps' \subseteq {"torn", "unwatched", "lost"} /\ mishaps \subseteq mishaps'
  BY DEF IInv, TypeOK, Torn
<1>3. /\ Watched' /\ Restarted'
      /\ ~(pc \in {"stopUnit", "start", "waitUp", "done"} /\ result \in {"none", "ok"})
      /\ op' = op /\ pc' = pc /\ result' = result
      /\ Clean' => Clean
  BY <1>1, <1>2, ScriptBeside
<1>4. Clean' => helper \notin {"copy", "replace"}
  BY DEF Clean, Torn
<1>5. TypeOK'
  BY <1>1, <1>2 DEF IInv, TypeOK, task
<1>6. Scripted' /\ Snapped' /\ OriginalIsKept'
  BY <1>1, <1>3, <1>4
  DEF IInv, CallInv, Scripted, Snapped, OriginalIsKept, Clean, NothingSaved
<1>7. Worked'
  BY <1>1, <1>3 DEF IInv, CallInv, Worked, Installing, Restoring, Running, Commands
<1> QED
  BY <1>3, <1>5, <1>6, <1>7 DEF IInv, CallInv

LEMMA ScriptStep ==
    ASSUME IInv, Script
    PROVE  IInv'
  BY SnapshotStep, SnapshotCopiedStep, ReplaceStep, ReplacedStep, RestoreStep, RestoredStep,
     ForgetStep, KilledStep
  DEF Script

(* ------------------------- the task, and the others ---------------------- *)

\* What the files promise, if a script is left, killed or begun.
LEMMA FilesKept ==
    ASSUME IInv, UNCHANGED files, mishaps \ {"unwatched"} \subseteq mishaps',
           \/ helper' = helper
           \/ /\ helper' \in {"snapshot", "restore", "none"}
              /\ helper \in {"copy", "replace"} => ~Clean'
    PROVE  Scripted' /\ Snapped' /\ OriginalIsKept'
<1>1. UNCHANGED <<cache, backup, marker, before>>
  BY DEF files
<1>2. Clean' => Clean
  BY DEF Clean
<1> QED
  BY <1>1, <1>2
  DEF IInv, CallInv, Scripted, Snapped, OriginalIsKept, Clean, NothingSaved

LEMMA BeginStep ==
    ASSUME IInv, Begin
    PROVE  IInv'
<1>1. /\ pc \in {"idle", "done"} /\ ~Running /\ stopped' = FALSE /\ op' \in {"install", "restore"}
      /\ calls' \in 0 .. MaxCalls /\ mishaps' = mishaps \ {"unwatched"}
      /\ \/ pc' = "stop" /\ result' = "none"
         \/ pc' = "done" /\ result' = "unsupported"
      /\ UNCHANGED <<files, bluez, wanted, refused, helper>>
  BY CacheRepairAssumption DEF Begin, IInv, TypeOK
<1>2. Scripted' /\ Snapped' /\ OriginalIsKept'
  BY <1>1, FilesKept
<1>3. TypeOK'
  BY <1>1 DEF IInv, TypeOK, files, Commands
<1>4. Watched'
  BY <1>1 DEF IInv, CallInv, Watched, Running, Commands, Attended
<1>5. Worked'
  BY <1>1 DEF IInv, CallInv, Watched, Worked, Installing, Restoring, Running, Commands, files, Attended
<1>6. Restarted'
  BY <1>1 DEF IInv, CallInv, Watched, Restarted, Attended
<1> QED
  BY <1>2, <1>3, <1>4, <1>5, <1>6 DEF IInv, CallInv

LEMMA BluezToldToStopStep ==
    ASSUME IInv, BluezToldToStop
    PROVE  IInv'
<1>1. /\ pc = "stop" /\ mishaps' = mishaps /\ UNCHANGED <<files, bluez, helper, op, calls>>
      /\ \/ /\ wanted' = FALSE /\ refused' = FALSE /\ stopped' = TRUE
            /\ pc' = "waitDown" /\ UNCHANGED result
         \/ pc' = "done" /\ result' = "error" /\ UNCHANGED <<wanted, refused, stopped>>
  BY DEF BluezToldToStop, Finally, MustRestart
<1>2. Scripted' /\ Snapped' /\ OriginalIsKept'
  BY <1>1, FilesKept
<1>3. TypeOK'
  BY <1>1 DEF IInv, TypeOK, files, Commands
<1>4. Watched'
  BY <1>1 DEF IInv, CallInv, Watched, Running, Commands, Attended
<1>5. Worked'
  BY <1>1 DEF IInv, CallInv, Watched, Worked, Installing, Restoring, Running, Commands, files, Attended
<1>6. Restarted'
  BY <1>1 DEF IInv, CallInv, Watched, Restarted, Attended
<1> QED
  BY <1>2, <1>3, <1>4, <1>5, <1>6 DEF IInv, CallInv

LEMMA BluezWaitedForStep ==
    ASSUME IInv, BluezWaitedFor
    PROVE  IInv'
<1>1. /\ pc = "waitDown" /\ stopped = TRUE /\ mishaps' = mishaps
      /\ \/ ~bluez /\ pc' = "launch" /\ UNCHANGED result
         \/ pc' = "start" /\ result' = "error"
      /\ UNCHANGED <<files, bluez, wanted, refused, helper, op, stopped, calls>>
  BY DEF BluezWaitedFor, Finally, MustRestart, BluezLeft, IInv, CallInv, Watched
<1>2. Scripted' /\ Snapped' /\ OriginalIsKept'
  BY <1>1, FilesKept
<1>3. TypeOK'
  BY <1>1 DEF IInv, TypeOK, files, Commands
<1>4. Watched'
  BY <1>1 DEF IInv, CallInv, Watched, Running, Commands, Attended
<1>5. Worked'
  BY <1>1 DEF IInv, CallInv, Watched, Worked, Installing, Restoring, Running, Commands, files, Attended
<1>6. Restarted'
  BY <1>1 DEF IInv, CallInv, Watched, Restarted, Attended
<1> QED
  BY <1>2, <1>3, <1>4, <1>5, <1>6 DEF IInv, CallInv

LEMMA HelperLaunchedStep ==
    ASSUME IInv, HelperLaunched
    PROVE  IInv'
<1>1. /\ pc = "launch" /\ stopped = TRUE /\ mishaps' = mishaps
      /\ \/ helper' = (IF op = "install" THEN "snapshot" ELSE "restore") /\ pc' = "unit" /\ UNCHANGED result
         \/ pc' = "start" /\ result' = "error" /\ UNCHANGED helper
      /\ UNCHANGED <<files, bluez, wanted, refused, op, stopped, calls>>
  BY DEF HelperLaunched, Finally, MustRestart, FirstCommand, IInv, CallInv, Watched
<1>0. helper \notin {"copy", "replace"}
  BY <1>1 DEF IInv, CallInv, Watched, Running, Commands
<1>2. Scripted' /\ Snapped' /\ OriginalIsKept'
  BY <1>1, FilesKept, <1>0
<1>3. TypeOK'
  BY <1>1 DEF IInv, TypeOK, files, Commands
<1>4. Watched'
  BY <1>1 DEF IInv, CallInv, Watched, Running, Commands, Attended
<1>5. Worked'
  <2>1. CASE /\ helper' = (IF op = "install" THEN "snapshot" ELSE "restore") /\ pc' = "unit"
    <3>1. op' = op /\ op \in {"install", "restore"}
      BY <1>1 DEF IInv, TypeOK
    <3>2. CASE op = "install"
      BY <2>1, <3>1, <3>2 DEF Worked, Installing, Restoring
    <3>3. CASE op = "restore"
      BY <2>1, <3>1, <3>3 DEF Worked, Installing, Restoring
    <3> QED
      BY <3>1, <3>2, <3>3
  <2>2. CASE pc' = "start" /\ result' = "error"
    BY <2>2 DEF Worked
  <2> QED
    BY <1>1, <2>1, <2>2
<1>6. Restarted'
  BY <1>1 DEF IInv, CallInv, Watched, Restarted, Attended
<1> QED
  BY <1>2, <1>3, <1>4, <1>5, <1>6 DEF IInv, CallInv

LEMMA UnitFoundStep ==
    ASSUME IInv, UnitFound
    PROVE  IInv'
<1>1. /\ pc = "unit" /\ stopped = TRUE
      /\ \/ pc' = "waitUnit" /\ UNCHANGED <<result, mishaps>>
         \/ pc' = "start" /\ result' = "error" /\ mishaps' = mishaps \cup {m \in {"unwatched"} : Running}
      /\ UNCHANGED <<files, bluez, wanted, refused, helper, op, stopped, calls>>
  BY DEF UnitFound, Unwatched, Finally, MustRestart, IInv, CallInv, Watched, Attended
<1>2. Scripted' /\ Snapped' /\ OriginalIsKept'
  BY <1>1, FilesKept
<1>3. TypeOK'
  BY <1>1 DEF IInv, TypeOK, files, Commands
<1>4. Watched'
  BY <1>1 DEF IInv, CallInv, Watched, Running, Commands, Attended
<1>5. Worked'
  BY <1>1 DEF IInv, CallInv, Watched, Worked, Installing, Restoring, Running, Commands, files, Attended
<1>6. Restarted'
  BY <1>1 DEF IInv, CallInv, Watched, Restarted, Attended
<1> QED
  BY <1>2, <1>3, <1>4, <1>5, <1>6 DEF IInv, CallInv

LEMMA UnitWatchedStep ==
    ASSUME IInv, UnitWatched
    PROVE  IInv'
<1>1. /\ pc = "waitUnit" /\ pc' = "stopUnit" /\ mishaps' = mishaps
      /\ \/ helper = "done" /\ UNCHANGED result
         \/ result' = "error"
      /\ UNCHANGED <<files, bluez, wanted, refused, helper, op, stopped, calls>>
  BY DEF UnitWatched, Active
<1>2. Scripted' /\ Snapped' /\ OriginalIsKept'
  BY <1>1, FilesKept
<1>3. TypeOK'
  BY <1>1 DEF IInv, TypeOK, files, Commands
<1>4. Watched'
  BY <1>1 DEF IInv, CallInv, Watched, Running, Commands, Attended
<1>5. Worked'
  BY <1>1 DEF IInv, CallInv, Watched, Worked, Installing, Restoring, Running, Commands, files, Attended
<1>6. Restarted'
  BY <1>1 DEF IInv, CallInv, Watched, Restarted, Attended
<1> QED
  BY <1>2, <1>3, <1>4, <1>5, <1>6 DEF IInv, CallInv

LEMMA HelperStoppedStep ==
    ASSUME IInv, HelperStopped
    PROVE  IInv'
<1>1. /\ pc = "stopUnit" /\ stopped = TRUE /\ pc' = "start" /\ result' = result
      /\ helper' = helper \/ (~Running /\ helper' = "none")
      /\ mishaps' = mishaps \cup {m \in {"unwatched"} : Running}
      /\ UNCHANGED <<files, bluez, wanted, refused, op, stopped, calls>>
  BY DEF HelperStopped, Unwatched, Finally, MustRestart, IInv, CallInv, Watched, Attended
<1>0. helper' # helper => helper \notin {"copy", "replace"}
  BY <1>1 DEF Running, Commands
<1>2. Scripted' /\ Snapped' /\ OriginalIsKept'
  BY <1>1, FilesKept, <1>0
<1>3. TypeOK'
  BY <1>1 DEF IInv, TypeOK, files, Commands
<1>4. Watched'
  BY <1>1 DEF IInv, CallInv, Watched, Running, Commands, Attended
<1>5. Worked'
  BY <1>1 DEF IInv, CallInv, Watched, Worked, Installing, Restoring, Running, Commands, files, Attended
<1>6. Restarted'
  BY <1>1 DEF IInv, CallInv, Watched, Restarted, Attended
<1> QED
  BY <1>2, <1>3, <1>4, <1>5, <1>6 DEF IInv, CallInv

LEMMA BluezToldToStartStep ==
    ASSUME IInv, BluezToldToStart
    PROVE  IInv'
<1>1. /\ pc = "start" /\ mishaps' = mishaps
      /\ \/ wanted' = TRUE /\ pc' = "waitUp" /\ UNCHANGED <<refused, result>>
         \/ refused' = TRUE /\ pc' = "done" /\ result' = "notRestarted" /\ UNCHANGED wanted
      /\ UNCHANGED <<files, bluez, helper, op, stopped, calls>>
  BY DEF BluezToldToStart
<1>2. Scripted' /\ Snapped' /\ OriginalIsKept'
  BY <1>1, FilesKept
<1>3. TypeOK'
  BY <1>1 DEF IInv, TypeOK, files, Commands
<1>4. Watched'
  BY <1>1 DEF IInv, CallInv, Watched, Running, Commands, Attended
<1>5. Worked'
  BY <1>1 DEF IInv, CallInv, Watched, Worked, Installing, Restoring, Running, Commands, files, Attended
<1>6. Restarted'
  BY <1>1 DEF IInv, CallInv, Watched, Restarted, Attended
<1> QED
  BY <1>2, <1>3, <1>4, <1>5, <1>6 DEF IInv, CallInv

LEMMA BluezBackStep ==
    ASSUME IInv, BluezBack
    PROVE  IInv'
<1>1. /\ pc = "waitUp" /\ pc' = "done" /\ mishaps' = mishaps
      /\ \/ result' = IF result = "none" THEN "ok" ELSE result
         \/ result' = "notRestarted"
      /\ UNCHANGED <<files, bluez, wanted, refused, helper, op, stopped, calls>>
  BY DEF BluezBack
<1>2. Scripted' /\ Snapped' /\ OriginalIsKept'
  BY <1>1, FilesKept
<1>3. TypeOK'
  BY <1>1 DEF IInv, TypeOK, files, Commands
<1>4. Watched'
  BY <1>1 DEF IInv, CallInv, Watched, Running, Commands, Attended
<1>5. Worked'
  BY <1>1 DEF IInv, CallInv, Watched, Worked, Installing, Restoring, Running, Commands, files, Attended
<1>6. Restarted'
  BY <1>1 DEF IInv, CallInv, Watched, Restarted, Attended
<1> QED
  BY <1>2, <1>3, <1>4, <1>5, <1>6 DEF IInv, CallInv

LEMMA CloseStep ==
    ASSUME IInv, Close
    PROVE  IInv'
<1>1. /\ result' = "cancelled" /\ UNCHANGED <<files, bluez, op, stopped, calls>>
      /\ mishaps \subseteq mishaps' /\ mishaps' \subseteq mishaps \cup {"unwatched", "lost"}
      /\ \/ /\ pc = "stop" /\ pc' = "done" /\ "lost" \in mishaps'
            /\ wanted' = FALSE /\ refused' = FALSE /\ helper' = helper
         \/ /\ pc \in {"waitDown", "launch", "unit"} /\ pc' = "start"
            /\ UNCHANGED <<wanted, refused>>
            /\ pc = "launch" => helper' \in {"snapshot", "restore"}
            /\ pc # "launch" => helper' = helper
            /\ Running' => "unwatched" \in mishaps'
         \/ /\ pc = "waitUnit" /\ pc' = "stopUnit" /\ UNCHANGED <<wanted, refused, helper>>
         \/ /\ pc = "stopUnit" /\ pc' = "start" /\ UNCHANGED <<wanted, refused>>
            /\ helper' = helper /\ (Running => "unwatched" \in mishaps')
         \/ /\ pc = "start" /\ pc' = "done" /\ wanted' = TRUE /\ UNCHANGED <<refused, helper>>
         \/ /\ pc = "waitUp" /\ pc' = "done" /\ UNCHANGED <<wanted, refused, helper>>
  BY DEF Close, FirstCommand, Unwatched, Running, IInv, TypeOK
<1>0. helper' # helper => helper \notin {"copy", "replace"}
  BY <1>1 DEF IInv, CallInv, Watched, Running, Commands
<1>2. Scripted' /\ Snapped' /\ OriginalIsKept'
  BY <1>1, FilesKept, <1>0
<1>3. TypeOK'
  BY <1>1 DEF IInv, TypeOK, files, Commands
<1>4. Watched'
  BY <1>1 DEF IInv, CallInv, Watched, Running, Commands, Attended
<1>5. Worked'
  BY <1>1 DEF IInv, CallInv, Watched, Worked, Installing, Restoring, Running, Commands, files, Attended
<1>6. Restarted'
  BY <1>1 DEF IInv, CallInv, Watched, Restarted, Attended
<1> QED
  BY <1>2, <1>3, <1>4, <1>5, <1>6 DEF IInv, CallInv

LEMMA OthersStep ==
    ASSUME IInv, UnitFollows \/ BluezLearns
    PROVE  IInv'
<1>1. UNCHANGED <<backup, marker, before, wanted, refused, helper, pc, op, stopped, result, calls>>
  BY DEF UnitFollows, BluezLearns, files, task
<1>2. \/ bluez' = wanted /\ UNCHANGED <<cache, mishaps>>
      \/ bluez /\ bluez' = bluez /\ cache' = "learned" /\ mishaps' = mishaps \cup Torn
  BY DEF UnitFollows, BluezLearns, files
<1>3. TypeOK'
  <2>1. mishaps' \subseteq {"torn", "unwatched", "lost"}
    BY <1>2 DEF IInv, TypeOK, Torn
  <2>2. cache' \in Contents \cup {"missing"} /\ bluez' \in BOOLEAN
    BY <1>2 DEF IInv, TypeOK, Contents
  <2> QED
    BY <1>1, <2>1, <2>2 DEF IInv, TypeOK
<1>4. Watched'
  BY <1>1, <1>2 DEF IInv, CallInv, Watched, Running, Attended, Torn
<1>5. Scripted' /\ OriginalIsKept'
  BY <1>1, <1>2 DEF IInv, CallInv, Scripted, OriginalIsKept, Torn
<1>6. Snapped'
  BY <1>1, <1>2 DEF IInv, CallInv, Snapped, Clean, NothingSaved, Torn
<1>7. Worked' /\ Restarted'
  BY <1>1, <1>2 DEF IInv, CallInv, Worked, Restarted, Running, Torn
<1> QED
  BY <1>3, <1>4, <1>5, <1>6, <1>7 DEF IInv, CallInv

LEMMA SameIInv ==
    ASSUME IInv, UNCHANGED vars
    PROVE  IInv'
  BY DEF vars, files, task, IInv, TypeOK, CallInv, Scripted, Snapped, OriginalIsKept, Watched,
         Worked, Restarted, Running, Clean, NothingSaved

(* ------------------------------ the theorems ----------------------------- *)

LEMMA InitIInv ==
    ASSUME Init
    PROVE  IInv
<1>1. TypeOK
  <2>1. calls \in 0 .. MaxCalls
    BY CacheRepairAssumption DEF Init
  <2>2. /\ cache \in Contents \cup {"missing"} /\ backup \in Contents \cup {"none"}
        /\ before \in Contents \cup {"none", "missing"}
        /\ backup # "none" => ~marker
    BY DEF Init, Contents
  <2>3. {marker, bluez, wanted, refused, stopped} \subseteq BOOLEAN
    BY DEF Init
  <2>4. helper \in Commands \cup {"none", "done", "failed"}
    BY DEF Init
  <2>5. mishaps \subseteq {"torn", "unwatched", "lost"}
    BY DEF Init
  <2> QED
    BY <2>1, <2>2, <2>3, <2>4, <2>5 DEF Init, TypeOK
<1>2. Scripted
  BY DEF Init, Scripted
<1>3. Snapped
  BY DEF Init, Snapped, NothingSaved
<1>4. OriginalIsKept
  BY DEF Init, OriginalIsKept
<1>5. Watched
  BY DEF Init, Watched, Running, Attended, Commands
<1>6. Worked /\ Restarted
  BY DEF Init, Worked, Restarted
<1> QED
  BY <1>1, <1>2, <1>3, <1>4, <1>5, <1>6 DEF IInv, CallInv

THEOREM Invariant == Spec => []IInv
<1>1. Init => IInv
  BY InitIInv
<1>2. IInv /\ [Next]_vars => IInv'
  BY BeginStep, BluezToldToStopStep, BluezWaitedForStep, HelperLaunchedStep, UnitFoundStep,
     UnitWatchedStep, HelperStoppedStep, BluezToldToStartStep, BluezBackStep, CloseStep,
     ScriptStep, OthersStep, SameIInv
  DEF Next, Task
<1> QED
  BY <1>1, <1>2, PTL DEF Spec

\* Every variable keeps to its values, and a snapshot is a file or a marker
\* (install-bluez-cache.sh 32-40).
THEOREM TypeCorrect == Spec => []TypeOK
<1>1. IInv => TypeOK
  BY DEF IInv
<1> QED
  BY <1>1, Invariant, PTL

\* What the repair in place replaced can be put back, unless the snapshot and the first
\* write of the cache were torn apart (install-bluez-cache.sh 32-42).
THEOREM OriginalKept == Spec => []OriginalIsKept
<1>1. IInv => OriginalIsKept
  BY DEF IInv, CallInv
<1> QED
  BY <1>1, Invariant, PTL

\* No file is touched beside BlueZ while the call stays with the script it started
\* (compatibility.py 244-249, 386-408).
THEOREM HelperAlone == Spec => []HelperIsAlone
<1>1. IInv => HelperIsAlone
  BY DEF IInv, CallInv, Watched, HelperIsAlone
<1> QED
  BY <1>1, Invariant, PTL

\* A call that returned did its work, and BlueZ was told to run (compatibility.py
\* 316-331, 400-408).
THEOREM OrderlyEnd == Spec => []EndsInOrder
<1>1. IInv => EndsInOrder
  BY DEF IInv, CallInv, Worked, Restarted, EndsInOrder
<1> QED
  BY <1>1, Invariant, PTL
=============================================================================
