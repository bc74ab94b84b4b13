------------------------------ MODULE InputGrab ------------------------------
(***************************************************************************)
(* BluetoothInputGrabber (input_grab.py): one remote's Linux event nodes   *)
(* are held with EVIOCGRAB so that its keys never reach the host console.  *)
(*                                                                         *)
(* Three parties interleave.  The event loop runs async_start, the polling *)
(* coroutine and async_stop.  Executor threads run _reconcile_sync and     *)
(* _release_all_sync, which exclude each other through _sync_lock and      *)
(* which cancelling the awaiting coroutine does not stop.  The kernel      *)
(* creates and removes event nodes at any moment and may hand a freed      *)
(* event number to another device.                                         *)
(***************************************************************************)
EXTENDS Naturals

CONSTANTS
  Nodes  \* the /dev/input/eventN paths that can exist

VARIABLES
  device,    \* kernel: whose device is behind each path
  fds,       \* _fds: what the descriptor kept for a path has grabbed
  loop,      \* position of async_start / _async_poll / async_stop
  stopping,  \* _stopping
  job,       \* the _reconcile_sync call in the executor
  matching,  \* its local `matching`
  todo,      \* the matching paths its loop has still to open
  errors,    \* its local `errors`
  result,    \* the status it returned
  release,   \* the _release_all_sync call in the executor
  status,    \* _status, as published to the diagnostic sensor
  settled,   \* history: no node changed since the latest scan
  reused     \* history: paths that got a new device while _fds held the old

kernel == <<device, settled, reused>>
thread == <<job, matching, todo, errors, result>>
grabVars == <<kernel, thread, fds, loop, stopping, release, status>>

Devices == {"none", "remote", "other"}
Status == [matching : SUBSET Nodes, grabbed : SUBSET Nodes,
           errors : SUBSET Nodes]

InputGrabStatus == [matching |-> {}, grabbed |-> {}, errors |-> {}]

\* Mutant: the sensor turns on when some node is held, not every one.
ActiveOnAny(s) == s.grabbed # {}

Active(s) == s.matching # {} /\ s.matching = s.grabbed

\* The paths _fds has an entry for.
Held == {n \in Nodes : fds[n] # "none"}

GrabInit ==
  /\ device \in [Nodes -> Devices]
  /\ settled = FALSE /\ reused = {}
  /\ fds = [n \in Nodes |-> "none"]
  /\ loop = "idle"
  /\ stopping = FALSE
  /\ job = "none"
  /\ matching = {} /\ todo = {} /\ errors = {}
  /\ result = InputGrabStatus
  /\ release = "none"
  /\ status = InputGrabStatus

-----------------------------------------------------------------------------
(* The kernel.  BlueZ destroys and recreates the remote's nodes with every *)
(* reconnection; unrelated devices come and go as well.                    *)

NodeAppears(n, d) ==
  /\ device[n] = "none"
  /\ device' = [device EXCEPT ![n] = d]
  /\ settled' = FALSE
  /\ reused' = reused \cup ({n} \cap Held)
  /\ UNCHANGED <<thread, fds, loop, stopping, release, status>>

\* A descriptor outlives the device it was opened on.
NodeVanishes(n) ==
  /\ device[n] # "none"
  /\ device' = [device EXCEPT ![n] = "none"]
  /\ fds' = [fds EXCEPT ![n] = IF @ = "none" THEN @ ELSE "gone"]
  /\ settled' = FALSE
  /\ UNCHANGED <<reused, thread, loop, stopping, release, status>>

-----------------------------------------------------------------------------
(* Executor threads.                                                       *)

\* Mutant: the stop flag is not looked at again under the lock.
AlwaysReconcile == TRUE

\* Under _sync_lock, a job that starts after async_stop must do nothing.
MayReconcile == ~stopping

\* _release_sync on every path that no longer matches.
ReleaseUnmatched(found) ==
  [n \in Nodes |-> IF n \in found THEN fds[n] ELSE "none"]

\* Mutant: a path that _fds already holds is opened again.
OpenAll(found) == found

\* Mutant: only a node the scan before did not list is opened.
OpenNew(found) == {n \in found \ matching : fds[n] = "none"}

\* A path already in _fds is skipped, whatever it is now.
ToOpen(found) == {n \in found : fds[n] = "none"}

\* The job takes _sync_lock, scans sysfs and releases vanished nodes.
ScanNodes ==
  /\ job = "queued"
  /\ IF MayReconcile
     THEN LET found == {n \in Nodes : device[n] = "remote"} IN
          /\ matching' = found
          /\ fds' = ReleaseUnmatched(found)
          /\ todo' = ToOpen(found)
          /\ errors' = {}
          /\ job' = "locked"
          /\ settled' = TRUE
          /\ reused' = reused \cap found
          /\ UNCHANGED result
     ELSE /\ job' = "returned"
          /\ result' = status
          /\ UNCHANGED <<matching, fds, todo, errors, settled, reused>>
  /\ UNCHANGED <<device, loop, stopping, release, status>>

\* open and EVIOCGRAB succeed on whatever device is now at the path.
GrabNode(n) ==
  /\ job = "locked"
  /\ n \in todo
  /\ device[n] # "none"
  /\ fds' = [fds EXCEPT ![n] = device[n]]
  /\ todo' = todo \ {n}
  /\ UNCHANGED <<kernel, job, matching, errors, result, loop, stopping,
                 release, status>>

\* open or EVIOCGRAB fails; a descriptor opened on the way is closed.
GrabFails(n) ==
  /\ job = "locked"
  /\ n \in todo
  /\ errors' = errors \cup {n}
  /\ todo' = todo \ {n}
  /\ UNCHANGED <<kernel, job, matching, result, fds, loop, stopping, release,
                 status>>

ReturnStatus ==
  /\ job = "locked"
  /\ todo = {}
  /\ result' = [matching |-> matching, grabbed |-> Held, errors |-> errors]
  /\ job' = "returned"
  /\ UNCHANGED <<kernel, matching, todo, errors, fds, loop, stopping, release,
                 status>>

\* _release_all_sync waits for _sync_lock.
ReleaseAll ==
  /\ release = "queued"
  /\ job # "locked"
  /\ fds' = [n \in Nodes |-> "none"]
  /\ release' = "done"
  /\ reused' = {}
  /\ UNCHANGED <<device, settled, thread, loop, stopping, status>>

-----------------------------------------------------------------------------
(* The event loop.                                                         *)

\* async_start: the first reconciliation is awaited before the poll task.
Start ==
  /\ loop = "idle"
  /\ loop' = "starting"
  /\ stopping' = FALSE
  /\ job' = "queued"
  /\ UNCHANGED <<kernel, matching, todo, errors, result, fds, release, status>>

\* _async_reconcile resumes and publishes what the thread returned.
PublishStatus ==
  /\ loop \in {"starting", "polling"}
  /\ job = "returned"
  /\ status' = result
  /\ loop' = "sleeping"
  /\ job' = "none"
  /\ UNCHANGED <<kernel, matching, todo, errors, result, fds, stopping,
                 release>>

\* The 250 ms sleep ends.
Poll ==
  /\ loop = "sleeping"
  /\ loop' = "polling"
  /\ job' = "queued"
  /\ UNCHANGED <<kernel, matching, todo, errors, result, fds, stopping,
                 release, status>>

\* async_stop cancels the poll task.  A job the executor has not started may
\* be withdrawn or may still run; one that holds the lock runs on, unawaited.
Stop ==
  /\ loop \in {"sleeping", "polling"}
  /\ loop' = "releasing"
  /\ stopping' = TRUE
  /\ release' = "queued"
  /\ \/ job' = job
     \/ job = "queued" /\ job' = "none"
  /\ UNCHANGED <<kernel, matching, todo, errors, result, fds, status>>

\* Nobody awaits the job any more: what it returned is dropped.
DropResult ==
  /\ loop \in {"releasing", "stopped"}
  /\ job = "returned"
  /\ job' = "none"
  /\ UNCHANGED <<kernel, matching, todo, errors, result, fds, loop, stopping,
                 release, status>>

StopDone ==
  /\ loop = "releasing"
  /\ release = "done"
  /\ status' = InputGrabStatus
  /\ loop' = "stopped"
  /\ UNCHANGED <<kernel, thread, fds, stopping, release>>

-----------------------------------------------------------------------------
Kernel ==
  \/ \E n \in Nodes, d \in Devices \ {"none"} : NodeAppears(n, d)
  \/ \E n \in Nodes : NodeVanishes(n)

Thread ==
  \/ ScanNodes
  \/ \E n \in Nodes : GrabNode(n) \/ GrabFails(n)
  \/ ReturnStatus
  \/ ReleaseAll

Loop == Start \/ PublishStatus \/ Poll \/ Stop \/ DropResult \/ StopDone

GrabNext == Kernel \/ Thread \/ Loop

GrabSpec == GrabInit /\ [][GrabNext]_grabVars

\* Threads and the loop keep running while Core runs; the kernel owes
\* nothing, except that opening a node it lists does not fail for ever.
Fairness ==
  /\ WF_grabVars(ScanNodes) /\ WF_grabVars(ReturnStatus) /\ WF_grabVars(ReleaseAll)
  /\ \A n \in Nodes : WF_grabVars(GrabNode(n) \/ GrabFails(n))
  /\ \A n \in Nodes : SF_grabVars(GrabNode(n))
  /\ WF_grabVars(Start) /\ WF_grabVars(PublishStatus) /\ WF_grabVars(Poll)
  /\ WF_grabVars(DropResult) /\ WF_grabVars(StopDone)

LiveSpec == GrabSpec /\ Fairness

-----------------------------------------------------------------------------
\* Every variable keeps to the values its code counterpart can take; the
\* loop of _reconcile_sync only has listed paths before it that _fds lacks,
\* so no descriptor is ever overwritten (and leaked).
GrabTypeOK ==
  /\ device \in [Nodes -> Devices]
  /\ settled \in BOOLEAN /\ reused \in SUBSET Held
  /\ fds \in [Nodes -> Devices \cup {"gone"}]
  /\ loop \in {"idle", "starting", "sleeping", "polling", "releasing",
               "stopped"}
  /\ stopping \in BOOLEAN
  /\ job \in {"none", "queued", "locked", "returned"}
  /\ matching \in SUBSET Nodes
  /\ todo \in SUBSET (matching \ Held)
  /\ errors \in SUBSET Nodes
  /\ result \in Status
  /\ release \in {"none", "queued", "done"}
  /\ status \in Status

\* Once async_stop has released the nodes no descriptor is held again, not
\* even by a reconciliation that was queued or running when it was called.
StoppedHoldsNothing == release = "done" => Held = {}

\* When the sensor says "protected" and no node changed since the scan it
\* reports, every node of the remote is held by a live grab; the exception is
\* one that got its number while the descriptor of its predecessor was open.
ActiveMeansHeld ==
  Active(status) /\ settled /\ loop = "sleeping" =>
    \A n \in Nodes \ reused : device[n] = "remote" => fds[n] = "remote"

\* Polling corrects what a scan got wrong.  While the entry stays loaded, a
\* node of the remote that stays is held in the end, however often opening it
\* failed before, unless its number was still open when it appeared; and a node
\* whose number went to another device between the sysfs read and the open is
\* given back (also by unloading).
GrabsBecomeRight ==
  \A n \in Nodes :
    /\ device[n] = "remote" ~>
         fds[n] = "remote" \/ device[n] # "remote" \/ n \in reused \/ stopping
    /\ fds[n] = "other" ~> fds[n] # "other"
=============================================================================
