--------------------------- MODULE EntryLifecycle ---------------------------
(***************************************************************************)
(* __init__.py, the options flow (config_flow.py 365-583) and               *)
(* async_remove_hogp_device, with the set-up flow of ConfigFlow beside them. *)
(*                                                                         *)
(* Home Assistant works on the entry under its lock, one operation at a      *)
(* time; op is that operation and the await it is suspended in.              *)
(***************************************************************************)
EXTENDS ConfigFlow

VARIABLES
    state,      \* of the entry: "absent", "not_loaded", "loaded", "setup_error" or
                \* "failed_unload"
    manager,    \* the manager in runtime_data runs: the console does not get the
                \* remote's input
    stray,      \* a manager runs that no runtime_data refers to any more
    op,         \* [by, at], or NoOp
    wanted,     \* operations that wait for the lock: "reload", "remove"
    opts,       \* what the options flow shows
    rebuild,    \* where _bond_task is, "idle" without one
    bondError,  \* _bond_error, or what the task is about to raise
    ours,       \* history: the bond was made by this integration
    excuse,     \* history: why a bond of ours may be without a loaded entry
    unstopped   \* history: the set-up of a manager was cancelled, or its entry was removed
                \* although it could not be unloaded

entryVars == <<state, manager, stray, op, wanted, opts, rebuild, bondError>>
vars == <<bondVars, flowVars, entryVars, ours, excuse, unstopped>>

NoOp == [by |-> "nobody", at |-> "nowhere"]
Op(b, a) == [by |-> b, at |-> a]
At(a) == op.at = a

Init ==
    /\ Contract!Init /\ FlowInit
    /\ state = "absent" /\ manager = FALSE /\ stray = FALSE /\ op = NoOp /\ wanted = {}
    /\ opts = "none" /\ rebuild = "idle" /\ bondError = FALSE
    /\ ours = FALSE /\ excuse = {} /\ unstopped = FALSE

\* The manager in runtime_data is that of an entry that has use for it.
Protected ==
    manager /\ (state \in {"loaded", "failed_unload"} \/ op.at \in {"start", "forward", "undo"})

(* ---------------------------- set-up and unload -------------------------- *)

\* The set-up is over.  A set-up that fails outside a rebuild leaves the bond.
SetUp(b, good) ==
    /\ op' = NoOp
    /\ state' = IF good THEN "loaded" ELSE "setup_error"
    /\ IF b = "rebuild"
       THEN /\ rebuild' = IF good THEN "done" ELSE "remove"
            /\ bondError' = ~good
       ELSE UNCHANGED <<rebuild, bondError>>

\* async_create_key_mapper fails, or the manager is made and started.  It takes the
\* place of the last one, which nobody stops here.
MapperLoads ==
    /\ At("load mapper")
    /\ \/ op' = Op(op.by, "start") /\ manager' = TRUE /\ stray' = (stray \/ manager)
          /\ UNCHANGED <<state, rebuild, bondError>>
       \/ SetUp(op.by, FALSE) /\ UNCHANGED <<manager, stray>>
    /\ UNCHANGED <<bondVars, flowVars, wanted, opts>>

\* manager.async_start and async_forward_entry_setups.
SetUpGoes ==
    /\ At("start") \/ At("forward")
    /\ \/ At("start") /\ op' = Op(op.by, "forward")
          /\ UNCHANGED <<state, rebuild, bondError>>
       \/ At("forward") /\ SetUp(op.by, TRUE)
    /\ UNCHANGED <<bondVars, flowVars, manager, stray, wanted, opts>>

SetUpRaises ==
    /\ At("start") \/ At("forward")
    /\ op' = Op(op.by, "undo")
    /\ UNCHANGED <<bondVars, flowVars, state, manager, stray, wanted, opts, rebuild, bondError>>

\* Mutant: the manager is not stopped.
LeavesManager ==
    /\ At("undo")
    /\ SetUp(op.by, FALSE)
    /\ UNCHANGED <<bondVars, flowVars, manager, stray, wanted, opts>>

\* manager.async_stop after a failure, and the exception goes on.
UndoesSetUp ==
    /\ At("undo")
    /\ manager' = FALSE
    /\ SetUp(op.by, FALSE)
    /\ UNCHANGED <<bondVars, flowVars, stray, wanted, opts>>

\* The unload is over, good or not; a removal goes on either way.
Unloaded(b, good) ==
    CASE b = "reload" ->
           /\ op' = IF good THEN Op("reload", "load mapper") ELSE NoOp
           /\ state' = IF good THEN "not_loaded" ELSE "failed_unload"
           /\ UNCHANGED <<rebuild, bondError>>
      [] b = "remove" ->
           /\ op' = Op("remove", "forget") /\ state' = "absent"
           /\ UNCHANGED <<rebuild, bondError>>
      [] b = "rebuild" ->
           /\ op' = NoOp
           /\ state' = IF good THEN "not_loaded" ELSE "failed_unload"
           /\ rebuild' = (IF good THEN "call" ELSE "done") /\ bondError' = ~good

\* async_unload_entry; an entry that is not loaded needs none.
BeginsUnload(b) ==
    IF state = "loaded"
    THEN /\ op' = Op(b, "unload platforms")
         /\ UNCHANGED <<state, rebuild, bondError>>
    ELSE Unloaded(b, state # "failed_unload")

PlatformsUnload ==
    /\ At("unload platforms")
    /\ \/ /\ op' = Op(op.by, "stop manager")
          /\ UNCHANGED <<state, rebuild, bondError>>
       \/ Unloaded(op.by, FALSE)
    /\ UNCHANGED <<bondVars, flowVars, manager, stray, wanted, opts>>

ManagerStops ==
    /\ At("stop manager")
    /\ manager' = FALSE
    /\ Unloaded(op.by, TRUE)
    /\ UNCHANGED <<bondVars, flowVars, stray, wanted, opts>>

(* -------------------------- creation, reload, removal -------------------- *)

\* async_step_pairing_result or its form; a result makes the entry and sets it up.
FlowResult ==
    /\ ShowsResult
    /\ IF CreatesEntry
       THEN state' = "not_loaded" /\ op' = Op("first", "load mapper")
       ELSE UNCHANGED <<state, op>>
    /\ UNCHANGED <<manager, stray, wanted, opts, rebuild, bondError>>

\* _async_update_listener, which the unload and a failed set-up take away.
OptionsSaved ==
    /\ opts = "form" /\ opts' = "none"
    /\ wanted' = wanted \cup {w \in {"reload"} : Protected}
    /\ UNCHANGED <<bondVars, flowVars, state, manager, stray, op, rebuild, bondError>>

\* Bound: the user asks for one operation while nothing waits for the lock.
UserWants ==
    /\ state # "absent" /\ wanted = {}
    /\ \E w \in {"reload", "remove"} : wanted' = wanted \cup {w}
    /\ UNCHANGED <<bondVars, flowVars, state, manager, stray, op, opts, rebuild, bondError>>

LockTaken ==
    /\ op = NoOp
    /\ \E w \in wanted :
           /\ wanted' = IF w = "remove" THEN {} ELSE wanted \ {w}
           /\ IF state = "absent" \/ (state = "failed_unload" /\ w = "reload")
              THEN UNCHANGED <<state, op, rebuild, bondError>>
              ELSE BeginsUnload(w)
    /\ UNCHANGED <<bondVars, flowVars, manager, stray, opts>>

\* async_remove_hogp_device: BlueZ removes the device, if it has it, or refuses.
Removal ==
    \/ Contract!OtherRemoves
    \/ Contract!Refuses
    \/ bond = "none" /\ UNCHANGED bondVars

\* async_remove_entry; runtime_data is gone with the entry.
BondForgotten ==
    /\ At("forget") /\ op' = NoOp
    /\ Removal
    /\ manager' = FALSE /\ stray' = (stray \/ manager)
    /\ UNCHANGED <<flowVars, state, wanted, opts, rebuild, bondError>>

(* ----------------------------- the options flow -------------------------- *)

OptionsOpen ==
    /\ opts = "none" /\ rebuild = "idle" /\ state # "absent"
    /\ opts' = "form" /\ bondError' = FALSE
    /\ UNCHANGED <<bondVars, flowVars, state, manager, stray, op, wanted, rebuild>>

\* async_step_rebuild_bond is confirmed, perhaps for a second time.
RebuildSubmitted ==
    /\ opts \in {"form", "progress"} /\ opts' = "progress"
    /\ IF rebuild = "idle" THEN rebuild' = "created" /\ bondError' = FALSE
                           ELSE UNCHANGED <<rebuild, bondError>>
    /\ UNCHANGED <<bondVars, flowVars, state, manager, stray, op, wanted>>

\* Home Assistant refuses to unload an entry that is gone or being worked on, or
\* one whose last unload failed.
RebuildUnloads ==
    /\ rebuild = "created"
    /\ IF state \in {"absent", "failed_unload"} \/ op # NoOp
       THEN rebuild' = "done" /\ bondError' = TRUE
            /\ UNCHANGED <<state, op>>
       ELSE \/ state = "loaded" /\ rebuild' = "unload"
               /\ op' = Op("rebuild", "unload platforms")
               /\ UNCHANGED <<state, bondError>>
            \/ state # "loaded" /\ Unloaded("rebuild", TRUE)
    /\ UNCHANGED <<bondVars, flowVars, manager, stray, wanted, opts>>

\* What async_rebuild_hogp_bond came to: only a success counts as rebuilt.
Rebuilt(r) ==
    /\ bondError' = (r \notin Contract!Verified)
    /\ rebuild' = IF r \in Contract!Verified THEN "setup" ELSE "done"

RebuildCalls ==
    /\ rebuild = "call"
    /\ Contract!Starts("rebuild")
    /\ IF call' = "done" THEN Rebuilt(outcome')
                         ELSE rebuild' = "pair" /\ UNCHANGED bondError
    /\ UNCHANGED <<flowVars, state, manager, stray, op, wanted, opts>>

RebuildReturns ==
    /\ rebuild \in {"pair", "closing"}
    /\ \E r \in Told \cup {"cancelled"} :
           /\ Contract!Ends(r)
           /\ r = "cancelled" <=> rebuild = "closing"
           /\ IF r = "cancelled"
              THEN rebuild' = "idle" /\ UNCHANGED bondError
              ELSE Rebuilt(r)
    /\ UNCHANGED <<flowVars, state, manager, stray, op, wanted, opts>>

\* Mutant: the task waits until the entry can be set up.
RebuildWaits ==
    /\ rebuild = "setup" /\ state = "not_loaded" /\ op = NoOp
    /\ op' = Op("rebuild", "load mapper") /\ rebuild' = "load"
    /\ Noted
    /\ UNCHANGED <<flowVars, bondError, state, manager, stray, wanted, opts>>

\* Home Assistant sets up no entry that is gone, or anything but not loaded.
RebuildSetsUp ==
    /\ rebuild = "setup"
    /\ IF state = "not_loaded" /\ op = NoOp
       THEN op' = Op("rebuild", "load mapper") /\ rebuild' = "load"
            /\ UNCHANGED bondError
       ELSE rebuild' = "remove" /\ bondError' = TRUE /\ UNCHANGED op
    /\ Noted
    /\ UNCHANGED <<flowVars, state, manager, stray, wanted, opts>>

\* Mutant: the new bond is left.
RebuildKeeps ==
    /\ rebuild = "remove" /\ rebuild' = IF opts = "none" THEN "idle" ELSE "done"
    /\ UNCHANGED bondVars
    /\ UNCHANGED <<flowVars, state, manager, stray, op, wanted, opts, bondError>>

\* The set-up failed: the new bond is removed again.
RebuildRemoves ==
    /\ rebuild = "remove" /\ rebuild' = IF opts = "none" THEN "idle" ELSE "done"
    /\ Removal
    /\ UNCHANGED <<flowVars, state, manager, stray, op, wanted, opts, bondError>>

\* async_step_rebuild_progress, then async_step_rebuild_result.
RebuildProgresses ==
    /\ opts = "progress" /\ rebuild = "done"
    /\ opts' = "result" /\ rebuild' = "idle"
    /\ Noted
    /\ UNCHANGED <<flowVars, state, manager, stray, op, wanted, bondError>>

RebuildResult ==
    /\ opts = "result"
    /\ opts' = IF bondError THEN "form" ELSE "none"
    /\ bondError' = FALSE
    /\ UNCHANGED <<bondVars, flowVars, state, manager, stray, op, wanted, rebuild>>

(* ------------------------- the flows are closed -------------------------- *)

\* Home Assistant cancels _bond_task.  CancelledError passes the handlers of
\* async_setup_entry, so that a manager that was made goes on; Home Assistant then
\* reports a failed set-up, which the task handles, or passes it on.
OptionsClose ==
    /\ opts # "none" /\ opts' = "none"
    /\ CASE rebuild = "pair" ->
              rebuild' = "closing" /\ UNCHANGED <<state, op, manager>>
         [] rebuild = "unload" ->
              /\ rebuild' = "idle" /\ op' = NoOp /\ state' = "failed_unload"
              /\ manager' \in {manager} \cup {m \in {FALSE} : At("stop manager")}
         [] rebuild = "load" ->
              /\ rebuild' \in {"idle", "remove"} /\ op' = NoOp
              /\ state' = "setup_error"
              /\ manager' \in {manager} \cup {m \in {FALSE} : At("undo")}
         [] OTHER ->
              rebuild' = "idle" /\ UNCHANGED <<state, op, manager>>
    /\ bondError' = FALSE
    /\ Noted
    /\ UNCHANGED <<flowVars, stray, wanted>>

\* The set-up flow, with a bond that no entry was made for.
SetupFlowCloses ==
    /\ FlowCloses
    /\ UNCHANGED entryVars

\* Home Assistant restarts: the entry is set up again, all else is forgotten.
Restart ==
    /\ IF Contract!Running THEN Contract!Ends("cancelled") ELSE Noted
    /\ step' = "none" /\ task' = "none" /\ operation' = "none" /\ error' = "none"
    /\ applied' = FALSE
    /\ opts' = "none" /\ rebuild' = "idle" /\ bondError' = FALSE
    /\ manager' = FALSE /\ stray' = FALSE /\ wanted' = {}
    /\ IF state = "absent"
       THEN op' = NoOp /\ UNCHANGED state
       ELSE op' = Op("first", "load mapper") /\ state' = "not_loaded"

(* ------------------------------- the history ----------------------------- *)

\* A set-up fails for good, the flow ends by putting the cache back, or BlueZ did not
\* remove a bond or was not asked to.
Leaves ==
    \/ op # NoOp /\ op' = NoOp /\ op.by # "rebuild" /\ state' = "setup_error"
    \/ step = "pairing_result" /\ step' = "none" /\ ~CreatesEntry
    \/ {"cut", "kept"} \cap mishaps' # {}

\* The rebuild raises, with the old bond or a new one without its service in place.
Raises == rebuild \in {"call", "pair"} /\ rebuild' = "done"

\* The rebuild is cancelled while it sets up the entry.
CutsSetUp == rebuild = "load" /\ opts # "none" /\ opts' = "none"

\* The histories follow every step; closed tells of one that closes flows.
Remember(closed) ==
    /\ unstopped' = /\ manager' \/ stray'
                    /\ unstopped \/ CutsSetUp \/ (state # "absent" /\ state' = "absent")
    /\ ours' = (bond' # "none" /\ (maker' = "call" \/ ours))
    /\ excuse' = IF ours' /\ ~Protected'
                 THEN excuse \cup {r \in {"raised"} : Raises}
                             \cup {r \in {"left"} : Leaves \/ closed}
                 ELSE {}

(* ----------------------------- specification ----------------------------- *)

\* Beside the entry: the set-up flow, BlueZ, other programs.
FlowTask ==
    /\ TaskBegins \/ TaskEnds \/ Progresses
    /\ UNCHANGED entryVars

Beside ==
    /\ \/ FlowOpens /\ state = "absent" /\ op = NoOp /\ wanted = {} /\ rebuild = "idle"
       \/ BondChanges
       \/ \E o \in Operations : Submits(o)
    /\ UNCHANGED entryVars

Entry ==
    \/ MapperLoads \/ SetUpGoes \/ SetUpRaises \/ UndoesSetUp
    \/ PlatformsUnload \/ ManagerStops \/ LockTaken \/ BondForgotten

RebuildTask ==
    \/ RebuildUnloads \/ RebuildCalls \/ RebuildReturns \/ RebuildSetsUp
    \/ RebuildRemoves \/ RebuildProgresses

Shows == FlowResult \/ RebuildResult

User == OptionsSaved \/ UserWants \/ OptionsOpen \/ RebuildSubmitted

\* Nothing is under way.
Quiet ==
    /\ op = NoOp /\ rebuild \in {"idle", "done"} /\ opts # "progress"
    /\ step = "none" /\ task = "none" /\ wanted = {}

Closes == OptionsClose \/ SetupFlowCloses \/ Restart

Task(A) == A /\ Remember(FALSE)

Next ==
    \/ Task(FlowTask) \/ Task(RebuildTask) \/ Task(Entry)
    \/ (Beside \/ Shows \/ User) /\ Remember(FALSE)
    \/ Closes /\ Remember(~Quiet)

Spec == Init /\ [][Next]_vars

\* Tasks that can go on do, the call that Pairing promises to end included; nobody
\* has to confirm, close, reload or restart anything.
FairSpec ==
    /\ Spec
    /\ WF_vars(Task(FlowTask)) /\ WF_vars(Task(RebuildTask)) /\ WF_vars(Task(Entry))

(* ------------------------------- properties ------------------------------ *)

\* Every variable keeps to its values; the flow never shows progress, or the result,
\* of nothing (the errors logged at config_flow.py 227 and 262).
TypeOK ==
    /\ step = "progress" => task # "none"
    /\ step \in {"progress", "pairing_result"} => operation # "none"
    /\ step \in Forms \cup {"none", "progress", "pairing_result"}
    /\ task \in {"none", "created", "running", "closing"} \cup Contract!Results
    /\ operation \in Operations \cup {"none"}
    /\ error \in Contract!Results \cup {"none"} /\ applied \in BOOLEAN
    /\ state \in {"absent", "not_loaded", "loaded", "setup_error", "failed_unload"}
    /\ op \in {NoOp} \cup [by: {"first", "reload", "rebuild", "remove"},
                          at: {"load mapper", "start", "forward", "undo",
                               "unload platforms", "stop manager", "forget"}]
    /\ wanted \subseteq {"reload", "remove"}
    /\ opts \in {"none", "form", "progress", "result"}
    /\ rebuild \in {"idle", "created", "unload", "call", "pair", "closing", "setup",
                    "load", "remove", "done"}
    /\ {manager, stray, bondError, ours, unstopped} \subseteq BOOLEAN
    /\ excuse \subseteq {"raised", "left"}

\* One call works on the bond at a time, and it is the one that the flow or the
\* rebuild waits for: a second submission starts no second task (194-222, 505-515).
\* This rests on an assumption that the code does not enforce, the guards of FlowOpens
\* and OptionsOpen: nobody opens a flow again while a cancelled call unwinds.
OneCall ==
    /\ task = "created" \/ rebuild = "call" => ~Contract!Running
    /\ Contract!Running =>
           (task = "closing" \/ (task = "running" /\ Pairs)) # (rebuild \in {"pair", "closing"})

\* A bond that the integration made stands next to a loaded entry once everything
\* is over (config_flow.py 569-583, __init__.py 59-71), except in these cases: BlueZ
\* refused to remove it, a flow was closed while it had a bond on its hands, a set-up
\* outside a rebuild failed, or the rebuild raised and left the old bond, or a new one
\* without its HID service.
NoOrphan == Quiet /\ ours /\ ~Protected => excuse # {}

\* config_flow.py:569, "Fail closed while replacing one loaded entry's bond".
FailsClosed == Quiet /\ ours /\ ~Protected => excuse \ {"raised"} # {}

\* A loaded entry has a manager, and one runs only for an entry that is loaded, failed
\* to unload, or is being set up or unloaded (__init__.py 38-56).  In two cases a manager
\* goes on without one until Home Assistant restarts: a rebuild was cancelled in the
\* set-up (line 43 does not catch CancelledError), or the entry was removed although it
\* could not be unloaded (line 54 returns before async_stop).  README.md:270 and
\* docs/implementation-plan.md:121 say that neither can happen.
ManagerFollowsEntry ==
    /\ state = "loaded" => manager
    /\ (manager /\ ~Protected) \/ stray => unstopped

\* No progress is shown for ever, whatever happens to the remote, the entry and its
\* lock meanwhile.
NothingSpins ==
    /\ step = "progress" ~> step # "progress"
    /\ opts = "progress" ~> opts # "progress"
=============================================================================
