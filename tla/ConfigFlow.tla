----------------------------- MODULE ConfigFlow -----------------------------
(***************************************************************************)
(* config_flow.py 79-362: the flow that sets a remote up.  Its task calls    *)
(* pairing.py, of which only the contract is used here, or compatibility.py. *)
(* Home Assistant calls the step methods, which do not suspend before they   *)
(* have read and written all they need, and closes the flow when the user    *)
(* does.                                                                     *)
(***************************************************************************)
EXTENDS Naturals

VARIABLES
    bond, maker, trusted, call, outcome, mishaps,   \* see PairingContract
    step,       \* the form or progress that the flow shows, "none" without a flow
    task,       \* _pairing_task: "none", "created", "running", "closing" (cancelled,
                \* not unwound) or the result of one that is done
    operation,  \* _pairing_operation
    error,      \* _pairing_error
    applied     \* _compatibility_repair_applied

bondVars == <<bond, maker, trusted, call, outcome, mishaps>>
flowVars == <<step, task, operation, error, applied>>

Contract ==
    INSTANCE PairingContract WITH Kinds <- {"pair", "replace", "rebuild"}

\* _PAIRING_FORM_STEPS: where an operation is confirmed and its errors are shown.
FormOf ==
    [pair |-> "bluetooth_confirm", replace |-> "replace_bond",
     repair |-> "compatibility_repair", restore |-> "compatibility_wake",
     reverify |-> "service_pending"]

Operations == DOMAIN FormOf
Forms == {FormOf[o] : o \in Operations}

\* The operations that a submission of form s can start.
Offers(s) ==
    {o \in Operations : FormOf[o] = s}
        \cup {o \in {"reverify"} : s = "compatibility_wake"}

FlowInit ==
    /\ step = "none" /\ task = "none" /\ operation = "none" /\ error = "none"
    /\ applied = FALSE

\* Discovery or the user's choice of a remote, async_step_bluetooth or _user.
FlowOpens ==
    /\ step = "none" /\ task = "none"
    /\ step' = "bluetooth_confirm"
    /\ UNCHANGED <<task, operation, error, applied, bondVars>>

\* Mutant: without the look at _pairing_task.
SubmitsAnew(o) ==
    /\ o \in Offers(step) \/ step = "progress"
    /\ task' = "created" /\ operation' = o /\ error' = "none"
    /\ step' = "progress"
    /\ UNCHANGED <<applied, bondVars>>

\* _async_start_pairing: a form is submitted, perhaps for a second time.
Submits(o) ==
    /\ o \in Offers(step) \/ step = "progress"
    /\ IF task = "none"
       THEN task' = "created" /\ operation' = o /\ error' = "none"
       ELSE UNCHANGED <<task, operation, error>>
    /\ step' = "progress"
    /\ UNCHANGED <<applied, bondVars>>

(* -------------------------------- the task ------------------------------ *)

\* The results that differ to the flows: the other failures are "error" to them.
Told == {"ok", "pending", "stale", "error"}

Pairs == operation \in {"pair", "replace", "reverify"}

TaskBegins ==
    /\ task = "created"
    /\ IF Pairs
       THEN /\ Contract!Starts(IF operation = "replace" THEN "replace" ELSE "pair")
            /\ task' = IF call' = "done" THEN outcome' ELSE "running"
       ELSE task' = "running" /\ UNCHANGED bondVars
    /\ UNCHANGED <<step, operation, error, applied>>

\* The call returns or raises; one that is closed has been cancelled.
TaskEnds ==
    /\ \/ /\ task = "running" /\ Pairs
          /\ \E r \in Told : Contract!Ends(r) /\ task' = r
       \/ /\ task = "running" /\ ~Pairs
          /\ task' \in {"ok", "error"} /\ UNCHANGED bondVars
       \/ task = "closing" /\ Contract!Ends("cancelled") /\ task' = "none"
    /\ UNCHANGED <<step, operation, error, applied>>

(* ------------------------------ the result ------------------------------ *)

\* The outcome of a call has been read, or nobody will.
Noted == IF call = "done" THEN Contract!Forgets ELSE UNCHANGED bondVars

Done == task \notin {"none", "created", "running", "closing"}

\* Mutant: the operation is cleared with the task.
ProgressesClear ==
    /\ step = "progress" /\ Done
    /\ error' = IF task \in Contract!Verified THEN "none" ELSE task
    /\ task' = "none" /\ operation' = "none" /\ step' = "pairing_result"
    /\ Noted
    /\ UNCHANGED applied

\* async_step_pairing_progress with a task that is done.
Progresses ==
    /\ step = "progress" /\ Done
    /\ error' = IF task \in Contract!Verified THEN "none" ELSE task
    /\ task' = "none" /\ step' = "pairing_result"
    /\ Noted
    /\ UNCHANGED <<operation, applied>>

\* Where async_step_pairing_result goes, if BlueZ has a device of a model that the
\* repair supports or not; "create_entry" and "abort" end the flow.
NextStep(supported) ==
    CASE error = "none" /\ operation = "repair" -> "compatibility_wake"
      [] error = "none" /\ operation = "restore" -> "abort"
      [] error = "none" /\ Pairs -> "create_entry"
      [] error = "pending" /\ supported ->
             IF applied THEN "compatibility_wake" ELSE "compatibility_repair"
      [] error = "pending" /\ ~supported ->
             IF operation = "reverify" THEN "replace_bond" ELSE "service_pending"
      [] error = "stale" /\ operation # "replace" -> "replace_bond"
      [] OTHER ->
             IF operation = "reverify" /\ applied THEN "compatibility_wake"
                                                  ELSE FormOf[operation]

ShowsResult ==
    /\ step = "pairing_result"
    /\ \E s \in BOOLEAN :
           step' = IF NextStep(s) \in {"create_entry", "abort"} THEN "none"
                                                                ELSE NextStep(s)
    /\ applied' = (step' # "none" /\ (applied \/ (error = "none" /\ operation = "repair")))
    /\ operation' = "none" /\ error' = "none"
    /\ UNCHANGED <<task, bondVars>>

\* This result makes an entry.
CreatesEntry == step = "pairing_result" /\ error = "none" /\ Pairs

\* Home Assistant drops the flow and cancels the task of its progress.
FlowCloses ==
    /\ step # "none" /\ step' = "none"
    /\ task' = IF task = "running" /\ Pairs THEN "closing" ELSE "none"
    /\ operation' = "none" /\ error' = "none" /\ applied' = FALSE
    /\ Noted

(* ---------------------- inside the call, and around it ------------------ *)

BondChanges ==
    /\ Contract!Works \/ Contract!Refuses \/ Contract!Others
    /\ UNCHANGED flowVars
=============================================================================
