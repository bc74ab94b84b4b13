------------------------------ MODULE Pairing ------------------------------
(***************************************************************************)
(* pairing.py: one call of async_pair_hogp_device or of                    *)
(* async_rebuild_hogp_bond after another, against a BlueZ that discovers,  *)
(* bonds, resolves and exports at its own pace.                            *)
(*                                                                         *)
(* pc names the await at which the call is suspended.  The statements that *)
(* follow an await are one action with its answer.  A D-Bus call takes     *)
(* effect in BlueZ at its answer, or, when the call is cancelled, perhaps  *)
(* still.                                                                  *)
(***************************************************************************)
EXTENDS Integers

CONSTANTS
    Entries,        \* the calls made: "pair", "replace" (replace_existing), "rebuild"
    MaxAttempts     \* bound: calls made

ASSUME PairingAssumption ==
    /\ Entries \subseteq {"pair", "replace", "rebuild"}
    /\ MaxAttempts \in Nat \ {0}

VARIABLES
    dev,        \* the BlueZ Device1 object and its GATT services
    bondBy,     \* who made the bond: "none", "call" (this one) or "other"
    conn,       \* our dedicated D-Bus connection: what BlueZ does for it
    pc, entry,
    owed,       \* agent_registered, discovery_started, pair_started and not pair_complete
    seen,       \* properties the verification task has seen true
    result,     \* what the call returned or raised
    attempts,
    mishaps     \* ghost, of this call: "cut" if the flow was closed in a `finally`
                \* block, "kept" if BlueZ refused to remove the device, "overtaken"
                \* if another program paired it, "removed" if one removed it

flowVars  == <<pc, entry, owed, seen, result, attempts>>
devVars == <<dev, bondBy>>
vars == <<devVars, conn, flowVars, mishaps>>

(* ------------------------------ the device ------------------------------ *)

\* bond is "partial" when only one of Paired and Bonded is true.
Devices ==
    {d \in [present: BOOLEAN, bond: {"none", "partial", "full"}, hogp: BOOLEAN,
            resolved: BOOLEAN, service: BOOLEAN, trusted: BOOLEAN] :
        /\ d.service => d.hogp
        /\ d.bond = "none" => ~d.resolved /\ ~d.service
        /\ ~d.present => d.bond = "none" /\ ~d.hogp /\ ~d.trusted}

Absent == [present |-> FALSE, bond |-> "none", hogp |-> FALSE,
           resolved |-> FALSE, service |-> FALSE, trusted |-> FALSE]

Watched == {"Paired", "Bonded", "ServicesResolved"}

\* What a watcher of d sees; one half of a partial bond stands for either.
TrueOf(d) ==
    (IF d.bond # "none" THEN {"Paired"} ELSE {})
        \cup (IF d.bond = "full" THEN {"Bonded"} ELSE {})
        \cup (IF d.resolved THEN {"ServicesResolved"} ELSE {})

\* _device_properties, then _verify_existing_bond.
Verify(d) ==
    CASE ~d.present -> "notfound"
      [] d.present /\ (d.bond # "full" \/ ~d.hogp \/ ~d.resolved) -> "verification"
      [] d.bond = "full" /\ d.hogp /\ d.resolved /\ ~d.service -> "pending"
      [] OTHER -> "ok"

Results == {"none", "ok", "reused", "pending", "stale", "notfound", "rejected",
            "timeout", "verification", "error", "cancelled"}

Init ==
    /\ dev \in Devices
    /\ bondBy = IF dev.bond = "none" THEN "none" ELSE "other"
    /\ conn = {}
    /\ pc = "idle" /\ entry \in Entries /\ owed = {} /\ seen = {}
    /\ result = "none" /\ attempts = 0 /\ mishaps = {}

(* ------------------------------- endings -------------------------------- *)

\* The call ends with r and its connection, if it has one, is closed; BlueZ
\* then drops all it does for it.
Return(r) == pc' = "done" /\ result' = r /\ conn' = {}

\* Mutant: the agent goes first.
UnregisterFirst(S) ==
    IF "unregister" \in S THEN "unregister"
    ELSE IF "remove" \in S THEN "remove" ELSE "stopDiscovery"

\* Mutant: the device is removed in any case.
RemoveAlways(S) == IF S = {"stopDiscovery"} THEN "stopDiscovery" ELSE "remove"

\* The order of the `finally` block.
FirstOwed(S) ==
    IF "remove" \in S THEN "remove"
    ELSE IF "unregister" \in S THEN "unregister" ELSE "stopDiscovery"

\* Mutant: the connection stays open.
UnwindOpen(S, c) ==
    /\ owed' = S /\ conn' = c
    /\ pc' = IF S = {} THEN "done" ELSE FirstOwed(S)

\* The rest of the `finally` block of async_pair_hogp_device, with S still
\* to be done and BlueZ doing c for the connection.
Unwind(S, c) ==
    /\ owed' = S
    /\ IF S = {} THEN pc' = "done" /\ conn' = {}
                 ELSE pc' = FirstOwed(S) /\ conn' = c

\* replace_existing: a bond that does not verify is replaced.
Rebuilds(v, replace) == v \in {"pending", "verification"} /\ replace

\* async_pair_hogp_device up to its first await.  No connection is open.
Lookup(replace) ==
    LET v == Verify(dev) IN
    /\ owed' = {}
    /\ IF dev.present /\ dev.bond = "none"
       THEN pc' = "openFresh" /\ result' = "none"
       ELSE CASE v = "notfound" ->
                    pc' = "done" /\ result' = "notfound"
              [] Rebuilds(v, replace) ->
                    pc' = "openRebuild" /\ result' = "none"
              [] v = "pending" /\ ~Rebuilds(v, replace) ->
                    pc' = "waitExisting" /\ result' = "none"
              [] v = "verification" /\ ~Rebuilds(v, replace) ->
                    pc' = "done" /\ result' = "stale"
              [] v = "ok" ->
                    IF dev.trusted THEN pc' = "done" /\ result' = "reused"
                                   ELSE pc' = "openTrust" /\ result' = "none"

Begin ==
    /\ pc \in {"idle", "done"} /\ conn = {} /\ attempts < MaxAttempts
    /\ attempts' = attempts + 1 /\ seen' = {} /\ mishaps' = {}
    /\ entry' \in Entries
    /\ IF entry' = "rebuild"
       THEN /\ owed' = {}
            /\ IF dev.present THEN pc' = "openRebuild" /\ result' = "none"
                              ELSE pc' = "done" /\ result' = "notfound"
       ELSE Lookup(entry' = "replace")
    /\ bondBy' = IF bondBy = "none" THEN "none" ELSE "other"
    /\ UNCHANGED <<dev, conn>>

(* --------------------------- an existing bond --------------------------- *)

\* The service appeared within SERVICE_DISCOVERY_TIMEOUT, or did not.
ExistingWaited ==
    /\ pc = "waitExisting"
    /\ LET v == Verify(dev) IN
       IF v = "ok" /\ ~dev.trusted
       THEN pc' = "openTrust" /\ UNCHANGED <<conn, result>>
       ELSE Return(CASE v = "ok" -> "reused"
                     [] ~dev.service -> "pending"
                     [] OTHER -> v)
    /\ UNCHANGED <<devVars, entry, owed, seen, attempts, mishaps>>

BusOpened ==
    /\ \/ pc = "openTrust"   /\ pc' = "trustExisting"
       \/ pc = "openRebuild" /\ pc' = "rStart"
       \/ pc = "openFresh"   /\ pc' = "start"
    /\ conn' = {"bus"}
    /\ UNCHANGED <<devVars, entry, owed, seen, result, attempts, mishaps>>

BusFails ==
    /\ pc \in {"openTrust", "openRebuild", "openFresh"}
    /\ Return("error")
    /\ UNCHANGED <<devVars, entry, owed, seen, attempts, mishaps>>

ExistingTrusted ==
    /\ pc = "trustExisting"
    /\ \/ dev.present /\ dev' = [dev EXCEPT !.trusted = TRUE] /\ Return("reused")
       \/ dev' = dev /\ Return("error")
    /\ UNCHANGED <<bondBy, entry, owed, seen, attempts, mishaps>>

(* ------------------------ async_rebuild_hogp_bond ----------------------- *)

\* Its `finally` block: StopDiscovery if it was started, then disconnect.
EndRebuild(r) ==
    /\ result' = r
    /\ IF "stopDiscovery" \in owed
       THEN pc' = "rStop" /\ UNCHANGED conn
       ELSE pc' = "done" /\ conn' = {}

RebuildDiscovers ==
    /\ pc = "rStart"
    /\ \/ pc' = "rRemove" /\ owed' = {"stopDiscovery"}
          /\ conn' = conn \cup {"discovery"} /\ UNCHANGED result
       \/ EndRebuild("error") /\ UNCHANGED owed
    /\ UNCHANGED <<devVars, entry, seen, attempts, mishaps>>

RebuildRemoves ==
    /\ pc = "rRemove"
    /\ \/ /\ dev.present
          /\ dev' = Absent /\ bondBy' = "none"
          /\ pc' = "rWait" /\ UNCHANGED <<conn, result>>
       \/ EndRebuild("error") /\ UNCHANGED <<dev, bondBy>>
    /\ UNCHANGED <<entry, owed, seen, attempts, mishaps>>

\* Mutant: no deadline.
RebuildWaits ==
    /\ pc = "rWait"
    /\ dev.present /\ dev.bond = "none" /\ EndRebuild("none")
    /\ UNCHANGED <<devVars, entry, owed, seen, attempts, mishaps>>

\* _async_wait_for_direct_device
RebuildWaited ==
    /\ pc = "rWait"
    /\ \/ dev.present /\ dev.bond = "none" /\ EndRebuild("none")
       \/ EndRebuild("timeout")
    /\ UNCHANGED <<devVars, entry, owed, seen, attempts, mishaps>>

\* StopDiscovery was answered, or its error was suppressed.
RebuildStopped ==
    /\ pc = "rStop"
    /\ conn' = {}
    /\ IF result = "none" THEN Lookup(FALSE)
                          ELSE pc' = "done" /\ owed' = {} /\ UNCHANGED result
    /\ UNCHANGED <<devVars, entry, seen, attempts, mishaps>>

(* ----------------------------- a fresh pair ----------------------------- *)

\* A D-Bus call of the `try` block is refused.
Refused ==
    /\ pc \in {"start", "prefer", "register", "default"}
    /\ result' = "error"
    /\ Unwind(owed, conn)
    /\ UNCHANGED <<devVars, entry, seen, attempts, mishaps>>

\* PreferredBearer is set only for a device that has another one.
DiscoveryStarted ==
    /\ pc = "start"
    /\ conn' = conn \cup {"discovery"} /\ owed' = {"stopDiscovery"}
    /\ pc' \in {"prefer", "register"}
    /\ UNCHANGED <<devVars, entry, seen, result, attempts, mishaps>>

BearerSet ==
    /\ pc = "prefer" /\ pc' = "register"
    /\ UNCHANGED <<devVars, conn, entry, owed, seen, result, attempts, mishaps>>

AgentRegistered ==
    /\ pc = "register" /\ pc' = "default"
    /\ conn' = conn \cup {"agent"} /\ owed' = owed \cup {"unregister"}
    /\ UNCHANGED <<devVars, entry, seen, result, attempts, mishaps>>

\* RequestDefaultAgent was answered; the verification task starts, Pair is sent.
PairSent ==
    /\ pc = "default" /\ pc' = "pair"
    /\ owed' = owed \cup {"remove"}
    /\ seen' = TrueOf(dev)
    /\ conn' = conn \cup {x \in {"pair"} : dev.present /\ dev.bond = "none"}
    /\ UNCHANGED <<devVars, entry, result, attempts, mishaps>>

\* The reply of Pair; _async_wait_for_fresh_pair may already be over.
PairAnswered ==
    /\ pc = "pair" /\ "pair" \in conn /\ dev.bond # "none"
    /\ conn' = conn \ {"pair"} /\ pc' = "verify"
    /\ UNCHANGED <<devVars, entry, owed, seen, result, attempts, mishaps>>

PairFails ==
    /\ pc = "pair"
    /\ result' \in {"rejected", "timeout", "verification"}
    /\ Unwind(owed, conn \ {"pair"})
    /\ UNCHANGED <<devVars, entry, seen, attempts, mishaps>>

\* Our deadline, or the end of the verification task when the device vanishes;
\* BlueZ goes on pairing.
PairTimesOut ==
    /\ pc \in {"pair", "verify"}
    /\ result' \in IF dev.present THEN {"timeout"} ELSE {"notfound", "error"}
    /\ Unwind(owed, conn)
    /\ UNCHANGED <<devVars, entry, seen, attempts, mishaps>>

AllSeen ==
    /\ pc = "verify" /\ seen = Watched
    /\ pc' = "service"
    /\ UNCHANGED <<devVars, conn, entry, owed, seen, result, attempts, mishaps>>

\* Mutant: the pair counts as complete before it is verified.
OwedNever(v) == owed \ {"remove"}

\* A pending service leaves the bond complete; other failures leave it to be removed.
Owed(v) == IF v = "pending" THEN owed \ {"remove"} ELSE owed

\* The poll of _async_wait_for_hogp_service ends, at its deadline at the latest.
ServiceWaited ==
    /\ pc = "service"
    /\ LET v == Verify(dev) IN
       IF v = "ok"
       THEN pc' = "trust" /\ UNCHANGED <<conn, owed, result>>
       ELSE result' = v /\ Unwind(Owed(v), conn)
    /\ UNCHANGED <<devVars, entry, seen, attempts, mishaps>>

Trusted ==
    /\ pc = "trust"
    /\ \/ /\ dev.present /\ dev' = [dev EXCEPT !.trusted = TRUE]
          /\ result' = "ok" /\ Unwind(owed \ {"remove"}, conn)
       \/ /\ dev' = dev
          /\ result' = "verification" /\ Unwind(owed, conn)
    /\ UNCHANGED <<bondBy, entry, seen, attempts, mishaps>>

(* ------------------------------- clean up ------------------------------- *)

\* BlueZ forgets the device and its bond.
Forgotten == dev' = Absent /\ bondBy' = "none"

\* An error of a cleanup call is logged and the next one is made.
DeviceRemoved ==
    /\ pc = "remove"
    /\ \/ dev.present /\ Forgotten
       \/ UNCHANGED devVars
    /\ mishaps' = mishaps \cup {m \in {"kept"} : dev'.present}
    /\ Unwind(owed \ {"remove"}, IF dev'.present THEN conn ELSE conn \ {"pair"})
    /\ UNCHANGED <<entry, seen, result, attempts>>

AgentUnregistered ==
    /\ pc = "unregister"
    /\ Unwind(owed \ {"unregister"}, conn \ {"agent"})
    /\ UNCHANGED <<devVars, entry, seen, result, attempts, mishaps>>

DiscoveryStopped ==
    /\ pc = "stopDiscovery"
    /\ Unwind(owed \ {"stopDiscovery"}, conn \ {"discovery"})
    /\ UNCHANGED <<devVars, entry, seen, result, attempts, mishaps>>

(* ----------------------- the flow is closed: cancel --------------------- *)

CancelExisting ==
    /\ pc \in {"waitExisting", "openTrust", "openRebuild", "openFresh", "trustExisting"}
    /\ Return("cancelled")
    /\ \/ pc = "trustExisting" /\ dev.present /\ dev' = [dev EXCEPT !.trusted = TRUE]
       \/ dev' = dev
    /\ UNCHANGED <<bondBy, entry, owed, seen, attempts, mishaps>>

CancelRebuild ==
    /\ pc \in {"rStart", "rRemove", "rWait"}
    /\ EndRebuild("cancelled")
    /\ \/ pc = "rRemove" /\ dev.present /\ Forgotten
       \/ UNCHANGED devVars
    /\ UNCHANGED <<entry, owed, seen, attempts, mishaps>>

CancelFresh ==
    /\ pc \in {"start", "prefer", "register", "default", "pair", "verify",
               "service", "trust"}
    /\ result' = "cancelled"
    /\ \E a \in SUBSET {"agent"} :
           Unwind(owed, IF pc = "register" THEN conn \cup a ELSE conn)
    /\ \/ pc = "trust" /\ dev.present /\ dev' = [dev EXCEPT !.trusted = TRUE]
       \/ dev' = dev
    /\ UNCHANGED <<bondBy, entry, seen, attempts, mishaps>>

\* CancelledError is not an Exception: it leaves the `finally` block at once.
\* A flow is closed only once.
CancelInCleanup ==
    /\ result # "cancelled"
    /\ pc \in {"remove", "unregister", "stopDiscovery", "rStop"}
    /\ pc' = "done" /\ result' = "cancelled" /\ mishaps' = mishaps \cup {"cut"}
    /\ \/ pc = "remove" /\ dev.present /\ Forgotten
       \/ UNCHANGED devVars
    /\ conn' = IF dev'.present THEN conn ELSE conn \ {"pair"}
    /\ UNCHANGED <<entry, owed, seen, attempts>>

(* --------------------------- BlueZ and the remote ----------------------- *)

\* The device becomes d, under the eyes of the verification task if it runs.
Becomes(d) ==
    /\ dev' = d
    /\ seen' = IF pc \in {"pair", "verify"} THEN seen \cup TrueOf(d) ELSE seen
    /\ conn' = IF d.present THEN conn ELSE conn \ {"pair"}
    /\ UNCHANGED <<pc, entry, owed, result, attempts>>

DeviceSeen ==
    /\ ~dev.present
    /\ \E h \in BOOLEAN : Becomes([dev EXCEPT !.present = TRUE, !.hogp = h])
    /\ UNCHANGED <<bondBy, mishaps>>

\* BlueZ forgets devices without a bond or trust when nothing is heard of them.
DeviceLost ==
    /\ dev.present /\ dev.bond = "none" /\ ~dev.trusted
    /\ Becomes(Absent)
    /\ UNCHANGED <<bondBy, mishaps>>

\* BlueZ sets Paired and Bonded one after the other, in either order.
PairProgress ==
    /\ "pair" \in conn /\ dev.bond # "full"
    /\ Becomes([dev EXCEPT !.bond = IF @ = "none" THEN "partial" ELSE "full"])
    /\ bondBy' = "call" /\ UNCHANGED mishaps

ServicesResolve ==
    /\ dev.bond # "none" /\ ~dev.resolved
    /\ \E h \in {dev.hogp, TRUE} :
           Becomes([dev EXCEPT !.resolved = TRUE, !.hogp = h])
    /\ UNCHANGED <<bondBy, mishaps>>

ServiceExported ==
    /\ dev.resolved /\ dev.hogp /\ ~dev.service
    /\ Becomes([dev EXCEPT !.service = TRUE])
    /\ UNCHANGED <<bondBy, mishaps>>

\* The remote goes to sleep.
LinkDrops ==
    /\ dev.resolved
    /\ \E v \in {FALSE, dev.service} :
           Becomes([dev EXCEPT !.resolved = FALSE, !.service = v])
    /\ UNCHANGED <<bondBy, mishaps>>

\* Another program pairs the device.
OtherPairs ==
    /\ dev.present /\ dev.bond = "none" /\ "pair" \notin conn
    /\ Becomes([dev EXCEPT !.bond = "full"])
    /\ bondBy' = "other" /\ mishaps' = mishaps \cup {"overtaken"}

\* Another program, or the deletion of the entry, removes the device.
OtherRemoves ==
    /\ dev.present
    /\ Becomes(Absent)
    /\ bondBy' = "none" /\ mishaps' = mishaps \cup {"removed"}

(* ---------------------------- specification ----------------------------- *)

Existing == ExistingWaited \/ BusOpened \/ BusFails \/ ExistingTrusted
Rebuild == RebuildDiscovers \/ RebuildRemoves \/ RebuildWaited \/ RebuildStopped
Fresh ==
    \/ Refused \/ DiscoveryStarted \/ BearerSet \/ AgentRegistered \/ PairSent
    \/ PairAnswered \/ PairFails \/ PairTimesOut \/ AllSeen
    \/ ServiceWaited \/ Trusted
Cleanup == DeviceRemoved \/ AgentUnregistered \/ DiscoveryStopped
Cancel == CancelExisting \/ CancelRebuild \/ CancelFresh \/ CancelInCleanup
Bluez ==
    \/ DeviceSeen \/ DeviceLost \/ PairProgress \/ ServicesResolve
    \/ ServiceExported \/ LinkDrops \/ OtherPairs \/ OtherRemoves

Call == Existing \/ Rebuild \/ Fresh \/ Cleanup
Next == Begin \/ Call \/ Cancel \/ Bluez

Spec == Init /\ [][Next]_vars
FairSpec == Spec /\ WF_vars(Call)

(* ------------------------------ properties ------------------------------ *)

Awaits == {"waitExisting", "openTrust", "openRebuild", "openFresh", "trustExisting",
           "rStart", "rRemove", "rWait", "rStop", "start", "prefer", "register",
           "default", "pair", "verify", "service", "trust",
           "remove", "unregister", "stopDiscovery"}

DeviceTypeOK ==
    /\ dev \in Devices /\ bondBy \in {"none", "call", "other"}
    /\ bondBy = "none" <=> dev.bond = "none"

ConnTypeOK ==
    /\ conn \subseteq {"bus", "agent", "discovery", "pair"}
    /\ conn # {} => "bus" \in conn

OwedTypeOK ==
    /\ owed \subseteq {"remove", "unregister", "stopDiscovery"}
    /\ pc \in {"remove", "unregister", "stopDiscovery"} => pc \in owed

CallTypeOK ==
    /\ pc \in Awaits \cup {"idle", "done"} /\ entry \in Entries
    /\ seen \subseteq Watched /\ result \in Results
    /\ attempts \in 0 .. MaxAttempts
    /\ mishaps \subseteq {"cut", "kept", "overtaken", "removed"}

\* Every variable keeps to its values; a cleanup call is made only while it is owed.
TypeOK == DeviceTypeOK /\ ConnTypeOK /\ OwedTypeOK /\ CallTypeOK

\* The agent, the discovery and the connection are given back on every exit
\* path, unless the flow was closed in the middle of that (pairing.py 664-699).
ReleasedOnExit == pc = "done" /\ "cut" \notin mishaps => conn = {}

\* As long as BlueZ works on our Pair it finds our agent to ask and discovers for
\* us, also while a failed attempt is being cleaned up (pairing.py 296, 664-697).
ExchangeCovered ==
    "pair" \in conn /\ "kept" \notin mishaps => {"agent", "discovery"} \subseteq conn

\* What callers build on: the bond, who made it, and what they are told.
Verified == dev.bond = "full" /\ dev.hogp
Running == pc \notin {"idle", "done"}

BondTold == IF dev.bond = "none" THEN "none" ELSE IF Verified THEN "verified" ELSE "some"
CallTold == IF Running THEN entry ELSE pc
OutcomeTold == IF pc = "done" THEN result ELSE "none"
MishapsTold == IF Running THEN mishaps ELSE mishaps \cap {"cut", "kept"}

Contract ==
    INSTANCE PairingContract WITH
        Kinds <- Entries, bond <- BondTold, maker <- bondBy, trusted <- dev.trusted,
        call <- CallTold, outcome <- OutcomeTold, mishaps <- MishapsTold

\* Every call keeps the contract: a failed attempt leaves no bond of its own, also
\* when it timed out or was closed while BlueZ went on pairing (665-673); a bond
\* said to be usable or complete is (634-653); only a verified one is trusted; a
\* bond the call found goes only if its removal was asked for (484-489).
KeepsContract == Contract!Spec

\* Every call returns or raises, whatever BlueZ refuses and the remote does.
CallEnds == pc \in Awaits ~> pc = "done"
=============================================================================
