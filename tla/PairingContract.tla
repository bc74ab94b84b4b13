--------------------------- MODULE PairingContract ---------------------------
(***************************************************************************)
(* What async_pair_hogp_device and async_rebuild_hogp_bond of pairing.py    *)
(* promise about the bond of one device, whatever happens inside them.      *)
(* Pairing implements this module; EntryLifecycle is built on it.           *)
(***************************************************************************)
CONSTANT Kinds      \* some of "pair", "replace" (replace_existing) and "rebuild"

VARIABLES
    bond,       \* "none", "some", or "verified": a full one of a device with HOGP
    maker,      \* who made it: "none", the last "call", or "other"
    trusted,
    call,       \* "idle", the kind of the call that runs, or "done"
    outcome,    \* what it returned or raised, "none" while it runs
    mishaps     \* what frees it from a part of its promise

vars == <<bond, maker, trusted, call, outcome, mishaps>>

Bonds == {"none", "some", "verified"}
Verified == {"ok", "reused"}
Failures == {"stale", "notfound", "rejected", "timeout", "verification", "error",
             "cancelled"}
Results == {"pending"} \cup Verified \cup Failures

Running == call \in Kinds

Init ==
    /\ bond \in Bonds /\ trusted \in BOOLEAN
    /\ maker = IF bond = "none" THEN "none" ELSE "other"
    /\ call = "idle" /\ outcome = "none" /\ mishaps = {}

(* ------------------------------- promises ------------------------------- *)

\* With the mishaps M: a bond that is reported is there, one that is reported as
\* usable is trusted, and a failed call leaves no bond of its own.
Truthful(r, M) ==
    /\ r \in Verified \cup {"pending"} => bond' = "verified" \/ "removed" \in M
    /\ r \in Verified => trusted' \/ "removed" \in M
    /\ r \in Failures => maker' # "call" \/ {"cut", "kept"} \cap M # {}

\* Only a verified bond is trusted.
MayTrust == trusted \/ bond = "verified" \/ "removed" \in mishaps

\* A bond that the call did not make is removed only by one that was told to.
MayRemove == maker # "other" \/ call # "pair" \/ "overtaken" \in mishaps

(* --------------------------------- steps -------------------------------- *)

Starts(k) ==
    /\ ~Running
    /\ maker' = IF maker = "none" THEN "none" ELSE "other"
    /\ UNCHANGED <<bond, trusted>>
    /\ mishaps' = {}
    /\ \/ call' = k /\ outcome' = "none"
       \/ /\ call' = "done" /\ outcome' \in {"reused", "stale", "notfound"}
          /\ outcome' = "notfound" => bond = "none"
          /\ Truthful(outcome', {})

\* BlueZ makes progress with the bond.
Bonding ==
    /\ bond # "verified" /\ bond' \in {"some", "verified"} /\ maker' = "call"
    /\ UNCHANGED trusted

Removing == MayRemove /\ bond' = "none" /\ maker' = "none" /\ trusted' = FALSE

Trusting == MayTrust /\ trusted' = TRUE /\ UNCHANGED <<bond, maker>>

\* BlueZ may still pair for a call that was closed inside its clean-up.
Works ==
    /\ \/ Running /\ (Bonding \/ Removing \/ Trusting)
       \/ "cut" \in mishaps /\ Bonding
    /\ UNCHANGED <<call, outcome, mishaps>>

\* The call returns or raises r, perhaps with its last step on the bond.
Ends(r) ==
    /\ Running /\ call' = "done" /\ outcome' = r
    /\ Removing \/ Trusting \/ UNCHANGED <<bond, maker, trusted>>
    /\ \E M \in {mishaps, mishaps \cup {"cut"}, mishaps \cup {"kept"}} :
           Truthful(r, M) /\ mishaps' = M \cap {"cut", "kept"}

\* The caller has taken note of the outcome.
Forgets ==
    /\ call = "done" /\ call' = "idle" /\ outcome' = "none"
    /\ UNCHANGED <<bond, maker, trusted, mishaps>>

\* BlueZ refuses to remove the device.
Refuses ==
    /\ mishaps' = mishaps \cup {"kept"}
    /\ UNCHANGED <<bond, maker, trusted, call, outcome>>

(* --------------------------------- others ------------------------------- *)

\* To a call that runs, what others do to the bond is the mishap m.
Mishap(m) == mishaps' = mishaps \cup {x \in {m} : Running}

\* The services of a bonded device turn out to contain HOGP.
Resolves ==
    /\ bond = "some" /\ bond' = "verified"
    /\ UNCHANGED <<maker, trusted, call, outcome, mishaps>>

OtherPairs ==
    /\ bond = "none" /\ bond' \in {"some", "verified"} /\ maker' = "other"
    /\ Mishap("overtaken")
    /\ UNCHANGED <<trusted, call, outcome>>

\* The deletion of the entry, or another program, removes the device.
OtherRemoves ==
    /\ bond' = "none" /\ maker' = "none" /\ trusted' = FALSE
    /\ Mishap("removed")
    /\ UNCHANGED <<call, outcome>>

Others == Resolves \/ OtherPairs \/ OtherRemoves

Next ==
    \/ \E k \in Kinds : Starts(k)
    \/ \E r \in Results : Ends(r)
    \/ Works \/ Refuses \/ Forgets \/ Others

Spec == Init /\ [][Next]_vars
=============================================================================
