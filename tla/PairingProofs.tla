---------------------------- MODULE PairingProofs ----------------------------
(* Machine-checked: for any number of calls of any kinds, Pairing keeps the   *)
(* contract that the set-up and the rebuild flow are built on.                *)
EXTENDS Pairing, TLAPS

Cleaning == {"remove", "unregister", "stopDiscovery"}
Rebuilding == {"openRebuild", "rStart", "rRemove", "rWait", "rStop"}
Trying == {"start", "prefer", "register", "default"}
Sent == {"pair", "verify", "service", "trust"}

\* Before Pair is sent, no bond is ours and none is owed a removal.
BeforePair ==
    pc \in {"waitExisting", "openTrust", "openFresh", "trustExisting"} \cup Rebuilding
               \cup Trying =>
        bondBy # "call" /\ "pair" \notin conn /\ "remove" \notin owed

\* From then on a failure still has the removal ahead of it, or has failed in it.
RemovalOwed ==
    /\ pc \in Sent => "remove" \in owed
    /\ pc \in {"verify", "service", "trust"} => "pair" \notin conn
    /\ pc \in Cleaning =>
           \/ "remove" \in owed \/ "kept" \in mishaps
           \/ "pair" \notin conn /\ (bondBy = "call" => result \in {"ok", "pending"})

\* What the call relies on, or is about to tell.
Promised ==
    /\ pc \in {"trust", "waitExisting", "openTrust", "trustExisting"} =>
           Verified \/ "removed" \in mishaps
    /\ pc \in Cleaning => result \notin {"none", "reused"}
    /\ pc \in Cleaning /\ result \in {"ok", "pending"} =>
           "remove" \notin owed /\ (Verified \/ "removed" \in mishaps)
    /\ pc \in Cleaning /\ result = "ok" => dev.trusted \/ "removed" \in mishaps
    /\ pc = "rStop" => result \in {"none", "error", "timeout", "cancelled"}

\* A bond of somebody else meets a call that did not ask for its removal only later.
ForeignBond ==
    /\ pc \in {"openFresh"} \cup Trying \cup Sent \cup Cleaning /\ bondBy = "other" =>
           "overtaken" \in mishaps
    /\ pc \in Rebuilding => entry # "pair"

\* The connection of the call.
Connection ==
    /\ pc \in {"trustExisting", "rStart", "rRemove", "rWait", "rStop"} \cup Trying
                  \cup Sent \cup Cleaning => "bus" \in conn
    /\ pc \in {"rRemove", "rWait"} => owed = {"stopDiscovery"}
    /\ pc = "idle" => conn = {}
    /\ ReleasedOnExit
    /\ pc = "done" => result # "none"
    /\ "pair" \in conn => dev.present

CallInv == BeforePair /\ RemovalOwed /\ Promised /\ ForeignBond /\ Connection
IInv == TypeOK /\ CallInv

(* ------------------------------- devices -------------------------------- *)

\* What DeviceTypeOK says of the device.
LEMMA DeviceFacts ==
    ASSUME DeviceTypeOK
    PROVE  /\ dev \in Devices
           /\ dev.present \in BOOLEAN /\ dev.bond \in {"none", "partial", "full"}
           /\ dev.hogp \in BOOLEAN /\ dev.resolved \in BOOLEAN
           /\ dev.service \in BOOLEAN /\ dev.trusted \in BOOLEAN
           /\ dev.service => dev.hogp
           /\ dev.bond = "none" => ~dev.resolved /\ ~dev.service
           /\ ~dev.present => dev.bond = "none" /\ ~dev.hogp /\ ~dev.trusted
           /\ bondBy \in {"none", "call", "other"}
           /\ bondBy = "none" <=> dev.bond = "none"
  BY DEF DeviceTypeOK, Devices

LEMMA AbsentDevice ==
    /\ Absent \in Devices /\ ~Absent.present /\ Absent.bond = "none"
    /\ Absent.trusted = FALSE /\ ~Absent.hogp
  BY DEF Devices, Absent

\* One lemma for each way in which a device changes.
LEMMA DeviceTrusted ==
    ASSUME NEW d \in Devices, d.present, NEW e, e = [d EXCEPT !.trusted = TRUE]
    PROVE  /\ e \in Devices /\ e.trusted
           /\ e.present = d.present /\ e.bond = d.bond /\ e.hogp = d.hogp
  BY DEF Devices

LEMMA DeviceAppears ==
    ASSUME NEW d \in Devices, ~d.present, NEW h \in BOOLEAN,
           NEW e, e = [d EXCEPT !.present = TRUE, !.hogp = h]
    PROVE  e \in Devices /\ e.present /\ e.bond = d.bond /\ e.trusted = d.trusted
  BY DEF Devices

LEMMA DeviceBonds ==
    ASSUME NEW d \in Devices, d.present, NEW b \in {"partial", "full"},
           NEW e, e = [d EXCEPT !.bond = b]
    PROVE  /\ e \in Devices /\ e.bond = b
           /\ e.present = d.present /\ e.hogp = d.hogp /\ e.trusted = d.trusted
  BY DEF Devices

LEMMA DeviceExports ==
    ASSUME NEW d \in Devices, d.resolved, d.hogp, NEW e, e = [d EXCEPT !.service = TRUE]
    PROVE  /\ e \in Devices /\ e.present = d.present /\ e.bond = d.bond
           /\ e.hogp = d.hogp /\ e.trusted = d.trusted
  BY DEF Devices

LEMMA DeviceSleeps ==
    ASSUME NEW d \in Devices, NEW v \in {FALSE, d.service},
           NEW e, e = [d EXCEPT !.resolved = FALSE, !.service = v]
    PROVE  /\ e \in Devices /\ e.present = d.present /\ e.bond = d.bond
           /\ e.hogp = d.hogp /\ e.trusted = d.trusted
  BY DEF Devices

LEMMA Watching == ASSUME NEW d PROVE TrueOf(d) \subseteq Watched
  BY DEF TrueOf, Watched

\* What _verify_existing_bond tells of the bond.
LEMMA VerifyTells ==
    ASSUME DeviceTypeOK
    PROVE  /\ Verify(dev) \in {"ok", "pending", "verification", "notfound"}
           /\ Verify(dev) = "notfound" <=> ~dev.present
           /\ Verify(dev) \in {"ok", "pending"} => Verified
  BY DEF DeviceTypeOK, Devices, Verify, Verified

\* The ways out of the look-up.
LEMMA LookupLeads ==
    ASSUME DeviceTypeOK, NEW replace, Lookup(replace)
    PROVE  /\ owed' = {}
           /\ \/ pc' = "openFresh" /\ result' = "none" /\ dev.bond = "none"
              \/ pc' = "openRebuild" /\ result' = "none" /\ replace
              \/ pc' \in {"waitExisting", "openTrust"} /\ result' = "none" /\ Verified
              \/ pc' = "done" /\ result' = "notfound" /\ ~dev.present
              \/ pc' = "done" /\ result' = "stale"
              \/ pc' = "done" /\ result' = "reused" /\ Verified /\ dev.trusted
<1>1. CASE dev.present /\ dev.bond = "none"
  BY <1>1 DEF Lookup
<1>2. CASE ~(dev.present /\ dev.bond = "none")
  <2>1. CASE Verify(dev) = "notfound"
    BY <1>2, <2>1, VerifyTells DEF Lookup, Rebuilds
  <2>2. CASE Verify(dev) = "pending"
    BY <1>2, <2>2, VerifyTells DEF Lookup, Rebuilds
  <2>3. CASE Verify(dev) = "verification"
    BY <1>2, <2>3, VerifyTells DEF Lookup, Rebuilds
  <2>4. CASE Verify(dev) = "ok"
    BY <1>2, <2>4, VerifyTells DEF Lookup, Rebuilds
  <2> QED BY <2>1, <2>2, <2>3, <2>4, VerifyTells
<1> QED BY <1>1, <1>2

(* ------------------------ the invariant is inductive -------------------- *)

\* One lemma per action; each leaf of it is one part of the invariant.
LEMMA BeginStep == ASSUME IInv, Begin PROVE IInv'
<1> USE DEF IInv, TypeOK
<1>1. /\ owed' = {}
      /\ \/ pc' = "openFresh" /\ result' = "none" /\ dev.bond = "none"
         \/ pc' = "openRebuild" /\ result' = "none" /\ entry' # "pair"
         \/ pc' \in {"waitExisting", "openTrust"} /\ result' = "none" /\ Verified
         \/ pc' = "done" /\ result' = "notfound" /\ ~dev.present
         \/ pc' = "done" /\ result' = "stale"
         \/ pc' = "done" /\ result' = "reused" /\ Verified /\ dev.trusted
  <2>1. CASE entry' = "rebuild"
    BY <2>1, DeviceFacts DEF Begin
  <2>2. CASE entry' # "rebuild"
    <3>1. Lookup(entry' = "replace")
      BY <2>2 DEF Begin
    <3> QED BY <3>1, LookupLeads
  <2> QED BY <2>1, <2>2
<1>2. /\ UNCHANGED <<dev, conn>> /\ conn = {} /\ seen' = {} /\ mishaps' = {}
      /\ attempts' \in 0 .. MaxAttempts /\ entry' \in Entries
      /\ bondBy' = IF bondBy = "none" THEN "none" ELSE "other"
  BY PairingAssumption DEF Begin, CallTypeOK
<1>3. DeviceTypeOK'
  BY <1>1, <1>2, DeviceFacts DEF DeviceTypeOK
<1>4. ConnTypeOK' /\ OwedTypeOK'
  BY <1>1, <1>2 DEF ConnTypeOK, OwedTypeOK
<1>5. CallTypeOK'
  BY <1>1, <1>2 DEF CallTypeOK, Awaits, Results
<1>6. CallInv'
  BY <1>1, <1>2, DeviceFacts
     DEF CallInv, BeforePair, RemovalOwed, Promised, ForeignBond, Connection,
         ReleasedOnExit, Cleaning, Rebuilding, Trying, Sent, Verified
<1> QED BY <1>3, <1>4, <1>5, <1>6

LEMMA ExistingWaitedStep == ASSUME IInv, ExistingWaited PROVE IInv'
<1> USE DEF IInv, TypeOK, ExistingWaited, Return, devVars
<1>1. DeviceTypeOK'
  BY DEF DeviceTypeOK
<1>2. ConnTypeOK'
  BY DEF ConnTypeOK, CallInv, Connection, Rebuilding, Trying, Sent, Cleaning
<1>3. OwedTypeOK'
  BY DEF OwedTypeOK
<1>4. CallTypeOK'
  BY VerifyTells DEF CallTypeOK, Awaits, Results
<1>5. CallInv'
  BY VerifyTells, DeviceFacts
     DEF CallInv, BeforePair, RemovalOwed, Promised, ForeignBond, Connection,
         ReleasedOnExit, Cleaning, Rebuilding, Trying, Sent, Verified
<1> QED BY <1>1, <1>2, <1>3, <1>4, <1>5

LEMMA BusOpenedStep == ASSUME IInv, BusOpened PROVE IInv'
<1> USE DEF IInv, TypeOK, BusOpened, devVars
<1>1. DeviceTypeOK'
  BY DEF DeviceTypeOK
<1>2. ConnTypeOK'
  BY DEF ConnTypeOK, CallInv, Connection, Rebuilding, Trying, Sent, Cleaning
<1>3. OwedTypeOK'
  BY DEF OwedTypeOK
<1>4. CallTypeOK'
  BY DEF CallTypeOK, Awaits, Results
<1>5. CallInv'
  BY DeviceFacts
     DEF CallInv, BeforePair, RemovalOwed, Promised, ForeignBond, Connection,
         ReleasedOnExit, Cleaning, Rebuilding, Trying, Sent, Verified
<1> QED BY <1>1, <1>2, <1>3, <1>4, <1>5

LEMMA BusFailsStep == ASSUME IInv, BusFails PROVE IInv'
<1> USE DEF IInv, TypeOK, BusFails, Return, devVars
<1>1. DeviceTypeOK'
  BY DEF DeviceTypeOK
<1>2. ConnTypeOK'
  BY DEF ConnTypeOK, CallInv, Connection, Rebuilding, Trying, Sent, Cleaning
<1>3. OwedTypeOK'
  BY DEF OwedTypeOK
<1>4. CallTypeOK'
  BY DEF CallTypeOK, Awaits, Results
<1>5. CallInv'
  BY DeviceFacts
     DEF CallInv, BeforePair, RemovalOwed, Promised, ForeignBond, Connection,
         ReleasedOnExit, Cleaning, Rebuilding, Trying, Sent, Verified
<1> QED BY <1>1, <1>2, <1>3, <1>4, <1>5

LEMMA ExistingTrustedStep == ASSUME IInv, ExistingTrusted PROVE IInv'
<1> USE DEF IInv, TypeOK, ExistingTrusted, Return, devVars
<1>a. dev' # dev => /\ dev' \in Devices /\ dev'.trusted /\ dev'.present = dev.present
                    /\ dev'.bond = dev.bond /\ dev'.hogp = dev.hogp
  BY DeviceTrusted DEF DeviceTypeOK
<1>1. DeviceTypeOK'
  BY <1>a DEF DeviceTypeOK
<1>2. ConnTypeOK'
  BY DEF ConnTypeOK, CallInv, Connection, Rebuilding, Trying, Sent, Cleaning
<1>3. OwedTypeOK'
  BY DEF OwedTypeOK
<1>4. CallTypeOK'
  BY DEF CallTypeOK, Awaits, Results
<1>5. CallInv'
  BY <1>a, DeviceFacts
     DEF CallInv, BeforePair, RemovalOwed, Promised, ForeignBond, Connection,
         ReleasedOnExit, Cleaning, Rebuilding, Trying, Sent, Verified
<1> QED BY <1>1, <1>2, <1>3, <1>4, <1>5

LEMMA RebuildDiscoversStep == ASSUME IInv, RebuildDiscovers PROVE IInv'
<1> USE DEF IInv, TypeOK, RebuildDiscovers, EndRebuild, devVars
<1>1. DeviceTypeOK'
  BY DEF DeviceTypeOK
<1>2. ConnTypeOK'
  BY DEF ConnTypeOK, CallInv, Connection, Rebuilding, Trying, Sent, Cleaning
<1>3. OwedTypeOK'
  BY DEF OwedTypeOK
<1>4. CallTypeOK'
  BY DEF CallTypeOK, Awaits, Results
<1>5. CallInv'
  BY DeviceFacts
     DEF CallInv, BeforePair, RemovalOwed, Promised, ForeignBond, Connection,
         ReleasedOnExit, Cleaning, Rebuilding, Trying, Sent, Verified
<1> QED BY <1>1, <1>2, <1>3, <1>4, <1>5

LEMMA RebuildRemovesStep == ASSUME IInv, RebuildRemoves PROVE IInv'
<1> USE DEF IInv, TypeOK, RebuildRemoves, EndRebuild, devVars
<1>1. DeviceTypeOK'
  BY AbsentDevice DEF DeviceTypeOK
<1>2. ConnTypeOK'
  BY DEF ConnTypeOK, CallInv, Connection, Rebuilding, Trying, Sent, Cleaning
<1>3. OwedTypeOK'
  BY DEF OwedTypeOK
<1>4. CallTypeOK'
  BY DEF CallTypeOK, Awaits, Results
<1>5. CallInv'
  BY AbsentDevice, DeviceFacts
     DEF CallInv, BeforePair, RemovalOwed, Promised, ForeignBond, Connection,
         ReleasedOnExit, Cleaning, Rebuilding, Trying, Sent, Verified
<1> QED BY <1>1, <1>2, <1>3, <1>4, <1>5

LEMMA RebuildWaitedStep == ASSUME IInv, RebuildWaited PROVE IInv'
<1> USE DEF IInv, TypeOK, RebuildWaited, EndRebuild, devVars
<1>1. DeviceTypeOK'
  BY DEF DeviceTypeOK
<1>2. ConnTypeOK'
  BY DEF ConnTypeOK, CallInv, Connection, Rebuilding, Trying, Sent, Cleaning
<1>3. OwedTypeOK'
  BY DEF OwedTypeOK
<1>4. CallTypeOK'
  BY DEF CallTypeOK, Awaits, Results
<1>5. CallInv'
  BY DeviceFacts
     DEF CallInv, BeforePair, RemovalOwed, Promised, ForeignBond, Connection,
         ReleasedOnExit, Cleaning, Rebuilding, Trying, Sent, Verified
<1> QED BY <1>1, <1>2, <1>3, <1>4, <1>5

LEMMA RebuildStoppedStep == ASSUME IInv, RebuildStopped PROVE IInv'
<1> USE DEF IInv, TypeOK
<1>1. \/ Lookup(FALSE) /\ result = "none"
      \/ pc' = "done" /\ owed' = {} /\ result' = result /\ result # "none"
  BY DEF RebuildStopped
<1>2. /\ owed' = {}
      /\ \/ pc' = "openFresh" /\ result' = "none" /\ dev.bond = "none"
         \/ pc' \in {"waitExisting", "openTrust"} /\ result' = "none" /\ Verified
         \/ pc' = "done" /\ result' # "none" /\ result' \in Results
  BY <1>1, LookupLeads DEF Results, CallTypeOK
<1>3. /\ pc = "rStop" /\ conn' = {}
      /\ UNCHANGED <<dev, bondBy, entry, seen, attempts, mishaps>>
  BY DEF RebuildStopped, devVars
<1>4. DeviceTypeOK'
  BY <1>2, <1>3, DeviceFacts DEF DeviceTypeOK
<1>5. ConnTypeOK' /\ OwedTypeOK'
  BY <1>2, <1>3 DEF ConnTypeOK, OwedTypeOK
<1>6. CallTypeOK'
  BY <1>2, <1>3 DEF CallTypeOK, Awaits, Results
<1>7. CallInv'
  BY <1>2, <1>3, DeviceFacts
     DEF CallInv, BeforePair, RemovalOwed, Promised, ForeignBond, Connection,
         ReleasedOnExit, Cleaning, Rebuilding, Trying, Sent, Verified
<1> QED BY <1>4, <1>5, <1>6, <1>7

LEMMA RefusedStep == ASSUME IInv, Refused PROVE IInv'
<1> USE DEF IInv, TypeOK, Refused, Unwind, FirstOwed, devVars
<1>1. DeviceTypeOK'
  BY DEF DeviceTypeOK
<1>2. ConnTypeOK'
  BY DEF ConnTypeOK, CallInv, Connection, Rebuilding, Trying, Sent, Cleaning
<1>3. OwedTypeOK'
  BY DEF OwedTypeOK
<1>4. CallTypeOK'
  BY DEF CallTypeOK, Awaits, Results
<1>5. CallInv'
  BY DeviceFacts
     DEF CallInv, BeforePair, RemovalOwed, Promised, ForeignBond, Connection,
         ReleasedOnExit, Cleaning, Rebuilding, Trying, Sent, Verified
<1> QED BY <1>1, <1>2, <1>3, <1>4, <1>5

LEMMA DiscoveryStartedStep == ASSUME IInv, DiscoveryStarted PROVE IInv'
<1> USE DEF IInv, TypeOK, DiscoveryStarted, devVars
<1>1. DeviceTypeOK'
  BY DEF DeviceTypeOK
<1>2. ConnTypeOK'
  BY DEF ConnTypeOK, CallInv, Connection, Rebuilding, Trying, Sent, Cleaning
<1>3. OwedTypeOK'
  BY DEF OwedTypeOK
<1>4. CallTypeOK'
  BY DEF CallTypeOK, Awaits, Results
<1>5. CallInv'
  BY DeviceFacts
     DEF CallInv, BeforePair, RemovalOwed, Promised, ForeignBond, Connection,
         ReleasedOnExit, Cleaning, Rebuilding, Trying, Sent, Verified
<1> QED BY <1>1, <1>2, <1>3, <1>4, <1>5

LEMMA BearerSetStep == ASSUME IInv, BearerSet PROVE IInv'
<1> USE DEF IInv, TypeOK, BearerSet, devVars
<1>1. DeviceTypeOK'
  BY DEF DeviceTypeOK
<1>2. ConnTypeOK'
  BY DEF ConnTypeOK, CallInv, Connection, Rebuilding, Trying, Sent, Cleaning
<1>3. OwedTypeOK'
  BY DEF OwedTypeOK
<1>4. CallTypeOK'
  BY DEF CallTypeOK, Awaits, Results
<1>5. CallInv'
  BY DeviceFacts
     DEF CallInv, BeforePair, RemovalOwed, Promised, ForeignBond, Connection,
         ReleasedOnExit, Cleaning, Rebuilding, Trying, Sent, Verified
<1> QED BY <1>1, <1>2, <1>3, <1>4, <1>5

LEMMA AgentRegisteredStep == ASSUME IInv, AgentRegistered PROVE IInv'
<1> USE DEF IInv, TypeOK, AgentRegistered, devVars
<1>1. DeviceTypeOK'
  BY DEF DeviceTypeOK
<1>2. ConnTypeOK'
  BY DEF ConnTypeOK, CallInv, Connection, Rebuilding, Trying, Sent, Cleaning
<1>3. OwedTypeOK'
  BY DEF OwedTypeOK
<1>4. CallTypeOK'
  BY DEF CallTypeOK, Awaits, Results
<1>5. CallInv'
  BY DeviceFacts
     DEF CallInv, BeforePair, RemovalOwed, Promised, ForeignBond, Connection,
         ReleasedOnExit, Cleaning, Rebuilding, Trying, Sent, Verified
<1> QED BY <1>1, <1>2, <1>3, <1>4, <1>5

LEMMA PairSentStep == ASSUME IInv, PairSent PROVE IInv'
<1> USE DEF IInv, TypeOK, PairSent, devVars
<1>a. TrueOf(dev) \subseteq Watched
  BY Watching
<1>1. DeviceTypeOK'
  BY DEF DeviceTypeOK
<1>2. ConnTypeOK'
  BY DEF ConnTypeOK, CallInv, Connection, Rebuilding, Trying, Sent, Cleaning
<1>3. OwedTypeOK'
  BY DEF OwedTypeOK
<1>4. CallTypeOK'
  BY <1>a DEF CallTypeOK, Awaits, Results
<1>5. CallInv'
  BY DeviceFacts
     DEF CallInv, BeforePair, RemovalOwed, Promised, ForeignBond, Connection,
         ReleasedOnExit, Cleaning, Rebuilding, Trying, Sent, Verified
<1> QED BY <1>1, <1>2, <1>3, <1>4, <1>5

LEMMA PairAnsweredStep == ASSUME IInv, PairAnswered PROVE IInv'
<1> USE DEF IInv, TypeOK, PairAnswered, devVars
<1>1. DeviceTypeOK'
  BY DEF DeviceTypeOK
<1>2. ConnTypeOK'
  BY DEF ConnTypeOK, CallInv, Connection, Rebuilding, Trying, Sent, Cleaning
<1>3. OwedTypeOK'
  BY DEF OwedTypeOK
<1>4. CallTypeOK'
  BY DEF CallTypeOK, Awaits, Results
<1>5. CallInv'
  BY DeviceFacts
     DEF CallInv, BeforePair, RemovalOwed, Promised, ForeignBond, Connection,
         ReleasedOnExit, Cleaning, Rebuilding, Trying, Sent, Verified
<1> QED BY <1>1, <1>2, <1>3, <1>4, <1>5

LEMMA PairFailsStep == ASSUME IInv, PairFails PROVE IInv'
<1> USE DEF IInv, TypeOK, PairFails, Unwind, FirstOwed, devVars
<1>1. DeviceTypeOK'
  BY DEF DeviceTypeOK
<1>2. ConnTypeOK'
  BY DEF ConnTypeOK, CallInv, Connection, Rebuilding, Trying, Sent, Cleaning
<1>3. OwedTypeOK'
  BY DEF OwedTypeOK
<1>4. CallTypeOK'
  BY DEF CallTypeOK, Awaits, Results
<1>5. CallInv'
  BY DeviceFacts
     DEF CallInv, BeforePair, RemovalOwed, Promised, ForeignBond, Connection,
         ReleasedOnExit, Cleaning, Rebuilding, Trying, Sent, Verified
<1> QED BY <1>1, <1>2, <1>3, <1>4, <1>5

LEMMA PairTimesOutStep == ASSUME IInv, PairTimesOut PROVE IInv'
<1> USE DEF IInv, TypeOK, PairTimesOut, Unwind, FirstOwed, devVars
<1>1. DeviceTypeOK'
  BY DEF DeviceTypeOK
<1>2. ConnTypeOK'
  BY DEF ConnTypeOK, CallInv, Connection, Rebuilding, Trying, Sent, Cleaning
<1>3. OwedTypeOK'
  BY DEF OwedTypeOK
<1>4. CallTypeOK'
  BY DEF CallTypeOK, Awaits, Results
<1>5. CallInv'
  BY DeviceFacts
     DEF CallInv, BeforePair, RemovalOwed, Promised, ForeignBond, Connection,
         ReleasedOnExit, Cleaning, Rebuilding, Trying, Sent, Verified
<1> QED BY <1>1, <1>2, <1>3, <1>4, <1>5

LEMMA AllSeenStep == ASSUME IInv, AllSeen PROVE IInv'
<1> USE DEF IInv, TypeOK, AllSeen, devVars
<1>1. DeviceTypeOK'
  BY DEF DeviceTypeOK
<1>2. ConnTypeOK'
  BY DEF ConnTypeOK, CallInv, Connection, Rebuilding, Trying, Sent, Cleaning
<1>3. OwedTypeOK'
  BY DEF OwedTypeOK
<1>4. CallTypeOK'
  BY DEF CallTypeOK, Awaits, Results
<1>5. CallInv'
  BY DeviceFacts
     DEF CallInv, BeforePair, RemovalOwed, Promised, ForeignBond, Connection,
         ReleasedOnExit, Cleaning, Rebuilding, Trying, Sent, Verified
<1> QED BY <1>1, <1>2, <1>3, <1>4, <1>5

LEMMA ServiceWaitedStep == ASSUME IInv, ServiceWaited PROVE IInv'
<1> USE DEF IInv, TypeOK, ServiceWaited, Unwind, FirstOwed, Owed, devVars
<1>1. DeviceTypeOK'
  BY DEF DeviceTypeOK
<1>2. ConnTypeOK'
  BY DEF ConnTypeOK, CallInv, Connection, Rebuilding, Trying, Sent, Cleaning
<1>3. OwedTypeOK'
  BY DEF OwedTypeOK
<1>4. CallTypeOK'
  BY VerifyTells DEF CallTypeOK, Awaits, Results
<1>5. CallInv'
  BY VerifyTells, DeviceFacts
     DEF CallInv, BeforePair, RemovalOwed, Promised, ForeignBond, Connection,
         ReleasedOnExit, Cleaning, Rebuilding, Trying, Sent, Verified
<1> QED BY <1>1, <1>2, <1>3, <1>4, <1>5

LEMMA TrustedStep == ASSUME IInv, Trusted PROVE IInv'
<1> USE DEF IInv, TypeOK, Trusted, Unwind, FirstOwed, devVars
<1>a. dev' # dev => /\ dev' \in Devices /\ dev'.trusted /\ dev'.present = dev.present
                    /\ dev'.bond = dev.bond /\ dev'.hogp = dev.hogp
  BY DeviceTrusted DEF DeviceTypeOK
<1>b. result' = "ok" => dev'.trusted
  BY DeviceTrusted DEF DeviceTypeOK
<1>1. DeviceTypeOK'
  BY <1>a DEF DeviceTypeOK
<1>2. ConnTypeOK'
  BY DEF ConnTypeOK, CallInv, Connection, Rebuilding, Trying, Sent, Cleaning
<1>3. OwedTypeOK'
  BY DEF OwedTypeOK
<1>4. CallTypeOK'
  BY DEF CallTypeOK, Awaits, Results
<1>5. CallInv'
  BY <1>a, <1>b, DeviceFacts
     DEF CallInv, BeforePair, RemovalOwed, Promised, ForeignBond, Connection,
         ReleasedOnExit, Cleaning, Rebuilding, Trying, Sent, Verified
<1> QED BY <1>1, <1>2, <1>3, <1>4, <1>5

LEMMA DeviceRemovedStep == ASSUME IInv, DeviceRemoved PROVE IInv'
<1> USE DEF IInv, TypeOK, DeviceRemoved, Unwind, FirstOwed, Forgotten, devVars
<1>1. DeviceTypeOK'
  BY AbsentDevice DEF DeviceTypeOK
<1>2. ConnTypeOK'
  BY DEF ConnTypeOK, CallInv, Connection, Rebuilding, Trying, Sent, Cleaning
<1>3. OwedTypeOK'
  BY DEF OwedTypeOK
<1>4. CallTypeOK'
  BY DEF CallTypeOK, Awaits
<1>5. CallInv'
  BY AbsentDevice, DeviceFacts
     DEF OwedTypeOK, CallInv, BeforePair, RemovalOwed, Promised, ForeignBond, Connection,
         ReleasedOnExit, Cleaning, Rebuilding, Trying, Sent, Verified
<1> QED BY <1>1, <1>2, <1>3, <1>4, <1>5

LEMMA AgentUnregisteredStep == ASSUME IInv, AgentUnregistered PROVE IInv'
<1> USE DEF IInv, TypeOK, AgentUnregistered, Unwind, FirstOwed, devVars
<1>1. DeviceTypeOK'
  BY DEF DeviceTypeOK
<1>2. ConnTypeOK'
  BY DEF ConnTypeOK, CallInv, Connection, Rebuilding, Trying, Sent, Cleaning
<1>3. OwedTypeOK'
  BY DEF OwedTypeOK
<1>4. CallTypeOK'
  BY DEF CallTypeOK, Awaits, Results
<1>5. CallInv'
  BY DeviceFacts
     DEF CallInv, BeforePair, RemovalOwed, Promised, ForeignBond, Connection,
         ReleasedOnExit, Cleaning, Rebuilding, Trying, Sent, Verified
<1> QED BY <1>1, <1>2, <1>3, <1>4, <1>5

LEMMA DiscoveryStoppedStep == ASSUME IInv, DiscoveryStopped PROVE IInv'
<1> USE DEF IInv, TypeOK, DiscoveryStopped, Unwind, FirstOwed, devVars
<1>1. DeviceTypeOK'
  BY DEF DeviceTypeOK
<1>2. ConnTypeOK'
  BY DEF ConnTypeOK, CallInv, Connection, Rebuilding, Trying, Sent, Cleaning
<1>3. OwedTypeOK'
  BY DEF OwedTypeOK
<1>4. CallTypeOK'
  BY DEF CallTypeOK, Awaits, Results
<1>5. CallInv'
  BY DeviceFacts
     DEF CallInv, BeforePair, RemovalOwed, Promised, ForeignBond, Connection,
         ReleasedOnExit, Cleaning, Rebuilding, Trying, Sent, Verified
<1> QED BY <1>1, <1>2, <1>3, <1>4, <1>5

LEMMA CancelExistingStep == ASSUME IInv, CancelExisting PROVE IInv'
<1> USE DEF IInv, TypeOK, CancelExisting, Return, devVars
<1>a. dev' # dev => /\ dev' \in Devices /\ dev'.trusted /\ dev'.present = dev.present
                    /\ dev'.bond = dev.bond /\ dev'.hogp = dev.hogp
  BY DeviceTrusted DEF DeviceTypeOK
<1>1. DeviceTypeOK'
  BY <1>a DEF DeviceTypeOK
<1>2. ConnTypeOK'
  BY DEF ConnTypeOK, CallInv, Connection, Rebuilding, Trying, Sent, Cleaning
<1>3. OwedTypeOK'
  BY DEF OwedTypeOK
<1>4. CallTypeOK'
  BY DEF CallTypeOK, Awaits, Results
<1>5. CallInv'
  BY <1>a, DeviceFacts
     DEF CallInv, BeforePair, RemovalOwed, Promised, ForeignBond, Connection,
         ReleasedOnExit, Cleaning, Rebuilding, Trying, Sent, Verified
<1> QED BY <1>1, <1>2, <1>3, <1>4, <1>5

LEMMA CancelRebuildStep == ASSUME IInv, CancelRebuild PROVE IInv'
<1> USE DEF IInv, TypeOK, CancelRebuild, EndRebuild, Forgotten, devVars
<1>1. DeviceTypeOK'
  BY AbsentDevice DEF DeviceTypeOK
<1>2. ConnTypeOK'
  BY DEF ConnTypeOK, CallInv, Connection, Rebuilding, Trying, Sent, Cleaning
<1>3. OwedTypeOK'
  BY DEF OwedTypeOK
<1>4. CallTypeOK'
  BY DEF CallTypeOK, Awaits, Results
<1>5. CallInv'
  BY AbsentDevice, DeviceFacts
     DEF CallInv, BeforePair, RemovalOwed, Promised, ForeignBond, Connection,
         ReleasedOnExit, Cleaning, Rebuilding, Trying, Sent, Verified
<1> QED BY <1>1, <1>2, <1>3, <1>4, <1>5

LEMMA CancelFreshStep == ASSUME IInv, CancelFresh PROVE IInv'
<1> USE DEF IInv, TypeOK, CancelFresh, Unwind, FirstOwed, devVars
<1>a. dev' # dev => /\ dev' \in Devices /\ dev'.trusted /\ dev'.present = dev.present
                    /\ dev'.bond = dev.bond /\ dev'.hogp = dev.hogp
  BY DeviceTrusted DEF DeviceTypeOK
<1>1. DeviceTypeOK'
  BY <1>a DEF DeviceTypeOK
<1>2. ConnTypeOK'
  BY DEF ConnTypeOK, CallInv, Connection, Rebuilding, Trying, Sent, Cleaning
<1>3. OwedTypeOK'
  BY DEF OwedTypeOK
<1>4. CallTypeOK'
  BY DEF CallTypeOK, Awaits, Results
<1>5. CallInv'
  BY <1>a, DeviceFacts
     DEF CallInv, BeforePair, RemovalOwed, Promised, ForeignBond, Connection,
         ReleasedOnExit, Cleaning, Rebuilding, Trying, Sent, Verified
<1> QED BY <1>1, <1>2, <1>3, <1>4, <1>5

LEMMA CancelInCleanupStep == ASSUME IInv, CancelInCleanup PROVE IInv'
<1> USE DEF IInv, TypeOK, CancelInCleanup, Forgotten, devVars
<1>1. DeviceTypeOK'
  BY AbsentDevice DEF DeviceTypeOK
<1>2. ConnTypeOK'
  BY DEF ConnTypeOK, CallInv, Connection, Rebuilding, Trying, Sent, Cleaning
<1>3. OwedTypeOK'
  BY DEF OwedTypeOK
<1>4. CallTypeOK'
  BY DEF CallTypeOK, Awaits, Results
<1>5. CallInv'
  BY AbsentDevice, DeviceFacts
     DEF CallInv, BeforePair, RemovalOwed, Promised, ForeignBond, Connection,
         ReleasedOnExit, Cleaning, Rebuilding, Trying, Sent, Verified
<1> QED BY <1>1, <1>2, <1>3, <1>4, <1>5

(* --------------------------- steps of BlueZ ----------------------------- *)

\* What every step of BlueZ does.
Frame ==
    /\ UNCHANGED <<pc, entry, owed, result, attempts>>
    /\ seen' \subseteq Watched
    /\ conn' = IF dev'.present THEN conn ELSE conn \ {"pair"}

LEMMA BecomesFrame ==
    ASSUME NEW d, Becomes(d), seen \subseteq Watched
    PROVE  dev' = d /\ Frame
  BY Watching DEF Becomes, Frame

LEMMA DeviceSeenEffect ==
    ASSUME IInv, DeviceSeen
    PROVE  /\ dev' \in Devices /\ Frame
           /\ UNCHANGED <<bondBy, mishaps>>
           /\ ~dev.present /\ dev'.present
           /\ dev'.bond = dev.bond /\ dev'.trusted = dev.trusted
<1>1. DeviceTypeOK /\ dev \in Devices /\ seen \subseteq Watched
  BY DEF IInv, TypeOK, DeviceTypeOK, CallTypeOK
<1>2. PICK h \in BOOLEAN : Becomes([dev EXCEPT !.present = TRUE, !.hogp = h])
  BY DEF DeviceSeen
<1>3. dev' = [dev EXCEPT !.present = TRUE, !.hogp = h] /\ Frame
  BY <1>1, <1>2, BecomesFrame
<1> QED BY <1>1, <1>3, DeviceAppears DEF DeviceSeen

LEMMA DeviceLostEffect ==
    ASSUME IInv, DeviceLost
    PROVE  /\ dev' \in Devices /\ Frame
           /\ UNCHANGED <<bondBy, mishaps>>
           /\ dev.bond = "none" /\ ~dev'.present
           /\ dev'.bond = dev.bond /\ dev'.trusted = dev.trusted
<1>1. DeviceTypeOK /\ dev \in Devices /\ seen \subseteq Watched
  BY DEF IInv, TypeOK, DeviceTypeOK, CallTypeOK
<1>2. dev.trusted = FALSE
  BY <1>1, DeviceFacts DEF DeviceLost
<1> QED BY <1>1, <1>2, AbsentDevice, BecomesFrame DEF DeviceLost

LEMMA PairProgressEffect ==
    ASSUME IInv, PairProgress
    PROVE  /\ dev' \in Devices /\ Frame
           /\ bondBy' = "call" /\ UNCHANGED mishaps
           /\ "pair" \in conn /\ dev.bond # "full"
           /\ dev'.present /\ dev'.bond \in {"partial", "full"}
           /\ dev'.hogp = dev.hogp /\ dev'.trusted = dev.trusted
<1>1. DeviceTypeOK /\ dev \in Devices /\ seen \subseteq Watched
  BY DEF IInv, TypeOK, DeviceTypeOK, CallTypeOK
<1>2. dev.present
  BY DEF IInv, CallInv, Connection, PairProgress
<1>3. PICK b \in {"partial", "full"} : Becomes([dev EXCEPT !.bond = b])
  BY DEF PairProgress
<1>4. dev' = [dev EXCEPT !.bond = b] /\ Frame
  BY <1>1, <1>3, BecomesFrame
<1> QED BY <1>1, <1>2, <1>4, DeviceBonds DEF PairProgress

LEMMA ServicesResolveEffect ==
    ASSUME IInv, ServicesResolve
    PROVE  /\ dev' \in Devices /\ Frame
           /\ UNCHANGED <<bondBy, mishaps>>
           /\ dev'.present = dev.present /\ dev'.bond = dev.bond /\ dev.bond # "none"
           /\ (dev.hogp => dev'.hogp) /\ dev'.trusted = dev.trusted
<1>1. DeviceTypeOK /\ dev \in Devices /\ seen \subseteq Watched
  BY DEF IInv, TypeOK, DeviceTypeOK, CallTypeOK
<1>2. PICK h \in {dev.hogp, TRUE} : Becomes([dev EXCEPT !.resolved = TRUE, !.hogp = h])
  BY DEF ServicesResolve
<1> DEFINE e == [dev EXCEPT !.resolved = TRUE, !.hogp = h]
<1>3. dev.bond # "none" /\ UNCHANGED <<bondBy, mishaps>>
  BY DEF ServicesResolve
<1>4. /\ e \in Devices /\ e.present = dev.present /\ e.bond = dev.bond
      /\ (dev.hogp => e.hogp) /\ e.trusted = dev.trusted
  BY <1>1, <1>3 DEF Devices
<1>5. dev' = e /\ Frame
  BY <1>1, <1>2, BecomesFrame
<1> QED BY <1>3, <1>4, <1>5

LEMMA ServiceExportedEffect ==
    ASSUME IInv, ServiceExported
    PROVE  /\ dev' \in Devices /\ Frame
           /\ UNCHANGED <<bondBy, mishaps>>
           /\ dev'.present = dev.present /\ dev'.bond = dev.bond
           /\ dev'.hogp = dev.hogp /\ dev'.trusted = dev.trusted
<1>1. DeviceTypeOK /\ dev \in Devices /\ seen \subseteq Watched
  BY DEF IInv, TypeOK, DeviceTypeOK, CallTypeOK
<1> QED BY <1>1, DeviceExports, BecomesFrame DEF ServiceExported

LEMMA LinkDropsEffect ==
    ASSUME IInv, LinkDrops
    PROVE  /\ dev' \in Devices /\ Frame
           /\ UNCHANGED <<bondBy, mishaps>>
           /\ dev'.present = dev.present /\ dev'.bond = dev.bond
           /\ dev'.hogp = dev.hogp /\ dev'.trusted = dev.trusted
<1>1. DeviceTypeOK /\ dev \in Devices /\ seen \subseteq Watched
  BY DEF IInv, TypeOK, DeviceTypeOK, CallTypeOK
<1>2. PICK v \in {FALSE, dev.service} :
          Becomes([dev EXCEPT !.resolved = FALSE, !.service = v])
  BY DEF LinkDrops
<1>3. dev' = [dev EXCEPT !.resolved = FALSE, !.service = v] /\ Frame
  BY <1>1, <1>2, BecomesFrame
<1> QED BY <1>1, <1>3, DeviceSleeps DEF LinkDrops

LEMMA OtherPairsEffect ==
    ASSUME IInv, OtherPairs
    PROVE  /\ dev' \in Devices /\ Frame
           /\ bondBy' = "other" /\ mishaps' = mishaps \cup {"overtaken"}
           /\ dev.bond = "none" /\ "pair" \notin conn
           /\ dev'.present /\ dev'.bond = "full"
           /\ dev'.hogp = dev.hogp /\ dev'.trusted = dev.trusted
<1>1. DeviceTypeOK /\ dev \in Devices /\ seen \subseteq Watched
  BY DEF IInv, TypeOK, DeviceTypeOK, CallTypeOK
<1> QED BY <1>1, DeviceBonds, BecomesFrame DEF OtherPairs

LEMMA OtherRemovesEffect ==
    ASSUME IInv, OtherRemoves
    PROVE  /\ dev' \in Devices /\ Frame
           /\ bondBy' = "none" /\ mishaps' = mishaps \cup {"removed"}
           /\ ~dev'.present /\ dev'.bond = "none" /\ ~dev'.trusted
<1>1. DeviceTypeOK /\ dev \in Devices /\ seen \subseteq Watched
  BY DEF IInv, TypeOK, DeviceTypeOK, CallTypeOK
<1> QED BY <1>1, AbsentDevice, BecomesFrame DEF OtherRemoves

\* Their effects keep the invariant.
LEMMA DeviceSeenStep == ASSUME IInv, DeviceSeen PROVE IInv'
<1> USE DeviceSeenEffect, DeviceFacts DEF IInv, TypeOK
<1>1. DeviceTypeOK'
  BY DEF DeviceTypeOK, Frame
<1>2. ConnTypeOK' /\ OwedTypeOK' /\ CallTypeOK'
  BY DEF Frame, ConnTypeOK, OwedTypeOK, CallTypeOK
<1>3. CallInv'
  BY DEF OwedTypeOK, Frame, CallInv, BeforePair, RemovalOwed, Promised, ForeignBond,
         Connection, ReleasedOnExit, Cleaning, Rebuilding, Trying, Sent, Verified
<1> QED BY <1>1, <1>2, <1>3

LEMMA DeviceLostStep == ASSUME IInv, DeviceLost PROVE IInv'
<1> USE DeviceLostEffect, DeviceFacts DEF IInv, TypeOK
<1>1. DeviceTypeOK'
  BY DEF DeviceTypeOK, Frame
<1>2. ConnTypeOK' /\ OwedTypeOK' /\ CallTypeOK'
  BY DEF Frame, ConnTypeOK, OwedTypeOK, CallTypeOK
<1>3. CallInv'
  BY DEF OwedTypeOK, Frame, CallInv, BeforePair, RemovalOwed, Promised, ForeignBond,
         Connection, ReleasedOnExit, Cleaning, Rebuilding, Trying, Sent, Verified
<1> QED BY <1>1, <1>2, <1>3

LEMMA PairProgressStep == ASSUME IInv, PairProgress PROVE IInv'
<1> USE PairProgressEffect, DeviceFacts DEF IInv, TypeOK
<1>1. DeviceTypeOK'
  BY DEF DeviceTypeOK, Frame
<1>2. ConnTypeOK' /\ OwedTypeOK' /\ CallTypeOK'
  BY DEF Frame, ConnTypeOK, OwedTypeOK, CallTypeOK
<1>3. CallInv'
  BY DEF OwedTypeOK, Frame, CallInv, BeforePair, RemovalOwed, Promised, ForeignBond,
         Connection, ReleasedOnExit, Cleaning, Rebuilding, Trying, Sent, Verified
<1> QED BY <1>1, <1>2, <1>3

LEMMA ServicesResolveStep == ASSUME IInv, ServicesResolve PROVE IInv'
<1> USE ServicesResolveEffect, DeviceFacts DEF IInv, TypeOK
<1>1. DeviceTypeOK'
  BY DEF DeviceTypeOK, Frame
<1>2. ConnTypeOK' /\ OwedTypeOK' /\ CallTypeOK'
  BY DEF Frame, ConnTypeOK, OwedTypeOK, CallTypeOK
<1>3. CallInv'
  BY DEF OwedTypeOK, Frame, CallInv, BeforePair, RemovalOwed, Promised, ForeignBond,
         Connection, ReleasedOnExit, Cleaning, Rebuilding, Trying, Sent, Verified
<1> QED BY <1>1, <1>2, <1>3

LEMMA ServiceExportedStep == ASSUME IInv, ServiceExported PROVE IInv'
<1> USE ServiceExportedEffect, DeviceFacts DEF IInv, TypeOK
<1>1. DeviceTypeOK'
  BY DEF DeviceTypeOK, Frame
<1>2. ConnTypeOK' /\ OwedTypeOK' /\ CallTypeOK'
  BY DEF Frame, ConnTypeOK, OwedTypeOK, CallTypeOK
<1>3. CallInv'
  BY DEF OwedTypeOK, Frame, CallInv, BeforePair, RemovalOwed, Promised, ForeignBond,
         Connection, ReleasedOnExit, Cleaning, Rebuilding, Trying, Sent, Verified
<1> QED BY <1>1, <1>2, <1>3

LEMMA LinkDropsStep == ASSUME IInv, LinkDrops PROVE IInv'
<1> USE LinkDropsEffect, DeviceFacts DEF IInv, TypeOK
<1>1. DeviceTypeOK'
  BY DEF DeviceTypeOK, Frame
<1>2. ConnTypeOK' /\ OwedTypeOK' /\ CallTypeOK'
  BY DEF Frame, ConnTypeOK, OwedTypeOK, CallTypeOK
<1>3. CallInv'
  BY DEF OwedTypeOK, Frame, CallInv, BeforePair, RemovalOwed, Promised, ForeignBond,
         Connection, ReleasedOnExit, Cleaning, Rebuilding, Trying, Sent, Verified
<1> QED BY <1>1, <1>2, <1>3

LEMMA OtherPairsStep == ASSUME IInv, OtherPairs PROVE IInv'
<1> USE OtherPairsEffect, DeviceFacts DEF IInv, TypeOK
<1>1. DeviceTypeOK'
  BY DEF DeviceTypeOK, Frame
<1>2. ConnTypeOK' /\ OwedTypeOK' /\ CallTypeOK'
  BY DEF Frame, ConnTypeOK, OwedTypeOK, CallTypeOK
<1>3. CallInv'
  BY DEF OwedTypeOK, Frame, CallInv, BeforePair, RemovalOwed, Promised, ForeignBond,
         Connection, ReleasedOnExit, Cleaning, Rebuilding, Trying, Sent, Verified
<1> QED BY <1>1, <1>2, <1>3

LEMMA OtherRemovesStep == ASSUME IInv, OtherRemoves PROVE IInv'
<1> USE OtherRemovesEffect, DeviceFacts DEF IInv, TypeOK
<1>1. DeviceTypeOK'
  BY DEF DeviceTypeOK, Frame
<1>2. ConnTypeOK' /\ OwedTypeOK' /\ CallTypeOK'
  BY DEF Frame, ConnTypeOK, OwedTypeOK, CallTypeOK
<1>3. CallInv'
  BY DEF OwedTypeOK, Frame, CallInv, BeforePair, RemovalOwed, Promised, ForeignBond,
         Connection, ReleasedOnExit, Cleaning, Rebuilding, Trying, Sent, Verified
<1> QED BY <1>1, <1>2, <1>3

(* ------------------------------ induction ------------------------------- *)

\* The base and the step of the induction.
LEMMA Initially == Init => IInv
  BY PairingAssumption DEF Init, IInv, TypeOK, DeviceTypeOK, ConnTypeOK, OwedTypeOK, CallTypeOK, CallInv,
         BeforePair, RemovalOwed, Promised, ForeignBond, Connection, ReleasedOnExit,
         Cleaning, Rebuilding, Trying, Sent, Results, Devices

LEMMA Inductive == IInv /\ [Next]_vars => IInv'
<1> SUFFICES ASSUME IInv, [Next]_vars PROVE IInv'
  OBVIOUS
<1>1. CASE Begin
  BY <1>1, BeginStep
<1>2. CASE Existing
  BY <1>2, ExistingWaitedStep, BusOpenedStep, BusFailsStep, ExistingTrustedStep DEF Existing
<1>3. CASE Rebuild
  BY <1>3, RebuildDiscoversStep, RebuildRemovesStep, RebuildWaitedStep, RebuildStoppedStep
     DEF Rebuild
<1>4. CASE Fresh
  BY <1>4, RefusedStep, DiscoveryStartedStep, BearerSetStep, AgentRegisteredStep,
     PairSentStep, PairAnsweredStep, PairFailsStep, PairTimesOutStep, AllSeenStep,
     ServiceWaitedStep, TrustedStep DEF Fresh
<1>5. CASE Cleanup
  BY <1>5, DeviceRemovedStep, AgentUnregisteredStep, DiscoveryStoppedStep DEF Cleanup
<1>6. CASE Cancel
  BY <1>6, CancelExistingStep, CancelRebuildStep, CancelFreshStep, CancelInCleanupStep
     DEF Cancel
<1>7. CASE Bluez
  BY <1>7, DeviceSeenStep, DeviceLostStep, PairProgressStep, ServicesResolveStep,
     ServiceExportedStep, LinkDropsStep, OtherPairsStep, OtherRemovesStep DEF Bluez
<1>8. CASE UNCHANGED vars
  BY <1>8 DEF vars, devVars, flowVars, IInv, TypeOK, DeviceTypeOK, ConnTypeOK, OwedTypeOK,
         CallTypeOK, CallInv, BeforePair, RemovalOwed, Promised, ForeignBond, Connection,
         ReleasedOnExit, Verified
<1> QED BY <1>1, <1>2, <1>3, <1>4, <1>5, <1>6, <1>7, <1>8 DEF Next, Call

\* The invariant that the theorems below rest on.
THEOREM Invariant == Spec => []IInv
<1>1. Init => IInv
  BY Initially
<1>2. IInv /\ [Next]_vars => IInv'
  BY Inductive
<1> QED BY <1>1, <1>2, PTL DEF Spec

\* Every variable keeps to its values, however many calls are made; a clean-up call
\* is only made while it is owed (pairing.py 664-699).
THEOREM TypeCorrect == Spec => []TypeOK
<1>1. IInv => TypeOK
  BY DEF IInv
<1> QED BY <1>1, Invariant, PTL

\* The agent, the discovery and the connection are given back on every exit path,
\* unless the flow was closed in the middle of that (pairing.py 664-699).
THEOREM GivenBack == Spec => []ReleasedOnExit
<1>1. IInv => ReleasedOnExit
  BY DEF IInv, CallInv, Connection
<1> QED BY <1>1, Invariant, PTL

(* ------------------------- the covered exchange -------------------------- *)

\* Our agent and the discovery, from their start to the removal of the device.
Covered ==
    /\ pc \in {"prefer", "register"} => "discovery" \in conn
    /\ pc \in {"default"} \cup Sent => {"agent", "discovery"} \subseteq conn
    /\ pc \in Cleaning /\ "remove" \in owed =>
           pc = "remove" /\ {"agent", "discovery"} \subseteq conn
    /\ ExchangeCovered

LEMMA CoveredStep == ASSUME IInv, Covered, [Next]_vars PROVE Covered'
<1> USE DEF IInv, CallInv, Covered, ExchangeCovered, Sent, Cleaning
<1>1. CASE Begin
  <2>1. conn = {} /\ conn' = {} /\ owed' = {}
    BY <1>1, LookupLeads DEF Begin, TypeOK
  <2>2. pc' \in {"openFresh", "openRebuild", "waitExisting", "openTrust", "done"}
    BY <1>1, LookupLeads DEF Begin, TypeOK
  <2> QED BY <2>1, <2>2
<1>2. CASE Existing
  <2>1. CASE ExistingWaited
    BY <2>1 DEF ExistingWaited, Return, BeforePair, RemovalOwed, Rebuilding, Trying, TypeOK, OwedTypeOK
  <2>2. CASE BusOpened
    BY <2>2 DEF BusOpened, BeforePair, RemovalOwed, Rebuilding, Trying, TypeOK, OwedTypeOK
  <2>3. CASE BusFails
    BY <2>3 DEF BusFails, Return, BeforePair, RemovalOwed, Rebuilding, Trying, TypeOK, OwedTypeOK
  <2>4. CASE ExistingTrusted
    BY <2>4 DEF ExistingTrusted, Return, BeforePair, RemovalOwed, Rebuilding, Trying, TypeOK, OwedTypeOK
  <2> QED BY <1>2, <2>1, <2>2, <2>3, <2>4 DEF Existing
<1>3. CASE Rebuild
  <2>1. CASE RebuildDiscovers
    BY <2>1 DEF RebuildDiscovers, EndRebuild, BeforePair, RemovalOwed, Rebuilding, Trying, TypeOK, OwedTypeOK
  <2>2. CASE RebuildRemoves
    BY <2>2 DEF RebuildRemoves, EndRebuild, BeforePair, RemovalOwed, Rebuilding, Trying, TypeOK, OwedTypeOK
  <2>3. CASE RebuildWaited
    BY <2>3 DEF RebuildWaited, EndRebuild, BeforePair, RemovalOwed, Rebuilding, Trying, TypeOK, OwedTypeOK
  <2>4. CASE RebuildStopped
    <3>1. conn' = {} /\ owed' = {} /\ pc' \notin {"prefer", "register", "default"} \cup Sent
      BY <2>4, LookupLeads DEF RebuildStopped, TypeOK
    <3> QED BY <3>1
  <2> QED BY <1>3, <2>1, <2>2, <2>3, <2>4 DEF Rebuild
<1>4. CASE Fresh
  <2>1. CASE Refused
    BY <2>1 DEF Refused, Unwind, FirstOwed, BeforePair, RemovalOwed, Rebuilding, Trying, TypeOK, OwedTypeOK
  <2>2. CASE DiscoveryStarted
    BY <2>2 DEF DiscoveryStarted, BeforePair, RemovalOwed, Rebuilding, Trying, TypeOK, OwedTypeOK
  <2>3. CASE BearerSet
    BY <2>3 DEF BearerSet, BeforePair, RemovalOwed, Rebuilding, Trying, TypeOK, OwedTypeOK
  <2>4. CASE AgentRegistered
    BY <2>4 DEF AgentRegistered, BeforePair, RemovalOwed, Rebuilding, Trying, TypeOK, OwedTypeOK
  <2>5. CASE PairSent
    BY <2>5 DEF PairSent, BeforePair, RemovalOwed, Rebuilding, Trying, TypeOK, OwedTypeOK
  <2>6. CASE PairAnswered
    BY <2>6 DEF PairAnswered, BeforePair, RemovalOwed, Rebuilding, Trying, TypeOK, OwedTypeOK
  <2>7. CASE PairFails
    BY <2>7 DEF PairFails, Unwind, FirstOwed, BeforePair, RemovalOwed, Rebuilding, Trying, TypeOK, OwedTypeOK
  <2>8. CASE PairTimesOut
    BY <2>8 DEF PairTimesOut, Unwind, FirstOwed, BeforePair, RemovalOwed, Rebuilding, Trying, TypeOK, OwedTypeOK
  <2>9. CASE AllSeen
    BY <2>9 DEF AllSeen, BeforePair, RemovalOwed, Rebuilding, Trying, TypeOK, OwedTypeOK
  <2>10. CASE ServiceWaited
    BY <2>10 DEF ServiceWaited, Unwind, FirstOwed, Owed, BeforePair, RemovalOwed, Rebuilding, Trying, TypeOK, OwedTypeOK
  <2>11. CASE Trusted
    BY <2>11 DEF Trusted, Unwind, FirstOwed, BeforePair, RemovalOwed, Rebuilding, Trying, TypeOK, OwedTypeOK
  <2> QED BY <1>4, <2>1, <2>2, <2>3, <2>4, <2>5, <2>6, <2>7, <2>8, <2>9, <2>10, <2>11 DEF Fresh
<1>5. CASE Cleanup
  <2>1. CASE DeviceRemoved
    BY <2>1 DEF DeviceRemoved, Unwind, FirstOwed, Forgotten, BeforePair, RemovalOwed, Rebuilding, Trying, TypeOK, OwedTypeOK
  <2>2. CASE AgentUnregistered
    BY <2>2 DEF AgentUnregistered, Unwind, FirstOwed, BeforePair, RemovalOwed, Rebuilding, Trying, TypeOK, OwedTypeOK
  <2>3. CASE DiscoveryStopped
    BY <2>3 DEF DiscoveryStopped, Unwind, FirstOwed, BeforePair, RemovalOwed, Rebuilding, Trying, TypeOK, OwedTypeOK
  <2> QED BY <1>5, <2>1, <2>2, <2>3 DEF Cleanup
<1>6. CASE Cancel
  <2>1. CASE CancelExisting
    BY <2>1 DEF CancelExisting, Return, BeforePair, RemovalOwed, Rebuilding, Trying, TypeOK, OwedTypeOK
  <2>2. CASE CancelRebuild
    BY <2>2 DEF CancelRebuild, EndRebuild, Forgotten, BeforePair, RemovalOwed, Rebuilding, Trying, TypeOK, OwedTypeOK
  <2>3. CASE CancelFresh
    BY <2>3 DEF CancelFresh, Unwind, FirstOwed, BeforePair, RemovalOwed, Rebuilding, Trying, TypeOK, OwedTypeOK
  <2>4. CASE CancelInCleanup
    BY <2>4 DEF CancelInCleanup, Forgotten, BeforePair, RemovalOwed, Rebuilding, Trying, TypeOK, OwedTypeOK
  <2> QED BY <1>6, <2>1, <2>2, <2>3, <2>4 DEF Cancel
<1>7. CASE Bluez
  <2>1. CASE DeviceSeen
    BY <2>1, DeviceSeenEffect DEF Frame
  <2>2. CASE DeviceLost
    BY <2>2, DeviceLostEffect DEF Frame
  <2>3. CASE PairProgress
    BY <2>3, PairProgressEffect DEF Frame
  <2>4. CASE ServicesResolve
    BY <2>4, ServicesResolveEffect DEF Frame
  <2>5. CASE ServiceExported
    BY <2>5, ServiceExportedEffect DEF Frame
  <2>6. CASE LinkDrops
    BY <2>6, LinkDropsEffect DEF Frame
  <2>7. CASE OtherPairs
    BY <2>7, OtherPairsEffect DEF Frame
  <2>8. CASE OtherRemoves
    BY <2>8, OtherRemovesEffect DEF Frame
  <2> QED BY <1>7, <2>1, <2>2, <2>3, <2>4, <2>5, <2>6, <2>7, <2>8 DEF Bluez
<1>8. CASE UNCHANGED vars
  BY <1>8 DEF vars, devVars, flowVars
<1> QED BY <1>1, <1>2, <1>3, <1>4, <1>5, <1>6, <1>7, <1>8 DEF Next, Call

\* As long as BlueZ works on our Pair it finds our agent to ask and discovers for us,
\* also while a failed attempt is being cleaned up (pairing.py 296, 664-697).
THEOREM AskedUnderCover == Spec => []ExchangeCovered
<1>1. Init => Covered
  BY DEF Init, Covered, ExchangeCovered, Sent, Cleaning
<1>2. IInv /\ Covered /\ [Next]_vars => Covered'
  BY CoveredStep
<1>3. Covered => ExchangeCovered
  BY DEF Covered
<1> QED BY <1>1, <1>2, <1>3, Invariant, PTL DEF Spec

(* ------------------------------ refinement ------------------------------ *)

\* A step of the call, in the terms of the contract.
CallStep ==
    /\ Running /\ pc' # "idle" /\ entry' = entry
    /\ \/ mishaps' = mishaps
       \/ mishaps' = mishaps \cup {"kept"} /\ UNCHANGED devVars
       \/ mishaps' = mishaps \cup {"cut"} /\ pc' = "done"
    /\ UNCHANGED devVars \/ Contract!Removing \/ Contract!Trusting
    /\ pc' = "done" => result' \in Results \ {"none"} /\ Contract!Truthful(result', mishaps')

\* Such a step is one of the contract, or a stutter.
LEMMA CallStepMaps == ASSUME IInv, IInv', CallStep PROVE [Contract!Next]_Contract!vars
<1> USE DEF CallStep, IInv, TypeOK, CallTypeOK, Running, CallTold, OutcomeTold, MishapsTold
<1>1. CASE pc' = "done"
  <2>1. Contract!Running /\ CallTold' = "done" /\ OutcomeTold' = result'
    BY <1>1, PairingAssumption DEF Contract!Running
  <2>2. UNCHANGED <<BondTold, bondBy, dev.trusted>> \/ Contract!Removing \/ Contract!Trusting
    BY DEF devVars, BondTold, Verified
  <2>3. MishapsTold = mishaps /\ MishapsTold' = mishaps' \cap {"cut", "kept"}
    BY <1>1
  <2>4. Contract!Ends(result')
    BY <1>1, <2>1, <2>2, <2>3 DEF Contract!Ends
  <2>5. result' \in Contract!Results
    BY <1>1 DEF Results, Contract!Results, Contract!Verified, Contract!Failures
  <2> QED BY <2>4, <2>5 DEF Contract!Next
<1>2. CASE pc' # "done"
  <2>1. /\ Contract!Running /\ UNCHANGED <<CallTold, OutcomeTold>>
        /\ MishapsTold = mishaps /\ MishapsTold' = mishaps'
    BY <1>2, PairingAssumption DEF Contract!Running
  <2>2. CASE UNCHANGED devVars
    <3>1. UNCHANGED <<BondTold, bondBy, dev.trusted>>
      BY <2>2 DEF devVars, BondTold, Verified
    <3>2. CASE mishaps' = mishaps
      BY <2>1, <3>1, <3>2 DEF Contract!vars
    <3>3. CASE mishaps' = mishaps \cup {"kept"}
      BY <2>1, <3>1, <3>3 DEF Contract!Next, Contract!Refuses
    <3> QED BY <1>2, <3>2, <3>3
  <2>3. CASE ~UNCHANGED devVars
    BY <1>2, <2>1, <2>3 DEF Contract!Next, Contract!Works
  <2> QED BY <2>2, <2>3
<1> QED BY <1>1, <1>2

\* The steps of the call are such steps.
LEMMA ExistingMaps == ASSUME IInv, Existing PROVE CallStep
<1> USE DeviceFacts
    DEF CallStep, IInv, TypeOK, CallInv, devVars, Running, Results, BondTold, Verified,
         CallTold, MishapsTold, BeforePair, RemovalOwed, Promised, ForeignBond, Connection,
         OwedTypeOK, Rebuilding, Trying, Sent, Cleaning, Contract!Truthful,
         Contract!Failures, Contract!Verified, Contract!Removing, Contract!Trusting,
         Contract!MayRemove, Contract!MayTrust
<1>1. CASE ExistingWaited
  BY <1>1, VerifyTells DEF ExistingWaited, Return
<1>2. CASE BusOpened
  BY <1>2 DEF BusOpened
<1>3. CASE BusFails
  BY <1>3 DEF BusFails, Return
<1>4. CASE ExistingTrusted
  <2>1. \/ UNCHANGED devVars
        \/ /\ dev'.trusted /\ dev'.bond = dev.bond /\ dev'.hogp = dev.hogp
           /\ UNCHANGED bondBy
    BY <1>4, DeviceTrusted DEF ExistingTrusted
  <2>2. result' = "reused" => dev'.trusted
    BY <1>4, DeviceTrusted DEF ExistingTrusted, Return
  <2> QED BY <1>4, <2>1, <2>2 DEF ExistingTrusted, Return
<1> QED BY <1>1, <1>2, <1>3, <1>4 DEF Existing

LEMMA RebuildMaps == ASSUME IInv, Rebuild PROVE CallStep
<1> USE DeviceFacts
    DEF CallStep, IInv, TypeOK, CallInv, devVars, Running, Results, BondTold, Verified,
         CallTold, MishapsTold, BeforePair, RemovalOwed, Promised, ForeignBond, Connection,
         OwedTypeOK, Rebuilding, Trying, Sent, Cleaning, Contract!Truthful,
         Contract!Failures, Contract!Verified, Contract!Removing, Contract!Trusting,
         Contract!MayRemove, Contract!MayTrust
<1>1. CASE RebuildDiscovers
  BY <1>1 DEF RebuildDiscovers, EndRebuild
<1>2. CASE RebuildRemoves
  BY <1>2, AbsentDevice DEF RebuildRemoves, EndRebuild
<1>3. CASE RebuildWaited
  BY <1>3 DEF RebuildWaited, EndRebuild
<1>4. CASE RebuildStopped
  <2>1. CASE result = "none"
    <3>1. Lookup(FALSE)
      BY <1>4, <2>1 DEF RebuildStopped
    <3>2. pc' # "idle" /\ (pc' = "done" => result' \in {"notfound", "stale", "reused"})
          /\ (pc' = "done" /\ result' = "reused" => Verified /\ dev.trusted)
      BY <3>1, LookupLeads
    <3> QED BY <1>4, <3>2 DEF RebuildStopped
  <2>2. CASE result # "none"
    BY <1>4, <2>2 DEF RebuildStopped
  <2> QED BY <2>1, <2>2
<1> QED BY <1>1, <1>2, <1>3, <1>4 DEF Rebuild

LEMMA FreshMaps == ASSUME IInv, Fresh PROVE CallStep
<1> USE DeviceFacts
    DEF CallStep, IInv, TypeOK, CallInv, devVars, Running, Results, BondTold, Verified,
         CallTold, MishapsTold, BeforePair, RemovalOwed, Promised, ForeignBond, Connection,
         OwedTypeOK, Rebuilding, Trying, Sent, Cleaning, Contract!Truthful,
         Contract!Failures, Contract!Verified, Contract!Removing, Contract!Trusting,
         Contract!MayRemove, Contract!MayTrust
<1>1. CASE Refused
  BY <1>1 DEF Refused, Unwind, FirstOwed
<1>2. CASE DiscoveryStarted
  BY <1>2 DEF DiscoveryStarted
<1>3. CASE BearerSet
  BY <1>3 DEF BearerSet
<1>4. CASE AgentRegistered
  BY <1>4 DEF AgentRegistered
<1>5. CASE PairSent
  BY <1>5 DEF PairSent
<1>6. CASE PairAnswered
  BY <1>6 DEF PairAnswered
<1>7. CASE PairFails
  BY <1>7 DEF PairFails, Unwind, FirstOwed
<1>8. CASE PairTimesOut
  BY <1>8 DEF PairTimesOut, Unwind, FirstOwed
<1>9. CASE AllSeen
  BY <1>9 DEF AllSeen
<1>10. CASE ServiceWaited
  BY <1>10, VerifyTells DEF ServiceWaited, Unwind, FirstOwed, Owed
<1>11. CASE Trusted
  <2>1. \/ UNCHANGED devVars
        \/ /\ dev'.trusted /\ dev'.bond = dev.bond /\ dev'.hogp = dev.hogp
           /\ UNCHANGED bondBy
    BY <1>11, DeviceTrusted DEF Trusted
  <2>2. result' = "ok" => dev'.trusted
    BY <1>11, DeviceTrusted DEF Trusted, Unwind, FirstOwed
  <2> QED BY <1>11, <2>1, <2>2 DEF Trusted, Unwind, FirstOwed
<1> QED BY <1>1, <1>2, <1>3, <1>4, <1>5, <1>6, <1>7, <1>8, <1>9, <1>10, <1>11 DEF Fresh

LEMMA CleanupMaps == ASSUME IInv, Cleanup PROVE CallStep
<1> USE DeviceFacts
    DEF CallStep, IInv, TypeOK, CallInv, devVars, Running, Results, BondTold, Verified,
         CallTold, MishapsTold, BeforePair, RemovalOwed, Promised, ForeignBond, Connection,
         OwedTypeOK, Rebuilding, Trying, Sent, Cleaning, Contract!Truthful,
         Contract!Failures, Contract!Verified, Contract!Removing, Contract!Trusting,
         Contract!MayRemove, Contract!MayTrust
<1>1. CASE DeviceRemoved
  <2>1. Running /\ pc' # "idle" /\ entry' = entry
    BY <1>1 DEF DeviceRemoved, Unwind, FirstOwed, Forgotten
  <2>2. \/ mishaps' = mishaps
        \/ mishaps' = mishaps \cup {"kept"} /\ UNCHANGED devVars
    <3>1. CASE dev'.present
      BY <1>1, <3>1, AbsentDevice DEF DeviceRemoved, Unwind, FirstOwed, Forgotten
    <3>2. CASE ~dev'.present
      <4>1. {m \in {"kept"} : dev'.present} = {}
        BY <3>2
      <4>2. mishaps' = mishaps \cup {m \in {"kept"} : dev'.present}
        BY <1>1 DEF DeviceRemoved
      <4>3. mishaps \cup {} = mishaps
        OBVIOUS
      <4>4. mishaps' = mishaps
        BY <4>1, <4>2, <4>3, Zenon
      <4> QED BY <4>4
    <3> QED BY <3>1, <3>2
  <2>3. UNCHANGED devVars \/ Contract!Removing \/ Contract!Trusting
    BY <1>1, AbsentDevice DEF DeviceRemoved, Unwind, FirstOwed, Forgotten
  <2>4. pc' = "done" =>
            result' \in Results \ {"none"} /\ Contract!Truthful(result', mishaps')
    BY <1>1, AbsentDevice DEF DeviceRemoved, Unwind, FirstOwed, Forgotten, CallTypeOK
  <2> QED BY <2>1, <2>2, <2>3, <2>4
<1>2. CASE AgentUnregistered
  <2>1. Running /\ pc' # "idle" /\ entry' = entry
    BY <1>2 DEF AgentUnregistered, Unwind, FirstOwed
  <2>2. mishaps' = mishaps
    BY <1>2 DEF AgentUnregistered, Unwind, FirstOwed
  <2>3. UNCHANGED devVars \/ Contract!Removing \/ Contract!Trusting
    BY <1>2 DEF AgentUnregistered, Unwind, FirstOwed
  <2>4. pc' = "done" =>
            result' \in Results \ {"none"} /\ Contract!Truthful(result', mishaps')
    BY <1>2 DEF AgentUnregistered, Unwind, FirstOwed, CallTypeOK
  <2> QED BY <2>1, <2>2, <2>3, <2>4
<1>3. CASE DiscoveryStopped
  <2>1. Running /\ pc' # "idle" /\ entry' = entry
    BY <1>3 DEF DiscoveryStopped, Unwind, FirstOwed
  <2>2. mishaps' = mishaps
    BY <1>3 DEF DiscoveryStopped, Unwind, FirstOwed
  <2>3. UNCHANGED devVars \/ Contract!Removing \/ Contract!Trusting
    BY <1>3 DEF DiscoveryStopped, Unwind, FirstOwed
  <2>4. pc' = "done" =>
            result' \in Results \ {"none"} /\ Contract!Truthful(result', mishaps')
    BY <1>3 DEF DiscoveryStopped, Unwind, FirstOwed, CallTypeOK
  <2> QED BY <2>1, <2>2, <2>3, <2>4
<1> QED BY <1>1, <1>2, <1>3 DEF Cleanup

LEMMA CancelMaps == ASSUME IInv, Cancel PROVE CallStep
<1> USE DeviceFacts
    DEF CallStep, IInv, TypeOK, CallInv, devVars, Running, Results, BondTold, Verified,
         CallTold, MishapsTold, BeforePair, RemovalOwed, Promised, ForeignBond, Connection,
         OwedTypeOK, Rebuilding, Trying, Sent, Cleaning, Contract!Truthful,
         Contract!Failures, Contract!Verified, Contract!Removing, Contract!Trusting,
         Contract!MayRemove, Contract!MayTrust
<1>1. CASE CancelExisting
  <2>1. \/ UNCHANGED devVars
        \/ /\ dev'.trusted /\ dev'.bond = dev.bond /\ dev'.hogp = dev.hogp
           /\ UNCHANGED bondBy
    BY <1>1, DeviceTrusted DEF CancelExisting
  <2> QED BY <1>1, <2>1 DEF CancelExisting, Return
<1>2. CASE CancelRebuild
  BY <1>2, AbsentDevice DEF CancelRebuild, EndRebuild, Forgotten
<1>3. CASE CancelFresh
  <2>1. \/ UNCHANGED devVars
        \/ /\ dev'.trusted /\ dev'.bond = dev.bond /\ dev'.hogp = dev.hogp
           /\ UNCHANGED bondBy
    BY <1>3, DeviceTrusted DEF CancelFresh
  <2> QED BY <1>3, <2>1 DEF CancelFresh, Unwind, FirstOwed
<1>4. CASE CancelInCleanup
  BY <1>4, AbsentDevice DEF CancelInCleanup, Forgotten
<1> QED BY <1>1, <1>2, <1>3, <1>4 DEF Cancel

\* What BlueZ and other programs do between the calls and during them.
LEMMA BluezMaps == ASSUME IInv, Bluez PROVE [Contract!Next]_Contract!vars
<1> USE DeviceFacts
    DEF Frame, IInv, TypeOK, Running, BondTold, CallTold, OutcomeTold, MishapsTold, Verified
<1>1. CASE DeviceSeen
  BY <1>1, DeviceSeenEffect DEF Contract!vars
<1>2. CASE DeviceLost
  BY <1>2, DeviceLostEffect DEF Contract!vars, DeviceTypeOK
<1>3. CASE PairProgress
  <2>1. Running \/ "cut" \in mishaps
    BY <1>3, PairProgressEffect DEF CallInv, Connection, ReleasedOnExit
  <2>2. Contract!Running \/ "cut" \in MishapsTold
    BY <2>1, PairingAssumption DEF Contract!Running, CallTypeOK
  <2>3. Contract!Bonding
    BY <1>3, PairProgressEffect DEF Contract!Bonding
  <2>4. UNCHANGED <<CallTold, OutcomeTold, MishapsTold>>
    BY <1>3, PairProgressEffect
  <2> QED BY <2>2, <2>3, <2>4 DEF Contract!Works, Contract!Next
<1>4. CASE ServicesResolve
  <2>1. UNCHANGED <<bondBy, dev.trusted, CallTold, OutcomeTold, MishapsTold>>
    BY <1>4, ServicesResolveEffect
  <2>2. BondTold' = BondTold \/ (BondTold = "some" /\ BondTold' = "verified")
    BY <1>4, ServicesResolveEffect
  <2> QED BY <2>1, <2>2 DEF Contract!vars, Contract!Resolves, Contract!Others, Contract!Next
<1>5. CASE ServiceExported
  BY <1>5, ServiceExportedEffect DEF Contract!vars
<1>6. CASE LinkDrops
  BY <1>6, LinkDropsEffect DEF Contract!vars
<1>7. CASE OtherPairs
  <2>1. /\ BondTold = "none" /\ BondTold' \in {"some", "verified"} /\ bondBy' = "other"
        /\ UNCHANGED <<dev.trusted, CallTold, OutcomeTold>>
    BY <1>7, OtherPairsEffect
  <2>2. Contract!Mishap("overtaken")
    BY <1>7, OtherPairsEffect, PairingAssumption
       DEF Contract!Mishap, Contract!Running, CallTypeOK
  <2> QED BY <2>1, <2>2 DEF Contract!OtherPairs, Contract!Others, Contract!Next
<1>8. CASE OtherRemoves
  <2>1. /\ BondTold' = "none" /\ bondBy' = "none" /\ dev'.trusted = FALSE
        /\ UNCHANGED <<CallTold, OutcomeTold>>
    BY <1>8, OtherRemovesEffect
  <2>2. Contract!Mishap("removed")
    BY <1>8, OtherRemovesEffect, PairingAssumption
       DEF Contract!Mishap, Contract!Running, CallTypeOK
  <2> QED BY <2>1, <2>2 DEF Contract!OtherRemoves, Contract!Others, Contract!Next
<1> QED BY <1>1, <1>2, <1>3, <1>4, <1>5, <1>6, <1>7, <1>8 DEF Bluez

\* A call starts, and may be over at once.
LEMMA BeginMaps == ASSUME IInv, Begin PROVE Contract!Starts(entry') /\ entry' \in Entries
<1> USE DEF IInv, TypeOK, Running, BondTold, CallTold, OutcomeTold, MishapsTold, Verified
<1>1. /\ ~Running /\ entry' \in Entries /\ UNCHANGED dev /\ mishaps' = {}
      /\ bondBy' = IF bondBy = "none" THEN "none" ELSE "other"
  BY DEF Begin
<1>2. \/ pc' \in {"openFresh", "openRebuild", "waitExisting", "openTrust"}
      \/ pc' = "done" /\ result' = "notfound" /\ ~dev.present
      \/ pc' = "done" /\ result' = "stale"
      \/ pc' = "done" /\ result' = "reused" /\ Verified /\ dev.trusted
  <2>1. CASE entry' = "rebuild"
    BY <2>1, DeviceFacts DEF Begin
  <2>2. CASE entry' # "rebuild"
    <3>1. Lookup(entry' = "replace")
      BY <2>2 DEF Begin
    <3> QED BY <3>1, LookupLeads
  <2> QED BY <2>1, <2>2
<1>3. /\ ~Contract!Running /\ MishapsTold' = {} /\ UNCHANGED <<BondTold, dev.trusted>>
  BY <1>1, <1>2, PairingAssumption DEF Contract!Running
<1>4. CASE pc' # "done"
  BY <1>1, <1>2, <1>3, <1>4 DEF Contract!Starts
<1>5. CASE pc' = "done"
  <2>1. /\ CallTold' = "done" /\ OutcomeTold' \in {"reused", "stale", "notfound"}
        /\ OutcomeTold' = "notfound" => BondTold = "none"
    BY <1>2, <1>5, DeviceFacts
  <2>2. Contract!Truthful(OutcomeTold', {})
    BY <1>1, <1>2, <1>5, <2>1, DeviceFacts
       DEF Contract!Truthful, Contract!Verified, Contract!Failures
  <2> QED BY <1>1, <1>3, <2>1, <2>2 DEF Contract!Starts
<1> QED BY <1>1, <1>4, <1>5

\* Whatever the kinds and the number of the calls, BlueZ's pace, its refusals, the
\* closing of the flow and other programs: the calls keep the contract that the set-up
\* and the rebuild flow rely on (pairing.py 430-699).
THEOREM Refines == Spec => KeepsContract
<1>1. Init => Contract!Init
  BY DEF Init, Contract!Init, Contract!Bonds, BondTold, CallTold, OutcomeTold, MishapsTold,
         Running, Verified, Devices
<1>2. IInv /\ IInv' /\ [Next]_vars => [Contract!Next]_Contract!vars
  <2> SUFFICES ASSUME IInv, IInv', [Next]_vars PROVE [Contract!Next]_Contract!vars
    OBVIOUS
  <2>1. CASE Begin
    BY <2>1, BeginMaps DEF Contract!Next
  <2>2. CASE Call \/ Cancel
    BY <2>2, ExistingMaps, RebuildMaps, FreshMaps, CleanupMaps, CancelMaps, CallStepMaps DEF Call
  <2>3. CASE Bluez
    BY <2>3, BluezMaps
  <2>4. CASE UNCHANGED vars
    BY <2>4 DEF vars, devVars, flowVars, Contract!vars, BondTold, CallTold, OutcomeTold,
           MishapsTold, Running, Verified
  <2> QED BY <2>1, <2>2, <2>3, <2>4 DEF Next
<1> QED BY <1>1, <1>2, Invariant, PTL DEF Spec, KeepsContract, Contract!Spec
=============================================================================
