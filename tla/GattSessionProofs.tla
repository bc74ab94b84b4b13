-------------------------- MODULE GattSessionProofs --------------------------
(* Machine-checked safety of GattSession for every set of characteristics,   *)
(* any number of concurrent mapping and retry tasks and of delays, and       *)
(* whether or not reconnections overtake the tasks of the old connection.    *)
EXTENDS GattSession, FiniteSetTheorems, TLAPS

USE DEF Tasks
USE TaskAssumption

\* What Return, AfterNotifications, EnterNotifications and NextPath assign.
LocalType ==
  /\ pc \in [Tasks -> Positions]
  /\ todo \in [Tasks -> SUBSET Paths]
  /\ flight \in [Tasks -> SUBSET Paths]
  /\ hid \in [Tasks -> BOOLEAN]
  /\ probe \in [RetryTasks -> 0 .. Probes]
  /\ retry \in RetryTasks \cup {NoTask}
  /\ outcome \in {"none", "complete", "incomplete", "exhausted"}

LEMMA ReturnType ==
  ASSUME TypeOK, NEW t \in Tasks, NEW c, Return(t, c)
  PROVE  LocalType'
<1>1. /\ todo' \in [Tasks -> SUBSET Paths]
      /\ flight' \in [Tasks -> SUBSET Paths]
      /\ hid' \in [Tasks -> BOOLEAN]
      /\ outcome' \in {"none", "complete", "incomplete", "exhausted"}
  BY DEF Return, TypeOK
<1>2. /\ pc' \in [Tasks -> Positions]
      /\ probe' \in [RetryTasks -> 0 .. Probes]
      /\ retry' \in RetryTasks \cup {NoTask}
  <2>1. CASE t \in MapTasks
    BY <2>1, ProbesAssumption DEF Return, EndMapTask, TypeOK, Positions
  <2>2. CASE t \in RetryTasks
    BY <2>2, ProbesAssumption
    DEF Return, EndProbe, LastDelay, NextDelay, TypeOK, Positions
  <2> QED
    BY <2>1, <2>2
<1> QED
  BY <1>1, <1>2 DEF LocalType

LEMMA AfterType ==
  ASSUME TypeOK, NEW t \in Tasks, AfterNotifications(t)
  PROVE  LocalType'
<1>1. CASE Return(t, Mapped(t))
  BY <1>1, ReturnType
<1>2. CASE pc' = [pc EXCEPT ![t] = "caps"] /\ ~Return(t, Mapped(t))
  BY <1>2 DEF AfterNotifications, TypeOK, LocalType, Positions
<1> QED
  BY <1>1, <1>2 DEF AfterNotifications

LEMMA EnterType ==
  ASSUME TypeOK, NEW t \in Tasks, NEW ps \in SUBSET Paths, NEW c,
         EnterNotifications(t, ps, c)
  PROVE  LocalType'
<1>1. CASE Return(t, c)
  BY <1>1, ReturnType
<1>2. CASE ~Return(t, c)
  BY <1>2 DEF EnterNotifications, TypeOK, LocalType, Positions
<1> QED
  BY <1>1, <1>2

LEMMA NextPathType ==
  ASSUME TypeOK, NEW t \in Tasks, NEW have, NextPath(t, have)
  PROVE  LocalType' /\ lock' \in Tasks \cup {NoTask, Stop}
<1>1. CASE AfterNotifications(t) /\ lock' = NoTask
  BY <1>1, AfterType
<1>2. CASE ~(AfterNotifications(t) /\ lock' = NoTask)
  BY <1>2 DEF NextPath, TypeOK, LocalType, Positions
<1> QED
  BY <1>1, <1>2

LEMMA TypeInit == Init => TypeOK
<1> SUFFICES ASSUME Init PROVE TypeOK
  OBVIOUS
<1>1. pc \in [Tasks -> Positions]
  BY DEF Init, Positions
<1>2. probe \in [RetryTasks -> 0 .. Probes]
  BY ProbesAssumption DEF Init
<1>3. /\ todo \in [Tasks -> SUBSET Paths]
      /\ flight \in [Tasks -> SUBSET Paths]
      /\ hid \in [Tasks -> BOOLEAN]
  BY DEF Init
<1> QED
  BY <1>1, <1>2, <1>3 DEF Init, TypeOK

LEMMA TypeMapping ==
  ASSUME TypeOK, NEW t \in Tasks, Mapping(t)
  PROVE  TypeOK'
<1> USE DEF bluez, shared, unloading, local, history
<1>1. CASE ServicesFail(t)
  BY <1>1, ReturnType DEF ServicesFail, LocalType, TypeOK
<1>2. ASSUME NEW ps \in SUBSET Paths, NEW v \in BOOLEAN, HidFound(t, ps, v)
      PROVE  TypeOK'
  BY <1>2 DEF HidFound, TypeOK, Positions
<1>3. ASSUME NEW ps \in SUBSET Paths, NEW v \in BOOLEAN, NoHidFound(t, ps, v)
      PROVE  TypeOK'
  BY <1>3, EnterType DEF NoHidFound, LocalType, TypeOK
<1>4. ASSUME NEW b \in BOOLEAN, ReadReportMap(t, b)
      PROVE  TypeOK'
  BY <1>4 DEF ReadReportMap, TypeOK, Positions
<1>5. CASE ReadReferences(t)
  <2>1. todo[t] \in SUBSET Paths
    BY DEF TypeOK
  <2>2. LocalType'
    BY <1>5, <2>1, EnterType DEF ReadReferences
  <2> QED
    BY <1>5, <2>2 DEF ReadReferences, LocalType, TypeOK
<1>6. CASE TakeLock(t)
  BY <1>6, NextPathType DEF TakeLock, LocalType, TypeOK
<1>7. CASE StartRefused(t)
  BY <1>7, NextPathType DEF StartRefused, LocalType, TypeOK
<1>8. CASE StartAccepted(t)
  BY <1>8, NextPathType DEF StartAccepted, LocalType, TypeOK
<1>9. CASE StartTooLate(t)
  BY <1>9 DEF StartTooLate, TypeOK, Positions
<1>10. CASE LateReleased(t)
  BY <1>10, AfterType DEF LateReleased, StopFails, LocalType, TypeOK
<1>11. ASSUME NEW b \in BOOLEAN, CapsWritten(t, b)
       PROVE  TypeOK'
  BY <1>11, ReturnType DEF CapsWritten, LocalType, TypeOK
<1>12. CASE t \in RetryTasks /\ Wake(t)
  BY <1>12, ProbesAssumption DEF Wake, TypeOK, Positions
<1>13. CASE Unwind(t)
  BY <1>13, ProbesAssumption DEF Unwind, StopFails, Unlock, TypeOK, Positions
<1> QED
  BY <1>1, <1>2, <1>3, <1>4, <1>5, <1>6, <1>7, <1>8, <1>9, <1>10, <1>11,
     <1>12, <1>13 DEF Mapping

LEMMA CancelType ==
  ASSUME TypeOK, NEW ts \in SUBSET Tasks, CancelTasks(ts)
  PROVE  /\ cancelled' \in SUBSET Tasks
         /\ orphans' \in SUBSET Paths
         /\ leaked' \in SUBSET Paths
BY DEF CancelTasks, TypeOK

LEMMA TypeOthers ==
  ASSUME TypeOK, BlueZ \/ Unloading
  PROVE  TypeOK'
<1> USE DEF bluez, shared, unloading, local, history
<1>1. ASSUME NEW t \in Tasks, StartAnswered(t)
      PROVE  TypeOK'
  BY <1>1 DEF StartAnswered, TypeOK, Positions
<1>2. ASSUME NEW p \in Paths, OrphanAnswered(p)
      PROVE  TypeOK'
  BY <1>2 DEF OrphanAnswered, TypeOK
<1>3. CASE Connect
  BY <1>3 DEF Connect, TypeOK, Positions
<1>4. CASE Disconnect
  BY <1>4 DEF Disconnect, RetryTask, LiveTasks, TypeOK, Positions
<1>5. CASE StopBegins
  <2>1. RetryTask \in SUBSET Tasks
    BY DEF RetryTask, LiveTasks
  <2> QED
    BY <1>5, <2>1, CancelType DEF StopBegins, TypeOK
<1>6. CASE StopFlagged
  BY <1>6 DEF StopFlagged, TypeOK
<1>7. CASE StopTakesLock
  BY <1>7 DEF StopTakesLock, TypeOK
<1>8. ASSUME NEW p \in Paths, StopReleases(p)
      PROVE  TypeOK'
  BY <1>8 DEF StopReleases, StopFails, TypeOK
<1>9. CASE HaCancels
  <2>1. LiveTasks \in SUBSET Tasks
    BY DEF LiveTasks
  <2> QED
    BY <1>9, <2>1, CancelType DEF HaCancels, TypeOK
<1> QED
  BY <1>1, <1>2, <1>3, <1>4, <1>5, <1>6, <1>7, <1>8, <1>9 DEF BlueZ, Unloading

LEMMA TypeStep == TypeOK /\ [Next]_vars => TypeOK'
<1>1. TypeOK /\ UNCHANGED vars => TypeOK'
  BY DEF vars, bluez, shared, unloading, local, history, TypeOK
<1> QED
  BY <1>1, TypeMapping, TypeOthers DEF Next

\* Every variable of the session keeps to its type in every run.
THEOREM TypeCorrect == Spec => []TypeOK
BY TypeInit, TypeStep, PTL DEF Spec

-----------------------------------------------------------------------------
(* Ownership of subscriptions.  Whoever is between asking for one and       *)
(* recording it holds the lock, so at most one is unrecorded.               *)

Critical == {"starting", "started", "refused", "late"}

LockHeld ==
  /\ \A t \in Tasks : pc[t] \in Critical => lock = t
  /\ unload = "releasing" => lock = Stop
  /\ unload # "releasing" => releasing = {}

LinkDown ==
  ~link => /\ subs = {} /\ orphans = {}
           /\ \A t \in Tasks : pc[t] # "starting"

CallersLost ==
  /\ orphans \subseteq leaked
  /\ \A t \in cancelled :
       pc[t] = "started" => flight[t] \cap subs \subseteq leaked

OwnedInv ==
  TypeOK /\ LockHeld /\ LinkDown /\ CallersLost /\ EverySubscriptionOwned

\* What a step of t does to the other tasks: it may start or end one that is
\* outside the critical section.
Leaves(t) ==
  /\ pc' \in [Tasks -> Positions]
  /\ pc'[t] \notin Critical
  /\ \A u \in Tasks \ {t} :
       /\ flight'[u] = flight[u]
       /\ pc'[u] = pc[u] \/ {pc[u], pc'[u]} \cap Critical = {}

Asks(t) ==
  /\ pc' = [pc EXCEPT ![t] = "starting"]
  /\ \A u \in Tasks \ {t} : flight'[u] = flight[u]
  /\ lock' = t
  /\ link

LEMMA ReturnLeaves ==
  ASSUME TypeOK, NEW t \in Tasks, NEW c, Return(t, c)
  PROVE  Leaves(t)
<1>1. pc' \in [Tasks -> Positions]
  BY ReturnType DEF LocalType
<1>2. \A u \in Tasks \ {t} : flight'[u] = flight[u]
  BY DEF Return, TypeOK
<1>3. CASE t \in MapTasks
  BY <1>1, <1>2, <1>3 DEF Return, EndMapTask, Leaves, Live, Critical, TypeOK
<1>4. CASE t \in RetryTasks
  BY <1>1, <1>2, <1>4 DEF Return, EndProbe, Leaves, Critical, TypeOK
<1> QED
  BY <1>3, <1>4

LEMMA AfterLeaves ==
  ASSUME TypeOK, NEW t \in Tasks, AfterNotifications(t)
  PROVE  Leaves(t)
<1>1. CASE Return(t, Mapped(t))
  BY <1>1, ReturnLeaves
<1>2. CASE ~Return(t, Mapped(t))
  BY <1>2 DEF AfterNotifications, Leaves, Critical, Positions, TypeOK
<1> QED
  BY <1>1, <1>2

LEMMA EnterLeaves ==
  ASSUME TypeOK, NEW t \in Tasks, NEW ps, NEW c, EnterNotifications(t, ps, c)
  PROVE  Leaves(t)
<1>1. CASE Return(t, c)
  BY <1>1, ReturnLeaves
<1>2. CASE ~Return(t, c)
  BY <1>2 DEF EnterNotifications, Leaves, Critical, Positions, TypeOK
<1> QED
  BY <1>1, <1>2

LEMMA NextPathMoves ==
  ASSUME TypeOK, NEW t \in Tasks, NEW have, NextPath(t, have)
  PROVE  Asks(t) \/ (Leaves(t) /\ lock' = NoTask)
<1>1. CASE AfterNotifications(t) /\ lock' = NoTask
  BY <1>1, AfterLeaves
<1>2. CASE ~(AfterNotifications(t) /\ lock' = NoTask)
  BY <1>2 DEF NextPath, Asks, Connected, TypeOK
<1> QED
  BY <1>1, <1>2

\* A step of t that was outside the critical section and stays outside.
LEMMA QuietStep ==
  ASSUME OwnedInv, NEW t \in Tasks, Leaves(t), pc[t] \notin Critical,
         UNCHANGED <<link, subs, orphans, tracked, lock, unload, releasing,
                     cancelled, leaked>>
  PROVE  LockHeld' /\ LinkDown' /\ CallersLost' /\ EverySubscriptionOwned'
<1>1. \A u \in Tasks : pc'[u] \in Critical =>
         pc'[u] = pc[u] /\ flight'[u] = flight[u]
  BY DEF Leaves
<1>2. \A u \in Tasks : pc[u] \in Critical => pc'[u] = pc[u]
  BY DEF Leaves
<1>3. LockHeld'
  BY <1>1 DEF OwnedInv, LockHeld
<1>4. LinkDown'
  BY <1>1 DEF OwnedInv, LinkDown, Critical
<1>5. CallersLost'
  BY <1>1 DEF OwnedInv, CallersLost, Critical, TypeOK
<1>6. InHand' = InHand /\ \A u \in InHand : flight'[u] = flight[u]
  BY <1>1, <1>2 DEF InHand, Critical
<1>7. EverySubscriptionOwned'
  BY <1>6 DEF OwnedInv, EverySubscriptionOwned
<1> QED
  BY <1>3, <1>4, <1>5, <1>7

\* A step of t inside the critical section: the next StartNotify, or the end.
LEMMA LockStep ==
  ASSUME OwnedInv, NEW t \in Tasks, t \notin cancelled,
         Asks(t) \/ (Leaves(t) /\ lock' = NoTask),
         pc[t] \in Critical \/ lock = NoTask,
         subs' \subseteq subs, tracked \subseteq tracked',
         pc[t] \in {"started", "late"} =>
           flight[t] \cap subs' \subseteq tracked' \cup leaked',
         leaked \subseteq leaked',
         UNCHANGED <<link, orphans, unload, releasing, cancelled>>
  PROVE  LockHeld' /\ LinkDown' /\ CallersLost' /\ EverySubscriptionOwned'
<1>1. \A u \in Tasks \ {t} : pc[u] \notin Critical
  BY DEF OwnedInv, LockHeld
<1>2. \A u \in Tasks \ {t} : pc'[u] \notin Critical
  BY <1>1 DEF Asks, Leaves, OwnedInv, TypeOK
<1>3. unload # "releasing"
  BY DEF OwnedInv, LockHeld
<1>4. LockHeld'
  BY <1>2, <1>3 DEF OwnedInv, LockHeld, Asks, Leaves
<1>5. LinkDown'
  BY <1>2 DEF OwnedInv, LinkDown, Asks, Leaves, Critical
<1>6. CallersLost'
  BY <1>2 DEF OwnedInv, CallersLost, Critical, TypeOK
<1>7. EverySubscriptionOwned'
  <2>1. InHand \subseteq {t}
    BY <1>1 DEF InHand, Critical
  <2>2. subs' \subseteq tracked' \cup releasing' \cup leaked'
    BY <2>1 DEF OwnedInv, EverySubscriptionOwned, InHand
  <2> QED
    BY <2>2 DEF EverySubscriptionOwned
<1> QED
  BY <1>4, <1>5, <1>6, <1>7

LEMMA OwnedMapping ==
  ASSUME OwnedInv, NEW t \in Tasks, Mapping(t)
  PROVE  LockHeld' /\ LinkDown' /\ CallersLost' /\ EverySubscriptionOwned'
<1> USE DEF bluez, shared, unloading, local, history, Runs
<1>0. TypeOK
  BY DEF OwnedInv
<1>1. CASE ServicesFail(t)
  BY <1>0, <1>1, ReturnLeaves, QuietStep DEF ServicesFail, Critical
<1>2. ASSUME NEW ps \in SUBSET Paths, NEW v \in BOOLEAN, HidFound(t, ps, v)
      PROVE  LockHeld' /\ LinkDown' /\ CallersLost' /\ EverySubscriptionOwned'
  <2>1. Leaves(t)
    BY <1>0, <1>2 DEF HidFound, Leaves, Critical, Positions, TypeOK
  <2> QED
    BY <1>2, <2>1, QuietStep DEF HidFound, Critical
<1>3. ASSUME NEW ps \in SUBSET Paths, NEW v \in BOOLEAN, NoHidFound(t, ps, v)
      PROVE  LockHeld' /\ LinkDown' /\ CallersLost' /\ EverySubscriptionOwned'
  BY <1>0, <1>3, EnterLeaves, QuietStep DEF NoHidFound, Critical
<1>4. ASSUME NEW b \in BOOLEAN, ReadReportMap(t, b)
      PROVE  LockHeld' /\ LinkDown' /\ CallersLost' /\ EverySubscriptionOwned'
  <2>1. Leaves(t)
    BY <1>0, <1>4 DEF ReadReportMap, Leaves, Critical, Positions, TypeOK
  <2> QED
    BY <1>4, <2>1, QuietStep DEF ReadReportMap, Critical
<1>5. CASE ReadReferences(t)
  BY <1>0, <1>5, EnterLeaves, QuietStep DEF ReadReferences, Critical
<1>6. CASE TakeLock(t)
  BY <1>0, <1>6, NextPathMoves, LockStep DEF TakeLock
<1>7. CASE StartRefused(t)
  BY <1>0, <1>7, NextPathMoves, LockStep DEF StartRefused, Critical
<1>8. CASE StartAccepted(t)
  BY <1>0, <1>8, NextPathMoves, LockStep DEF StartAccepted, Critical
<1>9. CASE StartTooLate(t)
  <2>1. pc' = [pc EXCEPT ![t] = "late"] /\ pc[t] = "started"
    BY <1>9 DEF StartTooLate
  <2>2. InHand' = InHand
    BY <1>0, <2>1 DEF InHand, TypeOK
  <2>3. EverySubscriptionOwned'
    BY <1>9, <2>2 DEF StartTooLate, OwnedInv, EverySubscriptionOwned
  <2> QED
    BY <1>0, <1>9, <2>1, <2>3
    DEF StartTooLate, OwnedInv, LockHeld, LinkDown, CallersLost, Critical, TypeOK
<1>10. CASE LateReleased(t)
  BY <1>0, <1>10, AfterLeaves, LockStep
  DEF LateReleased, StopFails, GivenBack, Critical
<1>11. ASSUME NEW b \in BOOLEAN, CapsWritten(t, b)
       PROVE  LockHeld' /\ LinkDown' /\ CallersLost' /\ EverySubscriptionOwned'
  BY <1>0, <1>11, ReturnLeaves, QuietStep DEF CapsWritten, Critical
<1>12. CASE t \in RetryTasks /\ Wake(t)
  <2>1. Leaves(t)
    BY <1>0, <1>12 DEF Wake, Leaves, Critical, Positions, TypeOK
  <2> QED
    BY <1>12, <2>1, QuietStep DEF Wake, Critical
<1>13. CASE Unwind(t)
  <2>1. /\ t \in cancelled /\ cancelled' = cancelled \ {t}
        /\ pc' = [pc EXCEPT ![t] = "free"]
        /\ flight' = [flight EXCEPT ![t] = {}]
        /\ lock' = Unlock(t)
        /\ subs' \subseteq subs /\ leaked \subseteq leaked'
        /\ pc[t] = "late" => flight[t] \cap subs' \subseteq leaked'
        /\ UNCHANGED <<link, orphans, tracked, unload, releasing>>
    BY <1>13 DEF Unwind, StopFails
  <2>2. LockHeld'
    BY <1>0, <2>1 DEF OwnedInv, LockHeld, Unlock, Critical, TypeOK
  <2>3. LinkDown'
    BY <1>0, <2>1 DEF OwnedInv, LinkDown, TypeOK
  <2>4. CallersLost'
    BY <1>0, <2>1 DEF OwnedInv, CallersLost, TypeOK
  <2>5. pc[t] \in {"started", "late"} => flight[t] \cap subs' \subseteq leaked'
    BY <2>1 DEF OwnedInv, CallersLost
  <2>6. \A u \in Tasks \ {t} :
           u \in InHand => u \in InHand' /\ flight'[u] = flight[u]
    BY <1>0, <2>1 DEF InHand, TypeOK
  <2>7. EverySubscriptionOwned'
    <3> SUFFICES ASSUME NEW p \in subs'
                 PROVE  \/ p \in tracked \cup releasing \cup leaked'
                        \/ \E u \in InHand' : p \in flight'[u]
      BY <2>1 DEF EverySubscriptionOwned
    <3>1. p \in subs
      BY <2>1
    <3>2. \/ p \in tracked \cup releasing \cup leaked
          \/ \E u \in InHand : p \in flight[u]
      BY <3>1 DEF OwnedInv, EverySubscriptionOwned
    <3> QED
      BY <3>2, <2>1, <2>5, <2>6 DEF InHand
  <2> QED
    BY <2>2, <2>3, <2>4, <2>7
<1> QED
  BY <1>1, <1>2, <1>3, <1>4, <1>5, <1>6, <1>7, <1>8, <1>9, <1>10, <1>11,
     <1>12, <1>13 DEF Mapping

\* cancel() on some tasks: what a call in flight brings is marked as leaked.
LEMMA CancelStep ==
  ASSUME OwnedInv, NEW ts \in SUBSET Tasks, CancelTasks(ts),
         UNCHANGED <<link, subs, tracked, lock, releasing, pc, flight>>,
         unload' = unload \/ "releasing" \notin {unload, unload'}
  PROVE  LockHeld' /\ LinkDown' /\ CallersLost' /\ EverySubscriptionOwned'
<1>1. LockHeld'
  BY DEF OwnedInv, LockHeld
<1>2. LinkDown'
  BY DEF OwnedInv, LinkDown, CancelTasks
<1>3. CallersLost'
  BY DEF OwnedInv, CallersLost, CancelTasks
<1>4. EverySubscriptionOwned'
  BY DEF OwnedInv, EverySubscriptionOwned, CancelTasks, InHand
<1> QED
  BY <1>1, <1>2, <1>3, <1>4

LEMMA OwnedOthers ==
  ASSUME OwnedInv, BlueZ \/ Unloading
  PROVE  LockHeld' /\ LinkDown' /\ CallersLost' /\ EverySubscriptionOwned'
<1> USE DEF bluez, shared, unloading, local, history
<1>0. TypeOK
  BY DEF OwnedInv
<1>1. ASSUME NEW t \in Tasks, StartAnswered(t)
      PROVE  LockHeld' /\ LinkDown' /\ CallersLost' /\ EverySubscriptionOwned'
  <2>1. link /\ lock = t /\ \A u \in Tasks \ {t} : pc[u] \notin Critical
    BY <1>1 DEF StartAnswered, OwnedInv, LinkDown, LockHeld, Critical
  <2>2. LockHeld' /\ LinkDown'
    BY <1>0, <1>1, <2>1
    DEF StartAnswered, OwnedInv, LinkDown, LockHeld, Critical, TypeOK
  <2>3. CallersLost'
    BY <1>0, <1>1, <2>1
    DEF StartAnswered, OwnedInv, CallersLost, Critical, TypeOK
  <2>4. InHand = {}
    BY <1>1, <2>1 DEF StartAnswered, InHand, Critical
  <2>5. subs' = subs \/ (t \in InHand' /\ subs' = subs \cup flight'[t])
    BY <1>0, <1>1 DEF StartAnswered, InHand, TypeOK
  <2>6. EverySubscriptionOwned'
    BY <1>1, <2>4, <2>5 DEF StartAnswered, OwnedInv, EverySubscriptionOwned
  <2> QED
    BY <2>2, <2>3, <2>6
<1>2. ASSUME NEW p \in Paths, OrphanAnswered(p)
      PROVE  LockHeld' /\ LinkDown' /\ CallersLost' /\ EverySubscriptionOwned'
  BY <1>2 DEF OrphanAnswered, OwnedInv, LockHeld, LinkDown, CallersLost,
              EverySubscriptionOwned, InHand
<1>3. CASE Connect
  <2>1. /\ ~link /\ link' /\ pc' \in [Tasks -> Positions]
        /\ \A u \in Tasks :
             pc'[u] = pc[u] \/ (pc[u] = "free" /\ pc'[u] = "services")
        /\ UNCHANGED <<subs, orphans, tracked, lock, unload, releasing, flight,
                       cancelled, leaked>>
    BY <1>0, <1>3 DEF Connect, Live, TypeOK, Positions
  <2>2. LockHeld' /\ LinkDown' /\ CallersLost'
    BY <1>0, <2>1
    DEF OwnedInv, LockHeld, LinkDown, CallersLost, Critical, TypeOK
  <2>3. subs' = {}
    BY <2>1 DEF OwnedInv, LinkDown
  <2> QED
    BY <2>2, <2>3 DEF EverySubscriptionOwned
<1>4. CASE Disconnect
  <2>1. /\ ~link' /\ subs' = {} /\ orphans' = {} /\ leaked' = {}
        /\ pc' = [t \in Tasks |-> IF pc[t] = "starting" THEN "refused" ELSE pc[t]]
        /\ UNCHANGED <<lock, unload, releasing>>
    BY <1>4 DEF Disconnect
  <2> QED
    BY <1>0, <2>1 DEF OwnedInv, LockHeld, LinkDown, CallersLost, Critical,
                      EverySubscriptionOwned, TypeOK
<1>5. CASE StopBegins
  <2>1. RetryTask \in SUBSET Tasks
    BY DEF RetryTask, LiveTasks
  <2> QED
    BY <1>5, <2>1, CancelStep DEF StopBegins
<1>6. CASE StopFlagged
  BY <1>6 DEF StopFlagged, OwnedInv, LockHeld, LinkDown, CallersLost,
              EverySubscriptionOwned, InHand
<1>7. CASE StopTakesLock
  <2>1. \A t \in Tasks : pc[t] \notin Critical
    BY <1>7 DEF StopTakesLock, OwnedInv, LockHeld
  <2>2. LockHeld' /\ LinkDown' /\ CallersLost'
    BY <1>7, <2>1 DEF StopTakesLock, OwnedInv, LockHeld, LinkDown, CallersLost
  <2>3. EverySubscriptionOwned'
    BY <1>7
    DEF StopTakesLock, OwnedInv, LockHeld, LinkDown, EverySubscriptionOwned, InHand
  <2> QED
    BY <2>2, <2>3
<1>8. ASSUME NEW p \in Paths, StopReleases(p)
      PROVE  LockHeld' /\ LinkDown' /\ CallersLost' /\ EverySubscriptionOwned'
  <2>1. \A t \in Tasks : pc[t] \notin Critical
    BY <1>8 DEF StopReleases, OwnedInv, LockHeld
  <2>2. LockHeld' /\ LinkDown' /\ CallersLost'
    BY <1>8, <2>1
    DEF StopReleases, StopFails, OwnedInv, LockHeld, LinkDown, CallersLost
  <2>3. EverySubscriptionOwned'
    BY <1>8
    DEF StopReleases, StopFails, OwnedInv, EverySubscriptionOwned, InHand
  <2> QED
    BY <2>2, <2>3
<1>9. CASE HaCancels
  <2>1. LiveTasks \in SUBSET Tasks
    BY DEF LiveTasks
  <2> QED
    BY <1>9, <2>1, CancelStep DEF HaCancels
<1> QED
  BY <1>1, <1>2, <1>3, <1>4, <1>5, <1>6, <1>7, <1>8, <1>9 DEF BlueZ, Unloading

LEMMA OwnedInit == Init => OwnedInv
<1> SUFFICES ASSUME Init PROVE OwnedInv
  OBVIOUS
<1>1. \A t \in Tasks : pc[t] \in {"free", "services"}
  BY DEF Init
<1> QED
  BY <1>1, TypeInit DEF Init, OwnedInv, LockHeld, LinkDown, CallersLost,
                        EverySubscriptionOwned, Critical

LEMMA OwnedStep == OwnedInv /\ [Next]_vars => OwnedInv'
<1> SUFFICES ASSUME OwnedInv, [Next]_vars PROVE OwnedInv'
  OBVIOUS
<1>1. TypeOK'
  BY TypeStep DEF OwnedInv
<1>2. CASE Next
  BY <1>1, <1>2, OwnedMapping, OwnedOthers DEF Next, OwnedInv
<1>3. CASE UNCHANGED vars
  BY <1>1, <1>3 DEF vars, bluez, shared, unloading, local, history, OwnedInv,
     LockHeld, LinkDown, CallersLost, EverySubscriptionOwned, InHand
<1> QED
  BY <1>2, <1>3

LEMMA Owned == Spec => []OwnedInv
BY OwnedInit, OwnedStep, PTL DEF Spec

\* A subscription never loses its owner, except by a cancelled StartNotify or a StopNotify
\* that BlueZ did not carry out (manager.py 945-1018).
THEOREM SubscriptionsOwned == Spec => []EverySubscriptionOwned
BY Owned, PTL DEF OwnedInv

-----------------------------------------------------------------------------
(* What the manager believes.  BlueZ grants a subscription that nobody      *)
(* tracks, and only the holder of the lock gives one back: one of its own,  *)
(* or, at the unload, one that is tracked no longer.                        *)

Granted ==
  /\ \A t \in Tasks : pc[t] \in Critical => flight[t] \cap tracked = {}
  /\ \A t \in Tasks : pc[t] = "started" /\ link => flight[t] \subseteq subs
  /\ unload \in {"releasing", "done"} => tracked = {}

BeliefInv == OwnedInv /\ Granted /\ TrackedIsSubscribed

\* The path that a task asks for next is not tracked.
LEMMA NextPathNew ==
  ASSUME TypeOK, NEW t \in Tasks, NEW have, NextPath(t, have)
  PROVE  pc'[t] = "starting" => flight'[t] \cap have = {}
<1>1. CASE AfterNotifications(t) /\ lock' = NoTask
  BY <1>1, AfterLeaves DEF Leaves, Critical
<1>2. CASE ~(AfterNotifications(t) /\ lock' = NoTask)
  BY <1>2 DEF NextPath, TypeOK
<1> QED
  BY <1>1, <1>2

\* A step of t outside the critical section.
LEMMA BeliefQuiet ==
  ASSUME BeliefInv, NEW t \in Tasks, Leaves(t), pc[t] \notin Critical,
         UNCHANGED <<link, subs, tracked, unload>>
  PROVE  Granted' /\ TrackedIsSubscribed'
<1>1. \A u \in Tasks : pc'[u] \in Critical =>
         pc'[u] = pc[u] /\ flight'[u] = flight[u]
  BY DEF Leaves
<1> QED
  BY <1>1 DEF BeliefInv, Granted, TrackedIsSubscribed, Critical

\* A step of t inside the critical section, which may track what it was granted or
\* give it back.
LEMMA BeliefLocked ==
  ASSUME BeliefInv, NEW t \in Tasks,
         Asks(t) \/ (Leaves(t) /\ lock' = NoTask),
         pc'[t] = "starting" => flight'[t] \cap tracked' = {},
         pc[t] \in Critical \/ lock = NoTask,
         tracked' \subseteq subs',
         unload \in {"releasing", "done"} => tracked' = tracked,
         UNCHANGED <<link, unload>>
  PROVE  Granted' /\ TrackedIsSubscribed'
<1>1. \A u \in Tasks \ {t} : pc[u] \notin Critical
  BY DEF BeliefInv, OwnedInv, LockHeld
<1>2. \A u \in Tasks \ {t} : pc'[u] \notin Critical
  BY <1>1 DEF Asks, Leaves, BeliefInv, OwnedInv, TypeOK
<1>3. pc'[t] \in Critical => pc'[t] = "starting"
  BY DEF Asks, Leaves, BeliefInv, OwnedInv, TypeOK
<1> QED
  BY <1>2, <1>3 DEF BeliefInv, Granted, TrackedIsSubscribed, Critical

LEMMA BeliefMapping ==
  ASSUME BeliefInv, NEW t \in Tasks, Mapping(t)
  PROVE  Granted' /\ TrackedIsSubscribed'
<1> USE DEF bluez, shared, unloading, local, history, Runs
<1>0. TypeOK /\ OwnedInv
  BY DEF BeliefInv, OwnedInv
<1>1. CASE ServicesFail(t)
  BY <1>0, <1>1, ReturnLeaves, BeliefQuiet DEF ServicesFail, Critical
<1>2. ASSUME NEW ps \in SUBSET Paths, NEW v \in BOOLEAN, HidFound(t, ps, v)
      PROVE  Granted' /\ TrackedIsSubscribed'
  <2>1. Leaves(t)
    BY <1>0, <1>2 DEF HidFound, Leaves, Critical, Positions, TypeOK
  <2> QED
    BY <1>2, <2>1, BeliefQuiet DEF HidFound, Critical
<1>3. ASSUME NEW ps \in SUBSET Paths, NEW v \in BOOLEAN, NoHidFound(t, ps, v)
      PROVE  Granted' /\ TrackedIsSubscribed'
  BY <1>0, <1>3, EnterLeaves, BeliefQuiet DEF NoHidFound, Critical
<1>4. ASSUME NEW b \in BOOLEAN, ReadReportMap(t, b)
      PROVE  Granted' /\ TrackedIsSubscribed'
  <2>1. Leaves(t)
    BY <1>0, <1>4 DEF ReadReportMap, Leaves, Critical, Positions, TypeOK
  <2> QED
    BY <1>4, <2>1, BeliefQuiet DEF ReadReportMap, Critical
<1>5. CASE ReadReferences(t)
  BY <1>0, <1>5, EnterLeaves, BeliefQuiet DEF ReadReferences, Critical
<1>6. CASE TakeLock(t)
  BY <1>0, <1>6, NextPathMoves, NextPathNew, BeliefLocked
  DEF TakeLock, BeliefInv, TrackedIsSubscribed
<1>7. CASE StartRefused(t)
  BY <1>0, <1>7, NextPathMoves, NextPathNew, BeliefLocked
  DEF StartRefused, BeliefInv, TrackedIsSubscribed, Critical
<1>8. CASE StartAccepted(t)
  <2>1. link /\ unload \notin {"releasing", "done"}
    BY <1>8 DEF StartAccepted, StillWanted, Connected, Stopping
  <2>2. flight[t] \subseteq subs
    BY <1>8, <2>1 DEF StartAccepted, BeliefInv, Granted
  <2>3. tracked' \subseteq subs'
    BY <1>8, <2>2 DEF StartAccepted, BeliefInv, TrackedIsSubscribed
  <2>4. pc'[t] = "starting" => flight'[t] \cap tracked' = {}
    BY <1>0, <1>8, NextPathNew DEF StartAccepted
  <2> QED
    BY <1>0, <1>8, <2>1, <2>3, <2>4, NextPathMoves, BeliefLocked
    DEF StartAccepted, Critical
<1>9. CASE StartTooLate(t)
  BY <1>0, <1>9
  DEF StartTooLate, BeliefInv, Granted, TrackedIsSubscribed, Critical, TypeOK
<1>10. CASE LateReleased(t)
  <2>1. flight[t] \cap tracked = {}
    BY <1>10 DEF LateReleased, BeliefInv, Granted, Critical
  <2>2. tracked' \subseteq subs'
    BY <1>10, <2>1
    DEF LateReleased, StopFails, GivenBack, BeliefInv, TrackedIsSubscribed
  <2> QED
    BY <1>0, <1>10, <2>2, AfterLeaves, BeliefLocked
    DEF LateReleased, Critical, Leaves
<1>11. ASSUME NEW b \in BOOLEAN, CapsWritten(t, b)
       PROVE  Granted' /\ TrackedIsSubscribed'
  BY <1>0, <1>11, ReturnLeaves, BeliefQuiet DEF CapsWritten, Critical
<1>12. CASE t \in RetryTasks /\ Wake(t)
  <2>1. Leaves(t)
    BY <1>0, <1>12 DEF Wake, Leaves, Critical, Positions, TypeOK
  <2> QED
    BY <1>12, <2>1, BeliefQuiet DEF Wake, Critical
<1>13. CASE Unwind(t)
  <2>1. /\ pc' = [pc EXCEPT ![t] = "free"]
        /\ flight' = [flight EXCEPT ![t] = {}]
        /\ \/ pc[t] = "late" /\ subs' = subs \ flight[t]
           \/ UNCHANGED subs
        /\ UNCHANGED <<link, tracked, unload>>
    BY <1>13 DEF Unwind, StopFails
  <2>2. TrackedIsSubscribed'
    BY <2>1 DEF BeliefInv, Granted, TrackedIsSubscribed, Critical
  <2>3. ASSUME NEW u \in Tasks, pc'[u] \in Critical
        PROVE  /\ u # t /\ pc'[u] = pc[u] /\ flight'[u] = flight[u]
               /\ subs' = subs
    <3>1. u # t /\ pc'[u] = pc[u] /\ flight'[u] = flight[u]
      BY <1>0, <2>1, <2>3 DEF TypeOK, Critical
    <3>2. pc[t] # "late"
      BY <1>0, <2>3, <3>1 DEF OwnedInv, LockHeld, Critical
    <3> QED
      BY <2>1, <3>1, <3>2
  <2>4. Granted'
    BY <2>1, <2>3 DEF BeliefInv, Granted, Critical
  <2> QED
    BY <2>2, <2>4
<1> QED
  BY <1>1, <1>2, <1>3, <1>4, <1>5, <1>6, <1>7, <1>8, <1>9, <1>10, <1>11,
     <1>12, <1>13 DEF Mapping

LEMMA BeliefOthers ==
  ASSUME BeliefInv, ~FastReconnect, BlueZ \/ Unloading
  PROVE  Granted' /\ TrackedIsSubscribed'
<1> USE DEF bluez, shared, unloading, local, history
<1>0. TypeOK /\ OwnedInv
  BY DEF BeliefInv, OwnedInv
<1>1. ASSUME NEW t \in Tasks, StartAnswered(t)
      PROVE  Granted' /\ TrackedIsSubscribed'
  BY <1>0, <1>1
  DEF StartAnswered, BeliefInv, Granted, TrackedIsSubscribed, Critical, TypeOK
<1>2. ASSUME NEW p \in Paths, OrphanAnswered(p)
      PROVE  Granted' /\ TrackedIsSubscribed'
  BY <1>2 DEF OrphanAnswered, BeliefInv, Granted, TrackedIsSubscribed
<1>3. CASE Connect
  <2>1. /\ \A u \in Tasks : pc'[u] \in {"free", "services"}
        /\ UNCHANGED <<subs, tracked, unload>>
    BY <1>0, <1>3 DEF Connect, Idle, LiveTasks, Live, TypeOK
  <2> QED
    BY <2>1 DEF BeliefInv, Granted, TrackedIsSubscribed, Critical
<1>4. CASE Disconnect
  <2>1. /\ ~link' /\ tracked' = {}
        /\ pc' = [t \in Tasks |-> IF pc[t] = "starting" THEN "refused" ELSE pc[t]]
    BY <1>4 DEF Disconnect, BeliefInv, Granted
  <2> QED
    BY <2>1 DEF Granted, TrackedIsSubscribed
<1>5. CASE StopBegins
  BY <1>5 DEF StopBegins, BeliefInv, Granted, TrackedIsSubscribed
<1>6. CASE StopFlagged
  BY <1>6 DEF StopFlagged, BeliefInv, Granted, TrackedIsSubscribed
<1>7. CASE StopTakesLock
  BY <1>7 DEF StopTakesLock, BeliefInv, Granted, TrackedIsSubscribed
<1>8. ASSUME NEW p \in Paths, StopReleases(p)
      PROVE  Granted' /\ TrackedIsSubscribed'
  <2>1. \A t \in Tasks : pc[t] \notin Critical
    BY <1>0, <1>8 DEF StopReleases, OwnedInv, LockHeld
  <2> QED
    BY <1>8, <2>1
    DEF StopReleases, BeliefInv, Granted, TrackedIsSubscribed, Critical
<1>9. CASE HaCancels
  BY <1>9 DEF HaCancels, BeliefInv, Granted, TrackedIsSubscribed
<1> QED
  BY <1>1, <1>2, <1>3, <1>4, <1>5, <1>6, <1>7, <1>8, <1>9 DEF BlueZ, Unloading

\* A path that the manager tracks, and so would not subscribe to again, is one that
\* BlueZ delivers notifications for, as long as the tasks of a connection end before
\* the next one is reported.
THEOREM BeliefIsTrue == ~FastReconnect => (Spec => []TrackedIsSubscribed)
<1> SUFFICES ASSUME ~FastReconnect PROVE Spec => []TrackedIsSubscribed
  OBVIOUS
<1>1. Init => BeliefInv
  <2> SUFFICES ASSUME Init PROVE BeliefInv
    OBVIOUS
  <2>1. \A t \in Tasks : pc[t] \in {"free", "services"}
    BY DEF Init
  <2> QED
    BY <2>1, OwnedInit DEF Init, BeliefInv, Granted, TrackedIsSubscribed, Critical
<1>2. BeliefInv /\ [Next]_vars => BeliefInv'
  <2> SUFFICES ASSUME BeliefInv, [Next]_vars PROVE BeliefInv'
    OBVIOUS
  <2>1. OwnedInv'
    BY OwnedStep DEF BeliefInv
  <2>2. CASE Next
    BY <2>1, <2>2, BeliefMapping, BeliefOthers DEF Next, BeliefInv
  <2>3. CASE UNCHANGED vars
    BY <2>1, <2>3 DEF vars, bluez, shared, unloading, local, history, BeliefInv,
       Granted, TrackedIsSubscribed
  <2> QED
    BY <2>2, <2>3
<1>3. BeliefInv => TrackedIsSubscribed
  BY DEF BeliefInv
<1> QED
  BY <1>1, <1>2, <1>3, PTL DEF Spec
-----------------------------------------------------------------------------
(* Who probes the connection.  The reference to the retry task is right     *)
(* while the entry is loaded: only tasks of this connection, none of them   *)
(* cancelled, change it.  A mapping that left no retry task behind left a   *)
(* better outcome.                                                          *)

CancelledLive == \A t \in cancelled : Live(t)

Alone ==
  unload = "loaded" =>
    \A r \in RetryTasks \ cancelled : Live(r) => link /\ retry = r

Followed ==
  unload = "loaded" /\ link =>
    /\ cancelled = {}
    /\ outcome = "none" => ~Idle
    /\ outcome = "incomplete" => \E r \in RetryTasks : Live(r)

ProbeInv == TypeOK /\ CancelledLive /\ Alone /\ Followed

\* A step of t between two awaits: t goes on, and nothing ends or begins.
Continues(t) ==
  /\ pc'[t] # "free"
  /\ \A u \in Tasks \ {t} : pc'[u] = pc[u]
  /\ UNCHANGED <<retry, outcome>>

LEMMA ProbeContinues ==
  ASSUME ProbeInv, NEW t \in Tasks, t \notin cancelled, Live(t), Continues(t),
         UNCHANGED <<link, unload, cancelled>>
  PROVE  CancelledLive' /\ Alone' /\ Followed'
<1>1. \A u \in Tasks : Live(u)' = Live(u)
  BY DEF Live, Continues
<1>2. LiveTasks' = LiveTasks
  BY <1>1 DEF LiveTasks
<1> QED
  BY <1>1, <1>2
  DEF ProbeInv, TypeOK, CancelledLive, Alone, Followed, Continues, Idle

\* A task that is not cancelled returns from its mapping.
LEMMA ProbeReturns ==
  ASSUME ProbeInv, NEW t \in Tasks, t \notin cancelled, Live(t), NEW c,
         Return(t, c), UNCHANGED <<link, unload, cancelled>>
  PROVE  CancelledLive' /\ Alone' /\ Followed'
<1>0. TypeOK /\ cancelled \subseteq Tasks
  BY DEF ProbeInv, TypeOK
<1>1. /\ outcome' = IF c THEN "complete"
                    ELSE IF t \in RetryTasks /\ LastDelay(t) THEN "exhausted"
                    ELSE "incomplete"
      /\ outcome' # "none"
  BY DEF Return
<1>2. CASE t \in MapTasks /\ pc' = [pc EXCEPT ![t] = "free"] /\ retry' = retry
            /\ (c \/ ~MaySchedule)
  <2>1. \A u \in Tasks \ {t} : Live(u)' = Live(u)
    BY <1>0, <1>2 DEF Live, TypeOK
  <2>2. CancelledLive'
    BY <1>0, <2>1 DEF ProbeInv, CancelledLive
  <2>3. Alone'
    BY <1>2, <2>1 DEF ProbeInv, Alone
  <2>4. ASSUME unload = "loaded", link, outcome' = "incomplete"
        PROVE  \E r \in RetryTasks : Live(r)'
    <3>1. retry \in LiveTasks /\ retry \in RetryTasks
      BY <1>0, <1>1, <1>2, <2>4
      DEF MaySchedule, Stopping, Connected, LiveTasks, TypeOK
    <3> QED
      BY <1>2, <2>1, <3>1 DEF LiveTasks
  <2> QED
    BY <1>1, <2>2, <2>3, <2>4 DEF ProbeInv, Followed
<1>3. ASSUME t \in MapTasks, ~c, MaySchedule,
             NEW r \in RetryTasks, ~Live(r),
             pc' = [pc EXCEPT ![t] = "free", ![r] = "sleep"], retry' = r
      PROVE  CancelledLive' /\ Alone' /\ Followed'
  <2>1. /\ \A u \in Tasks \ {t, r} : Live(u)' = Live(u)
        /\ ~Live(t)' /\ Live(r)' /\ t # r
    BY <1>0, <1>3 DEF Live, TypeOK
  <2>2. r \notin cancelled
    BY <1>3 DEF ProbeInv, CancelledLive
  <2>3. CancelledLive'
    BY <1>0, <2>1, <2>2 DEF ProbeInv, CancelledLive
  <2>4. link /\ retry \notin LiveTasks
    BY <1>3 DEF MaySchedule, Connected
  <2>5. unload = "loaded" => \A s \in RetryTasks \ cancelled : ~Live(s)
    BY <2>4 DEF ProbeInv, Alone, LiveTasks
  <2>6. Alone'
    BY <1>3, <2>1, <2>4, <2>5 DEF Alone
  <2>7. Followed'
    BY <1>1, <2>1 DEF ProbeInv, Followed
  <2> QED
    BY <2>3, <2>6, <2>7
<1>4. CASE t \in RetryTasks /\ pc' = [pc EXCEPT ![t] = "free"] /\ retry' = NoTask
            /\ (c \/ LastDelay(t))
  <2>1. /\ \A u \in Tasks \ {t} : Live(u)' = Live(u)
        /\ ~Live(t)'
    BY <1>0, <1>4 DEF Live, TypeOK
  <2>2. CancelledLive'
    BY <1>0, <2>1 DEF ProbeInv, CancelledLive
  <2>3. unload = "loaded" => retry = t
    BY <1>4 DEF ProbeInv, Alone
  <2>4. Alone'
    BY <2>1, <2>3 DEF ProbeInv, Alone
  <2>5. outcome' \in {"complete", "exhausted"}
    BY <1>1, <1>4
  <2> QED
    BY <2>2, <2>4, <2>5 DEF ProbeInv, Followed
<1>5. CASE t \in RetryTasks /\ pc' = [pc EXCEPT ![t] = "sleep"] /\ retry' = retry
  <2>1. \A u \in Tasks : Live(u)' = Live(u)
    BY <1>0, <1>5 DEF Live, TypeOK
  <2>2. CancelledLive' /\ Alone'
    BY <1>0, <1>5, <2>1 DEF ProbeInv, CancelledLive, Alone
  <2>3. \E r \in RetryTasks : Live(r)'
    BY <1>5, <2>1
  <2> QED
    BY <1>1, <2>2, <2>3 DEF ProbeInv, Followed
<1>6. CASE t \in MapTasks
  <2>1. EndMapTask(t, c)
    BY <1>6 DEF Return
  <2> QED
    BY <1>2, <1>3, <1>6, <2>1 DEF EndMapTask
<1>7. CASE t \in RetryTasks
  <2>1. EndProbe(t, c)
    BY <1>7 DEF Return
  <2> QED
    BY <1>4, <1>5, <1>7, <2>1 DEF EndProbe
<1> QED
  BY <1>6, <1>7

LEMMA ProbeAfter ==
  ASSUME ProbeInv, NEW t \in Tasks, t \notin cancelled, Live(t),
         AfterNotifications(t), UNCHANGED <<link, unload, cancelled>>
  PROVE  CancelledLive' /\ Alone' /\ Followed'
<1>1. CASE Return(t, Mapped(t))
  BY <1>1, ProbeReturns
<1>2. CASE ~Return(t, Mapped(t))
  <2>1. Continues(t)
    BY <1>2 DEF AfterNotifications, Continues, ProbeInv, TypeOK
  <2> QED
    BY <2>1, ProbeContinues
<1> QED
  BY <1>1, <1>2

LEMMA ProbeEnters ==
  ASSUME ProbeInv, NEW t \in Tasks, t \notin cancelled, Live(t), NEW ps, NEW c,
         EnterNotifications(t, ps, c), UNCHANGED <<link, unload, cancelled>>
  PROVE  CancelledLive' /\ Alone' /\ Followed'
<1>1. CASE Return(t, c)
  BY <1>1, ProbeReturns
<1>2. CASE ~Return(t, c)
  <2>1. Continues(t)
    BY <1>2 DEF EnterNotifications, Continues, ProbeInv, TypeOK
  <2> QED
    BY <2>1, ProbeContinues
<1> QED
  BY <1>1, <1>2

LEMMA ProbeNextPath ==
  ASSUME ProbeInv, NEW t \in Tasks, t \notin cancelled, Live(t), NEW have,
         NextPath(t, have), UNCHANGED <<link, unload, cancelled>>
  PROVE  CancelledLive' /\ Alone' /\ Followed'
<1>1. CASE AfterNotifications(t)
  BY <1>1, ProbeAfter
<1>2. CASE ~AfterNotifications(t)
  <2>1. Continues(t)
    BY <1>2 DEF NextPath, Continues, ProbeInv, TypeOK
  <2> QED
    BY <2>1, ProbeContinues
<1> QED
  BY <1>1, <1>2

LEMMA ProbeMapping ==
  ASSUME ProbeInv, NEW t \in Tasks, Mapping(t)
  PROVE  CancelledLive' /\ Alone' /\ Followed'
<1> USE DEF bluez, shared, unloading, local, history, Runs, Live
<1>0. TypeOK
  BY DEF ProbeInv
<1>1. CASE ServicesFail(t)
  BY <1>1, ProbeReturns DEF ServicesFail
<1>2. ASSUME NEW ps \in SUBSET Paths, NEW v \in BOOLEAN, HidFound(t, ps, v)
      PROVE  CancelledLive' /\ Alone' /\ Followed'
  <2>1. Continues(t)
    BY <1>0, <1>2 DEF HidFound, Continues, TypeOK
  <2> QED
    BY <1>2, <2>1, ProbeContinues DEF HidFound
<1>3. ASSUME NEW ps \in SUBSET Paths, NEW v \in BOOLEAN, NoHidFound(t, ps, v)
      PROVE  CancelledLive' /\ Alone' /\ Followed'
  BY <1>3, ProbeEnters DEF NoHidFound
<1>4. ASSUME NEW b \in BOOLEAN, ReadReportMap(t, b)
      PROVE  CancelledLive' /\ Alone' /\ Followed'
  <2>1. Continues(t)
    BY <1>0, <1>4 DEF ReadReportMap, Continues, TypeOK
  <2> QED
    BY <1>4, <2>1, ProbeContinues DEF ReadReportMap
<1>5. CASE ReadReferences(t)
  BY <1>5, ProbeEnters DEF ReadReferences
<1>6. CASE TakeLock(t)
  BY <1>6, ProbeNextPath DEF TakeLock
<1>7. CASE StartRefused(t)
  BY <1>7, ProbeNextPath DEF StartRefused
<1>8. CASE StartAccepted(t)
  BY <1>8, ProbeNextPath DEF StartAccepted
<1>9. CASE StartTooLate(t)
  <2>1. Continues(t)
    BY <1>0, <1>9 DEF StartTooLate, Continues, TypeOK
  <2> QED
    BY <1>9, <2>1, ProbeContinues DEF StartTooLate
<1>10. CASE LateReleased(t)
  BY <1>10, ProbeAfter DEF LateReleased
<1>11. ASSUME NEW b \in BOOLEAN, CapsWritten(t, b)
       PROVE  CancelledLive' /\ Alone' /\ Followed'
  BY <1>11, ProbeReturns DEF CapsWritten
<1>12. CASE t \in RetryTasks /\ Wake(t)
  <2>1. CASE Connected /\ ~Stopping
    <3>1. Continues(t)
      BY <1>0, <1>12, <2>1 DEF Wake, Continues, TypeOK
    <3> QED
      BY <1>12, <3>1, ProbeContinues DEF Wake
  <2>2. CASE ~Connected \/ Stopping
    <3>1. t \notin cancelled /\ Live(t)
      BY <1>12 DEF Wake
    <3>2. unload # "loaded"
      BY <1>12, <2>2, <3>1 DEF ProbeInv, Alone, Connected, Stopping
    <3>3. pc' = [pc EXCEPT ![t] = "free"] /\ UNCHANGED <<link, unload, cancelled>>
      BY <1>12, <2>2 DEF Wake
    <3> QED
      BY <1>0, <3>1, <3>2, <3>3
      DEF ProbeInv, CancelledLive, Alone, Followed, TypeOK
  <2> QED
    BY <2>1, <2>2
<1>13. CASE Unwind(t)
  <2>1. /\ t \in cancelled /\ cancelled' = cancelled \ {t}
        /\ pc' = [pc EXCEPT ![t] = "free"]
        /\ retry' \in {retry, NoTask}
        /\ UNCHANGED <<link, unload>>
    BY <1>13 DEF Unwind
  <2>2. unload = "loaded" => ~link
    BY <2>1 DEF ProbeInv, Followed
  <2>3. \A u \in Tasks \ {t} : pc'[u] = pc[u]
    BY <1>0, <2>1 DEF TypeOK
  <2>4. pc'[t] = "free"
    BY <1>0, <2>1 DEF TypeOK
  <2>5. unload = "loaded" => \A r \in RetryTasks \ cancelled : ~Live(r)
    BY <2>2 DEF ProbeInv, Alone
  <2> QED
    BY <1>0, <2>1, <2>2, <2>3, <2>4, <2>5
    DEF ProbeInv, CancelledLive, Alone, Followed, TypeOK
<1> QED
  BY <1>1, <1>2, <1>3, <1>4, <1>5, <1>6, <1>7, <1>8, <1>9, <1>10, <1>11,
     <1>12, <1>13 DEF Mapping

LEMMA ProbeOthers ==
  ASSUME ProbeInv, ~FastReconnect, BlueZ \/ Unloading
  PROVE  CancelledLive' /\ Alone' /\ Followed'
<1> USE DEF bluez, shared, unloading, local, history
<1>0. TypeOK
  BY DEF ProbeInv
<1>1. ASSUME NEW t \in Tasks, StartAnswered(t)
      PROVE  CancelledLive' /\ Alone' /\ Followed'
  <2>1. Continues(t)
    BY <1>0, <1>1 DEF StartAnswered, Continues, TypeOK
  <2> QED
    BY <1>1, <2>1, ProbeContinues DEF StartAnswered, Live
<1>2. ASSUME NEW p \in Paths, OrphanAnswered(p)
      PROVE  CancelledLive' /\ Alone' /\ Followed'
  BY <1>2 DEF OrphanAnswered, ProbeInv, CancelledLive, Alone, Followed, Live,
              Idle, LiveTasks
<1>3. CASE Connect
  <2>1. ~link /\ Idle /\ link' /\ UNCHANGED <<unload, cancelled, retry>>
    BY <1>3 DEF Connect
  <2>2. cancelled = {}
    BY <1>0, <2>1 DEF ProbeInv, CancelledLive, Idle, LiveTasks, TypeOK
  <2>3. CASE Stopping
    BY <2>1, <2>2, <2>3 DEF Stopping, CancelledLive, Alone, Followed
  <2>4. CASE ~Stopping
    <3>1. PICK ms \in SUBSET {m \in MapTasks : ~Live(m)} :
             /\ Cardinality(ms) = Watchers
             /\ pc' = [t \in Tasks |-> IF t \in ms THEN "services" ELSE pc[t]]
      BY <1>3, <2>4 DEF Connect
    <3>2. ms # {}
      BY <3>1, WatchersAssumption, FS_EmptySet
    <3>3. \A r \in RetryTasks : ~Live(r)'
      BY <1>0, <2>1, <3>1 DEF Idle, LiveTasks, Live, TypeOK
    <3>4. ~Idle'
      BY <3>1, <3>2 DEF Idle, LiveTasks, Live
    <3>5. outcome' = "none"
      BY <1>3 DEF Connect
    <3> QED
      BY <2>1, <2>2, <3>3, <3>4, <3>5 DEF CancelledLive, Alone, Followed
  <2> QED
    BY <2>3, <2>4
<1>4. CASE Disconnect
  <2>1. link /\ ~link' /\ unload' = unload
    BY <1>4 DEF Disconnect
  <2>2. \A u \in Tasks : Live(u)' = Live(u)
    BY <1>4 DEF Disconnect, Live
  <2>3. cancelled' \subseteq cancelled \cup LiveTasks
    BY <1>4 DEF Disconnect, RetryTask
  <2>4. CancelledLive'
    BY <1>0, <2>2, <2>3 DEF ProbeInv, CancelledLive, LiveTasks, TypeOK
  <2>5. ASSUME unload = "loaded", NEW r \in RetryTasks \ cancelled'
        PROVE  ~Live(r)'
    <3>1. cancelled' = cancelled \cup RetryTask
      BY <1>4, <2>5 DEF Disconnect
    <3>2. CASE r \in LiveTasks
      <4>1. r = retry
        BY <2>5, <3>1, <3>2 DEF ProbeInv, Alone, LiveTasks
      <4> QED
        BY <2>5, <3>1, <3>2, <4>1 DEF RetryTask
    <3>3. CASE r \notin LiveTasks
      BY <2>2, <3>3 DEF LiveTasks
    <3> QED
      BY <3>2, <3>3
  <2>6. Alone'
    BY <2>1, <2>5 DEF Alone
  <2> QED
    BY <2>1, <2>4, <2>6 DEF Followed
<1>5. CASE StopBegins
  <2>1. cancelled' \subseteq cancelled \cup LiveTasks
    BY <1>5 DEF StopBegins, CancelTasks, RetryTask
  <2> QED
    BY <1>5, <2>1
    DEF StopBegins, ProbeInv, CancelledLive, Alone, Followed, Live, LiveTasks
<1>6. CASE StopFlagged
  BY <1>6 DEF StopFlagged, ProbeInv, CancelledLive, Alone, Followed, Live
<1>7. CASE StopTakesLock
  BY <1>7 DEF StopTakesLock, ProbeInv, CancelledLive, Alone, Followed, Live
<1>8. ASSUME NEW p \in Paths, StopReleases(p)
      PROVE  CancelledLive' /\ Alone' /\ Followed'
  BY <1>8 DEF StopReleases, ProbeInv, CancelledLive, Alone, Followed, Live
<1>9. CASE HaCancels
  BY <1>9
  DEF HaCancels, CancelTasks, ProbeInv, CancelledLive, Alone, Followed, Live, LiveTasks
<1> QED
  BY <1>1, <1>2, <1>3, <1>4, <1>5, <1>6, <1>7, <1>8, <1>9 DEF BlueZ, Unloading

\* Until the unload begins the manager does not forget a remote whose mapping is
\* incomplete, and probes it with one task, whatever the number of watchers that map
\* the connection at once.
THEOREM RemoteIsProbed == ~FastReconnect => (Spec => []NeverForgotten)
<1> SUFFICES ASSUME ~FastReconnect PROVE Spec => []NeverForgotten
  OBVIOUS
<1>1. Init => ProbeInv
  <2> SUFFICES ASSUME Init PROVE ProbeInv
    OBVIOUS
  <2>1. \A r \in RetryTasks : ~Live(r)
    BY DEF Init, Live
  <2>2. link => ~Idle
    BY DEF Init, Idle, LiveTasks, Live
  <2> QED
    BY <2>1, <2>2, TypeInit DEF Init, ProbeInv, CancelledLive, Alone, Followed
<1>2. ProbeInv /\ [Next]_vars => ProbeInv'
  <2> SUFFICES ASSUME ProbeInv, [Next]_vars PROVE ProbeInv'
    OBVIOUS
  <2>1. TypeOK'
    BY TypeStep DEF ProbeInv
  <2>2. CASE Next
    BY <2>1, <2>2, ProbeMapping, ProbeOthers DEF Next, ProbeInv
  <2>3. CASE UNCHANGED vars
    BY <2>1, <2>3 DEF vars, bluez, shared, unloading, local, history, ProbeInv,
       CancelledLive, Alone, Followed, Live, Idle, LiveTasks
  <2> QED
    BY <2>2, <2>3
<1>3. ProbeInv => NeverForgotten
  BY DEF ProbeInv, TypeOK, Alone, Followed, NeverForgotten, LiveTasks, Idle
<1> QED
  BY <1>1, <1>2, <1>3, PTL DEF Spec
=============================================================================
