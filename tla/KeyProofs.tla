------------------------------ MODULE KeyProofs ------------------------------
(* Machine-checked: where a key goes.  For any characteristics, keys and       *)
(* Report Map, what listeners are told of a key is what the remote does with   *)
(* it (KeyReports); for any event nodes, what the sensor calls protected does  *)
(* not reach the console, and nothing is held after the unload (InputGrab).    *)
EXTENDS KeyReports, InputGrab, TLAPS

(* ------------------------------ the invariant ---------------------------- *)

\* A report with a press, and no other, has usages, which the last event carried.
Matched ==
  \A p \in Paths :
    /\ Pressing(p) <=> p \in active
    /\ p \in active => told[p].keys = usages[p]
    /\ p \notin active => usages[p] = {}
    /\ usages[p] \subseteq Down(p, Keys)

\* The cached value of p is what is held, and will be: BlueZ is told of each change.
Exact(p) == Notifies(p) /\ value[p] = Down(p, held)

\* What is captured is what is cached still; a subscription that is asked for without
\* it has a value that is exact, and one that was replayed has nothing captured.
Cached ==
  /\ \A p \in Paths : value[p] = NoValue \/ value[p] \subseteq Down(p, Keys)
  /\ \A p \in Paths : snapshot[p] \in {NoValue, value[p]}
  /\ \A p \in asked : snapshot[p] = NoValue /\ value[p] # NoValue => Exact(p)
  /\ \A p \in on \ unreplayed : snapshot[p] = NoValue
  /\ asked \cup on # {} => link

\* A press that was told is known to BlueZ.
Pressed ==
  /\ \A p \in Paths : Pressing(p) => Exact(p) /\ Down(p, held) # {}
  /\ \A p \in fresh : Pressing(p)

\* While the button is believed to be down, the report of the press is the last one,
\* unless it was shared.
Shared ==
  Search \in held /\ Down(PathOf[Search], held) # {Search} => overlap
Believed ==
  button =>
    /\ Exact(PathOf[Search]) /\ mapped /\ decoder
    /\ overlap \/ (Search \in held /\ Search \in usages[PathOf[Search]])

IInv == TypeOK /\ Matched /\ Cached /\ Pressed /\ Shared /\ Believed

(* ------------------------------- one report ------------------------------ *)

LEMMA NoValueIsNoReport ==
  ASSUME NEW v \in SUBSET Keys
  PROVE  v # NoValue
  BY KeyAssumption DEF NoValue

LEMMA DownFacts ==
  ASSUME NEW p \in Paths
  PROVE  /\ Down(p, Keys) \subseteq Keys
         /\ \A h \in SUBSET Keys : Down(p, h) \in SUBSET Down(p, Keys)
  BY DEF Down

LEMMA Decoding ==
  ASSUME NEW v \in SUBSET Keys
  PROVE  /\ Decode(v) \subseteq v
         /\ Search \in Decode(v) <=> mapped /\ decoder /\ Search \in v
  BY KeyAssumption DEF Decode

EventsTyped ==
  /\ active \in SUBSET Paths
  /\ usages \in [Paths -> SUBSET Keys]
  /\ button \in BOOLEAN
  /\ told \in [Paths -> [down : BOOLEAN, keys : SUBSET Keys]]
  /\ cut \in SUBSET {p \in Paths : told[p].down}

\* What a report of p that is not swallowed does.
LEMMA ReportStep ==
  ASSUME EventsTyped, Matched, NEW p \in Paths, NEW v \in SUBSET Down(p, Keys), Report(p, v)
  PROVE  /\ EventsTyped' /\ Matched'
         /\ \A q \in Paths \ {p} : told'[q] = told[q] /\ (Pressing(q)' <=> Pressing(q))
              /\ usages'[q] = usages[q]
         /\ Pressing(p)' <=> v # {}
         /\ Pressing(p)' \/ told'[p] = told[p]
              \/ (Pressing(p) /\ told'[p].keys = told[p].keys)
         /\ v # {} => usages'[p] = Decode(v)
         /\ button' = CASE v # {} -> button \/ Search \in Decode(v)
                       [] v = {} -> button /\ ~(p \in active /\ Search \in usages[p])
<1>1. v \in SUBSET Keys /\ Decode(v) \subseteq v /\ Decode(v) \in SUBSET Keys
  BY DownFacts, Decoding
<1>2. CASE IdleReport(p, v)
  <2>1. UNCHANGED <<active, usages, button, told, cut>>
    BY <1>2 DEF Report, events
  <2>2. v = {} /\ p \notin active /\ ~Pressing(p)
    BY <1>2 DEF IdleReport, Matched
  <2> QED
    BY <2>1, <2>2 DEF EventsTyped, Matched, Down, Pressing
<1>3. CASE ~IdleReport(p, v) /\ v # {}
  <2>1. /\ active' = active \cup {p} /\ usages' = [usages EXCEPT ![p] = Decode(v)]
        /\ told' = [told EXCEPT ![p] = [down |-> TRUE, keys |-> Decode(v)]]
        /\ cut' = cut \ {p}
        /\ button' = IF Search \in Decode(v) THEN TRUE ELSE button
    BY <1>3 DEF Report, Publish, Carried, Remembered
  <2>2. EventsTyped'
    BY <1>1, <2>1 DEF EventsTyped
  <2>3. Matched'
    BY <1>1, <2>1 DEF EventsTyped, Matched, Down, Pressing
  <2> QED
    BY <1>3, <2>1, <2>2, <2>3 DEF EventsTyped, Pressing
<1>4. CASE ~IdleReport(p, v) /\ v = {}
  <2>1. p \in active /\ Pressing(p) /\ told[p].keys = usages[p]
    BY <1>4 DEF IdleReport, Matched
  <2>2. /\ active' = active \ {p} /\ usages' = [usages EXCEPT ![p] = {}]
        /\ told' = [told EXCEPT ![p] = [down |-> FALSE, keys |-> usages[p]]]
        /\ cut' = cut \ {p}
        /\ button' = IF Search \in usages[p] THEN FALSE ELSE button
    BY <1>1, <1>4 DEF Report, Publish, Carried, Remembered
  <2>3. EventsTyped'
    BY <2>2 DEF EventsTyped
  <2>4. Matched'
    BY <2>2 DEF EventsTyped, Matched, Down, Pressing
  <2> QED
    BY <1>4, <2>1, <2>2, <2>3, <2>4 DEF EventsTyped, Pressing
<1> QED
  BY <1>2, <1>3, <1>4

\* A value that BlueZ tells is swallowed, or reported.
LEMMA ReceiveStep ==
  ASSUME EventsTyped, Matched, NEW p \in Paths, NEW v \in SUBSET Down(p, Keys), Receive(p, v)
  PROVE  /\ snapshot' = [snapshot EXCEPT ![p] = NoValue]
         /\ EventsTyped' /\ Matched'
         /\ \A q \in Paths \ {p} : told'[q] = told[q] /\ (Pressing(q)' <=> Pressing(q))
              /\ usages'[q] = usages[q]
         /\ Pressing(p)' \/ told'[p] = told[p]
              \/ (Pressing(p) /\ told'[p].keys = told[p].keys)
         /\ \/ v = snapshot[p] /\ UNCHANGED <<told, cut, usages, button>>
            \/ v # snapshot[p] /\ Report(p, v)
<1>1. snapshot' = [snapshot EXCEPT ![p] = NoValue]
  BY DEF Receive, CompareFirst
<1>2. CASE v = snapshot[p]
  <2>1. UNCHANGED <<active, usages, button, told, cut>>
    BY <1>2 DEF Receive, Replayed, events
  <2> QED
    BY <1>1, <1>2, <2>1 DEF EventsTyped, Matched, Down, Pressing
<1>3. CASE v # snapshot[p]
  <2>1. Report(p, v)
    BY <1>3 DEF Receive, Replayed
  <2> QED
    BY <1>1, <1>3, <2>1, ReportStep
<1> QED
  BY <1>2, <1>3

(* ---------------------------- a key goes up or down ---------------------- *)

LEMMA Typed ==
  ASSUME IInv
  PROVE  EventsTyped
  BY DEF IInv, TypeOK, EventsTyped

\* The sets of keys that are down, before and after k goes up or down.
LEMMA KeyMoves ==
  ASSUME IInv, NEW k \in Keys, NEW h, h = held \cup {k} \/ h = held \ {k}, h # held
  PROVE  /\ PathOf[k] \in Paths /\ h \in SUBSET Keys
         /\ Down(PathOf[k], h) # Down(PathOf[k], held)
         /\ \A q \in Paths \ {PathOf[k]} : Down(q, h) = Down(q, held)
<1>1. PathOf[k] \in Paths /\ held \in SUBSET Keys
  BY KeyAssumption DEF IInv, TypeOK
<1>2. h \in SUBSET Keys
  BY <1>1
<1>3. (k \in h) # (k \in held)
  OBVIOUS
<1>4. Down(PathOf[k], h) # Down(PathOf[k], held)
  BY <1>3 DEF Down
<1>5. \A q \in Paths \ {PathOf[k]} : Down(q, h) = Down(q, held)
  BY <1>1 DEF Down
<1> QED
  BY <1>1, <1>2, <1>4, <1>5

LEMMA SendStep ==
  ASSUME IInv, NEW k \in Keys, NEW h, h = held \cup {k} \/ h = held \ {k}, h # held,
         held' = h, Send(PathOf[k], h), UNCHANGED <<link, asked, on, mapped, decoder>>
  PROVE  /\ EventsTyped' /\ Matched' /\ Cached'
         /\ held' \in SUBSET Keys /\ value' \in [Paths -> (SUBSET Keys) \cup {NoValue}]
         /\ snapshot' \in [Paths -> (SUBSET Keys) \cup {NoValue}]
         /\ unreplayed' \in SUBSET on
         /\ \A p \in Paths : Pressing(p)' => Exact(p)' /\ Down(p, h) # {}
         /\ \A p \in Paths \ {PathOf[k]} :
              told'[p] = told[p] /\ (Pressing(p)' <=> Pressing(p))
         /\ PathOf[k] \in on \ unreplayed \/ Pressing(PathOf[k]) =>
              (Pressing(PathOf[k])' <=> Down(PathOf[k], h) # {})
         /\ \A p \in Paths : Pressing(p)' \/ told'[p] = told[p]
              \/ (Pressing(p) /\ told'[p].keys = told[p].keys)
         /\ button' => Exact(PathOf[Search])' /\ mapped /\ decoder
         /\ PathOf[k] # PathOf[Search] =>
              UNCHANGED button /\ usages'[PathOf[Search]] = usages[PathOf[Search]]
         /\ PathOf[k] = PathOf[Search] /\ Search \in h /\ button' => Search \in usages'[PathOf[k]]
         /\ PathOf[k] = PathOf[Search] /\ Search \notin h /\ button' =>
              button /\ (Down(PathOf[k], h) = {} => Search \notin usages[PathOf[k]])
<1> DEFINE P == PathOf[k]
           v == Down(P, h)
<1>1. /\ P \in Paths /\ h \in SUBSET Keys /\ v # Down(P, held)
      /\ \A q \in Paths \ {P} : Down(q, h) = Down(q, held)
  BY KeyMoves
<1>2. /\ v \in SUBSET Down(P, Keys) /\ v \in SUBSET Keys /\ v # NoValue
  BY <1>1, DownFacts, NoValueIsNoReport
<1>3. PathOf[Search] \in Paths
  BY KeyAssumption
<1>4. \A q \in Paths \ {P} : Exact(q) /\ value'[q] = value[q] => Exact(q)'
  BY <1>1 DEF Exact, Notifies
<1>5. P = PathOf[Search] => (Search \in v <=> Search \in h)
  BY KeyAssumption DEF Down
<1>6. CASE ~Notifies(P)
  <2>1. UNCHANGED <<value, snapshot, active, usages, button, told, cut, unreplayed>>
    BY <1>6 DEF Send, events
  <2>2. ~Pressing(P) /\ ~Exact(P) /\ P \notin on \ unreplayed
    BY <1>1, <1>6 DEF IInv, Pressed, Exact, Notifies, Cached, TypeOK
  <2>3. \A q \in Paths : Exact(q) => Exact(q)'
    BY <1>4, <2>1, <2>2
  <2>4. EventsTyped' /\ Matched'
    BY <2>1, Typed DEF IInv, EventsTyped, Matched, Pressing, Down
  <2>5. Cached'
    BY <2>1, <2>3 DEF IInv, TypeOK, Cached, Down
  <2>6. \A p \in Paths : Pressing(p)' => Exact(p)' /\ Down(p, h) # {}
    BY <1>1, <2>1, <2>2, <2>3 DEF IInv, Pressed, Pressing
  <2>7. button' => P # PathOf[Search] /\ Exact(PathOf[Search])' /\ mapped /\ decoder
    BY <1>3, <2>1, <2>2, <2>3 DEF IInv, Believed
  <2> QED
    BY <1>1, <2>1, <2>2, <2>4, <2>5, <2>6, <2>7 DEF IInv, TypeOK, Pressing
<1>7. CASE Notifies(P)
  <2>1. /\ value' = [value EXCEPT ![P] = v] /\ Receive(P, v) /\ unreplayed' = unreplayed \ {P}
    BY <1>7 DEF Send
  <2>2. /\ snapshot' = [snapshot EXCEPT ![P] = NoValue]
        /\ EventsTyped' /\ Matched'
        /\ \A q \in Paths \ {P} : told'[q] = told[q] /\ (Pressing(q)' <=> Pressing(q))
              /\ usages'[q] = usages[q]
        /\ Pressing(P)' \/ told'[P] = told[P]
             \/ (Pressing(P) /\ told'[P].keys = told[P].keys)
        /\ \/ v = snapshot[P] /\ UNCHANGED <<told, cut, usages, button>>
           \/ v # snapshot[P] /\ Report(P, v)
    BY <1>1, <1>2, <2>1, Typed, ReceiveStep DEF IInv
  <2>3. /\ value' \in [Paths -> (SUBSET Keys) \cup {NoValue}]
        /\ snapshot' \in [Paths -> (SUBSET Keys) \cup {NoValue}]
        /\ unreplayed' \in SUBSET on
        /\ value'[P] = v /\ snapshot'[P] = NoValue
        /\ \A q \in Paths \ {P} : value'[q] = value[q] /\ snapshot'[q] = snapshot[q]
    <3> HIDE DEF v
    <3>1. /\ value \in [Paths -> (SUBSET Keys) \cup {NoValue}]
          /\ snapshot \in [Paths -> (SUBSET Keys) \cup {NoValue}]
          /\ unreplayed \in SUBSET on
      BY DEF IInv, TypeOK
    <3>2. /\ value' \in [Paths -> (SUBSET Keys) \cup {NoValue}] /\ value'[P] = v
          /\ \A q \in Paths \ {P} : value'[q] = value[q]
      BY <1>1, <1>2, <2>1, <3>1
    <3>3. /\ snapshot' \in [Paths -> (SUBSET Keys) \cup {NoValue}] /\ snapshot'[P] = NoValue
          /\ \A q \in Paths \ {P} : snapshot'[q] = snapshot[q]
      <4>1. snapshot' = [snapshot EXCEPT ![P] = NoValue]
        BY <2>2
      <4> QED
        BY <1>1, <3>1, <4>1
    <3>4. unreplayed' \in SUBSET on
      BY <2>1, <3>1
    <3> QED
      BY <3>2, <3>3, <3>4
  <2>4. Exact(P)'
    BY <1>7, <2>3 DEF Exact, Notifies
  <2>5. \A q \in Paths : Exact(q) => Exact(q)'
    BY <1>4, <2>3, <2>4
  <2>6. Cached'
    <3>1. \A q \in Paths : value'[q] = NoValue \/ value'[q] \subseteq Down(q, Keys)
      BY <1>2, <2>3 DEF IInv, Cached
    <3>2. \A q \in Paths : snapshot'[q] \in {NoValue, value'[q]}
      BY <2>3 DEF IInv, Cached
    <3>3. \A q \in asked : snapshot'[q] = NoValue /\ value'[q] # NoValue => Exact(q)'
      BY <2>3, <2>4, <2>5 DEF IInv, Cached, TypeOK
    <3>4. \A q \in on \ unreplayed' : snapshot'[q] = NoValue
      BY <2>1, <2>3 DEF IInv, Cached, TypeOK
    <3> QED
      BY <3>1, <3>2, <3>3, <3>4 DEF IInv, Cached, Down
  <2>7. Exact(P) \/ P \in on \ unreplayed => v # snapshot[P]
    BY <1>1, <1>2 DEF Exact, IInv, Cached
  <2>8. v # snapshot[P] => (Pressing(P)' <=> v # {})
    BY <1>1, <1>2, <2>2, Typed, ReportStep DEF IInv
  <2>9. Pressing(P) => Exact(P)
    BY <1>1 DEF IInv, Pressed
  <2>10. \A p \in Paths : Pressing(p)' => Exact(p)' /\ Down(p, h) # {}
    <3>1. Pressing(P)' => Exact(P)' /\ v # {}
      <4>1. v = snapshot[P] => (Pressing(P)' <=> Pressing(P))
        BY <2>2 DEF Pressing
      <4> QED
        BY <4>1, <2>2, <2>4, <2>7, <2>8, <2>9
    <3>2. \A q \in Paths \ {P} : Pressing(q)' => Exact(q)' /\ Down(q, h) # {}
      BY <1>1, <2>2, <2>5 DEF IInv, Pressed
    <3> QED
      BY <3>1, <3>2
  <2>11. P \in on \ unreplayed \/ Pressing(P) => (Pressing(P)' <=> v # {})
    BY <2>7, <2>8, <2>9
  <2>12. v # snapshot[P] =>
           /\ v # {} => usages'[P] = Decode(v)
           /\ button' = CASE v # {} -> button \/ Search \in Decode(v)
                         [] v = {} -> button /\ ~(P \in active /\ Search \in usages[P])
    BY <1>1, <1>2, <2>2, Typed, ReportStep DEF IInv
  <2>13. Decode(v) \subseteq v /\ (Search \in Decode(v) <=> mapped /\ decoder /\ Search \in v)
    BY <1>2, Decoding
  <2>14. CASE P # PathOf[Search]
    <3>1. Search \notin v /\ Search \notin usages[P]
      BY <1>1, <2>14 DEF Down, IInv, Matched
    <3>2. button' = button
      BY <2>2, <2>12, <2>13, <3>1, Typed DEF EventsTyped
    <3>3. button' => Exact(PathOf[Search])' /\ mapped /\ decoder
      BY <1>3, <2>5, <3>2 DEF IInv, Believed
    <3> QED
      BY <1>1, <1>3, <2>2, <2>3, <2>6, <2>10, <2>11, <2>14, <3>2, <3>3
  <2>15. CASE P = PathOf[Search]
    <3>1. button => Exact(P) /\ mapped /\ decoder
      BY <2>15 DEF IInv, Believed
    <3>2. CASE v = snapshot[P]
      <4>1. ~button /\ ~button'
        BY <2>2, <2>7, <3>1, <3>2
      <4> QED
        BY <1>1, <2>2, <2>3, <2>6, <2>10, <2>11, <2>15, <4>1
    <3>3. CASE v # snapshot[P] /\ v # {}
      <4>1. button' => mapped /\ decoder
        BY <2>12, <2>13, <3>1, <3>3
      <4>2. Search \in h /\ button' => Search \in usages'[P]
        BY <1>5, <2>12, <2>13, <2>15, <3>3, <4>1
      <4>3. Search \notin h /\ button' => button
        BY <1>5, <2>12, <2>13, <2>15, <3>3, Typed DEF EventsTyped
      <4> QED
        BY <1>1, <2>2, <2>3, <2>4, <2>6, <2>10, <2>11, <2>15, <3>3, <4>1, <4>2, <4>3
    <3>4. CASE v # snapshot[P] /\ v = {}
      <4>1. button' => button /\ ~(P \in active /\ Search \in usages[P])
        BY <2>12, <3>4
      <4>2. Search \in usages[P] => P \in active
        BY <1>1 DEF IInv, Matched
      <4>3. Search \notin h
        BY <1>5, <2>15, <3>4
      <4> QED
        BY <1>1, <2>2, <2>3, <2>4, <2>6, <2>10, <2>11, <2>15, <3>1, <3>4, <4>1, <4>2, <4>3
    <3> QED
      BY <3>2, <3>3, <3>4
  <2> QED
    BY <2>14, <2>15
<1> QED
  BY <1>6, <1>7

LEMMA KeyDownStep ==
  ASSUME IInv, NEW k \in Keys, KeyDown(k)
  PROVE  IInv'
<1> DEFINE P == PathOf[k]
<1>1. /\ k \notin held /\ held' = held \cup {k} /\ held' # held /\ Send(P, held')
      /\ UNCHANGED <<link, asked, on, mapped, decoder>>
      /\ fresh' = fresh \cup ({P} \cap (on \ unreplayed))
      /\ overlap' = IF k = Search THEN Down(P, held) # {}
                    ELSE overlap \/ (Search \in held /\ P = PathOf[Search])
  BY DEF KeyDown
<1>2. /\ P \in Paths /\ k \in Down(P, held') /\ Down(P, held') # {}
      /\ P # PathOf[Search] => k # Search
  BY <1>1, KeyAssumption DEF Down
<1>3. /\ EventsTyped' /\ Matched' /\ Cached'
      /\ held' \in SUBSET Keys /\ value' \in [Paths -> (SUBSET Keys) \cup {NoValue}]
      /\ snapshot' \in [Paths -> (SUBSET Keys) \cup {NoValue}]
      /\ unreplayed' \in SUBSET on
      /\ \A p \in Paths : Pressing(p)' => Exact(p)' /\ Down(p, held') # {}
      /\ \A p \in Paths \ {P} : told'[p] = told[p] /\ (Pressing(p)' <=> Pressing(p))
      /\ P \in on \ unreplayed \/ Pressing(P) => Pressing(P)'
      /\ button' => Exact(PathOf[Search])' /\ mapped /\ decoder
      /\ P # PathOf[Search] =>
           UNCHANGED button /\ usages'[PathOf[Search]] = usages[PathOf[Search]]
      /\ P = PathOf[Search] /\ Search \in held' /\ button' => Search \in usages'[P]
      /\ P = PathOf[Search] /\ Search \notin held' /\ button' => button
  BY <1>1, <1>2, SendStep
<1>4. TypeOK'
  BY <1>1, <1>3 DEF IInv, TypeOK, EventsTyped, Matched
<1>5. Pressed'
  BY <1>1, <1>2, <1>3 DEF IInv, TypeOK, Pressed
<1>6. Shared'
  BY <1>1, <1>2 DEF IInv, Shared, Down
<1>7. Believed'
  BY <1>1, <1>2, <1>3 DEF IInv, Believed
<1> QED
  BY <1>3, <1>4, <1>5, <1>6, <1>7 DEF IInv

LEMMA KeyUpStep ==
  ASSUME IInv, NEW k \in Keys, KeyUp(k)
  PROVE  IInv'
<1> DEFINE P == PathOf[k]
<1>1. /\ k \in held /\ held' = held \ {k} /\ held' # held /\ Send(P, held')
      /\ UNCHANGED <<link, asked, on, mapped, decoder, overlap>>
      /\ fresh' = IF Down(P, held') = {} THEN fresh \ {P} ELSE fresh
  BY DEF KeyUp
<1>2. P \in Paths /\ (P # PathOf[Search] => k # Search)
  BY KeyAssumption
<1>3. /\ EventsTyped' /\ Matched' /\ Cached'
      /\ held' \in SUBSET Keys /\ value' \in [Paths -> (SUBSET Keys) \cup {NoValue}]
      /\ snapshot' \in [Paths -> (SUBSET Keys) \cup {NoValue}]
      /\ unreplayed' \in SUBSET on
      /\ \A p \in Paths : Pressing(p)' => Exact(p)' /\ Down(p, held') # {}
      /\ \A p \in Paths \ {P} : told'[p] = told[p] /\ (Pressing(p)' <=> Pressing(p))
      /\ Pressing(P) => (Pressing(P)' <=> Down(P, held') # {})
      /\ button' => Exact(PathOf[Search])' /\ mapped /\ decoder
      /\ P # PathOf[Search] =>
           UNCHANGED button /\ usages'[PathOf[Search]] = usages[PathOf[Search]]
      /\ P = PathOf[Search] /\ Search \in held' /\ button' => Search \in usages'[P]
      /\ P = PathOf[Search] /\ Search \notin held' /\ button' =>
           button /\ (Down(P, held') = {} => Search \notin usages[P])
  BY <1>1, <1>2, SendStep
<1>4. TypeOK'
  BY <1>1, <1>3 DEF IInv, TypeOK, EventsTyped, Matched
<1>5. Pressed'
  BY <1>1, <1>2, <1>3 DEF IInv, TypeOK, Pressed
<1>6. Shared'
  <2>1. Search \in held' => Search \in held /\ Search \in Down(PathOf[Search], held')
    BY <1>1, <1>3, KeyAssumption DEF Down
  <2>2. Down(PathOf[Search], held') \subseteq Down(PathOf[Search], held)
    BY <1>1 DEF Down
  <2> QED
    BY <1>1, <2>1, <2>2 DEF IInv, Shared
<1>7. Believed'
  <2>1. CASE P # PathOf[Search]
    BY <1>1, <1>2, <1>3, <2>1 DEF IInv, Believed
  <2>2. CASE P = PathOf[Search] /\ Search \in held'
    BY <1>1, <1>3, <2>2 DEF IInv, Believed
  <2>3. CASE P = PathOf[Search] /\ Search \notin held' /\ button'
    <3>1. SUFFICES ASSUME ~overlap PROVE FALSE
      BY <1>1, <1>3, <2>3 DEF Believed
    <3>2. Search \in held /\ Search \in usages[P] /\ k = Search
      BY <1>1, <1>3, <2>3, <3>1 DEF IInv, Believed
    <3>3. Down(P, held) = {Search}
      BY <2>3, <3>1, <3>2 DEF IInv, Shared
    <3>4. Down(P, held') = {}
      BY <1>1, <3>2, <3>3 DEF Down
    <3> QED
      BY <1>3, <2>3, <3>2, <3>4
  <2>4. CASE ~button'
    BY <2>4 DEF Believed
  <2> QED
    BY <2>1, <2>2, <2>3, <2>4
<1> QED
  BY <1>3, <1>4, <1>5, <1>6, <1>7 DEF IInv

(* ------------------------------ subscriptions ---------------------------- *)

LEMMA MapStep ==
  ASSUME IInv, Map
  PROVE  IInv'
<1>1. /\ mapped' = TRUE /\ decoder' \in {decoder, TRUE}
      /\ UNCHANGED <<link, held, value, asked, on, snapshot, active, usages, button, told, cut,
                    fresh, unreplayed, overlap>>
  BY DEF Map, remote, events, history
<1>2. \A p : Exact(p)' <=> Exact(p)
  BY <1>1 DEF Exact, Notifies
<1>3. TypeOK'
  BY <1>1 DEF IInv, TypeOK
<1> QED
  BY <1>1, <1>2, <1>3 DEF IInv, Matched, Cached, Pressed, Pressing, Shared, Believed, Down

LEMMA LinkStep ==
  ASSUME IInv, Connect \/ Disconnect
  PROVE  IInv'
<1>1. CASE Connect
  <2>1. /\ link' = TRUE /\ ~link
        /\ UNCHANGED <<held, value, asked, on, mapped, decoder, snapshot, active, usages,
                      button, told, cut, fresh, unreplayed, overlap>>
    BY <1>1 DEF Connect, events, history
  <2>2. \A p : Exact(p) => Exact(p)'
    BY <2>1 DEF Exact, Notifies
  <2>3. TypeOK'
    BY <2>1 DEF IInv, TypeOK
  <2> QED
    BY <2>1, <2>2, <2>3 DEF IInv, Matched, Cached, Pressed, Pressing, Shared, Believed, Down
<1>2. CASE Disconnect
  <2>1. /\ link' = FALSE /\ asked' = {} /\ on' = {} /\ mapped' = FALSE
        /\ snapshot' = [p \in Paths |-> NoValue] /\ active' = {}
        /\ usages' = [p \in Paths |-> {}] /\ button' = FALSE
        /\ cut' = {p \in Paths : told[p].down} /\ fresh' = {} /\ unreplayed' = {}
        /\ UNCHANGED <<held, value, decoder, told, overlap>>
    BY <1>2 DEF Disconnect
  <2>2. TypeOK'
    BY <2>1 DEF IInv, TypeOK
  <2>3. Matched' /\ Pressed'
    BY <2>1 DEF Matched, Pressed, Pressing
  <2>4. Cached' /\ Shared' /\ Believed'
    BY <2>1 DEF IInv, Cached, Shared, Believed
  <2> QED
    BY <2>2, <2>3, <2>4 DEF IInv
<1> QED
  BY <1>1, <1>2

LEMMA AskStep ==
  ASSUME IInv, NEW p \in Paths, Ask(p) \/ Refuse(p)
  PROVE  IInv'
<1>1. /\ UNCHANGED <<link, held, value, on, mapped, decoder, active, usages, button, told, cut,
                    fresh, unreplayed, overlap>>
      /\ p \notin on \/ p \in asked
  BY DEF Ask, Refuse, events, history
<1>2. \A q : Exact(q)' <=> Exact(q)
  BY <1>1 DEF Exact, Notifies
<1>3. Matched' /\ Pressed' /\ Shared' /\ Believed'
  BY <1>1, <1>2 DEF IInv, Matched, Pressed, Pressing, Shared, Believed, Down
<1>4. p \notin on
  BY <1>1 DEF IInv, TypeOK
<1>5. CASE Ask(p)
  <2>1. link /\ asked' = asked \cup {p} /\ snapshot' = [snapshot EXCEPT ![p] = value[p]]
    BY <1>5 DEF Ask
  <2>2. TypeOK'
    BY <1>1, <1>4, <2>1 DEF IInv, TypeOK
  <2>3. Cached'
    BY <1>1, <1>2, <1>4, <2>1 DEF IInv, TypeOK, Cached
  <2> QED
    BY <1>3, <2>2, <2>3 DEF IInv
<1>6. CASE Refuse(p)
  <2>1. asked' = asked \ {p} /\ snapshot' = [snapshot EXCEPT ![p] = NoValue]
    BY <1>6 DEF Refuse
  <2>2. TypeOK'
    BY <1>1, <1>4, <2>1 DEF IInv, TypeOK
  <2>3. Cached'
    BY <1>1, <1>2, <1>4, <2>1 DEF IInv, TypeOK, Cached
  <2> QED
    BY <1>3, <2>2, <2>3 DEF IInv
<1> QED
  BY <1>5, <1>6

LEMMA SubscribeStep ==
  ASSUME IInv, NEW p \in Paths, Subscribe(p)
  PROVE  IInv' /\ \A q \in Paths : Pressing(q)' \/ told'[q] = told[q]
                      \/ (Pressing(q) /\ told'[q].keys = told[q].keys)
<1>1. /\ p \in asked /\ asked' = asked \ {p} /\ on' = on \cup {p}
      /\ UNCHANGED <<link, held, value, mapped, decoder, fresh, overlap>>
  BY DEF Subscribe
<1>2. p \notin on /\ link
  BY <1>1 DEF IInv, TypeOK, Cached
<1>3. \A q : Exact(q) => Exact(q)'
  BY <1>1 DEF Exact, Notifies
<1>4. Shared'
  BY <1>1 DEF IInv, Shared
<1>5. CASE /\ unreplayed' = unreplayed \cup (IF snapshot[p] = NoValue THEN {} ELSE {p})
           /\ UNCHANGED <<snapshot, events>>
  <2>1. UNCHANGED <<active, usages, button, told, cut>>
    BY <1>5 DEF events
  <2>2. TypeOK'
    BY <1>1, <1>5, <2>1 DEF IInv, TypeOK
  <2>3. Matched' /\ Pressed' /\ Believed'
    BY <1>1, <1>3, <2>1 DEF IInv, Matched, Pressed, Pressing, Believed, Down
  <2>4. Cached'
    BY <1>1, <1>2, <1>3, <1>5 DEF IInv, TypeOK, Cached
  <2> QED
    BY <1>4, <2>1, <2>2, <2>3, <2>4 DEF IInv
<1>6. CASE value[p] # NoValue /\ Receive(p, value[p]) /\ UNCHANGED unreplayed
  <2> DEFINE v == value[p]
  <2>1. v \in SUBSET Down(p, Keys) /\ v \in SUBSET Keys
    BY <1>6, DownFacts DEF IInv, Cached
  <2>2. /\ snapshot' = [snapshot EXCEPT ![p] = NoValue]
        /\ EventsTyped' /\ Matched'
        /\ \A q \in Paths \ {p} : told'[q] = told[q] /\ (Pressing(q)' <=> Pressing(q))
              /\ usages'[q] = usages[q]
        /\ Pressing(p)' \/ told'[p] = told[p]
             \/ (Pressing(p) /\ told'[p].keys = told[p].keys)
        /\ \/ v = snapshot[p] /\ UNCHANGED <<told, cut, usages, button>>
           \/ v # snapshot[p] /\ Report(p, v)
    BY <1>6, <2>1, Typed, ReceiveStep DEF IInv
  <2>3. TypeOK'
    <3>1. snapshot' = [snapshot EXCEPT ![p] = NoValue]
      BY <2>2
    <3> QED
      BY <1>1, <1>6, <2>2, <3>1 DEF IInv, TypeOK, EventsTyped, Matched
  <2>4. Cached'
    <3>1. snapshot' = [snapshot EXCEPT ![p] = NoValue]
      BY <2>2
    <3> QED
      BY <1>1, <1>2, <1>3, <1>6, <3>1 DEF IInv, TypeOK, Cached
  <2>5. CASE v = snapshot[p]
    <3>1. UNCHANGED <<told, cut, usages, button>>
      BY <2>2, <2>5
    <3>2. Pressed' /\ Believed'
      BY <1>1, <1>3, <3>1 DEF IInv, Pressed, Pressing, Believed
    <3> QED
      BY <1>4, <2>2, <2>3, <2>4, <3>1, <3>2 DEF IInv
  <2>6. CASE v # snapshot[p]
    <3>1. Exact(p) /\ Exact(p)' /\ v = Down(p, held)
      BY <1>1, <1>3, <1>6, <2>6 DEF IInv, Cached, Exact
    <3>2. /\ Pressing(p)' <=> v # {}
          /\ v # {} => usages'[p] = Decode(v)
          /\ button' = CASE v # {} -> button \/ Search \in Decode(v)
                        [] v = {} -> button /\ ~(p \in active /\ Search \in usages[p])
      BY <2>1, <2>2, <2>6, Typed, ReportStep DEF IInv
    <3>3. Decode(v) \subseteq v /\ (Search \in Decode(v) <=> mapped /\ decoder /\ Search \in v)
      BY <2>1, Decoding
    <3>4. Pressed'
      <4>1. p \notin fresh
        BY <1>2 DEF IInv, TypeOK
      <4> QED
        BY <1>1, <1>3, <2>2, <3>1, <3>2, <4>1 DEF IInv, TypeOK, Pressed
    <3>5. Believed'
      <4>1. PathOf[Search] \in Paths
        BY KeyAssumption
      <4>2. CASE p # PathOf[Search]
        <5>1. Search \notin v /\ Search \notin usages[p]
          BY <2>1, <4>2 DEF Down, IInv, Matched
        <5>2. button' = button
          BY <3>2, <3>3, <5>1, Typed DEF EventsTyped
        <5> QED
          BY <1>1, <1>3, <2>2, <4>1, <4>2, <5>2 DEF IInv, Believed
      <4>3. CASE p = PathOf[Search] /\ Search \in held
        <5>1. Search \in v
          BY <3>1, <4>3, KeyAssumption DEF Down
        <5>2. button' => mapped /\ decoder
          BY <3>2, <3>3, <5>1 DEF IInv, Believed
        <5> QED
          BY <1>1, <3>1, <3>2, <3>3, <4>3, <5>1, <5>2 DEF Believed
      <4>4. CASE p = PathOf[Search] /\ Search \notin held
        <5>1. Search \notin v
          BY <3>1, <4>4 DEF Down
        <5>2. button' => button
          BY <3>2, <3>3, <5>1, Typed DEF EventsTyped
        <5> QED
          BY <1>1, <3>1, <4>4, <5>2 DEF IInv, Believed
      <4> QED
        BY <4>2, <4>3, <4>4
    <3> QED
      BY <1>4, <2>2, <2>3, <2>4, <3>4, <3>5 DEF IInv
  <2> QED
    BY <2>5, <2>6
<1> QED
  BY <1>5, <1>6 DEF Subscribe

(* ------------------------------ the theorems ----------------------------- *)

LEMMA InitIInv ==
  ASSUME Init
  PROVE  IInv
<1>1. TypeOK
  BY DEF Init, TypeOK, Quiet
<1>2. Matched /\ Pressed
  BY DEF Init, Matched, Pressed, Pressing, Quiet
<1>3. Cached /\ Shared /\ Believed
  BY DEF Init, Cached, Shared, Believed
<1> QED
  BY <1>1, <1>2, <1>3 DEF IInv

LEMMA SameIInv ==
  ASSUME IInv, UNCHANGED vars
  PROVE  IInv'
  BY DEF vars, remote, events, history, IInv, TypeOK, Matched, Cached, Pressed, Pressing, Shared, Believed,
         Exact, Notifies, Down

LEMMA StepIInv ==
  ASSUME IInv, [Next]_vars
  PROVE  IInv'
  BY MapStep, LinkStep, AskStep, SubscribeStep, KeyDownStep, KeyUpStep, SameIInv DEF Next

THEOREM Invariant == Spec => []IInv
<1>1. Init => IInv
  BY InitIInv
<1>2. IInv /\ [Next]_vars => IInv'
  BY StepIInv
<1> QED
  BY <1>1, <1>2, PTL DEF Spec

\* Every variable keeps to its values, and usages are remembered only for a
\* characteristic with a press (manager.py 1154-1216).
THEOREM TypeCorrect == Spec => []TypeOK
<1>1. IInv => TypeOK
  BY DEF IInv
<1> QED
  BY <1>1, Invariant, PTL

\* Listeners are told of a press if and only if there is one (manager.py 1163-1183), but
\* for a press that a link loss cut off.
THEOREM PressesAreTrue == Spec => []ToldIsHeld
<1>1. IInv => ToldIsHeld
  BY DEF IInv, Pressed, ToldIsHeld
<1> QED
  BY <1>1, Invariant, PTL

\* The voice button is believed to be down only while it is (manager.py 1197-1216).
THEOREM ButtonIsTrue == Spec => []ButtonMeansHeld
<1>1. IInv => ButtonMeansHeld
  BY DEF IInv, Believed, ButtonMeansHeld
<1> QED
  BY <1>1, Invariant, PTL

\* A step tells of a release only after a press, and with its keys.
LEMMA ReleaseStep ==
  ASSUME IInv, [Next]_vars, NEW p \in Paths
  PROVE  ~told'[p].down /\ told'[p] # told[p] =>
           Pressing(p) /\ told'[p].keys = told[p].keys
<1>1. CASE \E k \in Keys : KeyDown(k) \/ KeyUp(k)
  <2>1. PICK k \in Keys : KeyDown(k) \/ KeyUp(k)
    BY <1>1
  <2>2. /\ held' = held \cup {k} \/ held' = held \ {k}
        /\ held' # held /\ Send(PathOf[k], held')
        /\ UNCHANGED <<link, asked, on, mapped, decoder>>
    BY <2>1 DEF KeyDown, KeyUp
  <2> QED
    BY <2>2, SendStep DEF Pressing
<1>2. CASE \E q \in Paths : Subscribe(q)
  BY <1>2, SubscribeStep DEF Pressing
<1>3. CASE \/ Map \/ Connect \/ Disconnect \/ UNCHANGED vars
           \/ \E q \in Paths : Ask(q) \/ Refuse(q)
  BY <1>3 DEF Map, Connect, Disconnect, Ask, Refuse, vars, events
<1> QED
  BY <1>1, <1>2, <1>3 DEF Next

\* A release is published only after a press of its connection, with the usages of
\* that press (manager.py 1154-1195).
THEOREM ReleasesAreTrue == Spec => ReleaseMatchesPress
<1>1. IInv /\ [Next]_vars =>
        [\A p \in Paths :
           ~told'[p].down /\ told'[p] # told[p] =>
             Pressing(p) /\ told'[p].keys = told[p].keys]_vars
  BY ReleaseStep
<1> QED
  BY <1>1, Invariant, PTL DEF Spec, ReleaseMatchesPress

(* --------------------------- the console grabber -------------------------- *)

\* The order of async_stop that StoppedHoldsNothing rests on: the flag is set
\* before the release is queued, and no job passes its check afterwards.
StopOrder ==
  /\ stopping <=> loop \in {"releasing", "stopped"}
  /\ release # "none" => stopping
  /\ release = "done" => job # "locked" /\ Held = {}

RemoteNodes == {n \in Nodes : device[n] = "remote"}

\* What ActiveMeansHeld rests on: while no node changed since the scan, the
\* scan's result describes the nodes, on its way from the thread to _status.
ScanIsCurrent ==
  /\ loop = "sleeping" => job = "none"
  /\ settled /\ ~stopping =>
       /\ job = "locked" => matching = RemoteNodes
       /\ job = "returned" =>
            result.matching = RemoteNodes /\ result.grabbed \subseteq Held
       /\ loop = "sleeping" =>
            status.matching = RemoteNodes /\ status.grabbed \subseteq Held

\* Except for paths that were handed out again while open, a descriptor belongs
\* to the device now at its path or to one that is gone and was not replaced.
GrabsAreLive ==
  \A n \in Nodes \ reused : \/ fds[n] \in {"none", device[n]}
                            \/ fds[n] = "gone" /\ device[n] = "none"

GrabInv == GrabTypeOK /\ StopOrder

ActiveInv == GrabInv /\ ScanIsCurrent /\ GrabsAreLive

USE DEF grabVars, kernel, thread

\* The type invariant holds initially and is preserved by every step.
LEMMA GrabTypeInit == GrabInit => GrabTypeOK
<1>1. InputGrabStatus \in Status
  BY DEF InputGrabStatus, Status
<1> QED
  BY <1>1 DEF GrabInit, GrabTypeOK, Held, Devices

LEMMA TypeKernel == GrabTypeOK /\ Kernel => GrabTypeOK'
<1> SUFFICES ASSUME GrabTypeOK, Kernel PROVE GrabTypeOK'
  OBVIOUS
<1>1. ASSUME NEW n \in Nodes, NEW d \in Devices \ {"none"}, NodeAppears(n, d)
      PROVE  GrabTypeOK'
  BY <1>1 DEF NodeAppears, GrabTypeOK, Devices, Held
<1>2. ASSUME NEW n \in Nodes, NodeVanishes(n)
      PROVE  GrabTypeOK'
  BY <1>2 DEF NodeVanishes, GrabTypeOK, Devices, Held
<1> QED
  BY <1>1, <1>2 DEF Kernel

LEMMA TypeThread == GrabTypeOK /\ Thread => GrabTypeOK'
<1> SUFFICES ASSUME GrabTypeOK, Thread PROVE GrabTypeOK'
  OBVIOUS
<1>1. CASE ScanNodes
  <2>1. CASE MayReconcile
    BY <1>1, <2>1 DEF ScanNodes, ReleaseUnmatched, ToOpen, GrabTypeOK, Devices, Held
  <2>2. CASE ~MayReconcile
    BY <1>1, <2>2 DEF ScanNodes, GrabTypeOK, Held
  <2> QED
    BY <2>1, <2>2
<1>2. ASSUME NEW n \in Nodes, GrabNode(n)
      PROVE  GrabTypeOK'
  BY <1>2 DEF GrabNode, GrabTypeOK, Devices, Held
<1>3. ASSUME NEW n \in Nodes, GrabFails(n)
      PROVE  GrabTypeOK'
  BY <1>3 DEF GrabFails, GrabTypeOK, Held
<1>4. CASE ReturnStatus
  <2>1. result' \in Status
    BY <1>4 DEF ReturnStatus, GrabTypeOK, Status, Held
  <2> QED
    BY <1>4, <2>1 DEF ReturnStatus, GrabTypeOK, Held
<1>5. CASE ReleaseAll
  BY <1>5 DEF ReleaseAll, GrabTypeOK, Held, Devices
<1> QED
  BY <1>1, <1>2, <1>3, <1>4, <1>5 DEF Thread

LEMMA TypeLoop == GrabTypeOK /\ Loop => GrabTypeOK'
<1> SUFFICES ASSUME GrabTypeOK, Loop PROVE GrabTypeOK'
  OBVIOUS
<1>1. CASE Start
  BY <1>1 DEF Start, GrabTypeOK, Held
<1>2. CASE PublishStatus
  BY <1>2 DEF PublishStatus, GrabTypeOK, Held
<1>3. CASE Poll
  BY <1>3 DEF Poll, GrabTypeOK, Held
<1>4. CASE Stop
  BY <1>4 DEF Stop, GrabTypeOK, Held
<1>5. CASE DropResult
  BY <1>5 DEF DropResult, GrabTypeOK, Held
<1>6. CASE StopDone
  BY <1>6 DEF StopDone, GrabTypeOK, Held, InputGrabStatus, Status
<1> QED
  BY <1>1, <1>2, <1>3, <1>4, <1>5, <1>6 DEF Loop

LEMMA GrabTypeStep == GrabTypeOK /\ [GrabNext]_grabVars => GrabTypeOK'
<1>1. GrabTypeOK /\ UNCHANGED grabVars => GrabTypeOK'
  BY DEF GrabTypeOK, Held
<1> QED
  BY <1>1, TypeKernel, TypeThread, TypeLoop DEF GrabNext

\* Every variable of input_grab.py keeps to its type in every run.
THEOREM GrabTypeCorrect == GrabSpec => []GrabTypeOK
BY GrabTypeInit, GrabTypeStep, PTL DEF GrabSpec

-----------------------------------------------------------------------------
\* The order of async_stop is preserved by every step.
LEMMA OrderStep == GrabTypeOK /\ StopOrder /\ [GrabNext]_grabVars => StopOrder'
<1> SUFFICES ASSUME GrabTypeOK, StopOrder, [GrabNext]_grabVars PROVE StopOrder'
  OBVIOUS
<1> USE DEF StopOrder, Held
<1>1. ASSUME NEW n \in Nodes, NEW d \in Devices \ {"none"}, NodeAppears(n, d)
      PROVE  StopOrder'
  BY <1>1 DEF NodeAppears
<1>2. ASSUME NEW n \in Nodes, NodeVanishes(n)
      PROVE  StopOrder'
  BY <1>2 DEF NodeVanishes, GrabTypeOK
<1>3. CASE ScanNodes
  BY <1>3 DEF ScanNodes, MayReconcile
<1>4. ASSUME NEW n \in Nodes, GrabNode(n) \/ GrabFails(n)
      PROVE  StopOrder'
  BY <1>4 DEF GrabNode, GrabFails
<1>5. CASE ReturnStatus
  BY <1>5 DEF ReturnStatus
<1>6. CASE ReleaseAll
  BY <1>6 DEF ReleaseAll
<1>7. CASE Start
  BY <1>7 DEF Start
<1>8. CASE PublishStatus \/ Poll
  BY <1>8 DEF PublishStatus, Poll
<1>9. CASE Stop
  BY <1>9 DEF Stop
<1>10. CASE DropResult
  BY <1>10 DEF DropResult
<1>11. CASE StopDone
  BY <1>11 DEF StopDone
<1>12. CASE UNCHANGED grabVars
  BY <1>12
<1> QED
  BY <1>1, <1>2, <1>3, <1>4, <1>5, <1>6, <1>7, <1>8, <1>9, <1>10, <1>11, <1>12
  DEF GrabNext, Kernel, Thread, Loop

\* After async_stop has released the event nodes, no reconciliation that was
\* queued or running when it was called holds one again.
THEOREM StopIsFinal == GrabSpec => []StoppedHoldsNothing
<1>1. GrabInit => GrabInv
  BY GrabTypeInit DEF GrabInv, GrabInit, StopOrder
<1>2. GrabInv /\ [GrabNext]_grabVars => GrabInv'
  BY GrabTypeStep, OrderStep DEF GrabInv
<1>3. GrabInv => StoppedHoldsNothing
  BY DEF GrabInv, StopOrder, StoppedHoldsNothing
<1> QED
  BY <1>1, <1>2, <1>3, PTL DEF GrabSpec

-----------------------------------------------------------------------------
\* The scan stays current until the next change of a node.
LEMMA ScanStep == GrabInv /\ ScanIsCurrent /\ [GrabNext]_grabVars => ScanIsCurrent'
<1> SUFFICES ASSUME GrabInv, ScanIsCurrent, [GrabNext]_grabVars PROVE ScanIsCurrent'
  OBVIOUS
<1> USE DEF ScanIsCurrent, Held, RemoteNodes, GrabInv, StopOrder
<1>1. CASE Kernel
  BY <1>1 DEF Kernel, NodeAppears, NodeVanishes
<1>2. CASE ScanNodes
  BY <1>2 DEF ScanNodes, MayReconcile
<1>3. ASSUME NEW n \in Nodes, GrabNode(n)
      PROVE  ScanIsCurrent'
  BY <1>3 DEF GrabNode
<1>4. ASSUME NEW n \in Nodes, GrabFails(n)
      PROVE  ScanIsCurrent'
  BY <1>4 DEF GrabFails
<1>5. CASE ReturnStatus
  BY <1>5 DEF ReturnStatus
<1>6. CASE ReleaseAll
  BY <1>6 DEF ReleaseAll
<1>7. CASE Start
  BY <1>7 DEF Start
<1>8. CASE PublishStatus
  BY <1>8 DEF PublishStatus
<1>9. CASE Poll
  BY <1>9 DEF Poll
<1>10. CASE Stop \/ DropResult \/ StopDone
  BY <1>10 DEF Stop, DropResult, StopDone
<1>11. CASE UNCHANGED grabVars
  BY <1>11
<1> QED
  BY <1>1, <1>2, <1>3, <1>4, <1>5, <1>6, <1>7, <1>8, <1>9, <1>10, <1>11
  DEF GrabNext, Thread, Loop

\* A grab stays live for as long as its path is not handed out again.
LEMMA LiveStep == GrabTypeOK /\ GrabsAreLive /\ [GrabNext]_grabVars => GrabsAreLive'
<1> SUFFICES ASSUME GrabTypeOK, GrabsAreLive, [GrabNext]_grabVars PROVE GrabsAreLive'
  OBVIOUS
<1> USE DEF GrabsAreLive, GrabTypeOK
<1>1. ASSUME NEW n \in Nodes, NEW d \in Devices \ {"none"}, NodeAppears(n, d)
      PROVE  GrabsAreLive'
  BY <1>1 DEF NodeAppears, Held
<1>2. ASSUME NEW n \in Nodes, NodeVanishes(n)
      PROVE  GrabsAreLive'
  BY <1>2 DEF NodeVanishes
<1>3. CASE ScanNodes
  BY <1>3 DEF ScanNodes, ReleaseUnmatched
<1>4. ASSUME NEW n \in Nodes, GrabNode(n) \/ GrabFails(n)
      PROVE  GrabsAreLive'
  BY <1>4 DEF GrabNode, GrabFails
<1>5. CASE ReturnStatus \/ ReleaseAll
  BY <1>5 DEF ReturnStatus, ReleaseAll
<1>6. CASE Loop
  BY <1>6 DEF Loop, Start, PublishStatus, Poll, Stop, DropResult, StopDone
<1>7. CASE UNCHANGED grabVars
  BY <1>7
<1> QED
  BY <1>1, <1>2, <1>3, <1>4, <1>5, <1>6, <1>7 DEF GrabNext, Kernel, Thread

\* A sensor that is on tells the truth about every node of the remote that was
\* not recreated under a number the grabber still held.
THEOREM ActiveIsTrue == GrabSpec => []ActiveMeansHeld
<1>1. GrabInit => ActiveInv
  BY GrabTypeInit DEF GrabInit, ActiveInv, GrabInv, StopOrder, ScanIsCurrent, GrabsAreLive
<1>2. ActiveInv /\ [GrabNext]_grabVars => ActiveInv'
  BY GrabTypeStep, OrderStep, ScanStep, LiveStep DEF ActiveInv, GrabInv
<1>3. ActiveInv => ActiveMeansHeld
  <2> SUFFICES ASSUME ActiveInv, Active(status), settled, loop = "sleeping",
                      NEW n \in Nodes \ reused, device[n] = "remote"
               PROVE  fds[n] = "remote"
    BY DEF ActiveMeansHeld
  <2>1. ~stopping
    BY DEF ActiveInv, GrabInv, StopOrder
  <2>2. n \in status.matching /\ status.matching = status.grabbed
    BY <2>1 DEF ActiveInv, ScanIsCurrent, RemoteNodes, Active
  <2>3. n \in Held
    BY <2>1, <2>2 DEF ActiveInv, ScanIsCurrent
  <2> QED
    BY <2>3 DEF ActiveInv, GrabsAreLive, Held
<1> QED
  BY <1>1, <1>2, <1>3, PTL DEF GrabSpec
=============================================================================
