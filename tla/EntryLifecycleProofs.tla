------------------------ MODULE EntryLifecycleProofs ------------------------
(* Machine-checked, for every order of set-ups, reloads, rebuilds, closed     *)
(* flows and restarts: no manager runs without an entry that has use for it,  *)
(* and no bond of ours is left without a loaded entry, but in the ways that   *)
(* are named, and one call at a time works on the bond.                       *)
EXTENDS EntryLifecycle, TLAPS

(* ------------------------------ the invariant ---------------------------- *)

SettingUp == {"load mapper", "start", "forward", "undo"}
Unloading == {"unload platforms", "stop manager"}

\* What the operation under the lock of the entry knows about the entry.
Locked ==
    /\ op.at \in Unloading =>
           state = "loaded" /\ op.by \in {"reload", "remove", "rebuild"}
    /\ op.at \in SettingUp => state = "not_loaded"
    /\ op.at \in {"start", "forward", "undo"} => manager
    /\ op.at = "forget" => state = "absent"
    /\ wanted \subseteq {"reload", "remove"}
    /\ manager \in BOOLEAN /\ stray \in BOOLEAN

\* The task of the rebuild and its own operation.
Rebuilding ==
    /\ rebuild = "unload" <=> op.by = "rebuild" /\ op.at \in Unloading
    /\ rebuild = "load" <=> op.by = "rebuild" /\ op.at \in SettingUp

\* The first part of ManagerFollowsEntry; the second one, which rests on the history,
\* is proved from this invariant.
Managed == state = "loaded" => manager

EntryInv == Locked /\ Rebuilding /\ Managed

\* The set-up flow lives without an entry, and no rebuild works meanwhile.
Apart ==
    step # "none" \/ task # "none" =>
        state = "absent" /\ op = NoOp /\ rebuild \in {"idle", "created", "done"}

\* The task of the flow and what it shows.
Shown ==
    /\ task \notin {"none", "closing"} => step = "progress"
    /\ task = "closing" => step = "none"
    /\ rebuild = "closing" => opts = "none"

FlowInv == Apart /\ Shown /\ OneCall

IInv == EntryInv /\ FlowInv

(* --------------------------- what the lemmas need ------------------------ *)

\* A step that leaves the set-up flow alone keeps what it relies on.
LEMMA FlowKept ==
    ASSUME FlowInv, UNCHANGED flowVars,
           Contract!Running' => Contract!Running,
           step # "none" \/ task # "none" =>
               UNCHANGED <<state, op>> /\ rebuild' \in {"idle", "created", "done"},
           rebuild' = "closing" => opts' = "none",
           rebuild' = "call" => ~Contract!Running',
           Contract!Running' => (rebuild \in {"pair", "closing"} <=> rebuild' \in {"pair", "closing"})
    PROVE  FlowInv'
<1>1. Apart' /\ Shown'
  BY DEF FlowInv, Apart, Shown, flowVars
<1>2. OneCall'
  BY DEF FlowInv, OneCall, flowVars, Pairs
<1> QED
  BY <1>1, <1>2 DEF FlowInv

\* Calls that go on untouched, or end.
LEMMA CallGoesOn ==
    ASSUME Removal \/ Contract!OtherRemoves \/ Contract!Others \/ Contract!Works
               \/ Contract!Refuses \/ UNCHANGED bondVars
    PROVE  call' = call
  BY DEF Removal, bondVars, Contract!Others, Contract!OtherRemoves, Contract!OtherPairs,
         Contract!Resolves, Contract!Works, Contract!Refuses

LEMMA CallEnds ==
    ASSUME NEW r, Contract!Ends(r)
    PROVE  ~Contract!Running' /\ Contract!Running
  BY DEF Contract!Ends, Contract!Running

LEMMA CallNoted ==
    ASSUME Noted
    PROVE  call' = call \/ ~Contract!Running'
  BY DEF Noted, bondVars, Contract!Forgets, Contract!Running

LEMMA Operating ==
    /\ NoOp.by = "nobody" /\ NoOp.at = "nowhere"
    /\ \A b, a : Op(b, a).by = b /\ Op(b, a).at = a
  BY DEF NoOp, Op

LEMMA SetUpStep ==
    ASSUME EntryInv, op.at \in SettingUp, NEW good \in BOOLEAN, SetUp(op.by, good),
           manager' \in BOOLEAN, good => manager', UNCHANGED <<stray, wanted>>
    PROVE  EntryInv' /\ op' = NoOp
<1>1. op' = NoOp /\ op'.at = "nowhere" /\ op'.by = "nobody"
  BY DEF SetUp, NoOp
<1>2. rebuild' \notin {"unload", "load"}
  BY DEF SetUp, EntryInv, Rebuilding, Unloading, SettingUp
<1>3. state' = "loaded" => manager'
  BY DEF SetUp
<1> QED
  BY <1>1, <1>2, <1>3 DEF EntryInv, Locked, Rebuilding, Managed, Unloading, SettingUp

LEMMA UnloadedStep ==
    ASSUME EntryInv, NEW b \in {"reload", "remove", "rebuild"}, NEW good \in BOOLEAN,
           Unloaded(b, good), wanted' \subseteq {"reload", "remove"},
           manager' \in BOOLEAN, UNCHANGED stray,
           op = NoOp \/ (op.at \in Unloading /\ op.by = b)
    PROVE  EntryInv'
<1>1. state' # "loaded"
  BY DEF Unloaded
<1>2. op.by \in {"nobody", b} /\ (op.by = b => op.at \in Unloading)
  BY Operating
<1>3. (rebuild = "unload" => b = "rebuild") /\ rebuild # "load"
  BY <1>2 DEF EntryInv, Rebuilding, Unloading, SettingUp
<1>4. CASE b = "reload"
  <2>1. /\ op' = IF good THEN Op("reload", "load mapper") ELSE NoOp
        /\ state' = IF good THEN "not_loaded" ELSE "failed_unload"
        /\ UNCHANGED rebuild
    BY <1>4 DEF Unloaded
  <2> QED
    BY <1>1, <1>2, <1>3, <1>4, <2>1
    DEF EntryInv, Locked, Rebuilding, Managed, At, Op, NoOp, Unloading, SettingUp
<1>5. CASE b = "remove"
  <2>1. op' = Op("remove", "forget") /\ state' = "absent" /\ UNCHANGED rebuild
    BY <1>5 DEF Unloaded
  <2> QED
    BY <1>1, <1>2, <1>3, <1>5, <2>1
    DEF EntryInv, Locked, Rebuilding, Managed, At, Op, NoOp, Unloading, SettingUp
<1>6. CASE b = "rebuild"
  <2>1. /\ op' = NoOp /\ state' = IF good THEN "not_loaded" ELSE "failed_unload"
        /\ rebuild' = IF good THEN "call" ELSE "done"
    BY <1>6 DEF Unloaded
  <2> QED
    BY <1>1, <2>1
    DEF EntryInv, Locked, Rebuilding, Managed, At, Op, NoOp, Unloading, SettingUp
<1> QED
  BY <1>4, <1>5, <1>6

\* Of the rebuild the unload changes no more than that it calls, or is done.
LEMMA UnloadedRebuild ==
    ASSUME NEW b \in {"reload", "remove", "rebuild"}, NEW good, Unloaded(b, good)
    PROVE  rebuild' = rebuild \/ (b = "rebuild" /\ rebuild' \in {"call", "done"})
  BY DEF Unloaded

(* --------------------------- the entry's steps --------------------------- *)

\* A step of the entry keeps the flow, if the rebuild has no more than its own
\* operation in it.
LEMMA FlowBeside ==
    ASSUME IInv, UNCHANGED flowVars, UNCHANGED opts, call' = call, state # "absent" \/ op # NoOp,
           \/ rebuild' = rebuild
           \/ /\ rebuild \in {"created", "unload", "load"}
              /\ rebuild' \in {"call", "done", "remove"}
    PROVE  FlowInv'
<1>1. step = "none" /\ task = "none"
  BY DEF IInv, FlowInv, Apart
<1>2. Contract!Running' <=> Contract!Running
  BY DEF Contract!Running
<1>3. rebuild' = "call" => ~Contract!Running'
  BY <1>1, <1>2 DEF IInv, FlowInv, OneCall
<1>4. rebuild' = "closing" => opts' = "none"
  BY DEF IInv, FlowInv, Shown
<1> QED
  BY <1>1, <1>2, <1>3, <1>4, FlowKept DEF IInv

LEMMA MapperLoadsStep ==
    ASSUME IInv, MapperLoads
    PROVE  IInv'
<1>1. op.at = "load mapper" /\ op # NoOp
  BY Operating DEF MapperLoads, At
<1>0. /\ state = "not_loaded" /\ op.at \in SettingUp
      /\ manager \in BOOLEAN /\ stray \in BOOLEAN
  BY <1>1 DEF IInv, EntryInv, Locked, SettingUp
<1>2. UNCHANGED <<flowVars, wanted, opts>> /\ call' = call
  BY DEF MapperLoads, bondVars
<1>3. CASE SetUp(op.by, FALSE) /\ UNCHANGED <<manager, stray>>
  <2>1. EntryInv'
    BY <1>0, <1>1, <1>2, <1>3, SetUpStep DEF IInv, EntryInv, Locked
  <2>2. rebuild' = rebuild \/ (rebuild = "load" /\ rebuild' = "remove")
    BY <1>0, <1>1, <1>3 DEF SetUp, IInv, EntryInv, Rebuilding
  <2> QED
    BY <1>0, <1>1, <1>2, <2>1, <2>2, FlowBeside DEF IInv
<1>4. CASE /\ op' = Op(op.by, "start") /\ manager' = TRUE /\ stray' = (stray \/ manager)
           /\ UNCHANGED <<state, rebuild, bondError>>
  <2>1. op'.by = op.by /\ op'.at = "start"
    BY <1>4 DEF Op
  <2>2. EntryInv'
    BY <1>0, <1>1, <1>2, <1>4, <2>1
    DEF IInv, EntryInv, Locked, Rebuilding, Managed, Unloading, SettingUp
  <2> QED
    BY <1>0, <1>1, <1>2, <1>4, <2>2, FlowBeside DEF IInv
<1>5. \/ SetUp(op.by, FALSE) /\ UNCHANGED <<manager, stray>>
      \/ /\ op' = Op(op.by, "start") /\ manager' = TRUE /\ stray' = (stray \/ manager)
         /\ UNCHANGED <<state, rebuild, bondError>>
  BY DEF MapperLoads
<1> QED
  BY <1>3, <1>4, <1>5

LEMMA SetUpGoesStep ==
    ASSUME IInv, SetUpGoes \/ SetUpRaises \/ UndoesSetUp
    PROVE  IInv'
<1>1. op.at \in {"start", "forward", "undo"} /\ op # NoOp
  BY Operating DEF SetUpGoes, SetUpRaises, UndoesSetUp, At
<1>0. manager = TRUE /\ state = "not_loaded" /\ op.at \in SettingUp
  BY <1>1 DEF IInv, EntryInv, Locked, SettingUp
<1>2. UNCHANGED <<flowVars, stray, wanted, opts>> /\ call' = call
  BY DEF SetUpGoes, SetUpRaises, UndoesSetUp, bondVars
<1>3. CASE \E good \in BOOLEAN : SetUp(op.by, good) /\ manager' = good
  <2>1. EntryInv'
    BY <1>0, <1>1, <1>2, <1>3, SetUpStep DEF IInv
  <2>2. rebuild' = rebuild \/ (rebuild = "load" /\ rebuild' \in {"remove", "done"})
    BY <1>0, <1>1, <1>3 DEF SetUp, IInv, EntryInv, Rebuilding
  <2> QED
    BY <1>0, <1>1, <1>2, <2>1, <2>2, FlowBeside DEF IInv
<1>4. CASE /\ op' = Op(op.by, "forward") \/ op' = Op(op.by, "undo")
           /\ UNCHANGED <<state, manager, rebuild>>
  <2>1. op'.by = op.by /\ op'.at \in {"forward", "undo"}
    BY <1>4 DEF Op
  <2>2. EntryInv'
    BY <1>0, <1>1, <1>2, <1>4, <2>1
    DEF IInv, EntryInv, Locked, Rebuilding, Managed, Unloading, SettingUp
  <2> QED
    BY <1>0, <1>1, <1>2, <1>4, <2>2, FlowBeside DEF IInv
<1>5. \/ SetUp(op.by, TRUE) /\ manager' = manager
      \/ SetUp(op.by, FALSE) /\ manager' = FALSE
      \/ /\ op' = Op(op.by, "forward") \/ op' = Op(op.by, "undo")
         /\ UNCHANGED <<state, manager, rebuild>>
  BY DEF SetUpGoes, SetUpRaises, UndoesSetUp
<1> QED
  BY <1>0, <1>1, <1>3, <1>4, <1>5

LEMMA UnloadsStep ==
    ASSUME IInv, PlatformsUnload \/ ManagerStops
    PROVE  IInv'
<1>1. op.at \in Unloading /\ op # NoOp
  BY Operating DEF PlatformsUnload, ManagerStops, At, Unloading
<1>0. state = "loaded" /\ op.by \in {"reload", "remove", "rebuild"}
  BY <1>1 DEF IInv, EntryInv, Locked
<1>2. /\ UNCHANGED <<flowVars, stray, wanted, opts>> /\ call' = call
      /\ wanted \subseteq {"reload", "remove"} /\ manager' \in BOOLEAN
  BY DEF PlatformsUnload, ManagerStops, bondVars, IInv, EntryInv, Locked
<1>3. CASE \E good \in BOOLEAN : Unloaded(op.by, good)
  <2>1. EntryInv'
    BY <1>0, <1>1, <1>2, <1>3, UnloadedStep DEF IInv
  <2>2. rebuild' = rebuild \/ (rebuild = "unload" /\ rebuild' \in {"call", "done"})
    BY <1>0, <1>1, <1>3, UnloadedRebuild DEF IInv, EntryInv, Rebuilding
  <2> QED
    BY <1>0, <1>1, <1>2, <2>1, <2>2, FlowBeside DEF IInv
<1>4. CASE op' = Op(op.by, "stop manager") /\ UNCHANGED <<state, manager, rebuild>>
  <2>1. op'.by = op.by /\ op'.at = "stop manager"
    BY <1>4 DEF Op
  <2>2. EntryInv'
    BY <1>0, <1>1, <1>2, <1>4, <2>1
    DEF IInv, EntryInv, Locked, Rebuilding, Managed, Unloading, SettingUp
  <2> QED
    BY <1>0, <1>1, <1>2, <1>4, <2>2, FlowBeside DEF IInv
<1>5. \/ Unloaded(op.by, FALSE) \/ Unloaded(op.by, TRUE)
      \/ op' = Op(op.by, "stop manager") /\ UNCHANGED <<state, manager, rebuild>>
  BY DEF PlatformsUnload, ManagerStops
<1> QED
  BY <1>3, <1>4, <1>5


\* A step that leaves the entry alone keeps what holds of it.
LEMMA EntryKept ==
    ASSUME EntryInv, UNCHANGED <<state, manager, stray, op>>, wanted' \subseteq {"reload", "remove"},
           rebuild' = rebuild \/ {rebuild, rebuild'} \cap {"unload", "load"} = {}
    PROVE  EntryInv'
<1>1. (rebuild' = "unload" <=> rebuild = "unload") /\ (rebuild' = "load" <=> rebuild = "load")
  OBVIOUS
<1> QED
  BY <1>1 DEF EntryInv, Locked, Rebuilding, Managed, At

LEMMA LockTakenStep ==
    ASSUME IInv, LockTaken
    PROVE  IInv'
<1>1. PICK w \in wanted :
          /\ wanted' = IF w = "remove" THEN {} ELSE wanted \ {w}
          /\ IF state = "absent" \/ (state = "failed_unload" /\ w = "reload")
             THEN UNCHANGED <<state, op, rebuild, bondError>>
             ELSE BeginsUnload(w)
  BY DEF LockTaken
<1>2. /\ op = NoOp /\ UNCHANGED <<flowVars, opts, manager, stray>> /\ call' = call
      /\ manager \in BOOLEAN
      /\ w \in {"reload", "remove"} /\ wanted' \subseteq {"reload", "remove"}
  BY <1>1 DEF LockTaken, bondVars, IInv, EntryInv, Locked
<1>3. CASE UNCHANGED <<state, op, rebuild>>
  <2>1. EntryInv'
    BY <1>2, <1>3, EntryKept DEF IInv
  <2>2. Contract!Running' <=> Contract!Running
    BY <1>2 DEF Contract!Running
  <2>3. FlowInv'
    BY <1>2, <1>3, <2>2, FlowKept DEF IInv, FlowInv, Apart, Shown, OneCall
  <2> QED
    BY <2>1, <2>3 DEF IInv
<1>4. CASE state = "loaded" /\ op' = Op(w, "unload platforms") /\ UNCHANGED <<state, rebuild>>
  <2>1. op'.by = w /\ op'.at = "unload platforms" /\ op.by = "nobody"
    BY <1>2, <1>4, Operating
  <2>2. EntryInv'
    BY <1>2, <1>4, <2>1
    DEF IInv, EntryInv, Locked, Rebuilding, Managed, At, Unloading, SettingUp
  <2> QED
    BY <1>2, <1>4, <2>2, FlowBeside DEF IInv
<1>5. CASE state # "absent" /\ \E good \in BOOLEAN : Unloaded(w, good)
  <2>1. EntryInv'
    BY <1>2, <1>5, UnloadedStep DEF IInv
  <2>2. rebuild' = rebuild
    BY <1>2, <1>5, UnloadedRebuild
  <2> QED
    BY <1>2, <1>5, <2>1, <2>2, FlowBeside DEF IInv
<1>6. (state # "failed_unload") \in BOOLEAN
  OBVIOUS
<1> QED
  BY <1>1, <1>3, <1>4, <1>5, <1>6 DEF BeginsUnload

LEMMA BondForgottenStep ==
    ASSUME IInv, BondForgotten
    PROVE  IInv'
<1>1. op.at = "forget" /\ op # NoOp
  BY Operating DEF BondForgotten, At
<1>2. /\ op' = NoOp /\ UNCHANGED <<flowVars, state, wanted, opts, rebuild>>
      /\ call' = call /\ manager' = FALSE /\ stray' = (stray \/ manager)
  BY CallGoesOn DEF BondForgotten
<1>3. op'.by = "nobody" /\ op'.at = "nowhere"
  BY <1>2, Operating
<1>4. EntryInv'
  BY <1>1, <1>2, <1>3
  DEF IInv, EntryInv, Locked, Rebuilding, Managed, At, Unloading, SettingUp
<1> QED
  BY <1>1, <1>2, <1>4, FlowBeside DEF IInv

(* ------------------------- the rebuild and the user ---------------------- *)

LEMMA UserStep ==
    ASSUME IInv, OptionsSaved \/ UserWants \/ OptionsOpen \/ RebuildSubmitted \/ RebuildResult
    PROVE  IInv'
<1>1. UNCHANGED <<flowVars, state, manager, stray, op>> /\ call' = call
  BY DEF OptionsSaved, UserWants, OptionsOpen, RebuildSubmitted, RebuildResult, bondVars
<1>2. /\ wanted' \subseteq {"reload", "remove"}
      /\ rebuild' = rebuild \/ (rebuild = "idle" /\ rebuild' = "created")
  BY DEF OptionsSaved, UserWants, OptionsOpen, RebuildSubmitted, RebuildResult, IInv, EntryInv,
         Locked
<1>3. opts = "none" => opts' = "none" \/ rebuild' = "idle"
  BY DEF OptionsSaved, UserWants, OptionsOpen, RebuildSubmitted, RebuildResult
<1>4. EntryInv'
  BY <1>1, <1>2, EntryKept DEF IInv
<1>5. Contract!Running' <=> Contract!Running
  BY <1>1 DEF Contract!Running
<1>6. FlowInv'
  BY <1>1, <1>2, <1>3, <1>5, FlowKept DEF IInv, FlowInv, Apart, Shown, OneCall
<1> QED
  BY <1>4, <1>6 DEF IInv

LEMMA RebuildUnloadsStep ==
    ASSUME IInv, RebuildUnloads
    PROVE  IInv'
<1>1. /\ rebuild = "created" /\ UNCHANGED <<flowVars, manager, stray, wanted, opts>>
      /\ call' = call /\ manager \in BOOLEAN /\ wanted \subseteq {"reload", "remove"}
  BY DEF RebuildUnloads, bondVars, IInv, EntryInv, Locked
<1>2. CASE rebuild' = "done" /\ UNCHANGED <<state, op>>
  <2>1. EntryInv'
    BY <1>1, <1>2, EntryKept DEF IInv
  <2>2. Contract!Running' <=> Contract!Running
    BY <1>1 DEF Contract!Running
  <2>3. FlowInv'
    BY <1>1, <1>2, <2>2, FlowKept DEF IInv, FlowInv, Apart, Shown, OneCall
  <2> QED
    BY <2>1, <2>3 DEF IInv
<1>3. CASE /\ state = "loaded" /\ op = NoOp /\ op' = Op("rebuild", "unload platforms")
           /\ rebuild' = "unload" /\ UNCHANGED state
  <2>1. op'.by = "rebuild" /\ op'.at = "unload platforms"
    BY <1>3, Operating
  <2>2. EntryInv'
    BY <1>1, <1>3, <2>1
    DEF IInv, EntryInv, Locked, Rebuilding, Managed, At, Unloading, SettingUp
  <2>3. step = "none" /\ task = "none"
    BY <1>3 DEF IInv, FlowInv, Apart
  <2>4. Contract!Running' <=> Contract!Running
    BY <1>1 DEF Contract!Running
  <2>5. FlowInv'
    BY <1>1, <1>3, <2>3, <2>4, FlowKept DEF IInv, FlowInv, Apart, Shown, OneCall
  <2> QED
    BY <2>2, <2>5 DEF IInv
<1>4. CASE state # "absent" /\ op = NoOp /\ Unloaded("rebuild", TRUE)
  <2>1. EntryInv'
    BY <1>1, <1>4, UnloadedStep DEF IInv
  <2>2. rebuild' = rebuild \/ rebuild' \in {"call", "done"}
    BY <1>4, UnloadedRebuild
  <2> QED
    BY <1>1, <1>4, <2>1, <2>2, FlowBeside DEF IInv
<1>5. \/ rebuild' = "done" /\ UNCHANGED <<state, op>>
      \/ /\ state = "loaded" /\ op = NoOp /\ op' = Op("rebuild", "unload platforms")
         /\ rebuild' = "unload" /\ UNCHANGED state
      \/ state # "absent" /\ op = NoOp /\ Unloaded("rebuild", TRUE)
  BY DEF RebuildUnloads
<1> QED
  BY <1>2, <1>3, <1>4, <1>5

LEMMA RebuildCallsStep ==
    ASSUME IInv, RebuildCalls
    PROVE  IInv'
<1>1. /\ rebuild = "call" /\ UNCHANGED <<flowVars, state, manager, stray, op, wanted, opts>>
      /\ wanted \subseteq {"reload", "remove"}
  BY DEF RebuildCalls, IInv, EntryInv, Locked
<1>2. rebuild' \in {"pair", "setup", "done"} /\ (Contract!Running' => rebuild' = "pair")
  BY DEF RebuildCalls, Rebuilt, Contract!Starts, Contract!Running
<1>3. step = "none" /\ task = "none"
  BY <1>1 DEF IInv, FlowInv, Apart
<1>4. EntryInv'
  BY <1>1, <1>2, EntryKept DEF IInv
<1>5. Apart' /\ Shown'
  BY <1>1, <1>2, <1>3 DEF Apart, Shown, flowVars
<1>6. OneCall'
  BY <1>1, <1>2, <1>3 DEF OneCall, flowVars
<1> QED
  BY <1>4, <1>5, <1>6 DEF IInv, FlowInv

LEMMA RebuildEndsStep ==
    ASSUME IInv, RebuildReturns \/ RebuildRemoves \/ RebuildProgresses
    PROVE  IInv'
<1>1. /\ UNCHANGED <<flowVars, state, manager, stray, op, wanted>>
      /\ wanted \subseteq {"reload", "remove"} /\ (opts = "none" => opts' = "none")
      /\ rebuild \in {"pair", "closing", "remove", "done"}
      /\ rebuild' \in {"idle", "setup", "done"}
  BY DEF RebuildReturns, RebuildRemoves, RebuildProgresses, Rebuilt, IInv, EntryInv, Locked
<1>2. Contract!Running' => Contract!Running /\ rebuild \notin {"pair", "closing"}
  BY CallEnds, CallGoesOn, CallNoted
  DEF RebuildReturns, RebuildRemoves, RebuildProgresses, Contract!Running
<1>3. step # "none" \/ task # "none" => rebuild' \in {"idle", "done"}
  BY <1>1 DEF RebuildReturns, RebuildRemoves, RebuildProgresses, IInv, FlowInv, Apart
<1>4. EntryInv'
  BY <1>1, EntryKept DEF IInv
<1>5. FlowInv'
  BY <1>1, <1>2, <1>3, FlowKept DEF IInv
<1> QED
  BY <1>4, <1>5 DEF IInv

LEMMA RebuildSetsUpStep ==
    ASSUME IInv, RebuildSetsUp
    PROVE  IInv'
<1>1. /\ rebuild = "setup" /\ UNCHANGED <<flowVars, state, manager, stray, wanted, opts>>
      /\ wanted \subseteq {"reload", "remove"} /\ rebuild' \in {"load", "remove"}
  BY DEF RebuildSetsUp, IInv, EntryInv, Locked
<1>2. Contract!Running' => Contract!Running
  BY CallNoted DEF RebuildSetsUp, Contract!Running
<1>3. step = "none" /\ task = "none"
  BY <1>1 DEF IInv, FlowInv, Apart
<1>4. FlowInv'
  BY <1>1, <1>2, <1>3, FlowKept DEF IInv
<1>5. CASE rebuild' = "remove" /\ UNCHANGED op
  <2>1. EntryInv'
    BY <1>1, <1>5, EntryKept DEF IInv
  <2> QED
    BY <1>4, <2>1 DEF IInv
<1>6. CASE /\ state = "not_loaded" /\ op = NoOp /\ op' = Op("rebuild", "load mapper")
           /\ rebuild' = "load"
  <2>1. op'.by = "rebuild" /\ op'.at = "load mapper" /\ op.at = "nowhere"
    BY <1>6, Operating
  <2>2. EntryInv'
    BY <1>1, <1>6, <2>1
    DEF IInv, EntryInv, Locked, Rebuilding, Managed, At, Unloading, SettingUp
  <2> QED
    BY <1>4, <2>2 DEF IInv
<1> QED
  BY <1>5, <1>6 DEF RebuildSetsUp


(* ---------------------------- the set-up flow ---------------------------- *)

\* What a flow that goes on, or whose task does, tells of the rest.
LEMMA FlowAlone ==
    ASSUME IInv, step # "none" \/ task # "none"
    PROVE  /\ state = "absent" /\ op = NoOp /\ rebuild \in {"idle", "created", "done"}
           /\ ~Protected
           /\ Contract!Running => task = "closing" \/ (task = "running" /\ Pairs)
<1>1. state = "absent" /\ op = NoOp /\ rebuild \in {"idle", "created", "done"}
  BY DEF IInv, FlowInv, Apart
<1>2. op.at = "nowhere"
  BY <1>1, Operating
<1> QED
  BY <1>1, <1>2 DEF Protected, IInv, FlowInv, OneCall

LEMMA FlowTaskStep ==
    ASSUME IInv, TaskBegins \/ TaskEnds \/ Progresses, UNCHANGED entryVars
    PROVE  IInv'
<1>1. step # "none" \/ task # "none"
  BY DEF TaskBegins, TaskEnds, Progresses
<1>2. UNCHANGED <<state, manager, stray, op, wanted, opts, rebuild>>
  BY DEF entryVars
<1>3. /\ state = "absent" /\ op = NoOp /\ rebuild \in {"idle", "created", "done"}
      /\ Contract!Running => task = "closing" \/ (task = "running" /\ Pairs)
  BY <1>1, FlowAlone
<1>4. EntryInv'
  BY <1>2, EntryKept DEF IInv, EntryInv, Locked
<1>5. Apart'
  BY <1>2, <1>3 DEF Apart
<1>6. CASE TaskBegins /\ Pairs
  <2>1. /\ task = "created" /\ UNCHANGED <<step, operation>>
        /\ \/ task' = "running"
           \/ task' \in {"reused", "stale", "notfound"} /\ ~Contract!Running'
    BY <1>6 DEF TaskBegins, Contract!Starts, Contract!Running
  <2>2. Pairs'
    BY <1>6, <2>1 DEF Pairs
  <2> QED
    BY <1>2, <1>3, <1>4, <1>5, <2>1, <2>2 DEF IInv, FlowInv, Shown, OneCall
<1>7. CASE TaskBegins /\ ~Pairs
  <2>1. /\ task = "created" /\ task' = "running" /\ UNCHANGED <<step, call>>
    BY <1>7 DEF TaskBegins, bondVars
  <2>2. ~Contract!Running'
    BY <1>3, <2>1 DEF Contract!Running
  <2> QED
    BY <1>2, <1>3, <1>4, <1>5, <2>1, <2>2 DEF IInv, FlowInv, Shown, OneCall
<1>8. CASE TaskEnds
  <2>1. UNCHANGED step
    BY <1>8 DEF TaskEnds
  <2>2. CASE /\ task = "running" /\ Pairs
             /\ \E r \in Told : Contract!Ends(r) /\ task' = r
    <3>1. ~Contract!Running' /\ task' \in Told
      BY <2>2, CallEnds
    <3> QED
      BY <1>2, <1>3, <1>4, <1>5, <2>1, <2>2, <3>1 DEF IInv, FlowInv, Shown, OneCall, Told
  <2>3. CASE task = "running" /\ ~Pairs /\ task' \in {"ok", "error"} /\ UNCHANGED bondVars
    <3>1. ~Contract!Running'
      BY <1>3, <2>3 DEF bondVars, Contract!Running
    <3> QED
      BY <1>2, <1>3, <1>4, <1>5, <2>1, <2>3, <3>1 DEF IInv, FlowInv, Shown, OneCall
  <2>4. CASE task = "closing" /\ Contract!Ends("cancelled") /\ task' = "none"
    <3>1. ~Contract!Running'
      BY <2>4, CallEnds
    <3> QED
      BY <1>2, <1>3, <1>4, <1>5, <2>1, <2>4, <3>1 DEF IInv, FlowInv, Shown, OneCall
  <2> QED
    BY <1>8, <2>2, <2>3, <2>4 DEF TaskEnds
<1>9. CASE Progresses
  <2>1. /\ task \notin {"none", "closing", "running"} /\ task' = "none"
        /\ step' = "pairing_result"
    BY <1>9 DEF Progresses, Done
  <2>2. ~Contract!Running'
    BY <1>3, <1>9, <2>1, CallNoted DEF Progresses, Contract!Running
  <2> QED
    BY <1>2, <1>3, <1>4, <1>5, <2>1, <2>2 DEF IInv, FlowInv, Shown, OneCall
<1> QED
  BY <1>6, <1>7, <1>8, <1>9

LEMMA SubmitsStep ==
    ASSUME IInv, NEW o \in Operations, Submits(o), UNCHANGED entryVars
    PROVE  IInv'
<1>1. step # "none" /\ step' = "progress" /\ UNCHANGED call
  BY DEF Submits, Offers, FormOf, Operations, bondVars
<1>2. UNCHANGED <<state, manager, stray, op, wanted, opts, rebuild>>
  BY DEF entryVars
<1>3. /\ state = "absent" /\ op = NoOp /\ rebuild \in {"idle", "created", "done"}
      /\ Contract!Running => task = "closing" \/ (task = "running" /\ Pairs)
  BY <1>1, FlowAlone
<1>4. EntryInv'
  BY <1>2, EntryKept DEF IInv, EntryInv, Locked
<1>5. task # "closing"
  BY <1>1 DEF IInv, FlowInv, Shown
<1>6. (task = "none" /\ task' = "created") \/ UNCHANGED <<task, operation>>
  BY DEF Submits
<1>7. Contract!Running' <=> Contract!Running
  BY <1>1 DEF Contract!Running
<1>8. Apart' /\ Shown'
  BY <1>1, <1>2, <1>3, <1>5, <1>6 DEF Apart, Shown
<1>9. OneCall'
  BY <1>2, <1>3, <1>6, <1>7 DEF IInv, FlowInv, OneCall, Pairs
<1> QED
  BY <1>4, <1>8, <1>9 DEF IInv, FlowInv

LEMMA BesideStep ==
    ASSUME IInv, Beside
    PROVE  IInv'
<1>1. UNCHANGED <<state, manager, stray, op, wanted, opts, rebuild>> /\ UNCHANGED entryVars
  BY DEF Beside, entryVars
<1>2. EntryInv'
  BY <1>1, EntryKept DEF IInv, EntryInv, Locked
<1>3. CASE FlowOpens /\ state = "absent" /\ op = NoOp /\ rebuild = "idle"
  <2>1. task = "none" /\ UNCHANGED <<task, call>>
    BY <1>3 DEF FlowOpens, bondVars
  <2>2. ~Contract!Running'
    BY <1>3, <2>1 DEF IInv, FlowInv, OneCall, Contract!Running
  <2> QED
    BY <1>1, <1>2, <1>3, <2>1, <2>2 DEF IInv, FlowInv, Apart, Shown, OneCall
<1>4. CASE BondChanges
  <2>1. UNCHANGED flowVars /\ call' = call
    BY <1>4, CallGoesOn DEF BondChanges
  <2>2. Contract!Running' <=> Contract!Running
    BY <2>1 DEF Contract!Running
  <2>3. FlowInv'
    BY <1>1, <2>1, <2>2, FlowKept DEF IInv, FlowInv, Apart, Shown, OneCall
  <2> QED
    BY <1>2, <2>3 DEF IInv
<1> QED
  BY <1>1, <1>3, <1>4, SubmitsStep DEF Beside

\* A result of a call that went well ends the flow.
LEMMA EntryEndsFlow ==
    ASSUME ShowsResult, CreatesEntry
    PROVE  step' = "none"
<1>1. error = "none" /\ operation \in {"pair", "replace", "reverify"}
  BY DEF CreatesEntry, Pairs
<1>2. \A s \in BOOLEAN : NextStep(s) = "create_entry"
  BY <1>1 DEF NextStep, Pairs
<1> QED
  BY <1>2 DEF ShowsResult

LEMMA FlowResultStep ==
    ASSUME IInv, FlowResult
    PROVE  IInv'
<1>1. /\ step = "pairing_result" /\ ShowsResult /\ UNCHANGED <<task, call>>
      /\ UNCHANGED <<manager, stray, wanted, opts, rebuild>>
  BY DEF FlowResult, ShowsResult, bondVars
<1>2. /\ state = "absent" /\ op = NoOp /\ rebuild \in {"idle", "created", "done"}
      /\ Contract!Running => task = "closing" \/ (task = "running" /\ Pairs)
  BY <1>1, FlowAlone
<1>3. task = "none"
  BY <1>1 DEF IInv, FlowInv, Shown
<1>4. ~Contract!Running'
  BY <1>1, <1>2, <1>3 DEF Contract!Running
<1>5. Shown' /\ OneCall'
  BY <1>1, <1>2, <1>3, <1>4 DEF IInv, FlowInv, Shown, OneCall
<1>6. CASE CreatesEntry
  <2>1. state' = "not_loaded" /\ op' = Op("first", "load mapper") /\ step' = "none"
    BY <1>1, <1>6, EntryEndsFlow DEF FlowResult
  <2>2. op'.by = "first" /\ op'.at = "load mapper"
    BY <2>1, Operating
  <2>3. EntryInv'
    BY <1>1, <1>2, <2>1, <2>2
    DEF IInv, EntryInv, Locked, Rebuilding, Managed, At, Unloading, SettingUp
  <2>4. Apart'
    BY <1>1, <1>3, <2>1 DEF Apart
  <2> QED
    BY <1>5, <2>3, <2>4 DEF IInv, FlowInv
<1>7. CASE ~CreatesEntry
  <2>1. UNCHANGED <<state, op>>
    BY <1>7 DEF FlowResult
  <2>2. EntryInv'
    BY <1>1, <2>1, EntryKept DEF IInv, EntryInv, Locked
  <2>3. Apart'
    BY <1>1, <1>2, <2>1 DEF Apart
  <2> QED
    BY <1>5, <2>2, <2>3 DEF IInv, FlowInv
<1> QED
  BY <1>6, <1>7

(* -------------------------- flows are closed ----------------------------- *)

LEMMA SetupFlowClosesStep ==
    ASSUME IInv, SetupFlowCloses
    PROVE  IInv'
<1>1. /\ step # "none" /\ step' = "none" /\ UNCHANGED <<state, manager, stray, op, wanted, opts, rebuild>>
      /\ task' = IF task = "running" /\ Pairs THEN "closing" ELSE "none"
  BY DEF SetupFlowCloses, FlowCloses, entryVars
<1>2. /\ state = "absent" /\ op = NoOp /\ rebuild \in {"idle", "created", "done"}
      /\ Contract!Running => task = "closing" \/ (task = "running" /\ Pairs)
  BY <1>1, FlowAlone
<1>3. task # "closing"
  BY <1>1 DEF IInv, FlowInv, Shown
<1>4. Contract!Running' => Contract!Running
  BY CallNoted DEF SetupFlowCloses, FlowCloses, Contract!Running
<1>5. EntryInv'
  BY <1>1, EntryKept DEF IInv, EntryInv, Locked
<1> QED
  BY <1>1, <1>2, <1>3, <1>4, <1>5 DEF IInv, FlowInv, Apart, Shown, OneCall

LEMMA RestartStep ==
    ASSUME IInv, Restart
    PROVE  IInv'
<1>1. /\ step' = "none" /\ task' = "none" /\ rebuild' = "idle" /\ manager' = FALSE
      /\ stray' = FALSE /\ wanted' = {}
      /\ \/ op' = NoOp /\ state' = "absent"
         \/ op' = Op("first", "load mapper") /\ state' = "not_loaded"
  BY DEF Restart
<1>2. \/ op'.at = "nowhere" /\ op'.by = "nobody" /\ state' = "absent"
      \/ op'.at = "load mapper" /\ op'.by = "first" /\ state' = "not_loaded"
  <2>1. CASE op' = NoOp /\ state' = "absent"
    BY <2>1, Operating
  <2>2. CASE op' = Op("first", "load mapper") /\ state' = "not_loaded"
    BY <2>2, Operating
  <2> QED
    BY <1>1, <2>1, <2>2
<1>3. ~Contract!Running'
  <2>1. CASE Contract!Running
    BY <2>1, CallEnds DEF Restart
  <2>2. CASE ~Contract!Running
    <3>1. Noted
      BY <2>2 DEF Restart
    <3>2. call' = call => ~Contract!Running'
      BY <2>2 DEF Contract!Running
    <3> QED
      BY <3>1, <3>2, CallNoted
  <2> QED
    BY <2>1, <2>2
<1>4. EntryInv'
  BY <1>1, <1>2
  DEF EntryInv, Locked, Rebuilding, Managed, At, Unloading, SettingUp
<1>5. FlowInv'
  BY <1>1, <1>3 DEF FlowInv, Apart, Shown, OneCall
<1> QED
  BY <1>4, <1>5 DEF IInv

LEMMA OptionsCloseStep ==
    ASSUME IInv, OptionsClose
    PROVE  IInv'
<1>1. /\ opts # "none" /\ opts' = "none" /\ UNCHANGED <<flowVars, stray, wanted>>
      /\ wanted \subseteq {"reload", "remove"} /\ manager \in BOOLEAN
  BY DEF OptionsClose, IInv, EntryInv, Locked
<1>2. rebuild # "closing"
  BY <1>1 DEF IInv, FlowInv, Shown
<1>3. Contract!Running' => Contract!Running
  BY CallNoted DEF OptionsClose, Contract!Running
<1>4. CASE rebuild \notin {"unload", "load"}
  <2>1. /\ UNCHANGED <<state, op, manager>>
        /\ rebuild' = IF rebuild = "pair" THEN "closing" ELSE "idle"
    BY <1>4 DEF OptionsClose
  <2>2. EntryInv'
    BY <1>1, <1>4, <2>1, EntryKept DEF IInv
  <2>3. FlowInv'
    BY <1>1, <1>2, <1>3, <2>1, FlowKept DEF IInv, FlowInv, Apart
  <2> QED
    BY <2>2, <2>3 DEF IInv
<1>5. CASE rebuild \in {"unload", "load"}
  <2>1. /\ op' = NoOp /\ rebuild' \in {"idle", "remove"} /\ manager' \in BOOLEAN
        /\ state' \in {"failed_unload", "setup_error"}
    BY <1>1, <1>5 DEF OptionsClose
  <2>2. op'.at = "nowhere" /\ op'.by = "nobody"
    BY <2>1, Operating
  <2>3. EntryInv'
    BY <1>1, <2>1, <2>2
    DEF IInv, EntryInv, Locked, Rebuilding, Managed, At, Unloading, SettingUp
  <2>4. step = "none" /\ task = "none"
    BY <1>5 DEF IInv, FlowInv, Apart
  <2>5. FlowInv'
    BY <1>1, <1>3, <1>5, <2>1, <2>4, FlowKept DEF IInv
  <2> QED
    BY <2>3, <2>5 DEF IInv
<1> QED
  BY <1>4, <1>5

(* ------------------------------- the types ------------------------------- *)

\* The parts of TypeOK: the set-up flow, the entry with its options flow, the history.
FlowTyped ==
    /\ step = "progress" => task # "none"
    /\ step \in {"progress", "pairing_result"} => operation # "none"
    /\ step \in Forms \cup {"none", "progress", "pairing_result"}
    /\ task \in {"none", "created", "running", "closing"} \cup Contract!Results
    /\ operation \in Operations \cup {"none"}
    /\ error \in Contract!Results \cup {"none"} /\ applied \in BOOLEAN

Operators ==
    {NoOp} \cup [by: {"first", "reload", "rebuild", "remove"},
                 at: {"load mapper", "start", "forward", "undo",
                      "unload platforms", "stop manager", "forget"}]
Rebuilds ==
    {"idle", "created", "unload", "call", "pair", "closing", "setup", "load", "remove",
     "done"}

EntryTyped ==
    /\ state \in {"absent", "not_loaded", "loaded", "setup_error", "failed_unload"}
    /\ op \in Operators
    /\ opts \in {"none", "form", "progress", "result"}
    /\ rebuild \in Rebuilds
    /\ bondError \in BOOLEAN

LEMMA TypeParts ==
    TypeOK <=> /\ FlowTyped /\ EntryTyped
               /\ wanted \subseteq {"reload", "remove"}
               /\ manager \in BOOLEAN /\ stray \in BOOLEAN
               /\ ours \in BOOLEAN /\ unstopped \in BOOLEAN /\ excuse \subseteq {"raised", "left"}
  BY DEF TypeOK, FlowTyped, EntryTyped, Operators, Rebuilds

LEMMA OpTyped ==
    /\ \A b \in {"first", "reload", "rebuild", "remove"},
          a \in {"load mapper", "start", "forward", "undo", "unload platforms",
                 "stop manager", "forget"} : Op(b, a) \in Operators
    /\ NoOp \in Operators
    /\ \A o \in Operators :
          o.at # "nowhere" => o.by \in {"first", "reload", "rebuild", "remove"}
<1>1. ASSUME NEW b \in {"first", "reload", "rebuild", "remove"},
             NEW a \in {"load mapper", "start", "forward", "undo", "unload platforms",
                        "stop manager", "forget"}
      PROVE  Op(b, a) \in Operators
  BY DEF Op, Operators
<1>2. NoOp \in Operators
  BY DEF Operators
<1>3. ASSUME NEW o \in Operators, o.at # "nowhere"
      PROVE  o.by \in {"first", "reload", "rebuild", "remove"}
  <2>1. o # NoOp
    BY <1>3 DEF NoOp
  <2> QED
    BY <2>1 DEF Operators
<1> QED
  BY <1>1, <1>2, <1>3

LEMMA FlowFormsTyped ==
    /\ \A o \in Operations : FormOf[o] \in Forms
    /\ Operations = {"pair", "replace", "repair", "restore", "reverify"}
    /\ Forms = {"bluetooth_confirm", "replace_bond", "compatibility_repair",
                "compatibility_wake", "service_pending"}
  BY DEF FormOf, Forms, Operations

LEMMA FlowTypeStep ==
    ASSUME IInv, FlowTyped,
           \/ FlowOpens \/ TaskBegins \/ TaskEnds \/ Progresses \/ ShowsResult \/ FlowCloses
           \/ Restart \/ UNCHANGED flowVars
           \/ \E o \in Operations : Submits(o)
    PROVE  FlowTyped'
<1>1. CASE FlowOpens
  BY <1>1, FlowFormsTyped DEF FlowOpens, FlowTyped
<1>2. CASE TaskBegins
  <2>1. UNCHANGED <<step, operation, error, applied>> /\ task = "created"
    BY <1>2 DEF TaskBegins
  <2>2. task' \in {"running"} \cup Contract!Results
    BY <1>2 DEF TaskBegins, Contract!Starts, Contract!Results, Contract!Verified,
                Contract!Failures
  <2> QED
    BY <2>1, <2>2 DEF FlowTyped, Contract!Results, Contract!Verified, Contract!Failures
<1>3. CASE TaskEnds
  <2>1. UNCHANGED <<step, operation, error, applied>>
    BY <1>3 DEF TaskEnds
  <2>2. task' \in Contract!Results \/ (task' = "none" /\ step = "none")
    BY <1>3 DEF TaskEnds, Told, Contract!Results, Contract!Verified, Contract!Failures,
                IInv, FlowInv, Shown
  <2> QED
    BY <2>1, <2>2 DEF FlowTyped, Contract!Results, Contract!Verified, Contract!Failures
<1>4. CASE Progresses
  <2>1. /\ step = "progress" /\ task \in Contract!Results
        /\ error' = IF task \in Contract!Verified THEN "none" ELSE task
        /\ task' = "none" /\ step' = "pairing_result"
        /\ UNCHANGED <<operation, applied>>
    BY <1>4 DEF Progresses, Done, FlowTyped
  <2> QED
    BY <2>1 DEF FlowTyped
<1>5. CASE ShowsResult
  <2>1. operation \in Operations /\ task' = task /\ operation' = "none" /\ error' = "none"
    BY <1>5 DEF ShowsResult, FlowTyped
  <2>2. step' \in Forms \cup {"none"}
    <3>1. \A s \in BOOLEAN : NextStep(s) \in Forms \cup {"create_entry", "abort"}
      BY <2>1, FlowFormsTyped DEF NextStep, Pairs
    <3> QED
      BY <1>5, <3>1 DEF ShowsResult
  <2>3. applied' \in BOOLEAN
    BY <1>5 DEF ShowsResult
  <2> QED
    BY <2>1, <2>2, <2>3, FlowFormsTyped DEF FlowTyped
<1>6. CASE FlowCloses \/ Restart
  <2>1. /\ step' = "none" /\ task' \in {"none", "closing"} /\ operation' = "none"
        /\ error' = "none" /\ applied' = FALSE
    BY <1>6 DEF FlowCloses, Restart
  <2> QED
    BY <2>1 DEF FlowTyped
<1>7. CASE UNCHANGED flowVars
  BY <1>7 DEF flowVars, FlowTyped
<1>8. CASE \E o \in Operations : Submits(o)
  <2>1. PICK o \in Operations : Submits(o)
    BY <1>8
  <2>2. o # "none" /\ step' = "progress" /\ applied' = applied
    BY <2>1, FlowFormsTyped DEF Submits
  <2>3. CASE task = "none"
    BY <2>1, <2>2, <2>3 DEF Submits, FlowTyped
  <2>4. CASE task # "none"
    <3>1. /\ UNCHANGED <<task, operation, error>>
          /\ task # "closing" \/ step = "none"
      BY <2>1, <2>4 DEF Submits, IInv, FlowInv, Shown
    <3>2. step = "progress"
      BY <2>1, <2>4, FlowFormsTyped DEF Submits, Offers, IInv, FlowInv, Shown
    <3> QED
      BY <2>1, <2>2, <2>4, <3>1, <3>2 DEF Submits, FlowTyped
  <2> QED
    BY <2>3, <2>4
<1> QED
  BY <1>1, <1>2, <1>3, <1>4, <1>5, <1>6, <1>7, <1>8

LEMMA SetUpTyped ==
    ASSUME EntryTyped, NEW b, NEW good \in BOOLEAN, SetUp(b, good), UNCHANGED opts
    PROVE  EntryTyped'
<1>1. op' = NoOp /\ state' \in {"loaded", "setup_error"}
  BY DEF SetUp
<1>2. rebuild' \in Rebuilds /\ bondError' \in BOOLEAN
  BY DEF SetUp, EntryTyped, Rebuilds
<1> QED
  BY <1>1, <1>2, OpTyped DEF EntryTyped

LEMMA UnloadedTyped ==
    ASSUME EntryTyped, NEW b \in {"reload", "remove", "rebuild"}, NEW good \in BOOLEAN,
           Unloaded(b, good), UNCHANGED opts
    PROVE  EntryTyped'
<1>1. op' \in {NoOp, Op("reload", "load mapper"), Op("remove", "forget")}
  BY DEF Unloaded
<1>2. state' \in {"not_loaded", "failed_unload", "absent"}
  BY DEF Unloaded
<1>3. rebuild' \in Rebuilds /\ bondError' \in BOOLEAN
  BY DEF Unloaded, EntryTyped, Rebuilds
<1> QED
  BY <1>1, <1>2, <1>3, OpTyped DEF EntryTyped

LEMMA EntryTypeStep ==
    ASSUME IInv, EntryTyped, Entry
    PROVE  EntryTyped'
<1>1. CASE MapperLoads \/ SetUpGoes \/ SetUpRaises \/ UndoesSetUp
  <2>1. /\ op.by \in {"first", "reload", "rebuild", "remove"} /\ UNCHANGED opts
        /\ \/ \E good \in BOOLEAN : SetUp(op.by, good)
           \/ /\ op' \in {Op(op.by, a) : a \in {"start", "forward", "undo"}}
              /\ UNCHANGED <<state, rebuild, bondError>>
    <3>1. op.at # "nowhere" /\ UNCHANGED opts
      BY <1>1 DEF MapperLoads, SetUpGoes, SetUpRaises, UndoesSetUp, At
    <3> QED
      BY <1>1, <3>1, OpTyped DEF EntryTyped, MapperLoads, SetUpGoes, SetUpRaises, UndoesSetUp
  <2> QED
    BY <2>1, SetUpTyped, OpTyped DEF EntryTyped
<1>2. CASE PlatformsUnload \/ ManagerStops
  <2>1. op.by \in {"reload", "remove", "rebuild"} /\ UNCHANGED opts
    BY <1>2 DEF PlatformsUnload, ManagerStops, At, IInv, EntryInv, Locked, Unloading
  <2>2. \/ \E good \in BOOLEAN : Unloaded(op.by, good)
        \/ /\ op' = Op(op.by, "stop manager")
           /\ UNCHANGED <<state, rebuild, bondError>>
    BY <1>2 DEF PlatformsUnload, ManagerStops
  <2> QED
    BY <2>1, <2>2, UnloadedTyped, OpTyped DEF EntryTyped
<1>3. CASE LockTaken
  <2>1. PICK w \in wanted :
            IF state = "absent" \/ (state = "failed_unload" /\ w = "reload")
            THEN UNCHANGED <<state, op, rebuild, bondError>>
            ELSE BeginsUnload(w)
    BY <1>3 DEF LockTaken
  <2>2. w \in {"reload", "remove"} /\ UNCHANGED opts
    BY <1>3 DEF LockTaken, IInv, EntryInv, Locked
  <2>3. \/ \E good \in BOOLEAN : Unloaded(w, good)
        \/ /\ op' = Op(w, "unload platforms") \/ UNCHANGED op
           /\ UNCHANGED <<state, rebuild, bondError>>
    BY <2>1 DEF BeginsUnload
  <2> QED
    BY <2>2, <2>3, UnloadedTyped, OpTyped DEF EntryTyped
<1>4. CASE BondForgotten
  BY <1>4, OpTyped DEF BondForgotten, EntryTyped
<1> QED
  BY <1>1, <1>2, <1>3, <1>4 DEF Entry

LEMMA RebuildTypeStep ==
    ASSUME IInv, EntryTyped, RebuildTask
    PROVE  EntryTyped'
<1>1. CASE RebuildUnloads
  <2>1. UNCHANGED opts
        /\ \/ \E good \in BOOLEAN : Unloaded("rebuild", good)
           \/ /\ op' = Op("rebuild", "unload platforms") \/ UNCHANGED op
              /\ rebuild' \in {"done", "unload"} /\ UNCHANGED state
              /\ bondError' \in {TRUE, bondError}
    BY <1>1 DEF RebuildUnloads
  <2> QED
    BY <2>1, UnloadedTyped, OpTyped DEF EntryTyped, Rebuilds
<1>2. CASE RebuildCalls
  <2>1. /\ UNCHANGED <<state, op, opts>> /\ rebuild' \in {"pair", "setup", "done"}
        /\ bondError' \in BOOLEAN
    BY <1>2 DEF RebuildCalls, Rebuilt, EntryTyped
  <2> QED
    BY <1>2, <2>1 DEF EntryTyped, Rebuilds
<1>3. CASE RebuildReturns
  <2>1. /\ UNCHANGED <<state, op, opts>> /\ rebuild' \in {"idle", "setup", "done"}
        /\ bondError' \in BOOLEAN
    BY <1>3 DEF RebuildReturns, Rebuilt, EntryTyped
  <2> QED
    BY <1>3, <2>1 DEF EntryTyped, Rebuilds
<1>4. CASE RebuildSetsUp
  <2>1. /\ UNCHANGED <<state, opts>> /\ rebuild' \in {"load", "remove"}
        /\ bondError' \in {TRUE, bondError}
        /\ op' = Op("rebuild", "load mapper") \/ UNCHANGED op
    BY <1>4 DEF RebuildSetsUp
  <2> QED
    BY <1>4, <2>1, OpTyped DEF EntryTyped, Rebuilds
<1>5. CASE (RebuildRemoves \/ RebuildProgresses)
  <2>1. /\ UNCHANGED <<state, op, bondError>> /\ rebuild' \in {"idle", "done"}
        /\ opts' \in {"result", opts}
    BY <1>5 DEF RebuildRemoves, RebuildProgresses
  <2> QED
    BY <1>5, <2>1 DEF EntryTyped, Rebuilds
<1> QED
  BY <1>1, <1>2, <1>3, <1>4, <1>5 DEF RebuildTask

\* What the user does, the flow's result, and what ends all at once.
LEMMA OtherTypeStep ==
    ASSUME EntryTyped, Shows \/ User \/ Closes
    PROVE  EntryTyped'
<1>1. CASE FlowResult
  <2>1. /\ UNCHANGED <<opts, rebuild, bondError>>
        /\ \/ state' = "not_loaded" /\ op' = Op("first", "load mapper")
           \/ UNCHANGED <<state, op>>
    BY <1>1 DEF FlowResult
  <2> QED
    BY <1>1, <2>1, OpTyped DEF EntryTyped
<1>2. CASE (RebuildResult \/ User)
  <2>1. /\ UNCHANGED <<state, op>> /\ opts' \in {"none", "form", "progress", opts}
        /\ rebuild' \in {"created", rebuild} /\ bondError' \in {FALSE, bondError}
    BY <1>2 DEF RebuildResult, User, OptionsSaved, UserWants, OptionsOpen, RebuildSubmitted
  <2> QED
    BY <1>2, <2>1 DEF EntryTyped, Rebuilds
<1>3. CASE OptionsClose
  <2>1. opts' = "none" /\ bondError' = FALSE
    BY <1>3 DEF OptionsClose
  <2>2. /\ rebuild' \in {"closing", "idle", "remove"} /\ op' \in {NoOp, op}
        /\ state' \in {"failed_unload", "setup_error", state}
    BY <1>3 DEF OptionsClose, EntryTyped
  <2> QED
    BY <2>1, <2>2, OpTyped DEF EntryTyped, Rebuilds
<1>4. CASE SetupFlowCloses
  BY <1>4 DEF SetupFlowCloses, entryVars, EntryTyped
<1>5. CASE Restart
  <2>1. /\ opts' = "none" /\ rebuild' = "idle" /\ bondError' = FALSE
        /\ op' \in {NoOp, Op("first", "load mapper")} /\ state' \in {"not_loaded", state}
    BY <1>5 DEF Restart
  <2> QED
    BY <2>1, OpTyped DEF EntryTyped, Rebuilds
<1> QED
  BY <1>1, <1>2, <1>3, <1>4, <1>5 DEF Shows, User, Closes

LEMMA TypeStep ==
    ASSUME IInv, IInv', TypeOK, [Next]_vars
    PROVE  TypeOK'
<1>1. CASE UNCHANGED vars
  <2>1. UNCHANGED <<step, task, operation, error, applied>>
    BY <1>1 DEF vars, flowVars
  <2>2. /\ UNCHANGED <<state, manager, stray, op, wanted, opts, rebuild, bondError>>
        /\ UNCHANGED <<ours, excuse, unstopped>>
    BY <1>1 DEF vars, entryVars
  <2>3. FlowTyped'
    BY <2>1, TypeParts DEF FlowTyped
  <2>4. EntryTyped'
    BY <2>2, TypeParts DEF EntryTyped
  <2> QED
    BY <2>2, <2>3, <2>4, TypeParts DEF TypeOK, FlowTyped, EntryTyped, Operators, Rebuilds
<1>2. CASE Next
  <2>1. FlowTyped'
    <3>1. \/ FlowOpens \/ TaskBegins \/ TaskEnds \/ Progresses \/ ShowsResult \/ FlowCloses
          \/ Restart \/ UNCHANGED flowVars
          \/ \E o \in Operations : Submits(o)
      <4>1. CASE FlowTask \/ Beside \/ Closes
        BY <4>1 DEF FlowTask, Beside, BondChanges, Closes, OptionsClose, SetupFlowCloses
      <4>2. CASE RebuildTask
        BY <4>2 DEF RebuildTask, RebuildUnloads, RebuildCalls, RebuildReturns, RebuildSetsUp,
           RebuildRemoves, RebuildProgresses
      <4>3. CASE Entry
        BY <4>3 DEF Entry, PlatformsUnload, ManagerStops, LockTaken, MapperLoads, SetUpGoes,
           SetUpRaises, UndoesSetUp, BondForgotten
      <4>4. CASE Shows \/ User
        BY <4>4 DEF Shows, User, FlowResult, RebuildResult, OptionsSaved, UserWants, OptionsOpen,
           RebuildSubmitted
      <4> QED
        BY <1>2, <4>1, <4>2, <4>3, <4>4 DEF Next, Task
    <3> QED
      BY <3>1, TypeParts, FlowTypeStep
  <2>2. EntryTyped'
    <3>1. CASE FlowTask \/ Beside
      BY <3>1, TypeParts DEF FlowTask, Beside, entryVars, EntryTyped
    <3> QED
      BY <1>2, <3>1, TypeParts, EntryTypeStep, RebuildTypeStep, OtherTypeStep DEF Next, Task
  <2>3. wanted' \subseteq {"reload", "remove"} /\ manager' \in BOOLEAN /\ stray' \in BOOLEAN
    BY DEF IInv, EntryInv, Locked
  <2>4. ours' \in BOOLEAN /\ excuse' \subseteq {"raised", "left"} /\ unstopped' \in BOOLEAN
    <3>1. \E closed \in BOOLEAN : Remember(closed)
      BY <1>2 DEF Next, Task, Quiet
    <3> QED
      BY <3>1, TypeParts DEF Remember
  <2> QED
    BY <2>1, <2>2, <2>3, <2>4 DEF TypeOK, FlowTyped, EntryTyped, Operators, Rebuilds
<1> QED
  BY <1>1, <1>2

(* ------------------------------- no orphans ------------------------------ *)

\* Something is under way that will protect a bond, remove it, or say why it stays: a
\* set-up or a removal of the entry, a flow, a rebuild, or a call that was closed and has
\* a bond of its own to clean up.
UnderWay ==
    \/ op.at \in SettingUp \cup {"forget"}
    \/ step # "none"
    \/ rebuild \in {"call", "pair", "setup", "load", "remove"}
    \/ "closing" \in {task, rebuild} /\ maker = "call"

OrphanInv ==
    /\ ours => bond # "none"
    /\ bond # "none" /\ maker = "call" => ours
    /\ ours /\ ~Protected => excuse # {} \/ UnderWay

\* A bond of ours without a loaded entry, and without an excuse.
Bare == ours /\ ~Protected /\ excuse = {}

LEMMA ProtectedKept ==
    ASSUME UNCHANGED <<state, manager, op>>
    PROVE  Protected' <=> Protected
  BY DEF Protected

LEMMA Remembering ==
    ASSUME OrphanInv, NEW closed \in BOOLEAN, Remember(closed)
    PROVE  /\ ours' => bond' # "none"
           /\ bond' # "none" /\ maker' = "call" => ours'
           /\ Bare' => /\ ~Leaves /\ ~Raises /\ ~closed /\ bond' # "none"
                       /\ (maker' = "call" \/ ours)
                       /\ (ours /\ ~Protected => UnderWay)
<1>1. ours' <=> (bond' # "none" /\ (maker' = "call" \/ ours))
  BY DEF Remember
<1>2. ASSUME Bare'
      PROVE  /\ {r \in {"raised"} : Raises} = {}
             /\ {r \in {"left"} : Leaves \/ closed} = {}
             /\ excuse = {}
  BY <1>2 DEF Remember, Bare
<1>3. Bare' => ~Leaves /\ ~Raises /\ ~closed /\ excuse = {}
  BY <1>2
<1> QED
  BY <1>1, <1>3 DEF OrphanInv, Bare

\* A bond that nobody touches was ours before.
LEMMA OursBefore ==
    ASSUME OrphanInv, UNCHANGED <<bond, maker>>, bond' # "none", maker' = "call" \/ ours
    PROVE  ours
  BY DEF OrphanInv

LEMMA NotedBond ==
    ASSUME Noted \/ UNCHANGED bondVars
    PROVE  UNCHANGED <<bond, maker>>
  BY DEF Noted, bondVars, Contract!Forgets

\* A removal that was not refused leaves no bond.
LEMMA RemovalLeaves ==
    ASSUME Removal, ~Leaves
    PROVE  bond' = "none"
  BY DEF Removal, Leaves, bondVars, Contract!OtherRemoves, Contract!Refuses

\* A cancelled call leaves no bond of its own.
LEMMA CancelledBond ==
    ASSUME Contract!Ends("cancelled"), ~Leaves, bond' # "none"
    PROVE  maker' # "call" /\ UNCHANGED maker
<1>1. maker' # "call"
  <2>1. PICK M : Contract!Truthful("cancelled", M) /\ mishaps' = M \cap {"cut", "kept"}
    BY DEF Contract!Ends
  <2>2. {"cut", "kept"} \cap M = {}
    BY <2>1 DEF Leaves
  <2> QED
    BY <2>1, <2>2 DEF Contract!Truthful, Contract!Failures
<1>2. UNCHANGED maker
  BY DEF Contract!Ends, Contract!Removing, Contract!Trusting
<1> QED
  BY <1>1, <1>2

\* A set-up or a removal that begins is under way.
LEMMA BeginsWay ==
    ASSUME NEW b, NEW a \in SettingUp \cup {"forget"}, op' = Op(b, a)
    PROVE  UnderWay'
<1>1. op'.at = a
  BY DEF Op
<1> QED
  BY <1>1 DEF UnderWay

LEMMA OrphanFlowTask ==
    ASSUME IInv, OrphanInv, FlowTask, Task(FlowTask), Bare'
    PROVE  UnderWay'
<1>1. /\ ~Leaves /\ bond' # "none" /\ (maker' = "call" \/ ours)
      /\ (ours /\ ~Protected => UnderWay)
  BY Remembering DEF Task
<1>2. UNCHANGED <<op, rebuild>> /\ (Protected' <=> Protected)
  BY ProtectedKept DEF FlowTask, entryVars
<1>3. CASE TaskBegins \/ (TaskEnds /\ task = "running")
  BY <1>3 DEF TaskBegins, TaskEnds, IInv, FlowInv, Shown, UnderWay
<1>4. CASE Progresses
  BY <1>4 DEF Progresses, UnderWay
<1>5. CASE TaskEnds /\ task = "closing"
  <2>1. maker' # "call" /\ UNCHANGED <<maker, step>>
    BY <1>1, <1>5, CancelledBond DEF TaskEnds
  <2>2. UnderWay /\ rebuild # "closing"
    BY <1>1, <1>2, <1>5, <2>1 DEF IInv, FlowInv, Apart, Bare
  <2> QED
    BY <1>2, <1>5, <2>1, <2>2 DEF UnderWay
<1> QED
  BY <1>3, <1>4, <1>5 DEF FlowTask, TaskEnds

LEMMA OrphanEntry ==
    ASSUME IInv, IInv', OrphanInv, Entry, Task(Entry), Bare'
    PROVE  UnderWay'
<1>1. /\ ~Leaves /\ ~Protected' /\ bond' # "none" /\ (maker' = "call" \/ ours)
      /\ (ours /\ ~Protected => UnderWay)
  BY Remembering DEF Task, Bare
<1>2. CASE MapperLoads \/ SetUpGoes \/ SetUpRaises \/ UndoesSetUp
  <2>1. op # NoOp /\ op.at \in SettingUp
    BY <1>2, Operating DEF MapperLoads, SetUpGoes, SetUpRaises, UndoesSetUp, At, SettingUp
  <2>2. \/ \E a \in {"start", "forward", "undo"} : op' = Op(op.by, a)
        \/ SetUp(op.by, FALSE)
        \/ UNCHANGED manager /\ op.at = "forward" /\ state' = "loaded"
    BY <1>2 DEF MapperLoads, SetUpGoes, SetUpRaises, UndoesSetUp, At, SetUp
  <2>3. CASE \E a \in {"start", "forward", "undo"} : op' = Op(op.by, a)
    BY <2>3, BeginsWay DEF SettingUp
  <2>4. CASE SetUp(op.by, FALSE)
    <3>1. op' = NoOp /\ state' = "setup_error" /\ (op.by = "rebuild" => rebuild' = "remove")
      BY <2>4 DEF SetUp
    <3>2. op.by = "rebuild"
      BY <1>1, <2>1, <3>1 DEF Leaves
    <3> QED
      BY <3>1, <3>2 DEF UnderWay
  <2>5. CASE UNCHANGED manager /\ op.at = "forward" /\ state' = "loaded"
    BY <1>1, <2>5 DEF IInv, EntryInv, Locked, Protected
  <2> QED
    BY <2>2, <2>3, <2>4, <2>5
<1>3. CASE PlatformsUnload \/ ManagerStops
  <2>1. op.by \in {"reload", "remove", "rebuild"} /\ manager /\ state = "loaded"
    BY <1>3 DEF PlatformsUnload, ManagerStops, At, IInv, EntryInv, Locked, Unloading,
                Managed
  <2>2. (Unloaded(op.by, FALSE) /\ UNCHANGED manager) \/ Unloaded(op.by, TRUE)
    BY <1>1, <1>3, <2>1 DEF PlatformsUnload, ManagerStops, Protected
  <2>3. \/ op' = Op("reload", "load mapper") \/ op' = Op("remove", "forget")
        \/ rebuild' = "call"
    BY <1>1, <2>1, <2>2 DEF Unloaded, Protected
  <2> QED
    BY <2>3, BeginsWay DEF UnderWay, SettingUp
<1>4. CASE LockTaken
  <2>1. PICK w \in wanted :
            IF state = "absent" \/ (state = "failed_unload" /\ w = "reload")
            THEN UNCHANGED <<state, op, rebuild, bondError>>
            ELSE BeginsUnload(w)
    BY <1>4 DEF LockTaken
  <2>2. w \in {"reload", "remove"} /\ UNCHANGED <<bondVars, flowVars, manager>>
    BY <1>4 DEF LockTaken, IInv, EntryInv, Locked
  <2>3. CASE UNCHANGED <<state, op, rebuild>>
    BY <1>1, <2>2, <2>3, OursBefore, ProtectedKept DEF bondVars, flowVars, UnderWay
  <2>4. CASE state = "loaded" /\ UNCHANGED state
    BY <1>1, <2>2, <2>4 DEF IInv, EntryInv, Managed, Protected
  <2>5. CASE state # "loaded" /\ BeginsUnload(w) /\ ~(state = "failed_unload" /\ w = "reload")
    <3>1. op' = Op("reload", "load mapper") \/ op' = Op("remove", "forget")
      BY <2>2, <2>5 DEF BeginsUnload, Unloaded
    <3> QED
      BY <3>1, BeginsWay DEF SettingUp
  <2> QED
    BY <2>1, <2>3, <2>4, <2>5 DEF BeginsUnload
<1>5. CASE BondForgotten
  BY <1>1, <1>5, RemovalLeaves DEF BondForgotten
<1> QED
  BY <1>2, <1>3, <1>4, <1>5 DEF Entry

LEMMA OrphanRebuild ==
    ASSUME IInv, OrphanInv, RebuildTask, Task(RebuildTask), Bare'
    PROVE  UnderWay'
<1>1. /\ ~Leaves /\ ~Raises /\ ~Protected' /\ bond' # "none" /\ (maker' = "call" \/ ours)
      /\ (ours /\ ~Protected => UnderWay)
  BY Remembering DEF Task, Bare
<1>2. CASE RebuildUnloads
  <2>1. UNCHANGED <<bond, maker, step, task>> /\ rebuild = "created"
    BY <1>2 DEF RebuildUnloads, bondVars, flowVars
  <2>2. \/ UNCHANGED <<state, manager, op>> /\ rebuild' = "done"
        \/ state = "loaded" /\ UNCHANGED <<state, manager>>
        \/ rebuild' = "call"
    BY <1>2 DEF RebuildUnloads, Unloaded
  <2>3. CASE UNCHANGED <<state, manager, op>> /\ rebuild' = "done"
    BY <1>1, <2>1, <2>3, OursBefore, ProtectedKept DEF UnderWay
  <2>4. CASE state = "loaded" /\ UNCHANGED <<state, manager>>
    BY <1>1, <2>4 DEF IInv, EntryInv, Managed, Protected
  <2> QED
    BY <2>2, <2>3, <2>4 DEF UnderWay
<1>3. CASE RebuildCalls \/ (RebuildReturns /\ rebuild = "pair")
  <2>1. rebuild' \in {"pair", "setup", "done"} \/ (rebuild = "pair" /\ rebuild' = "idle")
    BY <1>3 DEF RebuildCalls, RebuildReturns, Rebuilt
  <2>2. rebuild \in {"call", "pair"} /\ rebuild' # "idle"
    BY <1>3 DEF RebuildCalls, RebuildReturns, Rebuilt
  <2> QED
    BY <1>1, <2>1, <2>2 DEF Raises, UnderWay
<1>4. CASE RebuildReturns /\ rebuild = "closing"
  <2>1. Contract!Ends("cancelled") /\ UNCHANGED <<step, task, op, state, manager>>
    BY <1>4 DEF RebuildReturns, flowVars
  <2>2. maker' # "call" /\ UNCHANGED maker
    BY <1>1, <2>1, CancelledBond
  <2>3. UnderWay
    BY <1>1, <2>1, <2>2, ProtectedKept
  <2> QED
    BY <1>4, <2>1, <2>2, <2>3 DEF UnderWay
<1>5. CASE RebuildSetsUp
  BY <1>5 DEF RebuildSetsUp, UnderWay
<1>6. CASE RebuildRemoves
  BY <1>1, <1>6, RemovalLeaves DEF RebuildRemoves
<1>7. CASE RebuildProgresses
  <2>1. UNCHANGED <<bond, maker, step, task, op, state, manager>> /\ rebuild = "done"
    BY <1>7, NotedBond DEF RebuildProgresses, flowVars
  <2> QED
    BY <1>1, <2>1, OursBefore, ProtectedKept DEF UnderWay
<1> QED
  BY <1>2, <1>3, <1>4, <1>5, <1>6, <1>7 DEF RebuildTask, RebuildReturns

LEMMA OrphanBeside ==
    ASSUME IInv, OrphanInv, Beside \/ Shows \/ User, Remember(FALSE), Bare'
    PROVE  UnderWay'
<1>1. /\ ~Leaves /\ ~Protected' /\ bond' # "none" /\ (maker' = "call" \/ ours)
      /\ (ours /\ ~Protected => UnderWay)
  BY Remembering DEF Bare
<1>2. CASE FlowOpens \/ \E o \in Operations : Submits(o)
  BY <1>2 DEF FlowOpens, Submits, UnderWay
<1>3. CASE BondChanges /\ UNCHANGED entryVars
  <2>1. UNCHANGED <<step, task, op, rebuild>> /\ (Protected' <=> Protected)
    BY <1>3, ProtectedKept DEF BondChanges, flowVars, entryVars
  <2>2. CASE UNCHANGED maker /\ ours
    BY <1>1, <2>1, <2>2 DEF UnderWay
  <2>3. CASE Contract!Works
    <3>1. CASE UNCHANGED <<bond, maker>>
      BY <1>1, <2>2, <3>1, OursBefore
    <3>2. CASE Contract!Running /\ maker' = "call"
      <4>1. task \in {"running", "closing"} \/ rebuild \in {"pair", "closing"}
        BY <3>2 DEF IInv, FlowInv, OneCall
      <4>2. task = "running" => step # "none"
        BY DEF IInv, FlowInv, Shown
      <4> QED
        BY <2>1, <3>2, <4>1, <4>2 DEF UnderWay
    <3>3. "cut" \notin mishaps
      BY <1>1, <2>3 DEF Leaves, Contract!Works
    <3> QED
      BY <1>1, <2>3, <3>1, <3>2, <3>3
      DEF Contract!Works, Contract!Bonding, Contract!Removing, Contract!Trusting
  <2>4. CASE Contract!Refuses
    BY <1>1, <2>4 DEF Contract!Refuses, Leaves
  <2>5. CASE Contract!Resolves
    BY <1>1, <2>2, <2>5 DEF Contract!Resolves, OrphanInv
  <2>6. CASE Contract!OtherPairs \/ Contract!OtherRemoves
    BY <1>1, <2>6 DEF Contract!OtherPairs, Contract!OtherRemoves, OrphanInv
  <2> QED
    BY <1>3, <2>3, <2>4, <2>5, <2>6 DEF BondChanges, Contract!Others
<1>4. CASE FlowResult
  <2>1. op' = Op("first", "load mapper") \/ step' # "none" \/ Leaves
    BY <1>4 DEF FlowResult, ShowsResult, Leaves
  <2> QED
    BY <1>1, <2>1, BeginsWay DEF UnderWay, SettingUp
<1>5. CASE RebuildResult \/ User
  <2>1. UNCHANGED <<bondVars, flowVars, state, manager, op>>
    BY <1>5 DEF RebuildResult, User, OptionsSaved, UserWants, OptionsOpen, RebuildSubmitted
  <2>2. rebuild' = rebuild \/ (rebuild = "idle" /\ rebuild' = "created")
    BY <1>5 DEF RebuildResult, User, OptionsSaved, UserWants, OptionsOpen, RebuildSubmitted
  <2>3. UNCHANGED <<bond, maker, step, task>> /\ UnderWay
    BY <1>1, <2>1, OursBefore, ProtectedKept DEF bondVars, flowVars
  <2> QED
    BY <2>1, <2>2, <2>3 DEF UnderWay
<1> QED
  BY <1>2, <1>3, <1>4, <1>5 DEF Beside, Shows

LEMMA OrphanCloses ==
    ASSUME IInv, OrphanInv, Closes, Remember(~Quiet), Bare'
    PROVE  UnderWay'
<1>1. /\ Quiet /\ ~Protected' /\ bond' # "none" /\ (maker' = "call" \/ ours)
      /\ (ours /\ ~Protected => UnderWay)
  <2>1. (~Quiet) \in BOOLEAN
    BY DEF Quiet
  <2> QED
    BY <2>1, Remembering DEF Bare
<1>2. ~UnderWay /\ ~Contract!Running
  BY <1>1, Operating DEF Quiet, UnderWay, SettingUp, IInv, FlowInv, OneCall
<1>3. CASE OptionsClose
  BY <1>1, <1>2, <1>3, NotedBond, OursBefore, ProtectedKept DEF OptionsClose, Quiet
<1>4. CASE SetupFlowCloses
  BY <1>1, <1>4 DEF SetupFlowCloses, FlowCloses, Quiet
<1>5. CASE Restart
  <2>1. UNCHANGED <<bond, maker>>
    BY <1>2, <1>5, NotedBond DEF Restart
  <2>2. manager /\ state # "absent"
    BY <1>1, <1>2, <2>1, OursBefore, Operating
    DEF Protected, Quiet, NoOp
  <2> QED
    BY <1>5, <2>2, BeginsWay DEF Restart, SettingUp
<1> QED
  BY <1>3, <1>4, <1>5 DEF Closes

LEMMA OrphanStep ==
    ASSUME IInv, IInv', OrphanInv, [Next]_vars
    PROVE  OrphanInv'
<1>1. CASE UNCHANGED vars
  BY <1>1 DEF vars, bondVars, flowVars, entryVars, OrphanInv, UnderWay, Protected
<1>2. CASE Next
  <2>1. \E closed \in BOOLEAN : Remember(closed)
    BY <1>2 DEF Next, Task, Quiet
  <2>2. Bare' => UnderWay'
    BY <1>2, OrphanFlowTask, OrphanEntry, OrphanRebuild, OrphanBeside, OrphanCloses
    DEF Next, Task
  <2> QED
    BY <2>1, <2>2, Remembering DEF OrphanInv, Bare
<1> QED
  BY <1>1, <1>2

(* ------------------------------ the managers ----------------------------- *)

\* A manager that goes on without an entry that has use for it.
Behind == (manager /\ ~Protected) \/ stray

\* The entry is removed.
Removed == state # "absent" /\ state' = "absent"

LEMMA BehindKept ==
    ASSUME UNCHANGED <<state, manager, stray, op>>
    PROVE  Behind' => Behind
  BY ProtectedKept DEF Behind

LEMMA BehindUnload ==
    ASSUME NEW b \in {"reload", "remove", "rebuild"}, NEW good \in BOOLEAN, Unloaded(b, good),
           UNCHANGED stray, state # "absent",
           UNCHANGED manager \/ manager' = FALSE,
           ~Protected \/ manager' = FALSE \/ good = FALSE
    PROVE  Behind' => Behind \/ Removed
<1>1. CASE manager' = FALSE
  BY <1>1 DEF Behind
<1>2. CASE UNCHANGED manager /\ ~Protected
  BY <1>2 DEF Behind
<1>3. CASE good = FALSE
  <2>1. state' = "failed_unload" \/ Removed
    BY <1>3 DEF Unloaded, Removed
  <2> QED
    BY <2>1 DEF Behind, Protected
<1> QED
  BY <1>1, <1>2, <1>3

LEMMA BehindSetUp ==
    ASSUME IInv, MapperLoads \/ SetUpGoes \/ SetUpRaises \/ UndoesSetUp
    PROVE  Behind' => Behind
<1>1. op.at \in SettingUp /\ state = "not_loaded"
  BY DEF MapperLoads, SetUpGoes, SetUpRaises, UndoesSetUp, At, IInv, EntryInv, Locked, SettingUp
<1>2. CASE MapperLoads
  <2>1. op.at = "load mapper" /\ ~Protected
    BY <1>1, <1>2 DEF MapperLoads, At, Protected
  <2>2. CASE op' = Op(op.by, "start") /\ stray' = (stray \/ manager)
    <3>1. op'.at = "start"
      BY <2>2 DEF Op
    <3> QED
      BY <2>1, <2>2, <3>1 DEF Behind, Protected
  <2>3. CASE UNCHANGED <<manager, stray>>
    BY <2>1, <2>3 DEF Behind
  <2> QED
    BY <1>2, <2>2, <2>3 DEF MapperLoads
<1>3. CASE SetUpGoes
  <2>1. CASE op' = Op(op.by, "forward") /\ UNCHANGED <<manager, stray>>
    <3>1. op'.at = "forward"
      BY <2>1 DEF Op
    <3> QED
      BY <2>1, <3>1 DEF Behind, Protected
  <2>2. CASE state' = "loaded" /\ UNCHANGED <<manager, stray>>
    BY <2>2 DEF Behind, Protected
  <2> QED
    BY <1>3, <2>1, <2>2 DEF SetUpGoes, SetUp
<1>4. CASE SetUpRaises
  <2>1. op'.at = "undo" /\ UNCHANGED <<manager, stray>>
    BY <1>4 DEF SetUpRaises, Op
  <2> QED
    BY <2>1 DEF Behind, Protected
<1>5. CASE UndoesSetUp
  BY <1>5 DEF UndoesSetUp, Behind
<1> QED
  BY <1>2, <1>3, <1>4, <1>5

LEMMA BehindEntry ==
    ASSUME IInv, Entry
    PROVE  Behind' => Behind \/ Removed
<1>1. CASE PlatformsUnload \/ ManagerStops
  <2>1. op.by \in {"reload", "remove", "rebuild"} /\ state = "loaded"
    BY <1>1 DEF PlatformsUnload, ManagerStops, At, IInv, EntryInv, Locked, Unloading
  <2>2. UNCHANGED stray
    BY <1>1 DEF PlatformsUnload, ManagerStops
  <2>3. CASE UNCHANGED <<state, manager>>
    BY <2>1, <2>2, <2>3 DEF Behind, Protected
  <2>4. CASE UNCHANGED manager /\ Unloaded(op.by, FALSE)
    BY <2>1, <2>2, <2>4, BehindUnload
  <2>5. CASE manager' = FALSE
    BY <2>2, <2>5 DEF Behind
  <2> QED
    BY <1>1, <2>3, <2>4, <2>5 DEF PlatformsUnload, ManagerStops
<1>2. CASE LockTaken
  <2>1. op = NoOp /\ UNCHANGED <<manager, stray>>
    BY <1>2 DEF LockTaken
  <2>2. PICK w \in wanted :
            IF state = "absent" \/ (state = "failed_unload" /\ w = "reload")
            THEN UNCHANGED <<state, op, rebuild, bondError>>
            ELSE BeginsUnload(w)
    BY <1>2 DEF LockTaken
  <2>3. w \in {"reload", "remove"}
    BY <1>2 DEF IInv, EntryInv, Locked
  <2>4. CASE UNCHANGED <<state, op>>
    BY <2>1, <2>4, BehindKept
  <2>5. CASE state = "loaded" /\ UNCHANGED state
    BY <2>1, <2>5 DEF Behind, Protected
  <2>6. CASE state \notin {"absent", "loaded"} /\ Unloaded(w, state # "failed_unload")
    <3>1. ~Protected \/ (state # "failed_unload") = FALSE
      BY <2>1, <2>6, Operating DEF Protected
    <3> QED
      BY <2>1, <2>3, <2>6, <3>1, BehindUnload
  <2> QED
    BY <2>2, <2>4, <2>5, <2>6 DEF BeginsUnload
<1>3. CASE BondForgotten
  <2>1. ~Protected
    BY <1>3 DEF BondForgotten, At, Protected, IInv, EntryInv, Locked
  <2> QED
    BY <1>3, <2>1 DEF BondForgotten, Behind
<1> QED
  BY <1>1, <1>2, <1>3, BehindSetUp DEF Entry

LEMMA BehindRebuild ==
    ASSUME IInv, RebuildTask
    PROVE  Behind' => Behind \/ Removed
<1>1. CASE RebuildUnloads
  <2>1. UNCHANGED <<manager, stray>>
    BY <1>1 DEF RebuildUnloads
  <2>2. CASE UNCHANGED <<state, op>>
    BY <2>1, <2>2, BehindKept
  <2>3. CASE state = "loaded" /\ UNCHANGED state
    BY <2>1, <2>3 DEF Behind, Protected
  <2>4. CASE /\ state \notin {"absent", "failed_unload", "loaded"} /\ op = NoOp
             /\ Unloaded("rebuild", TRUE)
    <3>1. ~Protected
      BY <2>4, Operating DEF Protected
    <3> QED
      BY <2>1, <2>4, <3>1, BehindUnload
  <2> QED
    BY <1>1, <2>2, <2>3, <2>4 DEF RebuildUnloads
<1>2. CASE RebuildSetsUp
  <2>1. UNCHANGED <<state, manager, stray>>
    BY <1>2 DEF RebuildSetsUp
  <2>2. UNCHANGED op \/ (state = "not_loaded" /\ op = NoOp)
    BY <1>2 DEF RebuildSetsUp
  <2>3. CASE state = "not_loaded" /\ op = NoOp
    BY <2>1, <2>3, Operating DEF Behind, Protected
  <2> QED
    BY <2>1, <2>2, <2>3, BehindKept
<1>3. CASE RebuildCalls \/ RebuildReturns \/ RebuildRemoves \/ RebuildProgresses
  BY <1>3, BehindKept DEF RebuildCalls, RebuildReturns, RebuildRemoves, RebuildProgresses
<1> QED
  BY <1>1, <1>2, <1>3 DEF RebuildTask

\* Only a rebuild that is cancelled in the set-up leaves a manager behind, and a removal
\* that the unload did not go before.
LEMMA BehindOther ==
    ASSUME IInv, FlowTask \/ Beside \/ Shows \/ User \/ Closes
    PROVE  Behind' => Behind \/ CutsSetUp
<1>1. CASE FlowTask \/ Beside \/ SetupFlowCloses
  BY <1>1, BehindKept DEF FlowTask, Beside, SetupFlowCloses, entryVars
<1>2. CASE User \/ RebuildResult
  BY <1>2, BehindKept
  DEF User, RebuildResult, OptionsSaved, UserWants, OptionsOpen, RebuildSubmitted
<1>3. CASE FlowResult
  <2>1. ~Protected /\ UNCHANGED <<manager, stray>>
    BY <1>3, FlowAlone DEF FlowResult, ShowsResult
  <2> QED
    BY <2>1 DEF Behind
<1>4. CASE Restart
  BY <1>4 DEF Restart, Behind
<1>5. CASE OptionsClose
  <2>1. opts # "none" /\ opts' = "none" /\ UNCHANGED stray
    BY <1>5 DEF OptionsClose
  <2>2. CASE rebuild = "load"
    BY <2>1, <2>2 DEF CutsSetUp
  <2>3. CASE rebuild = "unload"
    <3>1. state' = "failed_unload"
      BY <1>5, <2>3 DEF OptionsClose
    <3> QED
      BY <2>1, <3>1 DEF Behind, Protected
  <2>4. CASE rebuild \notin {"load", "unload"}
    <3>1. UNCHANGED <<state, op, manager>>
      BY <1>5, <2>4 DEF OptionsClose
    <3> QED
      BY <2>1, <3>1, BehindKept
  <2> QED
    BY <2>2, <2>3, <2>4
<1> QED
  BY <1>1, <1>2, <1>3, <1>4, <1>5 DEF Shows, Closes

LEMMA FollowsStep ==
    ASSUME IInv, IInv', ManagerFollowsEntry, [Next]_vars
    PROVE  ManagerFollowsEntry'
<1>0. Behind => unstopped
  BY DEF ManagerFollowsEntry, Behind
<1>1. CASE UNCHANGED vars
  BY <1>1 DEF vars, entryVars, ManagerFollowsEntry, Protected
<1>2. CASE Next
  <2>1. PICK closed \in BOOLEAN : Remember(closed)
    BY <1>2 DEF Next, Task, Quiet
  <2>2. Behind' => Behind \/ CutsSetUp \/ Removed
    BY <1>2, BehindEntry, BehindRebuild, BehindOther DEF Next, Task
  <2>3. unstopped' = /\ manager' \/ stray'
                     /\ unstopped \/ CutsSetUp \/ Removed
    BY <2>1 DEF Remember, Removed
  <2>4. Behind' => unstopped'
    BY <1>0, <2>2, <2>3 DEF Behind
  <2> QED
    BY <2>4 DEF Behind, ManagerFollowsEntry, IInv, EntryInv, Managed
<1> QED
  BY <1>1, <1>2

(* ------------------------------ the theorems ----------------------------- *)

LEMMA InitIInv ==
    ASSUME Init
    PROVE  IInv
<1>1. op.at = "nowhere" /\ op.by = "nobody" /\ ~Contract!Running
  BY Operating DEF Init, Contract!Init, Contract!Running
<1> QED
  BY <1>1
  DEF Init, FlowInit, IInv, EntryInv, FlowInv, Locked, Rebuilding, Managed, Apart,
      Shown, OneCall, At, Unloading, SettingUp

LEMMA SameIInv ==
    ASSUME IInv, UNCHANGED vars
    PROVE  IInv'
  BY DEF vars, bondVars, flowVars, entryVars, IInv, EntryInv, FlowInv, Locked, Rebuilding,
         Managed, Apart, Shown, OneCall, At, Pairs, Contract!Running

LEMMA StepIInv ==
    ASSUME IInv, [Next]_vars
    PROVE  IInv'
<1>1. CASE FlowTask
  BY <1>1, FlowTaskStep DEF FlowTask
<1>2. CASE RebuildTask
  BY <1>2, RebuildUnloadsStep, RebuildCallsStep, RebuildEndsStep, RebuildSetsUpStep
  DEF RebuildTask
<1>3. CASE Entry
  BY <1>3, MapperLoadsStep, SetUpGoesStep, UnloadsStep, LockTakenStep, BondForgottenStep
  DEF Entry
<1>4. CASE Beside
  BY <1>4, BesideStep
<1>5. CASE Shows \/ User
  BY <1>5, FlowResultStep, UserStep DEF Shows, User
<1>6. CASE Closes
  BY <1>6, OptionsCloseStep, SetupFlowClosesStep, RestartStep DEF Closes
<1> QED
  BY <1>1, <1>2, <1>3, <1>4, <1>5, <1>6, SameIInv DEF Next, Task

THEOREM Invariant == Spec => []IInv
<1>1. Init => IInv
  BY InitIInv
<1>2. IInv /\ [Next]_vars => IInv'
  BY StepIInv
<1> QED
  BY <1>1, <1>2, PTL DEF Spec

LEMMA InitTyped ==
    ASSUME Init
    PROVE  TypeOK
  BY OpTyped DEF Init, FlowInit, TypeOK, Operators

\* Every variable keeps to its values, and the flow never shows progress, or the result,
\* of nothing (config_flow.py 227, 262).
THEOREM TypeCorrect == Spec => []TypeOK
<1>1. Init => TypeOK
  BY InitTyped
<1>2. IInv /\ IInv' /\ TypeOK /\ [Next]_vars => TypeOK'
  BY TypeStep
<1> QED
  BY <1>1, <1>2, Invariant, PTL DEF Spec

\* A loaded entry has a manager, and none runs that no entry has use for, but in the two
\* ways that unstopped names: a rebuild cancelled in the set-up (__init__.py 43 misses
\* CancelledError), and an entry removed although its unload failed (__init__.py 53-54).
THEOREM ManagerIsOwned == Spec => []ManagerFollowsEntry
<1>1. Init => ManagerFollowsEntry
  BY DEF Init, ManagerFollowsEntry
<1>2. IInv /\ IInv' /\ ManagerFollowsEntry /\ [Next]_vars => ManagerFollowsEntry'
  BY FollowsStep
<1> QED
  BY <1>1, <1>2, Invariant, PTL DEF Spec

\* The set-up flow and the rebuild never work on the bond at once, and neither starts a
\* second task (config_flow.py 194-222, 505-535).
THEOREM CallIsOwned == Spec => []OneCall
<1>1. IInv => OneCall
  BY DEF IInv, FlowInv
<1> QED
  BY <1>1, Invariant, PTL

\* A bond that the integration made stands next to a loaded entry, unless the excuses
\* that are named tell why not (config_flow.py 569-593, __init__.py 59-71).
THEOREM NoBondIsOrphaned == Spec => []NoOrphan
<1>1. Init => OrphanInv
  BY DEF Init, Contract!Init, OrphanInv
<1>2. IInv /\ IInv' /\ OrphanInv /\ [Next]_vars => OrphanInv'
  BY OrphanStep
<1>3. OrphanInv => NoOrphan
  BY Operating DEF OrphanInv, NoOrphan, Quiet, UnderWay, SettingUp
<1> QED
  BY <1>1, <1>2, <1>3, Invariant, PTL DEF Spec
=============================================================================
