------------------------------ MODULE HidLayout ------------------------------
(***************************************************************************)
(* What a Report Map means by the rules of the HID specification, without a  *)
(* parser: every property of an Input item is defined by the items before    *)
(* it.  HidDescriptor, which follows the loop of hid.py, has to come to the  *)
(* same usages, but for four readings of its own, which are named.           *)
(***************************************************************************)
EXTENDS HidDescriptor, Integers, FiniteSets, FiniteSetsExt

CONSTANT Reports    \* the reports that are decoded, as numbers

Tag(i) == report_map[i].tag
Before(i) == 1 .. i - 1

Depth(i) ==
    Cardinality({j \in Before(i) : Tag(j) = "push"})
        - Cardinality({j \in Before(i) : Tag(j) = "pop"})

\* Item j is undone at i: a Pop between them went back to before j.
Undone(j, i) == \E p \in j .. i : Depth(p) < Depth(j)

\* What a global item has been set to when item i is read.
Settings(t, i) == {j \in Before(i) : Tag(j) = t /\ ~Undone(j, i)}
GlobalAt(t, i) ==
    IF Settings(t, i) = {} THEN 0 ELSE report_map[Max(Settings(t, i))].value

Inputs == {i \in DOMAIN report_map : Tag(i) = "input"}

\* The local items of the Main item i: those since the one before.
LocalsOf(i) ==
    {j \in Before(i) : Tag(j) \in {"usage", "min", "max"}
                       /\ \A m \in j .. i - 1 : Tag(m) \notin {"input", "main"}}

\* The usage that item j names for the Main item i: on a page of its own, or else on
\* the Usage Page that is set when the Main item comes.
Meant(i, j) ==
    <<IF report_map[j].page = 0 THEN GlobalAt("page", i) ELSE report_map[j].page,
      report_map[j].value>>

\* A list of usages, or the ends of a range.
Named(i, t) == {j \in LocalsOf(i) : Tag(j) = t}
Rank(i, j) == Cardinality({l \in Named(i, "usage") : l < j})
Listed(i, k) == Meant(i, CHOOSE j \in Named(i, "usage") : Rank(i, j) = k)
LastNamed(i, t) == Meant(i, Max(Named(i, t)))
Ranged(i) ==
    /\ Named(i, "min") # {} /\ Named(i, "max") # {}
    /\ LastNamed(i, "min")[1] = LastNamed(i, "max")[1]

\* The usage that is declared as number k, from 0.
Declared(i, k) ==
    LET listed == Named(i, "usage")
        first == LastNamed(i, "min")
    IN IF listed # {}
       THEN IF k < Cardinality(listed) THEN Listed(i, k) ELSE NoUsage
       ELSE IF Ranged(i) /\ first[2] + k <= LastNamed(i, "max")[2]
            THEN <<first[1], first[2] + k>> ELSE NoUsage

\* Variable controls: number k has usage k, and the last usage is that of all the rest.
UsageOf(i, k) ==
    IF Declared(i, k) # NoUsage THEN Declared(i, k)
    ELSE IF Named(i, "usage") # {} THEN LastNamed(i, "usage")
    ELSE IF Ranged(i) THEN LastNamed(i, "max") ELSE NoUsage

\* The values of an array: v is the number of a usage, counted from the Logical Minimum.
\* The Usage ID 0 of any page stands for no control.
Selected(i, v) ==
    {u \in {Declared(i, k) : k \in {n \in 0 .. v : v = GlobalAt("lmin", i) + n}} :
        u # NoUsage /\ u[2] # 0}

\* The bits that the Input items before i take of report id, and where those of i begin.
Room(i) == GlobalAt("size", i) * GlobalAt("count", i)
Taken(id, i) ==
    UNION {{j} \X (1 .. Room(j)) :
               j \in {l \in Inputs : l < i /\ GlobalAt("id", l) = id}}
Offset(i) == Cardinality(Taken(GlobalAt("id", i), i))

\* The controls of the Input item i, and where each one is.
Controls(i) ==
    LET size == GlobalAt("size", i)
        first == Offset(i)
    IN {[id |-> GlobalAt("id", i), at |-> first + k * size, size |-> size,
         item |-> i, index |-> k] : k \in 0 .. GlobalAt("count", i) - 1}

\* Padding has none, and none is without bits.
Visible == {i \in Inputs : ~Constant(report_map[i]) /\ Room(i) > 0}
Layout == UNION {Controls(i) : i \in Visible}

\* What the control c of a report says: a variable one that is 0 says nothing.
Control(c, raw) == (raw \div 2 ^ c.at) % 2 ^ c.size
Own(c) == Variable(report_map[c.item])
Speaks(c, raw) == Control(c, raw) # 0 \/ ~Own(c)
Stands(c, v) == IF Own(c) THEN {UsageOf(c.item, c.index)} ELSE Selected(c.item, v)
Speaking(layout, id, raw) == {c \in layout : c.id = id /\ Speaks(c, raw)}

Active(layout, id, raw) ==
    (UNION {Stands(c, Control(c, raw)) : c \in Speaking(layout, id, raw)}) \ {NoUsage}

(* --------------------- where hid.py reads in its own way ------------------- *)

\* A list and a range for one Main item, which the HID tables leave open.
Mixed(i) == Named(i, "usage") # {} /\ Named(i, "min") \cup Named(i, "max") # {}

\* The Usage Page changes between a usage and its Main item (147).
Rebound(i) ==
    \E j \in LocalsOf(i) :
        report_map[j].page = 0 /\ GlobalAt("page", j) # GlobalAt("page", i)

\* A variable control beyond the end of a range, which gets no usage (199-207).
Beyond(i, k) == Named(i, "usage") = {} /\ Ranged(i) /\ Declared(i, k) = NoUsage

\* An array whose values are Usage IDs of its page, which is how every array is read
\* (195-196): its usages are a range on that page that begins at the Logical Minimum.
Direct(i) ==
    /\ Named(i, "usage") = {} /\ Ranged(i)
    /\ LastNamed(i, "min") = <<GlobalAt("page", i), GlobalAt("lmin", i)>>

Departs(c, v) ==
    IF Own(c) THEN Mixed(c.item) \/ Rebound(c.item) \/ Beyond(c.item, c.index)
              ELSE ~Direct(c.item) \/ (v # 0 /\ Selected(c.item, v) = {})

\* A Pop that has nothing to go back to, or an item that is cut off.
Broken ==
    \E i \in DOMAIN report_map : Tag(i) = "cut" \/ (Tag(i) = "pop" /\ Depth(i) = 0)

\* A Report Map is rejected if it is broken.  Otherwise every report of every ID decodes
\* to the usages that the HID rules give it, over padding, nested globals, local items
\* and other reports in between (hid.py 60-81, 91-207), unless a control of it that says
\* something is one of those that hid.py reads in its own way.
DecodesWhatWasMeant ==
    /\ status = "rejected" => Broken
    /\ status = "parsed" =>
           /\ ~Broken
           /\ LET layout == Layout
              IN \A id \in Ids, raw \in Reports :
                     \/ \E c \in Speaking(layout, id, raw) : Departs(c, Control(c, raw))
                     \/ Decode(id, raw) = Active(layout, id, raw)
=============================================================================
