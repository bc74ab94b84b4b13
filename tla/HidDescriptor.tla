---------------------------- MODULE HidDescriptor ----------------------------
(***************************************************************************)
(* hid.py: the Report Map of a remote becomes the input fields of its        *)
(* reports, and a report the usages that are active in it.                   *)
(*                                                                         *)
(* An item is a record [tag, value, page].  page is the upper half of a      *)
(* four-byte usage, 0 without one.  The tag "cut" stands for an item that    *)
(* the end of the descriptor cuts off, "lmin" (Logical Minimum) and "other"  *)
(* for one that is skipped: a long, reserved or uninteresting one.  What a   *)
(* report holds is a number.                                                 *)
(***************************************************************************)
EXTENDS Naturals, Sequences

CONSTANTS
    Descriptors,    \* the Report Maps, sequences of items
    Ids             \* Report IDs; 0 stands for reports without one

GlobalTags == {"page", "size", "count", "id"}
Tags == GlobalTags \cup {"push", "pop", "usage", "min", "max", "input", "main", "lmin",
                         "other", "cut"}
Items == [tag : Tags, value : Nat, page : Nat]

ASSUME DescriptorAssumption ==
    /\ 0 \in Ids
    /\ Descriptors \subseteq Seq(Items)
    /\ \A d \in Descriptors : \A i \in DOMAIN d : d[i].tag = "id" => d[i].value \in Ids

VARIABLES
    report_map, \* the descriptor
    offset,     \* the next item
    globals,    \* usage_page, report_size, report_count and report_id
    stack,      \* global_stack
    bits,       \* bit_offsets, 0 for an ID without an entry
    locals,     \* local_usages, usage_minimum and usage_maximum
    fields,
    status      \* "parsing", "parsed" or "rejected"

parserVars == <<report_map, offset, globals, stack, bits, locals, fields, status>>

\* No usage: None.
NoUsage == <<>>
NoLocals == [usages |-> <<>>, min |-> NoUsage, max |-> NoUsage]

ParserInit ==
    /\ report_map \in Descriptors /\ offset = 1
    /\ globals = [t \in GlobalTags |-> 0] /\ stack = <<>>
    /\ bits = [i \in Ids |-> 0]
    /\ locals = NoLocals /\ fields = <<>>
    /\ status = "parsing"

(* ------------------------------- the parser ------------------------------ *)

Item == report_map[offset]

\* The loop is at an item of one of these kinds, and reads it.
Reads(tags) ==
    /\ status = "parsing" /\ offset <= Len(report_map) /\ Item.tag \in tags
    /\ offset' = offset + 1
    /\ UNCHANGED report_map

Global ==
    /\ Reads(GlobalTags)
    /\ globals' = [globals EXCEPT ![Item.tag] = Item.value]
    /\ UNCHANGED <<stack, bits, locals, fields, status>>

Push ==
    /\ Reads({"push"})
    /\ stack' = Append(stack, globals)
    /\ UNCHANGED <<globals, bits, locals, fields, status>>

\* Mutant: the Report ID is not among what a Pop brings back.
RestoredButId(saved) == [saved EXCEPT !["id"] = globals["id"]]

Restored(saved) == saved

Pop ==
    /\ Reads({"pop"}) /\ stack # <<>>
    /\ globals' = Restored(stack[Len(stack)])
    /\ stack' = SubSeq(stack, 1, Len(stack) - 1)
    /\ UNCHANGED <<bits, locals, fields, status>>

\* _qualified_usage
Qualified(item) ==
    <<IF item.page = 0 THEN globals["page"] ELSE item.page, item.value>>

Local ==
    /\ Reads({"usage", "min", "max"})
    /\ locals' = CASE Item.tag = "usage" ->
                         [locals EXCEPT !.usages = Append(@, Qualified(Item))]
                   [] Item.tag = "min" -> [locals EXCEPT !.min = Qualified(Item)]
                   [] Item.tag = "max" -> [locals EXCEPT !.max = Qualified(Item)]
    /\ UNCHANGED <<globals, stack, bits, fields, status>>

Skip ==
    /\ Reads({"lmin", "other"})
    /\ UNCHANGED <<globals, stack, bits, locals, fields, status>>

\* The values of an Input item: data or constant, in an array or each of its own.
Constant(item) == item.value % 2 = 1
Variable(item) == (item.value \div 2) % 2 = 1

Field ==
    [id |-> globals["id"], offset |-> bits[globals["id"]], size |-> globals["size"],
     count |-> globals["count"], page |-> globals["page"], variable |-> Variable(Item),
     usages |-> locals.usages, min |-> locals.min, max |-> locals.max]

\* Mutant: controls are counted, not their bits.
WidthInControls == globals["count"]

Width == globals["size"] * globals["count"]

Input ==
    /\ Reads({"input"})
    /\ fields' = IF Constant(Item) \/ globals["size"] = 0 \/ globals["count"] = 0
                 THEN fields ELSE Append(fields, Field)
    /\ bits' = [bits EXCEPT ![globals["id"]] = @ + Width]
    /\ locals' = NoLocals
    /\ UNCHANGED <<globals, stack, status>>

\* A Collection, its end, an Output or a Feature.
OtherMain ==
    /\ Reads({"main"})
    /\ locals' = NoLocals
    /\ UNCHANGED <<globals, stack, bits, fields, status>>

\* HidReportDescriptorError
Reject ==
    /\ Reads({"cut"}) \/ (Reads({"pop"}) /\ stack = <<>>)
    /\ status' = "rejected"
    /\ UNCHANGED <<globals, stack, bits, locals, fields>>

Finish ==
    /\ status = "parsing" /\ offset > Len(report_map)
    /\ status' = "parsed"
    /\ UNCHANGED <<report_map, offset, globals, stack, bits, locals, fields>>

ParserNext ==
    \/ Global \/ Push \/ Pop \/ Local \/ Skip \/ Input \/ OtherMain
    \/ Reject \/ Finish

ParserSpec == ParserInit /\ [][ParserNext]_parserVars

(* -------------------------------- decoding ------------------------------- *)

\* Control k of the field f in the report raw.
ValueAt(f, k, raw) == (raw \div 2 ^ (f.offset + k * f.size)) % 2 ^ f.size

\* _usage_for_value
UsageForValue(f, k, value) ==
    CASE ~f.variable -> <<f.page, value>>
      [] f.variable /\ k < Len(f.usages) -> f.usages[k + 1]
      [] f.variable /\ k >= Len(f.usages) ->
             IF /\ f.min # NoUsage /\ f.max # NoUsage
                /\ f.min[1] = f.max[1] /\ f.min[2] + k <= f.max[2]
             THEN <<f.min[1], f.min[2] + k>>
             ELSE IF f.usages # <<>> THEN f.usages[Len(f.usages)] ELSE NoUsage

\* HidReportDecoder.decode: the active usages of a report.
Decode(id, raw) ==
    (UNION {{UsageForValue(f, k, ValueAt(f, k, raw)) :
                 k \in {j \in 0 .. f.count - 1 : ValueAt(f, j, raw) # 0}} :
            f \in {fields[n] : n \in {m \in DOMAIN fields : fields[m].id = id}}})
        \ {NoUsage}

\* input_report_size_bytes
SizeBytes(id) == (bits[id] + 7) \div 8

(* ------------------------------- properties ------------------------------ *)

Globals == {g \in [GlobalTags -> Nat] : g["id"] \in Ids}
Usages == (Nat \X Nat) \cup {NoUsage}
Fields ==
    [id : Ids, offset : Nat, size : Nat, count : Nat, page : Nat, variable : BOOLEAN,
     usages : Seq(Usages), min : Usages, max : Usages]

\* Every variable keeps to its values.
ParserTypeOK ==
    /\ report_map \in Descriptors
    /\ offset \in 1 .. Len(report_map) + 1
    /\ globals \in Globals /\ stack \in Seq(Globals)
    /\ bits \in [Ids -> Nat]
    /\ locals \in [usages : Seq(Usages), min : Usages, max : Usages]
    /\ fields \in Seq(Fields)
    /\ status \in {"parsing", "parsed", "rejected"}

\* No two fields of one report share a bit, and none reaches beyond the size that
\* the manager expects of the report (hid.py 160-176).
FieldsFit ==
    /\ \A n \in DOMAIN fields :
           fields[n].offset + fields[n].size * fields[n].count <= bits[fields[n].id]
    /\ \A m, n \in DOMAIN fields :
           m < n /\ fields[m].id = fields[n].id =>
               fields[m].offset + fields[m].size * fields[m].count <= fields[n].offset
=============================================================================
