--------------------------- MODULE MCHidDescriptor ---------------------------
(* Model-checking instance of HidDescriptor: the globals of a few buttons,    *)
(* then every sequence of three pieces of a Report Map, those that remotes    *)
(* use, a few that they do not, those that hid.py reads in its own way, and   *)
(* two that break it; at last buttons that take what the globals are then.    *)
(* Reports have eight bits.                                                   *)
EXTENDS HidLayout

I(t, v) == [tag |-> t, value |-> v, page |-> 0]
Data == I("input", 0)
Pad == I("input", 1)
Var == I("input", 2)

Buttons == <<I("page", 7), I("size", 1), I("count", 2)>>

Pieces ==
    {Buttons,
     <<I("id", 1), I("page", 12)>>,
     <<I("min", 0), I("max", 2), I("size", 2), I("count", 1), Data>>,
     <<I("lmin", 1), I("min", 1), I("max", 3), I("size", 2), Data>>,
     <<I("usage", 4), I("usage", 6), I("size", 2), Data>>,
     <<I("usage", 4), I("usage", 5), Var>>,
     <<I("usage", 6), [tag |-> "usage", value |-> 9, page |-> 3], I("count", 3), Var>>,
     <<I("min", 2), I("max", 3), Var>>,
     <<I("min", 8), I("max", 9)>>,
     <<I("usage", 1), I("page", 3)>>,
     <<I("usage", 1), I("main", 0), Var>>,
     <<I("count", 0), Var, I("other", 0)>>,
     <<Pad>>, <<I("push", 0)>>, <<I("pop", 0)>>, <<I("cut", 0)>>}

MCDescriptors ==
    {s \o a \o b \o c \o <<I("usage", 2), Var>> :
        s \in {Buttons, <<I("push", 0)>> \o Buttons}, a \in Pieces, b \in Pieces, c \in Pieces}

MCReports == {2 ^ b : b \in 0 .. 7} \cup {255, 36}
=============================================================================
