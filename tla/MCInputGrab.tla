----------------------------- MODULE MCInputGrab -----------------------------
(* Model-checking instance of InputGrab: two event nodes, as a composite    *)
(* HID remote has (keyboard and consumer control).                          *)
EXTENDS InputGrab

CONSTANTS n1, n2
=============================================================================
