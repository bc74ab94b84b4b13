--------------------------- MODULE MCAtvvCapture ---------------------------
(* Model-checking instance of AtvvCapture: two captures can be opened and    *)
(* closed at once, and two timers can be armed.                              *)
EXTENDS AtvvCapture

CONSTANTS o1, o2, c1, c2, h1, h2
=============================================================================
