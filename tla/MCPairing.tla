----------------------------- MODULE MCPairing -----------------------------
(* Model-checking instance of Pairing: two calls of all three kinds, one     *)
(* after the other, on one device.                                           *)
EXTENDS Pairing
=============================================================================
