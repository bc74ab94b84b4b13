---------------------------- MODULE MCGattSession ----------------------------
(* Model-checking instance of GattSession: up to two characteristics, two    *)
(* mapping tasks (two watchers, or two connections) and two retry tasks.     *)
EXTENDS GattSession, TLC

CONSTANTS p1, p2, m1, m2, r1, r2

Symmetries == Permutations({m1, m2}) \cup Permutations({r1, r2})
=============================================================================
