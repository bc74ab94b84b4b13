----------------------------- MODULE MCAtvvAudio -----------------------------
(* Model-checking instance of AtvvAudio: two slots for runs, so that a second *)
(* run could start while the first is alive.                                  *)
EXTENDS AtvvAudio

CONSTANTS r1, r2
=============================================================================
