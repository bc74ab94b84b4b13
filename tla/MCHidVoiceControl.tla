-------------------------- MODULE MCHidVoiceControl --------------------------
(* Model-checking instance of HidVoiceControl: two stop tasks, so that two   *)
(* releases can have their stop commands under way at once.                  *)
EXTENDS HidVoiceControl

CONSTANTS k1, k2
=============================================================================
