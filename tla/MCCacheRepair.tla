---------------------------- MODULE MCCacheRepair ----------------------------
(* Model-checking instance of CacheRepair: the cfg says how many calls are   *)
(* made.                                                                     *)
EXTENDS CacheRepair
=============================================================================
