-------------------------- MODULE MCEntryLifecycle --------------------------
(* Model-checking instance of EntryLifecycle: one remote, one set-up flow and *)
(* one options flow at a time; nothing else is bounded.                       *)
EXTENDS EntryLifecycle
=============================================================================
