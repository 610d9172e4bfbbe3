---------------------------- MODULE MCMmObserver ----------------------------
(* The observer over its transport for TLC. *)
EXTENDS MmObserver

MCRules == {"objects", "owner"}
=============================================================================
