---------------------------- MODULE MCPresence -----------------------------
(* The policy and the manager, with one player and one overlapping it (or    *)
(* one that exited and was not observed yet).                                *)
EXTENDS Presence
=============================================================================
