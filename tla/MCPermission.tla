---------------------------- MODULE MCPermission ----------------------------
(* Two sessions and two asks: of one session, superseding each other, or of
   each session. *)
EXTENDS Permission, TLC

CONSTANTS a, b, r1, r2

MCSession == {a, b}
MCRequest == {r1, r2}
OneSession == {a}
RequestSymmetry == Permutations(MCRequest)
=============================================================================
