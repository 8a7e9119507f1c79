----------------------------- MODULE MCChooser -----------------------------
(* Two sessions that speak, are stopped, end and close under a browse.       *)
EXTENDS Chooser, TLC

CONSTANTS a, b

MCSession == {a, b}
Both == {a, b}

Symmetry == Permutations(MCSession)

BrowseMessages ==
    {"PROSE", "STOP_SESSION", "SESSION_END", "CLOSE"}
=============================================================================
