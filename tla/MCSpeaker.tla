----------------------------- MODULE MCSpeaker -----------------------------
(* Speaker with the speak loop (which claims its epoch) and the boot cue    *)
(* (which does not), and two cancelling connection threads.                 *)
EXTENDS Speaker, TLC

CONSTANTS loop, boot, c1, c2

MCThread == {loop, boot}
MCClaimer == {loop}
MCCanceller == {c1, c2}
Symmetry == Permutations(MCCanceller)
=============================================================================
