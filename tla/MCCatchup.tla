----------------------------- MODULE MCCatchup -----------------------------
(* Two sessions; prose, presses and the end of a session around catch-ups.   *)
EXTENDS Catchup

CONSTANTS a, b

MCSession == {a, b}
Both == {a, b}

CatchMessages ==
    {"CATCH_UP", "PROSE", "DECISION", "FLUSH", "JUMP_WAITING", "SESSION_END", "STOP_SESSION"}
=============================================================================
