------------------------------ MODULE MCDaemon ------------------------------
(* Two sessions; each run chooses who has said hello and which messages the *)
(* sessions and the user send.                                              *)
EXTENDS Daemon, TLC

CONSTANTS a, b

MCSession == {a, b}
Both == {a, b}

Symmetry == Permutations(MCSession)

\* Stopping, moving and breaking the voice while others wait; terminals that
\* close without a word, and the presses that reach them.
LoopMessages ==
    {"STOP_SESSION", "JUMP_WAITING", "SESSION_END", "PROSE", "PARTIAL", "FAULT",
     "CLOSE", "SKIP_PILE", "REPEAT_LAST", "JUMP_DECISION", "DECISION", "OS_FOCUS"}

\* The backlog and the mute: every producer, the cap, every press that empties
\* or reorders a queue, and everything that stops, starts, arms and creates.
QueueMessages ==
    {"PROSE", "TOOL", "DECISION", "TURN_DONE", "FLUSH", "STOP", "SKIP", "SKIP_PILE",
     "JUMP_DECISION", "STOP_SESSION", "STOP_ALL", "SET_FOREGROUND", "SESSION_START"}
=============================================================================
