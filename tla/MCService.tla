------------------------------ MODULE MCService ------------------------------
(* One hook, launchd's job and one process that hooks start, a pool of two. *)
EXTENDS Service

CONSTANTS job, lazy, nobody, h1, press

MCDaemons == {job, lazy}
MCHooks == {h1}
MCConns == ConnSlots
=============================================================================
