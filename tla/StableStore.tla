---------------------------- MODULE StableStore ----------------------------
(***************************************************************************)
(* What the state file promises, without threads: memory runs ahead of the  *)
(* file, the file only ever moves forward to a state memory was in, and a   *)
(* restart continues from the file.  A state is the number of changes that  *)
(* led to it.                                                               *)
(***************************************************************************)
EXTENDS Naturals

VARIABLES mem,    \* the daemon's durable state
          disk    \* the state a restart finds

vars == <<mem, disk>>

Init == mem = 0 /\ disk = 0

Change ==
    /\ mem' = mem + 1
    /\ UNCHANGED disk

Publish ==
    /\ disk' \in disk..mem
    /\ UNCHANGED mem

Restart ==
    /\ mem' = disk
    /\ UNCHANGED disk

Next == Change \/ Publish \/ Restart

Spec == Init /\ [][Next]_vars
=============================================================================
