------------------------------- MODULE Bootstrap -------------------------------
(***************************************************************************)
(* The daemon as a process: daemon/bootstrap.py main(), the frame of host.py *)
(* run(), the singleton flock and the lockfile (platform/transport.py),      *)
(* launchd's job, the hotkey program's witness, and `sonari uninstall'       *)
(* (cli/install.py, cli/teardown.py).                                        *)
(*                                                                          *)
(* A lockfile names a process by its port, its token and its pid; once that  *)
(* process is gone it names nobody, and no other process is taken to listen  *)
(* on the same port.                                                         *)
(***************************************************************************)
EXTENDS Naturals, FiniteSets

CONSTANTS Daemons,        \* process slots
          Job,            \* the slot launchd keeps alive; hooks start the others
          Nobody,
          WitnessFailAfter,
          MaxFaults       \* bound: crashes and errors of the system

ASSUME JobAssumption == Job \in Daemons /\ Nobody \notin Daemons
ASSUME WitnessAssumption == WitnessFailAfter \in Nat \ {0}
ASSUME FaultsAssumption == MaxFaults \in Nat

VARIABLES
    proc,        \* where each process is in main() and run()
    flock,       \* who holds SINGLETON_PATH
    lockfile,    \* whom daemon.lock names
    loaded,      \* launchd knows the job
    installed,   \* the install record or the app copy is there
    uninstall,   \* where `sonari uninstall' is
    misses,      \* witnessFailures
    alarmed,     \* witnessAlarmed
    faults       \* faults so far

procVars == <<proc, flock, lockfile>>
siteVars == <<loaded, installed, uninstall>>
witnessVars == <<misses, alarmed>>
bvars == <<procVars, siteVars, witnessVars, faults>>

\* The process that runs `sonari uninstall', while it probes the flock.
Prober == "prober"

ASSUME ProberAssumption == Prober \notin Daemons \union {Nobody}

Alive(d) == proc[d] # "none"

\* Between bind() and the close of stop() the kernel accepts connections.
Listening(d) == proc[d] \in {"up", "stopping"}

\* socket_connectable: the lockfile is read and its port tried.
Connectable == lockfile \in Daemons /\ Listening(lockfile)

Fault == faults < MaxFaults /\ faults' = faults + 1

Moves(d, from, to) == proc[d] = from /\ proc' = [proc EXCEPT ![d] = to]

\* The process is gone: the system closes its port and drops its flock; the
\* lockfile stays, and names nobody.
Gone(d) ==
    /\ proc' = [proc EXCEPT ![d] = "none"]
    /\ flock' = IF flock = d THEN Nobody ELSE flock
    /\ lockfile' = IF lockfile = d THEN "stale" ELSE lockfile

-----------------------------------------------------------------------------
(* main() *)

Spawn(d) == Moves(d, "none", "fast") /\ UNCHANGED <<flock, lockfile>>

\* Mutant: a lockfile is a daemon.
LockfileThere == lockfile # "none"

AlreadyUp == Connectable

FastPath(d) ==
    /\ Moves(d, "fast", IF AlreadyUp THEN "none" ELSE "lock")
    /\ UNCHANGED <<flock, lockfile>>

SingletonFree == flock = Nobody

AcquireSingleton(d) ==
    /\ proc[d] = "lock"
    /\ IF SingletonFree
       THEN flock' = d /\ proc' = [proc EXCEPT ![d] = "boot"]
       ELSE proc' = [proc EXCEPT ![d] = "none"] /\ UNCHANGED flock
    /\ UNCHANGED lockfile

\* State restored, port bound, lockfile written, threads started.
Boot(d) ==
    /\ Moves(d, "boot", "up")
    /\ lockfile' = d
    /\ UNCHANGED flock

(* run()'s finally *)

\* The running flag is cleared, by a signal or because the accept loop died.
StopRunning(d) == Moves(d, "up", "stopping") /\ UNCHANGED <<flock, lockfile>>

\* Mutant: the flock is let go with the socket, before the lockfile is.
FlockBeforeLockfile(d) == Nobody

FlockKept(d) == flock

CloseSocket(d) ==
    /\ Moves(d, "stopping", "flushing")
    /\ flock' = FlockKept(d)
    /\ UNCHANGED lockfile

\* The writer and the speak thread are joined, the state saved, the lockfile
\* unlinked by its path.
Unlink(d) ==
    /\ Moves(d, "flushing", "ending")
    /\ lockfile' = "none"
    /\ UNCHANGED flock

\* The flush raised: the unlink is skipped, the rest is not.
FlushRaises(d) == Moves(d, "flushing", "ending") /\ UNCHANGED <<flock, lockfile>>

Exit(d) == proc[d] = "ending" /\ Gone(d)

\* SIGTERM is handled from run() on; before, it kills.
Terminate(d) ==
    CASE proc[d] \in {"fast", "lock", "boot"} -> Gone(d)
      [] proc[d] = "up" -> StopRunning(d)
      [] OTHER -> UNCHANGED procVars

-----------------------------------------------------------------------------
(* launchd, and the witness in the hotkey program *)

KeepAlive == loaded /\ Spawn(Job) /\ UNCHANGED <<siteVars, witnessVars, faults>>

\* Mutant: the count starts over at every failure.
MissAlone == 1

OneMore == misses + 1

\* witnessBeat: a ping is a connection that the kernel takes.  What is missed
\* after the alarm is not counted.
WitnessBeat ==
    /\ uninstall \in {"no", "gate"}
    /\ IF Connectable
       THEN misses' = 0 /\ alarmed' = FALSE
       ELSE /\ ~ alarmed
            /\ misses' = OneMore
            /\ alarmed' = (misses' >= WitnessFailAfter)
    /\ UNCHANGED <<procVars, siteVars, faults>>

-----------------------------------------------------------------------------
(* sonari uninstall *)

Goes(from, to) == uninstall = from /\ uninstall' = to

\* The app copy and the install record: the hooks' gate.
CloseGate ==
    /\ Goes("no", "gate") /\ installed' = FALSE
    /\ UNCHANGED <<procVars, loaded, witnessVars, faults>>

\* launchctl unload terminates the job; the hotkey program goes with its own.
Unload ==
    /\ Goes("gate", "unloaded") /\ loaded' = FALSE
    /\ IF loaded THEN Terminate(Job) ELSE UNCHANGED procVars
    /\ UNCHANGED <<installed, witnessVars, faults>>

\* The pid is the lockfile's; without one the flock is asked once.
SignalDaemon ==
    /\ uninstall = "unloaded"
    /\ uninstall' = IF lockfile = "none" THEN "asking" ELSE "waiting"
    /\ IF lockfile \in Daemons THEN Terminate(lockfile) ELSE UNCHANGED procVars
    /\ UNCHANGED <<loaded, installed, witnessVars, faults>>

\* The probe holds the flock for a moment: a daemon that starts then loses it.
Probe ==
    /\ uninstall \in {"asking", "waiting"} /\ SingletonFree
    /\ flock' = Prober
    /\ uninstall' = "probing"
    /\ UNCHANGED <<proc, lockfile, loaded, installed, witnessVars, faults>>

ReleaseProbe ==
    /\ Goes("probing", "stopped")
    /\ flock' = Nobody
    /\ UNCHANGED <<proc, lockfile, loaded, installed, witnessVars, faults>>

\* The only look, or the last one before the deadline, found the flock held.
StillRunning ==
    /\ uninstall \in {"asking", "waiting"}
    /\ uninstall = "asking" => ~ SingletonFree
    /\ uninstall' = "running"
    /\ UNCHANGED <<procVars, loaded, installed, witnessVars, faults>>

RemoveArtifacts ==
    /\ uninstall \in {"stopped", "running"}
    /\ uninstall' = IF uninstall = "stopped" THEN "gone" ELSE "left"
    /\ lockfile' = IF uninstall = "stopped" THEN "none" ELSE lockfile
    /\ UNCHANGED <<proc, flock, loaded, installed, witnessVars, faults>>

Uninstall ==
    \/ CloseGate \/ Unload \/ SignalDaemon \/ Probe \/ ReleaseProbe
    \/ StillRunning

-----------------------------------------------------------------------------
BootInit ==
    /\ proc = [d \in Daemons |-> "none"]
    /\ flock = Nobody
    /\ lockfile \in {"none", "stale"}
    /\ loaded \in BOOLEAN /\ installed = TRUE /\ uninstall = "no"
    /\ misses = 0 /\ alarmed = FALSE
    /\ faults = 0

Phases == {"none", "fast", "lock", "boot", "up", "stopping", "flushing", "ending"}

BootTypeOK ==
    /\ proc \in [Daemons -> Phases]
    /\ flock \in Daemons \union {Nobody, Prober}
    /\ lockfile \in Daemons \union {"none", "stale"}
    /\ loaded \in BOOLEAN /\ installed \in BOOLEAN /\ alarmed \in BOOLEAN
    /\ uninstall \in {"no", "gate", "unloaded", "asking", "waiting", "probing",
                      "stopped", "running", "gone", "left"}
    /\ misses \in 0..WitnessFailAfter /\ faults \in 0..MaxFaults

\* Whoever is past the flock holds it until it is gone.
Holders == {d \in Daemons : proc[d] \notin {"none", "fast", "lock"}}
=============================================================================
