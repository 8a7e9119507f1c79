----------------------------- MODULE ServiceProofs -----------------------------
(***************************************************************************)
(* The service for any number of processes, hooks and connections: one       *)
(* daemon at a time, found by its lockfile, and a pool whose permits add up. *)
(***************************************************************************)
EXTENDS Service, FiniteSetTheorems, TLAPS

\* Whoever is past the flock holds it, and the prober while it probes.
FlockInv ==
    /\ \A d \in Holders : flock = d
    /\ uninstall = "probing" => flock = Prober

\* Short of the alarm the witness may miss once more.
AlarmInv == ~ alarmed => misses < WitnessFailAfter

ProcInv == BootTypeOK /\ FlockInv /\ AlarmInv /\ ServesItsLockfile

Stages == {"no", "gate", "unloaded", "asking", "waiting", "probing",
           "stopped", "running", "gone", "left"}

\* What may go with a move of a process: a stage of the uninstall other than
\* its probe, a beat of the witness, a fault.
Around ==
    /\ \/ uninstall' = uninstall
       \/ uninstall # "gone" /\ uninstall' \in Stages \ {"probing"}
    /\ loaded' \in BOOLEAN /\ installed' \in BOOLEAN /\ alarmed' \in BOOLEAN
    /\ misses' \in 0..WitnessFailAfter /\ faults' \in 0..MaxFaults
    /\ AlarmInv'

-----------------------------------------------------------------------------
(* The processes *)

\* A process that nobody finds yet, or no more, disturbs nobody.
LEMMA HiddenKeeps ==
    ASSUME ProcInv, Around, NEW d \in Daemons,
           Spawn(d) \/ FastPath(d) \/ StopRunning(d) \/ CloseSocket(d) \/ FlushRaises(d)
    PROVE  ProcInv'
<1>. USE DEF ProcInv, FlockInv, BootTypeOK, Holders, ServesItsLockfile, Phases, AlarmInv,
             Around, Stages
<1>1. /\ proc' = [proc EXCEPT ![d] = proc'[d]] /\ UNCHANGED <<flock, lockfile>>
      /\ proc'[d] \in Phases
      /\ proc'[d] # "up"
      /\ d \in Holders' => d \in Holders
  BY DEF Spawn, FastPath, StopRunning, CloseSocket, FlushRaises, Moves, FlockKept
<1>2. BootTypeOK'
  BY <1>1
<1>3. FlockInv'
  BY <1>1
<1>4. ServesItsLockfile'
  BY <1>1
<1>5. QED BY <1>2, <1>3, <1>4

\* The flock is taken when it is free, and keeps others from the lockfile.
LEMMA HolderKeeps ==
    ASSUME ProcInv, Around, NEW d \in Daemons,
           AcquireSingleton(d) \/ Boot(d) \/ Unlink(d)
    PROVE  ProcInv'
<1>. USE DEF ProcInv, FlockInv, BootTypeOK, Holders, ServesItsLockfile, Phases, AlarmInv,
             Around, Stages
<1>1. CASE AcquireSingleton(d)
  BY <1>1, JobAssumption, ProberAssumption DEF AcquireSingleton, SingletonFree
<1>2. CASE Boot(d)
  BY <1>2 DEF Boot, Moves
<1>3. CASE Unlink(d)
  BY <1>3 DEF Unlink, Moves
<1>4. QED BY <1>1, <1>2, <1>3

\* A process that is gone took its flock, and the name in the lockfile, along.
LEMMA GoneKeeps ==
    ASSUME ProcInv, Around, NEW d \in Daemons, Gone(d)
    PROVE  ProcInv'
BY ProberAssumption DEF ProcInv, FlockInv, BootTypeOK, Holders, ServesItsLockfile,
                        Phases, Gone, Around, Stages

LEMMA StillKeeps ==
    ASSUME ProcInv, Around, UNCHANGED procVars
    PROVE  ProcInv'
BY DEF ProcInv, FlockInv, BootTypeOK, Holders, ServesItsLockfile, Around, Stages,
       procVars, AlarmInv

LEMMA TerminateKeeps ==
    ASSUME ProcInv, Around, NEW d \in Daemons, Terminate(d)
    PROVE  ProcInv'
<1>1. Gone(d) \/ StopRunning(d) \/ UNCHANGED procVars
  BY DEF Terminate
<1>2. QED BY <1>1, GoneKeeps, HiddenKeeps, StillKeeps

\* The uninstaller's probe takes a free flock only.
LEMMA UninstallKeeps ==
    ASSUME ProcInv, Uninstall \/ RemoveArtifacts
    PROVE  ProcInv'
<1>. USE DEF Goes, witnessVars, procVars, Stages
<1>0. BootTypeOK /\ AlarmInv BY DEF ProcInv
<1>1. CASE CloseGate \/ StillRunning
  <2>1. Around /\ UNCHANGED procVars
    BY <1>0, <1>1 DEF Around, CloseGate, StillRunning, BootTypeOK, AlarmInv
  <2>2. QED BY <2>1, StillKeeps
<1>2. CASE Unload
  <2>1. Around
    BY <1>0, <1>2 DEF Around, Unload, BootTypeOK, AlarmInv
  <2>2. Terminate(Job) \/ UNCHANGED procVars
    BY <1>2 DEF Unload
  <2>3. QED BY <2>1, <2>2, StillKeeps, TerminateKeeps, JobAssumption
<1>3. CASE SignalDaemon
  <2>1. Around
    BY <1>0, <1>3 DEF Around, SignalDaemon, BootTypeOK, AlarmInv
  <2>2. (lockfile \in Daemons /\ Terminate(lockfile)) \/ UNCHANGED procVars
    BY <1>3 DEF SignalDaemon
  <2>3. QED BY <2>1, <2>2, StillKeeps, TerminateKeeps
<1>. USE DEF ProcInv, FlockInv, BootTypeOK, Holders, ServesItsLockfile,
             AlarmInv
<1>4. CASE Probe
  BY <1>4, JobAssumption DEF Probe, SingletonFree
<1>5. CASE ReleaseProbe
  BY <1>5, ProberAssumption DEF ReleaseProbe
<1>6. CASE RemoveArtifacts
  BY <1>6 DEF RemoveArtifacts
<1>7. QED BY <1>1, <1>2, <1>3, <1>4, <1>5, <1>6 DEF Uninstall

LEMMA ProcStep == ProcInv /\ [Next]_vars => ProcInv'
<1>. SUFFICES ASSUME ProcInv, [Next]_vars PROVE ProcInv'
  OBVIOUS
<1>0. BootTypeOK /\ AlarmInv BY DEF ProcInv
<1>. USE DEF bvars, siteVars, witnessVars
<1>1. CASE UNCHANGED bvars
  <2>1. Around /\ UNCHANGED procVars
    BY <1>0, <1>1 DEF Around, BootTypeOK, AlarmInv
  <2>2. QED BY <2>1, StillKeeps
<1>2. ASSUME NEW h \in Hooks, EnsureRunning(h) PROVE ProcInv'
  <2>1. Around
    BY <1>0, <1>2 DEF Around, BootTypeOK, AlarmInv, EnsureRunning
  <2>2. (\E d \in Daemons : Spawn(d)) \/ UNCHANGED procVars
    BY <1>2 DEF EnsureRunning
  <2>3. QED BY <2>1, <2>2, HiddenKeeps, StillKeeps
<1>3. ASSUME NEW c \in Conns, ThreadFails(c) PROVE ProcInv'
  <2>1. Around /\ UNCHANGED procVars
    BY <1>0, <1>3, FaultsAssumption DEF Around, BootTypeOK, AlarmInv, ThreadFails, Fault
  <2>2. QED BY <2>1, StillKeeps
<1>4. ASSUME NEW d \in Daemons, DaemonStep(d) PROVE ProcInv'
  <2>1. Around
    BY <1>0, <1>4 DEF Around, BootTypeOK, AlarmInv, DaemonStep
  <2>2. \/ FastPath(d) \/ CloseSocket(d)
        \/ AcquireSingleton(d) \/ Boot(d) \/ Unlink(d) \/ Gone(d)
    BY <1>4 DEF DaemonStep, Exit
  <2>3. QED BY <2>1, <2>2, HiddenKeeps, HolderKeeps, GoneKeeps
<1>5. ASSUME NEW d \in Daemons, DaemonFault(d) PROVE ProcInv'
  <2>1. Around
    BY <1>0, <1>5, FaultsAssumption DEF Around, BootTypeOK, AlarmInv, DaemonFault, Fault
  <2>2. Gone(d) \/ StopRunning(d) \/ FlushRaises(d)
    BY <1>5 DEF DaemonFault
  <2>3. QED BY <2>1, <2>2, HiddenKeeps, GoneKeeps
<1>6. CASE Launchd
  <2>1. Around /\ Spawn(Job)
    BY <1>0, <1>6 DEF Around, BootTypeOK, AlarmInv, Launchd, KeepAlive
  <2>2. QED BY <2>1, HiddenKeeps, JobAssumption
<1>7. CASE Witness
  <2>1. CASE Connectable
    <3>1. misses' = 0 /\ alarmed' = FALSE /\ UNCHANGED <<procVars, siteVars, faults>>
      BY <1>7, <2>1 DEF Witness, WitnessBeat
    <3>2. misses' \in 0..WitnessFailAfter /\ misses' < WitnessFailAfter
      BY <3>1, WitnessAssumption
    <3>3. alarmed' \in BOOLEAN
      BY <3>1
    <3>4. Around
      BY <1>0, <3>1, <3>2, <3>3 DEF Around, BootTypeOK, AlarmInv
    <3>5. QED BY <3>1, <3>4, StillKeeps
  <2>2. CASE ~ Connectable
    <3>. USE <1>0, <1>7, WitnessAssumption DEF BootTypeOK, AlarmInv, Witness, WitnessBeat
    <3>1. misses' = misses + 1 /\ misses' \in 0..WitnessFailAfter
      BY <2>2 DEF OneMore
    <3>2. alarmed' = (misses' >= WitnessFailAfter)
      BY <2>2
    <3>3. alarmed' \in BOOLEAN
      BY <3>2
    <3>4. ~ alarmed' => ~ (misses' >= WitnessFailAfter)
      BY <3>2, Zenon
    <3>5. AlarmInv'
      BY <3>1, <3>4
    <3>6. QED BY <3>1, <3>3, <3>5, StillKeeps DEF Around
  <2>3. QED BY <2>1, <2>2
<1>8. CASE UninstallStep
  BY <1>8, UninstallKeeps DEF UninstallStep
<1>9. ASSUME NEW h \in Hooks, Fire(h) \/ HookStep(h), ~ EnsureRunning(h)
      PROVE UNCHANGED bvars
  BY <1>9 DEF Fire, HookStep, Ensure, Reachable, Poll, GiveUpPolling, SendEach,
              SendAsk, Reply
<1>10. CASE MemoAges \/ PressSends \/ \E c \in Conns : ConnStep(c)
  BY <1>1, <1>10 DEF MemoAges, PressSends, ConnStep
<1>11. CASE UNCHANGED vars
  BY <1>1, <1>11 DEF vars
<1>12. QED
  BY <1>1, <1>2, <1>3, <1>4, <1>5, <1>6, <1>7, <1>8, <1>9, <1>10, <1>11 DEF Next

-----------------------------------------------------------------------------
(* The pool *)

SlotInv == \A c \in Conns : conn[c].st = "none" <=> conn[c].at = Nobody

PoolInv == ServerTypeOK /\ SlotInv /\ PermitsAddUp

\* A connection that has a thread, and so a permit.
Permitted(c) == conn[c].st \notin {"none", "backlog"}

LEMMA ThreadsAre ==
    ASSUME PoolInv, NEW d \in Daemons
    PROVE  /\ Threads(d) = {c \in Conns : conn[c].at = d /\ Permitted(c)}
           /\ IsFiniteSet(Threads(d)) /\ Cardinality(Threads(d)) \in Nat
<1>1. Threads(d) = {c \in Conns : conn[c].at = d /\ Permitted(c)}
  BY JobAssumption DEF PoolInv, SlotInv, Threads, At, Permitted
<1>2. Threads(d) \subseteq Conns
  BY <1>1
<1>3. QED BY <1>1, <1>2, ConnsAssumption, FS_Subset, FS_CardinalityType

\* A step that leaves the threads and the permits of a process alone.
LEMMA SameThreads ==
    ASSUME PoolInv, ServerTypeOK', SlotInv', UNCHANGED permits,
           \A c \in Conns : \/ /\ conn'[c].at = conn[c].at
                               /\ Permitted(c)' <=> Permitted(c)
                            \/ ~ Permitted(c) /\ ~ Permitted(c)'
    PROVE  PoolInv'
<1>1. ASSUME NEW d \in Daemons PROVE Threads(d)' = Threads(d)
  BY JobAssumption DEF PoolInv, SlotInv, Threads, At, Permitted
<1>2. QED BY <1>1 DEF PoolInv, PermitsAddUp

\* What a client sends waits in the backlog.
LEMMA SendKeeps ==
    ASSUME PoolInv, NEW c, Send(c)
    PROVE  PoolInv'
<1>. USE DEF PoolInv, ServerTypeOK, SlotInv, Permitted
<1>1. CASE c \in Conns /\ Connectable
  <2>1. conn' = [conn EXCEPT ![c] = [st |-> "backlog", at |-> lockfile]]
    BY <1>1 DEF Send
  <2>2. lockfile \in Daemons /\ lockfile # Nobody
    BY <1>1, JobAssumption DEF Connectable
  <2>3. ServerTypeOK' /\ SlotInv' /\ UNCHANGED permits
    BY <1>1, <2>1, <2>2 DEF Send
  <2>4. QED BY <1>1, <2>1, <2>3, SameThreads DEF Send
<1>2. CASE ~ (c \in Conns /\ Connectable)
  <2>1. UNCHANGED <<conn, permits>>
    BY <1>2 DEF Send
  <2>2. QED BY <2>1, SameThreads
<1>3. QED BY <1>1, <1>2

\* A permit is taken as the thread starts ...
LEMMA TakenKeeps ==
    ASSUME PoolInv, NEW c \in Conns, conn[c].st = "backlog",
           permits[conn[c].at] > 0, Takes(c), Becomes(c, "thread")
    PROVE  PoolInv'
<1>. DEFINE e == conn[c].at
<1>1. e \in Daemons /\ conn[c].st # "none"
  BY DEF PoolInv, ServerTypeOK, SlotInv
<1>2. conn' = [conn EXCEPT ![c].st = "thread"]
      /\ permits' = [permits EXCEPT ![e] = @ - 1]
  BY DEF Takes, Becomes
<1>3. ServerTypeOK' /\ SlotInv'
  BY <1>1, <1>2, CapAssumption DEF PoolInv, ServerTypeOK, SlotInv
<1>4. ASSUME NEW d \in Daemons
      PROVE Threads(d)' = IF d = e THEN Threads(d) \union {c} ELSE Threads(d)
  BY <1>1, <1>2 DEF PoolInv, ServerTypeOK, Threads, At
<1>5. ASSUME NEW d \in Daemons
      PROVE permits'[d] + Cardinality(Threads(d)') = Cap
  <2>1. permits[d] + Cardinality(Threads(d)) = Cap /\ permits[d] \in Nat
    BY DEF PoolInv, PermitsAddUp, ServerTypeOK
  <2>2. CASE d = e
    <3>1. c \notin Threads(d)
      BY DEF Threads
    <3>2. Cardinality(Threads(d)') = Cardinality(Threads(d)) + 1
      BY <1>4, <2>2, <3>1, ThreadsAre, FS_AddElement
    <3>3. permits'[d] = permits[d] - 1
      BY <1>1, <1>2, <2>2 DEF PoolInv, ServerTypeOK
    <3>4. QED BY <2>1, <3>2, <3>3, ThreadsAre
  <2>3. CASE d # e
    BY <1>2, <1>4, <2>1, <2>3 DEF PoolInv, ServerTypeOK
  <2>4. QED BY <2>2, <2>3
<1>6. QED BY <1>3, <1>5 DEF PoolInv, PermitsAddUp

\* ... and given back as it ends.
LEMMA ReleasedKeeps ==
    ASSUME PoolInv, NEW c \in Conns, Permitted(c), Ends(c), Releases(c)
    PROVE  PoolInv'
<1>. DEFINE e == conn[c].at
<1>1. e \in Daemons
  BY DEF PoolInv, ServerTypeOK, SlotInv, Permitted
<1>2. conn' = [conn EXCEPT ![c] = [st |-> "none", at |-> Nobody]]
      /\ permits' = [permits EXCEPT ![e] = @ + 1]
  BY DEF Ends, None, Releases
<1>3. ASSUME NEW d \in Daemons
      PROVE Threads(d)' = IF d = e THEN Threads(d) \ {c} ELSE Threads(d)
  BY <1>1, <1>2, JobAssumption DEF PoolInv, ServerTypeOK, Threads, At
<1>4. c \in Threads(e)
  BY <1>1, ThreadsAre
<1>5. ASSUME NEW d \in Daemons
      PROVE permits'[d] + Cardinality(Threads(d)') = Cap /\ permits'[d] \in 0..Cap
  <2>1. permits[d] + Cardinality(Threads(d)) = Cap /\ permits[d] \in Nat
    BY DEF PoolInv, PermitsAddUp, ServerTypeOK
  <2>2. CASE d = e
    <3>1. Cardinality(Threads(d)') = Cardinality(Threads(d)) - 1
      BY <1>3, <1>4, <2>2, ThreadsAre, FS_RemoveElement
    <3>2. permits'[d] = permits[d] + 1
      BY <1>1, <1>2, <2>2 DEF PoolInv, ServerTypeOK
    <3>3. Cardinality(Threads(d)') \in Nat
      BY <1>3, <2>2, ThreadsAre, FS_RemoveElement, FS_CardinalityType
    <3>4. QED BY <2>1, <3>1, <3>2, <3>3, ThreadsAre, CapAssumption
  <2>3. CASE d # e
    BY <1>2, <1>3, <2>1, <2>3, CapAssumption DEF PoolInv, ServerTypeOK
  <2>4. QED BY <2>2, <2>3
<1>6. ServerTypeOK' /\ SlotInv'
  <2>1. permits' \in [Daemons -> 0..Cap]
    BY <1>2, <1>5 DEF PoolInv, ServerTypeOK
  <2>2. QED BY <1>2, <2>1, JobAssumption DEF PoolInv, ServerTypeOK, SlotInv
<1>7. QED BY <1>5, <1>6 DEF PoolInv, PermitsAddUp

\* The end of a process takes its connections along, and starts the count anew.
LEMMA CutKeeps ==
    ASSUME PoolInv, NEW e \in Daemons, Cut(e)
    PROVE  PoolInv'
<1>1. conn' = [c \in Conns |-> IF c \in At(e) THEN [st |-> "none", at |-> Nobody] ELSE conn[c]]
      /\ permits' = [permits EXCEPT ![e] = Cap]
  BY DEF Cut, Without, None
<1>2. ServerTypeOK' /\ SlotInv'
  BY <1>1, CapAssumption DEF PoolInv, ServerTypeOK, SlotInv, At
<1>3. ASSUME NEW d \in Daemons
      PROVE Threads(d)' = IF d = e THEN {} ELSE Threads(d)
  BY <1>1, JobAssumption DEF PoolInv, ServerTypeOK, Threads, At
<1>4. ASSUME NEW d \in Daemons
      PROVE permits'[d] + Cardinality(Threads(d)') = Cap
  <2>1. CASE d = e
    <3>1. permits'[d] = Cap /\ Cardinality(Threads(d)') = 0
      BY <1>1, <1>3, <2>1, FS_EmptySet DEF PoolInv, ServerTypeOK
    <3>2. QED BY <3>1, CapAssumption
  <2>2. CASE d # e
    BY <1>1, <1>3, <2>2 DEF PoolInv, ServerTypeOK, PermitsAddUp
  <2>3. QED BY <2>1, <2>2
<1>5. QED BY <1>2, <1>4 DEF PoolInv, PermitsAddUp

\* Every step of a connection.
LEMMA ServeKeeps ==
    ASSUME PoolInv, NEW c \in Conns, Admit(c) \/ Refuse(c) \/ Serve(c)
    PROVE  PoolInv'
<1>1. CASE Admit(c)
  BY <1>1, TakenKeeps DEF Admit, AwaitsAccept
<1>2. CASE Refuse(c)
  <2>1. ServerTypeOK' /\ SlotInv' /\ UNCHANGED permits
    BY <1>2, JobAssumption DEF Refuse, Ends, None, PoolInv, ServerTypeOK, SlotInv
  <2>2. QED
    BY <1>2, <2>1, SameThreads
       DEF Refuse, AwaitsAccept, Ends, None, PoolInv, ServerTypeOK, Permitted
<1>3. CASE HangUp(c) \/ Finish(c)
  BY <1>3, ReleasedKeeps DEF HangUp, Finish, Permitted
<1>4. CASE ReadMessage(c)
  <2>1. CASE proc[conn[c].at] = "up"
    <3>1. Becomes(c, "message") /\ UNCHANGED permits /\ conn[c].st = "thread"
      BY <1>4, <2>1 DEF ReadMessage
    <3>2. ServerTypeOK' /\ SlotInv'
      BY <3>1 DEF Becomes, PoolInv, ServerTypeOK, SlotInv
    <3>3. QED
      BY <3>1, <3>2, SameThreads DEF Becomes, PoolInv, ServerTypeOK, Permitted
  <2>2. CASE proc[conn[c].at] # "up"
    BY <1>4, <2>2, ReleasedKeeps DEF ReadMessage, Permitted
  <2>3. QED BY <2>1, <2>2
<1>5. CASE Dispatch(c) \/ DispatchAsk(c) \/ AskExpires(c)
  <2>1. PICK st \in {"served", "blocked"} : Becomes(c, st)
    BY <1>5 DEF Dispatch, DispatchAsk, AskExpires
  <2>2. UNCHANGED permits /\ conn[c].st \in {"message", "blocked"}
    BY <1>5 DEF Dispatch, DispatchAsk, AskExpires, Expires
  <2>3. ServerTypeOK' /\ SlotInv'
    BY <2>1, <2>2 DEF Becomes, PoolInv, ServerTypeOK, SlotInv
  <2>4. QED
    BY <2>1, <2>2, <2>3, SameThreads DEF Becomes, PoolInv, ServerTypeOK, Permitted
<1>6. ASSUME NEW ask \in Conns, DispatchAnswer(c, ask) PROVE PoolInv'
  <2>1. ServerTypeOK' /\ SlotInv'
    BY <1>6 DEF DispatchAnswer, PoolInv, ServerTypeOK, SlotInv
  <2>2. QED
    BY <1>6, <2>1, SameThreads DEF DispatchAnswer, PoolInv, ServerTypeOK, Permitted
<1>7. QED BY <1>1, <1>2, <1>3, <1>4, <1>5, <1>6 DEF Serve

LEMMA PoolStep == PoolInv /\ [Next]_vars => PoolInv'
<1>. SUFFICES ASSUME PoolInv, [Next]_vars PROVE PoolInv'
  OBVIOUS
<1>1. CASE UNCHANGED serverVars
  BY <1>1, SameThreads DEF serverVars, PoolInv, ServerTypeOK, SlotInv, Permitted
<1>2. ASSUME NEW h \in Hooks, Fire(h) \/ HookStep(h) PROVE PoolInv'
  <2>1. UNCHANGED serverVars \/ \E c : Send(c)
    BY <1>2 DEF Fire, HookStep, Ensure, Reachable, EnsureRunning, Poll,
                GiveUpPolling, SendEach, SendAsk, Reply
  <2>2. QED BY <1>1, <2>1, SendKeeps
<1>3. CASE MemoAges \/ PressSends
  BY <1>1, <1>3, SendKeeps DEF MemoAges, PressSends
<1>4. ASSUME NEW c \in Conns, ConnStep(c) PROVE PoolInv'
  BY <1>4, ServeKeeps DEF ConnStep
<1>5. ASSUME NEW c \in Conns, ThreadFails(c) PROVE PoolInv'
  <2>1. conn[c].st = "backlog" /\ Ends(c) /\ UNCHANGED permits
    BY <1>5 DEF ThreadFails, StartFails, AwaitsAccept, PermitBack
  <2>2. ServerTypeOK' /\ SlotInv'
    BY <2>1, JobAssumption DEF Ends, None, PoolInv, ServerTypeOK, SlotInv
  <2>3. QED
    BY <2>1, <2>2, SameThreads DEF Ends, None, PoolInv, ServerTypeOK, Permitted
<1>6. ASSUME NEW d \in Daemons, conn' = Without(At(d) \ Threads(d)), UNCHANGED permits
      PROVE PoolInv'
  <2>1. ServerTypeOK' /\ SlotInv'
    BY <1>6, JobAssumption DEF Without, None, PoolInv, ServerTypeOK, SlotInv
  <2>2. QED
    BY <1>6, <2>1, SameThreads
       DEF Without, None, At, Threads, PoolInv, ServerTypeOK, SlotInv, Permitted
<1>7. ASSUME NEW d \in Daemons, DaemonStep(d) \/ DaemonFault(d) PROVE PoolInv'
  <2>1. \/ UNCHANGED serverVars
        \/ conn' = Without(At(d) \ Threads(d)) /\ UNCHANGED permits
        \/ Cut(d)
    BY <1>7 DEF DaemonStep, DaemonFault
  <2>2. QED BY <1>1, <1>6, <2>1, CutKeeps
<1>8. CASE Launchd \/ Witness \/ UninstallStep \/ UNCHANGED vars
  BY <1>1, <1>8 DEF Launchd, Witness, UninstallStep, vars, serverVars
<1>9. QED BY <1>2, <1>3, <1>4, <1>5, <1>7, <1>8 DEF Next

-----------------------------------------------------------------------------
(* The clients *)

ClientInv ==
    /\ hook \in [Hooks -> {"idle", "ensure", "spawn", "poll", "send", "await"}]
    /\ sent \in [Hooks -> 0..(Messages - 1)]
    /\ memo \in BOOLEAN

LEMMA ClientStep == ClientInv /\ [Next]_vars => ClientInv'
<1>. SUFFICES ASSUME ClientInv, [Next]_vars PROVE ClientInv'
  OBVIOUS
<1>. USE DEF ClientInv
<1>1. CASE UNCHANGED clientVars
  BY <1>1 DEF clientVars
<1>2. ASSUME NEW h \in Hooks, Fire(h) \/ Ensure(h) \/ EnsureRunning(h) \/ Poll(h)
                               \/ SendAsk(h) \/ Reply(h)
      PROVE ClientInv'
  BY <1>2 DEF Fire, Ensure, Reachable, EnsureRunning, Poll, GiveUpPolling, SendAsk,
              Reply, Steps
<1>3. ASSUME NEW h \in Hooks, SendEach(h) PROVE ClientInv'
  BY <1>3, MessagesAssumption DEF SendEach
<1>4. CASE MemoAges
  BY <1>4 DEF MemoAges
<1>5. CASE UninstallStep
  BY <1>1, <1>5 DEF UninstallStep
<1>6. CASE PressSends \/ Launchd \/ Witness \/ (\E c \in Conns : ConnStep(c) \/ ThreadFails(c))
           \/ (\E d \in Daemons : DaemonStep(d) \/ DaemonFault(d)) \/ UNCHANGED vars
  BY <1>1, <1>6 DEF PressSends, Launchd, Witness, ConnStep, ThreadFails, DaemonStep,
                    DaemonFault, vars
<1>7. QED BY <1>2, <1>3, <1>4, <1>5, <1>6 DEF Next, HookStep

-----------------------------------------------------------------------------
(* Together *)

LEMMA InitHolds == Init => ProcInv /\ PoolInv /\ ClientInv
<1>. SUFFICES ASSUME Init PROVE ProcInv /\ PoolInv /\ ClientInv
  OBVIOUS
<1>1. ProcInv
  <2>1. BootTypeOK
    <3>1. 0 \in 0..WitnessFailAfter /\ 0 \in 0..MaxFaults
      BY WitnessAssumption, FaultsAssumption
    <3>2. installed \in BOOLEAN /\ alarmed \in BOOLEAN
      BY DEF Init, BootInit
    <3>3. proc \in [Daemons -> Phases]
      BY DEF Init, BootInit, Phases
    <3>4. misses \in 0..WitnessFailAfter /\ faults \in 0..MaxFaults
      BY <3>1 DEF Init, BootInit
    <3>5. QED BY <3>2, <3>3, <3>4 DEF Init, BootInit, BootTypeOK
  <2>2. AlarmInv
    BY WitnessAssumption DEF Init, BootInit, AlarmInv
  <2>3. FlockInv /\ ServesItsLockfile
    BY DEF Init, BootInit, FlockInv, Holders, ServesItsLockfile
  <2>4. QED BY <2>1, <2>2, <2>3 DEF ProcInv
<1>2. PoolInv
  <2>1. ServerTypeOK /\ SlotInv
    BY CapAssumption DEF Init, ServerInit, None, ServerTypeOK, SlotInv
  <2>2. ASSUME NEW d \in Daemons PROVE Threads(d) = {}
    BY JobAssumption DEF Init, ServerInit, None, Threads, At
  <2>3. PermitsAddUp
    BY <2>2, FS_EmptySet, CapAssumption DEF Init, ServerInit, PermitsAddUp
  <2>4. QED BY <2>1, <2>3 DEF PoolInv
<1>3. ClientInv
  <2>1. 0 \in 0..(Messages - 1)
    BY MessagesAssumption
  <2>2. QED BY <2>1 DEF Init, ClientInv
<1>4. QED BY <1>1, <1>2, <1>3

LEMMA InvHolds == Spec => [](ProcInv /\ PoolInv /\ ClientInv)
<1>1. ProcInv /\ PoolInv /\ ClientInv /\ [Next]_vars
        => (ProcInv /\ PoolInv /\ ClientInv)'
  BY ProcStep, PoolStep, ClientStep
<1>2. QED BY InitHolds, <1>1, PTL DEF Spec

\* However many processes hooks and launchd start, in whatever order they die,
\* end and are uninstalled: one is past main(), and the lockfile names it.
THEOREM DaemonSoundHolds == Spec => []DaemonSound
<1>1. ProcInv /\ PoolInv /\ ClientInv => DaemonSound
  <2>. SUFFICES ASSUME ProcInv, PoolInv, ClientInv PROVE DaemonSound
    OBVIOUS
  <2>1. TypeOK
    BY DEF ProcInv, PoolInv, ClientInv, TypeOK
  <2>2. OneDaemon
    BY DEF ProcInv, FlockInv, OneDaemon
  <2>3. QED BY <2>1, <2>2 DEF DaemonSound, ProcInv
<1>2. QED BY InvHolds, <1>1, PTL

\* No permit is lost and none is given back twice, for any pool and any number
\* of connections: whatever a thread's end, and also when it never started.
THEOREM PermitsAddUpHolds == Spec => []PermitsAddUp
<1>1. PoolInv => PermitsAddUp
  BY DEF PoolInv
<1>2. QED BY InvHolds, <1>1, PTL
=============================================================================
