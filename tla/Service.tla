-------------------------------- MODULE Service --------------------------------
(***************************************************************************)
(* The service as its clients see it: the daemon's processes (Bootstrap),    *)
(* their servers (Server), and the clients -- bin/sonari-hook with           *)
(* client.py's ensure_daemon and send, and the hotkey program's answers.     *)
(* Connections that carry nothing (ensure_daemon's probe) or change nothing  *)
(* (the witness's ping) are left out of the pool.                            *)
(*                                                                          *)
(* A hook sends the messages of its event over one connection each and does  *)
(* not wait for the daemon, except for the one message of a permission ask.  *)
(***************************************************************************)
EXTENDS Server

CONSTANTS Hooks, Press,
          Messages      \* most messages of an event

ASSUME MessagesAssumption == Messages \in Nat \ {0}

\* Bound: a client's earlier connection has ended before it opens its next.
ConnSlots == (Hooks \X (1..Messages)) \union {Press}

VARIABLES
    hook,       \* where each hook is in its event
    sent,       \* how many of the event's messages it has sent
    memo        \* the failure memo exists and is fresh

clientVars == <<hook, sent, memo>>
vars == <<bvars, serverVars, clientVars>>

Steps(h, from, to) ==
    /\ hook[h] = from /\ hook' = [hook EXCEPT ![h] = to]
    /\ UNCHANGED sent

\* connect() and sendall(): without a daemon the message is lost.
Send(c) ==
    /\ conn[c].st = "none"
    /\ conn' = IF Connectable
               THEN [conn EXCEPT ![c] = [st |-> "backlog", at |-> lockfile]]
               ELSE conn
    /\ UNCHANGED permits

-----------------------------------------------------------------------------
(* bin/sonari-hook and ensure_daemon *)

\* Only an installed program is started.
Fire(h) ==
    /\ Steps(h, "idle", IF installed THEN "ensure" ELSE "send")
    /\ UNCHANGED <<bvars, serverVars, memo>>

Reachable(h, from) ==
    /\ Connectable /\ Steps(h, from, "send")
    /\ memo' = FALSE
    /\ UNCHANGED <<bvars, serverVars>>

Ensure(h) ==
    \/ Reachable(h, "ensure")
    \/ /\ ~ Connectable /\ Steps(h, "ensure", IF memo THEN "send" ELSE "spawn")
       /\ UNCHANGED <<bvars, serverVars, memo>>

\* ensure_running looks once more before it starts a process.
EnsureRunning(h) ==
    /\ Steps(h, "spawn", "poll")
    /\ \/ /\ ~ Connectable
          /\ \E d \in Daemons \ {Job} : Spawn(d)
       \/ /\ Connectable \/ \A d \in Daemons \ {Job} : Alive(d)
          /\ UNCHANGED procVars
    /\ UNCHANGED <<siteVars, witnessVars, faults, serverVars, memo>>

\* The deadline passes: the next hooks need not pay for it.
GiveUpPolling(h) ==
    /\ ~ Connectable /\ Steps(h, "poll", "send")
    /\ memo' = TRUE
    /\ UNCHANGED <<bvars, serverVars>>

Poll(h) == Reachable(h, "poll") \/ GiveUpPolling(h)

\* Thirty seconds pass.
MemoAges == memo /\ memo' = FALSE /\ UNCHANGED <<bvars, serverVars, hook, sent>>

\* The messages of an event, one after the other; the last ends the hook.
SendEach(h) ==
    /\ hook[h] = "send"
    /\ Send(<<h, sent[h] + 1>>)
    /\ IF sent[h] + 1 = Messages
       THEN hook' = [hook EXCEPT ![h] = "idle"] /\ sent' = [sent EXCEPT ![h] = 0]
       ELSE sent' = [sent EXCEPT ![h] = @ + 1] /\ UNCHANGED hook
    /\ UNCHANGED <<bvars, memo>>

SendAsk(h) ==
    /\ sent[h] = 0
    /\ Steps(h, "send", "await")
    /\ Send(<<h, 1>>)
    /\ UNCHANGED <<bvars, memo>>

\* The reply, or the end of the connection.
Reply(h) ==
    /\ conn[<<h, 1>>].st \in {"none", "served"}
    /\ Steps(h, "await", "idle")
    /\ UNCHANGED <<bvars, serverVars, memo>>

HookStep(h) ==
    \/ Ensure(h) \/ EnsureRunning(h) \/ Poll(h)
    \/ SendEach(h) \/ SendAsk(h) \/ Reply(h)

\* A press starts no daemon and does not insist.
PressSends == Send(Press) /\ UNCHANGED <<bvars, clientVars>>

-----------------------------------------------------------------------------
(* The daemon's side *)

IsAsk(c) == \E h \in Hooks : c = <<h, 1>> /\ hook[h] = "await"

Serve(c) ==
    \/ ReadMessage(c)
    \/ HangUp(c)
    \/ ~ IsAsk(c) /\ c # Press /\ Dispatch(c)
    \/ IsAsk(c) /\ DispatchAsk(c)
    \/ c = Press /\ (\E ask \in Conns : DispatchAnswer(c, ask))
    \/ c = Press /\ ~ (\E ask \in At(conn[c].at) : conn[ask].st = "blocked")
                 /\ Dispatch(c)
    \/ AskExpires(c)
    \/ Finish(c)

ConnStep(c) ==
    /\ Admit(c) \/ Refuse(c) \/ Serve(c)
    /\ UNCHANGED <<bvars, clientVars>>

ThreadFails(c) ==
    /\ StartFails(c) /\ Fault
    /\ UNCHANGED <<procVars, siteVars, witnessVars, clientVars>>

\* The connections of a process end with it.
Cut(d) ==
    /\ conn' = Without(At(d))
    /\ permits' = [permits EXCEPT ![d] = Cap]

DaemonStep(d) ==
    /\ \/ (FastPath(d) \/ AcquireSingleton(d) \/ Boot(d) \/ Unlink(d))
          /\ UNCHANGED serverVars
       \/ CloseSocket(d) /\ conn' = Without(At(d) \ Threads(d)) /\ UNCHANGED permits
       \/ Exit(d) /\ Cut(d)
    /\ UNCHANGED <<siteVars, witnessVars, faults, clientVars>>

\* A crash, an accept loop that dies, a disk that is full at the flush.
DaemonFault(d) ==
    /\ Fault
    /\ \/ Alive(d) /\ Gone(d) /\ Cut(d)
       \/ StopRunning(d) /\ UNCHANGED serverVars
       \/ FlushRaises(d) /\ UNCHANGED serverVars
    /\ UNCHANGED <<siteVars, witnessVars, clientVars>>

Launchd == KeepAlive /\ UNCHANGED <<serverVars, clientVars>>

Witness == WitnessBeat /\ UNCHANGED <<serverVars, clientVars>>

\* A process killed by SIGTERM had no connection yet.
UninstallStep ==
    \/ Uninstall /\ UNCHANGED <<serverVars, clientVars>>
    \/ RemoveArtifacts /\ memo' = FALSE /\ UNCHANGED <<serverVars, hook, sent>>

Init ==
    /\ BootInit /\ ServerInit
    /\ hook = [h \in Hooks |-> "idle"] /\ sent = [h \in Hooks |-> 0]
    /\ memo = FALSE

Next ==
    \/ \E h \in Hooks : Fire(h) \/ HookStep(h)
    \/ MemoAges \/ PressSends
    \/ \E c \in Conns : ConnStep(c) \/ ThreadFails(c)
    \/ \E d \in Daemons : DaemonStep(d) \/ DaemonFault(d)
    \/ Launchd \/ Witness \/ UninstallStep

Spec == Init /\ [][Next]_vars

\* Every process and thread goes on, launchd restarts its job, the hotkey
\* program's timer ticks and thirty seconds pass.
FairSpec ==
    /\ Spec
    /\ \A h \in Hooks : WF_vars(HookStep(h))
    /\ \A c \in Conns : WF_vars(ConnStep(c))
    /\ \A d \in Daemons : WF_vars(DaemonStep(d))
    /\ WF_vars(Launchd) /\ WF_vars(MemoAges) /\ WF_vars(Witness)

-----------------------------------------------------------------------------
(* Properties *)

TypeOK ==
    /\ BootTypeOK /\ ServerTypeOK
    /\ hook \in [Hooks -> {"idle", "ensure", "spawn", "poll", "send",
                           "await"}]
    /\ sent \in [Hooks -> 0..(Messages - 1)]
    /\ memo \in BOOLEAN

\* However many processes hooks and launchd start at once, one gets past
\* main(): there is never a second voice.
OneDaemon == \A d, e \in Holders : d = e

\* The daemon that serves is the one the lockfile names: no process that
\* starts, loses or ends takes its clients away.  (`sonari uninstall' may:
\* its probe does not see a daemon that a hook is just starting.)
ServesItsLockfile ==
    \A d \in Daemons : proc[d] = "up" => lockfile = d \/ uninstall = "gone"

\* One daemon at a time, and the one its clients find.
DaemonSound == TypeOK /\ OneDaemon /\ ServesItsLockfile

\* Permits and threads add up, whatever ends a thread or keeps it from
\* starting.
PermitsAddUp == \A d \in Daemons : permits[d] + Cardinality(Threads(d)) = Cap

\* Every blocked hook is let go, and no event is held up for ever.
HookReturns == \A h \in Hooks : hook[h] # "idle" ~> hook[h] = "idle"

\* A pool filled by asks that nobody answers opens again by itself.
PoolReopens ==
    \A d \in Daemons : permits[d] = 0 ~> (permits[d] > 0 \/ ~ Listening(d))

\* Nothing a hook waits for lasts for ever, its place in the pool included.
HooksLetGo == HookReturns /\ PoolReopens

\* launchd's daemon comes back whatever killed it, the stale lockfile, the
\* losers of the flock and an ending predecessor notwithstanding.
JobRecovers == <>[](loaded) => []<>(\E d \in Daemons : proc[d] = "up")

\* Without launchd the hooks bring a daemon back: the failure memo holds them
\* off for a while only.
HooksRecover ==
    <>[](installed) /\ (\A h \in Hooks : []<>(hook[h] = "ensure"))
        => []<>(\E d \in Daemons : proc[d] = "up")

\* A daemon that is wanted comes back, by launchd's hand or by a hook's.
DaemonComesBack == JobRecovers /\ HooksRecover

\* A daemon that stays away is announced, once.
AbsenceIsAnnounced ==
    <>[](uninstall = "no" /\ ~ \E d \in Daemons : Listening(d)) => <>[](alarmed)
=============================================================================
