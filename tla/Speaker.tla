------------------------------ MODULE Speaker ------------------------------
(***************************************************************************)
(* speaker.py: the one voice.  Any thread may call speak(), which plays one *)
(* `say`/`afplay` process to its end while holding _play_lock; any thread   *)
(* may call cancel(), which takes only _current_lock, bumps the epoch and   *)
(* then -- outside the lock -- terminates the process it saw.  A `with      *)
(* self._current_lock` block is one action; everything between two such     *)
(* blocks interleaves.                                                      *)
(***************************************************************************)
EXTENDS Naturals

CONSTANTS Thread,     \* callers of speak(): the speak loop, the boot cue
          Claimer,    \* the ones that pass cancel_epoch= (claimed beforehand)
          Canceller,  \* threads whose handlers call cancel()
          Nobody,     \* no thread / no process
          MaxEpoch,   \* bound: cancels in a behaviour
          MaxProc     \* bound: processes spawned in a behaviour

ASSUME ClaimerAssumption == Claimer \subseteq Thread
ASSUME NobodyAssumption == Nobody \notin Thread /\ Nobody \notin Nat
ASSUME BoundAssumption == MaxEpoch \in Nat /\ MaxProc \in Nat

VARIABLES epoch,      \* _cancel_epoch
          current,    \* _current: the process a cancel would terminate
          playLock,   \* holder of _play_lock, or Nobody
          pc,         \* where each speaking thread is
          base,       \* its baseline epoch
          mine,       \* the process it spawned
          exitedZero, \* its proc.returncode is 0 after the wait
          outcome,    \* what speak() returned or raised
          spawned,    \* processes spawned so far (their names are 1..spawned)
          playing,    \* processes still running
          signalled,  \* of these, the ones sent SIGTERM
          clean,      \* processes that exited 0 and were not yet waited for
          target      \* the process each canceller is about to terminate

threadVars == <<pc, base, mine, exitedZero, outcome>>
procVars   == <<spawned, playing, signalled, clean>>
vars == <<epoch, current, playLock, threadVars, procVars, target>>

Proc == Nat \ {0}
InCall == {"acquire", "baseline", "spawn", "check", "abort", "wait",
           "release", "judge"}
Locked == InCall \ {"acquire"}      \* inside `with self._play_lock`

Init ==
    /\ epoch = 0
    /\ current = Nobody /\ playLock = Nobody
    /\ pc = [t \in Thread |-> "idle"]
    /\ base = [t \in Thread |-> 0]
    /\ mine = [t \in Thread |-> Nobody]
    /\ exitedZero = [t \in Thread |-> FALSE]
    /\ outcome = [t \in Thread |-> "none"]
    /\ spawned = 0 /\ playing = {} /\ signalled = {} /\ clean = {}
    /\ target = [c \in Canceller |-> Nobody]

-----------------------------------------------------------------------------
(* speak() *)

Goto(t, label) == pc' = [pc EXCEPT ![t] = label]

Return(t, o) ==
    /\ Goto(t, "idle")
    /\ outcome' = [outcome EXCEPT ![t] = o]

\* proc.terminate(): a process that has exited is left alone.
Terminate(p) == signalled' = signalled \union ({p} \intersect playing)

\* The claim: the daemon reads cancel_epoch() under its own lock and only
\* then calls speak().
Claim(t) ==
    /\ pc[t] = "idle"
    /\ Goto(t, "acquire")
    /\ base' = IF t \in Claimer THEN [base EXCEPT ![t] = epoch] ELSE base
    /\ outcome' = [outcome EXCEPT ![t] = "none"]
    /\ UNCHANGED <<epoch, current, playLock, mine, exitedZero, procVars, target>>

\* No runner configured: SpeakFailure before any lock is taken.
NoRunner(t) ==
    /\ pc[t] = "acquire"
    /\ Return(t, "unspawned")
    /\ UNCHANGED <<epoch, current, playLock, base, mine, exitedZero, procVars, target>>

AcquirePlayLock(t) ==
    /\ pc[t] = "acquire" /\ playLock = Nobody
    /\ playLock' = t
    /\ Goto(t, "baseline")
    /\ UNCHANGED <<epoch, current, base, mine, exitedZero, outcome, procVars, target>>

Baseline(t) ==
    /\ pc[t] = "baseline"
    /\ base' = IF t \in Claimer THEN base ELSE [base EXCEPT ![t] = epoch]
    /\ Goto(t, "spawn")
    /\ UNCHANGED <<epoch, current, playLock, mine, exitedZero, outcome, procVars, target>>

\* The runner synthesizes and starts a process ...
Spawn(t) ==
    /\ pc[t] = "spawn" /\ spawned < MaxProc
    /\ spawned' = spawned + 1
    /\ mine' = [mine EXCEPT ![t] = spawned']
    /\ playing' = playing \union {spawned'}
    /\ Goto(t, "check")
    /\ UNCHANGED <<epoch, current, playLock, base, exitedZero, outcome,
                   signalled, clean, target>>

\* ... or gives none: SpeakFailure, cancelled or not.
SpawnFails(t) ==
    /\ pc[t] = "spawn"
    /\ Return(t, "unspawned")
    /\ playLock' = Nobody
    /\ UNCHANGED <<epoch, current, base, mine, exitedZero, procVars, target>>

\* Mutant: the epoch is not looked at again once the process runs.
CheckNothing(t) ==
    /\ pc[t] = "check"
    /\ Goto(t, "wait") /\ current' = mine[t]
    /\ UNCHANGED <<epoch, playLock, base, mine, exitedZero, outcome, procVars, target>>

\* A cancel that landed since the baseline aborts; otherwise the process
\* becomes the one a cancel terminates.  One _current_lock block.
Check(t) ==
    /\ pc[t] = "check"
    /\ \/ epoch # base[t] /\ Goto(t, "abort") /\ UNCHANGED current
       \/ epoch = base[t] /\ Goto(t, "wait") /\ current' = mine[t]
    /\ UNCHANGED <<epoch, playLock, base, mine, exitedZero, outcome, procVars, target>>

\* Mutant: the process of an aborted utterance is forgotten, not terminated.
AbortOnly(t) ==
    /\ pc[t] = "abort"
    /\ Return(t, "cut")
    /\ playLock' = Nobody
    /\ UNCHANGED <<epoch, current, base, mine, exitedZero, procVars, target>>

Abort(t) ==
    /\ pc[t] = "abort"
    /\ Terminate(mine[t])
    /\ Return(t, "cut")
    /\ playLock' = Nobody
    /\ UNCHANGED <<epoch, current, base, mine, exitedZero, spawned, playing, clean, target>>

WaitReturns(t) ==
    /\ pc[t] = "wait" /\ mine[t] \notin playing
    /\ exitedZero' = [exitedZero EXCEPT ![t] = mine[t] \in clean]
    /\ clean' = clean \ {mine[t]}
    /\ Goto(t, "release")
    /\ UNCHANGED <<epoch, current, playLock, base, mine, outcome, spawned,
                   playing, signalled, target>>

\* TimeoutExpired: terminate and move on; returncode is still None.
WaitTimesOut(t) ==
    /\ pc[t] = "wait" /\ mine[t] \in playing
    /\ Terminate(mine[t])
    /\ exitedZero' = [exitedZero EXCEPT ![t] = FALSE]
    /\ Goto(t, "release")
    /\ UNCHANGED <<epoch, current, playLock, base, mine, outcome, spawned,
                   playing, clean, target>>

Release(t) ==
    /\ pc[t] = "release"
    /\ current' = IF current = mine[t] THEN Nobody ELSE current
    /\ Goto(t, "judge")
    /\ UNCHANGED <<epoch, playLock, base, mine, exitedZero, outcome, procVars, target>>

\* Mutant: every unclean exit is an audio failure.
VerdictOfExit(t) == IF exitedZero[t] THEN "done" ELSE "failed"

\* A clean exit wins even over a cancel (W4); otherwise an epoch that moved
\* means our own cancel() is why, and only an unmoved one is a failure.
Verdict(t) ==
    IF exitedZero[t] THEN "done"
    ELSE IF epoch # base[t] THEN "cut" ELSE "failed"

Judge(t) ==
    /\ pc[t] = "judge"
    /\ Return(t, Verdict(t))
    /\ playLock' = Nobody
    /\ UNCHANGED <<epoch, current, base, mine, exitedZero, procVars, target>>

-----------------------------------------------------------------------------
(* cancel(), and the processes *)

\* Mutant: the epoch moves and the running process is left alone.
CancelEpochOnly(c) ==
    /\ target[c] = Nobody /\ epoch < MaxEpoch
    /\ epoch' = epoch + 1
    /\ UNCHANGED <<current, playLock, threadVars, procVars, target>>

CancelBump(c) ==
    /\ target[c] = Nobody /\ epoch < MaxEpoch
    /\ epoch' = epoch + 1
    /\ target' = [target EXCEPT ![c] = current]
    /\ UNCHANGED <<current, playLock, threadVars, procVars>>

CancelTerminate(c) ==
    /\ target[c] # Nobody
    /\ Terminate(target[c])
    /\ target' = [target EXCEPT ![c] = Nobody]
    /\ UNCHANGED <<epoch, current, playLock, threadVars, spawned, playing, clean>>

\* A process ends on its own or because it was signalled, with any code.
Exit(p) ==
    /\ p \in playing
    /\ playing' = playing \ {p}
    /\ signalled' = signalled \ {p}
    /\ clean' \in {clean, clean \union {p}}
    /\ UNCHANGED <<epoch, current, playLock, threadVars, spawned, target>>

-----------------------------------------------------------------------------
Step(t) ==
    \/ NoRunner(t) \/ AcquirePlayLock(t) \/ Baseline(t) \/ Spawn(t) \/ SpawnFails(t)
    \/ Check(t) \/ Abort(t) \/ WaitReturns(t) \/ Release(t) \/ Judge(t)

Next ==
    \/ \E t \in Thread : Claim(t) \/ Step(t) \/ WaitTimesOut(t)
    \/ \E c \in Canceller : CancelBump(c) \/ CancelTerminate(c)
    \/ \E p \in playing : Exit(p)

Spec == Init /\ [][Next]_vars

\* Threads inside a call keep running and a signalled process dies.  Nothing
\* is assumed of an unsignalled process (it may play for ever), of the 120 s
\* deadline, or of a caller starting another call.
Fairness ==
    /\ \A t \in Thread : WF_vars(Step(t))
    /\ \A c \in Canceller : WF_vars(CancelTerminate(c))
    /\ WF_vars(\E p \in signalled : Exit(p))

FairSpec == Spec /\ Fairness

-----------------------------------------------------------------------------
(* Properties *)

TypeOK ==
    /\ epoch \in Nat
    /\ current \in Proc \union {Nobody}
    /\ playLock \in Thread \union {Nobody}
    /\ pc \in [Thread -> InCall \union {"idle"}]
    /\ base \in [Thread -> Nat]
    /\ mine \in [Thread -> Proc \union {Nobody}]
    /\ exitedZero \in [Thread -> BOOLEAN]
    /\ outcome \in [Thread -> {"none", "done", "cut", "failed", "unspawned"}]
    /\ spawned \in Nat
    /\ playing \subseteq Proc /\ signalled \subseteq playing /\ clean \subseteq Proc
    /\ target \in [Canceller -> Proc \union {Nobody}]

\* "ONE voice" (speaker.py D8): of the processes that have not been told to
\* stop, at most one is playing -- whatever threads speak and cancel.
OneVoiceAtATime ==
    \A p, q \in playing \ signalled : p = q

\* No cancel is lost: an utterance whose epoch has moved past its baseline is
\* over, has been signalled, or a canceller is about to signal exactly it.
CancelReaches ==
    \A t \in Thread :
        pc[t] = "wait" /\ epoch # base[t] =>
            \/ mine[t] \notin playing \ signalled
            \/ \E c \in Canceller : target[c] = mine[t]

\* A cancelled utterance releases the voice, without waiting for the process
\* to finish on its own or for the deadline.
CancelEnds ==
    \A t \in Thread :
        pc[t] = "wait" /\ epoch # base[t] ~> pc[t] = "idle"

\* speak() and cancel() implement OneVoice: the outcome each caller is told
\* agrees with the cancels that reached it.
Armed == {t \in Thread : pc[t] \in InCall
                         /\ (t \in Claimer \/ pc[t] \notin {"acquire", "baseline"})}

Voice == INSTANCE OneVoice WITH
    voice <- playLock,
    asked <- {t \in Thread : pc[t] # "idle"},
    armed <- Armed,
    cut <- {t \in Armed : base[t] # epoch}

ImplementsOneVoice == Voice!Spec
=============================================================================
