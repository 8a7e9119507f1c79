------------------------------ MODULE Playback ------------------------------
(***************************************************************************)
(* features/playback.py and focus.py: the presses that stop, skip, repeat   *)
(* and move the voice.  Each handler runs whole under the daemon lock.      *)
(* Fire-and-forget tones and the terminal raise change no state here.       *)
(***************************************************************************)
EXTENDS SpeechState

Emptied(s) == [queue EXCEPT ![s] = <<>>]

NewCue(s) == Cue(nextId + 1, s)

\* Handlers change neither the loop's locals nor the audio path.
LoopUntouched == UNCHANGED loopVars

\* A press that finds nothing to do answers in words on dest, once the streams
\* S it looked at exist.  (With no dest there is only an error tone.)
AnswerOn(dest, S) ==
    /\ dest # None
    /\ Open(S \union {dest})
    /\ stopped' = StoppedOnceOpen(S \union {dest})
    /\ EnqueueFirst(queue, NewCue(dest))
    /\ SanctionDeadRead(dest, FALSE)
    /\ spk' = SpeakerOnceSanctioned(dest, FALSE, StoppedOnceOpen(S)[dest])
    /\ UNCHANGED <<armed, deferred, buffer, partial, frontier, newest, markers, lastUtt,
                   voiceState, markResume, reg, announced, fg, focus, dead, current, cut>>
    /\ LoopUntouched

Stop ==
    /\ Receive("STOP")
    /\ IF fg \in present
       THEN queue' = Emptied(fg) /\ markers' = Without(Ids(queue[fg]))
       ELSE UNCHANGED <<queue, markers>>
    /\ Cancel
    /\ UNCHANGED <<present, flagVars, buffer, partial, frontier, newest, nextId,
                   lastUtt, modeVars, rosterVars, current>>
    /\ LoopUntouched

\* The skipped entry's heard flag is not part of the state.
Skip ==
    /\ Receive("SKIP")
    /\ Cancel
    /\ UNCHANGED <<streamVars, ledgerVars, modeVars, rosterVars, current>>
    /\ LoopUntouched

-----------------------------------------------------------------------------
(* SKIP_PILE: the frontier jumps to the live edge of the piled session      *)

\* Entries ahead of the frontier.
Piled(s) == s # None /\ newest[s] > frontier[s]

\* The workspace's pile first; a diverged flowing speaker's only when the
\* workspace is clean.
PileTarget ==
    CASE Piled(Workspace) -> Workspace
      [] ~ Piled(Workspace) /\ voiceState = "flowing" /\ spk # Workspace /\ Piled(spk) -> spk
      [] OTHER -> None

\* The streams the two pile() calls look at are created by looking.
PilesRead ==
    {s \in {Workspace, IF ~ Piled(Workspace) /\ voiceState = "flowing" THEN spk ELSE None} :
        s # None}

SkipPile ==
    /\ Receive("SKIP_PILE")
    /\ PileTarget # None
    /\ LET target == PileTarget
           dest   == IF spk \notin {None, target} THEN spk ELSE target
       IN  /\ Open(PilesRead \union {dest})
           /\ stopped' = StoppedOnceOpen(PilesRead \union {dest})
           /\ frontier' = [frontier EXCEPT ![target] = newest[target]]
           /\ CancelIf(CurrentIn(target))
           /\ EnqueueFirst(Emptied(target), NewCue(dest))
           /\ markers' = Without(Ids(queue[target]))
           /\ SanctionDeadRead(dest, FALSE)
           /\ spk' = SpeakerOnceSanctioned(dest, FALSE, StoppedOnceOpen(PilesRead)[dest])
    /\ UNCHANGED <<armed, deferred, buffer, partial, newest, lastUtt, voiceState,
                   markResume, reg, announced, fg, focus, dead, current>>
    /\ LoopUntouched

NothingToSkip ==
    /\ Receive("SKIP_PILE")
    /\ PileTarget = None
    /\ AnswerOn(Preferred(Workspace, spk), PilesRead)

-----------------------------------------------------------------------------
(* STOP_SESSION starts a stopped workspace, else stops the speaker          *)

StartTarget == IF IsStopped(Workspace) THEN Workspace ELSE spk

\* The resumed stream also delivers an announce it could not deliver before.
AnnounceDue(s) == deferred[s] /\ s \notin dead /\ s \notin announced

StartSession ==
    /\ Receive("STOP_SESSION")
    /\ StoppedNow(StartTarget)
    /\ LET s        == StartTarget
           resumed  == NewCue(s)
           announce == Item(nextId + 2, s, FALSE, FALSE, FALSE)
       IN  /\ Open({s})
           /\ stopped' = [stopped EXCEPT ![s] = FALSE]
           /\ voiceState' = "flowing"
           /\ spk' = s
           /\ markers' = Without(Ids(queue[s]))
           /\ buffer' = [buffer EXCEPT ![s] = <<>>]
           /\ SanctionDeadRead(s, FALSE)
           /\ IF AnnounceDue(s)
              THEN /\ queue' = [queue EXCEPT ![s] = Enqueue(<<resumed>>, announce, Cap)]
                   /\ nextId' = nextId + 2
                   /\ deferred' = [deferred EXCEPT ![s] = FALSE]
                   /\ announced' = announced \union {s}
              ELSE /\ EnqueueFirst(Emptied(s), resumed)
                   /\ UNCHANGED <<deferred, announced>>
    /\ UNCHANGED <<armed, partial, frontier, newest, lastUtt, markResume,
                   reg, fg, focus, dead, current, cut>>
    /\ LoopUntouched

StopSession ==
    /\ Receive("STOP_SESSION")
    /\ ~ IsStopped(Workspace) /\ spk # None /\ ~ StoppedNow(spk)
    /\ Open({spk})
    /\ stopped' = [stopped EXCEPT ![spk] = TRUE]
    /\ armed' = [armed EXCEPT ![spk] = FALSE]
    /\ voiceState' = "quiet-hold"
    /\ CancelIf(CurrentIn(spk))
    /\ EnqueueWord(NewCue(spk))
    /\ UNCHANGED <<deferred, buffer, partial, frontier, newest, lastUtt, markResume,
                   sanction, whole, rosterVars, current>>
    /\ LoopUntouched

DisarmPresent == [s \in Session |-> armed[s] /\ s \notin present]

StopAll ==
    /\ Receive("STOP_ALL")
    /\ LET S == present \union ({spk} \ {None})
       IN  /\ present' = S
           /\ stopped' = [s \in Session |-> s \in S]
           /\ armed' = DisarmPresent
    /\ voiceState' = "stopped-all"
    /\ CancelIf(current # None)
    /\ IF spk # None THEN EnqueueWord(NewCue(spk))
       ELSE UNCHANGED <<queue, markers, nextId>>
    /\ UNCHANGED <<deferred, buffer, partial, frontier, newest, lastUtt, markResume,
                   sanction, whole, rosterVars, current>>
    /\ LoopUntouched

-----------------------------------------------------------------------------
(* JUMP_DECISION: to the next question of the workspace                     *)

DecisionQueued == Workspace # None /\ HasDecision(queue[Workspace])

\* A miss answers in words and touches nothing else.
NoDecisionHere ==
    /\ Receive("JUMP_DECISION")
    /\ ~ DecisionQueued
    /\ AnswerOn(Preferred(spk, Workspace), {})

Crossed == Workspace # spk

\* The voice is never moved onto a closed terminal.
DecisionClosed ==
    /\ Receive("JUMP_DECISION")
    /\ DecisionQueued /\ Crossed /\ Workspace \in dead
    /\ LET dest == Preferred(spk, Workspace)
       IN  /\ Open({dest})
           /\ stopped' = StoppedOnceOpen({dest})
           /\ EnqueueWord(NewCue(dest))
    /\ UNCHANGED <<armed, deferred, buffer, partial, frontier, newest, lastUtt, modeVars,
                   rosterVars, current, cut>>
    /\ LoopUntouched

\* On a stopped stream the decision itself becomes the answer to the press.
JumpDecision ==
    /\ Receive("JUMP_DECISION")
    /\ DecisionQueued /\ (Crossed => Workspace \notin dead)
    /\ LET s      == Workspace
           jumped == JumpToDecision(queue[s])
           kept   == IF stopped[s] THEN ClaimHead(jumped) ELSE jumped
       IN  /\ IF Crossed
              THEN /\ fg' = s /\ spk' = s /\ reg' = reg \union {s}
                   /\ EnqueueFirst([queue EXCEPT ![s] = kept], NewCue(s))
              ELSE /\ queue' = [queue EXCEPT ![s] = kept]
                   /\ UNCHANGED <<fg, spk, reg, nextId>>
           /\ markers' = Without(JumpedIds(queue[s]))
    /\ voiceState' = "flowing"
    /\ Cancel
    /\ UNCHANGED <<present, flagVars, buffer, partial, frontier, newest, lastUtt,
                   markResume, sanction, whole, announced, focus, dead, current>>
    /\ LoopUntouched

-----------------------------------------------------------------------------
(* REPEAT_LAST: the interrupted item goes back first, the repeat before it  *)

RepeatTarget ==
    IF spk # None THEN spk ELSE IF IsStopped(Workspace) THEN None ELSE Workspace

\* The interrupted item's copy: a new id, everything else it carries.
Recopied == [current EXCEPT !.id = nextId + 1]

RepeatLast ==
    /\ Receive("REPEAT_LAST")
    /\ RepeatTarget # None /\ lastUtt
    /\ LET t     == RepeatTarget
           homes == IF current = None THEN {t} ELSE {t, current.session}
           own   == {m \in markers : current # None /\ m.id = current.id}
           back  == IF current = None THEN queue
                    ELSE [queue EXCEPT ![current.session] = EnqueueFront(@, Recopied)]
           n     == IF current = None THEN 1 ELSE 2
       IN  /\ Open(homes)
           /\ stopped' = StoppedOnceOpen(homes)
           /\ EnqueueFirst(back, Cue(nextId + n, t))
           /\ markers' = markers \union {[m EXCEPT !.id = nextId + 1] : m \in own}
           /\ SanctionDeadRead(t, FALSE)
           /\ spk' = SpeakerOnceSanctioned(t, FALSE, stopped[t])
    /\ Cancel
    /\ UNCHANGED <<armed, deferred, buffer, partial, frontier, newest, lastUtt,
                   voiceState, markResume, reg, announced, fg, focus, dead, current>>
    /\ LoopUntouched

NothingToRepeat ==
    /\ Receive("REPEAT_LAST")
    /\ ~ lastUtt
    /\ AnswerOn(RepeatTarget, {})

-----------------------------------------------------------------------------
(* JUMP_WAITING and the OS focus                                            *)

\* _waiting_target(): a session with live backlog other than the one under
\* the keyboard and the one being heard; one with a decision goes first.
WaitingSessions ==
    {s \in present : s \notin {Workspace, spk} /\ ~ stopped[s]
                     /\ queue[s] # <<>> /\ s \notin dead}

Asking == {s \in WaitingSessions : HasDecision(queue[s])}

JumpWaiting ==
    /\ Receive("JUMP_WAITING")
    /\ \E s \in IF Asking # {} THEN Asking ELSE WaitingSessions :
        /\ fg' = s /\ spk' = s /\ reg' = reg \union {s}
        /\ EnqueueFirst(queue, NewCue(s))
    /\ voiceState' = "flowing"
    /\ Cancel
    /\ UNCHANGED <<present, flagVars, buffer, partial, frontier, newest, markers, lastUtt,
                   markResume, sanction, whole, announced, focus, dead, current>>
    /\ LoopUntouched

NobodyWaiting ==
    /\ Receive("JUMP_WAITING")
    /\ WaitingSessions = {}
    /\ AnswerOn(Preferred(spk, Workspace), {})

OsFocus ==
    /\ Receive("OS_FOCUS")
    /\ focus' \in (reg \ dead) \union {None}
    /\ UNCHANGED <<streamVars, ledgerVars, modeVars, reg, announced, fg, spk, dead,
                   current, cut>>
    /\ LoopUntouched

Press ==
    \/ Stop \/ Skip \/ SkipPile \/ NothingToSkip
    \/ StartSession \/ StopSession \/ StopAll
    \/ NoDecisionHere \/ DecisionClosed \/ JumpDecision
    \/ RepeatLast \/ NothingToRepeat
    \/ JumpWaiting \/ NobodyWaiting \/ OsFocus
=============================================================================
