----------------------------- MODULE SpeakLoop -----------------------------
(***************************************************************************)
(* host.py _speak_loop_once: the one thread that voices the queues.  Each   *)
(* action is one `with self._lock' block of a turn, or a stretch between    *)
(* two of them; handlers of other threads run in the gaps.                  *)
(*                                                                          *)
(*   held -> check -> pop -> speak -> [failing] -> tail -> note -> held     *)
(*     \----------------------^   (the held branch: no tail, no requeue)    *)
(***************************************************************************)
EXTENDS SpeechState

CONSTANT MaxId     \* bound: items ever allocated by a failure word


Goto(label) == pc' = label

\* _pop_held_control_cue(): the stopped streams holding a control cue, and of
\* these the one whose frontmost cue is the oldest.
HoldingCue == {s \in Session : stopped[s] /\ HasCue(queue[s])}

OldestHeldCue ==
    CHOOSE s \in HoldingCue :
        \A t \in HoldingCue : OldestCueId(queue[s]) <= OldestCueId(queue[t])

\* The turn's locals die and the claim is released.
EndTurn ==
    /\ current' = None /\ hand' = None /\ exempt' = FALSE /\ done' = FALSE
    /\ Goto("held")

\* The claim releases the previous claim and captures the cancel epoch.
Claim(item) ==
    /\ current' = item
    /\ hand' = item
    /\ cut' = FALSE
    /\ done' = FALSE

PopHeldCue ==
    /\ pc = "held" /\ HoldingCue # {}
    /\ LET s  == OldestHeldCue
           it == queue[s][CueAt(queue[s])]
       IN  /\ Claim(it)
           /\ queue' = [queue EXCEPT ![s] = PopControlCue(@)]
    /\ exempt' = TRUE
    /\ Goto("speak")
    /\ UNCHANGED <<present, flagVars, buffer, partial, frontier, ledgerVars,
                   modeVars, rosterVars, outstanding, broken, sent>>

NoHeldCue ==
    /\ pc = "held" /\ HoldingCue = {}
    /\ Claim(None)
    /\ exempt' = FALSE
    /\ Goto("check")
    /\ UNCHANGED <<streamVars, ledgerVars, modeVars, rosterVars, outstanding,
                   broken, sent>>

\* Outside the lock: a stopped speaker holds the drain for this turn.
CheckStopped ==
    /\ pc = "check"
    /\ Goto(IF IsStopped(spk) THEN "held" ELSE "pop")
    /\ UNCHANGED <<streamVars, ledgerVars, modeVars, rosterVars, hand, exempt,
                   done, outstanding, broken, current, cut, sent>>

-----------------------------------------------------------------------------
(* The pop boundary: _release_dead_speaker, the pop, keep-going *)

\* The sanction expires when its stream ran dry or the voice left it.
LiveSanction ==
    IF sanction # None /\ (sanction # spk \/ Quiescent(sanction)) THEN None
    ELSE sanction

\* Mutant: a press re-opens the whole stream.
SanctionKept == LiveSanction

\* A single-item sanction is spent by the pop it lets through.
SpentSanction ==
    IF spk # None /\ LiveSanction = spk /\ ~ whole /\ queue[spk] # <<>>
    THEN None ELSE LiveSanction

\* The voice after dropping a dead speaker nobody asked for.
HeldVoice ==
    IF spk \in dead /\ LiveSanction # spk THEN None ELSE spk

\* Mutant: a stopped stream's backlog is picked up too.
WaitingMuted == {s \in reg : s # HeldVoice /\ s \notin dead /\ queue[s] # <<>>}

\* _select_keep_going(): registered, not the speaker, not stopped, not dead,
\* with something queued; of these the longest-waiting one.
Waiting ==
    {s \in reg : s # HeldVoice /\ ~ stopped[s] /\ s \notin dead /\ queue[s] # <<>>}

LongestWaiting ==
    CHOOSE s \in Waiting :
        \A t \in Waiting : Head(queue[s]).id <= Head(queue[t]).id

OwnQueueEmpty == HeldVoice # None => queue[HeldVoice] = <<>>

\* Mutant: nothing keeps going once the speaker has left.
KeepGoingFromSpeaker ==
    HeldVoice # None /\ OwnQueueEmpty /\ Quiescent(HeldVoice) /\ voiceState = "flowing"

KeepGoing == OwnQueueEmpty /\ Quiescent(HeldVoice) /\ voiceState = "flowing"

PopOwn ==
    /\ pc = "pop" /\ ~ OwnQueueEmpty
    /\ Claim(Head(queue[HeldVoice]))
    /\ queue' = [queue EXCEPT ![HeldVoice] = Tail(@)]
    /\ sanction' = SpentSanction
    /\ spk' = HeldVoice
    /\ Goto("speak")
    /\ UNCHANGED <<present, flagVars, buffer, partial, frontier, ledgerVars,
                   voiceState, markResume, whole, reg, announced, fg, focus, dead,
                   exempt, outstanding, broken, sent>>

\* Keep-going: the voice moves, and the workspace stays.  After an implicit
\* lift the word "Resumed." leads the adopted stream and is what is popped.
Adopt ==
    /\ pc = "pop" /\ KeepGoing /\ Waiting # {}
    /\ LET next == LongestWaiting
       IN  /\ spk' = next
           /\ IF markResume
              THEN /\ Claim(Cue(nextId + 1, next))
                   /\ nextId' = nextId + 1
                   /\ UNCHANGED queue
              ELSE /\ Claim(Head(queue[next]))
                   /\ queue' = [queue EXCEPT ![next] = Tail(@)]
                   /\ UNCHANGED nextId
    /\ markResume' = FALSE
    /\ sanction' = SpentSanction
    /\ Goto("speak")
    /\ UNCHANGED <<present, flagVars, buffer, partial, frontier, newest, markers,
                   lastUtt, voiceState, whole, reg, announced, fg, focus, dead,
                   exempt, outstanding, broken, sent>>

NothingToSay ==
    /\ pc = "pop" /\ OwnQueueEmpty /\ (KeepGoing => Waiting = {})
    /\ Claim(None)
    /\ markResume' = (markResume /\ ~ KeepGoing)
    /\ sanction' = SpentSanction
    /\ spk' = HeldVoice
    /\ Goto("held")
    /\ UNCHANGED <<streamVars, ledgerVars, voiceState, whole, reg, announced, fg,
                   focus, dead, exempt, outstanding, broken, sent>>

-----------------------------------------------------------------------------
(* The utterance.  speaker.speak() returns True after a clean exit, even    *)
(* when a cancel raced it; False only when cancelled; it raises when the    *)
(* audio path failed.                                                       *)

AfterSpeech == IF exempt THEN "note" ELSE "tail"

SpeakCompletes ==
    /\ pc = "speak" /\ ~ broken
    /\ done' = TRUE
    /\ Goto(AfterSpeech)
    /\ cut' = FALSE
    /\ UNCHANGED <<streamVars, ledgerVars, modeVars, rosterVars, hand, exempt,
                   outstanding, broken, current, sent>>

SpeakCut ==
    /\ pc = "speak" /\ cut
    /\ done' = FALSE
    /\ Goto(AfterSpeech)
    /\ cut' = FALSE
    /\ UNCHANGED <<streamVars, ledgerVars, modeVars, rosterVars, hand, exempt,
                   outstanding, broken, current, sent>>

SpeakRaises ==
    /\ pc = "speak" /\ broken
    /\ done' = FALSE
    /\ Goto("failing")
    /\ cut' = FALSE
    /\ UNCHANGED <<streamVars, ledgerVars, modeVars, rosterVars, hand, exempt,
                   outstanding, broken, current, sent>>

\* The audio device goes (AudioQueueStart(-66681)) or comes back.
AudioFault ==
    /\ Receive("FAULT")
    /\ broken' = ~ broken
    /\ UNCHANGED <<streamVars, ledgerVars, modeVars, rosterVars, pc, hand, exempt,
                   done, outstanding, current, cut>>

\* Mutant: every failure adds another word that fails.
NeverOutstanding(s) == FALSE

WordOutstanding(s) == s \in outstanding

\* _signal_speak_failure(): the word rides the failing session's own queue,
\* at most one of them until an utterance of that session completes.
SignalFailure ==
    /\ pc = "failing"
    /\ LET s == hand.session
       IN  IF WordOutstanding(s)
           THEN UNCHANGED <<streamVars, markers, nextId, outstanding>>
           ELSE /\ nextId < MaxId
                /\ Open({s})
                /\ stopped' = StoppedOnceOpen({s})
                /\ EnqueueWord(Cue(nextId + 1, s))
                /\ outstanding' = outstanding \union {s}
                /\ UNCHANGED <<armed, deferred, buffer, partial, frontier>>
    /\ Goto(AfterSpeech)
    /\ UNCHANGED <<newest, lastUtt, modeVars, rosterVars, hand, exempt, done,
                   broken, current, cut, sent>>

\* The tail lock: what a stop interrupted goes back to the front of its own
\* stream (created anew if the session ended meanwhile) and is not noted.
Requeue ==
    /\ pc = "tail" /\ ~ done /\ StoppedNow(hand.session)
    /\ Open({hand.session})
    /\ stopped' = StoppedOnceOpen({hand.session})
    /\ queue' = [queue EXCEPT ![hand.session] = EnqueueFront(@, hand)]
    /\ EndTurn
    /\ UNCHANGED <<armed, deferred, buffer, partial, frontier, ledgerVars, modeVars,
                   rosterVars, outstanding, broken, cut, sent>>

TailDone ==
    /\ pc = "tail"
    /\ \/ done /\ UNCHANGED <<present, stopped>>
       \/ /\ ~ done /\ ~ StoppedNow(hand.session)
          /\ Open({hand.session}) /\ UNCHANGED stopped
    /\ lastUtt' = (lastUtt \/ (done /\ ~ hand.cue))
    /\ Goto("note")
    /\ UNCHANGED <<queue, armed, deferred, buffer, partial, frontier, newest,
                   markers, nextId, modeVars, rosterVars, hand, exempt, done,
                   outstanding, broken, current, cut, sent>>

\* Mutant: the frontier follows whatever completed.
AdvanceBlindly(s, entry) == [frontier EXCEPT ![s] = entry]

\* note_spoken(): the claim and the marker go; a forward item that completed
\* advances its stream's frontier, monotonically.
Advance(s, entry) == [frontier EXCEPT ![s] = IF entry > @ THEN entry ELSE @]

Noted == {m \in markers : m.id = hand.id}

NoteSpoken ==
    /\ pc = "note"
    /\ markers' = Without({hand.id})
    /\ frontier' = IF done /\ hand.forward /\ hand.session \in present /\ Noted # {}
                   THEN Advance(hand.session, (CHOOSE m \in Noted : TRUE).entry)
                   ELSE frontier
    /\ outstanding' = IF done THEN outstanding \ {hand.session} ELSE outstanding
    /\ EndTurn
    /\ UNCHANGED <<present, queue, flagVars, buffer, partial, newest, nextId, lastUtt,
                   modeVars, rosterVars, broken, cut, sent>>

LoopStep ==
    \/ PopHeldCue \/ NoHeldCue \/ CheckStopped
    \/ PopOwn \/ Adopt \/ NothingToSay
    \/ SpeakCompletes \/ SpeakCut \/ SpeakRaises \/ SignalFailure
    \/ Requeue \/ TailDone \/ NoteSpoken
=============================================================================
