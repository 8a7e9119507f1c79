------------------------------- MODULE Daemon -------------------------------
(***************************************************************************)
(* The speech daemon: the speak loop interleaved with the handlers that     *)
(* connection threads run under the daemon lock, and what must hold.        *)
(***************************************************************************)
EXTENDS SpeakLoop, Playback, Lifecycle

Init == InitState

Next ==
    \/ LoopStep
    \/ Press
    \/ \E s \in Session : Report(s)
    \/ AudioFault

Spec == Init /\ [][Next]_vars

\* The speak thread polls for ever and never dies (_speak_loop contains every
\* exception), and an utterance ends: proc.wait() has a deadline.  Nothing is
\* assumed of the sessions or of the user.
FairSpec == Spec /\ WF_vars(LoopStep)

-----------------------------------------------------------------------------
(* Safety *)

InHand == hand # None

TypeOK ==
    /\ present \subseteq Session
    /\ queue \in [Session -> Seq(ItemSet)]
    /\ stopped \in [Session -> BOOLEAN]
    /\ armed \in [Session -> BOOLEAN]
    /\ deferred \in [Session -> BOOLEAN]
    /\ buffer \in [Session -> Seq(Nat)]
    /\ partial \in [Session -> BOOLEAN]
    /\ frontier \in [Session -> Nat]
    /\ newest \in [Session -> Nat]
    /\ markers \subseteq MarkerSet
    /\ nextId \in Nat
    /\ lastUtt \in BOOLEAN
    /\ current \in ItemSet \union {None}
    /\ voiceState \in VoiceStates
    /\ markResume \in BOOLEAN
    /\ sanction \in Session \union {None}
    /\ whole \in BOOLEAN
    /\ reg \subseteq Session /\ announced \subseteq Session /\ dead \subseteq Session
    /\ {fg, spk, focus} \subseteq Session \union {None}
    /\ pc \in {"held", "check", "pop", "speak", "failing", "tail", "note"}
    /\ hand \in ItemSet \union {None}
    /\ {exempt, done, cut, broken} \subseteq BOOLEAN
    /\ outstanding \subseteq Session
    /\ sent \in Nat

QueuedIds(s) == Ids(queue[s])

Queued == UNION {QueuedIds(s) : s \in Session}

LiveIds == Queued \union (IF InHand THEN {hand.id} ELSE {})

\* R21 (tests/test_stopped_streams_hold_no_armed_resume.py): no stopped stream
\* anywhere holds an armed "Resumed.", whoever stops it and however it was
\* created; it would be spoken through the mute.
NoArmedOnStopped ==
    \A s \in Session : armed[s] => ~ stopped[s]

\* Under stopped-all every session is muted, the ones whose stream did not
\* exist when the master quiet key was pressed included (born muted, F2/M2).
MasterQuiet ==
    voiceState = "stopped-all" => \A s \in Session : s \in present => stopped[s]

\* Whoever mutes, mutes whole: nothing armed speaks through the mute of a
\* stream, and no stream is outside the master quiet.
MuteIsWhole == NoArmedOnStopped /\ MasterQuiet

\* Every pending heard-marker belongs to an item still queued or in the speak
\* thread's hands; a marker without one is never resolved.
MarkersAccounted ==
    \A m \in markers : m.id \in LiveIds

\* A transcript entry awaits voicing at most once: it is queued, or being
\* voiced by an utterance nobody has cancelled, and never both or twice.
Awaiting ==
    Queued \union (IF InHand /\ pc = "speak" /\ ~ cut THEN {hand.id} ELSE {})

Holders(m) ==
    {n.id : n \in {k \in markers : k.session = m.session /\ k.entry = m.entry}}
    \intersect Awaiting

NothingDuplicated ==
    /\ \A m \in markers : Cardinality(Holders(m)) <= 1
    /\ \A s \in Session : Cardinality(QueuedIds(s)) = Len(queue[s])

\* The frontier of a session is never ahead of its transcript: an entry counts
\* as dealt with only once it exists.
FrontierWithinTranscript ==
    \A s \in Session : frontier[s] <= newest[s]

\* What has been heard is accounted for: markers, items and frontiers agree
\* with the queues and the transcript they stand for.
LedgerSound == TypeOK /\ MarkersAccounted /\ FrontierWithinTranscript

\* A stream's frontier never retreats while the stream lives.
FrontierNeverRetreats ==
    [][\A s \in Session : s \in present \intersect present' => frontier[s] <= frontier'[s]]_vars

\* The pop boundary hands the loop an item of one of the sessions S.
PopsFrom(S, item) == pc = "pop" /\ item # None /\ item.session \in S

\* D3 4d: an item of a dead session is popped only after a press that asked for
\* it, even if the terminal closes in the middle of its backlog ...
PopsSanctioned == PopsFrom(dead, hand') => sanction = (hand').session

\* ... and what the press then hears is its own answer or the question it jumped
\* to, never the prose behind it.
PopsAnswer == PopsFrom(dead, hand') => (hand').cue \/ (hand').decision

\* The dead are quiet until they are asked, and then say what was asked for.
DeadStayQuiet == [][PopsSanctioned /\ PopsAnswer]_vars

\* What a stopped stream holds is not drained until it is started again; a
\* stop that falls between the loop's look at the flag and its pop lets out an
\* item of the session it was aimed at, the speaker, and of no other.
StopHoldsTheRest ==
    [][PopsFrom({s \in Session : stopped[s]}, hand')
          => (hand').cue \/ (hand').session = HeldVoice]_vars

-----------------------------------------------------------------------------
(* Liveness *)

\* A control cue on a stopped stream -- the confirmation of the press that
\* stopped it -- is voiced, wherever the voice is.
HeldCueVoiced ==
    \A s \in Session :
        stopped[s] /\ HasCue(queue[s]) ~> ~ (stopped[s] /\ HasCue(queue[s]))

\* The voice can reach s: it flows, and the speaker neither holds it back by
\* being stopped nor keeps it for a sentence still being assembled.
Reachable(s) ==
    /\ s \in reg \ dead /\ ~ stopped[s] /\ queue[s] # <<>>
    /\ voiceState = "flowing"
    /\ spk # None => ~ stopped[spk] /\ ~ partial[spk] /\ buffer[spk] = <<>>

\* Keep-going: a live session with something to say is not left waiting.
BacklogServed ==
    \A s \in Session : Reachable(s) ~> ~ Reachable(s)

\* Nothing that may be voiced waits for ever.
WaitingIsVoiced == HeldCueVoiced /\ BacklogServed

\* Once messages stop the loop falls silent, on a broken audio path too: the
\* failure word does not feed on its own failure (C1).
FallsSilent == <>[](pc \notin {"speak", "failing"})
=============================================================================
