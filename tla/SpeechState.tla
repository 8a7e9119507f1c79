---------------------------- MODULE SpeechState ----------------------------
(***************************************************************************)
(* The state behind the daemon's one lock -- SessionState, the per-session  *)
(* SessionStreams, the voice pointers of SessionManager and the speak       *)
(* loop's own locals -- and the host helpers every handler is built from.   *)
(*                                                                          *)
(* A session without a stream (outside `present') has the fields of a fresh *)
(* one.  The ledger of heard-markers binds item ids to history entries; an  *)
(* entry is the number its session's transcript gave it.                    *)
(***************************************************************************)
EXTENDS Naturals, Sequences, FiniteSets, SpeechQueue

CONSTANTS Session,     \* session ids
          None,        \* no session / no item
          Cap,         \* backlog_cap
          MinQueue,    \* minqueue: prose chunks buffered before they are queued
          Roster0,     \* sessions that have introduced themselves already
          Messages,    \* message types the environment sends
          MaxMsgs      \* bound: messages in a behaviour

ItemSet == [id : Nat, session : Session, decision : BOOLEAN, cue : BOOLEAN,
            forward : BOOLEAN]

MarkerSet == [id : Nat, session : Session, entry : Nat]

ASSUME NoneAssumption == None \notin Session /\ None \notin ItemSet
ASSUME SettingsAssumption == Cap \in Nat /\ MinQueue \in Nat \ {0}
ASSUME RosterAssumption == Roster0 \subseteq Session
ASSUME MessagesAssumption == MaxMsgs \in Nat

VARIABLES
    present,      \* sessions that have a stream
    queue,        \* stream.queue
    stopped,      \* stream.stopped
    armed,        \* stream.announce_resume
    deferred,     \* stream.announce_deferred
    buffer,       \* stream.prose_buffer, as the entries it holds
    partial,      \* stream.assembler.has_pending()
    frontier,     \* stream.frontier; 0 is None
    newest,       \* entries in the session's transcript
    markers,      \* _pending_heard
    nextId,       \* _next_id
    lastUtt,      \* _last_utterance is set
    current,      \* _current_item
    voiceState,   \* _voice_state
    markResume,   \* _mark_keep_going_resume
    sanction,     \* _deliberate_dead_read
    whole,        \* _deliberate_dead_whole
    reg,          \* registered sessions
    announced,    \* sessions whose registration announce was claimed
    fg,           \* foreground()
    spk,          \* speaker()
    focus,        \* the OS-focused session
    dead,         \* registered sessions whose terminal is gone
    pc,           \* where the speak thread is
    hand,         \* the item it holds
    exempt,       \* it is on the held branch
    done,         \* `completed'
    cut,          \* speaker.cancel() ran since the item was claimed
    outstanding,  \* _speak_failure_outstanding
    broken,       \* the audio path has failed for good
    sent          \* messages received so far

flagVars   == <<stopped, armed, deferred>>
streamVars == <<present, queue, flagVars, buffer, partial, frontier>>
ledgerVars == <<newest, markers, nextId, lastUtt>>
modeVars   == <<voiceState, markResume, sanction, whole>>
rosterVars == <<reg, announced, fg, spk, focus, dead>>
loopVars   == <<pc, hand, exempt, done, outstanding, broken>>
vars == <<streamVars, ledgerVars, modeVars, rosterVars, loopVars, current, cut, sent>>

VoiceStates == {"flowing", "quiet-hold", "stopped-all"}

-----------------------------------------------------------------------------
(* Items and streams *)

Item(id, s, decision, cue, forward) ==
    [id |-> id, session |-> s, decision |-> decision, cue |-> cue,
     forward |-> forward]

\* The answer to a press, and other words nobody's transcript holds.
Cue(id, s) == Item(id, s, FALSE, TRUE, FALSE)

Marker(id, s, entry) == [id |-> id, session |-> s, entry |-> entry]

\* Mutant: a stream is born audible, even under stopped-all.
StoppedAsIs(S) == stopped

\* _stream(): the stream is created on first use, born muted under stopped-all.
BornStopped(s) == s \notin present /\ voiceState = "stopped-all"
Open(S) == present' = present \union S
StoppedOnceOpen(S) == [s \in Session |-> stopped[s] \/ (s \in S /\ BornStopped(s))]

\* Asking creates the stream, so it may be muted only then.
StoppedNow(s) == s # None /\ StoppedOnceOpen({s})[s]

\* _stream_quiescent(): nothing queued, buffered or half-assembled; no stream
\* is quiescent too.
Quiescent(s) ==
    s # None => queue[s] = <<>> /\ buffer[s] = <<>> /\ ~ partial[s]

Without(ids) == {m \in markers : m.id \notin ids}

\* What a forward readout adds to the queue: one item per buffered entry, then
\* (for a decision or a tool call) the item that flushed the buffer.
Readout(s, entries, kinds) ==
    [i \in DOMAIN entries |->
        Item(nextId + i, s, kinds[i] = "decision", FALSE, TRUE)]

EnqueueAll(q, items) ==
    LET after[i \in 0..Len(items)] ==
            IF i = 0 THEN q ELSE Enqueue(after[i - 1], items[i], Cap)
    IN  after[Len(items)]

\* Items the cap pushed out while `items' were appended to q.
EvictedBy(q, items) == Ids(q \o items) \ Ids(EnqueueAll(q, items))

\* _enqueue() of a forward readout, markers included.
EnqueueReadout(s, entries, kinds) ==
    LET items   == Readout(s, entries, kinds)
        evicted == EvictedBy(queue[s], items)
        bound   == {Marker(nextId + i, s, entries[i]) : i \in DOMAIN entries}
    IN  /\ queue' = [queue EXCEPT ![s] = EnqueueAll(@, items)]
        /\ markers' = {m \in markers \union bound : m.id \notin evicted}
        /\ nextId' = nextId + Len(entries)

\* _enqueue() of one word without an entry, at the back ...
EnqueueWord(item) ==
    /\ queue' = [queue EXCEPT ![item.session] = Enqueue(@, item, Cap)]
    /\ markers' = Without(EvictedIds(queue[item.session], Cap))
    /\ nextId' = item.id

\* ... and at_front=True, ahead of what remains of the queues q.
EnqueueFirst(q, item) ==
    /\ queue' = [q EXCEPT ![item.session] = EnqueueFront(@, item)]
    /\ nextId' = item.id

-----------------------------------------------------------------------------
(* The voice *)

\* workspace(): the OS-focused session, else the last deliberately-acted one.
Workspace == IF focus # None THEN focus ELSE fg

Preferred(a, b) == IF a # None THEN a ELSE b

IsStopped(s) == s # None /\ stopped[s]

CurrentIn(s) == current # None /\ current.session = s

\* speaker.cancel() reaches the utterance the loop has claimed and not yet
\* finished; with none claimed it changes nothing the loop can see.
Cancel == cut' = (pc = "speak")
CancelIf(b) == cut' = (cut \/ (b /\ pc = "speak"))

\* _voice_busy_elsewhere(): another session owns active speech.
VoiceBusyElsewhere(s) ==
    \/ current # None /\ current.session # s
    \/ spk \notin {None, s} /\ ~ Quiescent(spk)

\* _sanction_dead_read(): a press re-opens a dead session's stream, for one
\* item or as a whole; an idle voice goes there with it.
SanctionDeadRead(s, grain) ==
    IF s \in dead
    THEN /\ sanction' = s
         /\ whole' = (grain \/ (sanction = s /\ whole))
    ELSE UNCHANGED <<sanction, whole>>

SpeakerOnceSanctioned(s, grain, muted) ==
    IF s \in dead /\ spk = None /\ (grain \/ ~ muted) THEN s ELSE spk

-----------------------------------------------------------------------------
Receive(type) ==
    /\ type \in Messages /\ sent < MaxMsgs
    /\ sent' = sent + 1

InitState ==
    /\ present = {} /\ queue = [s \in Session |-> <<>>]
    /\ stopped = [s \in Session |-> FALSE]
    /\ armed = [s \in Session |-> FALSE]
    /\ deferred = [s \in Session |-> FALSE]
    /\ buffer = [s \in Session |-> <<>>]
    /\ partial = [s \in Session |-> FALSE]
    /\ frontier = [s \in Session |-> 0]
    /\ newest = [s \in Session |-> 0]
    /\ markers = {} /\ nextId = 0 /\ lastUtt = FALSE
    /\ current = None /\ voiceState = "flowing" /\ markResume = FALSE
    /\ sanction = None /\ whole = FALSE
    \* The sessions of Roster0 introduced themselves (SET_FOREGROUND) to an
    \* idle daemon; the last one to do so has the voice and the workspace.
    /\ reg = Roster0 /\ announced = {} /\ focus = None /\ dead = {}
    /\ fg \in IF Roster0 = {} THEN {None} ELSE Roster0
    /\ spk = fg
    /\ pc = "held" /\ hand = None /\ exempt = FALSE /\ done = FALSE /\ cut = FALSE
    /\ outstanding = {} /\ broken = FALSE /\ sent = 0
=============================================================================
