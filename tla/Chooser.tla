------------------------------ MODULE Chooser ------------------------------
(***************************************************************************)
(* features/chooser.py, with the chord of sonari-hotkeyd.swift that drives   *)
(* it: while the chord is held each tap previews a session and moves         *)
(* nothing; its release, or a digit, lands; the utterance the first tap cut  *)
(* is parked and given back unless the browse lands elsewhere.               *)
(*                                                                          *)
(* Every message of the hotkey program has a connection of its own, so the   *)
(* daemon may handle two of them in either order.  A digit is named by the   *)
(* session whose number it is; module Sessions has the numbers.              *)
(***************************************************************************)
EXTENDS Daemon

CONSTANTS MaxWire,    \* bound: messages sent and not yet handled
          MaxTaps     \* bound: taps

\* An open browse: ChooserState.
BrowseSet ==
    [origin : Session \union {None}, candidates : Seq(Session), index : Nat,
     captured : ItemSet \union {None}, entry : SUBSET MarkerSet, preview : Nat]

ASSUME ChooserAssumption == MaxWire \in Nat /\ MaxTaps \in Nat
ASSUME BrowseAssumption == None \notin BrowseSet
ASSUME FiniteRoster == IsFiniteSet(Roster0)

VARIABLES
    chooser,     \* host._chooser, or None
    lapsed,      \* it was opened more than STALE_S ago
    chord,       \* chooserMode: the hotkey program holds a chord
    wire,        \* messages sent and not yet handled
    taps,        \* taps so far
    stray,       \* for the properties: a digit or a late tap left it open
    landings,    \* for the properties: how many browses have landed
    previews,    \* for the properties: the ids that were previews
    ended        \* for the properties: the sessions whose transcript has ended once

browseVars == <<chooser, lapsed, chord, wire, taps, stray, landings, previews, ended>>
bvars == <<vars, browseVars>>

-----------------------------------------------------------------------------
(* The hotkey program *)

Closers == {"commit", "digit", "cancel"}

Sends(m) == Len(wire) < MaxWire /\ wire' = Append(wire, m)

TapMessage(by) == [type |-> "step", by |-> by, digit |-> None]

KeyMessage(type, s) == [type |-> type, by |-> 0, digit |-> s]

\* The first tap enters chooser mode; by is 1 or, with shift, -1.
Tap(by) ==
    /\ taps < MaxTaps /\ taps' = taps + 1
    /\ chord' = TRUE
    /\ Sends(TapMessage(by))

\* Mutant: the cap leaves the mode without a word to the daemon.
ExitsSilently(m) == UNCHANGED wire

Exits(m) == Sends(m)

\* The release poll, a digit and the 30 s cap each leave the mode.
LeaveMode(m) ==
    /\ chord /\ chord' = FALSE
    /\ IF m.type = "cancel" THEN Exits(m) ELSE Sends(m)
    /\ UNCHANGED taps

Release == LeaveMode(KeyMessage("commit", None))

Dial(s) == LeaveMode(KeyMessage("digit", s))

CapFires == LeaveMode(KeyMessage("cancel", None))

Keyboard ==
    /\ \/ \E by \in {1, -1} : Tap(by)
       \/ Release
       \/ \E s \in Session : Dial(s)
       \/ CapFires
    /\ UNCHANGED <<vars, chooser, lapsed, stray, landings, previews, ended>>

\* The next message a connection thread hands to its handler.
Handles(type, i) ==
    /\ wire[i].type = type
    /\ wire' = RemoveAt(wire, i)

-----------------------------------------------------------------------------
(* What a handler has done so far to the state behind the lock, as a record *)

Untouched ==
    [queue |-> queue, markers |-> markers, id |-> nextId, present |-> present,
     stopped |-> stopped, current |-> current, cancels |-> FALSE]

\* _enqueue() of an item at the front of its stream, which may be born by it.
PutFront(w, item) ==
    LET s == item.session
    IN  [w EXCEPT !.queue[s] = EnqueueFront(@, item), !.id = item.id,
                  !.present = @ \union {s},
                  !.stopped[s] = @ \/ (s \notin w.present /\ voiceState = "stopped-all")]

Effects(w) ==
    /\ queue' = w.queue /\ markers' = w.markers /\ nextId' = w.id
    /\ present' = w.present /\ stopped' = w.stopped /\ current' = w.current
    /\ CancelIf(w.cancels)

PreviewIds(ch) == {ch.preview}

\* _remove_preview(): it leaves its queue, or is cut when it is being voiced.
RemovePreview(w, ch) ==
    [w EXCEPT !.queue = [s \in Session |-> RemoveIds(@[s], PreviewIds(ch))],
              !.cancels = @ \/ (w.current # None /\ w.current.id = ch.preview)]

\* The captured item comes back under a new id with all it carries.
PutBack(w, ch) ==
    IF ch.captured = None THEN w
    ELSE LET item == [ch.captured EXCEPT !.id = w.id + 1]
         IN  [PutFront(w, item) EXCEPT
                !.markers = @ \union {[m EXCEPT !.id = item.id] : m \in ch.entry}]

\* _restore_and_clear().
Restored(w, ch) == PutBack(RemovePreview(w, ch), ch)

-----------------------------------------------------------------------------
(* CHOOSER_STEP *)

Live == reg \ dead

\* _snapshot(): the workspace's session first.  The rest follows in an order
\* (most recent, then registration) which module Sessions keeps.
Snapshots ==
    {(IF Workspace \in Live THEN <<Workspace>> ELSE <<>>) \o rest :
        rest \in SetToSeqs(Live \ {Workspace})}

\* Mutant: the claim stays with the speak loop.
ClaimShared(w) == w.current

ClaimTaken(w) == None

\* _open(): the utterance in flight is cut and its claim taken over.
Cuts(w) == [w EXCEPT !.cancels = @ \/ w.current # None, !.current = ClaimTaken(w)]

Opening(w, candidates) ==
    [origin |-> Workspace, candidates |-> candidates, index |-> 0,
     captured |-> w.current,
     entry |-> {m \in w.markers : w.current # None /\ m.id = w.current.id},
     preview |-> 0]

\* Where a preview is heard: at the speaker, else on a playable workspace.
PreviewDest ==
    IF spk # None THEN spk ELSE IF IsStopped(Workspace) THEN None ELSE Workspace

\* _deliver_preview(): every preview barges in.
DeliverPreview(w, ch) ==
    LET cleared == [RemovePreview(w, ch) EXCEPT !.cancels = TRUE]
        dest    == PreviewDest
    IN  IF dest = None
        THEN /\ Effects(cleared)
             /\ chooser' = [ch EXCEPT !.preview = 0]
             /\ UNCHANGED <<sanction, whole, spk, previews>>
        ELSE /\ Effects(PutFront(cleared, Cue(cleared.id + 1, dest)))
             /\ chooser' = [ch EXCEPT !.preview = cleared.id + 1]
             /\ previews' = previews \union {cleared.id + 1}
             /\ SanctionDeadRead(dest, FALSE)
             /\ spk' = SpeakerOnceSanctioned(dest, FALSE, cleared.stopped[dest])

\* _state_or_none(): a stale browse is cancelled by the next message.
Expired == IF chooser # None /\ lapsed THEN Restored(Untouched, chooser) ELSE Untouched

IsOpen == chooser # None /\ ~ lapsed

Turned(ch, by) == [ch EXCEPT !.index = (@ + by) % Len(ch.candidates)]

\* What no part of the chooser touches.
ChooserLeaves ==
    UNCHANGED <<armed, deferred, buffer, partial, frontier, newest, lastUtt, markResume,
                announced, focus, dead, loopVars, sent, chord, taps, ended>>

MovesNothing == ChooserLeaves /\ UNCHANGED <<voiceState, reg, fg, landings>>

\* A tap handled after everything that could end its gesture opens for nobody.
Overtaken == ~ chord /\ \A i \in DOMAIN wire' : wire'[i].type \notin Closers

StepOn(m) ==
    /\ IsOpen
    /\ DeliverPreview(Untouched, Turned(chooser, m.by))
    /\ UNCHANGED <<lapsed, stray>>

StepOpens(m) ==
    /\ ~ IsOpen
    /\ \E candidates \in Snapshots \ {<<>>} :
        DeliverPreview(Cuts(Expired), Turned(Opening(Expired, candidates), m.by))
    /\ lapsed' = FALSE
    /\ stray' = Overtaken

\* An error tone.
NobodyToBrowse ==
    /\ ~ IsOpen /\ Live = {}
    /\ Effects(Expired)
    /\ chooser' = None /\ lapsed' = FALSE /\ stray' = FALSE
    /\ UNCHANGED <<sanction, whole, spk, previews>>

ChooserStep(i) ==
    /\ Handles("step", i)
    /\ StepOn(wire[i]) \/ StepOpens(wire[i]) \/ NobodyToBrowse
    /\ MovesNothing

-----------------------------------------------------------------------------
(* CHOOSER_COMMIT, CHOOSER_DIGIT, CHOOSER_CANCEL *)

Closes ==
    /\ chooser' = None /\ lapsed' = FALSE /\ stray' = FALSE
    /\ UNCHANGED previews

VoiceStays == UNCHANGED <<sanction, whole, spk>>

\* Nothing is open, or only a stale browse, which is cancelled.
NotOpen ==
    /\ ~ IsOpen
    /\ Effects(Expired)
    /\ Closes /\ VoiceStays /\ MovesNothing

CancelBrowse ==
    /\ IsOpen
    /\ Effects(Restored(Untouched, chooser))
    /\ Closes /\ VoiceStays /\ MovesNothing

\* The word that a session closed goes to the voice, else to the workspace.
ClosedWord(w) ==
    LET dest == Preferred(spk, Workspace)
        word == Cue(w.id + 1, dest)
    IN  IF dest = None THEN w
        ELSE [w EXCEPT !.queue[dest] = Enqueue(@, word, Cap), !.id = word.id,
                       !.markers = {m \in @ : m.id \notin EvictedIds(w.queue[dest], Cap)},
                       !.present = @ \union {dest},
                       !.stopped = StoppedOnceOpen({dest})]

\* Mutant: only a registered session is asked for.
Registered(s) == s \in reg

Landable(s) == s \in Live

\* Mutant: what was interrupted goes with the refused landing.
Refused(w, ch) == RemovePreview(w, ch)

GaveBack(w, ch) == Restored(w, ch)

\* The session died while it was browsed: the landing is refused aloud.
LandingRefused(s) ==
    /\ s # chooser.origin /\ ~ Landable(s)
    /\ Effects(GaveBack(ClosedWord(Untouched), chooser))
    /\ Closes /\ VoiceStays /\ MovesNothing

\* Workspace and voice go there, what was interrupted does not come back; a
\* muted target keeps the workspace and lets the voice go.
Landing(s) ==
    /\ s # chooser.origin /\ Landable(s)
    /\ LET cleared == [RemovePreview(Untouched, chooser) EXCEPT !.cancels = TRUE,
                                                     !.present = @ \union {s}]
           cue == Cue(cleared.id + 1, s)
       IN  Effects(PutFront(cleared, cue))
    /\ fg' = s /\ reg' = reg \union {s}
    /\ spk' = IF stopped[s] THEN None ELSE s
    /\ voiceState' = "flowing"
    /\ landings' = landings + 1
    /\ Closes
    /\ UNCHANGED <<sanction, whole>>
    /\ ChooserLeaves

\* The session one started from: the browse is cancelled.
LandingAtHome(s) == s = chooser.origin /\ CancelBrowse

\* _commit().
Lands(s) ==
    /\ IsOpen
    /\ LandingAtHome(s) \/ LandingRefused(s) \/ Landing(s)

ChooserCommit(i) ==
    /\ Handles("commit", i)
    /\ NotOpen \/ (IsOpen /\ Lands(chooser.candidates[chooser.index + 1]))

\* A digit nobody alive answers to: the word if its session is known to have
\* closed, a tone alone if not.  The browse stays open.
NobodyThere(s) ==
    /\ IsOpen /\ s \notin Live
    /\ Effects(IF s \in dead \/ (s \notin reg /\ Contains(chooser.candidates, s))
               THEN ClosedWord(Untouched) ELSE Untouched)
    /\ stray' = TRUE
    /\ UNCHANGED <<chooser, lapsed, previews>>
    /\ VoiceStays /\ MovesNothing

ChooserDigit(i) ==
    /\ Handles("digit", i)
    /\ \/ NotOpen
       \/ NobodyThere(wire[i].digit)
       \/ wire[i].digit \in Live /\ Lands(wire[i].digit)

ChooserCancel(i) ==
    /\ Handles("cancel", i)
    /\ NotOpen \/ CancelBrowse

\* STALE_S passes.
Lapse ==
    /\ IsOpen /\ lapsed' = TRUE
    /\ UNCHANGED <<vars, chooser, chord, wire, taps, stray, landings, previews, ended>>

-----------------------------------------------------------------------------
BInit ==
    /\ InitState
    /\ chooser = None /\ lapsed = FALSE /\ chord = FALSE /\ wire = <<>> /\ taps = 0
    /\ stray = FALSE /\ landings = 0 /\ previews = {}
    /\ ended = {}

Handle ==
    \E i \in DOMAIN wire :
        ChooserStep(i) \/ ChooserCommit(i) \/ ChooserDigit(i) \/ ChooserCancel(i)

\* No other part of the daemon knows of an open browse.
Elsewhere ==
    /\ Next
    /\ ended' = ended \union {s \in Session : newest'[s] < newest[s]}
    /\ UNCHANGED <<chooser, lapsed, chord, wire, taps, stray, landings, previews>>

BNext == Keyboard \/ Handle \/ Lapse \/ Elsewhere

BSpec == BInit /\ [][BNext]_bvars

-----------------------------------------------------------------------------
(* Properties *)

BTypeOK ==
    /\ TypeOK
    /\ \/ chooser = None
       \/ chooser \in BrowseSet /\ chooser.index < Len(chooser.candidates)
    /\ {lapsed, chord, stray} \subseteq BOOLEAN
    /\ wire \in Seq([type : Closers \union {"step"}, by : {1, 0, -1},
                     digit : Session \union {None}])
    /\ {landings, taps} \subseteq Nat

Parked == IF chooser = None THEN None ELSE chooser.captured

\* A browse that lands puts the workspace and the voice on a session that is
\* registered and whose terminal is there, although the candidates were
\* gathered when the chord was first tapped and may have closed since.
LandsOnTheLiving ==
    [][landings' # landings => fg' \in reg \ dead /\ spk' \in {fg', None}]_bvars

\* At most one preview waits to be voiced, and none once the browse is over:
\* what is heard then is never the name of a session that was passed over.
\* (A stop puts what it cuts back on its stream, a preview too; and a tap that
\* comes before the cut of a preview is noted parks it: what it gives back then
\* is a new item.)
NoStalePreview ==
    \A s \in Session : \A i \in DOMAIN queue[s] :
        queue[s][i].id \in previews /\ ~ stopped[s]
            => chooser # None /\ queue[s][i].id = chooser.preview

\* An entry the browse gave back awaits voicing once: no second tap, stale
\* browse or end of it queues the same interrupted utterance again.  (A stop
\* that falls before the cut utterance is noted puts a copy on its stream, and
\* the entries of a session that ended are numbered anew.)
ResumedOnce ==
    \A m \in markers :
        stopped[m.session] \/ m.session \in ended \/ Cardinality(Holders(m)) <= 1

\* A browse leaves nothing of its own behind and doubles nothing.
BrowseSound == BTypeOK /\ NoStalePreview /\ ResumedOnce

\* However a browse ends short of a landing -- cancelled, back where it began,
\* refused because its target closed, or stale and replaced -- the utterance it
\* interrupted is queued again with its heard-marker.
GivenBack ==
    [][Parked # None /\ Parked' # Parked /\ landings' = landings =>
        \E it \in {queue'[Parked.session][i] : i \in DOMAIN queue'[Parked.session]} :
            /\ it = [Parked EXCEPT !.id = it.id]
            /\ {m.entry : m \in {k \in markers' : k.id = it.id}}
                 = {m.entry : m \in chooser.entry}]_bvars

\* A browse ends with its chord, whatever the order its messages are handled
\* in and whatever closed meanwhile, unless a digit reached nobody or a tap was
\* handled after its own release.
BrowseEnds ==
    chooser # None /\ ~ chord /\ (\A i \in DOMAIN wire : wire[i].type \notin Closers)
        => stray
=============================================================================
