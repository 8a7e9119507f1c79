------------------------------ MODULE Catchup ------------------------------
(***************************************************************************)
(* features/catchup.py: the summary of what the workspace's session said     *)
(* beyond its frontier.  A press pins the slice and starts a worker; the     *)
(* worker posts its result to an inbox the speak loop drains; the result is  *)
(* rendered as segments behind the acknowledgement; when the last segment    *)
(* has been voiced the slice is burned.  A press while one is in flight      *)
(* cancels it.  The summarizer is an external command with a deadline: a     *)
(* missing one is a worker that fails at once.                               *)
(***************************************************************************)
EXTENDS Daemon

VARIABLES
    bundle,      \* _catchup: the catch-up in flight, or None
    inbox,       \* _catchup_inbox: results posted and not yet drained
    working,     \* ids of the catch-ups whose worker runs
    seq,         \* _catchup_seq
    segments     \* what the render_id and catchup_burn of the items say

catchVars == <<bundle, inbox, working, seq, segments>>
cvars == <<vars, catchVars>>

Bundle == [id : Nat, target : Session, end : Nat, ack : Nat,
           dest : Session \union {None}, ended : BOOLEAN, pinned : BOOLEAN, left : Nat]

ASSUME BundleAssumption == None \notin Bundle

InFlight == bundle # None

Awaited == IF InFlight THEN {bundle.id} ELSE {}

\* render_id is None until the result is rendered, on the stream dest.
Rendering == InFlight /\ bundle.dest # None

SegmentIds(r) == {g.id : g \in {x \in segments : x.render = r}}

LastSegment(it) == [id |-> it.id, render |-> bundle.id, burn |-> TRUE] \in segments

\* _cue_dest(): the diverged speaker, else the caught-up session.  Its closed
\* terminal's stream is re-opened as a whole.
CueDest(target) == IF spk \in {None, target} THEN target ELSE spk

MadeAudible(dest) ==
    /\ SanctionDeadRead(dest, TRUE)
    /\ spk' = SpeakerOnceSanctioned(dest, TRUE, FALSE)

OpenWith(S) == Open(S) /\ stopped' = StoppedOnceOpen(S)

\* What no part of a catch-up touches.
CatchUpLeaves ==
    UNCHANGED <<armed, deferred, buffer, partial, newest, lastUtt, voiceState,
                markResume, reg, announced, fg, focus, dead, broken>>

-----------------------------------------------------------------------------
(* The press *)

PressLeaves ==
    /\ CatchUpLeaves
    /\ UNCHANGED <<frontier, current, pc, hand, exempt, done, outstanding>>

NothingToCatchUp ==
    /\ Receive("CATCH_UP")
    /\ ~ InFlight /\ Workspace # None /\ ~ Piled(Workspace)
    /\ LET dest == CueDest(Workspace)
       IN  /\ OpenWith({Workspace, dest})
           /\ EnqueueFirst(queue, Cue(nextId + 1, dest))
           /\ MadeAudible(dest)
    /\ PressLeaves
    /\ UNCHANGED <<markers, cut, catchVars>>

StartCatchUp ==
    /\ Receive("CATCH_UP")
    /\ ~ InFlight /\ Piled(Workspace)
    /\ LET dest == CueDest(Workspace)
       IN  /\ OpenWith({Workspace, dest})
           /\ EnqueueFirst(queue, Cue(nextId + 1, dest))
           /\ MadeAudible(dest)
    \* `pinned' (the session has not ended since) and `left' (segments not yet
    \* voiced) are there for the properties only.
    /\ bundle' = [id |-> seq + 1, target |-> Workspace, end |-> newest[Workspace],
                  ack |-> nextId + 1, dest |-> None, ended |-> FALSE,
                  pinned |-> TRUE, left |-> 0]
    /\ seq' = seq + 1
    /\ working' = working \union {seq + 1}
    /\ PressLeaves
    /\ UNCHANGED <<markers, cut, inbox, segments>>

\* Mutant: the press forgets the segments that wait in the queue.
DropNoSegments(s, r) == queue

\* _drop_render_items(); segments have no heard-marker.
DropSegments(s, r) == [queue EXCEPT ![s] = RemoveIds(@, SegmentIds(r))]

\* A second press: the render is cut and dropped, and nothing is burned.  The
\* worker's child is killed; what it still posts is stale.
CancelCatchUp ==
    /\ Receive("CATCH_UP")
    /\ InFlight
    /\ LET dest == CueDest(bundle.target)
       IN  /\ OpenWith({dest})
           /\ EnqueueFirst(IF Rendering THEN DropSegments(bundle.dest, bundle.id)
                           ELSE queue, Cue(nextId + 1, dest))
           /\ MadeAudible(dest)
    /\ CancelIf(current # None /\ current.id \in SegmentIds(bundle.id))
    /\ bundle' = None
    /\ PressLeaves
    /\ UNCHANGED <<markers, inbox, working, seq, segments>>

-----------------------------------------------------------------------------
(* The worker and the delivery of its result *)

WorkerPosts(r, ok) ==
    /\ r \in working
    /\ working' = working \ {r}
    /\ inbox' = inbox \union {[id |-> r, ok |-> ok]}
    /\ UNCHANGED <<vars, bundle, seq, segments>>

\* The loop drains its inbox at the top of a turn, held or not.  At most one
\* result in it is not stale, so their order does not matter.
StaleResult(res) ==
    /\ pc = "held"
    /\ res.id \notin Awaited
    /\ inbox' = inbox \ {res}
    /\ UNCHANGED <<vars, bundle, working, seq, segments>>

\* Mutant: results wait until the speaker may drain its stream.
DrainsUnlessHeld == pc = "held" /\ ~ IsStopped(spk)

DrainsInbox == pc = "held"

\* "<folder> ended.", then the summary behind its frame or the digest alone,
\* then "Decision waiting."
SegmentCount(ended, ok, target) ==
    (IF ended THEN 1 ELSE 0) + (IF ok THEN 2 ELSE 1)
    + (IF ~ ended /\ HasDecision(queue[target]) THEN 1 ELSE 0)

\* The segments are enqueued in reverse, so the last to be heard has the
\* smallest id; each lands right behind the acknowledgement.
RenderResult(res) ==
    /\ DrainsInbox
    /\ res.id \in Awaited
    /\ LET dest  == CueDest(bundle.target)
           ended == bundle.target \notin reg
           n     == SegmentCount(ended, res.ok, bundle.target)
           items == [i \in 1..n |-> Cue(nextId + n + 1 - i, dest)]
       IN  /\ OpenWith({dest})
           /\ queue' = [queue EXCEPT ![dest] = InsertAfter(@, bundle.ack, items)]
           /\ nextId' = nextId + n
           /\ segments' = segments \union
                {[id |-> nextId + i, render |-> bundle.id, burn |-> i = 1] : i \in 1..n}
           /\ bundle' = [bundle EXCEPT !.dest = dest, !.ended = ended, !.left = n]
           /\ MadeAudible(dest)
    /\ inbox' = inbox \ {res}
    /\ PressLeaves
    /\ UNCHANGED <<markers, cut, sent, working, seq>>

-----------------------------------------------------------------------------
(* note_spoken(): a segment was voiced or cut *)

NotesSegment ==
    pc = "note" /\ Rendering /\ hand.id \in SegmentIds(bundle.id)

EndsTurn ==
    /\ EndTurn
    /\ outstanding' = IF done THEN outstanding \ {hand.session} ELSE outstanding
    /\ CatchUpLeaves
    /\ UNCHANGED <<present, stopped, nextId, sanction, whole, spk, cut, sent, inbox,
                   working, seq, segments>>

\* Any cut drops the remaining segments and the burn with them.
SegmentCut ==
    /\ NotesSegment /\ ~ done
    /\ bundle' = None
    /\ queue' = DropSegments(hand.session, bundle.id)
    /\ UNCHANGED <<frontier, markers>>
    /\ EndsTurn

SegmentVoiced ==
    /\ NotesSegment /\ done /\ ~ LastSegment(hand)
    /\ bundle' = [bundle EXCEPT !.left = @ - 1]
    /\ UNCHANGED <<queue, frontier, markers>>
    /\ EndsTurn

\* Mutant: the pile at the moment of the burn.
PileNow == newest[bundle.target]

\* The key the press pinned, never the newest at completion.
SliceEnd == bundle.end

\* Queued items of the slice.
SliceIds ==
    {m.id : m \in {x \in markers : x.entry <= SliceEnd}}
    \intersect Ids(queue[bundle.target])

\* The last segment was voiced: the pinned slice is burned, unless its session
\* ended before the render.
RenderEnds ==
    /\ NotesSegment /\ done /\ LastSegment(hand)
    /\ bundle' = None
    /\ IF ~ bundle.ended /\ bundle.target \in present
       THEN /\ frontier' = Advance(bundle.target, SliceEnd)
            /\ queue' = [queue EXCEPT ![bundle.target] = RemoveIds(@, SliceIds)]
            /\ markers' = Without(SliceIds)
       ELSE UNCHANGED <<frontier, queue, markers>>
    /\ EndsTurn

-----------------------------------------------------------------------------
CInit == InitState /\ bundle = None /\ inbox = {} /\ working = {} /\ seq = 0
                   /\ segments = {}

\* A turn begins by draining the inbox.
PlainTurn ==
    /\ IF pc = "held" THEN inbox = {} ELSE ~ NotesSegment
    /\ LoopStep
    /\ UNCHANGED catchVars

Deliver == \E res \in inbox : StaleResult(res) \/ RenderResult(res)

CatchUpPress == NothingToCatchUp \/ StartCatchUp \/ CancelCatchUp

Note == SegmentCut \/ SegmentVoiced \/ RenderEnds

Turn == PlainTurn \/ Deliver \/ Note

Worker == \E r \in working, ok \in BOOLEAN : WorkerPosts(r, ok)

\* No other handler knows of a catch-up in flight.
OtherHandler ==
    /\ Press \/ (\E s \in Session : Report(s)) \/ AudioFault
    /\ bundle' = IF InFlight /\ bundle.target \notin present'
                 THEN [bundle EXCEPT !.pinned = FALSE] ELSE bundle
    /\ UNCHANGED <<inbox, working, seq, segments>>

CNext == Turn \/ Worker \/ CatchUpPress \/ OtherHandler

CSpec == CInit /\ [][CNext]_cvars

\* The loop polls for ever and summarize() has a deadline of 30 s.
CFairSpec == CSpec /\ WF_cvars(Turn) /\ WF_cvars(Worker)

-----------------------------------------------------------------------------
(* Properties *)

CTypeOK ==
    /\ TypeOK
    /\ bundle \in Bundle \union {None}
    /\ inbox \subseteq [id : Nat, ok : BOOLEAN]
    /\ working \subseteq Nat
    /\ seq \in Nat
    /\ segments \subseteq [id : Nat, render : Nat, burn : BOOLEAN]

\* A segment that waits in a queue belongs to the catch-up in flight and waits
\* in the stream it was rendered to -- a cancelled or cut render leaves no lone
\* tail behind -- but for the one a stop put back on a muted stream.
NoLoneTail ==
    \A s \in Session, g \in segments :
        g.id \in Ids(queue[s]) /\ ~ stopped[s]
            => Rendering /\ g.render = bundle.id /\ s = bundle.dest

\* The bundle in flight, its worker and its segments fit together.
RenderSound == CTypeOK /\ NoLoneTail

\* In the stream both were sent to, the acknowledgement with the size of the
\* pile is heard before the summary, and the summary in order, whatever was
\* queued, cut or put back around them.
HeardInOrder ==
    Rendering =>
        LET q == queue[bundle.dest]
        IN  \A i, j \in DOMAIN q :
                /\ i < j /\ {q[i].id, q[j].id} \subseteq SegmentIds(bundle.id)
                       => q[i].id > q[j].id
                /\ q[i].id \in SegmentIds(bundle.id) /\ q[j].id = bundle.ack => j < i

Burning == NotesSegment /\ bundle' = None /\ frontier' # frontier

\* Only when every segment has been voiced to its end, never after a part.
BurnIsEarned == bundle.left = 1

\* Nothing of the slice is left in the queue to be read again.
BurnTakesTheSlice ==
    \A m \in markers' :
        m.session = bundle.target /\ m.id \in Ids(queue'[m.session])
            => m.entry > frontier'[m.session]

\* What the session said after the press was not in the summary: it is neither
\* dropped nor passed over.
BurnSparesTheRest ==
    bundle.pinned => \A m \in markers :
        m.session = bundle.target /\ m.entry > bundle.end
            => m \in markers' /\ m.entry > frontier'[m.session]

\* A summary heard whole, and only one heard whole, burns the slice it was made
\* from: all of it, and nothing else.
BurnIsRight ==
    [][Burning => BurnIsEarned /\ BurnTakesTheSlice /\ BurnSparesTheRest]_cvars

\* A catch-up being prepared is rendered, or cancelled, even while the voice is
\* held: the result never waits for a stopped stream to be started.
ResultLands == InFlight /\ ~ Rendering ~> Rendering \/ ~ InFlight
=============================================================================
