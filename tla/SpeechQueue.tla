---------------------------- MODULE SpeechQueue ----------------------------
(***************************************************************************)
(* queue.py: one session's pending speech, as operators on the sequence     *)
(* self._items.  An operation that both changes the queue and returns items *)
(* is a pair of operators, one for each.  Every item is a record with at    *)
(* least the fields id, decision (is_decision) and cue (control_cue); the   *)
(* ids of a queue's items are distinct.                                     *)
(***************************************************************************)
EXTENDS Naturals, Sequences, FiniteSets, SequencesExt

Ids(q) == {q[i].id : i \in DOMAIN q}

Positions(q, Test(_)) == {i \in DOMAIN q : Test(q[i])}

HasDecision(q) == \E i \in DOMAIN q : q[i].decision

HasCue(q) == \E i \in DOMAIN q : q[i].cue

\* The position enqueue() evicts: the oldest non-decision item of a queue at
\* its cap, 0 when there is nothing to evict -- a full queue of decisions
\* outgrows the cap.
EvictedAt(q, cap) ==
    LET evictable == Positions(q, LAMBDA it : ~ it.decision)
    IN  IF Len(q) < cap \/ evictable = {} THEN 0 ELSE Min(evictable)

EvictedIds(q, cap) == {q[i].id : i \in {EvictedAt(q, cap)} \ {0}}

Enqueue(q, item, cap) ==
    IF EvictedAt(q, cap) = 0 THEN Append(q, item)
    ELSE Append(RemoveAt(q, EvictedAt(q, cap)), item)

\* Not subject to the cap.
EnqueueFront(q, item) == <<item>> \o q

\* The frontmost control cue, wherever it stands.
CueAt(q) == Min(Positions(q, LAMBDA it : it.cue))

OldestCueId(q) == q[CueAt(q)].id

PopControlCue(q) == RemoveAt(q, CueAt(q))

\* Mutant: the claim is a copy put in front.
ClaimCopy(q) == <<[q[1] EXCEPT !.cue = TRUE]>> \o q

\* The head becomes the answer to a press, keeping everything else it carries.
ClaimHead(q) ==
    IF q = <<>> THEN q ELSE [q EXCEPT ![1].cue = TRUE]

\* Leading non-decisions are discarded; all of them when there is no decision.
DecisionAt(q) ==
    IF HasDecision(q) THEN Min(Positions(q, LAMBDA it : it.decision))
    ELSE Len(q) + 1

JumpToDecision(q) == SubSeq(q, DecisionAt(q), Len(q))

\* Mutant: the items land in front, whatever was queued before them.
InsertFirst(q, anchor, items) == items \o q

\* The items follow the anchor, or lead the queue once the anchor has left it.
InsertAfter(q, anchor, items) ==
    IF anchor \notin Ids(q) THEN items \o q
    ELSE LET at == CHOOSE i \in DOMAIN q : q[i].id = anchor
         IN  SubSeq(q, 1, at) \o items \o SubSeq(q, at + 1, Len(q))

RemoveIds(q, ids) ==
    LET kept[i \in 0..Len(q)] ==
            IF i = 0 THEN <<>>
            ELSE IF q[i].id \in ids THEN kept[i - 1]
            ELSE Append(kept[i - 1], q[i])
    IN  kept[Len(q)]

\* Mutant: the discarded items are not reported.
JumpedNone(q) == {}

JumpedIds(q) == {q[i].id : i \in 1..(DecisionAt(q) - 1)}
=============================================================================
