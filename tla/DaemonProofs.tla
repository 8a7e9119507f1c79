---------------------------- MODULE DaemonProofs ----------------------------
(***************************************************************************)
(* What holds of the daemon for any sessions, settings and messages.        *)
(*                                                                          *)
(* The parts follow the dependencies of their invariants: FlagInv (the mute *)
(* flags), NumInv (entries and frontiers), QueueInv (items and their        *)
(* queues), RestTypes, Ledger (markers and items), Recorded and Bound       *)
(* (entries and markers).                                                   *)
(***************************************************************************)
EXTENDS Daemon, WellFoundedInduction, FiniteSetTheorems, TLAPS

-----------------------------------------------------------------------------
(* The mute flags.  NoArmedOnStopped is not inductive as it stands: muting   *)
(* the streams that exist says nothing of one created afterwards, so the    *)
(* invariant adds that a session without a stream has no flag set.          *)

FlagTypes ==
    /\ stopped \in [Session -> BOOLEAN]
    /\ armed \in [Session -> BOOLEAN]

Fresh == \A s \in Session : s \notin present => ~ armed[s] /\ ~ stopped[s]

FlagInv == FlagTypes /\ Fresh /\ NoArmedOnStopped /\ MasterQuiet

\* Only these of a step matter to FlagInv.
FlagFrame == UNCHANGED <<present, stopped, armed>>

Quieter == voiceState' = "stopped-all" => voiceState = "stopped-all"

LEMMA FrameKeeps ==
    ASSUME FlagInv, FlagFrame, Quieter
    PROVE  FlagInv'
  BY DEF FlagInv, FlagFrame, Quieter, FlagTypes, Fresh, NoArmedOnStopped, MasterQuiet

\* Creating streams -- muted ones under stopped-all -- and disarming some.
Opens(S) ==
    /\ Open(S)
    /\ stopped' = StoppedOnceOpen(S)

LEMMA OpeningKeeps ==
    ASSUME FlagInv, NEW S, Opens(S), Quieter,
           armed' \in [Session -> BOOLEAN],
           \A s \in Session : armed'[s] => armed[s]
    PROVE  FlagInv'
<1> USE DEF FlagInv, FlagTypes, Opens, Open, StoppedOnceOpen, BornStopped
<1>1. \A s \in Session : stopped'[s] <=> stopped[s] \/ (s \in S /\ BornStopped(s))
  OBVIOUS
<1>2. stopped' \in [Session -> BOOLEAN]
  OBVIOUS
<1>3. Fresh'
  BY <1>1 DEF Fresh
<1>4. NoArmedOnStopped'
  BY <1>1 DEF Fresh, NoArmedOnStopped
<1>5. MasterQuiet'
  BY <1>1 DEF MasterQuiet, Quieter
<1> QED
  BY <1>2, <1>3, <1>4, <1>5

LEMMA LoopKeeps ==
    ASSUME FlagInv, LoopStep
    PROVE  FlagInv'
<1>1. Quieter
  BY DEF LoopStep, PopHeldCue, NoHeldCue, CheckStopped, PopOwn, Adopt, NothingToSay, SpeakCompletes, SpeakCut,
         SpeakRaises, SignalFailure, Requeue, TailDone, NoteSpoken, Quieter, modeVars
<1>2. FlagFrame \/ SignalFailure \/ Requeue \/ TailDone
  BY DEF LoopStep, PopHeldCue, NoHeldCue, CheckStopped, PopOwn, Adopt, NothingToSay, SpeakCompletes, SpeakCut,
         SpeakRaises, NoteSpoken, FlagFrame, streamVars, flagVars
<1>3. CASE FlagFrame
  BY <1>1, <1>3, FrameKeeps
<1>4. CASE SignalFailure
  <2>1. CASE hand.session \in outstanding
    BY <1>4, <2>1, FrameKeeps DEF SignalFailure, WordOutstanding, FlagFrame, Quieter, streamVars, flagVars, ledgerVars, modeVars, rosterVars, loopVars
  <2>2. CASE hand.session \notin outstanding
    <3>1. Opens({hand.session}) /\ Quieter /\ armed' = armed
      BY <1>4, <2>2 DEF SignalFailure, WordOutstanding, Opens, Quieter, modeVars
    <3> QED
      BY <3>1, OpeningKeeps DEF FlagInv, FlagTypes
  <2> QED
    BY <2>1, <2>2
<1>5. CASE Requeue
  <2>1. Opens({hand.session}) /\ Quieter /\ armed' = armed
    BY <1>5 DEF Requeue, Opens, Quieter, streamVars, flagVars, ledgerVars, modeVars, rosterVars, loopVars
  <2> QED
    BY <2>1, OpeningKeeps DEF FlagInv, FlagTypes
<1>6. CASE TailDone
  <2>1. CASE done
    BY <1>6, <2>1, FrameKeeps DEF TailDone, FlagFrame, Quieter, streamVars, flagVars, ledgerVars, modeVars, rosterVars, loopVars
  <2>2. CASE ~ done
    <3>1. ~ StoppedNow(hand.session) /\ Open({hand.session}) /\ UNCHANGED <<stopped, armed>>
      BY <1>6, <2>2 DEF TailDone
    <3>2. \A s \in Session : s = hand.session => ~ BornStopped(s)
      BY <3>1, NoneAssumption DEF StoppedNow, StoppedOnceOpen
    <3>3. stopped = StoppedOnceOpen({hand.session})
      BY <3>2 DEF StoppedOnceOpen, FlagInv, FlagTypes
    <3>4. Opens({hand.session}) /\ Quieter
      BY <1>6, <3>1, <3>3 DEF TailDone, Opens, Quieter, modeVars
    <3> QED
      BY <3>1, <3>4, OpeningKeeps DEF FlagInv, FlagTypes
  <2> QED
    BY <2>1, <2>2
<1> QED
  BY <1>2, <1>3, <1>4, <1>5, <1>6

\* A press that answers in words.
LEMMA AnswerKeeps ==
    ASSUME FlagInv, NEW dest, NEW S, AnswerOn(dest, S)
    PROVE  FlagInv'
<1>1. Opens(S \union {dest}) /\ Quieter /\ armed' = armed
  BY DEF AnswerOn, Opens, Quieter
<1> QED
  BY <1>1, OpeningKeeps DEF FlagInv, FlagTypes

LEMMA PressKeeps ==
    ASSUME FlagInv, Press
    PROVE  FlagInv'
<1>1. CASE Stop
  BY <1>1, FrameKeeps DEF Stop, FlagFrame, Quieter, streamVars, flagVars, ledgerVars, modeVars, rosterVars, loopVars
<1>2. CASE Skip
  BY <1>2, FrameKeeps DEF Skip, FlagFrame, Quieter, streamVars, flagVars, ledgerVars, modeVars, rosterVars, loopVars
<1>3. CASE SkipPile
  <2>1. PICK S : Opens(S) /\ Quieter /\ armed' = armed
    BY <1>3 DEF SkipPile, Opens, Quieter
  <2> QED
    BY <2>1, OpeningKeeps DEF FlagInv, FlagTypes
<1>4. CASE NothingToSkip
  BY <1>4, AnswerKeeps DEF NothingToSkip
<1>5. CASE StartSession
  <2>1. present' = present \union {StartTarget} /\ armed' = armed /\ voiceState' = "flowing"
    BY <1>5 DEF StartSession, Open
  <2>2. stopped' = [stopped EXCEPT ![StartTarget] = FALSE]
    BY <1>5 DEF StartSession
  <2> QED
    BY <2>1, <2>2 DEF FlagInv, FlagTypes, Fresh, NoArmedOnStopped, MasterQuiet
<1>6. CASE StopSession
  <2>1. present' = present \union {spk} /\ voiceState' = "quiet-hold"
    BY <1>6 DEF StopSession, Open
  <2>2. /\ stopped' = [stopped EXCEPT ![spk] = TRUE]
        /\ armed' = [armed EXCEPT ![spk] = FALSE]
    BY <1>6 DEF StopSession
  <2> QED
    BY <2>1, <2>2 DEF FlagInv, FlagTypes, Fresh, NoArmedOnStopped, MasterQuiet
<1>7. CASE StopAll
  <2>1. /\ present \subseteq present'
        /\ stopped' = [s \in Session |-> s \in present']
    BY <1>7 DEF StopAll
  <2>2. armed' = [s \in Session |-> armed[s] /\ s \notin present]
    BY <1>7 DEF StopAll, DisarmPresent
  <2>3. \A s \in Session : ~ armed'[s]
    BY <2>2 DEF FlagInv, Fresh
  <2>4. \A s \in Session : stopped'[s] <=> s \in present'
    BY <2>1
  <2>5. FlagTypes'
    BY <2>1, <2>2 DEF FlagTypes
  <2> QED
    BY <2>3, <2>4, <2>5 DEF FlagInv, Fresh, NoArmedOnStopped, MasterQuiet
<1>8. CASE NoDecisionHere
  BY <1>8, AnswerKeeps DEF NoDecisionHere
<1>9. CASE DecisionClosed
  <2>1. PICK S : Opens(S) /\ Quieter /\ armed' = armed
    BY <1>9 DEF DecisionClosed, Opens, Quieter, modeVars
  <2> QED
    BY <2>1, OpeningKeeps DEF FlagInv, FlagTypes
<1>10. CASE JumpDecision
  BY <1>10, FrameKeeps DEF JumpDecision, FlagFrame, Quieter, streamVars, flagVars, ledgerVars, modeVars, rosterVars, loopVars
<1>11. CASE RepeatLast
  <2>1. PICK S : Opens(S) /\ Quieter /\ armed' = armed
    BY <1>11 DEF RepeatLast, Opens, Quieter
  <2> QED
    BY <2>1, OpeningKeeps DEF FlagInv, FlagTypes
<1>12. CASE NothingToRepeat
  BY <1>12, AnswerKeeps DEF NothingToRepeat
<1>13. CASE JumpWaiting
  BY <1>13, FrameKeeps DEF JumpWaiting, FlagFrame, Quieter, streamVars, flagVars, ledgerVars, modeVars, rosterVars, loopVars
<1>14. CASE NobodyWaiting
  BY <1>14, AnswerKeeps DEF NobodyWaiting
<1>15. CASE OsFocus
  BY <1>15, FrameKeeps DEF OsFocus, FlagFrame, Quieter, streamVars, flagVars, ledgerVars, modeVars, rosterVars, loopVars
<1> QED
  BY <1>1, <1>2, <1>3, <1>4, <1>5, <1>6, <1>7, <1>8, <1>9, <1>10, <1>11, <1>12, <1>13, <1>14, <1>15 DEF Press

LEMMA ReportKeeps ==
    ASSUME FlagInv, NEW s \in Session, Report(s)
    PROVE  FlagInv'
<1>1. CASE Prose(s)
  <2>1. Opens({s}) /\ Quieter /\ armed' = armed
    BY <1>1 DEF Prose, Announce, HostUntouched, Opens, Quieter, modeVars
  <2> QED
    BY <2>1, OpeningKeeps DEF FlagInv, FlagTypes
<1>2. CASE ProsePartial(s)
  <2>1. Opens({s}) /\ Quieter /\ armed' = armed
    BY <1>2 DEF ProsePartial, Announce, HostUntouched, Opens, Quieter, modeVars
  <2> QED
    BY <2>1, OpeningKeeps DEF FlagInv, FlagTypes
<1>3. CASE Tool(s)
  <2>1. Opens({s}) /\ Quieter /\ armed' = armed
    BY <1>3 DEF Tool, Announce, HostUntouched, Opens, Quieter, modeVars
  <2> QED
    BY <2>1, OpeningKeeps DEF FlagInv, FlagTypes
<1>4. CASE Decision(s)
  <2>1. Opens({s}) /\ Quieter /\ armed' = armed
    BY <1>4 DEF Decision, Announce, HostUntouched, Opens, Quieter, modeVars
  <2> QED
    BY <2>1, OpeningKeeps DEF FlagInv, FlagTypes
<1>5. CASE TurnDone(s)
  <2>1. Opens({s}) /\ Quieter /\ armed' = armed
    BY <1>5 DEF TurnDone, Announce, HostUntouched, Opens, Quieter, modeVars
  <2> QED
    BY <2>1, OpeningKeeps DEF FlagInv, FlagTypes
<1>6. CASE Flush(s)
  <2>1. Opens({s}) /\ Quieter
    BY <1>6 DEF Flush, HostUntouched, Opens, Quieter, modeVars
  <2>2. armed' \in {armed, [armed EXCEPT ![s] = FALSE]}
    BY <1>6 DEF Flush
  <2> QED
    BY <2>1, <2>2, OpeningKeeps DEF FlagInv, FlagTypes
<1>7. CASE SetForeground(s)
  <2>1. CASE LiftsHold(s)
    <3>1. /\ present' = present \union {s} /\ voiceState' = "flowing" /\ ~ stopped[s]
          /\ UNCHANGED stopped /\ armed' = [armed EXCEPT ![s] = TRUE]
      BY <1>7, <2>1 DEF SetForeground, PolicyA, LiftsHold, Open
    <3> QED
      BY <3>1 DEF FlagInv, FlagTypes, Fresh, NoArmedOnStopped, MasterQuiet
  <2>2. CASE ~ LiftsHold(s)
    BY <1>7, <2>2, FrameKeeps DEF SetForeground, PolicyA, FlagFrame, Quieter
  <2> QED
    BY <2>1, <2>2
<1>8. CASE SessionStart(s)
  <2>1. Opens({s}) /\ Quieter /\ armed' = [armed EXCEPT ![s] = FALSE]
    BY <1>8 DEF SessionStart, PolicyA, Opens, Quieter
  <2> QED
    BY <2>1, OpeningKeeps DEF FlagInv, FlagTypes
<1>9. CASE SessionEnd(s)
  <2>1. /\ present' = present \ {s} /\ Quieter
        /\ stopped' = [stopped EXCEPT ![s] = FALSE]
        /\ armed' = [armed EXCEPT ![s] = FALSE]
    BY <1>9 DEF SessionEnd, Quieter
  <2> QED
    BY <2>1 DEF FlagInv, FlagTypes, Fresh, NoArmedOnStopped, MasterQuiet, Quieter
<1>10. CASE TerminalCloses(s)
  BY <1>10, FrameKeeps DEF TerminalCloses, FlagFrame, Quieter, streamVars, flagVars, ledgerVars, modeVars, rosterVars, loopVars
<1> QED
  BY <1>1, <1>2, <1>3, <1>4, <1>5, <1>6, <1>7, <1>8, <1>9, <1>10 DEF Report

LEMMA NextFlagInv == FlagInv /\ [Next]_vars => FlagInv'
<1> SUFFICES ASSUME FlagInv, [Next]_vars PROVE FlagInv'
  OBVIOUS
<1>1. CASE AudioFault
  BY <1>1, FrameKeeps DEF AudioFault, FlagFrame, Quieter, streamVars, flagVars, ledgerVars, modeVars, rosterVars, loopVars
<1>2. CASE UNCHANGED vars
  BY <1>2, FrameKeeps DEF vars, FlagFrame, Quieter, streamVars, flagVars, ledgerVars, modeVars, rosterVars, loopVars
<1> QED
  BY <1>1, <1>2, LoopKeeps, PressKeeps, ReportKeeps DEF Next

LEMMA FlagInvariance == Spec => []FlagInv
<1>1. Init => FlagInv
  BY DEF Init, InitState, FlagInv, FlagTypes, Fresh, NoArmedOnStopped, MasterQuiet
<1> QED
  BY <1>1, NextFlagInv, PTL DEF Spec

\* R21: whoever stops a stream -- one press, the master quiet, or being born
\* under it -- no stopped stream holds an armed "Resumed.".
THEOREM NoArmedOnStoppedHolds == Spec => []NoArmedOnStopped
<1>1. FlagInv => NoArmedOnStopped
  BY DEF FlagInv
<1> QED
  BY <1>1, FlagInvariance, PTL

\* The master quiet mutes every stream there is and every one created while it
\* lasts.
THEOREM MasterQuietHolds == Spec => []MasterQuiet
<1>1. FlagInv => MasterQuiet
  BY DEF FlagInv
<1> QED
  BY <1>1, FlagInvariance, PTL

\* Whoever mutes, mutes whole.
THEOREM MuteIsWholeHolds == Spec => []MuteIsWhole
<1>1. NoArmedOnStopped /\ MasterQuiet => MuteIsWhole
  BY DEF MuteIsWhole
<1> QED
  BY <1>1, NoArmedOnStoppedHolds, MasterQuietHolds, PTL

-----------------------------------------------------------------------------
(* The frontier.  Its type and the markers' are what its monotonicity needs: *)
(* note_spoken() compares an entry a marker was bound to with the frontier. *)

NumInv ==
    /\ frontier \in [Session -> Nat]
    /\ newest \in [Session -> Nat]
    /\ buffer \in [Session -> Seq(Nat)]
    /\ markers \subseteq MarkerSet
    /\ nextId \in Nat

NoRetreat ==
    \A s \in Session : s \in present \intersect present' => frontier[s] <= frontier'[s]

\* What a step that neither records nor completes an entry may do.
Numbers == <<frontier, newest, buffer>>

LEMMA NumFrameKeeps ==
    ASSUME NumInv, UNCHANGED Numbers, markers' \subseteq markers, nextId' \in Nat
    PROVE  NumInv' /\ NoRetreat
  BY DEF NumInv, NoRetreat, Numbers

\* Updating a function at a point that may lie outside its domain.
LEMMA PointwiseType ==
    ASSUME NEW D, NEW R, NEW f \in [D -> R], NEW x, NEW v, x \in D => v \in R
    PROVE  [f EXCEPT ![x] = v] \in [D -> R]
  OBVIOUS

\* _enqueue() of a forward readout binds its items to entries of the readout.
LEMMA ReadoutTypes ==
    ASSUME NumInv, NEW s \in Session, NEW entries \in Seq(Nat), NEW kinds,
           EnqueueReadout(s, entries, kinds)
    PROVE  markers' \subseteq MarkerSet /\ nextId' \in Nat
<1>1. \A i \in DOMAIN entries : Marker(nextId + i, s, entries[i]) \in MarkerSet
  BY DEF NumInv, Marker, MarkerSet
<1>2. markers' \subseteq markers \union {Marker(nextId + i, s, entries[i]) : i \in DOMAIN entries}
  BY DEF EnqueueReadout
<1>3. nextId' = nextId + Len(entries)
  BY DEF EnqueueReadout
<1> QED
  BY <1>1, <1>2, <1>3 DEF NumInv

\* What a turn of the loop may do to the entries: only a completed utterance
\* moves a frontier.
LEMMA LoopEntries ==
    LoopStep => /\ UNCHANGED <<newest, buffer>> /\ markers' \subseteq markers
                /\ nextId' \in {nextId, nextId + 1}
                /\ UNCHANGED frontier \/ NoteSpoken
<1> USE DEF LoopStep, PopHeldCue, NoHeldCue, CheckStopped, PopOwn, Adopt, NothingToSay, SpeakCompletes,
       SpeakCut, SpeakRaises, SignalFailure, Requeue, TailDone, NoteSpoken, streamVars, ledgerVars
<1>1. LoopStep => UNCHANGED <<newest, buffer>> /\ (UNCHANGED frontier \/ NoteSpoken)
  OBVIOUS
<1>2. LoopStep => markers' \subseteq markers
  BY DEF EnqueueWord, Without
<1>3. LoopStep => nextId' \in {nextId, nextId + 1}
  BY DEF EnqueueWord, Cue, Item
<1> QED
  BY <1>1, <1>2, <1>3

\* What a press may: SKIP_PILE moves a frontier, a stream that is started again
\* loses its buffer, a repeat copies a marker.
LEMMA PressEntries ==
    Press => /\ nextId' \in {nextId, nextId + 1, nextId + 2}
             /\ \/ UNCHANGED Numbers /\ markers' \subseteq markers
                \/ SkipPile \/ StartSession \/ RepeatLast
<1> USE DEF Press, Stop, Skip, NothingToSkip, StopSession, StopAll, NoDecisionHere, DecisionClosed,
       JumpDecision, NothingToRepeat, JumpWaiting, NobodyWaiting, OsFocus, AnswerOn, streamVars, ledgerVars
<1>1. Press => \/ UNCHANGED Numbers /\ markers' \subseteq markers
               \/ SkipPile \/ StartSession \/ RepeatLast
  BY DEF EnqueueWord, Without, Numbers
<1>2. Press => nextId' \in {nextId, nextId + 1, nextId + 2}
  BY DEF SkipPile, StartSession, RepeatLast, EnqueueWord, EnqueueFirst, NewCue, Cue, Item
<1> QED
  BY <1>1, <1>2

\* The reports that neither record an entry nor drop one.
LEMMA ReportEntries ==
    ASSUME NEW s \in Session, ProsePartial(s) \/ SetForeground(s) \/ SessionStart(s) \/ TerminalCloses(s)
    PROVE  /\ UNCHANGED Numbers /\ markers' \subseteq markers
           /\ nextId \in Nat => nextId' \in Nat
<1>1. UNCHANGED Numbers /\ markers' \subseteq markers
  BY DEF ProsePartial, SetForeground, SessionStart, TerminalCloses, Without, Numbers, streamVars, ledgerVars
<1>2. nextId' = nextId \/ SessionStart(s)
  BY DEF ProsePartial, SetForeground, TerminalCloses, ledgerVars
<1>3. SessionStart(s) => \E i, j \in {0, 1} : nextId' = nextId + i + j
  BY DEF SessionStart
<1> QED
  BY <1>1, <1>2, <1>3

LEMMA LoopNumbers ==
    ASSUME NumInv, LoopStep
    PROVE  NumInv' /\ NoRetreat
<1>1. /\ UNCHANGED <<newest, buffer>> /\ markers' \subseteq markers
      /\ nextId' \in Nat
      /\ UNCHANGED frontier \/ NoteSpoken
  BY LoopEntries DEF NumInv
<1>2. CASE UNCHANGED frontier
  BY <1>1, <1>2, NumFrameKeeps DEF Numbers
<1>3. CASE NoteSpoken
  <2>1. markers' \subseteq markers /\ UNCHANGED <<newest, buffer, nextId>>
    BY <1>3 DEF NoteSpoken, Without
  <2>2. CASE UNCHANGED frontier
    BY <2>1, <2>2, NumFrameKeeps DEF Numbers, NumInv
  <2>3. CASE frontier' # frontier
    <3>1. Noted # {} /\ frontier' = Advance(hand.session, (CHOOSE m \in Noted : TRUE).entry)
      BY <1>3, <2>3 DEF NoteSpoken
    <3>2. (CHOOSE m \in Noted : TRUE).entry \in Nat
      BY <3>1 DEF Noted, NumInv, MarkerSet
    <3>3. PICK entry \in Nat : frontier' = Advance(hand.session, entry)
      BY <3>1, <3>2
    <3>4. \A s \in Session : frontier'[s] = IF s = hand.session /\ entry > frontier[s]
                                            THEN entry ELSE frontier[s]
      BY <3>3 DEF Advance, NumInv
    <3>5. frontier' \in [Session -> Nat]
      BY <3>3, PointwiseType DEF Advance, NumInv
    <3>6. ASSUME NEW s \in Session PROVE frontier[s] <= frontier'[s]
      <4>1. frontier[s] \in Nat /\ entry \in Nat
        BY DEF NumInv
      <4> QED
        BY <3>4, <4>1
    <3> QED
      BY <2>1, <3>5, <3>6 DEF NumInv, NoRetreat
  <2> QED
    BY <2>2, <2>3
<1> QED
  BY <1>1, <1>2, <1>3

LEMMA PressNumbers ==
    ASSUME NumInv, Press
    PROVE  NumInv' /\ NoRetreat
<1>1. CASE UNCHANGED Numbers /\ markers' \subseteq markers
  <2>1. nextId' \in Nat
    BY PressEntries DEF NumInv
  <2> QED
    BY <1>1, <2>1, NumFrameKeeps
<1>2. CASE SkipPile
  <2>1. /\ frontier' = [frontier EXCEPT ![PileTarget] = newest[PileTarget]]
        /\ markers' \subseteq markers /\ UNCHANGED <<newest, buffer>> /\ nextId' = nextId + 1
    BY <1>2 DEF SkipPile, Without, EnqueueFirst, NewCue, Cue, Item
  <2>2. Piled(PileTarget)
    BY <1>2 DEF SkipPile, PileTarget
  <2>3. \A s \in Session : frontier'[s] = IF s = PileTarget THEN newest[s] ELSE frontier[s]
    BY <2>1 DEF NumInv
  <2>4. ASSUME NEW s \in Session PROVE frontier[s] <= frontier'[s]
    <3>1. frontier[s] \in Nat /\ newest[s] \in Nat
      BY DEF NumInv
    <3> QED
      BY <2>2, <2>3, <3>1 DEF Piled
  <2>5. frontier' \in [Session -> Nat]
    BY <2>1, PointwiseType DEF NumInv
  <2> QED
    BY <2>1, <2>4, <2>5 DEF NumInv, NoRetreat
<1>3. CASE StartSession
  <2>1. /\ markers' \subseteq markers /\ nextId' \in {nextId + 1, nextId + 2}
        /\ UNCHANGED <<frontier, newest>>
    BY <1>3 DEF StartSession, Without, EnqueueFirst, NewCue, Cue, Item
  <2>2. buffer' = [buffer EXCEPT ![StartTarget] = <<>>]
    BY <1>3 DEF StartSession
  <2>3. buffer' \in [Session -> Seq(Nat)]
    BY <2>2, PointwiseType DEF NumInv
  <2> QED
    BY <2>1, <2>3 DEF NumInv, NoRetreat
<1>4. CASE RepeatLast
  <2>1. /\ UNCHANGED Numbers /\ nextId' \in {nextId + 1, nextId + 2}
        /\ markers' \subseteq markers \union {[m EXCEPT !.id = nextId + 1] : m \in markers}
    BY <1>4 DEF RepeatLast, EnqueueFirst, Cue, Item, Numbers
  <2>2. ASSUME NEW m \in markers PROVE [m EXCEPT !.id = nextId + 1] \in MarkerSet
    <3>1. m \in [id : Nat, session : Session, entry : Nat] /\ nextId + 1 \in Nat
      BY DEF NumInv, MarkerSet
    <3> QED
      BY <3>1 DEF MarkerSet
  <2> QED
    BY <2>1, <2>2 DEF NumInv, NoRetreat, Numbers
<1> QED
  BY <1>1, <1>2, <1>3, <1>4, PressEntries

LEMMA AnnounceNumbers ==
    ASSUME NumInv, NEW s \in Session, NEW kind, Announce(s, kind)
    PROVE  NumInv' /\ NoRetreat
<1>1. Append(buffer[s], newest[s] + 1) \in Seq(Nat)
  BY DEF NumInv
<1>2. markers' \subseteq MarkerSet /\ nextId' \in Nat
  BY <1>1, ReadoutTypes DEF Announce
<1>3. /\ newest' = [newest EXCEPT ![s] = @ + 1] /\ UNCHANGED frontier
      /\ buffer' = [buffer EXCEPT ![s] = <<>>]
  BY DEF Announce
<1> QED
  BY <1>2, <1>3 DEF NumInv, NoRetreat

LEMMA ReportNumbers ==
    ASSUME NumInv, NEW s \in Session, Report(s)
    PROVE  NumInv' /\ NoRetreat
<1>1. CASE Prose(s)
  <2> DEFINE held == Append(buffer[s], newest[s] + 1)
  <2>1. held \in Seq(Nat)
    BY DEF NumInv
  <2>2. /\ newest' = [newest EXCEPT ![s] = @ + 1] /\ UNCHANGED frontier
        /\ buffer' = [buffer EXCEPT ![s] = IF Len(held) >= MinQueue THEN <<>> ELSE held]
    BY <1>1 DEF Prose
  <2>3. markers' \subseteq MarkerSet /\ nextId' \in Nat
    <3>1. CASE Len(held) >= MinQueue
      BY <1>1, <2>1, <3>1, ReadoutTypes DEF Prose
    <3>2. CASE ~ (Len(held) >= MinQueue)
      BY <1>1, <3>2 DEF Prose, NumInv
    <3> QED
      BY <3>1, <3>2
  <2>4. buffer' \in [Session -> Seq(Nat)]
    BY <2>1, <2>2 DEF NumInv
  <2> QED
    BY <2>2, <2>3, <2>4 DEF NumInv, NoRetreat
<1>2. CASE ProsePartial(s) \/ SetForeground(s) \/ SessionStart(s) \/ TerminalCloses(s)
  BY <1>2, ReportEntries, NumFrameKeeps DEF NumInv
<1>3. CASE Tool(s)
  BY <1>3, AnnounceNumbers DEF Tool
<1>4. CASE Decision(s)
  BY <1>4, AnnounceNumbers DEF Decision
<1>5. CASE TurnDone(s)
  <2>1. markers' \subseteq MarkerSet /\ nextId' \in Nat
    BY <1>5, ReadoutTypes DEF TurnDone, NumInv
  <2>2. UNCHANGED <<newest, frontier>> /\ buffer' = [buffer EXCEPT ![s] = <<>>]
    BY <1>5 DEF TurnDone
  <2> QED
    BY <2>1, <2>2 DEF NumInv, NoRetreat
<1>6. CASE Flush(s)
  <2>1. markers' \subseteq markers /\ nextId' \in {nextId, nextId + 1}
    BY <1>6 DEF Flush, Without
  <2>2. UNCHANGED <<newest, frontier>> /\ buffer' = [buffer EXCEPT ![s] = <<>>]
    BY <1>6 DEF Flush
  <2> QED
    BY <2>1, <2>2 DEF NumInv, NoRetreat
<1>7. CASE SessionEnd(s)
  <2>1. /\ markers' \subseteq markers /\ nextId' = nextId
        /\ present' = present \ {s}
        /\ newest' = [newest EXCEPT ![s] = 0]
        /\ frontier' = [frontier EXCEPT ![s] = 0]
        /\ buffer' = [buffer EXCEPT ![s] = <<>>]
    BY <1>7 DEF SessionEnd, Without
  <2> QED
    BY <2>1 DEF NumInv, NoRetreat
<1> QED
  BY <1>1, <1>2, <1>3, <1>4, <1>5, <1>6, <1>7 DEF Report

LEMMA NextNumbers == NumInv /\ [Next]_vars => NumInv' /\ NoRetreat
<1> SUFFICES ASSUME NumInv, [Next]_vars PROVE NumInv' /\ NoRetreat
  OBVIOUS
<1>1. CASE AudioFault \/ UNCHANGED vars
  BY <1>1, NumFrameKeeps DEF AudioFault, NumInv, Numbers, vars, streamVars, flagVars, ledgerVars, modeVars, rosterVars, loopVars
<1> QED
  BY <1>1, LoopNumbers, PressNumbers, ReportNumbers DEF Next

\* Nothing a user presses, a session reports or the loop completes ever moves
\* a living stream's frontier back.
THEOREM FrontierHolds == Spec => FrontierNeverRetreats
<1>1. Init => NumInv
  BY DEF Init, InitState, NumInv
<1>2. NumInv /\ [Next]_vars => NumInv'
  BY NextNumbers
<1>3. NumInv /\ [Next]_vars => [NoRetreat]_vars
  BY NextNumbers
<1> QED
  BY <1>1, <1>2, <1>3, PTL DEF Spec, FrontierNeverRetreats, NoRetreat

-----------------------------------------------------------------------------
(* The queue's operators *)

Less == {ss \in Nat \X Nat : ss[1] < ss[2]}

\* A set of naturals has a least element.
LEMMA Least ==
    ASSUME NEW T, T \subseteq Nat, T # {}
    PROVE  \E x \in T : \A y \in T : x <= y
<1>1. IsWellFoundedOn(Less, Nat)
  <2>1. Less = OpToRel(<, Nat)
    BY DEF Less, OpToRel
  <2> QED BY NatLessThanWellFounded, <2>1
<1>2. PICK x \in T : \A y \in T : ~ (<<y, x>> \in Less)
  BY <1>1, WFMin
<1>3. ASSUME NEW y \in T PROVE x <= y
  <2>1. x \in Nat /\ y \in Nat
    OBVIOUS
  <2>2. ~ (y < x)
    BY <1>2, <2>1 DEF Less
  <2> QED BY <2>1, <2>2
<1> QED BY <1>3

LEMMA MinIsLeast ==
    ASSUME NEW T, T \subseteq Nat, T # {}
    PROVE  Min(T) \in T /\ \A y \in T : Min(T) <= y
  BY Least DEF Min

\* The ids of a queue's items are distinct.
Distinct(q) == \A i, j \in DOMAIN q : q[i].id = q[j].id => i = j

LEMMA RemoveAtElements ==
    ASSUME NEW T, NEW q \in Seq(T), NEW k \in 1..Len(q)
    PROVE  LET r == RemoveAt(q, k)
           IN  /\ r \in Seq(T) /\ Len(r) = Len(q) - 1
               /\ \A i \in 1..Len(r) : r[i] = IF i < k THEN q[i] ELSE q[i + 1]
<1> DEFINE r == RemoveAt(q, k)
           f == SubSeq(q, 1, k - 1)
           g == SubSeq(q, k + 1, Len(q))
<1>1. /\ f \in Seq(T) /\ Len(f) = k - 1
      /\ \A i \in 1..(k - 1) : f[i] = q[i]
  OBVIOUS
<1>2. /\ g \in Seq(T) /\ Len(g) = Len(q) - k
      /\ \A i \in 1..(Len(q) - k) : g[i] = q[i + k]
  OBVIOUS
<1>3. r = f \o g
  BY DEF RemoveAt
<1> HIDE DEF f, g, r
<1>4. /\ r \in Seq(T) /\ Len(r) = Len(f) + Len(g)
      /\ \A i \in 1..Len(r) : r[i] = IF i <= Len(f) THEN f[i] ELSE g[i - Len(f)]
  <2>1. f \in Seq(T) /\ g \in Seq(T)
    BY <1>1, <1>2
  <2> QED BY <1>3, <2>1
<1>5. Len(r) = Len(q) - 1
  BY <1>1, <1>2, <1>4
<1>6. ASSUME NEW i \in 1..Len(r) PROVE r[i] = IF i < k THEN q[i] ELSE q[i + 1]
  <2>1. CASE i < k
    BY <1>1, <1>4, <2>1
  <2>2. CASE ~ (i < k)
    <3>1. i - (k - 1) \in 1..(Len(q) - k) /\ (i - (k - 1)) + k = i + 1 /\ ~ (i <= k - 1)
      BY <1>5, <2>2
    <3> QED BY <1>1, <1>2, <1>4, <3>1, <2>2
  <2> QED BY <2>1, <2>2
<1> QED BY <1>4, <1>5, <1>6 DEF r

\* An item leaves the queue.
LEMMA RemoveAtIds ==
    ASSUME NEW T, NEW q \in Seq(T), NEW k \in 1..Len(q)
    PROVE  LET r == RemoveAt(q, k)
           IN  /\ r \in Seq(T)
               /\ Ids(r) \subseteq Ids(q) /\ Ids(q) \subseteq Ids(r) \union {q[k].id}
               /\ Distinct(q) => Distinct(r) /\ q[k].id \notin Ids(r)
<1> DEFINE r == RemoveAt(q, k)
<1>1. /\ r \in Seq(T) /\ Len(r) = Len(q) - 1
      /\ \A i \in 1..Len(r) : r[i] = IF i < k THEN q[i] ELSE q[i + 1]
  BY RemoveAtElements
<1> HIDE DEF r
<1>2. ASSUME NEW i \in DOMAIN r
      PROVE  \E j \in DOMAIN q : j # k /\ j = (IF i < k THEN i ELSE i + 1) /\ r[i] = q[j]
  BY <1>1
<1>3. ASSUME NEW j \in DOMAIN q, j # k
      PROVE  \E i \in DOMAIN r : i = (IF j < k THEN j ELSE j - 1) /\ r[i] = q[j]
  <2>1. PICK i \in DOMAIN r : i = IF j < k THEN j ELSE j - 1
    BY <1>1, <1>3
  <2> QED BY <1>1, <1>3, <2>1
<1>4. Ids(r) \subseteq Ids(q)
  BY <1>2 DEF Ids
<1>5. Ids(q) \subseteq Ids(r) \union {q[k].id}
  BY <1>3 DEF Ids
<1>6. ASSUME Distinct(q) PROVE Distinct(r) /\ q[k].id \notin Ids(r)
  <2>1. q[k].id \notin Ids(r)
    BY <1>2, <1>6 DEF Ids, Distinct
  <2>2. ASSUME NEW i \in DOMAIN r, NEW j \in DOMAIN r, r[i].id = r[j].id PROVE i = j
    <3>1. PICK ii \in DOMAIN q : ii = (IF i < k THEN i ELSE i + 1) /\ r[i] = q[ii]
      BY <1>2
    <3>2. PICK jj \in DOMAIN q : jj = (IF j < k THEN j ELSE j + 1) /\ r[j] = q[jj]
      BY <1>2
    <3>3. ii = jj
      BY <1>6, <2>2, <3>1, <3>2 DEF Distinct
    <3> QED BY <1>1, <3>1, <3>2, <3>3
  <2> QED BY <2>1, <2>2 DEF Distinct
<1> QED BY <1>1, <1>4, <1>5, <1>6 DEF r

\* An item joins at the back.
LEMMA AppendIds ==
    ASSUME NEW T, NEW q \in Seq(T), NEW item \in T
    PROVE  LET r == Append(q, item)
           IN  /\ r \in Seq(T)
               /\ Ids(r) = Ids(q) \union {item.id}
               /\ Distinct(q) /\ item.id \notin Ids(q) => Distinct(r)
<1> DEFINE r == Append(q, item)
<1>1. /\ r \in Seq(T) /\ Len(r) = Len(q) + 1
      /\ \A i \in 1..Len(q) : r[i] = q[i]
      /\ r[Len(q) + 1] = item
  OBVIOUS
<1> HIDE DEF r
<1>2. DOMAIN r = DOMAIN q \union {Len(q) + 1} /\ DOMAIN q = 1..Len(q)
  BY <1>1
<1>3. Ids(r) = Ids(q) \union {item.id}
  BY <1>1, <1>2 DEF Ids
<1>4. ASSUME Distinct(q), item.id \notin Ids(q) PROVE Distinct(r)
  BY <1>1, <1>2, <1>4 DEF Ids, Distinct
<1> QED BY <1>1, <1>3, <1>4 DEF r

\* An item joins at the front.
LEMMA EnqueueFrontIds ==
    ASSUME NEW T, NEW q \in Seq(T), NEW item \in T
    PROVE  LET r == EnqueueFront(q, item)
           IN  /\ r \in Seq(T)
               /\ Ids(r) = Ids(q) \union {item.id}
               /\ Distinct(q) /\ item.id \notin Ids(q) => Distinct(r)
<1> DEFINE r == EnqueueFront(q, item)
<1>1. /\ r \in Seq(T) /\ Len(r) = Len(q) + 1 /\ r[1] = item
      /\ \A i \in 1..Len(q) : r[i + 1] = q[i]
  BY DEF EnqueueFront
<1> HIDE DEF r
<1>2. ASSUME NEW i \in DOMAIN r
      PROVE  i = 1 \/ \E j \in DOMAIN q : i = j + 1 /\ r[i] = q[j]
  <2>1. i = 1 \/ (i - 1 \in 1..Len(q) /\ i = (i - 1) + 1)
    BY <1>1
  <2> QED BY <1>1, <2>1
<1>3. 1 \in DOMAIN r /\ \A j \in DOMAIN q : j + 1 \in DOMAIN r
  BY <1>1
<1>4. Ids(r) \subseteq Ids(q) \union {item.id}
  BY <1>1, <1>2 DEF Ids
<1>5. Ids(q) \union {item.id} \subseteq Ids(r)
  BY <1>1, <1>3 DEF Ids
<1>6. ASSUME Distinct(q), item.id \notin Ids(q) PROVE Distinct(r)
  <2> SUFFICES ASSUME NEW i \in DOMAIN r, NEW j \in DOMAIN r, r[i].id = r[j].id PROVE i = j
    BY DEF Distinct
  <2>1. CASE i = 1 \/ j = 1
    <3>1. ASSUME NEW n \in DOMAIN r, n # 1 PROVE r[n].id # item.id
      BY <1>2, <1>6, <3>1 DEF Ids
    <3> QED BY <1>1, <2>1, <3>1
  <2>2. CASE i # 1 /\ j # 1
    <3>1. PICK ii \in DOMAIN q : i = ii + 1 /\ r[i] = q[ii]
      BY <1>2, <2>2
    <3>2. PICK jj \in DOMAIN q : j = jj + 1 /\ r[j] = q[jj]
      BY <1>2, <2>2
    <3> QED BY <1>6, <3>1, <3>2 DEF Distinct
  <2> QED BY <2>1, <2>2
<1> QED BY <1>1, <1>4, <1>5, <1>6 DEF r

\* The place enqueue() evicts.
LEMMA EvictedPlace ==
    ASSUME NEW T, NEW q \in Seq(T), NEW cap
    PROVE  EvictedAt(q, cap) \in 0..Len(q)
<1> DEFINE places == {i \in DOMAIN q : ~ q[i].decision}
<1>1. EvictedAt(q, cap) = IF Len(q) < cap \/ places = {} THEN 0 ELSE Min(places)
  BY DEF EvictedAt, Positions
<1>2. places \subseteq Nat /\ places \subseteq 1..Len(q)
  OBVIOUS
<1>3. Len(q) \in Nat
  OBVIOUS
<1> HIDE DEF places
<1>4. CASE places = {}
  BY <1>1, <1>3, <1>4
<1>5. CASE places # {}
  <2>1. Min(places) \in 1..Len(q)
    BY <1>2, <1>5, MinIsLeast
  <2> QED BY <1>1, <1>3, <1>5, <2>1
<1> QED BY <1>4, <1>5

\* enqueue(): the item joins at the back, and at most one leaves, which is
\* named.
LEMMA EnqueueIds ==
    ASSUME NEW T, NEW q \in Seq(T), NEW item \in T, NEW cap
    PROVE  LET r == Enqueue(q, item, cap)
           IN  /\ r \in Seq(T)
               /\ Ids(r) \subseteq Ids(q) \union {item.id} /\ item.id \in Ids(r)
               /\ Ids(q) \ EvictedIds(q, cap) \subseteq Ids(r)
               /\ Distinct(q) /\ item.id \notin Ids(q) => Distinct(r)
<1> DEFINE k == EvictedAt(q, cap)
<1>1. k \in 0..Len(q)
  BY EvictedPlace
<1>2. EvictedIds(q, cap) = IF k = 0 THEN {} ELSE {q[k].id}
  BY DEF EvictedIds
<1>3. Enqueue(q, item, cap) = IF k = 0 THEN Append(q, item) ELSE Append(RemoveAt(q, k), item)
  BY DEF Enqueue
<1> HIDE DEF k
<1>4. CASE k = 0
  BY <1>2, <1>3, <1>4, AppendIds
<1>5. CASE k # 0
  <2> DEFINE p == RemoveAt(q, k)
  <2>1. k \in 1..Len(q)
    BY <1>1, <1>5
  <2>2. /\ p \in Seq(T)
        /\ Ids(p) \subseteq Ids(q) /\ Ids(q) \subseteq Ids(p) \union {q[k].id}
        /\ Distinct(q) => Distinct(p)
    BY <2>1, RemoveAtIds
  <2> HIDE DEF p
  <2>3. LET r == Append(p, item)
        IN  /\ r \in Seq(T)
            /\ Ids(r) = Ids(p) \union {item.id}
            /\ Distinct(p) /\ item.id \notin Ids(p) => Distinct(r)
    BY <2>2, AppendIds
  <2> QED BY <1>2, <1>3, <1>5, <2>2, <2>3 DEF p
<1> QED BY <1>4, <1>5

\* pop_control_cue(): the frontmost cue.
LEMMA CuePlace ==
    ASSUME NEW T, NEW q \in Seq(T), HasCue(q)
    PROVE  CueAt(q) \in 1..Len(q) /\ q[CueAt(q)].cue
<1> DEFINE places == {i \in DOMAIN q : q[i].cue}
<1>1. CueAt(q) = Min(places)
  BY DEF CueAt, Positions
<1>2. places \subseteq Nat /\ places # {}
  BY DEF HasCue
<1>3. Min(places) \in places
  <2> HIDE DEF places
  <2> QED BY <1>2, MinIsLeast
<1> QED BY <1>1, <1>3

\* The next item.
LEMMA TailIds ==
    ASSUME NEW T, NEW q \in Seq(T), q # <<>>
    PROVE  /\ Head(q) \in T /\ Head(q) = q[1] /\ Tail(q) \in Seq(T)
           /\ Ids(Tail(q)) \subseteq Ids(q) /\ Ids(q) \subseteq Ids(Tail(q)) \union {Head(q).id}
           /\ Head(q).id \in Ids(q)
           /\ Distinct(q) => Distinct(Tail(q)) /\ Head(q).id \notin Ids(Tail(q))
<1> DEFINE r == Tail(q)
<1>1. /\ r \in Seq(T) /\ Len(r) = Len(q) - 1 /\ Head(q) = q[1] /\ q[1] \in T /\ Len(q) >= 1
      /\ \A i \in 1..Len(r) : r[i] = q[i + 1]
  OBVIOUS
<1> HIDE DEF r
<1>2. ASSUME NEW j \in DOMAIN q
      PROVE  j = 1 \/ \E i \in DOMAIN r : j = i + 1 /\ r[i] = q[j]
  <2>1. j = 1 \/ (j - 1 \in 1..Len(r) /\ j = (j - 1) + 1)
    BY <1>1
  <2> QED BY <1>1, <2>1
<1>3. 1 \in DOMAIN q /\ \A i \in DOMAIN r : i + 1 \in DOMAIN q /\ i + 1 # 1 /\ r[i] = q[i + 1]
  BY <1>1
<1>4. Ids(r) \subseteq Ids(q)
  BY <1>3 DEF Ids
<1>5. Ids(q) \subseteq Ids(r) \union {q[1].id} /\ q[1].id \in Ids(q)
  BY <1>2, <1>3 DEF Ids
<1>6. ASSUME Distinct(q) PROVE Distinct(r) /\ q[1].id \notin Ids(r)
  <2>1. q[1].id \notin Ids(r)
    BY <1>3, <1>6 DEF Ids, Distinct
  <2>2. ASSUME NEW i \in DOMAIN r, NEW j \in DOMAIN r, r[i].id = r[j].id PROVE i = j
    <3>1. i + 1 = j + 1
      BY <1>3, <1>6, <2>2 DEF Distinct
    <3> QED BY <1>1, <3>1
  <2> QED BY <2>1, <2>2 DEF Distinct
<1> QED BY <1>1, <1>4, <1>5, <1>6 DEF r

\* jump_to_decision(): what leads up to the decision leaves, and is named.
LEMMA JumpIds ==
    ASSUME NEW T, NEW q \in Seq(T)
    PROVE  LET r == JumpToDecision(q)
           IN  /\ r \in Seq(T)
               /\ Ids(r) \subseteq Ids(q) /\ Ids(q) \subseteq Ids(r) \union JumpedIds(q)
               /\ Distinct(q) => Distinct(r)
<1> DEFINE k == DecisionAt(q)
           r == JumpToDecision(q)
<1>1. k \in 1..(Len(q) + 1)
  <2> DEFINE places == {i \in DOMAIN q : q[i].decision}
  <2>1. k = IF HasDecision(q) THEN Min(places) ELSE Len(q) + 1
    BY DEF DecisionAt, Positions
  <2>2. places \subseteq Nat /\ places \subseteq 1..Len(q) /\ (HasDecision(q) => places # {})
    BY DEF HasDecision
  <2>3. Len(q) \in Nat
    OBVIOUS
  <2> HIDE DEF places, k
  <2>4. CASE HasDecision(q)
    <3>1. Min(places) \in 1..Len(q)
      BY <2>2, <2>4, MinIsLeast
    <3> QED BY <2>1, <2>3, <2>4, <3>1
  <2>5. CASE ~ HasDecision(q)
    BY <2>1, <2>3, <2>5
  <2> QED BY <2>4, <2>5
<1>2. r = SubSeq(q, k, Len(q))
  BY DEF JumpToDecision
<1>3. JumpedIds(q) = {q[i].id : i \in 1..(k - 1)}
  BY DEF JumpedIds
<1> HIDE DEF k, r
<1>4. /\ r \in Seq(T) /\ Len(r) = Len(q) - k + 1
      /\ \A i \in 1..Len(r) : r[i] = q[i + k - 1]
  BY <1>1, <1>2
<1>5. \A i \in DOMAIN r : i + k - 1 \in DOMAIN q /\ r[i] = q[i + k - 1]
  BY <1>1, <1>4
<1>6. ASSUME NEW j \in DOMAIN q
      PROVE  j \in 1..(k - 1) \/ \E i \in DOMAIN r : r[i] = q[j]
  <2>1. j \in 1..Len(q) /\ k \in Nat /\ Len(q) \in Nat
    BY <1>1
  <2>2. j \in 1..(k - 1) \/ (j - k + 1 \in 1..Len(r) /\ j = (j - k + 1) + k - 1)
    BY <1>4, <2>1
  <2> QED BY <1>4, <2>2
<1>7. Ids(r) \subseteq Ids(q)
  BY <1>5 DEF Ids
<1>8. Ids(q) \subseteq Ids(r) \union JumpedIds(q)
  BY <1>3, <1>6 DEF Ids
<1>9. ASSUME Distinct(q), NEW i \in DOMAIN r, NEW j \in DOMAIN r, r[i].id = r[j].id
      PROVE  i = j
  <2>1. i + k - 1 = j + k - 1
    BY <1>5, <1>9 DEF Distinct
  <2> QED BY <1>1, <1>4, <2>1
<1> QED BY <1>4, <1>7, <1>8, <1>9 DEF r, Distinct

\* claim_head(): the head becomes an answer and stays what it is.
LEMMA ClaimHeadIds ==
    ASSUME NEW T, NEW q \in Seq(T), \A it \in T : [it EXCEPT !.cue = TRUE] \in T
    PROVE  LET r == ClaimHead(q)
           IN  /\ r \in Seq(T) /\ DOMAIN r = DOMAIN q
               /\ Ids(r) = Ids(q)
               /\ Distinct(q) => Distinct(r)
<1> DEFINE r == ClaimHead(q)
<1>1. CASE q = <<>>
  BY <1>1 DEF ClaimHead
<1>2. CASE q # <<>>
  <2>1. r = [q EXCEPT ![1] = [@ EXCEPT !.cue = TRUE]]
    BY <1>2 DEF ClaimHead
  <2>2. 1 \in DOMAIN q /\ q[1] \in T
    BY <1>2
  <2>3. [q[1] EXCEPT !.cue = TRUE] \in T
    BY <2>2
  <2>4. r \in Seq(T) /\ DOMAIN r = DOMAIN q
    BY <2>1, <2>2, <2>3
  <2>5. \A i \in DOMAIN q : r[i].id = q[i].id
    BY <2>1, <2>2
  <2> HIDE DEF r
  <2> QED BY <2>4, <2>5 DEF Ids, Distinct, r
<1> QED BY <1>1, <1>2

\* _enqueue() of several items, one after the other.  A run of the recursion
\* exists, being extended item by item; nothing is assumed of the cap.
After(q, items, f) ==
    f = [i \in 0..Len(items) |-> IF i = 0 THEN q ELSE Enqueue(f[i - 1], items[i], Cap)]

LEMMA RunExists ==
    ASSUME NEW T, NEW q \in Seq(T), NEW items \in Seq(T)
    PROVE  \E f : After(q, items, f) /\ EnqueueAll(q, items) = f[Len(items)]
<1> DEFINE Run(n, g) ==
             g = [i \in 0..n |-> IF i = 0 THEN q ELSE Enqueue(g[i - 1], items[i], Cap)]
           bad == {n \in 0..Len(items) : ~ \E g : Run(n, g)}
<1>1. bad = {}
  <2> SUFFICES ASSUME bad # {} PROVE FALSE
    OBVIOUS
  <2>1. bad \subseteq Nat
    OBVIOUS
  <2>2. PICK n \in bad : \A k \in bad : n <= k
    <3> HIDE DEF bad
    <3> QED BY <2>1, Least
  <2>3. CASE n = 0
    <3> DEFINE g == [i \in 0..0 |-> q]
    <3>1. g = [i \in 0..0 |-> IF i = 0 THEN q ELSE Enqueue(g[i - 1], items[i], Cap)]
      OBVIOUS
    <3> QED BY <2>3, <3>1
  <2>4. CASE n # 0
    <3>1. n - 1 \in 0..Len(items) /\ ~ (n <= n - 1) /\ n \in Nat
      BY <2>4
    <3>2. PICK g : Run(n - 1, g)
      BY <2>2, <3>1
    <3> DEFINE h == [i \in 0..n |-> IF i = n THEN Enqueue(g[n - 1], items[n], Cap) ELSE g[i]]
    <3>3. ASSUME NEW i \in 0..n
          PROVE  h[i] = IF i = 0 THEN q ELSE Enqueue(h[i - 1], items[i], Cap)
      <4>1. CASE i = n
        BY <2>4, <3>1, <4>1
      <4>2. CASE i # n
        <5>1. i \in 0..(n - 1) /\ (i # 0 => i - 1 \in 0..n /\ i - 1 # n)
          BY <3>1, <4>2
        <5>2. g[i] = IF i = 0 THEN q ELSE Enqueue(g[i - 1], items[i], Cap)
          BY <3>2, <5>1
        <5> QED BY <4>2, <5>1, <5>2
      <4> QED BY <4>1, <4>2
    <3>4. Run(n, h)
      <4>1. h = [i \in 0..n |-> h[i]]
        OBVIOUS
      <4> HIDE DEF h
      <4> QED BY <3>3, <4>1
    <3> HIDE DEF h, Run
    <3> QED BY <3>4
  <2> QED BY <2>3, <2>4
<1>2. \E g : Run(Len(items), g)
  <2>1. Len(items) \in 0..Len(items)
    OBVIOUS
  <2> HIDE DEF Run
  <2> QED BY <1>1, <2>1
<1>3. PICK f : Run(Len(items), f) /\ EnqueueAll(q, items) = f[Len(items)]
  BY <1>2 DEF EnqueueAll
<1> QED BY <1>3 DEF After

LEMMA EnqueueAllIds ==
    ASSUME NEW T, NEW q \in Seq(T), NEW items \in Seq(T)
    PROVE  LET r == EnqueueAll(q, items)
           IN  /\ r \in Seq(T)
               /\ Ids(r) \subseteq Ids(q) \union Ids(items)
               /\ Distinct(q) /\ Distinct(items) /\ Ids(q) \intersect Ids(items) = {} => Distinct(r)
<1>1. PICK f : After(q, items, f) /\ EnqueueAll(q, items) = f[Len(items)]
  BY RunExists
<1>2. \A i \in 0..Len(items) : f[i] = IF i = 0 THEN q ELSE Enqueue(f[i - 1], items[i], Cap)
  BY <1>1 DEF After
<1> DEFINE First(n) == {items[i].id : i \in 1..n}
           Good(n) == /\ f[n] \in Seq(T)
                      /\ Ids(f[n]) \subseteq Ids(q) \union First(n)
                      /\ Distinct(q) /\ Distinct(items) /\ Ids(q) \intersect Ids(items) = {}
                            => Distinct(f[n])
           bad == {n \in 0..Len(items) : ~ Good(n)}
<1>3. bad = {}
  <2> SUFFICES ASSUME bad # {} PROVE FALSE
    OBVIOUS
  <2>1. PICK n \in bad : \A k \in bad : n <= k
    <3>1. bad \subseteq Nat
      OBVIOUS
    <3> HIDE DEF bad
    <3> QED BY <3>1, Least
  <2>2. CASE n = 0
    <3>1. f[0] = q /\ First(0) = {}
      BY <1>2, <2>2
    <3> QED BY <2>2, <3>1
  <2>3. CASE n # 0
    <3>1. n \in 1..Len(items) /\ n - 1 \in 0..Len(items) /\ ~ (n <= n - 1)
      BY <2>3
    <3>2. Good(n - 1)
      <4> HIDE DEF Good
      <4> QED BY <2>1, <3>1
    <3>3. f[n] = Enqueue(f[n - 1], items[n], Cap) /\ items[n] \in T
      BY <1>2, <3>1
    <3>4. LET r == Enqueue(f[n - 1], items[n], Cap)
          IN  /\ r \in Seq(T)
              /\ Ids(r) \subseteq Ids(f[n - 1]) \union {items[n].id}
              /\ Distinct(f[n - 1]) /\ items[n].id \notin Ids(f[n - 1]) => Distinct(r)
      BY <3>2, <3>3, EnqueueIds
    <3>5. First(n) = First(n - 1) \union {items[n].id}
      <4>1. 1..n = (1..(n - 1)) \union {n}
        BY <3>1
      <4> QED BY <4>1
    <3>6. ASSUME Distinct(items), Ids(q) \intersect Ids(items) = {}
          PROVE  items[n].id \notin Ids(q) \union First(n - 1)
      <4>1. items[n].id \in Ids(items) /\ n \in DOMAIN items
        BY <3>1 DEF Ids
      <4>2. \A i \in 1..(n - 1) : i \in DOMAIN items /\ i # n
        BY <3>1
      <4> QED BY <3>6, <4>1, <4>2 DEF Distinct
    <3> HIDE DEF First
    <3>7. Good(n)
      BY <3>2, <3>3, <3>4, <3>5, <3>6
    <3> HIDE DEF Good
    <3> QED BY <3>7
  <2> QED BY <2>2, <2>3
<1>4. Good(Len(items))
  <2>1. Len(items) \in 0..Len(items)
    OBVIOUS
  <2> HIDE DEF Good
  <2> QED BY <1>3, <2>1
<1>5. First(Len(items)) = Ids(items)
  BY DEF Ids
<1> HIDE DEF First
<1> QED BY <1>1, <1>4, <1>5

-----------------------------------------------------------------------------
(* The queues.  Ids are what ties markers, items and the speak thread        *)
(* together, so the invariant of the queues is about ids: they grow, no two  *)
(* items share one, in one queue or in two, and the item in the speak        *)
(* thread's hands is in no queue.  It is stated of any queues q, item in     *)
(* hand h and last id n, since a handler may change a queue twice.           *)

\* The items of one session.
Of(s) == {it \in ItemSet : it.session = s}

Sound(q, h, n) ==
    /\ n \in Nat
    /\ q \in [Session -> Seq(ItemSet)]
    /\ \A s \in Session :
          q[s] \in Seq(Of(s)) /\ Distinct(q[s]) /\ Ids(q[s]) \subseteq 0..n
    /\ \A s, t \in Session : s # t => Ids(q[s]) \intersect Ids(q[t]) = {}
    /\ h # None => /\ h \in ItemSet /\ h.id \in 0..n
                   /\ \A s \in Session : h.id \notin Ids(q[s])

\* One queue becomes r, which holds some of its items and new ones.
LEMMA Replaced ==
    ASSUME NEW q, NEW h, NEW n, NEW m \in Nat, NEW s \in Session, NEW r,
           Sound(q, h, n), n <= m,
           r \in Seq(Of(s)), Distinct(r), Ids(r) \subseteq Ids(q[s]) \union (n + 1)..m
    PROVE  Sound([q EXCEPT ![s] = r], h, m)
<1> DEFINE p == [q EXCEPT ![s] = r]
<1>1. n \in Nat /\ q \in [Session -> Seq(ItemSet)]
  BY DEF Sound
<1>2. Of(s) \subseteq ItemSet
  BY DEF Of
<1>3. r \in Seq(ItemSet)
  BY <1>2
<1>4. p \in [Session -> Seq(ItemSet)] /\ p[s] = r /\ \A t \in Session : t # s => p[t] = q[t]
  BY <1>1, <1>3
<1> HIDE DEF p
<1>5. 0..n \subseteq 0..m /\ (n + 1)..m \subseteq 0..m /\ (0..n) \intersect ((n + 1)..m) = {}
  BY <1>1
<1>6. ASSUME NEW t \in Session
      PROVE  p[t] \in Seq(Of(t)) /\ Distinct(p[t]) /\ Ids(p[t]) \subseteq 0..m
  BY <1>4, <1>5 DEF Sound
<1>7. ASSUME NEW t \in Session, NEW u \in Session, t # u
      PROVE  Ids(p[t]) \intersect Ids(p[u]) = {}
  BY <1>4, <1>5, <1>7 DEF Sound
<1>8. ASSUME h # None
      PROVE  /\ h \in ItemSet /\ h.id \in 0..m
             /\ \A t \in Session : h.id \notin Ids(p[t])
  BY <1>4, <1>5, <1>8 DEF Sound
<1> QED
  BY <1>4, <1>6, <1>7, <1>8 DEF Sound, p

\* An item passes from a queue to the speak thread.
LEMMA Popped ==
    ASSUME NEW q, NEW n, NEW s \in Session, NEW r, NEW it,
           Sound(q, None, n), it \in ItemSet, it.id \in Ids(q[s]),
           r \in Seq(Of(s)), Distinct(r), Ids(r) \subseteq Ids(q[s]), it.id \notin Ids(r)
    PROVE  Sound([q EXCEPT ![s] = r], it, n)
<1>1. n \in Nat /\ q \in [Session -> Seq(ItemSet)]
  BY DEF Sound
<1>2. n <= n /\ Ids(r) \subseteq Ids(q[s]) \union (n + 1)..n
  BY <1>1
<1>3. Sound([q EXCEPT ![s] = r], None, n)
  BY <1>1, <1>2, Replaced
<1>4. it.id \in 0..n
  BY DEF Sound
<1>5. ASSUME NEW t \in Session PROVE it.id \notin Ids([q EXCEPT ![s] = r][t])
  <2>1. CASE t = s
    BY <1>1, <2>1
  <2>2. CASE t # s
    <3>1. [q EXCEPT ![s] = r][t] = q[t]
      BY <1>1, <2>2
    <3> QED
      BY <2>2, <3>1 DEF Sound
  <2> QED
    BY <2>1, <2>2
<1> QED
  BY <1>3, <1>4, <1>5 DEF Sound

\* The item in hand goes back to its own queue.
LEMMA Returned ==
    ASSUME NEW q, NEW h, NEW n, Sound(q, h, n), h # None
    PROVE  Sound([q EXCEPT ![h.session] = EnqueueFront(@, h)], None, n)
<1> DEFINE s == h.session
           r == EnqueueFront(q[s], h)
           p == [q EXCEPT ![s] = r]
<1>1. n \in Nat /\ q \in [Session -> Seq(ItemSet)] /\ h \in ItemSet /\ s \in Session
  BY DEF Sound, ItemSet
<1>2. q[s] \in Seq(Of(s)) /\ h \in Of(s)
  BY <1>1 DEF Sound, Of
<1>3. /\ r \in Seq(Of(s)) /\ Ids(r) = Ids(q[s]) \union {h.id}
      /\ Distinct(q[s]) /\ h.id \notin Ids(q[s]) => Distinct(r)
  BY <1>2, EnqueueFrontIds
<1>4. r \in Seq(ItemSet)
  <2>1. Of(s) \subseteq ItemSet
    BY DEF Of
  <2> QED
    BY <1>3, <2>1
<1> HIDE DEF r
<1>5. p \in [Session -> Seq(ItemSet)] /\ p[s] = r /\ \A t \in Session : t # s => p[t] = q[t]
  BY <1>1, <1>4
<1> HIDE DEF p, s
<1>6. ASSUME NEW t \in Session
      PROVE  p[t] \in Seq(Of(t)) /\ Distinct(p[t]) /\ Ids(p[t]) \subseteq 0..n
  BY <1>1, <1>3, <1>5 DEF Sound
<1>7. ASSUME NEW t \in Session, NEW u \in Session, t # u
      PROVE  Ids(p[t]) \intersect Ids(p[u]) = {}
  <2>1. h.id \notin Ids(q[t]) /\ h.id \notin Ids(q[u]) /\ Ids(q[t]) \intersect Ids(q[u]) = {}
    BY <1>7 DEF Sound
  <2>2. Ids(p[t]) \subseteq Ids(q[t]) \union {h.id} /\ Ids(p[u]) \subseteq Ids(q[u]) \union {h.id}
    BY <1>3, <1>5
  <2>3. t # s => Ids(p[t]) = Ids(q[t])
    BY <1>5
  <2>4. u # s => Ids(p[u]) = Ids(q[u])
    BY <1>5
  <2> QED
    BY <1>7, <2>1, <2>2, <2>3, <2>4
<1>8. Sound(p, None, n)
  BY <1>1, <1>5, <1>6, <1>7 DEF Sound
<1> QED
  BY <1>8 DEF p, s, r

\* Claiming nothing, or what was not queued, changes no queue.
LEMMA Claimed ==
    ASSUME NEW q, NEW h, NEW n, NEW s \in Session, Sound(q, h, n)
    PROVE  /\ Sound(q, None, n)
           /\ Sound(q, Cue(n + 1, s), n + 1)
<1>1. n \in Nat /\ n + 1 \in Nat /\ 0..n \subseteq 0..(n + 1) /\ n + 1 \notin 0..n /\ n + 1 \in 0..(n + 1)
  BY DEF Sound
<1>2. Cue(n + 1, s) \in ItemSet /\ Cue(n + 1, s).id = n + 1
  BY <1>1 DEF Cue, Item, ItemSet
<1>3. Sound(q, None, n)
  BY DEF Sound
<1>4. Sound(q, Cue(n + 1, s), n + 1)
  BY <1>1, <1>2 DEF Sound
<1> QED
  BY <1>3, <1>4

-----------------------------------------------------------------------------
(* The operations of a queue, as changes of the queues *)

\* A queue emptied, or refilled with a new item.
LEMMA EmptiedSound ==
    ASSUME NEW q, NEW h, NEW n, NEW s \in Session, Sound(q, h, n)
    PROVE  Sound([q EXCEPT ![s] = <<>>], h, n)
<1>1. n \in Nat /\ n <= n /\ <<>> \in Seq(Of(s)) /\ Distinct(<<>>) /\ Ids(<<>>) = {}
  BY DEF Sound, Distinct, Ids
<1> QED
  BY <1>1, Replaced

LEMMA RefilledSound ==
    ASSUME NEW q, NEW h, NEW n, NEW s \in Session, Sound(q, h, n),
           NEW it \in Of(s), it.id = n + 1
    PROVE  Sound([q EXCEPT ![s] = <<it>>], h, n + 1)
<1>1. n \in Nat /\ n <= n + 1 /\ n + 1 \in Nat /\ n + 1 \in (n + 1)..(n + 1)
  BY DEF Sound
<1>2. <<it>> \in Seq(Of(s)) /\ Distinct(<<it>>) /\ Ids(<<it>>) = {it.id}
  BY DEF Distinct, Ids
<1> QED
  BY <1>1, <1>2, Replaced

\* A new item at the front, at the back, or several behind one another.
LEMMA FrontSound ==
    ASSUME NEW q, NEW h, NEW n, NEW s \in Session, Sound(q, h, n),
           NEW it \in Of(s), it.id = n + 1
    PROVE  Sound([q EXCEPT ![s] = EnqueueFront(@, it)], h, n + 1)
<1>1. n \in Nat /\ n <= n + 1 /\ n + 1 \in Nat /\ n + 1 \in (n + 1)..(n + 1) /\ n + 1 \notin 0..n
  BY DEF Sound
<1>2. q[s] \in Seq(Of(s)) /\ Distinct(q[s]) /\ Ids(q[s]) \subseteq 0..n
  BY DEF Sound
<1> DEFINE r == EnqueueFront(q[s], it)
<1>3. /\ r \in Seq(Of(s)) /\ Ids(r) = Ids(q[s]) \union {it.id}
      /\ Distinct(q[s]) /\ it.id \notin Ids(q[s]) => Distinct(r)
  BY <1>2, EnqueueFrontIds
<1> HIDE DEF r
<1>4. Distinct(r) /\ Ids(r) \subseteq Ids(q[s]) \union (n + 1)..(n + 1)
  BY <1>1, <1>2, <1>3
<1>5. Sound([q EXCEPT ![s] = r], h, n + 1)
  BY <1>1, <1>3, <1>4, Replaced
<1> QED
  BY <1>5 DEF r

LEMMA BackSound ==
    ASSUME NEW q, NEW h, NEW n, NEW s \in Session, Sound(q, h, n),
           NEW it \in Of(s), it.id = n + 1, NEW cap
    PROVE  Sound([q EXCEPT ![s] = Enqueue(@, it, cap)], h, n + 1)
<1>1. n \in Nat /\ n <= n + 1 /\ n + 1 \in Nat /\ n + 1 \in (n + 1)..(n + 1) /\ n + 1 \notin 0..n
  BY DEF Sound
<1>2. q[s] \in Seq(Of(s)) /\ Distinct(q[s]) /\ Ids(q[s]) \subseteq 0..n
  BY DEF Sound
<1> DEFINE r == Enqueue(q[s], it, cap)
<1>3. /\ r \in Seq(Of(s)) /\ Ids(r) \subseteq Ids(q[s]) \union {it.id}
      /\ Distinct(q[s]) /\ it.id \notin Ids(q[s]) => Distinct(r)
  BY <1>2, EnqueueIds
<1> HIDE DEF r
<1>4. Distinct(r) /\ Ids(r) \subseteq Ids(q[s]) \union (n + 1)..(n + 1)
  BY <1>1, <1>2, <1>3
<1>5. Sound([q EXCEPT ![s] = r], h, n + 1)
  BY <1>1, <1>3, <1>4, Replaced
<1> QED
  BY <1>5 DEF r

-----------------------------------------------------------------------------
(* Types, and what the speak thread holds.  The claim and the hand are one   *)
(* item, and there is none while the thread looks for work.                 *)

RosterTypes ==
    /\ present \subseteq Session /\ reg \subseteq Session
    /\ announced \subseteq Session /\ dead \subseteq Session
    /\ fg \in Session \union {None} /\ spk \in Session \union {None}
    /\ focus \in Session \union {None} /\ sanction \in Session \union {None}

ModeTypes ==
    /\ voiceState \in VoiceStates /\ markResume \in BOOLEAN /\ whole \in BOOLEAN
    /\ deferred \in [Session -> BOOLEAN] /\ partial \in [Session -> BOOLEAN]
    /\ lastUtt \in BOOLEAN /\ sent \in Nat

Idle == {"held", "check", "pop"}
Busy == {"speak", "failing", "tail", "note"}

Hands ==
    /\ pc \in Idle \union Busy
    /\ pc \in Idle => hand = None
    /\ pc \in Busy => hand \in ItemSet
    /\ current \in {None, hand}

LoopTypes ==
    /\ exempt \in BOOLEAN /\ done \in BOOLEAN /\ cut \in BOOLEAN /\ broken \in BOOLEAN
    /\ outstanding \subseteq Session

Queues == Sound(queue, hand, nextId)

QueueInv == Queues /\ Hands /\ RosterTypes

LEMMA ItemSession == \A it \in ItemSet : it.session \in Session /\ it.id \in Nat /\ it \in Of(it.session)
  BY DEF ItemSet, Of

\* The words the daemon adds are items.
LEMMA Words ==
    ASSUME NEW n \in Nat, NEW s \in Session
    PROVE  /\ Cue(n, s) \in Of(s) /\ Cue(n, s).id = n /\ Cue(n, s).session = s
           /\ Item(n, s, FALSE, FALSE, FALSE) \in Of(s)
           /\ Item(n, s, FALSE, FALSE, FALSE).id = n
  BY DEF Cue, Item, Of, ItemSet

\* pop_next() and the pop of a control cue.
LEMMA PoppedHead ==
    ASSUME NEW q, NEW n, NEW s \in Session, Sound(q, None, n), q[s] # <<>>
    PROVE  /\ Sound([q EXCEPT ![s] = Tail(@)], Head(q[s]), n)
           /\ Head(q[s]) \in Of(s)
<1> DEFINE r == Tail(q[s])
           it == Head(q[s])
<1>1. q[s] \in Seq(Of(s)) /\ Distinct(q[s])
  BY DEF Sound
<1>2. /\ it \in Of(s) /\ r \in Seq(Of(s)) /\ Ids(r) \subseteq Ids(q[s])
      /\ it.id \in Ids(q[s])
      /\ Distinct(q[s]) => Distinct(r) /\ it.id \notin Ids(r)
  BY <1>1, TailIds
<1>3. it \in ItemSet
  BY <1>2 DEF Of
<1> HIDE DEF r, it
<1>4. Sound([q EXCEPT ![s] = r], it, n)
  BY <1>1, <1>2, <1>3, Popped
<1> QED
  BY <1>2, <1>4 DEF r, it

LEMMA PoppedCue ==
    ASSUME NEW q, NEW n, NEW s \in Session, Sound(q, None, n), HasCue(q[s])
    PROVE  /\ Sound([q EXCEPT ![s] = PopControlCue(@)], q[s][CueAt(q[s])], n)
           /\ q[s][CueAt(q[s])] \in Of(s) /\ q[s][CueAt(q[s])].cue
<1> DEFINE k == CueAt(q[s])
           r == PopControlCue(q[s])
           it == q[s][k]
<1>1. q[s] \in Seq(Of(s)) /\ Distinct(q[s])
  BY DEF Sound
<1>2. k \in 1..Len(q[s]) /\ it.cue
  BY <1>1, CuePlace
<1>3. r = RemoveAt(q[s], k)
  BY DEF PopControlCue
<1> HIDE DEF k
<1>4. it \in Of(s) /\ it.id \in Ids(q[s])
  BY <1>1, <1>2 DEF Ids
<1>5. /\ r \in Seq(Of(s)) /\ Ids(r) \subseteq Ids(q[s])
      /\ Distinct(q[s]) => Distinct(r) /\ it.id \notin Ids(r)
  <2> HIDE DEF it, r
  <2> QED
    BY <1>1, <1>2, <1>3, RemoveAtIds DEF it
<1>6. it \in ItemSet
  BY <1>4 DEF Of
<1> HIDE DEF r, it
<1>7. Sound([q EXCEPT ![s] = r], it, n)
  BY <1>1, <1>4, <1>5, <1>6, Popped
<1> QED
  BY <1>2, <1>4, <1>7 DEF r, it, k

\* A set of sessions whose queues hold something has one whose first number
\* is least.
LEMMA LeastSession ==
    ASSUME NEW S, S # {}, NEW f \in [S -> Nat]
    PROVE  \E s \in S : \A t \in S : f[s] <= f[t]
<1> DEFINE T == {f[s] : s \in S}
<1>1. T \subseteq Nat /\ T # {}
  OBVIOUS
<1>2. PICK x \in T : \A y \in T : x <= y
  <2> HIDE DEF T
  <2> QED
    BY <1>1, Least
<1> QED
  BY <1>2

LEMMA OldestIsHolding ==
    ASSUME Queues, HoldingCue # {}
    PROVE  OldestHeldCue \in HoldingCue
<1>1. ASSUME NEW s \in HoldingCue PROVE OldestCueId(queue[s]) \in Nat
  <2>1. s \in Session /\ HasCue(queue[s]) /\ queue[s] \in Seq(Of(s))
    BY DEF HoldingCue, Queues, Sound
  <2>2. CueAt(queue[s]) \in 1..Len(queue[s])
    BY <2>1, CuePlace
  <2>3. queue[s][CueAt(queue[s])] \in Of(s)
    BY <2>1, <2>2
  <2> QED
    BY <2>3, ItemSession DEF Of, OldestCueId
<1> DEFINE f == [s \in HoldingCue |-> OldestCueId(queue[s])]
<1>2. \E s \in HoldingCue : \A t \in HoldingCue : f[s] <= f[t]
  <2>1. f \in [HoldingCue -> Nat]
    BY <1>1
  <2> HIDE DEF f
  <2> QED
    BY <2>1, LeastSession
<1> QED
  BY <1>2 DEF OldestHeldCue

LEMMA LongestIsWaiting ==
    ASSUME Queues, RosterTypes, Waiting # {}
    PROVE  LongestWaiting \in Waiting
<1>1. ASSUME NEW s \in Waiting PROVE Head(queue[s]).id \in Nat
  <2>1. s \in Session /\ queue[s] # <<>> /\ queue[s] \in Seq(Of(s))
    BY DEF Waiting, RosterTypes, Queues, Sound
  <2>2. Head(queue[s]) \in Of(s)
    BY <2>1
  <2> QED
    BY <2>2, ItemSession DEF Of
<1> DEFINE f == [s \in Waiting |-> Head(queue[s]).id]
<1>2. \E s \in Waiting : \A t \in Waiting : f[s] <= f[t]
  <2>1. f \in [Waiting -> Nat]
    BY <1>1
  <2> HIDE DEF f
  <2> QED
    BY <2>1, LeastSession
<1> QED
  BY <1>2 DEF LongestWaiting

LEMMA LoopQueues ==
    ASSUME QueueInv, LoopStep
    PROVE  QueueInv'
<1> USE DEF QueueInv
<1>1. CASE PopHeldCue
  <2> DEFINE s == OldestHeldCue
             it == queue[s][CueAt(queue[s])]
  <2>1. hand = None /\ s \in Session /\ HasCue(queue[s])
    BY <1>1, OldestIsHolding DEF PopHeldCue, HoldingCue, Hands, Idle
  <2>2. /\ current' = it /\ hand' = it /\ pc' = "speak" /\ nextId' = nextId
        /\ queue' = [queue EXCEPT ![s] = PopControlCue(@)]
        /\ UNCHANGED <<present, reg, announced, dead, fg, spk, focus, sanction>>
    BY <1>1 DEF PopHeldCue, Claim, Goto, ledgerVars, modeVars, rosterVars
  <2> HIDE DEF s
  <2>3. Sound([queue EXCEPT ![s] = PopControlCue(@)], it, nextId) /\ it \in Of(s)
    BY <2>1, PoppedCue DEF Queues
  <2>4. Queues'
    BY <2>2, <2>3 DEF Queues
  <2>5. Hands'
    BY <2>2, <2>3 DEF Hands, Of, Busy, Idle
  <2> QED
    BY <2>2, <2>4, <2>5 DEF RosterTypes
<1>2. CASE NoHeldCue
  <2>1. /\ current' = None /\ hand' = None /\ pc' = "check"
        /\ UNCHANGED <<queue, nextId, present, reg, announced, dead, fg, spk, focus, sanction>>
    BY <1>2 DEF NoHeldCue, Claim, Goto, streamVars, ledgerVars, modeVars, rosterVars
  <2>2. hand = None
    BY <1>2 DEF NoHeldCue, Hands, Idle
  <2> QED
    BY <2>1, <2>2 DEF Queues, Hands, Idle, Busy, RosterTypes
<1>3. CASE CheckStopped
  <2>1. /\ pc = "check" /\ pc' \in {"held", "pop"}
        /\ UNCHANGED <<hand, current, queue, nextId, present, reg, announced, dead, fg, spk, focus, sanction>>
    BY <1>3 DEF CheckStopped, Goto, streamVars, ledgerVars, modeVars, rosterVars
  <2> QED
    BY <2>1 DEF Queues, Hands, Idle, Busy, RosterTypes
<1>4. CASE PopOwn
  <2> DEFINE s == HeldVoice
             it == Head(queue[s])
  <2>1. hand = None /\ s \in Session /\ queue[s] # <<>>
    BY <1>4 DEF PopOwn, OwnQueueEmpty, HeldVoice, RosterTypes, Hands, Idle
  <2>2. /\ current' = it /\ hand' = it /\ pc' = "speak" /\ nextId' = nextId
        /\ queue' = [queue EXCEPT ![s] = Tail(@)]
        /\ spk' = s /\ sanction' = SpentSanction
        /\ UNCHANGED <<present, reg, announced, dead, fg, focus>>
    BY <1>4 DEF PopOwn, Claim, Goto, ledgerVars
  <2>3. sanction' \in {None, sanction}
    BY <2>2 DEF SpentSanction, LiveSanction
  <2> HIDE DEF s
  <2>4. Sound([queue EXCEPT ![s] = Tail(@)], it, nextId) /\ it \in Of(s)
    BY <2>1, PoppedHead DEF Queues
  <2>5. Queues'
    BY <2>2, <2>4 DEF Queues
  <2>6. Hands'
    BY <2>2, <2>4 DEF Hands, Of, Busy, Idle
  <2> QED
    BY <2>1, <2>2, <2>3, <2>5, <2>6 DEF RosterTypes
<1>5. CASE Adopt
  <2> DEFINE s == LongestWaiting
  <2>1. hand = None /\ s \in Session /\ queue[s] # <<>>
    BY <1>5, LongestIsWaiting DEF Adopt, Waiting, RosterTypes, Hands, Idle
  <2>2. /\ pc' = "speak" /\ spk' = s /\ sanction' \in {None, sanction}
        /\ UNCHANGED <<present, reg, announced, dead, fg, focus>>
    BY <1>5 DEF Adopt, Goto, SpentSanction, LiveSanction
  <2>3. current' = hand'
    BY <1>5 DEF Adopt, Claim
  <2>4. Queues' /\ hand' \in ItemSet
    <3>1. CASE markResume
      <4>1. hand' = Cue(nextId + 1, s) /\ nextId' = nextId + 1 /\ queue' = queue
        BY <1>5, <3>1 DEF Adopt, Claim
      <4>2. Sound(queue, Cue(nextId + 1, s), nextId + 1)
        BY <2>1, Claimed DEF Queues
      <4>3. nextId + 1 \in Nat
        BY DEF Queues, Sound
      <4>4. Cue(nextId + 1, s) \in ItemSet
        BY <2>1, <4>3, Words DEF Of
      <4> QED
        BY <4>1, <4>2, <4>4 DEF Queues
    <3>2. CASE ~ markResume
      <4>1. /\ hand' = Head(queue[s]) /\ nextId' = nextId
            /\ queue' = [queue EXCEPT ![s] = Tail(@)]
        BY <1>5, <3>2 DEF Adopt, Claim
      <4> HIDE DEF s
      <4>2. Sound([queue EXCEPT ![s] = Tail(@)], Head(queue[s]), nextId) /\ Head(queue[s]) \in Of(s)
        BY <2>1, PoppedHead DEF Queues
      <4> QED
        BY <4>1, <4>2 DEF Queues, Of
    <3> QED
      BY <3>1, <3>2
  <2> HIDE DEF s
  <2> QED
    BY <2>1, <2>2, <2>3, <2>4 DEF Hands, Idle, Busy, RosterTypes
<1>6. CASE NothingToSay
  <2>1. /\ current' = None /\ hand' = None /\ pc' = "held" /\ hand = None
        /\ spk' \in {None, spk} /\ sanction' \in {None, sanction}
        /\ UNCHANGED <<queue, nextId, present, reg, announced, dead, fg, focus>>
    BY <1>6 DEF NothingToSay, Claim, Goto, streamVars, ledgerVars, Hands, Idle, HeldVoice, SpentSanction, LiveSanction
  <2> QED
    BY <2>1 DEF Queues, Hands, Idle, Busy, RosterTypes
<1>7. CASE SpeakCompletes \/ SpeakCut \/ SpeakRaises \/ TailDone
  <2>1. /\ pc \in Busy /\ pc' \in Busy
        /\ UNCHANGED <<hand, current, queue, nextId, reg, announced, dead, fg, spk, focus, sanction>>
    BY <1>7 DEF SpeakCompletes, SpeakCut, SpeakRaises, TailDone, AfterSpeech, Goto, Busy, streamVars, ledgerVars, modeVars, rosterVars
  <2>2. present' \subseteq present \union {hand.session} /\ hand.session \in Session
    BY <1>7, <2>1, ItemSession DEF SpeakCompletes, SpeakCut, SpeakRaises, TailDone, Open, Hands, streamVars
  <2> QED
    BY <2>1, <2>2 DEF Queues, Hands, Idle, Busy, RosterTypes
<1>8. CASE SignalFailure
  <2> DEFINE s == hand.session
  <2>1. /\ pc = "failing" /\ pc' \in Busy
        /\ UNCHANGED <<hand, current, reg, announced, dead, fg, spk, focus, sanction>>
    BY <1>8 DEF SignalFailure, AfterSpeech, Goto, Busy, modeVars, rosterVars
  <2>2. s \in Session
    BY <2>1, ItemSession DEF Hands, Busy
  <2>3. present' \subseteq present \union {s} /\ Queues'
    <3>1. CASE WordOutstanding(s)
      BY <1>8, <2>1, <3>1 DEF SignalFailure, streamVars, Queues
    <3>2. CASE ~ WordOutstanding(s)
      <4> DEFINE w == Cue(nextId + 1, s)
      <4>1. present' = present \union {s} /\ EnqueueWord(w)
        BY <1>8, <3>2 DEF SignalFailure, Open
      <4>2. nextId + 1 \in Nat
        BY DEF Queues, Sound
      <4>3. w \in Of(s) /\ w.id = nextId + 1 /\ w.session = s
        BY <2>2, <4>2, Words
      <4> HIDE DEF w, s
      <4>4. queue' = [queue EXCEPT ![s] = Enqueue(@, w, Cap)] /\ nextId' = nextId + 1
        BY <4>1, <4>3 DEF EnqueueWord
      <4>5. Sound([queue EXCEPT ![s] = Enqueue(@, w, Cap)], hand, nextId + 1)
        BY <2>2, <4>3, BackSound DEF Queues
      <4> QED
        BY <2>1, <4>1, <4>4, <4>5 DEF Queues
    <3> QED
      BY <3>1, <3>2
  <2> HIDE DEF s
  <2> QED
    BY <2>1, <2>2, <2>3 DEF Hands, Idle, Busy, RosterTypes
<1>9. CASE Requeue
  <2>1. /\ pc = "tail" /\ pc' = "held" /\ hand' = None /\ current' = None
        /\ present' = present \union {hand.session}
        /\ queue' = [queue EXCEPT ![hand.session] = EnqueueFront(@, hand)]
        /\ UNCHANGED <<nextId, reg, announced, dead, fg, spk, focus, sanction>>
    BY <1>9 DEF Requeue, EndTurn, Goto, Open, ledgerVars, modeVars, rosterVars
  <2>2. hand \in ItemSet /\ hand # None /\ hand.session \in Session
    BY <2>1, ItemSession, NoneAssumption DEF Hands, Busy
  <2>3. Sound([queue EXCEPT ![hand.session] = EnqueueFront(@, hand)], None, nextId)
    BY <2>2, Returned DEF Queues
  <2>4. Queues'
    BY <2>1, <2>3 DEF Queues
  <2> QED
    BY <2>1, <2>2, <2>4 DEF Hands, Idle, Busy, RosterTypes
<1>10. CASE NoteSpoken
  <2>1. /\ pc' = "held" /\ hand' = None /\ current' = None
        /\ UNCHANGED <<queue, nextId, present, reg, announced, dead, fg, spk, focus, sanction>>
    BY <1>10 DEF NoteSpoken, EndTurn, Goto, modeVars, rosterVars
  <2>2. Sound(queue, None, nextId)
    BY DEF Queues, Sound
  <2>3. Queues'
    BY <2>1, <2>2 DEF Queues
  <2> QED
    BY <2>1, <2>3 DEF Hands, Idle, Busy, RosterTypes
<1> QED
  BY <1>1, <1>2, <1>3, <1>4, <1>5, <1>6, <1>7, <1>8, <1>9, <1>10 DEF LoopStep

\* A handler leaves the speak thread where it is: what remains is its queues
\* and its roster.
LEMMA Handled ==
    ASSUME QueueInv, UNCHANGED <<pc, hand, current>>,
           Sound(queue', hand, nextId'), RosterTypes'
    PROVE  QueueInv'
  BY DEF QueueInv, Queues, Hands

\* Where presses aim.
LEMMA Targets ==
    ASSUME RosterTypes
    PROVE  /\ Workspace \in Session \union {None}
           /\ Preferred(Workspace, spk) \in Session \union {None}
           /\ Preferred(spk, Workspace) \in Session \union {None}
           /\ StartTarget \in Session \union {None}
           /\ RepeatTarget \in Session \union {None}
           /\ PileTarget \in Session \union {None}
           /\ PilesRead \subseteq Session
  BY DEF RosterTypes, Workspace, Preferred, StartTarget, RepeatTarget, PileTarget, PilesRead

LEMMA LastId == QueueInv => nextId \in Nat /\ nextId + 1 \in Nat /\ nextId + 2 \in Nat
  BY DEF QueueInv, Queues, Sound

LEMMA AnswerQueues ==
    ASSUME QueueInv, NEW dest \in Session \union {None}, NEW S, S \subseteq Session, AnswerOn(dest, S)
    PROVE  QueueInv'
<1> USE DEF QueueInv
<1> DEFINE w == NewCue(dest)
<1>1. /\ dest \in Session
      /\ present' = present \union (S \union {dest})
      /\ EnqueueFirst(queue, w)
      /\ sanction' \in {dest, sanction} /\ spk' \in {dest, spk}
      /\ UNCHANGED <<reg, announced, fg, focus, dead, current, pc, hand>>
  BY DEF AnswerOn, Open, SanctionDeadRead, SpeakerOnceSanctioned, LoopUntouched, loopVars
<1>2. w \in Of(dest) /\ w.id = nextId + 1 /\ w.session = dest
  BY <1>1, LastId, Words DEF NewCue
<1> HIDE DEF w
<1>3. queue' = [queue EXCEPT ![dest] = EnqueueFront(@, w)] /\ nextId' = nextId + 1
  BY <1>1, <1>2 DEF EnqueueFirst
<1>4. Sound([queue EXCEPT ![dest] = EnqueueFront(@, w)], hand, nextId + 1)
  BY <1>1, <1>2, FrontSound DEF Queues
<1>5. RosterTypes'
  BY <1>1 DEF RosterTypes
<1> QED
  BY <1>1, <1>3, <1>4, <1>5, Handled

LEMMA JumpSound ==
    ASSUME NEW q, NEW h, NEW n, NEW s \in Session, Sound(q, h, n), NEW r,
           r \in {JumpToDecision(q[s]), ClaimHead(JumpToDecision(q[s]))}
    PROVE  Sound([q EXCEPT ![s] = r], h, n)
<1> DEFINE j == JumpToDecision(q[s])
           c == ClaimHead(j)
<1>1. q[s] \in Seq(Of(s)) /\ Distinct(q[s]) /\ n \in Nat
  BY DEF Sound
<1>2. /\ j \in Seq(Of(s)) /\ Ids(j) \subseteq Ids(q[s])
      /\ Distinct(q[s]) => Distinct(j)
  BY <1>1, JumpIds
<1>3. \A it \in Of(s) : [it EXCEPT !.cue = TRUE] \in Of(s)
  BY DEF Of, ItemSet
<1> HIDE DEF j
<1>4. c \in Seq(Of(s)) /\ Ids(c) = Ids(j) /\ (Distinct(j) => Distinct(c))
  BY <1>2, <1>3, ClaimHeadIds
<1> HIDE DEF c
<1>5. r \in Seq(Of(s)) /\ Distinct(r) /\ Ids(r) \subseteq Ids(q[s])
  BY <1>1, <1>2, <1>4 DEF j, c
<1>6. n <= n /\ Ids(r) \subseteq Ids(q[s]) \union (n + 1)..n
  BY <1>1, <1>5
<1> QED
  BY <1>1, <1>5, <1>6, Replaced

LEMMA PressQueues ==
    ASSUME QueueInv, Press
    PROVE  QueueInv'
<1> USE DEF QueueInv
<1>1. CASE Stop
  <2>1. /\ queue' \in {queue, [queue EXCEPT ![fg] = <<>>]}
        /\ fg \in present => fg \in Session
        /\ (queue' = queue) \/ fg \in present
        /\ UNCHANGED <<nextId, present, reg, announced, dead, fg, spk, focus, sanction, pc, hand, current>>
    BY <1>1 DEF Stop, Emptied, modeVars, rosterVars, LoopUntouched, loopVars, RosterTypes
  <2>2. Sound(queue', hand, nextId)
    BY <2>1, EmptiedSound DEF Queues
  <2>3. RosterTypes'
    BY <2>1 DEF RosterTypes
  <2> QED
    BY <2>1, <2>2, <2>3, Handled
<1>2. CASE Skip \/ OsFocus
  <2>1. /\ focus' \in reg \union {None, focus}
        /\ UNCHANGED <<queue, nextId, present, reg, announced, dead, fg, spk, sanction, pc, hand, current>>
    BY <1>2 DEF Skip, OsFocus, streamVars, ledgerVars, modeVars, rosterVars, LoopUntouched, loopVars
  <2>2. RosterTypes'
    BY <2>1 DEF RosterTypes
  <2>3. Sound(queue', hand, nextId')
    BY <2>1 DEF Queues
  <2> QED
    BY <2>1, <2>2, <2>3, Handled
<1>3. CASE SkipPile
  <2> DEFINE t == PileTarget
             d == IF spk \notin {None, t} THEN spk ELSE t
             w == NewCue(d)
             q == Emptied(t)
  <2>1. t \in Session /\ d \in Session /\ PilesRead \subseteq Session
    BY <1>3, Targets DEF SkipPile, RosterTypes
  <2>2. /\ present' = present \union (PilesRead \union {d})
        /\ EnqueueFirst(q, w)
        /\ sanction' \in {d, sanction} /\ spk' \in {d, spk}
        /\ UNCHANGED <<reg, announced, fg, focus, dead, current, pc, hand>>
    BY <1>3 DEF SkipPile, Open, SanctionDeadRead, SpeakerOnceSanctioned, LoopUntouched, loopVars
  <2> HIDE DEF t, d
  <2>3. w \in Of(d) /\ w.id = nextId + 1 /\ w.session = d
    BY <2>1, LastId, Words DEF NewCue
  <2>4. Sound(q, hand, nextId)
    BY <2>1, EmptiedSound DEF Emptied, Queues
  <2> HIDE DEF w, q
  <2>5. queue' = [q EXCEPT ![d] = EnqueueFront(@, w)] /\ nextId' = nextId + 1
    BY <2>2, <2>3 DEF EnqueueFirst
  <2>6. Sound([q EXCEPT ![d] = EnqueueFront(@, w)], hand, nextId + 1)
    BY <2>1, <2>3, <2>4, FrontSound
  <2>7. RosterTypes'
    BY <2>1, <2>2 DEF RosterTypes
  <2> QED
    BY <2>2, <2>5, <2>6, <2>7, Handled
<1>4. CASE NothingToSkip
  <2>1. AnswerOn(Preferred(Workspace, spk), PilesRead)
    BY <1>4 DEF NothingToSkip
  <2> QED
    BY <2>1, AnswerQueues, Targets
<1>5. CASE StartSession
  <2> DEFINE s == StartTarget
             w == NewCue(s)
             a == Item(nextId + 2, s, FALSE, FALSE, FALSE)
             p == [queue EXCEPT ![s] = <<w>>]
  <2>1. s \in Session
    BY <1>5, Targets DEF StartSession, StoppedNow
  <2>2. /\ present' = present \union {s} /\ spk' = s /\ sanction' \in {s, sanction}
        /\ announced' \in {announced, announced \union {s}}
        /\ UNCHANGED <<reg, fg, focus, dead, current, pc, hand>>
    BY <1>5 DEF StartSession, Open, SanctionDeadRead, LoopUntouched, loopVars
  <2>3. RosterTypes'
    BY <2>1, <2>2 DEF RosterTypes
  <2>4. w \in Of(s) /\ w.id = nextId + 1 /\ w.session = s
    BY <2>1, LastId, Words DEF NewCue
  <2>5. a \in Of(s) /\ a.id = nextId + 2
    BY <2>1, LastId, Words
  <2>6. CASE AnnounceDue(s)
    <3>1. queue' = [queue EXCEPT ![s] = Enqueue(<<w>>, a, Cap)] /\ nextId' = nextId + 2
      BY <1>5, <2>6 DEF StartSession
    <3> HIDE DEF s, w, a
    <3>2. Sound(p, hand, nextId + 1)
      BY <2>1, <2>4, RefilledSound DEF Queues
    <3>3. (nextId + 1) + 1 = nextId + 2
      BY LastId
    <3>4. Sound([p EXCEPT ![s] = Enqueue(@, a, Cap)], hand, nextId + 2)
      <4> HIDE DEF p
      <4> QED
        BY <2>1, <2>5, <3>2, <3>3, BackSound
    <3>5. [p EXCEPT ![s] = Enqueue(@, a, Cap)] = [queue EXCEPT ![s] = Enqueue(<<w>>, a, Cap)]
      BY <2>1 DEF Queues, Sound
    <3> QED
      BY <2>2, <2>3, <3>1, <3>4, <3>5, Handled
  <2>7. CASE ~ AnnounceDue(s)
    <3>1. EnqueueFirst([queue EXCEPT ![s] = <<>>], w)
      BY <1>5, <2>7 DEF StartSession, Emptied
    <3>2. queue' = [[queue EXCEPT ![s] = <<>>] EXCEPT ![s] = EnqueueFront(@, w)] /\ nextId' = nextId + 1
      BY <2>4, <3>1 DEF EnqueueFirst, NewCue, Cue, Item
    <3> HIDE DEF s, w
    <3>3. Sound([queue EXCEPT ![s] = <<>>], hand, nextId)
      BY <2>1, EmptiedSound DEF Queues
    <3>4. Sound([[queue EXCEPT ![s] = <<>>] EXCEPT ![s] = EnqueueFront(@, w)], hand, nextId + 1)
      BY <2>1, <2>4, <3>3, FrontSound
    <3> QED
      BY <2>2, <2>3, <3>2, <3>4, Handled
  <2> QED
    BY <2>6, <2>7
<1>6. CASE StopSession \/ StopAll
  <2>1. /\ present' \subseteq present \union ({spk} \ {None})
        /\ UNCHANGED <<reg, announced, fg, focus, dead, spk, sanction, current, pc, hand>>
    BY <1>6 DEF StopSession, StopAll, Open, rosterVars, LoopUntouched, loopVars
  <2>2. RosterTypes'
    BY <2>1 DEF RosterTypes
  <2>3. CASE UNCHANGED <<queue, nextId>>
    BY <2>1, <2>2, <2>3, Handled DEF Queues
  <2>4. CASE ~ UNCHANGED <<queue, nextId>>
    <3> DEFINE w == NewCue(spk)
    <3>1. spk # None /\ EnqueueWord(w)
      BY <1>6, <2>4 DEF StopSession, StopAll
    <3>2. spk \in Session
      BY <3>1 DEF RosterTypes
    <3>3. w \in Of(spk) /\ w.id = nextId + 1 /\ w.session = spk
      BY <3>2, LastId, Words DEF NewCue
    <3> HIDE DEF w
    <3>4. queue' = [queue EXCEPT ![spk] = Enqueue(@, w, Cap)] /\ nextId' = nextId + 1
      BY <3>1, <3>3 DEF EnqueueWord
    <3>5. Sound([queue EXCEPT ![spk] = Enqueue(@, w, Cap)], hand, nextId + 1)
      BY <3>2, <3>3, BackSound DEF Queues
    <3> QED
      BY <2>1, <2>2, <3>4, <3>5, Handled
  <2> QED
    BY <2>3, <2>4
<1>7. CASE NoDecisionHere
  <2>1. AnswerOn(Preferred(spk, Workspace), {})
    BY <1>7 DEF NoDecisionHere
  <2> QED
    BY <2>1, AnswerQueues, Targets
<1>8. CASE DecisionClosed
  <2> DEFINE d == Preferred(spk, Workspace)
             w == NewCue(d)
  <2>1. d \in Session
    <3>1. Workspace # None
      BY <1>8 DEF DecisionClosed, DecisionQueued
    <3> QED
      BY <3>1, Targets DEF Preferred
  <2>2. /\ present' = present \union {d} /\ EnqueueWord(w)
        /\ UNCHANGED <<reg, announced, fg, focus, dead, spk, sanction, current, pc, hand>>
    BY <1>8 DEF DecisionClosed, Open, modeVars, rosterVars, LoopUntouched, loopVars
  <2> HIDE DEF d
  <2>3. w \in Of(d) /\ w.id = nextId + 1 /\ w.session = d
    BY <2>1, LastId, Words DEF NewCue
  <2> HIDE DEF w
  <2>4. queue' = [queue EXCEPT ![d] = Enqueue(@, w, Cap)] /\ nextId' = nextId + 1
    BY <2>2, <2>3 DEF EnqueueWord
  <2>5. Sound([queue EXCEPT ![d] = Enqueue(@, w, Cap)], hand, nextId + 1)
    BY <2>1, <2>3, BackSound DEF Queues
  <2>6. RosterTypes'
    BY <2>1, <2>2 DEF RosterTypes
  <2> QED
    BY <2>2, <2>4, <2>5, <2>6, Handled
<1>9. CASE JumpDecision
  <2> DEFINE s == Workspace
             j == JumpToDecision(queue[s])
             r == IF stopped[s] THEN ClaimHead(j) ELSE j
             p == [queue EXCEPT ![s] = r]
             w == NewCue(s)
  <2>1. s \in Session
    BY <1>9, Targets DEF JumpDecision, DecisionQueued
  <2>2. /\ fg' \in {fg, s} /\ spk' \in {spk, s} /\ reg' \subseteq reg \union {s}
        /\ UNCHANGED <<present, announced, focus, dead, sanction, current, pc, hand>>
    BY <1>9 DEF JumpDecision, LoopUntouched, loopVars
  <2>3. RosterTypes'
    BY <2>1, <2>2 DEF RosterTypes
  <2>4. (queue' = p /\ nextId' = nextId) \/ EnqueueFirst(p, w)
    BY <1>9 DEF JumpDecision
  <2> HIDE DEF s
  <2>5. Sound(p, hand, nextId)
    BY <2>1, JumpSound DEF Queues
  <2>6. w \in Of(s) /\ w.id = nextId + 1 /\ w.session = s
    BY <2>1, LastId, Words DEF NewCue
  <2> HIDE DEF p, w
  <2>7. CASE queue' = p /\ nextId' = nextId
    BY <2>2, <2>3, <2>5, <2>7, Handled
  <2>8. CASE EnqueueFirst(p, w)
    <3>1. queue' = [p EXCEPT ![s] = EnqueueFront(@, w)] /\ nextId' = nextId + 1
      BY <2>6, <2>8 DEF EnqueueFirst
    <3>2. Sound([p EXCEPT ![s] = EnqueueFront(@, w)], hand, nextId + 1)
      BY <2>1, <2>5, <2>6, FrontSound
    <3> QED
      BY <2>2, <2>3, <3>1, <3>2, Handled
  <2> QED
    BY <2>4, <2>7, <2>8
<1>10. CASE RepeatLast
  <2> DEFINE t == RepeatTarget
             p == [queue EXCEPT ![current.session] = EnqueueFront(@, Recopied)]
  <2>1. t \in Session
    BY <1>10, Targets DEF RepeatLast
  <2>2. current # None => current \in ItemSet /\ current.session \in Session
    BY ItemSession DEF Hands
  <2>3. /\ present' = present \union (IF current = None THEN {t} ELSE {t, current.session})
        /\ EnqueueFirst(IF current = None THEN queue ELSE p,
                        Cue(nextId + (IF current = None THEN 1 ELSE 2), t))
        /\ spk' \in {t, spk} /\ sanction' \in {t, sanction}
        /\ UNCHANGED <<reg, announced, fg, focus, dead, current, pc, hand>>
    BY <1>10 DEF RepeatLast, Open, SanctionDeadRead, SpeakerOnceSanctioned, LoopUntouched, loopVars
  <2> HIDE DEF t
  <2>4. RosterTypes'
    BY <2>1, <2>2, <2>3 DEF RosterTypes
  <2>5. CASE current = None
    <3> DEFINE w == Cue(nextId + 1, t)
    <3>1. w \in Of(t) /\ w.id = nextId + 1 /\ w.session = t
      BY <2>1, LastId, Words
    <3>2. EnqueueFirst(queue, w)
      BY <2>3, <2>5
    <3> HIDE DEF w
    <3>3. queue' = [queue EXCEPT ![t] = EnqueueFront(@, w)] /\ nextId' = nextId + 1
      BY <3>1, <3>2 DEF EnqueueFirst
    <3>4. Sound([queue EXCEPT ![t] = EnqueueFront(@, w)], hand, nextId + 1)
      BY <2>1, <3>1, FrontSound DEF Queues
    <3> QED
      BY <2>3, <2>4, <3>3, <3>4, Handled
  <2>6. CASE current # None
    <3> DEFINE w == Cue(nextId + 2, t)
    <3>1. w \in Of(t) /\ w.id = nextId + 2 /\ w.session = t
      BY <2>1, LastId, Words
    <3>2. EnqueueFirst(p, w)
      BY <2>3, <2>6
    <3>3. Recopied \in Of(current.session) /\ Recopied.id = nextId + 1
      BY <2>2, <2>6, LastId DEF Recopied, ItemSet, Of
    <3>4. Sound(p, hand, nextId + 1)
      BY <2>2, <2>6, <3>3, FrontSound DEF Queues
    <3> HIDE DEF w, p
    <3>5. queue' = [p EXCEPT ![t] = EnqueueFront(@, w)] /\ nextId' = nextId + 2
      BY <3>1, <3>2 DEF EnqueueFirst
    <3>6. (nextId + 1) + 1 = nextId + 2
      BY LastId
    <3>7. Sound([p EXCEPT ![t] = EnqueueFront(@, w)], hand, nextId + 2)
      BY <2>1, <3>1, <3>4, <3>6, FrontSound
    <3> QED
      BY <2>3, <2>4, <3>5, <3>7, Handled
  <2> QED
    BY <2>5, <2>6
<1>11. CASE NothingToRepeat
  <2>1. AnswerOn(RepeatTarget, {})
    BY <1>11 DEF NothingToRepeat
  <2> QED
    BY <2>1, AnswerQueues, Targets
<1>12. CASE JumpWaiting
  <2>1. PICK s \in Session :
           /\ fg' = s /\ spk' = s /\ reg' = reg \union {s}
           /\ EnqueueFirst(queue, NewCue(s))
    <3>1. Asking \subseteq Session /\ WaitingSessions \subseteq Session
      BY DEF Asking, WaitingSessions, RosterTypes
    <3> QED
      BY <1>12, <3>1 DEF JumpWaiting
  <2>2. UNCHANGED <<present, announced, focus, dead, sanction, current, pc, hand>>
    BY <1>12 DEF JumpWaiting, LoopUntouched, loopVars
  <2> DEFINE w == NewCue(s)
  <2>3. w \in Of(s) /\ w.id = nextId + 1 /\ w.session = s
    BY LastId, Words DEF NewCue
  <2> HIDE DEF w
  <2>4. queue' = [queue EXCEPT ![s] = EnqueueFront(@, w)] /\ nextId' = nextId + 1
    BY <2>1, <2>3 DEF EnqueueFirst, w
  <2>5. Sound([queue EXCEPT ![s] = EnqueueFront(@, w)], hand, nextId + 1)
    BY <2>3, FrontSound DEF Queues
  <2>6. RosterTypes'
    BY <2>1, <2>2 DEF RosterTypes
  <2> QED
    BY <2>2, <2>4, <2>5, <2>6, Handled
<1>13. CASE NobodyWaiting
  <2>1. AnswerOn(Preferred(spk, Workspace), {})
    BY <1>13 DEF NobodyWaiting
  <2> QED
    BY <2>1, AnswerQueues, Targets
<1> QED
  BY <1>1, <1>2, <1>3, <1>4, <1>5, <1>6, <1>7, <1>8, <1>9, <1>10, <1>11, <1>12, <1>13 DEF Press

\* The items of a forward readout are numbered from the next id on.
LEMMA ReadoutItems ==
    ASSUME nextId \in Nat, NEW s \in Session, NEW entries \in Seq(Nat), NEW kinds
    PROVE  LET items == Readout(s, entries, kinds)
           IN  /\ items \in Seq(Of(s)) /\ DOMAIN items = DOMAIN entries
               /\ \A i \in DOMAIN entries : items[i].id = nextId + i
               /\ Distinct(items)
               /\ Ids(items) = {nextId + i : i \in DOMAIN entries}
               /\ Ids(items) \subseteq (nextId + 1)..(nextId + Len(entries))
<1> DEFINE items == Readout(s, entries, kinds)
<1>1. items = [i \in 1..Len(entries) |-> Item(nextId + i, s, kinds[i] = "decision", FALSE, TRUE)]
  BY DEF Readout
<1>2. \A i \in 1..Len(entries) :
         /\ nextId + i \in (nextId + 1)..(nextId + Len(entries))
         /\ Item(nextId + i, s, kinds[i] = "decision", FALSE, TRUE) \in Of(s)
         /\ Item(nextId + i, s, kinds[i] = "decision", FALSE, TRUE).id = nextId + i
  BY DEF Item, Of, ItemSet
<1>3. Len(entries) \in Nat /\ DOMAIN entries = 1..Len(entries)
  OBVIOUS
<1> HIDE DEF items
<1>4. DOMAIN items = 1..Len(entries) /\ \A i \in 1..Len(entries) : items[i].id = nextId + i /\ items[i] \in Of(s)
  BY <1>1, <1>2
<1>5. items \in Seq(Of(s))
  <2>1. items \in [1..Len(entries) -> Of(s)]
    BY <1>1, <1>2
  <2> QED
    BY <1>3, <2>1
<1>6. Distinct(items)
  BY <1>3, <1>4 DEF Distinct
<1>7. Ids(items) = {nextId + i : i \in DOMAIN entries}
  BY <1>3, <1>4 DEF Ids
<1>8. Ids(items) \subseteq (nextId + 1)..(nextId + Len(entries))
  BY <1>2, <1>3, <1>7
<1> QED
  BY <1>3, <1>4, <1>5, <1>6, <1>7, <1>8 DEF items

LEMMA ReadoutSound ==
    ASSUME Queues, NEW s \in Session, NEW entries \in Seq(Nat), NEW kinds,
           EnqueueReadout(s, entries, kinds)
    PROVE  Sound(queue', hand, nextId')
<1> DEFINE items == Readout(s, entries, kinds)
           r == EnqueueAll(queue[s], items)
           m == nextId + Len(entries)
<1>1. nextId \in Nat /\ Len(entries) \in Nat
  BY DEF Queues, Sound
<1>2. queue' = [queue EXCEPT ![s] = r] /\ nextId' = m
  BY DEF EnqueueReadout
<1>3. queue[s] \in Seq(Of(s)) /\ Distinct(queue[s]) /\ Ids(queue[s]) \subseteq 0..nextId
  BY DEF Queues, Sound
<1>4. items \in Seq(Of(s)) /\ Distinct(items) /\ Ids(items) \subseteq (nextId + 1)..m
  BY <1>1, ReadoutItems
<1> HIDE DEF items
<1>5. /\ r \in Seq(Of(s)) /\ Ids(r) \subseteq Ids(queue[s]) \union Ids(items)
      /\ Distinct(queue[s]) /\ Distinct(items) /\ Ids(queue[s]) \intersect Ids(items) = {} => Distinct(r)
  BY <1>3, <1>4, EnqueueAllIds
<1> HIDE DEF r
<1>6. (0..nextId) \intersect ((nextId + 1)..m) = {} /\ m \in Nat /\ nextId <= m
  BY <1>1
<1> HIDE DEF m
<1>7. Distinct(r) /\ Ids(r) \subseteq Ids(queue[s]) \union (nextId + 1)..m
  BY <1>3, <1>4, <1>5, <1>6
<1>8. Sound([queue EXCEPT ![s] = r], hand, m)
  BY <1>5, <1>6, <1>7, Replaced DEF Queues
<1> QED
  BY <1>2, <1>8

LEMMA ReportQueues ==
    ASSUME QueueInv, NumInv, NEW s \in Session, Report(s)
    PROVE  QueueInv'
<1> USE DEF QueueInv
<1>1. CASE Prose(s) \/ ProsePartial(s) \/ Tool(s) \/ Decision(s) \/ TurnDone(s)
  <2>1. /\ present' = present \union {s}
        /\ UNCHANGED <<reg, announced, fg, focus, dead, spk, sanction, current, pc, hand>>
    BY <1>1 DEF Prose, ProsePartial, Tool, Decision, TurnDone, Announce, Open, HostUntouched, RosterUntouched, rosterVars, loopVars, modeVars
  <2>2. RosterTypes'
    BY <2>1 DEF RosterTypes
  <2>3. buffer[s] \in Seq(Nat) /\ Append(buffer[s], newest[s] + 1) \in Seq(Nat)
    BY DEF NumInv
  <2>4. \/ UNCHANGED <<queue, nextId>>
        \/ \E entries \in Seq(Nat), kinds \in {ProseKinds(Len(Append(buffer[s], newest[s] + 1))),
               ProseKinds(Len(buffer[s])), Append(ProseKinds(Len(buffer[s])), "tool"),
               Append(ProseKinds(Len(buffer[s])), "decision")} :
             EnqueueReadout(s, entries, kinds)
    BY <1>1, <2>3 DEF Prose, ProsePartial, Tool, Decision, TurnDone, Announce
  <2>5. Sound(queue', hand, nextId')
    BY <2>4, ReadoutSound DEF Queues
  <2> QED
    BY <2>1, <2>2, <2>5, Handled
<1>2. CASE Flush(s)
  <2> DEFINE w == Cue(nextId + 1, s)
  <2>1. /\ present' = present \union {s}
        /\ UNCHANGED <<reg, announced, fg, focus, dead, spk, sanction, current, pc, hand>>
    BY <1>2 DEF Flush, Open, HostUntouched, RosterUntouched, rosterVars, loopVars, modeVars
  <2>2. RosterTypes'
    BY <2>1 DEF RosterTypes
  <2>3. w \in Of(s) /\ w.id = nextId + 1
    BY LastId, Words
  <2>4. \/ queue' = [queue EXCEPT ![s] = <<w>>] /\ nextId' = nextId + 1
        \/ queue' = [queue EXCEPT ![s] = <<>>] /\ nextId' = nextId
    BY <1>2 DEF Flush
  <2> HIDE DEF w
  <2>5. Sound([queue EXCEPT ![s] = <<w>>], hand, nextId + 1)
    BY <2>3, RefilledSound DEF Queues
  <2>6. Sound([queue EXCEPT ![s] = <<>>], hand, nextId)
    BY EmptiedSound DEF Queues
  <2>7. Sound(queue', hand, nextId')
    BY <2>4, <2>5, <2>6
  <2> QED
    BY <2>1, <2>2, <2>7, Handled
<1>3. CASE SetForeground(s) \/ TerminalCloses(s)
  <2>1. /\ present' \subseteq present \union {s} /\ reg' \subseteq reg \union {s}
        /\ dead' \subseteq dead \union {s}
        /\ fg' \in {fg, s} /\ spk' \in {spk, s}
        /\ UNCHANGED <<queue, nextId, announced, focus, sanction, current, pc, hand>>
    BY <1>3 DEF SetForeground, TerminalCloses, PolicyA, Open, streamVars, modeVars, ledgerVars, loopVars
  <2>2. RosterTypes'
    BY <2>1 DEF RosterTypes
  <2> QED
    BY <2>1, <2>2, Handled DEF Queues
<1>4. CASE SessionStart(s)
  <2> DEFINE claims == ~ StoppedNow(s) /\ s \notin announced
             resumes == armed[s] \/ LiftsHold(s)
             a == Item(nextId + 1, s, FALSE, FALSE, FALSE)
             q == [queue EXCEPT ![s] = IF claims THEN Enqueue(queue[s], a, Cap) ELSE queue[s]]
             n == nextId + (IF claims THEN 1 ELSE 0)
             w == Cue(n + 1, s)
  <2>1. /\ present' = present \union {s} /\ reg' = reg \union {s} /\ dead' = dead \ {s}
        /\ announced' \subseteq announced \union {s}
        /\ fg' \in {fg, s} /\ spk' \in {spk, s}
        /\ UNCHANGED <<focus, sanction, current, pc, hand>>
    BY <1>4 DEF SessionStart, PolicyA, Open, loopVars
  <2>2. RosterTypes'
    BY <2>1 DEF RosterTypes
  <2>3. /\ queue' = [queue EXCEPT ![s] = IF resumes THEN EnqueueFront(
                         IF claims THEN Enqueue(queue[s], a, Cap) ELSE queue[s], w)
                       ELSE IF claims THEN Enqueue(queue[s], a, Cap) ELSE queue[s]]
        /\ nextId' = n + (IF resumes THEN 1 ELSE 0)
    BY <1>4 DEF SessionStart
  <2>4. queue \in [Session -> Seq(ItemSet)] /\ n \in Nat
    BY LastId DEF Queues, Sound
  <2>5. a \in Of(s) /\ a.id = nextId + 1 /\ w \in Of(s) /\ w.id = n + 1
    <3>1. n + 1 \in Nat
      BY <2>4
    <3> QED
      BY LastId, <3>1, Words
  <2>6. /\ queue' = IF resumes THEN [q EXCEPT ![s] = EnqueueFront(@, w)] ELSE q
        /\ nextId' = IF resumes THEN n + 1 ELSE n
    <3> DEFINE b == IF claims THEN Enqueue(queue[s], a, Cap) ELSE queue[s]
    <3>1. q = [queue EXCEPT ![s] = b] /\ n \in Nat /\ s \in DOMAIN queue
      BY <2>4
    <3>2. /\ queue' = [queue EXCEPT ![s] = IF resumes THEN EnqueueFront(b, w) ELSE b]
          /\ nextId' = n + (IF resumes THEN 1 ELSE 0)
      BY <2>3
    <3> HIDE DEF b, q, n, w, resumes
    <3>3. q[s] = b
      BY <3>1
    <3>4. [q EXCEPT ![s] = EnqueueFront(@, w)] = [queue EXCEPT ![s] = EnqueueFront(b, w)]
      BY <3>1, <3>3
    <3>5. CASE resumes
      BY <3>2, <3>4, <3>5
    <3>6. CASE ~ resumes
      BY <3>1, <3>2, <3>6
    <3> QED
      BY <3>5, <3>6
  <2> HIDE DEF a, w, resumes, claims
  <2>7. Sound(q, hand, n)
    <3>1. CASE claims
      <4>1. Sound([queue EXCEPT ![s] = Enqueue(@, a, Cap)], hand, nextId + 1)
        BY <2>5, BackSound DEF Queues
      <4> QED
        BY <3>1, <4>1
    <3>2. CASE ~ claims
      <4>1. q = queue /\ n = nextId
        BY <2>4, <3>2, LastId
      <4> QED
        BY <4>1 DEF Queues
    <3> QED
      BY <3>1, <3>2
  <2> HIDE DEF q, n
  <2>8. Sound([q EXCEPT ![s] = EnqueueFront(@, w)], hand, n + 1)
    BY <2>5, <2>7, FrontSound
  <2>9. Sound(queue', hand, nextId')
    BY <2>6, <2>7, <2>8
  <2> QED
    BY <2>1, <2>2, <2>9, Handled
<1>5. CASE SessionEnd(s)
  <2>1. /\ queue' = [queue EXCEPT ![s] = <<>>] /\ present' = present \ {s}
        /\ reg' = reg \ {s} /\ announced' = announced \ {s} /\ dead' = dead \ {s}
        /\ fg' \in {fg, None} /\ spk' \in {spk, None} /\ focus' \in {focus, None}
        /\ UNCHANGED <<nextId, sanction, current, pc, hand>>
    BY <1>5 DEF SessionEnd, loopVars
  <2>2. RosterTypes'
    BY <2>1 DEF RosterTypes
  <2>3. Sound([queue EXCEPT ![s] = <<>>], hand, nextId)
    BY EmptiedSound DEF Queues
  <2> QED
    BY <2>1, <2>2, <2>3, Handled
<1> QED
  BY <1>1, <1>2, <1>3, <1>4, <1>5 DEF Report

LEMMA NextQueues == QueueInv /\ NumInv /\ [Next]_vars => QueueInv'
<1> SUFFICES ASSUME QueueInv, NumInv, [Next]_vars PROVE QueueInv'
  OBVIOUS
<1>1. CASE AudioFault \/ UNCHANGED vars
  BY <1>1 DEF AudioFault, QueueInv, Queues, Hands, RosterTypes, vars, streamVars, flagVars, ledgerVars, modeVars, rosterVars, loopVars
<1> QED
  BY <1>1, LoopQueues, PressQueues, ReportQueues DEF Next

LEMMA NumInvariance == Spec => []NumInv
<1>1. Init => NumInv
  BY DEF Init, InitState, NumInv
<1>2. NumInv /\ [Next]_vars => NumInv'
  BY NextNumbers
<1> QED
  BY <1>1, <1>2, PTL DEF Spec

LEMMA QueueInvariance == Spec => []QueueInv
<1>1. Init => QueueInv
  <2> SUFFICES ASSUME Init PROVE QueueInv
    OBVIOUS
  <2>1. queue = [s \in Session |-> <<>>] /\ hand = None /\ nextId = 0
    BY DEF Init, InitState
  <2>2. Queues
    BY <2>1 DEF Queues, Sound, Distinct, Ids
  <2>3. Hands /\ RosterTypes
    BY RosterAssumption DEF Init, InitState, Hands, Idle, Busy, RosterTypes
  <2> QED
    BY <2>2, <2>3 DEF QueueInv
<1> QED
  BY <1>1, NextQueues, NumInvariance, PTL DEF Spec

\* What the pop boundary hands out is the head of the held voice's queue, or
\* leads a waiting stream that is adopted.
LEMMA Boundary ==
    ASSUME QueueInv, Next, pc = "pop", hand' # None
    PROVE  \/ PopOwn /\ HeldVoice \in Session /\ (hand').session = HeldVoice
           \/ Adopt /\ (hand').session \in Waiting
<1>1. hand = None
  BY DEF QueueInv, Hands, Idle
<1>2. hand' # hand
  BY <1>1
<1>3. PopOwn \/ Adopt
  BY <1>1, <1>2 DEF Next, LoopStep, PopHeldCue, NoHeldCue, CheckStopped, NothingToSay, Claim, SpeakCompletes,
     SpeakCut, SpeakRaises, SignalFailure, Requeue, TailDone, NoteSpoken, AudioFault,
     Press, Stop, Skip, SkipPile, NothingToSkip, StartSession, StopSession, StopAll, NoDecisionHere,
     DecisionClosed, JumpDecision, RepeatLast, NothingToRepeat, JumpWaiting, NobodyWaiting, OsFocus, AnswerOn,
     Report, Prose, ProsePartial, Tool, Decision, TurnDone, Flush, SetForeground, SessionStart, SessionEnd,
     TerminalCloses, Announce, HostUntouched, LoopUntouched, loopVars
<1>4. CASE PopOwn
  <2>1. hand' = Head(queue[HeldVoice]) /\ HeldVoice \in Session /\ queue[HeldVoice] # <<>>
    BY <1>4 DEF PopOwn, Claim, OwnQueueEmpty, HeldVoice, QueueInv, RosterTypes
  <2>2. (hand').session = HeldVoice
    BY <1>1, <2>1, PoppedHead DEF QueueInv, Queues, Of
  <2> QED
    BY <1>4, <2>1, <2>2
<1>5. CASE Adopt
  <2> DEFINE s == LongestWaiting
  <2>1. s \in Waiting
    BY <1>5, LongestIsWaiting DEF Adopt, QueueInv
  <2>2. s \in Session /\ queue[s] # <<>>
    BY <2>1 DEF Waiting, QueueInv, RosterTypes
  <2>3. hand' = Cue(nextId + 1, s) \/ hand' = Head(queue[s])
    BY <1>5 DEF Adopt, Claim
  <2>4. Cue(nextId + 1, s).session = s
    BY DEF Cue, Item
  <2>5. Head(queue[s]).session = s
    BY <1>1, <2>2, PoppedHead DEF QueueInv, Queues, Of
  <2> QED
    BY <1>5, <2>1, <2>3, <2>4, <2>5
<1> QED
  BY <1>3, <1>4, <1>5

\* What a stopped stream holds is not drained until it is started again.
THEOREM StopHoldsTheRestHolds == Spec => StopHoldsTheRest
<1> DEFINE Held == PopsFrom({s \in Session : stopped[s]}, hand')
                      => (hand').cue \/ (hand').session = HeldVoice
<1>1. QueueInv /\ Next => Held
  BY Boundary DEF PopsFrom, Waiting
<1>2. QueueInv /\ [Next]_vars => [Held]_vars
  BY <1>1
<1> QED
  BY <1>2, QueueInvariance, PTL DEF Spec, StopHoldsTheRest

\* Nothing of a dead session is popped unless a press asked for it and the
\* voice has not left it since, even if its terminal closes in the middle of
\* its backlog.
THEOREM DeadAwaitAPress == Spec => [][PopsSanctioned]_vars
<1>1. QueueInv /\ Next => PopsSanctioned
  <2>1. HeldVoice \in Session /\ HeldVoice \in dead => sanction = HeldVoice
    BY NoneAssumption DEF HeldVoice, LiveSanction
  <2> QED
    BY <2>1, Boundary DEF PopsSanctioned, PopsFrom, Waiting
<1>2. QueueInv /\ [Next]_vars => [PopsSanctioned]_vars
  BY <1>1
<1> QED
  BY <1>2, QueueInvariance, PTL DEF Spec

-----------------------------------------------------------------------------
(* The types of what is left: modes, flags of a stream, the turn's locals *)

RestTypes == ModeTypes /\ LoopTypes

LEMMA LoopRest ==
    ASSUME RestTypes, QueueInv, LoopStep
    PROVE  RestTypes'
<1> USE DEF LoopStep, PopHeldCue, NoHeldCue, CheckStopped, PopOwn, Adopt, NothingToSay, SpeakCompletes,
       SpeakCut, SpeakRaises, SignalFailure, Requeue, TailDone, NoteSpoken
<1>1. UNCHANGED <<voiceState, whole, deferred, partial, broken, sent>>
  BY DEF streamVars, flagVars, modeVars
<1>2. markResume' \in BOOLEAN
  BY DEF modeVars, RestTypes, ModeTypes
<1>3. lastUtt' \in BOOLEAN
  BY DEF ledgerVars, RestTypes, ModeTypes
<1>4. exempt' \in BOOLEAN /\ done' \in BOOLEAN /\ cut' \in BOOLEAN
  BY DEF Claim, EndTurn, RestTypes, LoopTypes
<1>5. outstanding' \subseteq Session
  <2>1. SignalFailure => hand.session \in Session
    BY ItemSession DEF QueueInv, Hands, Busy
  <2> QED
    BY <2>1 DEF RestTypes, LoopTypes
<1> QED
  BY <1>1, <1>2, <1>3, <1>4, <1>5 DEF RestTypes, ModeTypes, LoopTypes

LEMMA PressRest ==
    ASSUME RestTypes, Press
    PROVE  RestTypes'
<1> USE DEF Press, Stop, Skip, SkipPile, NothingToSkip, StartSession, StopSession, StopAll, NoDecisionHere,
       DecisionClosed, JumpDecision, RepeatLast, NothingToRepeat, JumpWaiting, NobodyWaiting, OsFocus, AnswerOn
<1>1. UNCHANGED <<exempt, done, broken, outstanding, markResume>>
  BY DEF LoopUntouched, loopVars, modeVars
<1>2. UNCHANGED <<partial, lastUtt>>
  BY DEF streamVars, ledgerVars
<1>3. sent' = sent + 1
  BY DEF Receive
<1>4. voiceState' \in VoiceStates
  BY DEF modeVars, VoiceStates, RestTypes, ModeTypes
<1>5. whole' \in BOOLEAN
  BY DEF modeVars, SanctionDeadRead, RestTypes, ModeTypes
<1>6. cut' \in BOOLEAN
  BY DEF Cancel, CancelIf, RestTypes, LoopTypes
<1>7. deferred' \in [Session -> BOOLEAN]
  BY DEF streamVars, flagVars, RestTypes, ModeTypes
<1> QED
  BY <1>1, <1>2, <1>3, <1>4, <1>5, <1>6, <1>7 DEF RestTypes, ModeTypes, LoopTypes

LEMMA ReportRest ==
    ASSUME RestTypes, NEW s \in Session, Report(s)
    PROVE  RestTypes'
<1> USE DEF Report, Prose, ProsePartial, Tool, Decision, TurnDone, Flush, SetForeground, SessionStart, SessionEnd,
       TerminalCloses, Announce
<1>1. UNCHANGED <<exempt, done, broken, outstanding, whole>>
  BY DEF HostUntouched, loopVars, modeVars
<1>2. lastUtt' = lastUtt
  BY DEF HostUntouched, ledgerVars
<1>3. sent' = sent + 1
  BY DEF Receive
<1>4. voiceState' \in VoiceStates
  BY DEF HostUntouched, PolicyA, modeVars, VoiceStates, RestTypes, ModeTypes
<1>5. markResume' \in BOOLEAN
  BY DEF HostUntouched, modeVars, RestTypes, ModeTypes
<1>6. cut' \in BOOLEAN
  BY DEF CancelIf, RestTypes, LoopTypes
<1>7. deferred' \in [Session -> BOOLEAN]
  BY DEF streamVars, flagVars, RestTypes, ModeTypes
<1>8. partial' \in [Session -> BOOLEAN]
  BY DEF streamVars, flagVars, RestTypes, ModeTypes
<1> QED
  BY <1>1, <1>2, <1>3, <1>4, <1>5, <1>6, <1>7, <1>8 DEF RestTypes, ModeTypes, LoopTypes

LEMMA InitRest == Init => RestTypes
<1> SUFFICES ASSUME Init PROVE RestTypes
  OBVIOUS
<1>1. /\ voiceState = "flowing" /\ markResume = FALSE /\ whole = FALSE /\ lastUtt = FALSE /\ sent = 0
      /\ exempt = FALSE /\ done = FALSE /\ cut = FALSE /\ broken = FALSE /\ outstanding = {}
  BY DEF Init, InitState
<1>2. deferred \in [Session -> BOOLEAN] /\ partial \in [Session -> BOOLEAN]
  BY DEF Init, InitState
<1> QED
  BY <1>1, <1>2 DEF RestTypes, ModeTypes, LoopTypes, VoiceStates

LEMMA NextRest == RestTypes /\ QueueInv /\ [Next]_vars => RestTypes'
<1> SUFFICES ASSUME RestTypes, QueueInv, [Next]_vars PROVE RestTypes'
  OBVIOUS
<1>1. CASE AudioFault \/ UNCHANGED vars
  <2>1. /\ UNCHANGED <<voiceState, markResume, whole, deferred, partial, lastUtt, exempt, done, cut, outstanding>>
        /\ sent' \in {sent, sent + 1}
    BY <1>1 DEF AudioFault, Receive, vars, streamVars, flagVars, ledgerVars, modeVars, loopVars
  <2>2. broken' \in BOOLEAN
    BY <1>1 DEF AudioFault, RestTypes, LoopTypes, vars, loopVars
  <2> QED
    BY <2>1, <2>2 DEF RestTypes, ModeTypes, LoopTypes
<1> QED
  BY <1>1, LoopRest, PressRest, ReportRest DEF Next

LEMMA RestInvariance == Spec => []RestTypes
  BY InitRest, NextRest, QueueInvariance, PTL DEF Spec

LEMMA AllTypes == FlagInv /\ NumInv /\ QueueInv /\ RestTypes => TypeOK
<1> SUFFICES ASSUME FlagInv, NumInv, QueueInv, RestTypes PROVE TypeOK
  OBVIOUS
<1>1. /\ stopped \in [Session -> BOOLEAN] /\ armed \in [Session -> BOOLEAN]
      /\ buffer \in [Session -> Seq(Nat)] /\ frontier \in [Session -> Nat]
      /\ newest \in [Session -> Nat] /\ markers \subseteq MarkerSet /\ nextId \in Nat
  BY DEF FlagInv, FlagTypes, NumInv
<1>2. /\ queue \in [Session -> Seq(ItemSet)]
      /\ pc \in {"held", "check", "pop", "speak", "failing", "tail", "note"}
      /\ hand \in ItemSet \union {None} /\ current \in ItemSet \union {None}
  BY DEF QueueInv, Queues, Sound, Hands, Idle, Busy
<1>3. /\ present \subseteq Session /\ reg \subseteq Session /\ announced \subseteq Session /\ dead \subseteq Session
      /\ {fg, spk, focus} \subseteq Session \union {None} /\ sanction \in Session \union {None}
  BY DEF QueueInv, RosterTypes
<1>4. /\ deferred \in [Session -> BOOLEAN] /\ partial \in [Session -> BOOLEAN] /\ lastUtt \in BOOLEAN
      /\ voiceState \in VoiceStates /\ markResume \in BOOLEAN /\ whole \in BOOLEAN
      /\ {exempt, done, cut, broken} \subseteq BOOLEAN /\ outstanding \subseteq Session /\ sent \in Nat
  BY DEF RestTypes, ModeTypes, LoopTypes
<1> QED
  BY <1>1, <1>2, <1>3, <1>4 DEF TypeOK

\* Whatever is pressed, reported or spoken, every part of the daemon's state
\* stays what it is meant to be: queues hold items, streams belong to sessions,
\* markers bind items to entries.
THEOREM TypeCorrect == Spec => []TypeOK
  BY AllTypes, FlagInvariance, NumInvariance, QueueInvariance, RestInvariance, PTL

-----------------------------------------------------------------------------
(* The ledger of markers: a marker's item waits in the queue of the marker's *)
(* session or is in the speak thread's hands.                               *)

Accounted(q, h, M) ==
    \A m \in M :
        \/ m.session \in Session /\ m.id \in Ids(q[m.session])
        \/ h # None /\ m.id = h.id /\ m.session = h.session

Ledger == Accounted(queue, hand, markers)

LEMMA LedgerAccounts == Ledger => MarkersAccounted
<1> DEFINE H == IF InHand THEN {hand.id} ELSE {}
<1>1. ASSUME NEW x
      PROVE  x \in LiveIds <=> (\E s \in Session : x \in Ids(queue[s])) \/ (hand # None /\ x = hand.id)
  <2>1. x \in Queued <=> \E s \in Session : x \in Ids(queue[s])
    BY DEF Queued, QueuedIds
  <2>2. x \in H <=> hand # None /\ x = hand.id
    BY DEF InHand
  <2>3. LiveIds = Queued \union H
    BY DEF LiveIds
  <2> HIDE DEF H
  <2> QED
    BY <2>1, <2>2, <2>3
<1> QED
  BY <1>1 DEF Ledger, MarkersAccounted, Accounted

\* The markers left when the items `gone' have gone.
Spared(M, gone) == {m \in M : m.id \notin gone}

LEMMA SparedIs == \A ids : Without(ids) = Spared(markers, ids)
  BY DEF Without, Spared

\* A queue loses only ids whose markers go.
LEMMA Lost ==
    ASSUME NEW q, NEW h, NEW n, NEW M, NEW s \in Session, NEW r, NEW gone,
           Sound(q, h, n), Accounted(q, h, M), Ids(q[s]) \ gone \subseteq Ids(r)
    PROVE  Accounted([q EXCEPT ![s] = r], h, Spared(M, gone))
<1> DEFINE p == [q EXCEPT ![s] = r]
<1>1. p[s] = r /\ \A t \in Session : t # s => p[t] = q[t]
  BY DEF Sound
<1> HIDE DEF p
<1>2. ASSUME NEW m \in M, m.id \notin gone
      PROVE  \/ m.session \in Session /\ m.id \in Ids(p[m.session])
             \/ h # None /\ m.id = h.id /\ m.session = h.session
  <2>1. CASE h # None /\ m.id = h.id /\ m.session = h.session
    BY <2>1
  <2>2. CASE m.session \in Session /\ m.id \in Ids(q[m.session])
    BY <1>1, <1>2, <2>2
  <2> QED
    BY <2>1, <2>2 DEF Accounted
<1> QED
  BY <1>2 DEF Accounted, p, Spared

\* ... and with nothing lost, none has to go.
LEMMA Kept ==
    ASSUME NEW q, NEW h, NEW n, NEW M, NEW s \in Session, NEW r,
           Sound(q, h, n), Accounted(q, h, M), Ids(q[s]) \subseteq Ids(r)
    PROVE  Accounted([q EXCEPT ![s] = r], h, M)
<1>1. Ids(q[s]) \ {} \subseteq Ids(r)
  OBVIOUS
<1>2. Accounted([q EXCEPT ![s] = r], h, Spared(M, {}))
  BY <1>1, Lost
<1>3. Spared(M, {}) = M
  BY DEF Spared
<1> QED
  BY <1>2, <1>3

LEMMA FrontKept ==
    ASSUME NEW q, NEW h, NEW n, NEW M, NEW s \in Session, NEW it \in Of(s),
           Sound(q, h, n), Accounted(q, h, M)
    PROVE  Accounted([q EXCEPT ![s] = EnqueueFront(@, it)], h, M)
<1>1. q[s] \in Seq(Of(s))
  BY DEF Sound
<1>2. Ids(q[s]) \subseteq Ids(EnqueueFront(q[s], it))
  BY <1>1, EnqueueFrontIds
<1> QED
  BY <1>2, Kept

LEMMA BackKept ==
    ASSUME NEW q, NEW h, NEW n, NEW M, NEW s \in Session, NEW it \in Of(s), NEW cap,
           Sound(q, h, n), Accounted(q, h, M)
    PROVE  Accounted([q EXCEPT ![s] = Enqueue(@, it, cap)], h, Spared(M, EvictedIds(q[s], cap)))
<1>1. q[s] \in Seq(Of(s))
  BY DEF Sound
<1>2. Ids(q[s]) \ EvictedIds(q[s], cap) \subseteq Ids(Enqueue(q[s], it, cap))
  BY <1>1, EnqueueIds
<1> QED
  BY <1>2, Lost

LEMMA ClearedKept ==
    ASSUME NEW q, NEW h, NEW n, NEW M, NEW s \in Session, NEW r,
           Sound(q, h, n), Accounted(q, h, M)
    PROVE  Accounted([q EXCEPT ![s] = r], h, Spared(M, Ids(q[s])))
<1>1. Ids(q[s]) \ Ids(q[s]) \subseteq Ids(r)
  OBVIOUS
<1> QED
  BY <1>1, Lost

\* An item passes to the speak thread, markers and all.
LEMMA PoppedKept ==
    ASSUME NEW q, NEW n, NEW M, NEW s \in Session, NEW r, NEW it,
           Sound(q, None, n), Accounted(q, None, M), it \in Of(s),
           Ids(q[s]) \subseteq Ids(r) \union {it.id}
    PROVE  Accounted([q EXCEPT ![s] = r], it, M)
<1> DEFINE p == [q EXCEPT ![s] = r]
<1>1. p[s] = r /\ \A t \in Session : t # s => p[t] = q[t]
  BY DEF Sound
<1> HIDE DEF p
<1>2. it # None /\ it.session = s
  BY NoneAssumption DEF Of
<1>3. ASSUME NEW m \in M
      PROVE  \/ m.session \in Session /\ m.id \in Ids(p[m.session])
             \/ it # None /\ m.id = it.id /\ m.session = it.session
  <2>1. m.session \in Session /\ m.id \in Ids(q[m.session])
    BY DEF Accounted
  <2>2. m.id \in Ids(p[m.session]) \/ (m.id = it.id /\ m.session = s)
    BY <1>1, <2>1
  <2> QED
    BY <1>2, <2>1, <2>2
<1> QED
  BY <1>3 DEF Accounted, p

LEMMA LoopAccounts ==
    ASSUME QueueInv, Ledger, LoopStep
    PROVE  Ledger'
<1>1. Sound(queue, hand, nextId) /\ Accounted(queue, hand, markers)
  BY DEF Ledger, QueueInv, Queues
<1>2. ASSUME Accounted(queue', hand', markers') PROVE Ledger'
  BY <1>2 DEF Ledger
<1>3. CASE PopHeldCue
  <2> DEFINE s == OldestHeldCue
             q == queue[s]
             it == q[CueAt(q)]
             r == PopControlCue(q)
  <2>1. hand = None /\ s \in Session /\ HasCue(q)
    BY <1>3, OldestIsHolding DEF PopHeldCue, HoldingCue, QueueInv, Hands, Idle
  <2>2. hand' = it /\ queue' = [queue EXCEPT ![s] = r] /\ markers' = markers
    BY <1>3 DEF PopHeldCue, Claim, ledgerVars
  <2> HIDE DEF s
  <2>3. q \in Seq(Of(s))
    BY <1>1, <2>1 DEF Sound
  <2> HIDE DEF q
  <2>4. CueAt(q) \in 1..Len(q)
    BY <2>1, <2>3, CuePlace
  <2>5. it \in Of(s)
    BY <2>3, <2>4
  <2>7. Ids(q) \subseteq Ids(r) \union {it.id}
    BY <2>3, <2>4, RemoveAtIds DEF PopControlCue
  <2> HIDE DEF it, r
  <2>8. Accounted([queue EXCEPT ![s] = r], it, markers)
    BY <1>1, <2>1, <2>5, <2>7, PoppedKept DEF q
  <2> QED
    BY <1>2, <2>2, <2>8
<1>4. CASE PopOwn \/ Adopt
  <2>1. hand = None
    BY <1>4 DEF PopOwn, Adopt, QueueInv, Hands, Idle
  <2>2. CASE queue' = queue
    <3>1. markers' = markers
      BY <1>4 DEF PopOwn, Adopt, ledgerVars
    <3> QED
      BY <1>1, <1>2, <2>1, <2>2, <3>1 DEF Accounted
  <2>3. CASE queue' # queue
    <3>1. PICK s \in Session : /\ queue[s] # <<>> /\ hand' = Head(queue[s])
                               /\ queue' = [queue EXCEPT ![s] = Tail(@)]
      <4>1. CASE PopOwn
        <5>1. HeldVoice \in Session /\ queue[HeldVoice] # <<>>
          BY <4>1 DEF PopOwn, OwnQueueEmpty, HeldVoice, QueueInv, RosterTypes
        <5> QED
          BY <4>1, <5>1 DEF PopOwn, Claim
      <4>2. CASE Adopt
        <5>1. LongestWaiting \in Session /\ queue[LongestWaiting] # <<>>
          BY <4>2, LongestIsWaiting DEF Adopt, Waiting, QueueInv, RosterTypes
        <5> QED
          BY <2>3, <4>2, <5>1 DEF Adopt, Claim
      <4> QED
        BY <1>4, <4>1, <4>2
    <3>2. markers' = markers
      BY <1>4 DEF PopOwn, Adopt, ledgerVars
    <3>3. queue[s] \in Seq(Of(s))
      BY <1>1 DEF Sound
    <3>4. Head(queue[s]) \in Of(s) /\ Ids(queue[s]) \subseteq Ids(Tail(queue[s])) \union {Head(queue[s]).id}
      BY <3>1, <3>3, TailIds
    <3>6. Accounted([queue EXCEPT ![s] = Tail(@)], Head(queue[s]), markers)
      BY <1>1, <2>1, <3>4, PoppedKept
    <3> QED
      BY <1>2, <3>1, <3>2, <3>6
  <2> QED
    BY <2>2, <2>3
<1>5. CASE NoHeldCue \/ NothingToSay
  <2>1. hand = None /\ hand' = None /\ queue' = queue /\ markers' = markers
    BY <1>5 DEF NoHeldCue, NothingToSay, Claim, QueueInv, Hands, Idle, streamVars, ledgerVars
  <2> QED
    BY <1>1, <1>2, <2>1
<1>6. CASE CheckStopped \/ SpeakCompletes \/ SpeakCut \/ SpeakRaises \/ TailDone
  <2>1. hand' = hand /\ queue' = queue /\ markers' = markers
    BY <1>6 DEF CheckStopped, SpeakCompletes, SpeakCut, SpeakRaises, TailDone, streamVars, ledgerVars
  <2> QED
    BY <1>1, <1>2, <2>1
<1>7. CASE SignalFailure
  <2>1. hand' = hand
    BY <1>7 DEF SignalFailure
  <2>2. CASE WordOutstanding(hand.session)
    <3>1. queue' = queue /\ markers' = markers
      BY <1>7, <2>2 DEF SignalFailure, streamVars
    <3> QED
      BY <1>1, <1>2, <2>1, <3>1
  <2>3. CASE ~ WordOutstanding(hand.session)
    <3> DEFINE s == hand.session
               w == Cue(nextId + 1, s)
    <3>1. s \in Session /\ nextId + 1 \in Nat
      BY <1>7, ItemSession, LastId DEF SignalFailure, QueueInv, Hands, Busy
    <3>2. EnqueueWord(w)
      BY <1>7, <2>3 DEF SignalFailure
    <3> HIDE DEF s
    <3>3. w \in Of(s) /\ w.session = s
      BY <3>1, Words
    <3> HIDE DEF w
    <3>4. /\ queue' = [queue EXCEPT ![s] = Enqueue(@, w, Cap)]
          /\ markers' = Spared(markers, EvictedIds(queue[s], Cap))
      BY <3>2, <3>3, SparedIs DEF EnqueueWord
    <3>5. Accounted([queue EXCEPT ![s] = Enqueue(@, w, Cap)], hand, Spared(markers, EvictedIds(queue[s], Cap)))
      BY <1>1, <3>1, <3>3, BackKept
    <3> QED
      BY <1>2, <2>1, <3>4, <3>5
  <2> QED
    BY <2>2, <2>3
<1>8. CASE Requeue
  <2> DEFINE s == hand.session
             r == EnqueueFront(queue[s], hand)
             p == [queue EXCEPT ![s] = r]
  <2>1. hand' = None /\ markers' = markers /\ queue' = p /\ s \in Session /\ hand \in ItemSet
    BY <1>8, ItemSession DEF Requeue, EndTurn, ledgerVars, QueueInv, Hands, Busy
  <2>2. hand \in Of(s) /\ queue[s] \in Seq(Of(s))
    BY <1>1, <2>1 DEF Of, Sound
  <2>3. Ids(r) = Ids(queue[s]) \union {hand.id}
    BY <2>2, EnqueueFrontIds
  <2>4. p[s] = r
    BY <1>1, <2>1 DEF Sound
  <2>5. Accounted(p, hand, markers)
    <3> HIDE DEF s
    <3> QED
      BY <1>1, <2>1, <2>2, FrontKept
  <2> HIDE DEF p, r
  <2>6. Accounted(p, None, markers)
    BY <2>1, <2>3, <2>4, <2>5 DEF Accounted
  <2> QED
    BY <1>2, <2>1, <2>6
<1>9. CASE NoteSpoken
  <2>1. hand' = None /\ queue' = queue /\ markers' = {m \in markers : m.id # hand.id}
    BY <1>9 DEF NoteSpoken, EndTurn, Without
  <2>2. Accounted(queue, None, {m \in markers : m.id # hand.id})
    BY <1>1 DEF Accounted
  <2> QED
    BY <1>2, <2>1, <2>2
<1> QED
  BY <1>3, <1>4, <1>5, <1>6, <1>7, <1>8, <1>9 DEF LoopStep

\* What a handler leaves is Accounted of its own queues and markers.
LEMMA AccountedOn ==
    ASSUME hand' = hand, Accounted(queue', hand, markers')
    PROVE  Ledger'
  BY DEF Ledger

LEMMA AnswerAccounts ==
    ASSUME QueueInv, Ledger, NEW dest \in Session \union {None}, NEW S, AnswerOn(dest, S)
    PROVE  Ledger'
<1> DEFINE w == NewCue(dest)
<1>1. dest \in Session /\ EnqueueFirst(queue, w) /\ UNCHANGED <<hand, markers>>
  BY DEF AnswerOn, LoopUntouched, loopVars
<1>2. w \in Of(dest) /\ w.session = dest
  BY <1>1, LastId, Words DEF NewCue
<1> HIDE DEF w
<1>3. queue' = [queue EXCEPT ![dest] = EnqueueFront(@, w)]
  BY <1>1, <1>2 DEF EnqueueFirst
<1>4. Accounted([queue EXCEPT ![dest] = EnqueueFront(@, w)], hand, markers)
  BY <1>1, <1>2, FrontKept DEF QueueInv, Queues, Ledger
<1> QED
  BY <1>1, <1>3, <1>4, AccountedOn

\* A marker under another id.
LEMMA Renumbered ==
    ASSUME NEW m \in MarkerSet, NEW x
    PROVE  /\ [m EXCEPT !.id = x].id = x
           /\ [m EXCEPT !.id = x].session = m.session /\ [m EXCEPT !.id = x].entry = m.entry
  BY DEF MarkerSet

LEMMA PressAccounts ==
    ASSUME QueueInv, NumInv, Ledger, Press
    PROVE  Ledger'
<1>1. Sound(queue, hand, nextId) /\ Accounted(queue, hand, markers)
  BY DEF Ledger, QueueInv, Queues
<1>2. RosterTypes
  BY DEF QueueInv
<1>3. hand' = hand
  BY DEF Press, Stop, Skip, SkipPile, NothingToSkip, StartSession, StopSession, StopAll, NoDecisionHere,
     DecisionClosed, JumpDecision, RepeatLast, NothingToRepeat, JumpWaiting, NobodyWaiting, OsFocus, AnswerOn,
     LoopUntouched, loopVars
<1>4. CASE Stop
  <2>1. CASE fg \in present
    <3>1. /\ fg \in Session /\ queue' = [queue EXCEPT ![fg] = <<>>]
          /\ markers' = Spared(markers, Ids(queue[fg]))
      BY <1>2, <1>4, <2>1, SparedIs DEF Stop, Emptied, RosterTypes
    <3>2. Accounted([queue EXCEPT ![fg] = <<>>], hand, Spared(markers, Ids(queue[fg])))
      BY <1>1, <3>1, ClearedKept
    <3> QED
      BY <1>3, <3>1, <3>2, AccountedOn
  <2>2. CASE fg \notin present
    BY <1>1, <1>3, <1>4, <2>2, AccountedOn DEF Stop
  <2> QED
    BY <2>1, <2>2
<1>5. CASE Skip \/ OsFocus
  <2>1. UNCHANGED <<queue, markers>>
    BY <1>5 DEF Skip, OsFocus, streamVars, ledgerVars
  <2> QED
    BY <1>1, <1>3, <2>1, AccountedOn
<1>6. CASE SkipPile
  <2> DEFINE t == PileTarget
             d == IF spk \notin {None, t} THEN spk ELSE t
             w == NewCue(d)
             q == Emptied(t)
             M == Spared(markers, Ids(queue[t]))
  <2>1. t \in Session /\ d \in Session
    BY <1>2, <1>6, Targets DEF SkipPile, RosterTypes
  <2>2. EnqueueFirst(q, w) /\ markers' = M
    BY <1>6, SparedIs DEF SkipPile
  <2> HIDE DEF t, d
  <2>3. w \in Of(d) /\ w.session = d
    BY <2>1, LastId, Words DEF NewCue
  <2>4. Sound(q, hand, nextId) /\ Accounted(q, hand, M)
    BY <1>1, <2>1, EmptiedSound, ClearedKept DEF Emptied
  <2> HIDE DEF w, q, M
  <2>5. queue' = [q EXCEPT ![d] = EnqueueFront(@, w)]
    BY <2>2, <2>3 DEF EnqueueFirst
  <2>6. Accounted([q EXCEPT ![d] = EnqueueFront(@, w)], hand, M)
    BY <2>1, <2>3, <2>4, FrontKept
  <2> QED
    BY <1>3, <2>2, <2>5, <2>6, AccountedOn
<1>7. CASE NothingToSkip \/ NoDecisionHere \/ NothingToRepeat \/ NobodyWaiting
  BY <1>2, <1>7, Targets, AnswerAccounts DEF NothingToSkip, NoDecisionHere, NothingToRepeat, NobodyWaiting
<1>8. CASE StartSession
  <2> DEFINE s == StartTarget
  <2>1. s \in Session
    BY <1>2, <1>8, Targets DEF StartSession, StoppedNow
  <2>2. markers' = Spared(markers, Ids(queue[s]))
    BY <1>8, SparedIs DEF StartSession
  <2>3. \E r : queue' = [queue EXCEPT ![s] = r]
    <3>1. CASE AnnounceDue(s)
      BY <1>8, <3>1 DEF StartSession
    <3>2. CASE ~ AnnounceDue(s)
      <4>1. EnqueueFirst([queue EXCEPT ![s] = <<>>], NewCue(s))
        BY <1>8, <3>2 DEF StartSession, Emptied
      <4> HIDE DEF s
      <4>2. queue' = [[queue EXCEPT ![s] = <<>>] EXCEPT ![s] = EnqueueFront(@, NewCue(s))]
        BY <4>1 DEF EnqueueFirst, NewCue, Cue, Item
      <4>3. queue' = [queue EXCEPT ![s] = EnqueueFront(<<>>, NewCue(s))]
        BY <1>1, <2>1, <4>2 DEF Sound
      <4> QED
        BY <4>3
    <3> QED
      BY <3>1, <3>2
  <2> HIDE DEF s
  <2>4. PICK r : queue' = [queue EXCEPT ![s] = r]
    BY <2>3
  <2>5. Accounted([queue EXCEPT ![s] = r], hand, Spared(markers, Ids(queue[s])))
    BY <1>1, <2>1, ClearedKept
  <2> QED
    BY <1>3, <2>2, <2>4, <2>5, AccountedOn
<1>9. CASE StopSession \/ StopAll \/ DecisionClosed
  <2>1. CASE UNCHANGED <<queue, markers>>
    BY <1>1, <1>3, <2>1, AccountedOn
  <2>2. CASE ~ UNCHANGED <<queue, markers>>
    <3>1. PICK d \in Session : EnqueueWord(NewCue(d))
      <4>1. spk # None => spk \in Session
        BY <1>2 DEF RosterTypes
      <4>2. DecisionClosed => Preferred(spk, Workspace) \in Session
        BY <1>2, Targets DEF DecisionClosed, DecisionQueued, Preferred
      <4> QED
        BY <1>9, <2>2, <4>1, <4>2 DEF StopSession, StopAll, DecisionClosed
    <3> DEFINE w == NewCue(d)
    <3>2. w \in Of(d) /\ w.session = d
      BY LastId, Words DEF NewCue
    <3> HIDE DEF w
    <3>3. /\ queue' = [queue EXCEPT ![d] = Enqueue(@, w, Cap)]
          /\ markers' = Spared(markers, EvictedIds(queue[d], Cap))
      BY <3>1, <3>2, SparedIs DEF EnqueueWord, w
    <3>4. Accounted([queue EXCEPT ![d] = Enqueue(@, w, Cap)], hand, Spared(markers, EvictedIds(queue[d], Cap)))
      BY <1>1, <3>2, BackKept
    <3> QED
      BY <1>3, <3>3, <3>4, AccountedOn
  <2> QED
    BY <2>1, <2>2
<1>10. CASE JumpDecision
  <2> DEFINE s == Workspace
             j == JumpToDecision(queue[s])
             r == IF stopped[s] THEN ClaimHead(j) ELSE j
             p == [queue EXCEPT ![s] = r]
             w == NewCue(s)
             M == Spared(markers, JumpedIds(queue[s]))
  <2>1. s \in Session
    BY <1>2, <1>10, Targets DEF JumpDecision, DecisionQueued
  <2>2. markers' = M
    BY <1>10, SparedIs DEF JumpDecision
  <2>3. queue' = p \/ EnqueueFirst(p, w)
    BY <1>10 DEF JumpDecision
  <2> HIDE DEF s
  <2>4. queue[s] \in Seq(Of(s))
    BY <1>1, <2>1 DEF Sound
  <2>5. j \in Seq(Of(s)) /\ Ids(queue[s]) \subseteq Ids(j) \union JumpedIds(queue[s])
    BY <2>4, JumpIds
  <2>6. \A it \in Of(s) : [it EXCEPT !.cue = TRUE] \in Of(s)
    BY DEF Of, ItemSet
  <2>7. Ids(ClaimHead(j)) = Ids(j)
    <3> HIDE DEF j
    <3> QED
      BY <2>5, <2>6, ClaimHeadIds
  <2>8. Ids(queue[s]) \ JumpedIds(queue[s]) \subseteq Ids(r)
    <3> HIDE DEF j
    <3> QED
      BY <2>5, <2>7
  <2>9. Sound(p, hand, nextId)
    BY <1>1, <2>1, JumpSound
  <2>10. w \in Of(s) /\ w.session = s
    BY <2>1, LastId, Words DEF NewCue
  <2> HIDE DEF r, w
  <2>11. Accounted(p, hand, M)
    BY <1>1, <2>1, <2>8, Lost
  <2> HIDE DEF p, M
  <2>12. CASE queue' = p
    BY <1>3, <2>2, <2>11, <2>12, AccountedOn
  <2>13. CASE EnqueueFirst(p, w)
    <3>1. queue' = [p EXCEPT ![s] = EnqueueFront(@, w)]
      BY <2>10, <2>13 DEF EnqueueFirst
    <3>2. Accounted([p EXCEPT ![s] = EnqueueFront(@, w)], hand, M)
      BY <2>1, <2>9, <2>10, <2>11, FrontKept
    <3> QED
      BY <1>3, <2>2, <3>1, <3>2, AccountedOn
  <2> QED
    BY <2>3, <2>12, <2>13
<1>11. CASE RepeatLast
  <2> DEFINE t == RepeatTarget
             c == current.session
             p == [queue EXCEPT ![c] = EnqueueFront(@, Recopied)]
             new == {[m EXCEPT !.id = nextId + 1] : m \in {m \in markers : current # None /\ m.id = current.id}}
  <2>1. t \in Session
    BY <1>2, <1>11, Targets DEF RepeatLast
  <2>2. current # None => current \in ItemSet /\ c \in Session
    BY ItemSession DEF QueueInv, Hands
  <2>3. /\ EnqueueFirst(IF current = None THEN queue ELSE p,
                        Cue(nextId + (IF current = None THEN 1 ELSE 2), t))
        /\ markers' = markers \union new
    BY <1>11 DEF RepeatLast
  <2> HIDE DEF t
  <2>4. CASE current = None
    <3> DEFINE w == Cue(nextId + 1, t)
    <3>1. w \in Of(t) /\ w.session = t
      BY <2>1, LastId, Words
    <3>2. EnqueueFirst(queue, w)
      BY <2>3, <2>4
    <3>3. markers' = markers
      BY <2>3, <2>4
    <3> HIDE DEF w
    <3>4. queue' = [queue EXCEPT ![t] = EnqueueFront(@, w)]
      BY <3>1, <3>2 DEF EnqueueFirst
    <3>5. Accounted([queue EXCEPT ![t] = EnqueueFront(@, w)], hand, markers)
      BY <1>1, <2>1, <3>1, FrontKept
    <3> QED
      BY <1>3, <3>3, <3>4, <3>5, AccountedOn
  <2>5. CASE current # None
    <3> DEFINE w == Cue(nextId + 2, t)
               M == markers \union new
    <3>1. w \in Of(t) /\ w.session = t
      BY <2>1, LastId, Words
    <3>2. EnqueueFirst(p, w)
      BY <2>3, <2>5
    <3>3. Recopied \in Of(c) /\ Recopied.id = nextId + 1
      BY <2>2, <2>5, LastId DEF Recopied, ItemSet, Of
    <3>4. Sound(p, hand, nextId + 1)
      BY <1>1, <2>2, <2>5, <3>3, FrontSound
    <3>5. nextId + 1 \in Ids(p[c])
      <4>1. p[c] = EnqueueFront(queue[c], Recopied) /\ queue[c] \in Seq(Of(c))
        BY <1>1, <2>2, <2>5 DEF Sound
      <4> HIDE DEF p, c
      <4> QED
        BY <3>3, <4>1, EnqueueFrontIds
    <3>6. Accounted(p, hand, markers)
      BY <1>1, <2>2, <2>5, <3>3, FrontKept
    <3>7. ASSUME NEW m \in markers, m.id = current.id
          PROVE  m \in MarkerSet /\ m.session = c
      <4>1. current = hand /\ hand # None
        BY <2>5 DEF QueueInv, Hands
      <4>2. \A u \in Session : hand.id \notin Ids(queue[u])
        BY <1>1, <4>1 DEF Sound
      <4>3. m.session = hand.session
        BY <1>1, <3>7, <4>1, <4>2 DEF Accounted
      <4> QED
        BY <4>1, <4>3 DEF NumInv
    <3>11. ASSUME NEW k \in new PROVE k.id = nextId + 1 /\ k.session = c
      <4>1. PICK m \in markers : m.id = current.id /\ k = [m EXCEPT !.id = nextId + 1]
        OBVIOUS
      <4> HIDE DEF c
      <4> QED
        BY <3>7, <4>1, Renumbered
    <3> HIDE DEF p, w, new
    <3>8. Accounted(p, hand, M)
      BY <2>2, <2>5, <3>5, <3>6, <3>11 DEF Accounted
    <3> HIDE DEF M
    <3>9. queue' = [p EXCEPT ![t] = EnqueueFront(@, w)]
      BY <3>1, <3>2 DEF EnqueueFirst
    <3>10. Accounted([p EXCEPT ![t] = EnqueueFront(@, w)], hand, M)
      BY <2>1, <3>1, <3>4, <3>8, FrontKept
    <3> QED
      BY <1>3, <2>3, <3>9, <3>10, AccountedOn DEF M
  <2> QED
    BY <2>4, <2>5
<1>12. CASE JumpWaiting
  <2>1. PICK s \in Session : EnqueueFirst(queue, NewCue(s))
    <3>1. Asking \subseteq Session /\ WaitingSessions \subseteq Session
      BY <1>2 DEF Asking, WaitingSessions, RosterTypes
    <3> QED
      BY <1>12, <3>1 DEF JumpWaiting
  <2> DEFINE w == NewCue(s)
  <2>2. markers' = markers
    BY <1>12 DEF JumpWaiting
  <2>3. w \in Of(s) /\ w.session = s
    BY LastId, Words DEF NewCue
  <2> HIDE DEF w
  <2>4. queue' = [queue EXCEPT ![s] = EnqueueFront(@, w)]
    BY <2>1, <2>3 DEF EnqueueFirst, w
  <2>5. Accounted([queue EXCEPT ![s] = EnqueueFront(@, w)], hand, markers)
    BY <1>1, <2>3, FrontKept
  <2> QED
    BY <1>3, <2>2, <2>4, <2>5, AccountedOn
<1> QED
  BY <1>4, <1>5, <1>6, <1>7, <1>8, <1>9, <1>10, <1>11, <1>12 DEF Press

\* A forward readout: the markers of what the cap pushes out go, the items'
\* own come.
LEMMA ReadoutAccounts ==
    ASSUME QueueInv, Ledger, NEW s \in Session, NEW entries \in Seq(Nat), NEW kinds,
           EnqueueReadout(s, entries, kinds), hand' = hand
    PROVE  Ledger'
<1> DEFINE items == Readout(s, entries, kinds)
           r == EnqueueAll(queue[s], items)
           p == [queue EXCEPT ![s] = r]
           both == Ids(queue[s] \o items)
           bound == {Marker(nextId + i, s, entries[i]) : i \in DOMAIN entries}
<1>1. Sound(queue, hand, nextId) /\ Accounted(queue, hand, markers) /\ nextId \in Nat
  BY LastId DEF Ledger, QueueInv, Queues
<1>2. queue' = p /\ markers' = {m \in markers \union bound : m.id \notin EvictedBy(queue[s], items)}
  BY DEF EnqueueReadout
<1>3. EvictedBy(queue[s], items) = both \ Ids(r)
  BY DEF EvictedBy
<1>4. /\ items \in Seq(Of(s)) /\ DOMAIN items = DOMAIN entries
      /\ \A i \in DOMAIN entries : items[i].id = nextId + i
  BY <1>1, ReadoutItems
<1>5. queue[s] \in Seq(Of(s)) /\ p[s] = r /\ \A t \in Session : t # s => p[t] = queue[t]
  BY <1>1 DEF Sound
<1> HIDE DEF items, r, p
<1>6. Ids(queue[s]) \subseteq both /\ Ids(items) \subseteq both
  <2> DEFINE q == queue[s] \o items
  <2>1. /\ Len(queue[s]) \in Nat /\ Len(q) = Len(queue[s]) + Len(items)
        /\ \A i \in 1..Len(queue[s]) : q[i] = queue[s][i]
        /\ \A i \in 1..Len(items) : q[Len(queue[s]) + i] = items[i]
    BY <1>4, <1>5
  <2>2. /\ \A i \in DOMAIN queue[s] : i \in DOMAIN q
        /\ \A i \in DOMAIN items : Len(queue[s]) + i \in DOMAIN q
    BY <1>4, <1>5, <2>1
  <2>3. DOMAIN queue[s] = 1..Len(queue[s]) /\ DOMAIN items = 1..Len(items)
    BY <1>4, <1>5
  <2> HIDE DEF q
  <2>4. Ids(queue[s]) \subseteq Ids(q)
    BY <2>1, <2>2, <2>3 DEF Ids
  <2>5. Ids(items) \subseteq Ids(q)
    BY <2>1, <2>2, <2>3 DEF Ids
  <2> QED
    BY <2>4, <2>5 DEF q
<1>7. \A m \in bound : m.id \in Ids(items) /\ m.session = s
  <2> SUFFICES ASSUME NEW i \in DOMAIN entries
               PROVE  /\ Marker(nextId + i, s, entries[i]).id \in Ids(items)
                      /\ Marker(nextId + i, s, entries[i]).session = s
    OBVIOUS
  <2> QED
    BY <1>4 DEF Marker, Ids
<1> HIDE DEF bound, both
<1>8. ASSUME NEW m \in markers'
      PROVE  \/ m.session \in Session /\ m.id \in Ids(p[m.session])
             \/ hand # None /\ m.id = hand.id /\ m.session = hand.session
  <2>1. m.id \in both => m.id \in Ids(r)
    BY <1>2, <1>3
  <2>2. CASE m \in bound
    BY <1>5, <1>6, <1>7, <2>1, <2>2
  <2>3. CASE m \in markers
    <3>1. CASE hand # None /\ m.id = hand.id /\ m.session = hand.session
      BY <3>1
    <3>2. CASE m.session \in Session /\ m.id \in Ids(queue[m.session])
      <4>1. m.session = s => m.id \in Ids(r)
        BY <1>6, <2>1, <3>2
      <4> QED
        BY <1>5, <3>2, <4>1
    <3> QED
      BY <1>1, <2>3, <3>1, <3>2 DEF Accounted
  <2> QED
    BY <1>2, <2>2, <2>3
<1> QED
  BY <1>2, <1>8 DEF Ledger, Accounted

LEMMA ReportAccounts ==
    ASSUME QueueInv, NumInv, Ledger, NEW s \in Session, Report(s)
    PROVE  Ledger'
<1>1. Sound(queue, hand, nextId) /\ Accounted(queue, hand, markers)
  BY DEF Ledger, QueueInv, Queues
<1>2. hand' = hand
  BY DEF Report, Prose, ProsePartial, Tool, Decision, TurnDone, Flush, SetForeground, SessionStart, SessionEnd,
     TerminalCloses, Announce, HostUntouched, loopVars
<1>3. CASE Prose(s) \/ ProsePartial(s) \/ Tool(s) \/ Decision(s) \/ TurnDone(s)
  <2>1. buffer[s] \in Seq(Nat) /\ Append(buffer[s], newest[s] + 1) \in Seq(Nat)
    BY DEF NumInv
  <2>2. \/ UNCHANGED <<queue, markers>>
        \/ \E entries \in Seq(Nat), kinds \in {ProseKinds(Len(Append(buffer[s], newest[s] + 1))),
               ProseKinds(Len(buffer[s])), Append(ProseKinds(Len(buffer[s])), "tool"),
               Append(ProseKinds(Len(buffer[s])), "decision")} :
             EnqueueReadout(s, entries, kinds)
    BY <1>3, <2>1 DEF Prose, ProsePartial, Tool, Decision, TurnDone, Announce
  <2>3. CASE UNCHANGED <<queue, markers>>
    BY <1>1, <1>2, <2>3, AccountedOn
  <2> QED
    BY <1>2, <2>2, <2>3, ReadoutAccounts
<1>4. CASE Flush(s) \/ SessionEnd(s)
  <2>1. markers' = Spared(markers, Ids(queue[s]))
    BY <1>4, SparedIs DEF Flush, SessionEnd
  <2>2. PICK r \in {<<>>, <<Cue(nextId + 1, s)>>} : queue' = [queue EXCEPT ![s] = r]
    BY <1>4 DEF Flush, SessionEnd
  <2>3. Accounted([queue EXCEPT ![s] = r], hand, Spared(markers, Ids(queue[s])))
    BY <1>1, ClearedKept
  <2> QED
    BY <1>2, <2>1, <2>2, <2>3, AccountedOn
<1>5. CASE SetForeground(s) \/ TerminalCloses(s)
  <2>1. UNCHANGED <<queue, markers>>
    BY <1>5 DEF SetForeground, TerminalCloses, streamVars, ledgerVars
  <2> QED
    BY <1>1, <1>2, <2>1, AccountedOn
<1>6. CASE SessionStart(s)
  <2> DEFINE claims == ~ StoppedNow(s) /\ s \notin announced
             resumes == armed[s] \/ LiftsHold(s)
             a == Item(nextId + 1, s, FALSE, FALSE, FALSE)
             b == IF claims THEN Enqueue(queue[s], a, Cap) ELSE queue[s]
             gone == IF claims THEN EvictedIds(queue[s], Cap) ELSE {}
             n == nextId + (IF claims THEN 1 ELSE 0)
             w == Cue(n + 1, s)
             r == IF resumes THEN EnqueueFront(b, w) ELSE b
  <2>1. queue' = [queue EXCEPT ![s] = r] /\ markers' = Spared(markers, gone)
    BY <1>6, SparedIs DEF SessionStart
  <2>2. queue[s] \in Seq(Of(s)) /\ n + 1 \in Nat
    BY <1>1, LastId DEF Sound
  <2>3. a \in Of(s) /\ w \in Of(s)
    BY <2>2, LastId, Words
  <2> HIDE DEF a, w, claims
  <2>4. b \in Seq(Of(s)) /\ Ids(queue[s]) \ gone \subseteq Ids(b)
    BY <2>2, <2>3, EnqueueIds
  <2> HIDE DEF b, gone, resumes
  <2>5. Ids(b) \subseteq Ids(r)
    BY <2>3, <2>4, EnqueueFrontIds
  <2>6. Ids(queue[s]) \ gone \subseteq Ids(r)
    BY <2>4, <2>5
  <2> HIDE DEF r
  <2>7. Accounted([queue EXCEPT ![s] = r], hand, Spared(markers, gone))
    BY <1>1, <2>6, Lost
  <2> QED
    BY <1>2, <2>1, <2>7, AccountedOn
<1> QED
  BY <1>3, <1>4, <1>5, <1>6 DEF Report

LEMMA LedgerInvariance == Spec => []Ledger
<1>1. Init => Ledger
  BY DEF Init, InitState, Ledger, Accounted
<1>2. Ledger /\ QueueInv /\ NumInv /\ [Next]_vars => Ledger'
  <2> SUFFICES ASSUME Ledger, QueueInv, NumInv, [Next]_vars PROVE Ledger'
    OBVIOUS
  <2>1. CASE AudioFault \/ UNCHANGED vars
    BY <2>1 DEF AudioFault, Ledger, vars, streamVars, ledgerVars, loopVars
  <2> QED
    BY <2>1, LoopAccounts, PressAccounts, ReportAccounts DEF Next
<1> QED
  BY <1>1, <1>2, QueueInvariance, NumInvariance, PTL DEF Spec

\* Whatever empties, caps, jumps or requeues, no marker is left behind by the
\* item it belongs to: it can still be resolved.
THEOREM MarkersAccountedHolds == Spec => []MarkersAccounted
  BY LedgerInvariance, LedgerAccounts, PTL

-----------------------------------------------------------------------------
(* Entries.  Most steps leave them alone.                                    *)

\* An entry nobody has recorded is neither buffered, nor waited for, nor dealt
\* with.  A session's end takes its transcript and leaves the marker of the
\* utterance in flight, so this is claimed only where no session ends.
Recorded ==
    /\ \A s \in Session : frontier[s] <= newest[s]
    /\ \A s \in Session : \A i \in DOMAIN buffer[s] : buffer[s][i] <= newest[s]
    /\ \A m \in markers : m.entry <= newest[m.session]

LEMMA RecordedFrame ==
    ASSUME Recorded, UNCHANGED Numbers, markers' \subseteq markers
    PROVE  Recorded'
  BY DEF Recorded, Numbers

\* A transcript grows by one entry, and entries up to it are buffered or queued.
LEMMA RecordedGrows ==
    ASSUME NumInv, Recorded, NEW s \in Session, NEW k \in {0, 1},
           newest' = [newest EXCEPT ![s] = @ + k], UNCHANGED frontier,
           \A m \in markers' : m \in markers \/ (m.session = s /\ m.entry <= newest[s] + k),
           NEW b, buffer' = [buffer EXCEPT ![s] = b], \A i \in DOMAIN b : b[i] <= newest[s] + k
    PROVE  Recorded'
<1>1. /\ \A t \in Session : newest[t] \in Nat /\ newest'[t] \in Nat /\ newest[t] <= newest'[t]
      /\ newest'[s] = newest[s] + k
  BY DEF NumInv
<1>2. buffer'[s] = b /\ \A t \in Session : t # s => buffer'[t] = buffer[t] /\ newest'[t] = newest[t]
  BY DEF NumInv
<1>3. \A t \in Session : frontier'[t] <= newest'[t]
  BY <1>1 DEF NumInv, Recorded
<1>4. ASSUME NEW t \in Session, NEW i \in DOMAIN buffer'[t] PROVE buffer'[t][i] <= newest'[t]
  BY <1>1, <1>2 DEF Recorded
<1>5. ASSUME NEW m \in markers' PROVE m.entry <= newest'[m.session]
  <2>1. CASE m \in markers
    <3>1. m.session \in Session /\ m.entry \in Nat /\ m.entry <= newest[m.session]
      BY <2>1 DEF NumInv, MarkerSet, Recorded
    <3> QED
      BY <1>1, <3>1
  <2>2. CASE m.session = s /\ m.entry <= newest[s] + k
    BY <1>1, <2>2
  <2> QED
    BY <2>1, <2>2
<1> QED
  BY <1>3, <1>4, <1>5 DEF Recorded

LEMMA ReadoutMarkers ==
    ASSUME NEW s, NEW entries, NEW kinds, EnqueueReadout(s, entries, kinds)
    PROVE  \A m \in markers' : m \in markers \/ \E i \in DOMAIN entries : m = Marker(nextId + i, s, entries[i])
  BY DEF EnqueueReadout

\* A transcript's next entry behind the buffered ones.
LEMMA NextEntry ==
    ASSUME NumInv, NEW s \in Session
    PROVE  LET held == Append(buffer[s], newest[s] + 1)
           IN  /\ held \in Seq(Nat) /\ DOMAIN held = 1..(Len(buffer[s]) + 1)
               /\ DOMAIN buffer[s] = 1..Len(buffer[s]) /\ Len(buffer[s]) \in Nat
               /\ \A i \in 1..Len(buffer[s]) : held[i] = buffer[s][i]
               /\ held[Len(buffer[s]) + 1] = newest[s] + 1
<1>1. buffer[s] \in Seq(Nat) /\ newest[s] + 1 \in Nat
  BY DEF NumInv
<1> QED
  BY <1>1

LEMMA HeldRecorded ==
    ASSUME NumInv, Recorded, NEW s \in Session
    PROVE  LET held == Append(buffer[s], newest[s] + 1)
           IN  \A i \in DOMAIN held : held[i] <= newest[s] + 1
<1> DEFINE held == Append(buffer[s], newest[s] + 1)
           n == Len(buffer[s])
<1>1. /\ DOMAIN held = 1..(n + 1) /\ n \in Nat /\ DOMAIN buffer[s] = 1..n
      /\ \A i \in 1..n : held[i] = buffer[s][i]
      /\ held[n + 1] = newest[s] + 1 /\ newest[s] \in Nat
      /\ \A i \in DOMAIN held : held[i] \in Nat
  BY NextEntry DEF NumInv
<1>2. \A i \in DOMAIN buffer[s] : buffer[s][i] <= newest[s]
  BY DEF Recorded
<1> HIDE DEF held, n
<1>3. ASSUME NEW i \in DOMAIN held PROVE held[i] <= newest[s] + 1
  <2>1. i \in 1..n \/ i = n + 1
    BY <1>1
  <2>2. CASE i \in 1..n
    <3>1. held[i] <= newest[s] /\ held[i] \in Nat
      BY <1>1, <1>2, <2>2
    <3> QED
      BY <1>1, <3>1
  <2>3. CASE i = n + 1
    BY <1>1, <2>3
  <2> QED
    BY <2>1, <2>2, <2>3
<1> QED
  BY <1>3 DEF held

LEMMA AnnounceRecorded ==
    ASSUME NumInv, Recorded, NEW s \in Session, NEW kind, Announce(s, kind)
    PROVE  Recorded'
<1> DEFINE held == Append(buffer[s], newest[s] + 1)
<1>1. \A i \in DOMAIN held : held[i] <= newest[s] + 1
  BY HeldRecorded
<1>2. /\ newest' = [newest EXCEPT ![s] = @ + 1] /\ UNCHANGED frontier
      /\ buffer' = [buffer EXCEPT ![s] = <<>>]
      /\ EnqueueReadout(s, held, Append(ProseKinds(Len(buffer[s])), kind))
  BY DEF Announce
<1> HIDE DEF held
<1>3. \A m \in markers' : m \in markers \/ (m.session = s /\ m.entry <= newest[s] + 1)
  BY <1>1, <1>2, ReadoutMarkers DEF Marker
<1>4. \A i \in DOMAIN <<>> : <<>>[i] <= newest[s] + 1
  OBVIOUS
<1> QED
  BY <1>2, <1>3, <1>4, RecordedGrows

\* The markers of the item in hand are its own session's.
LEMMA NotedOwn ==
    ASSUME QueueInv, Ledger, hand # None
    PROVE  \A m \in Noted : m \in markers /\ m.session = hand.session
<1>1. \A s \in Session : hand.id \notin Ids(queue[s])
  BY DEF QueueInv, Queues, Sound
<1> QED
  BY <1>1 DEF Ledger, Accounted, Noted

LEMMA NextRecorded ==
    ASSUME "SESSION_END" \notin Messages, QueueInv, NumInv, Ledger, Recorded, [Next]_vars
    PROVE  Recorded'
<1>1. CASE UNCHANGED vars \/ AudioFault
  BY <1>1, RecordedFrame DEF AudioFault, Numbers, vars, streamVars, ledgerVars
<1>2. CASE LoopStep
  <2>1. UNCHANGED <<newest, buffer>> /\ markers' \subseteq markers
    BY <1>2, LoopEntries
  <2>2. CASE UNCHANGED frontier
    BY <2>1, <2>2, RecordedFrame DEF Numbers
  <2>3. CASE frontier' # frontier
    <3> DEFINE m == CHOOSE m \in Noted : TRUE
    <3>1. NoteSpoken /\ Noted # {}
      BY <1>2, <2>3, LoopEntries DEF NoteSpoken
    <3>2. m \in Noted
      BY <3>1
    <3>3. frontier' = [frontier EXCEPT ![hand.session] = IF m.entry > @ THEN m.entry ELSE @]
      BY <2>3, <3>1 DEF NoteSpoken, Advance
    <3>4. hand # None
      BY <3>1, NoneAssumption DEF NoteSpoken, QueueInv, Hands, Busy
    <3> HIDE DEF m
    <3>5. m \in markers /\ m.session = hand.session
      BY <3>2, <3>4, NotedOwn
    <3>6. m.entry <= newest[hand.session]
      BY <3>5 DEF Recorded
    <3>7. \A s \in Session : frontier'[s] <= newest[s]
      BY <3>3, <3>6 DEF NumInv, Recorded
    <3> QED
      BY <2>1, <3>7 DEF Recorded
  <2> QED
    BY <2>2, <2>3
<1>3. CASE Press
  <2>1. CASE UNCHANGED Numbers /\ markers' \subseteq markers
    BY <2>1, RecordedFrame
  <2>2. CASE SkipPile
    <3>1. /\ frontier' = [frontier EXCEPT ![PileTarget] = newest[PileTarget]]
          /\ UNCHANGED <<newest, buffer>> /\ markers' \subseteq markers
      BY <2>2 DEF SkipPile, Without
    <3>2. \A s \in Session : frontier'[s] <= newest[s]
      BY <3>1 DEF NumInv, Recorded
    <3> QED
      BY <3>1, <3>2 DEF Recorded
  <2>3. CASE StartSession
    <3>1. /\ buffer' = [buffer EXCEPT ![StartTarget] = <<>>]
          /\ UNCHANGED <<newest, frontier>> /\ markers' \subseteq markers
      BY <2>3 DEF StartSession, Without
    <3>2. \A s \in Session : buffer'[s] \in {buffer[s], <<>>}
      BY <3>1 DEF NumInv
    <3> QED
      BY <3>1, <3>2 DEF Recorded
  <2>4. CASE RepeatLast
    <3>1. /\ UNCHANGED Numbers
          /\ markers' = markers \union {[m EXCEPT !.id = nextId + 1] :
                                           m \in {m \in markers : current # None /\ m.id = current.id}}
      BY <2>4 DEF RepeatLast, Numbers
    <3>2. ASSUME NEW k \in markers' PROVE \E m \in markers : k.session = m.session /\ k.entry = m.entry
      <4>1. k \in markers \/ \E m \in markers : k = [m EXCEPT !.id = nextId + 1]
        BY <3>1
      <4>2. CASE \E m \in markers : k = [m EXCEPT !.id = nextId + 1]
        <5>1. PICK m \in markers : k = [m EXCEPT !.id = nextId + 1]
          BY <4>2
        <5>2. m \in MarkerSet
          BY DEF NumInv
        <5>3. k.session = m.session /\ k.entry = m.entry
          BY <5>1, <5>2, Renumbered
        <5> QED
          BY <5>3
      <4> QED
        BY <4>1, <4>2
    <3> QED
      BY <3>1, <3>2 DEF Recorded, Numbers
  <2> QED
    BY <1>3, <2>1, <2>2, <2>3, <2>4, PressEntries
<1>4. CASE \E s \in Session : Report(s)
  <2>1. PICK s \in Session : Report(s)
    BY <1>4
  <2>2. ~ SessionEnd(s)
    BY DEF SessionEnd, Receive
  <2>3. CASE ProsePartial(s) \/ SetForeground(s) \/ SessionStart(s) \/ TerminalCloses(s)
    BY <2>3, ReportEntries, RecordedFrame
  <2>4. CASE Tool(s) \/ Decision(s)
    BY <2>4, AnnounceRecorded DEF Tool, Decision
  <2>5. CASE Prose(s)
    <3> DEFINE held == Append(buffer[s], newest[s] + 1)
    <3>1. \A i \in DOMAIN held : held[i] <= newest[s] + 1
      BY HeldRecorded
    <3>2. /\ newest' = [newest EXCEPT ![s] = @ + 1] /\ UNCHANGED frontier
          /\ \/ /\ buffer' = [buffer EXCEPT ![s] = <<>>]
                /\ EnqueueReadout(s, held, ProseKinds(Len(held)))
             \/ buffer' = [buffer EXCEPT ![s] = held] /\ UNCHANGED markers
      BY <2>5 DEF Prose
    <3> HIDE DEF held
    <3>3. \A m \in markers' : m \in markers \/ (m.session = s /\ m.entry <= newest[s] + 1)
      BY <3>1, <3>2, ReadoutMarkers DEF Marker
    <3>4. \A i \in DOMAIN <<>> : <<>>[i] <= newest[s] + 1
      OBVIOUS
    <3> QED
      BY <3>1, <3>2, <3>3, <3>4, RecordedGrows
  <2>6. CASE TurnDone(s) \/ Flush(s)
    <3>1. /\ UNCHANGED <<newest, frontier>> /\ buffer' = [buffer EXCEPT ![s] = <<>>]
          /\ markers' \subseteq markers \/ EnqueueReadout(s, buffer[s], ProseKinds(Len(buffer[s])))
      BY <2>6 DEF TurnDone, Flush, Without
    <3>2. \A i \in DOMAIN buffer[s] : buffer[s][i] <= newest[s] + 0
      BY DEF NumInv, Recorded
    <3>3. \A m \in markers' : m \in markers \/ (m.session = s /\ m.entry <= newest[s] + 0)
      BY <3>1, <3>2, ReadoutMarkers DEF Marker
    <3>4. newest' = [newest EXCEPT ![s] = @ + 0] /\ \A i \in DOMAIN <<>> : <<>>[i] <= newest[s] + 0
      BY <3>1 DEF NumInv
    <3> QED
      BY <3>1, <3>3, <3>4, RecordedGrows
  <2> QED
    BY <2>1, <2>2, <2>3, <2>4, <2>5, <2>6 DEF Report
<1> QED
  BY <1>1, <1>2, <1>3, <1>4 DEF Next

LEMMA RecordedInvariance ==
    ASSUME "SESSION_END" \notin Messages
    PROVE  Spec => []Recorded
<1>1. Init => Recorded
  BY DEF Init, InitState, Recorded
<1>2. Recorded /\ QueueInv /\ NumInv /\ Ledger /\ [Next]_vars => Recorded'
  BY NextRecorded
<1> QED
  BY <1>1, <1>2, QueueInvariance, NumInvariance, LedgerInvariance, PTL DEF Spec

\* While no session ends, what is heard, waiting and recorded agree: every
\* marker's item is alive and no frontier is ahead of its transcript.
THEOREM LedgerSoundHolds ==
    ASSUME "SESSION_END" \notin Messages
    PROVE  Spec => []LedgerSound
<1>1. Recorded => FrontierWithinTranscript
  BY DEF Recorded, FrontierWithinTranscript
<1>2. TypeOK /\ MarkersAccounted /\ FrontierWithinTranscript => LedgerSound
  BY DEF LedgerSound
<1> QED
  BY <1>1, <1>2, TypeCorrect, MarkersAccountedHolds, RecordedInvariance, PTL

\* An entry is bound to one item: it is buffered once or has been queued, and
\* the item queued for it is the only one that ever carried it.  A session's end
\* numbers its entries anew and a repeat copies an item, so this is claimed of
\* behaviours with neither.
Bound ==
    /\ \A s \in Session : \A i, j \in DOMAIN buffer[s] : buffer[s][i] = buffer[s][j] => i = j
    /\ \A m \in markers : \A i \in DOMAIN buffer[m.session] : buffer[m.session][i] # m.entry
    /\ \A m, n \in markers : m.session = n.session /\ m.entry = n.entry => m.id = n.id

LEMMA BoundFrame ==
    ASSUME Bound, NumInv, markers' \subseteq markers,
           \A s \in Session : buffer'[s] \in {buffer[s], <<>>}
    PROVE  Bound'
<1>1. \A m \in markers : m.session \in Session
  BY DEF NumInv, MarkerSet
<1>2. \A s \in Session : \A i, j \in DOMAIN buffer'[s] : buffer'[s][i] = buffer'[s][j] => i = j
  BY DEF Bound
<1>3. \A m \in markers' : \A i \in DOMAIN buffer'[m.session] : buffer'[m.session][i] # m.entry
  BY <1>1 DEF Bound
<1>4. \A m, n \in markers' : m.session = n.session /\ m.entry = n.entry => m.id = n.id
  BY DEF Bound
<1> QED
  BY <1>2, <1>3, <1>4 DEF Bound

\* A readout of entries that nothing was queued for.
LEMMA BoundReadout ==
    ASSUME Bound, NumInv, NEW s \in Session, NEW entries, NEW kinds,
           EnqueueReadout(s, entries, kinds), buffer' = [buffer EXCEPT ![s] = <<>>],
           \A i, j \in DOMAIN entries : entries[i] = entries[j] => i = j,
           \A m \in markers : m.session = s => \A i \in DOMAIN entries : entries[i] # m.entry
    PROVE  Bound'
<1>1. \A m \in markers : m.session \in Session
  BY DEF NumInv, MarkerSet
<1>2. buffer'[s] = <<>> /\ \A t \in Session : t # s => buffer'[t] = buffer[t]
  BY DEF NumInv
<1>3. ASSUME NEW m \in markers'
      PROVE  m \in markers \/ \E i \in DOMAIN entries : m.id = nextId + i /\ m.session = s /\ m.entry = entries[i]
  BY ReadoutMarkers DEF Marker
<1>4. ASSUME NEW m \in markers', NEW i \in DOMAIN buffer'[m.session] PROVE buffer'[m.session][i] # m.entry
  <2>1. m.session = s \/ m \in markers
    BY <1>3
  <2>2. CASE m.session = s
    BY <1>2, <2>2
  <2>3. CASE m.session # s
    <3>1. m \in markers /\ buffer'[m.session] = buffer[m.session]
      BY <1>1, <1>2, <2>1, <2>3
    <3> QED
      BY <3>1 DEF Bound
  <2> QED
    BY <2>2, <2>3
<1>5. ASSUME NEW m \in markers', NEW n \in markers', m.session = n.session, m.entry = n.entry PROVE m.id = n.id
  <2>1. CASE m \in markers /\ n \in markers
    BY <1>5, <2>1 DEF Bound
  <2>2. CASE m \notin markers
    <3>1. PICK i \in DOMAIN entries : m.id = nextId + i /\ m.session = s /\ m.entry = entries[i]
      BY <1>3, <2>2
    <3>2. n \notin markers
      BY <1>5, <3>1
    <3>3. PICK j \in DOMAIN entries : n.id = nextId + j /\ n.session = s /\ n.entry = entries[j]
      BY <1>3, <3>2
    <3> QED
      BY <1>5, <3>1, <3>3
  <2>3. CASE n \notin markers
    <3>1. PICK j \in DOMAIN entries : n.id = nextId + j /\ n.session = s /\ n.entry = entries[j]
      BY <1>3, <2>3
    <3>2. m \notin markers
      BY <1>5, <3>1
    <3>3. PICK i \in DOMAIN entries : m.id = nextId + i /\ m.session = s /\ m.entry = entries[i]
      BY <1>3, <3>2
    <3> QED
      BY <1>5, <3>1, <3>3
  <2> QED
    BY <2>1, <2>2, <2>3
<1>6. \A t \in Session : \A i, j \in DOMAIN buffer'[t] : buffer'[t][i] = buffer'[t][j] => i = j
  BY <1>2 DEF Bound
<1> QED
  BY <1>4, <1>5, <1>6 DEF Bound

\* The next entry is neither buffered nor queued for.
LEMMA HeldBound ==
    ASSUME Bound, NumInv, Recorded, NEW s \in Session
    PROVE  LET held == Append(buffer[s], newest[s] + 1)
           IN  /\ \A i, j \in DOMAIN held : held[i] = held[j] => i = j
               /\ \A m \in markers : m.session = s => \A i \in DOMAIN held : held[i] # m.entry
<1> DEFINE held == Append(buffer[s], newest[s] + 1)
           n == Len(buffer[s])
<1>1. /\ DOMAIN held = 1..(n + 1) /\ n \in Nat /\ DOMAIN buffer[s] = 1..n
      /\ \A i \in 1..n : held[i] = buffer[s][i]
      /\ held[n + 1] = newest[s] + 1 /\ newest[s] \in Nat
      /\ \A i \in 1..n : buffer[s][i] \in Nat
  BY NextEntry DEF NumInv
<1>2. /\ \A i \in 1..n : buffer[s][i] <= newest[s]
      /\ \A m \in markers : m.session = s => m.entry <= newest[s] /\ m.entry \in Nat
  BY <1>1 DEF Recorded, NumInv, MarkerSet
<1>3. /\ \A i, j \in 1..n : buffer[s][i] = buffer[s][j] => i = j
      /\ \A m \in markers : m.session = s => \A i \in 1..n : buffer[s][i] # m.entry
  BY <1>1 DEF Bound
<1> HIDE DEF held, n
<1>4. \A i \in DOMAIN held : i \in 1..n \/ i = n + 1
  BY <1>1
<1>5. \A i \in 1..n : held[i] # held[n + 1]
  <2> SUFFICES ASSUME NEW i \in 1..n PROVE held[i] # held[n + 1]
    OBVIOUS
  <2>1. held[i] \in Nat /\ held[i] <= newest[s]
    BY <1>1, <1>2
  <2> QED
    BY <1>1, <2>1
<1>6. ASSUME NEW i \in DOMAIN held, NEW j \in DOMAIN held, held[i] = held[j] PROVE i = j
  BY <1>1, <1>3, <1>4, <1>5, <1>6
<1>7. ASSUME NEW m \in markers, m.session = s, NEW i \in DOMAIN held PROVE held[i] # m.entry
  <2>1. CASE i \in 1..n
    BY <1>1, <1>3, <1>7, <2>1
  <2>2. CASE i = n + 1
    <3>1. m.entry <= newest[s] /\ m.entry \in Nat /\ held[i] = newest[s] + 1
      BY <1>1, <1>2, <1>7, <2>2
    <3> QED
      BY <1>1, <3>1
  <2> QED
    BY <1>4, <2>1, <2>2
<1> QED
  BY <1>6, <1>7 DEF held

LEMMA NextBound ==
    ASSUME {"SESSION_END", "REPEAT_LAST"} \intersect Messages = {},
           Bound, QueueInv, NumInv, Recorded, [Next]_vars
    PROVE  Bound'
<1>1. CASE UNCHANGED vars
  BY <1>1, BoundFrame DEF vars, streamVars, ledgerVars
<1>2. CASE LoopStep \/ AudioFault
  <2>1. markers' \subseteq markers /\ UNCHANGED buffer
    BY <1>2, LoopEntries DEF AudioFault, streamVars, ledgerVars
  <2> QED
    BY <2>1, BoundFrame
<1>3. CASE Press
  <2>1. ~ RepeatLast
    BY DEF RepeatLast, Receive
  <2>2. markers' \subseteq markers
    BY <1>3, <2>1, PressEntries DEF SkipPile, StartSession, Without
  <2>3. UNCHANGED buffer \/ buffer' = [buffer EXCEPT ![StartTarget] = <<>>]
    BY <1>3, <2>1, PressEntries DEF SkipPile, StartSession, Numbers
  <2>4. \A s \in Session : buffer'[s] \in {buffer[s], <<>>}
    BY <2>3 DEF NumInv
  <2> QED
    BY <2>2, <2>4, BoundFrame
<1>4. CASE \E s \in Session : Report(s)
  <2>1. PICK s \in Session : Report(s)
    BY <1>4
  <2>2. ~ SessionEnd(s)
    BY DEF SessionEnd, Receive
  <2>3. CASE ProsePartial(s) \/ SetForeground(s) \/ SessionStart(s) \/ TerminalCloses(s)
    <3>1. markers' \subseteq markers /\ UNCHANGED buffer
      BY <2>3, ReportEntries DEF Numbers
    <3> QED
      BY <3>1, BoundFrame
  <2> DEFINE held == Append(buffer[s], newest[s] + 1)
  <2>4. /\ \A i, j \in DOMAIN held : held[i] = held[j] => i = j
        /\ \A m \in markers : m.session = s => \A i \in DOMAIN held : held[i] # m.entry
    BY HeldBound
  <2> HIDE DEF held
  <2>5. CASE Tool(s) \/ Decision(s)
    <3>1. PICK kind : Announce(s, kind)
      BY <2>5 DEF Tool, Decision
    <3>2. EnqueueReadout(s, held, Append(ProseKinds(Len(buffer[s])), kind)) /\ buffer' = [buffer EXCEPT ![s] = <<>>]
      BY <3>1 DEF Announce, held
    <3> QED
      BY <2>4, <3>2, BoundReadout
  <2>6. CASE Prose(s)
    <3>1. \/ buffer' = [buffer EXCEPT ![s] = <<>>] /\ EnqueueReadout(s, held, ProseKinds(Len(held)))
          \/ buffer' = [buffer EXCEPT ![s] = held] /\ UNCHANGED markers
      BY <2>6 DEF Prose, held
    <3>2. CASE buffer' = [buffer EXCEPT ![s] = held] /\ UNCHANGED markers
      <4>1. buffer'[s] = held /\ \A t \in Session : t # s => buffer'[t] = buffer[t]
        BY <3>2 DEF NumInv
      <4>2. \A m \in markers : m.session \in Session
        BY DEF NumInv, MarkerSet
      <4>3. \A t \in Session : \A i, j \in DOMAIN buffer'[t] : buffer'[t][i] = buffer'[t][j] => i = j
        BY <2>4, <4>1 DEF Bound
      <4>4. \A m \in markers : \A i \in DOMAIN buffer'[m.session] : buffer'[m.session][i] # m.entry
        BY <2>4, <4>1, <4>2 DEF Bound
      <4> QED
        BY <3>2, <4>3, <4>4 DEF Bound
    <3> QED
      BY <2>4, <3>1, <3>2, BoundReadout
  <2>7. CASE TurnDone(s)
    <3>1. EnqueueReadout(s, buffer[s], ProseKinds(Len(buffer[s]))) /\ buffer' = [buffer EXCEPT ![s] = <<>>]
      BY <2>7 DEF TurnDone
    <3>2. /\ \A i, j \in DOMAIN buffer[s] : buffer[s][i] = buffer[s][j] => i = j
          /\ \A m \in markers : m.session = s => \A i \in DOMAIN buffer[s] : buffer[s][i] # m.entry
      BY DEF Bound
    <3> QED
      BY <3>1, <3>2, BoundReadout
  <2>8. CASE Flush(s)
    <3>1. markers' \subseteq markers /\ buffer' = [buffer EXCEPT ![s] = <<>>]
      BY <2>8 DEF Flush, Without
    <3>2. \A t \in Session : buffer'[t] \in {buffer[t], <<>>}
      BY <3>1 DEF NumInv
    <3> QED
      BY <3>1, <3>2, BoundFrame
  <2> QED
    BY <2>1, <2>2, <2>3, <2>5, <2>6, <2>7, <2>8 DEF Report
<1> QED
  BY <1>1, <1>2, <1>3, <1>4 DEF Next

\* A queue whose items are distinct has as many ids as items.
LEMMA AsManyIds ==
    ASSUME NEW q, NEW T, q \in Seq(T), Distinct(q)
    PROVE  Cardinality(Ids(q)) = Len(q)
<1>1. Len(q) \in Nat /\ DOMAIN q = 1..Len(q)
  OBVIOUS
<1> DEFINE f == [i \in 1..Len(q) |-> q[i].id]
<1>2. f \in Bijection(1..Len(q), Ids(q))
  <2>1. f \in [1..Len(q) -> Ids(q)]
    BY <1>1 DEF Ids
  <2>2. \A i, j \in 1..Len(q) : f[i] = f[j] => i = j
    BY <1>1 DEF Distinct
  <2>3. \A x \in Ids(q) : \E i \in 1..Len(q) : f[i] = x
    BY <1>1 DEF Ids
  <2> QED
    BY <2>1, <2>2, <2>3 DEF Bijection, Injection, IsInjective, Surjection
<1>3. ExistsBijection(1..Len(q), Ids(q))
  BY <1>2 DEF ExistsBijection
<1> QED
  BY <1>1, <1>3, FS_CountingElements

\* A transcript entry awaits voicing at most once, and no queue holds an item
\* twice, as long as no session ends (its transcript's numbers start anew) and
\* nothing is repeated (the repeat is a second item for the entry it repeats).
THEOREM NothingDuplicatedHolds ==
    ASSUME {"SESSION_END", "REPEAT_LAST"} \intersect Messages = {}
    PROVE  Spec => []NothingDuplicated
<1>1. Init => Bound
  BY DEF Init, InitState, Bound
<1>2. Bound /\ QueueInv /\ NumInv /\ Recorded /\ [Next]_vars => Bound'
  BY NextBound
<1>3. ASSUME Bound, QueueInv PROVE NothingDuplicated
  <2>1. ASSUME NEW m \in markers PROVE Cardinality(Holders(m)) <= 1
    <3>1. Holders(m) \subseteq {m.id}
      BY <1>3 DEF Holders, Bound
    <3>2. Holders(m) = {} \/ Holders(m) = {m.id}
      BY <3>1
    <3>3. Cardinality({}) = 0 /\ Cardinality({m.id}) = 1
      BY FS_EmptySet, FS_Singleton
    <3> QED
      BY <3>2, <3>3
  <2>2. ASSUME NEW s \in Session PROVE Cardinality(QueuedIds(s)) = Len(queue[s])
    <3>1. queue[s] \in Seq(Of(s)) /\ Distinct(queue[s])
      BY <1>3 DEF QueueInv, Queues, Sound
    <3> QED
      BY <3>1, AsManyIds DEF QueuedIds
  <2> QED
    BY <2>1, <2>2 DEF NothingDuplicated
<1>4. "SESSION_END" \notin Messages
  OBVIOUS
<1>5. Spec => []Recorded
  BY <1>4, RecordedInvariance
<1> QED
  BY <1>1, <1>2, <1>3, <1>5, QueueInvariance, NumInvariance, PTL DEF Spec
=============================================================================
