----------------------------- MODULE Lifecycle -----------------------------
(***************************************************************************)
(* features/lifecycle.py, prose.py and decisions.py: what the hooks of a    *)
(* coding session report.  Each handler runs whole under the daemon lock.   *)
(* verbosity is "everything", hints are spent and the install is healthy,   *)
(* so no setup guidance is spoken.                                          *)
(***************************************************************************)
EXTENDS SpeechState

HostUntouched == UNCHANGED <<loopVars, modeVars, lastUtt, current>>

RosterUntouched == UNCHANGED rosterVars

-----------------------------------------------------------------------------
(* Output: prose, tool calls, decisions, the end of a turn                  *)

\* What the buffer flushes: one item per entry.
ProseKinds(n) == [i \in 1..n |-> "prose"]

\* A delta that completes a chunk: it is recorded, buffered, and once the
\* buffer reaches minqueue all of it is queued.
Prose(s) ==
    /\ Receive("PROSE")
    /\ Open({s})
    /\ stopped' = StoppedOnceOpen({s})
    /\ newest' = [newest EXCEPT ![s] = @ + 1]
    /\ partial' = [partial EXCEPT ![s] = FALSE]
    /\ LET held == Append(buffer[s], newest[s] + 1)
       IN  IF Len(held) >= MinQueue
           THEN /\ buffer' = [buffer EXCEPT ![s] = <<>>]
                /\ EnqueueReadout(s, held, ProseKinds(Len(held)))
           ELSE /\ buffer' = [buffer EXCEPT ![s] = held]
                /\ UNCHANGED <<queue, markers, nextId>>
    /\ UNCHANGED <<armed, deferred, frontier, cut>>
    /\ HostUntouched /\ RosterUntouched

\* A delta that leaves a sentence half-assembled.
ProsePartial(s) ==
    /\ Receive("PARTIAL")
    /\ Open({s})
    /\ stopped' = StoppedOnceOpen({s})
    /\ partial' = [partial EXCEPT ![s] = TRUE]
    /\ UNCHANGED <<queue, armed, deferred, buffer, frontier, newest, markers, nextId, cut>>
    /\ HostUntouched /\ RosterUntouched

\* A tool call or a decision is recorded and queued behind the buffered prose.
Announce(s, kind) ==
    /\ Open({s})
    /\ stopped' = StoppedOnceOpen({s})
    /\ newest' = [newest EXCEPT ![s] = @ + 1]
    /\ LET entries == Append(buffer[s], newest[s] + 1)
       IN  EnqueueReadout(s, entries, Append(ProseKinds(Len(buffer[s])), kind))
    /\ buffer' = [buffer EXCEPT ![s] = <<>>]
    /\ UNCHANGED <<armed, deferred, partial, frontier, cut>>
    /\ HostUntouched /\ RosterUntouched

Tool(s) == Receive("TOOL") /\ Announce(s, "tool")

Decision(s) == Receive("DECISION") /\ Announce(s, "decision")

\* EARCON turn_done flushes what stayed below minqueue.
TurnDone(s) ==
    /\ Receive("TURN_DONE")
    /\ Open({s})
    /\ stopped' = StoppedOnceOpen({s})
    /\ EnqueueReadout(s, buffer[s], ProseKinds(Len(buffer[s])))
    /\ buffer' = [buffer EXCEPT ![s] = <<>>]
    /\ UNCHANGED <<armed, deferred, partial, frontier, newest, cut>>
    /\ HostUntouched /\ RosterUntouched

\* A new prompt: what is queued is dropped, the utterance of this session (or,
\* if it has the voice, whatever is playing) is cut, an armed "Resumed." is
\* delivered after the clear.
Flush(s) ==
    /\ Receive("FLUSH")
    /\ Open({s})
    /\ stopped' = StoppedOnceOpen({s})
    /\ CancelIf(current # None /\ (current.session = s \/ spk = s))
    /\ markers' = Without(Ids(queue[s]))
    /\ buffer' = [buffer EXCEPT ![s] = <<>>]
    /\ partial' = [partial EXCEPT ![s] = FALSE]
    /\ IF armed[s]
       THEN /\ queue' = [queue EXCEPT ![s] = <<Cue(nextId + 1, s)>>]
            /\ nextId' = nextId + 1
            /\ armed' = [armed EXCEPT ![s] = FALSE]
       ELSE /\ queue' = [queue EXCEPT ![s] = <<>>]
            /\ UNCHANGED <<nextId, armed>>
    /\ UNCHANGED <<deferred, frontier, newest>>
    /\ HostUntouched /\ RosterUntouched

-----------------------------------------------------------------------------
(* SET_FOREGROUND and SESSION_START share Policy A                          *)

\* The voice is taken when it is idle or already the submitter's ...
TakesVoice(s) == ~ VoiceBusyElsewhere(s) \/ s = spk

\* ... and the workspace with it, unless keep-going had moved the voice here.
TakesWorkspace(s) == TakesVoice(s) /\ ~ (s = spk /\ spk # fg)

\* An audible submit lifts a stale quiet-hold and owes the word "Resumed.".
LiftsHold(s) == TakesVoice(s) /\ voiceState = "quiet-hold" /\ ~ stopped[s]

\* A session whose hook supplies its tty has a live terminal.
PolicyA(s) ==
    /\ reg' = reg \union {s}
    /\ dead' = dead \ {s}
    /\ fg' = IF TakesWorkspace(s) THEN s ELSE fg
    /\ spk' = IF TakesWorkspace(s) THEN s ELSE spk
    /\ voiceState' = IF LiftsHold(s) THEN "flowing" ELSE voiceState

SetForeground(s) ==
    /\ Receive("SET_FOREGROUND")
    /\ PolicyA(s)
    /\ IF LiftsHold(s)
       THEN Open({s}) /\ armed' = [armed EXCEPT ![s] = TRUE]
       ELSE UNCHANGED <<present, armed>>
    /\ UNCHANGED <<queue, stopped, deferred, buffer, partial, frontier, ledgerVars,
                   markResume, sanction, whole, announced, focus, loopVars, current, cut>>

\* A muted stream cannot deliver its announce: it is deferred, not claimed.
\* No FLUSH follows, so an armed "Resumed." is delivered here, in front.
SessionStart(s) ==
    /\ Receive("SESSION_START")
    /\ PolicyA(s)
    /\ Open({s})
    /\ stopped' = StoppedOnceOpen({s})
    /\ LET muted     == StoppedNow(s)
           claims    == ~ muted /\ s \notin announced
           resumes   == armed[s] \/ LiftsHold(s)
           announces == IF claims THEN Enqueue(queue[s],
                                        Item(nextId + 1, s, FALSE, FALSE, FALSE), Cap)
                        ELSE queue[s]
           n         == nextId + (IF claims THEN 1 ELSE 0)
       IN  /\ deferred' = [deferred EXCEPT ![s] = @ \/ muted]
           /\ announced' = IF claims THEN announced \union {s} ELSE announced
           /\ armed' = [armed EXCEPT ![s] = FALSE]
           /\ queue' = [queue EXCEPT ![s] =
                IF resumes THEN EnqueueFront(announces, Cue(n + 1, s)) ELSE announces]
           /\ markers' = Without(IF claims THEN EvictedIds(queue[s], Cap) ELSE {})
           /\ nextId' = n + (IF resumes THEN 1 ELSE 0)
    /\ UNCHANGED <<buffer, partial, frontier, newest, lastUtt, markResume, sanction,
                   whole, focus, loopVars, current, cut>>

\* The session's stream, transcript and registration go.  Nothing cuts its
\* utterance in flight, whose marker stays.
SessionEnd(s) ==
    /\ Receive("SESSION_END")
    /\ present' = present \ {s}
    /\ queue' = [queue EXCEPT ![s] = <<>>]
    /\ markers' = Without(Ids(queue[s]))
    /\ stopped' = [stopped EXCEPT ![s] = FALSE]
    /\ armed' = [armed EXCEPT ![s] = FALSE]
    /\ deferred' = [deferred EXCEPT ![s] = FALSE]
    /\ buffer' = [buffer EXCEPT ![s] = <<>>]
    /\ partial' = [partial EXCEPT ![s] = FALSE]
    /\ frontier' = [frontier EXCEPT ![s] = 0]
    /\ newest' = [newest EXCEPT ![s] = 0]
    /\ LET lifts == spk = s /\ voiceState = "quiet-hold"
       IN  /\ voiceState' = IF lifts THEN "flowing" ELSE voiceState
           /\ markResume' = (markResume \/ lifts)
    /\ reg' = reg \ {s}
    /\ announced' = announced \ {s}
    /\ dead' = dead \ {s}
    /\ fg' = IF fg = s THEN None ELSE fg
    /\ spk' = IF spk = s THEN None ELSE spk
    /\ focus' = IF focus = s THEN None ELSE focus
    /\ UNCHANGED <<nextId, lastUtt, sanction, whole, loopVars, current, cut>>

\* A terminal closes without a word: the session's tty is gone.
TerminalCloses(s) ==
    /\ Receive("CLOSE")
    /\ s \in reg \ dead
    /\ dead' = dead \union {s}
    /\ UNCHANGED <<streamVars, ledgerVars, modeVars, reg, announced, fg, spk, focus,
                   loopVars, current, cut>>

Report(s) ==
    \/ Prose(s) \/ ProsePartial(s) \/ Tool(s) \/ Decision(s) \/ TurnDone(s)
    \/ Flush(s) \/ SetForeground(s) \/ SessionStart(s) \/ SessionEnd(s)
    \/ TerminalCloses(s)
=============================================================================
