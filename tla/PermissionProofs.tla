-------------------------- MODULE PermissionProofs --------------------------
(***************************************************************************)
(* The blocking permission ask is fail-closed, for any number of sessions   *)
(* and of requests superseding each other.                                  *)
(***************************************************************************)
EXTENDS Permission, TLAPS

-----------------------------------------------------------------------------
(* AllowedOnlyByPress speaks of replies; the invariant follows an approval   *)
(* from the press to the reply, through the entry the thread heeds: the one *)
(* it will find while it has not looked, then the one it waits on.          *)

Heeded(r) == IF pc[r] = "asked" THEN pending[asker[r]] ELSE waitsOn[r]

ApprovalSeen ==
    \A r \in Blocked : Heeded(r) # None /\ behavior[Heeded(r)] = "allow" => r \in approved

\* A request nobody sent yet has no entry.
Unasked ==
    \A r \in Request : pc[r] = "out" =>
        /\ behavior[r] = None /\ waitsOn[r] = None
        /\ \A s \in Session : pending[s] # r
        /\ \A q \in Request : waitsOn[q] # r

\* Entries belong to the session they are pending for and are waited for by it.
EntriesOwned ==
    /\ \A r \in Request : pc[r] # "out" => asker[r] \in Session
    /\ \A s \in Session : pending[s] # None => asker[pending[s]] = s
    /\ \A r \in Request : waitsOn[r] # None => asker[waitsOn[r]] = asker[r]

WaitsOnEntry == \A r \in Request : pc[r] \in {"waiting", "woken"} => waitsOn[r] # None

PInv ==
    TypeOK /\ Unasked /\ EntriesOwned /\ WaitsOnEntry /\ ApprovalSeen /\ AllowedOnlyByPress

LEMMA NextType == TypeOK /\ EntriesOwned /\ WaitsOnEntry /\ [Next]_vars => TypeOK'
<1> SUFFICES ASSUME TypeOK, EntriesOwned, WaitsOnEntry, [Next]_vars PROVE TypeOK'
  OBVIOUS
<1> USE NoneAssumption DEF TypeOK, EntryOrNone, Behavior, EntriesOwned, WaitsOnEntry
<1>1. ASSUME NEW r \in Request, NEW s \in Session, Ask(r, s) PROVE TypeOK'
  BY <1>1 DEF Ask, askVars, entryVars, speechVars, Released
<1>2. ASSUME NEW r \in Request, NEW s \in Session, AskFails(r, s) PROVE TypeOK'
  BY <1>2 DEF AskFails, askVars, entryVars, speechVars
<1>3. ASSUME NEW r \in Request, FindEntry(r) PROVE TypeOK'
  BY <1>3 DEF FindEntry, askVars, entryVars, speechVars, Found
<1>4. ASSUME NEW r \in Request, Wake(r) PROVE TypeOK'
  BY <1>4 DEF Wake, askVars, entryVars, speechVars
<1>5. ASSUME NEW r \in Request, TimeOut(r) PROVE TypeOK'
  BY <1>5 DEF TimeOut, askVars, entryVars, speechVars
<1>6. ASSUME NEW r \in Request, Reply(r) PROVE TypeOK'
  BY <1>6 DEF Reply, StillOurs, TextRemoved, askVars, entryVars, speechVars, Decision
<1>7. ASSUME NEW b \in Behavior, Answer(b) PROVE TypeOK'
  BY <1>7 DEF Answer, AnswerTarget, askVars, entryVars, speechVars, AsksOf, Blocked
<1>8. ASSUME NEW s \in Session, Focus(s) PROVE TypeOK'
  BY <1>8 DEF Focus, askVars, entryVars, speechVars
<1>9. ASSUME NEW s \in Session, StopSession(s) PROVE TypeOK'
  BY <1>9 DEF StopSession, askVars, entryVars, speechVars, CutsOwn
<1>10. ASSUME NEW s \in Session, StartSession(s) PROVE TypeOK'
  BY <1>10 DEF StartSession, askVars, entryVars, speechVars, AsksOf
<1>11. ASSUME NEW s \in Session, Flush(s) PROVE TypeOK'
  BY <1>11 DEF Flush, askVars, entryVars, speechVars, CutsOwn, AsksOf
<1>12. ASSUME NEW s \in Session, SessionEnd(s) PROVE TypeOK'
  BY <1>12 DEF SessionEnd, askVars, entryVars, speechVars, AsksOf
<1>13. ASSUME NEW r \in Request, Voice(r) PROVE TypeOK'
  BY <1>13 DEF Voice, askVars, entryVars, speechVars
<1>14. ASSUME SpeechEnds PROVE TypeOK'
  <2>1. /\ queued' \subseteq queued \union {inFlight} /\ inFlight \in Request
        /\ inFlight' = None /\ cut' = FALSE
    BY <1>14 DEF SpeechEnds
  <2>2. UNCHANGED <<askVars, entryVars, stopped, workspace>>
    BY <1>14 DEF SpeechEnds
  <2> QED
    BY <2>1, <2>2 DEF askVars, entryVars
<1>15. CASE UNCHANGED vars
  BY <1>15 DEF vars, askVars, entryVars, speechVars
<1> QED
  BY <1>1, <1>2, <1>3, <1>4, <1>5, <1>6, <1>7, <1>8, <1>9, <1>10, <1>11, <1>12, <1>13, <1>14, <1>15 DEF Next, Thread

LEMMA NextUnasked == TypeOK /\ Unasked /\ EntriesOwned /\ [Next]_vars => Unasked'
<1> SUFFICES ASSUME TypeOK, Unasked, EntriesOwned, [Next]_vars PROVE Unasked'
  OBVIOUS
<1> USE NoneAssumption DEF TypeOK, EntryOrNone, Behavior, Unasked, EntriesOwned
<1>1. ASSUME NEW r \in Request, NEW s \in Session, Ask(r, s) PROVE Unasked'
  BY <1>1 DEF Ask, askVars, entryVars, speechVars, Released
<1>2. ASSUME NEW r \in Request, NEW s \in Session, AskFails(r, s) PROVE Unasked'
  BY <1>2 DEF AskFails, askVars, entryVars, speechVars
<1>3. ASSUME NEW r \in Request, FindEntry(r) PROVE Unasked'
  BY <1>3 DEF FindEntry, askVars, entryVars, speechVars, Found
<1>4. ASSUME NEW r \in Request, Wake(r) PROVE Unasked'
  BY <1>4 DEF Wake, askVars, entryVars, speechVars
<1>5. ASSUME NEW r \in Request, TimeOut(r) PROVE Unasked'
  BY <1>5 DEF TimeOut, askVars, entryVars, speechVars
<1>6. ASSUME NEW r \in Request, Reply(r) PROVE Unasked'
  BY <1>6 DEF Reply, StillOurs, askVars, entryVars, speechVars, Decision
<1>7. ASSUME NEW b \in Behavior, Answer(b) PROVE Unasked'
  BY <1>7 DEF Answer, AnswerTarget, askVars, entryVars, speechVars, AsksOf, Blocked
<1>8. ASSUME NEW s \in Session, Focus(s) PROVE Unasked'
  BY <1>8 DEF Focus, askVars, entryVars, speechVars
<1>9. ASSUME NEW s \in Session, StopSession(s) PROVE Unasked'
  BY <1>9 DEF StopSession, askVars, entryVars, speechVars, CutsOwn
<1>10. ASSUME NEW s \in Session, StartSession(s) PROVE Unasked'
  BY <1>10 DEF StartSession, askVars, entryVars, speechVars, AsksOf
<1>11. ASSUME NEW s \in Session, Flush(s) PROVE Unasked'
  BY <1>11 DEF Flush, askVars, entryVars, speechVars, CutsOwn, AsksOf
<1>12. ASSUME NEW s \in Session, SessionEnd(s) PROVE Unasked'
  BY <1>12 DEF SessionEnd, askVars, entryVars, speechVars, AsksOf
<1>13. ASSUME NEW r \in Request, Voice(r) PROVE Unasked'
  BY <1>13 DEF Voice, askVars, entryVars, speechVars
<1>14. ASSUME SpeechEnds PROVE Unasked'
  BY <1>14 DEF SpeechEnds, askVars, entryVars, speechVars
<1>15. CASE UNCHANGED vars
  BY <1>15 DEF vars, askVars, entryVars, speechVars
<1> QED
  BY <1>1, <1>2, <1>3, <1>4, <1>5, <1>6, <1>7, <1>8, <1>9, <1>10, <1>11, <1>12, <1>13, <1>14, <1>15 DEF Next, Thread

LEMMA NextEntriesOwned == TypeOK /\ Unasked /\ EntriesOwned /\ [Next]_vars => EntriesOwned'
<1> SUFFICES ASSUME TypeOK, Unasked, EntriesOwned, [Next]_vars PROVE EntriesOwned'
  OBVIOUS
<1> USE NoneAssumption DEF TypeOK, EntryOrNone, Behavior, Unasked, EntriesOwned
<1>1. ASSUME NEW r \in Request, NEW s \in Session, Ask(r, s) PROVE EntriesOwned'
  BY <1>1 DEF Ask, askVars, entryVars, speechVars, Released
<1>2. ASSUME NEW r \in Request, NEW s \in Session, AskFails(r, s) PROVE EntriesOwned'
  BY <1>2 DEF AskFails, askVars, entryVars, speechVars
<1>3. ASSUME NEW r \in Request, FindEntry(r) PROVE EntriesOwned'
  BY <1>3 DEF FindEntry, askVars, entryVars, speechVars, Found
<1>4. ASSUME NEW r \in Request, Wake(r) PROVE EntriesOwned'
  BY <1>4 DEF Wake, askVars, entryVars, speechVars
<1>5. ASSUME NEW r \in Request, TimeOut(r) PROVE EntriesOwned'
  BY <1>5 DEF TimeOut, askVars, entryVars, speechVars
<1>6. ASSUME NEW r \in Request, Reply(r) PROVE EntriesOwned'
  BY <1>6 DEF Reply, StillOurs, askVars, entryVars, speechVars, Decision
<1>7. ASSUME NEW b \in Behavior, Answer(b) PROVE EntriesOwned'
  BY <1>7 DEF Answer, AnswerTarget, askVars, entryVars, speechVars, AsksOf, Blocked
<1>8. ASSUME NEW s \in Session, Focus(s) PROVE EntriesOwned'
  BY <1>8 DEF Focus, askVars, entryVars, speechVars
<1>9. ASSUME NEW s \in Session, StopSession(s) PROVE EntriesOwned'
  BY <1>9 DEF StopSession, askVars, entryVars, speechVars, CutsOwn
<1>10. ASSUME NEW s \in Session, StartSession(s) PROVE EntriesOwned'
  BY <1>10 DEF StartSession, askVars, entryVars, speechVars, AsksOf
<1>11. ASSUME NEW s \in Session, Flush(s) PROVE EntriesOwned'
  BY <1>11 DEF Flush, askVars, entryVars, speechVars, CutsOwn, AsksOf
<1>12. ASSUME NEW s \in Session, SessionEnd(s) PROVE EntriesOwned'
  BY <1>12 DEF SessionEnd, askVars, entryVars, speechVars, AsksOf
<1>13. ASSUME NEW r \in Request, Voice(r) PROVE EntriesOwned'
  BY <1>13 DEF Voice, askVars, entryVars, speechVars
<1>14. ASSUME SpeechEnds PROVE EntriesOwned'
  BY <1>14 DEF SpeechEnds, askVars, entryVars, speechVars
<1>15. CASE UNCHANGED vars
  BY <1>15 DEF vars, askVars, entryVars, speechVars
<1> QED
  BY <1>1, <1>2, <1>3, <1>4, <1>5, <1>6, <1>7, <1>8, <1>9, <1>10, <1>11, <1>12, <1>13, <1>14, <1>15 DEF Next, Thread

LEMMA NextWaitsOnEntry == TypeOK /\ WaitsOnEntry /\ [Next]_vars => WaitsOnEntry'
<1> SUFFICES ASSUME TypeOK, WaitsOnEntry, [Next]_vars PROVE WaitsOnEntry'
  OBVIOUS
<1> USE NoneAssumption DEF TypeOK, EntryOrNone, Behavior, WaitsOnEntry
<1>1. ASSUME NEW r \in Request, NEW s \in Session, Ask(r, s) PROVE WaitsOnEntry'
  BY <1>1 DEF Ask, askVars, entryVars, speechVars, Released
<1>2. ASSUME NEW r \in Request, NEW s \in Session, AskFails(r, s) PROVE WaitsOnEntry'
  BY <1>2 DEF AskFails, askVars, entryVars, speechVars
<1>3. ASSUME NEW r \in Request, FindEntry(r) PROVE WaitsOnEntry'
  BY <1>3 DEF FindEntry, askVars, entryVars, speechVars, Found
<1>4. ASSUME NEW r \in Request, Wake(r) PROVE WaitsOnEntry'
  BY <1>4 DEF Wake, askVars, entryVars, speechVars
<1>5. ASSUME NEW r \in Request, TimeOut(r) PROVE WaitsOnEntry'
  BY <1>5 DEF TimeOut, askVars, entryVars, speechVars
<1>6. ASSUME NEW r \in Request, Reply(r) PROVE WaitsOnEntry'
  BY <1>6 DEF Reply, StillOurs, askVars, entryVars, speechVars, Decision
<1>7. ASSUME NEW b \in Behavior, Answer(b) PROVE WaitsOnEntry'
  BY <1>7 DEF Answer, AnswerTarget, askVars, entryVars, speechVars, AsksOf, Blocked
<1>8. ASSUME NEW s \in Session, Focus(s) PROVE WaitsOnEntry'
  BY <1>8 DEF Focus, askVars, entryVars, speechVars
<1>9. ASSUME NEW s \in Session, StopSession(s) PROVE WaitsOnEntry'
  BY <1>9 DEF StopSession, askVars, entryVars, speechVars, CutsOwn
<1>10. ASSUME NEW s \in Session, StartSession(s) PROVE WaitsOnEntry'
  BY <1>10 DEF StartSession, askVars, entryVars, speechVars, AsksOf
<1>11. ASSUME NEW s \in Session, Flush(s) PROVE WaitsOnEntry'
  BY <1>11 DEF Flush, askVars, entryVars, speechVars, CutsOwn, AsksOf
<1>12. ASSUME NEW s \in Session, SessionEnd(s) PROVE WaitsOnEntry'
  BY <1>12 DEF SessionEnd, askVars, entryVars, speechVars, AsksOf
<1>13. ASSUME NEW r \in Request, Voice(r) PROVE WaitsOnEntry'
  BY <1>13 DEF Voice, askVars, entryVars, speechVars
<1>14. ASSUME SpeechEnds PROVE WaitsOnEntry'
  BY <1>14 DEF SpeechEnds, askVars, entryVars, speechVars
<1>15. CASE UNCHANGED vars
  BY <1>15 DEF vars, askVars, entryVars, speechVars
<1> QED
  BY <1>1, <1>2, <1>3, <1>4, <1>5, <1>6, <1>7, <1>8, <1>9, <1>10, <1>11, <1>12, <1>13, <1>14, <1>15 DEF Next, Thread

LEMMA NextApprovalSeen == TypeOK /\ Unasked /\ EntriesOwned /\ ApprovalSeen /\ [Next]_vars => ApprovalSeen'
<1> SUFFICES ASSUME TypeOK, Unasked, EntriesOwned, ApprovalSeen, [Next]_vars PROVE ApprovalSeen'
  OBVIOUS
<1> USE NoneAssumption DEF TypeOK, EntryOrNone, Behavior, Unasked, EntriesOwned, ApprovalSeen, Heeded, Blocked
<1>1. ASSUME NEW r \in Request, NEW s \in Session, Ask(r, s) PROVE ApprovalSeen'
  <2>1. /\ pc[r] = "out" /\ pc' = [pc EXCEPT ![r] = "asked"]
        /\ asker' = [asker EXCEPT ![r] = s] /\ pending' = [pending EXCEPT ![s] = r]
        /\ UNCHANGED <<behavior, waitsOn, approved>>
    BY <1>1 DEF Ask
  <2>2. behavior[r] = None
    BY <2>1
  <2> SUFFICES ASSUME NEW q \in Blocked', Heeded(q)' # None, behavior'[Heeded(q)'] = "allow"
               PROVE  q \in approved
    BY <2>1
  <2>3. Heeded(q)' # r
    BY <2>1, <2>2
  <2> QED
    BY <2>1, <2>3
<1>2. ASSUME NEW r \in Request, NEW s \in Session, AskFails(r, s) PROVE ApprovalSeen'
  BY <1>2 DEF AskFails, askVars, entryVars, speechVars
<1>3. ASSUME NEW r \in Request, FindEntry(r) PROVE ApprovalSeen'
  BY <1>3 DEF FindEntry, askVars, entryVars, speechVars, Found
<1>4. ASSUME NEW r \in Request, Wake(r) PROVE ApprovalSeen'
  BY <1>4 DEF Wake, askVars, entryVars, speechVars
<1>5. ASSUME NEW r \in Request, TimeOut(r) PROVE ApprovalSeen'
  BY <1>5 DEF TimeOut, askVars, entryVars, speechVars
<1>6. ASSUME NEW r \in Request, Reply(r) PROVE ApprovalSeen'
  BY <1>6 DEF Reply, StillOurs, askVars, entryVars, speechVars, Decision
<1>7. ASSUME NEW b \in Behavior, Answer(b) PROVE ApprovalSeen'
  BY <1>7 DEF Answer, AnswerTarget, askVars, entryVars, speechVars, AsksOf, Blocked
<1>8. ASSUME NEW s \in Session, Focus(s) PROVE ApprovalSeen'
  BY <1>8 DEF Focus, askVars, entryVars, speechVars
<1>9. ASSUME NEW s \in Session, StopSession(s) PROVE ApprovalSeen'
  BY <1>9 DEF StopSession, askVars, entryVars, speechVars, CutsOwn
<1>10. ASSUME NEW s \in Session, StartSession(s) PROVE ApprovalSeen'
  BY <1>10 DEF StartSession, askVars, entryVars, speechVars, AsksOf
<1>11. ASSUME NEW s \in Session, Flush(s) PROVE ApprovalSeen'
  BY <1>11 DEF Flush, askVars, entryVars, speechVars, CutsOwn, AsksOf
<1>12. ASSUME NEW s \in Session, SessionEnd(s) PROVE ApprovalSeen'
  BY <1>12 DEF SessionEnd, askVars, entryVars, speechVars, AsksOf
<1>13. ASSUME NEW r \in Request, Voice(r) PROVE ApprovalSeen'
  BY <1>13 DEF Voice, askVars, entryVars, speechVars
<1>14. ASSUME SpeechEnds PROVE ApprovalSeen'
  BY <1>14 DEF SpeechEnds, askVars, entryVars, speechVars
<1>15. CASE UNCHANGED vars
  BY <1>15 DEF vars, askVars, entryVars, speechVars
<1> QED
  BY <1>1, <1>2, <1>3, <1>4, <1>5, <1>6, <1>7, <1>8, <1>9, <1>10, <1>11, <1>12, <1>13, <1>14, <1>15 DEF Next, Thread

LEMMA NextAllowed == TypeOK /\ WaitsOnEntry /\ ApprovalSeen /\ AllowedOnlyByPress /\ [Next]_vars => AllowedOnlyByPress'
<1> SUFFICES ASSUME TypeOK, WaitsOnEntry, ApprovalSeen, AllowedOnlyByPress, [Next]_vars PROVE AllowedOnlyByPress'
  OBVIOUS
<1> USE NoneAssumption DEF TypeOK, EntryOrNone, Behavior, WaitsOnEntry, ApprovalSeen, Heeded, Blocked, AllowedOnlyByPress
<1>1. ASSUME NEW r \in Request, NEW s \in Session, Ask(r, s) PROVE AllowedOnlyByPress'
  BY <1>1 DEF Ask, askVars, entryVars, speechVars, Released
<1>2. ASSUME NEW r \in Request, NEW s \in Session, AskFails(r, s) PROVE AllowedOnlyByPress'
  BY <1>2 DEF AskFails, askVars, entryVars, speechVars
<1>3. ASSUME NEW r \in Request, FindEntry(r) PROVE AllowedOnlyByPress'
  BY <1>3 DEF FindEntry, askVars, entryVars, speechVars, Found
<1>4. ASSUME NEW r \in Request, Wake(r) PROVE AllowedOnlyByPress'
  BY <1>4 DEF Wake, askVars, entryVars, speechVars
<1>5. ASSUME NEW r \in Request, TimeOut(r) PROVE AllowedOnlyByPress'
  BY <1>5 DEF TimeOut, askVars, entryVars, speechVars
<1>6. ASSUME NEW r \in Request, Reply(r) PROVE AllowedOnlyByPress'
  <2>1. reply' = [reply EXCEPT ![r] = Decision(r)] /\ UNCHANGED approved /\ pc[r] = "woken"
    BY <1>6 DEF Reply
  <2>2. Decision(r) = "allow" => r \in approved
    BY <2>1 DEF Decision
  <2> QED
    BY <2>1, <2>2
<1>7. ASSUME NEW b \in Behavior, Answer(b) PROVE AllowedOnlyByPress'
  BY <1>7 DEF Answer, AnswerTarget, askVars, entryVars, speechVars, AsksOf, Blocked
<1>8. ASSUME NEW s \in Session, Focus(s) PROVE AllowedOnlyByPress'
  BY <1>8 DEF Focus, askVars, entryVars, speechVars
<1>9. ASSUME NEW s \in Session, StopSession(s) PROVE AllowedOnlyByPress'
  BY <1>9 DEF StopSession, askVars, entryVars, speechVars, CutsOwn
<1>10. ASSUME NEW s \in Session, StartSession(s) PROVE AllowedOnlyByPress'
  BY <1>10 DEF StartSession, askVars, entryVars, speechVars, AsksOf
<1>11. ASSUME NEW s \in Session, Flush(s) PROVE AllowedOnlyByPress'
  BY <1>11 DEF Flush, askVars, entryVars, speechVars, CutsOwn, AsksOf
<1>12. ASSUME NEW s \in Session, SessionEnd(s) PROVE AllowedOnlyByPress'
  BY <1>12 DEF SessionEnd, askVars, entryVars, speechVars, AsksOf
<1>13. ASSUME NEW r \in Request, Voice(r) PROVE AllowedOnlyByPress'
  BY <1>13 DEF Voice, askVars, entryVars, speechVars
<1>14. ASSUME SpeechEnds PROVE AllowedOnlyByPress'
  BY <1>14 DEF SpeechEnds, askVars, entryVars, speechVars
<1>15. CASE UNCHANGED vars
  BY <1>15 DEF vars, askVars, entryVars, speechVars
<1> QED
  BY <1>1, <1>2, <1>3, <1>4, <1>5, <1>6, <1>7, <1>8, <1>9, <1>10, <1>11, <1>12, <1>13, <1>14, <1>15 DEF Next, Thread

-----------------------------------------------------------------------------
(* Entries and the threads that wait on them.  Only requests and their      *)
(* threads move them.                                                       *)

LEMMA ThreadMoves ==
    ASSUME [Next]_vars
    PROVE  \/ \E r \in Request : Thread(r) \/ \E s \in Session : Ask(r, s) \/ AskFails(r, s)
           \/ UNCHANGED <<pc, asker, waitsOn, pending>>
BY DEF Next, vars, askVars, entryVars, Answer, Focus, StopSession, StartSession,
       Flush, SessionEnd, Voice, SpeechEnds

\* A thread that has not looked for its entry yet waits on none.
AskedWaitsOnNothing == \A r \in Request : pc[r] = "asked" => waitsOn[r] = None

LEMMA NextAskedWaits ==
    TypeOK /\ Unasked /\ AskedWaitsOnNothing /\ [Next]_vars => AskedWaitsOnNothing'
<1> SUFFICES ASSUME TypeOK, Unasked, AskedWaitsOnNothing, [Next]_vars
             PROVE  AskedWaitsOnNothing'
  OBVIOUS
<1> USE DEF TypeOK, AskedWaitsOnNothing
<1>1. ASSUME NEW r \in Request, NEW s \in Session, Ask(r, s) \/ AskFails(r, s)
      PROVE  AskedWaitsOnNothing'
  BY <1>1 DEF Ask, AskFails, Unasked
<1>2. ASSUME NEW r \in Request, Thread(r) PROVE AskedWaitsOnNothing'
  BY <1>2 DEF Thread, FindEntry, Wake, TimeOut, Reply
<1>3. CASE UNCHANGED <<pc, asker, waitsOn, pending>>
  BY <1>3
<1> QED
  BY <1>1, <1>2, <1>3, ThreadMoves

\* r will receive the answer to entry e.
Awaits(r, e) == r \in Blocked /\ (waitsOn[r] = e \/ (r = e /\ pc[r] = "asked"))

LEMMA PendingAwaited ==
    PendingHasWaiter <=> \A s \in Session : pending[s] # None =>
                            \E r \in Request : Awaits(r, pending[s])
BY DEF PendingHasWaiter, Awaits, Blocked

\* The thread that awaits an entry goes on awaiting it until it has replied,
\* and takes the entry with it if it is still there.
LEMMA NextPendingHasWaiter ==
    TypeOK /\ EntriesOwned /\ AskedWaitsOnNothing /\ PendingHasWaiter /\ [Next]_vars
    => PendingHasWaiter'
<1> SUFFICES ASSUME TypeOK, EntriesOwned, AskedWaitsOnNothing, PendingHasWaiter,
                    [Next]_vars, NEW s \in Session, pending'[s] # None
             PROVE  \E r \in Request : Awaits(r, pending[s])'
  BY DEF PendingHasWaiter, Awaits, Blocked
<1>1. pending[s] # None => \E r \in Request : Awaits(r, pending[s])
  BY PendingAwaited
<1> USE NoneAssumption DEF TypeOK, EntryOrNone, Awaits, Blocked
<1>2. ASSUME NEW q \in Request, NEW t \in Session, Ask(q, t)
      PROVE  \E r \in Request : Awaits(r, pending[s])'
  <2>1. /\ pc[q] = "out" /\ pc' = [pc EXCEPT ![q] = "asked"]
        /\ pending' = [pending EXCEPT ![t] = q] /\ waitsOn' = waitsOn
    BY <1>2 DEF Ask
  <2>2. CASE t = s
    <3>1. Awaits(q, pending[s])'
      BY <2>1, <2>2
    <3> QED
      BY <3>1
  <2>3. CASE t # s
    <3>1. PICK r \in Request : Awaits(r, pending[s])
      BY <1>1, <2>1, <2>3
    <3>2. Awaits(r, pending[s])'
      BY <2>1, <2>3, <3>1
    <3> QED
      BY <3>2
  <2> QED
    BY <2>2, <2>3
<1>3. ASSUME pending'[s] = pending[s],
             \A r \in Request : Awaits(r, pending[s]) => Awaits(r, pending[s])'
      PROVE  \E r \in Request : Awaits(r, pending[s])'
  BY <1>1, <1>3
<1>4. ASSUME NEW q \in Request, NEW t \in Session, AskFails(q, t)
      PROVE  \E r \in Request : Awaits(r, pending[s])'
  <2>1. /\ pending' = pending /\ waitsOn' = waitsOn
        /\ pc[q] = "out" /\ pc' = [pc EXCEPT ![q] = "replied"]
    BY <1>4 DEF AskFails, entryVars
  <2> QED
    BY <1>3, <2>1
<1>5. ASSUME NEW q \in Request, FindEntry(q)
      PROVE  \E r \in Request : Awaits(r, pending[s])'
  <2>1. /\ pc[q] = "asked" /\ pending' = pending
        /\ waitsOn' = [waitsOn EXCEPT ![q] = pending[asker[q]]]
        /\ pc' = [pc EXCEPT ![q] = IF pending[asker[q]] = None THEN "replied" ELSE "waiting"]
    BY <1>5 DEF FindEntry, Found, entryVars
  <2>2. ASSUME NEW r \in Request, Awaits(r, pending[s]) PROVE Awaits(r, pending[s])'
    <3>1. CASE r = q
      <4>1. q = pending[s]
        BY <2>1, <2>2, <3>1 DEF AskedWaitsOnNothing
      <4>2. asker[q] = s
        BY <4>1 DEF EntriesOwned
      <4> QED
        BY <2>1, <3>1, <4>1, <4>2
    <3>2. CASE r # q
      BY <2>1, <2>2, <3>2
    <3> QED
      BY <3>1, <3>2
  <2> QED
    BY <1>3, <2>1, <2>2
<1>6. ASSUME NEW q \in Request, Wake(q) \/ TimeOut(q)
      PROVE  \E r \in Request : Awaits(r, pending[s])'
  <2>1. /\ pc[q] = "waiting" /\ pc' = [pc EXCEPT ![q] = "woken"]
        /\ pending' = pending /\ waitsOn' = waitsOn
    BY <1>6 DEF Wake, TimeOut, entryVars
  <2> QED
    BY <1>3, <2>1
<1>7. ASSUME NEW q \in Request, Reply(q)
      PROVE  \E r \in Request : Awaits(r, pending[s])'
  <2>1. /\ pc[q] = "woken" /\ pc' = [pc EXCEPT ![q] = "replied"] /\ waitsOn' = waitsOn
        /\ pending' = IF StillOurs(q) THEN [pending EXCEPT ![asker[q]] = None] ELSE pending
    BY <1>7 DEF Reply
  <2>2. pending'[s] = pending[s]
    BY <2>1
  <2>3. waitsOn[q] # pending[s]
    <3>1. SUFFICES ASSUME waitsOn[q] = pending[s] PROVE FALSE
      OBVIOUS
    <3>2. asker[q] = s
      BY <2>2, <3>1 DEF EntriesOwned
    <3> QED
      BY <2>1, <2>2, <3>1, <3>2 DEF StillOurs
  <2> QED
    BY <1>3, <2>1, <2>2, <2>3
<1>8. CASE UNCHANGED <<pc, asker, waitsOn, pending>>
  BY <1>3, <1>8
<1> QED
  BY <1>2, <1>4, <1>5, <1>6, <1>7, <1>8, ThreadMoves DEF Thread

\* Only the entry of a request that was sent can expire.
ExpiredWasAsked == \A r \in Request : pc[r] = "out" => r \notin expired

LEMMA NextExpiredWasAsked ==
    TypeOK /\ Unasked /\ ExpiredWasAsked /\ [Next]_vars => ExpiredWasAsked'
<1> SUFFICES ASSUME TypeOK, Unasked, ExpiredWasAsked, [Next]_vars PROVE ExpiredWasAsked'
  OBVIOUS
<1> USE DEF TypeOK, ExpiredWasAsked
<1>1. ASSUME NEW r \in Request, Thread(r) PROVE ExpiredWasAsked'
  <2>1. CASE Reply(r)
    BY <2>1 DEF Reply, Unasked
  <2>2. CASE FindEntry(r) \/ Wake(r) \/ TimeOut(r)
    BY <2>2 DEF FindEntry, Wake, TimeOut, entryVars
  <2> QED
    BY <1>1, <2>1, <2>2 DEF Thread
<1>2. ASSUME NEW r \in Request, NEW s \in Session, Ask(r, s) \/ AskFails(r, s)
      PROVE  ExpiredWasAsked'
  BY <1>2 DEF Ask, AskFails, entryVars
<1>3. CASE UNCHANGED <<pc, expired>>
  BY <1>3
<1>4. \/ \E r \in Request : Thread(r) \/ \E s \in Session : Ask(r, s) \/ AskFails(r, s)
      \/ UNCHANGED <<pc, expired>>
  BY DEF Next, vars, askVars, entryVars, Answer, Focus, StopSession, StartSession,
         Flush, SessionEnd, Voice, SpeechEnds
<1> QED
  BY <1>1, <1>2, <1>3, <1>4

\* What a step may add to the queue and to the expired entries.
LEMMA DeadAskStep ==
    ASSUME TypeOK, ExpiredWasAsked, Next, NEW r \in expired' \intersect queued'
    PROVE  r \in expired \intersect queued \/ (r = inFlight /\ cut /\ asker[r] \in stopped)
<1> USE DEF TypeOK
<1>1. ASSUME NEW q \in Request, NEW s \in Session, Ask(q, s)
      PROVE  r \in expired \intersect queued
  BY <1>1 DEF Ask, ExpiredWasAsked
<1>2. ASSUME NEW q \in Request, Reply(q) PROVE r \in expired \intersect queued
  BY <1>2 DEF Reply, TextRemoved
<1>3. CASE SpeechEnds
  BY <1>3 DEF SpeechEnds, entryVars
<1>4. CASE expired' = expired /\ queued' \subseteq queued
  BY <1>4
<1>5. \/ \E q \in Request : Reply(q) \/ \E s \in Session : Ask(q, s)
      \/ SpeechEnds
      \/ expired' = expired /\ queued' \subseteq queued
  BY DEF Next, Thread, askVars, entryVars, speechVars, AskFails, FindEntry, Wake, TimeOut,
         Answer, Focus, StopSession, StartSession, Flush, SessionEnd, Voice
<1> QED
  BY <1>1, <1>2, <1>3, <1>4, <1>5

-----------------------------------------------------------------------------
PInvariant == PInv /\ AskedWaitsOnNothing /\ PendingHasWaiter /\ ExpiredWasAsked

LEMMA Invariance == Spec => []PInvariant
<1>1. Init => PInvariant
  <2> SUFFICES ASSUME Init PROVE PInvariant
    OBVIOUS
  <2>1. TypeOK
    BY DEF Init, TypeOK, EntryOrNone
  <2>2. Unasked /\ EntriesOwned /\ WaitsOnEntry
    BY NoneAssumption DEF Init, Unasked, EntriesOwned, WaitsOnEntry
  <2>3. ApprovalSeen /\ AllowedOnlyByPress
    BY NoneAssumption DEF Init, ApprovalSeen, Blocked, AllowedOnlyByPress
  <2>4. AskedWaitsOnNothing /\ PendingHasWaiter /\ ExpiredWasAsked
    BY DEF Init, AskedWaitsOnNothing, PendingHasWaiter, ExpiredWasAsked
  <2> QED
    BY <2>1, <2>2, <2>3, <2>4 DEF PInv, PInvariant
<1>2. PInvariant /\ [Next]_vars => PInvariant'
  BY NextType, NextUnasked, NextEntriesOwned, NextWaitsOnEntry, NextApprovalSeen, NextAllowed,
     NextAskedWaits, NextPendingHasWaiter, NextExpiredWasAsked
  DEF PInv, PInvariant
<1> QED
  BY <1>1, <1>2, PTL DEF Spec

\* Fail-closed: whatever hooks supersede each other, time out or fail, and
\* whatever is being spoken, "allow" is only ever sent to a hook that was
\* blocked when the user approved for its session.
THEOREM FailClosed == Spec => []AllowedOnlyByPress
<1>1. PInvariant => AllowedOnlyByPress
  BY DEF PInv, PInvariant
<1> QED
  BY <1>1, Invariance, PTL

\* An ask that can still be answered has a hook that will receive the answer,
\* however many asks of its session superseded each other before their threads
\* looked: nobody is told "approved" of a decision that reaches no one.
THEOREM AnswersReachSomeone == Spec => []EntriesSound
<1>1. PInvariant => EntriesSound
  BY DEF PInv, PInvariant, EntriesSound
<1> QED
  BY <1>1, Invariance, PTL

\* A dead ask is never voiced as live: the text of an ask that expired is in a
\* queue only if a stop cut it in mid-word.
THEOREM ExpiryTakesTheText == Spec => ExpiredComesFromAStop
<1>1. PInvariant /\ [Next]_vars =>
        [\A r \in expired' \intersect queued' :
            \/ r \in expired \intersect queued
            \/ r = inFlight /\ cut /\ asker[r] \in stopped]_vars
  BY DeadAskStep DEF PInv, PInvariant
<1> QED
  BY <1>1, Invariance, PTL DEF Spec, ExpiredComesFromAStop
=============================================================================
