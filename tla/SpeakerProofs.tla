--------------------------- MODULE SpeakerProofs ---------------------------
(***************************************************************************)
(* What holds of the speaker for any number of speaking and cancelling      *)
(* threads, cancels and processes.                                          *)
(***************************************************************************)
EXTENDS Speaker, TLAPS

-----------------------------------------------------------------------------
(* The strengthening.  Mutual exclusion alone is not inductive for the      *)
(* processes: a process outlives the critical section of the thread that    *)
(* spawned it, so what is invariant is that it was signalled by then.       *)

\* _play_lock is held exactly by the thread inside its `with' block.
LockHeld == \A t \in Thread : playLock = t <=> pc[t] \in Locked

\* An unsignalled process belongs to the holder, which still guards it.
Guarding == {"check", "abort", "wait"}

ProcessOwned ==
    \A p \in playing \ signalled :
        \E t \in Thread : playLock = t /\ pc[t] \in Guarding /\ mine[t] = p

\* _current is the process that the waiting thread waits for.
CurrentIsMine == \A t \in Thread : pc[t] = "wait" => current = mine[t]

\* Baselines are never ahead of the epoch, and an abort was caused by a cancel.
BaseBehind ==
    \A t \in Thread : /\ base[t] <= epoch
                      /\ pc[t] = "abort" => base[t] < epoch

Structure == LockHeld /\ ProcessOwned /\ CurrentIsMine /\ BaseBehind


-----------------------------------------------------------------------------
(* Types *)

LEMMA InitType == Init => TypeOK
  BY NobodyAssumption DEF Init, TypeOK, InCall, Proc

LEMMA NextType == TypeOK /\ [Next]_vars => TypeOK'
<1> SUFFICES ASSUME TypeOK, [Next]_vars PROVE TypeOK'
  OBVIOUS
<1> USE NobodyAssumption, ClaimerAssumption DEF TypeOK, InCall, Proc
<1>1. ASSUME NEW t \in Thread, Claim(t) PROVE TypeOK'
  BY <1>1 DEF Claim, threadVars, procVars, Goto, Return, Terminate
<1>2. ASSUME NEW t \in Thread, NoRunner(t) PROVE TypeOK'
  BY <1>2 DEF NoRunner, threadVars, procVars, Goto, Return, Terminate
<1>3. ASSUME NEW t \in Thread, AcquirePlayLock(t) PROVE TypeOK'
  BY <1>3 DEF AcquirePlayLock, threadVars, procVars, Goto, Return, Terminate
<1>4. ASSUME NEW t \in Thread, Baseline(t) PROVE TypeOK'
  BY <1>4 DEF Baseline, threadVars, procVars, Goto, Return, Terminate
<1>5. ASSUME NEW t \in Thread, Spawn(t) PROVE TypeOK'
  BY <1>5 DEF Spawn, threadVars, procVars, Goto, Return, Terminate
<1>6. ASSUME NEW t \in Thread, SpawnFails(t) PROVE TypeOK'
  BY <1>6 DEF SpawnFails, threadVars, procVars, Goto, Return, Terminate
<1>7. ASSUME NEW t \in Thread, Check(t) PROVE TypeOK'
  BY <1>7 DEF Check, threadVars, procVars, Goto, Return, Terminate
<1>8. ASSUME NEW t \in Thread, Abort(t) PROVE TypeOK'
  BY <1>8 DEF Abort, threadVars, procVars, Goto, Return, Terminate
<1>9. ASSUME NEW t \in Thread, WaitReturns(t) PROVE TypeOK'
  <2>1. exitedZero' \in [Thread -> BOOLEAN]
    <3>1. \A v \in BOOLEAN : [exitedZero EXCEPT ![t] = v] \in [Thread -> BOOLEAN]
      OBVIOUS
    <3>2. (mine[t] \in clean) \in BOOLEAN
      OBVIOUS
    <3> QED
      BY ONLY <1>9, <3>1, <3>2, Zenon DEF WaitReturns
  <2>2. pc' \in [Thread -> InCall \union {"idle"}] /\ clean' \subseteq Proc
    BY <1>9 DEF WaitReturns, Goto
  <2> QED
    BY <1>9, <2>1, <2>2 DEF WaitReturns
<1>10. ASSUME NEW t \in Thread, Release(t) PROVE TypeOK'
  BY <1>10 DEF Release, threadVars, procVars, Goto, Return, Terminate
<1>11. ASSUME NEW t \in Thread, Judge(t) PROVE TypeOK'
  BY <1>11 DEF Judge, threadVars, procVars, Goto, Return, Terminate, Verdict
<1>12. ASSUME NEW t \in Thread, WaitTimesOut(t) PROVE TypeOK'
  BY <1>12 DEF WaitTimesOut, threadVars, procVars, Goto, Return, Terminate
<1>13. ASSUME NEW c \in Canceller, CancelBump(c) PROVE TypeOK'
  BY <1>13 DEF CancelBump, threadVars, procVars, Goto, Return, Terminate
<1>14. ASSUME NEW c \in Canceller, CancelTerminate(c) PROVE TypeOK'
  BY <1>14 DEF CancelTerminate, threadVars, procVars, Goto, Return, Terminate
<1>15. ASSUME NEW p \in playing, Exit(p) PROVE TypeOK'
  BY <1>15 DEF Exit, threadVars, procVars, Goto, Return, Terminate
<1>16. CASE UNCHANGED vars
  BY <1>16 DEF vars, threadVars, procVars, threadVars, procVars, Goto, Return, Terminate
<1> QED
  BY <1>1, <1>2, <1>3, <1>4, <1>5, <1>6, <1>7, <1>8, <1>9, <1>10, <1>11, <1>12, <1>13, <1>14, <1>15, <1>16 DEF Next, Step

\* The variables keep their types; in particular only running processes are
\* ever marked as signalled, whatever cancel and timeout race.
THEOREM TypeCorrect == Spec => []TypeOK
<1>1. Init => TypeOK
  BY InitType
<1>2. TypeOK /\ [Next]_vars => TypeOK'
  BY NextType
<1> QED
  BY <1>1, <1>2, PTL DEF Spec

-----------------------------------------------------------------------------
(* Preservation of the structure *)

LEMMA NextLockHeld == TypeOK /\ LockHeld /\ [Next]_vars => LockHeld'
<1> SUFFICES ASSUME TypeOK, LockHeld, [Next]_vars PROVE LockHeld'
  OBVIOUS
<1> USE NobodyAssumption, ClaimerAssumption DEF TypeOK, InCall, Proc, LockHeld, Locked
<1>1. ASSUME NEW t \in Thread, Claim(t) PROVE LockHeld'
  BY <1>1 DEF Claim, threadVars, procVars, Goto, Return, Terminate
<1>2. ASSUME NEW t \in Thread, NoRunner(t) PROVE LockHeld'
  BY <1>2 DEF NoRunner, threadVars, procVars, Goto, Return, Terminate
<1>3. ASSUME NEW t \in Thread, AcquirePlayLock(t) PROVE LockHeld'
  BY <1>3 DEF AcquirePlayLock, threadVars, procVars, Goto, Return, Terminate
<1>4. ASSUME NEW t \in Thread, Baseline(t) PROVE LockHeld'
  BY <1>4 DEF Baseline, threadVars, procVars, Goto, Return, Terminate
<1>5. ASSUME NEW t \in Thread, Spawn(t) PROVE LockHeld'
  BY <1>5 DEF Spawn, threadVars, procVars, Goto, Return, Terminate
<1>6. ASSUME NEW t \in Thread, SpawnFails(t) PROVE LockHeld'
  BY <1>6 DEF SpawnFails, threadVars, procVars, Goto, Return, Terminate
<1>7. ASSUME NEW t \in Thread, Check(t) PROVE LockHeld'
  BY <1>7 DEF Check, threadVars, procVars, Goto, Return, Terminate
<1>8. ASSUME NEW t \in Thread, Abort(t) PROVE LockHeld'
  BY <1>8 DEF Abort, threadVars, procVars, Goto, Return, Terminate
<1>9. ASSUME NEW t \in Thread, WaitReturns(t) PROVE LockHeld'
  BY <1>9 DEF WaitReturns, threadVars, procVars, Goto, Return, Terminate
<1>10. ASSUME NEW t \in Thread, Release(t) PROVE LockHeld'
  BY <1>10 DEF Release, threadVars, procVars, Goto, Return, Terminate
<1>11. ASSUME NEW t \in Thread, Judge(t) PROVE LockHeld'
  BY <1>11 DEF Judge, threadVars, procVars, Goto, Return, Terminate
<1>12. ASSUME NEW t \in Thread, WaitTimesOut(t) PROVE LockHeld'
  BY <1>12 DEF WaitTimesOut, threadVars, procVars, Goto, Return, Terminate
<1>13. ASSUME NEW c \in Canceller, CancelBump(c) PROVE LockHeld'
  BY <1>13 DEF CancelBump, threadVars, procVars, Goto, Return, Terminate
<1>14. ASSUME NEW c \in Canceller, CancelTerminate(c) PROVE LockHeld'
  BY <1>14 DEF CancelTerminate, threadVars, procVars, Goto, Return, Terminate
<1>15. ASSUME NEW p \in playing, Exit(p) PROVE LockHeld'
  BY <1>15 DEF Exit, threadVars, procVars, Goto, Return, Terminate
<1>16. CASE UNCHANGED vars
  BY <1>16 DEF vars, threadVars, procVars
<1> QED
  BY <1>1, <1>2, <1>3, <1>4, <1>5, <1>6, <1>7, <1>8, <1>9, <1>10, <1>11, <1>12, <1>13, <1>14, <1>15, <1>16 DEF Next, Step

LEMMA NextProcessOwned == TypeOK /\ LockHeld /\ ProcessOwned /\ [Next]_vars => ProcessOwned'
<1> SUFFICES ASSUME TypeOK, LockHeld, ProcessOwned, [Next]_vars PROVE ProcessOwned'
  OBVIOUS
<1> USE NobodyAssumption, ClaimerAssumption DEF TypeOK, InCall, Proc, LockHeld, Locked, ProcessOwned, Guarding
<1>1. ASSUME NEW t \in Thread, Claim(t) PROVE ProcessOwned'
  BY <1>1 DEF Claim, threadVars, procVars, Goto, Return, Terminate
<1>2. ASSUME NEW t \in Thread, NoRunner(t) PROVE ProcessOwned'
  BY <1>2 DEF NoRunner, threadVars, procVars, Goto, Return, Terminate
<1>3. ASSUME NEW t \in Thread, AcquirePlayLock(t) PROVE ProcessOwned'
  BY <1>3 DEF AcquirePlayLock, threadVars, procVars, Goto, Return, Terminate
<1>4. ASSUME NEW t \in Thread, Baseline(t) PROVE ProcessOwned'
  BY <1>4 DEF Baseline, threadVars, procVars, Goto, Return, Terminate
<1>5. ASSUME NEW t \in Thread, Spawn(t) PROVE ProcessOwned'
  BY <1>5 DEF Spawn, threadVars, procVars, Goto, Return, Terminate
<1>6. ASSUME NEW t \in Thread, SpawnFails(t) PROVE ProcessOwned'
  BY <1>6 DEF SpawnFails, threadVars, procVars, Goto, Return, Terminate
<1>7. ASSUME NEW t \in Thread, Check(t) PROVE ProcessOwned'
  BY <1>7 DEF Check, threadVars, procVars, Goto, Return, Terminate
<1>8. ASSUME NEW t \in Thread, Abort(t) PROVE ProcessOwned'
  BY <1>8 DEF Abort, threadVars, procVars, Goto, Return, Terminate
<1>9. ASSUME NEW t \in Thread, WaitReturns(t) PROVE ProcessOwned'
  BY <1>9 DEF WaitReturns, threadVars, procVars, Goto, Return, Terminate
<1>10. ASSUME NEW t \in Thread, Release(t) PROVE ProcessOwned'
  BY <1>10 DEF Release, threadVars, procVars, Goto, Return, Terminate
<1>11. ASSUME NEW t \in Thread, Judge(t) PROVE ProcessOwned'
  BY <1>11 DEF Judge, threadVars, procVars, Goto, Return, Terminate
<1>12. ASSUME NEW t \in Thread, WaitTimesOut(t) PROVE ProcessOwned'
  BY <1>12 DEF WaitTimesOut, threadVars, procVars, Goto, Return, Terminate
<1>13. ASSUME NEW c \in Canceller, CancelBump(c) PROVE ProcessOwned'
  BY <1>13 DEF CancelBump, threadVars, procVars, Goto, Return, Terminate
<1>14. ASSUME NEW c \in Canceller, CancelTerminate(c) PROVE ProcessOwned'
  BY <1>14 DEF CancelTerminate, threadVars, procVars, Goto, Return, Terminate
<1>15. ASSUME NEW p \in playing, Exit(p) PROVE ProcessOwned'
  BY <1>15 DEF Exit, threadVars, procVars, Goto, Return, Terminate
<1>16. CASE UNCHANGED vars
  BY <1>16 DEF vars, threadVars, procVars
<1> QED
  BY <1>1, <1>2, <1>3, <1>4, <1>5, <1>6, <1>7, <1>8, <1>9, <1>10, <1>11, <1>12, <1>13, <1>14, <1>15, <1>16 DEF Next, Step

LEMMA NextCurrentIsMine == TypeOK /\ LockHeld /\ CurrentIsMine /\ [Next]_vars => CurrentIsMine'
<1> SUFFICES ASSUME TypeOK, LockHeld, CurrentIsMine, [Next]_vars PROVE CurrentIsMine'
  OBVIOUS
<1> USE NobodyAssumption, ClaimerAssumption DEF TypeOK, InCall, Proc, LockHeld, Locked, CurrentIsMine
<1>1. ASSUME NEW t \in Thread, Claim(t) PROVE CurrentIsMine'
  BY <1>1 DEF Claim, threadVars, procVars, Goto, Return, Terminate
<1>2. ASSUME NEW t \in Thread, NoRunner(t) PROVE CurrentIsMine'
  BY <1>2 DEF NoRunner, threadVars, procVars, Goto, Return, Terminate
<1>3. ASSUME NEW t \in Thread, AcquirePlayLock(t) PROVE CurrentIsMine'
  BY <1>3 DEF AcquirePlayLock, threadVars, procVars, Goto, Return, Terminate
<1>4. ASSUME NEW t \in Thread, Baseline(t) PROVE CurrentIsMine'
  BY <1>4 DEF Baseline, threadVars, procVars, Goto, Return, Terminate
<1>5. ASSUME NEW t \in Thread, Spawn(t) PROVE CurrentIsMine'
  BY <1>5 DEF Spawn, threadVars, procVars, Goto, Return, Terminate
<1>6. ASSUME NEW t \in Thread, SpawnFails(t) PROVE CurrentIsMine'
  BY <1>6 DEF SpawnFails, threadVars, procVars, Goto, Return, Terminate
<1>7. ASSUME NEW t \in Thread, Check(t) PROVE CurrentIsMine'
  BY <1>7 DEF Check, threadVars, procVars, Goto, Return, Terminate
<1>8. ASSUME NEW t \in Thread, Abort(t) PROVE CurrentIsMine'
  BY <1>8 DEF Abort, threadVars, procVars, Goto, Return, Terminate
<1>9. ASSUME NEW t \in Thread, WaitReturns(t) PROVE CurrentIsMine'
  BY <1>9 DEF WaitReturns, threadVars, procVars, Goto, Return, Terminate
<1>10. ASSUME NEW t \in Thread, Release(t) PROVE CurrentIsMine'
  BY <1>10 DEF Release, threadVars, procVars, Goto, Return, Terminate
<1>11. ASSUME NEW t \in Thread, Judge(t) PROVE CurrentIsMine'
  BY <1>11 DEF Judge, threadVars, procVars, Goto, Return, Terminate
<1>12. ASSUME NEW t \in Thread, WaitTimesOut(t) PROVE CurrentIsMine'
  BY <1>12 DEF WaitTimesOut, threadVars, procVars, Goto, Return, Terminate
<1>13. ASSUME NEW c \in Canceller, CancelBump(c) PROVE CurrentIsMine'
  BY <1>13 DEF CancelBump, threadVars, procVars, Goto, Return, Terminate
<1>14. ASSUME NEW c \in Canceller, CancelTerminate(c) PROVE CurrentIsMine'
  BY <1>14 DEF CancelTerminate, threadVars, procVars, Goto, Return, Terminate
<1>15. ASSUME NEW p \in playing, Exit(p) PROVE CurrentIsMine'
  BY <1>15 DEF Exit, threadVars, procVars, Goto, Return, Terminate
<1>16. CASE UNCHANGED vars
  BY <1>16 DEF vars, threadVars, procVars
<1> QED
  BY <1>1, <1>2, <1>3, <1>4, <1>5, <1>6, <1>7, <1>8, <1>9, <1>10, <1>11, <1>12, <1>13, <1>14, <1>15, <1>16 DEF Next, Step

LEMMA NextBaseBehind == TypeOK /\ BaseBehind /\ [Next]_vars => BaseBehind'
<1> SUFFICES ASSUME TypeOK, BaseBehind, [Next]_vars PROVE BaseBehind'
  OBVIOUS
<1> USE NobodyAssumption, ClaimerAssumption DEF TypeOK, InCall, Proc, BaseBehind
<1>1. ASSUME NEW t \in Thread, Claim(t) PROVE BaseBehind'
  BY <1>1 DEF Claim, threadVars, procVars, Goto, Return, Terminate
<1>2. ASSUME NEW t \in Thread, NoRunner(t) PROVE BaseBehind'
  BY <1>2 DEF NoRunner, threadVars, procVars, Goto, Return, Terminate
<1>3. ASSUME NEW t \in Thread, AcquirePlayLock(t) PROVE BaseBehind'
  BY <1>3 DEF AcquirePlayLock, threadVars, procVars, Goto, Return, Terminate
<1>4. ASSUME NEW t \in Thread, Baseline(t) PROVE BaseBehind'
  BY <1>4 DEF Baseline, threadVars, procVars, Goto, Return, Terminate
<1>5. ASSUME NEW t \in Thread, Spawn(t) PROVE BaseBehind'
  BY <1>5 DEF Spawn, threadVars, procVars, Goto, Return, Terminate
<1>6. ASSUME NEW t \in Thread, SpawnFails(t) PROVE BaseBehind'
  BY <1>6 DEF SpawnFails, threadVars, procVars, Goto, Return, Terminate
<1>7. ASSUME NEW t \in Thread, Check(t) PROVE BaseBehind'
  BY <1>7 DEF Check, threadVars, procVars, Goto, Return, Terminate
<1>8. ASSUME NEW t \in Thread, Abort(t) PROVE BaseBehind'
  BY <1>8 DEF Abort, threadVars, procVars, Goto, Return, Terminate
<1>9. ASSUME NEW t \in Thread, WaitReturns(t) PROVE BaseBehind'
  BY <1>9 DEF WaitReturns, threadVars, procVars, Goto, Return, Terminate
<1>10. ASSUME NEW t \in Thread, Release(t) PROVE BaseBehind'
  BY <1>10 DEF Release, threadVars, procVars, Goto, Return, Terminate
<1>11. ASSUME NEW t \in Thread, Judge(t) PROVE BaseBehind'
  BY <1>11 DEF Judge, threadVars, procVars, Goto, Return, Terminate
<1>12. ASSUME NEW t \in Thread, WaitTimesOut(t) PROVE BaseBehind'
  BY <1>12 DEF WaitTimesOut, threadVars, procVars, Goto, Return, Terminate
<1>13. ASSUME NEW c \in Canceller, CancelBump(c) PROVE BaseBehind'
  BY <1>13 DEF CancelBump, threadVars, procVars, Goto, Return, Terminate
<1>14. ASSUME NEW c \in Canceller, CancelTerminate(c) PROVE BaseBehind'
  BY <1>14 DEF CancelTerminate, threadVars, procVars, Goto, Return, Terminate
<1>15. ASSUME NEW p \in playing, Exit(p) PROVE BaseBehind'
  BY <1>15 DEF Exit, threadVars, procVars, Goto, Return, Terminate
<1>16. CASE UNCHANGED vars
  BY <1>16 DEF vars, threadVars, procVars
<1> QED
  BY <1>1, <1>2, <1>3, <1>4, <1>5, <1>6, <1>7, <1>8, <1>9, <1>10, <1>11, <1>12, <1>13, <1>14, <1>15, <1>16 DEF Next, Step

LEMMA NextCancelReaches == TypeOK /\ LockHeld /\ CurrentIsMine /\ CancelReaches /\ [Next]_vars => CancelReaches'
<1> SUFFICES ASSUME TypeOK, LockHeld, CurrentIsMine, CancelReaches, [Next]_vars PROVE CancelReaches'
  OBVIOUS
<1> USE NobodyAssumption, ClaimerAssumption DEF TypeOK, InCall, Proc, LockHeld, Locked, CurrentIsMine, CancelReaches
<1>1. ASSUME NEW t \in Thread, Claim(t) PROVE CancelReaches'
  BY <1>1 DEF Claim, threadVars, procVars, Goto, Return, Terminate
<1>2. ASSUME NEW t \in Thread, NoRunner(t) PROVE CancelReaches'
  BY <1>2 DEF NoRunner, threadVars, procVars, Goto, Return, Terminate
<1>3. ASSUME NEW t \in Thread, AcquirePlayLock(t) PROVE CancelReaches'
  BY <1>3 DEF AcquirePlayLock, threadVars, procVars, Goto, Return, Terminate
<1>4. ASSUME NEW t \in Thread, Baseline(t) PROVE CancelReaches'
  BY <1>4 DEF Baseline, threadVars, procVars, Goto, Return, Terminate
<1>5. ASSUME NEW t \in Thread, Spawn(t) PROVE CancelReaches'
  BY <1>5 DEF Spawn, threadVars, procVars, Goto, Return, Terminate
<1>6. ASSUME NEW t \in Thread, SpawnFails(t) PROVE CancelReaches'
  BY <1>6 DEF SpawnFails, threadVars, procVars, Goto, Return, Terminate
<1>7. ASSUME NEW t \in Thread, Check(t) PROVE CancelReaches'
  BY <1>7 DEF Check, threadVars, procVars, Goto, Return, Terminate
<1>8. ASSUME NEW t \in Thread, Abort(t) PROVE CancelReaches'
  BY <1>8 DEF Abort, threadVars, procVars, Goto, Return, Terminate
<1>9. ASSUME NEW t \in Thread, WaitReturns(t) PROVE CancelReaches'
  BY <1>9 DEF WaitReturns, threadVars, procVars, Goto, Return, Terminate
<1>10. ASSUME NEW t \in Thread, Release(t) PROVE CancelReaches'
  BY <1>10 DEF Release, threadVars, procVars, Goto, Return, Terminate
<1>11. ASSUME NEW t \in Thread, Judge(t) PROVE CancelReaches'
  BY <1>11 DEF Judge, threadVars, procVars, Goto, Return, Terminate
<1>12. ASSUME NEW t \in Thread, WaitTimesOut(t) PROVE CancelReaches'
  BY <1>12 DEF WaitTimesOut, threadVars, procVars, Goto, Return, Terminate
<1>13. ASSUME NEW c \in Canceller, CancelBump(c) PROVE CancelReaches'
  BY <1>13 DEF CancelBump, threadVars, procVars, Goto, Return, Terminate
<1>14. ASSUME NEW c \in Canceller, CancelTerminate(c) PROVE CancelReaches'
  BY <1>14 DEF CancelTerminate, threadVars, procVars, Goto, Return, Terminate
<1>15. ASSUME NEW p \in playing, Exit(p) PROVE CancelReaches'
  BY <1>15 DEF Exit, threadVars, procVars, Goto, Return, Terminate
<1>16. CASE UNCHANGED vars
  BY <1>16 DEF vars, threadVars, procVars
<1> QED
  BY <1>1, <1>2, <1>3, <1>4, <1>5, <1>6, <1>7, <1>8, <1>9, <1>10, <1>11, <1>12, <1>13, <1>14, <1>15, <1>16 DEF Next, Step

-----------------------------------------------------------------------------
(* Safety *)

IInv == TypeOK /\ Structure /\ CancelReaches

LEMMA InitIInv == Init => IInv
<1> SUFFICES ASSUME Init PROVE IInv
  OBVIOUS
<1>1. TypeOK
  BY InitType
<1>2. Structure
  BY NobodyAssumption
  DEF Init, Structure, LockHeld, Locked, InCall, ProcessOwned, CurrentIsMine, BaseBehind
<1>3. CancelReaches
  BY DEF Init, CancelReaches
<1> QED
  BY <1>1, <1>2, <1>3 DEF IInv

LEMMA NextIInv == IInv /\ [Next]_vars => IInv'
  BY NextType, NextLockHeld, NextProcessOwned, NextCurrentIsMine, NextBaseBehind,
     NextCancelReaches DEF IInv, Structure

LEMMA Invariance == Spec => []IInv
<1>1. Init => IInv
  BY InitIInv
<1>2. IInv /\ [Next]_vars => IInv'
  BY NextIInv
<1> QED
  BY <1>1, <1>2, PTL DEF Spec

\* Two unsignalled processes would both belong to the one holder of
\* _play_lock, which has spawned one: the voice is one voice.
THEOREM OneVoiceHolds == Spec => []OneVoiceAtATime
<1>1. IInv => OneVoiceAtATime
  <2> SUFFICES ASSUME IInv, NEW p \in playing \ signalled, NEW q \in playing \ signalled
               PROVE  p = q
    BY DEF OneVoiceAtATime
  <2>1. PICK t \in Thread : playLock = t /\ mine[t] = p
    BY DEF IInv, Structure, ProcessOwned
  <2>2. PICK u \in Thread : playLock = u /\ mine[u] = q
    BY DEF IInv, Structure, ProcessOwned
  <2> QED
    BY <2>1, <2>2
<1> QED
  BY <1>1, Invariance, PTL

\* A cancel that moved the epoch of a waiting utterance always reaches it: the
\* process it read under _current_lock is the one the utterance waits for.
THEOREM NoCancelLost == Spec => []CancelReaches
<1>1. IInv => CancelReaches
  BY DEF IInv
<1> QED
  BY <1>1, Invariance, PTL

-----------------------------------------------------------------------------
(* Refinement *)

LEMMA InitRefines == Init => Voice!Init
  BY DEF Init, Voice!Init, Armed, InCall

LEMMA NextRefines == IInv /\ [Next]_vars => [Voice!Next]_(Voice!vars)
<1> SUFFICES ASSUME IInv, [Next]_vars PROVE [Voice!Next]_(Voice!vars)
  OBVIOUS
<1> USE NobodyAssumption, ClaimerAssumption
    DEF IInv, Structure, TypeOK, LockHeld, Locked, BaseBehind, Armed, InCall, Proc
<1>1. ASSUME NEW t \in Thread, Claim(t) PROVE Voice!Ask(t)
  BY <1>1 DEF Claim, threadVars, procVars, Goto, Return, Terminate, Voice!Ask
<1>2. ASSUME NEW t \in Thread, NoRunner(t) PROVE Voice!Conclude(t, "unspawned")
  BY <1>2 DEF NoRunner, threadVars, procVars, Goto, Return, Terminate, Voice!Conclude
<1>3. ASSUME NEW t \in Thread, AcquirePlayLock(t) PROVE Voice!TakeVoice(t)
  BY <1>3 DEF AcquirePlayLock, threadVars, procVars, Goto, Return, Terminate, Voice!TakeVoice
<1>4. ASSUME NEW t \in Thread, Baseline(t) PROVE Voice!Arm(t)
  BY <1>4 DEF Baseline, threadVars, procVars, Goto, Return, Terminate, Voice!Arm
<1>5. ASSUME NEW t \in Thread, Spawn(t) PROVE UNCHANGED Voice!vars
  BY <1>5 DEF Spawn, threadVars, procVars, Goto, Return, Terminate, Voice!vars
<1>6. ASSUME NEW t \in Thread, SpawnFails(t) PROVE Voice!Conclude(t, "unspawned")
  BY <1>6 DEF SpawnFails, threadVars, procVars, Goto, Return, Terminate, Voice!Conclude
<1>7. ASSUME NEW t \in Thread, Check(t) PROVE UNCHANGED Voice!vars
  BY <1>7 DEF Check, threadVars, procVars, Goto, Return, Terminate, Voice!vars
<1>8. ASSUME NEW t \in Thread, Abort(t) PROVE Voice!Conclude(t, "cut")
  BY <1>8 DEF Abort, threadVars, procVars, Goto, Return, Terminate, Voice!Conclude
<1>9. ASSUME NEW t \in Thread, WaitReturns(t) PROVE UNCHANGED Voice!vars
  BY <1>9 DEF WaitReturns, threadVars, procVars, Goto, Return, Terminate, Voice!vars
<1>10. ASSUME NEW t \in Thread, Release(t) PROVE UNCHANGED Voice!vars
  BY <1>10 DEF Release, threadVars, procVars, Goto, Return, Terminate, Voice!vars
<1>11. ASSUME NEW t \in Thread, NEW o, o = Verdict(t), Judge(t)
       PROVE  Voice!Conclude(t, o)
  BY <1>11 DEF Judge, threadVars, procVars, Goto, Return, Terminate, Voice!Conclude, Verdict
<1>12. ASSUME NEW t \in Thread, WaitTimesOut(t) PROVE UNCHANGED Voice!vars
  BY <1>12 DEF WaitTimesOut, threadVars, procVars, Goto, Return, Terminate, Voice!vars
<1>13. ASSUME NEW c \in Canceller, CancelBump(c) PROVE Voice!Cancel
  BY <1>13 DEF CancelBump, threadVars, procVars, Goto, Return, Terminate, Voice!Cancel
<1>14. ASSUME NEW c \in Canceller, CancelTerminate(c) PROVE UNCHANGED Voice!vars
  BY <1>14 DEF CancelTerminate, threadVars, procVars, Goto, Return, Terminate, Voice!vars
<1>15. ASSUME NEW p \in playing, Exit(p) PROVE UNCHANGED Voice!vars
  BY <1>15 DEF Exit, threadVars, procVars, Goto, Return, Terminate, Voice!vars
<1>16. CASE UNCHANGED vars
  BY <1>16 DEF vars, threadVars, procVars, Voice!vars
<1> HIDE DEF IInv, Structure, TypeOK, LockHeld, Locked, BaseBehind, Armed, InCall, Proc
<1>17. \A t \in Thread : Verdict(t) \in Voice!Outcome \ {"none"}
  BY DEF Verdict, Voice!Outcome
<1>18. ASSUME NEW t \in Thread, NEW o \in Voice!Outcome \ {"none"}, Voice!Conclude(t, o)
       PROVE  Voice!Next
  BY <1>18 DEF Voice!Next
<1>19. ASSUME NEW t \in Thread, Claim(t) \/ Step(t) \/ WaitTimesOut(t)
       PROVE  [Voice!Next]_(Voice!vars)
  <2>1. {"unspawned", "cut"} \subseteq Voice!Outcome \ {"none"}
    BY DEF Voice!Outcome
  <2>2. CASE NoRunner(t) \/ SpawnFails(t) \/ Abort(t) \/ Judge(t)
    <3>1. PICK o \in Voice!Outcome \ {"none"} : Voice!Conclude(t, o)
      <4>1. CASE NoRunner(t)
        BY <1>2, <2>1, <4>1
      <4>2. CASE SpawnFails(t)
        BY <1>6, <2>1, <4>2
      <4>3. CASE Abort(t)
        BY <1>8, <2>1, <4>3
      <4>4. CASE Judge(t)
        BY <1>11, <1>17, <4>4
      <4> QED
        BY <2>2, <4>1, <4>2, <4>3, <4>4
    <3> QED
      BY <1>18, <3>1
  <2>3. CASE Claim(t) \/ AcquirePlayLock(t) \/ Baseline(t)
    BY <1>1, <1>3, <1>4, <2>3 DEF Voice!Next
  <2>4. CASE Spawn(t) \/ Check(t) \/ WaitReturns(t) \/ Release(t) \/ WaitTimesOut(t)
    BY <1>5, <1>7, <1>9, <1>10, <1>12, <2>4
  <2> QED
    BY <1>19, <2>2, <2>3, <2>4 DEF Step
<1> QED
  BY <1>13, <1>14, <1>15, <1>16, <1>19 DEF Next, Voice!Next

\* speak() and cancel(), with their two locks and the epoch, implement OneVoice:
\* every call takes the voice in turn, and what it reports agrees with the
\* cancels that reached it.
THEOREM Refinement == Spec => ImplementsOneVoice
<1>1. Init => Voice!Init
  BY InitRefines
<1>2. IInv /\ [Next]_vars => [Voice!Next]_(Voice!vars)
  BY NextRefines
<1> QED
  BY <1>1, <1>2, Invariance, PTL DEF Spec, ImplementsOneVoice, Voice!Spec
=============================================================================
