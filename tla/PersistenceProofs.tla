------------------------- MODULE PersistenceProofs -------------------------
(***************************************************************************)
(* Proofs about Persistence, for every bound: types, the refinement of the  *)
(* durable register, and what a shutdown keeps.                             *)
(***************************************************************************)
EXTENDS Persistence, TLAPS

\* The phases after the writer was joined, and all phases of a shutdown.
WriterOver == {"joinSpeak", "flush", "publish", "exiting"}
Ending == {"stopWriter", "joinWriter"} \union WriterOver

\* Memory is never behind the file, and no thread outlives the process ...
Ahead ==
    /\ disk <= mem
    /\ main = "down" => mem = disk /\ speaker = "none"

\* ... nor is a snapshot that is about to be published, and only one is.
Snapshots ==
    /\ writer = "save" => disk <= snap /\ snap <= mem
    /\ main = "publish" => disk <= finalSnap /\ finalSnap <= mem
    /\ main \in WriterOver => writer = "gone"

\* The final snapshot is younger than the order to stop.
Told ==
    /\ toldAt <= mem
    /\ main = "down" => toldAt = 0
    /\ main \in Ending => told
    /\ main \notin {"down"} /\ ~ running => told
    /\ main = "publish" => toldAt <= finalSnap
    /\ flushed => main = "exiting" /\ toldAt <= disk

\* What a joined speak thread noted is in every later snapshot.
Quiesced ==
    /\ noted <= mem
    /\ joined => main \in {"flush", "publish", "exiting"} /\ speaker = "gone"
    /\ joined /\ main = "publish" => noted <= finalSnap
    /\ joined /\ flushed => noted <= disk

IInv == TypeOK /\ Ahead /\ Snapshots /\ Told /\ Quiesced

-----------------------------------------------------------------------------
LEMMA InitInv == Init => IInv
<1> SUFFICES ASSUME Init PROVE IInv
  OBVIOUS
<1>1. TypeOK    BY DEF Init, TypeOK
<1>2. Ahead     BY DEF Init, Ahead
<1>3. Snapshots BY DEF Init, Snapshots, WriterOver
<1>4. Told      BY DEF Init, Told, Ending, WriterOver
<1>5. Quiesced  BY DEF Init, Quiesced
<1> QED BY <1>1, <1>2, <1>3, <1>4, <1>5 DEF IInv

LEMMA NextInv == IInv /\ [Next]_vars => IInv'
<1> SUFFICES ASSUME IInv, [Next]_vars PROVE IInv'
  OBVIOUS
<1> USE DEF IInv, TypeOK, Ahead, Snapshots, Told, Quiesced, WriterOver, Ending,
            procVars, savesVars, toldVars, noteVars, boundVars
<1>1. CASE WriterStep
  <2>1. CASE WriterTop        BY <2>1 DEF WriterTop
  <2>2. CASE WriterWakes      BY <2>2 DEF WriterWakes
  <2>3. CASE WriterClears     BY <2>3 DEF WriterClears
  <2>4. CASE WriterSnapshots  BY <2>4 DEF WriterSnapshots
  <2>5. CASE WriterPublishes  BY <2>5 DEF WriterPublishes
  <2>6. CASE WriterFails      BY <2>6 DEF WriterFails
  <2> QED BY <1>1, <2>1, <2>2, <2>3, <2>4, <2>5, <2>6 DEF WriterStep
<1>2. CASE SpeakStep
  <2>1. CASE SpeakBegins      BY <2>1 DEF SpeakBegins
  <2>2. CASE SpeakTop         BY <2>2 DEF SpeakTop
  <2>3. CASE SpeakNotes
    <3>1. TypeOK'    BY <2>3 DEF SpeakNotes, Change
    <3>2. Ahead'     BY <2>3 DEF SpeakNotes, Change
    <3>3. Snapshots' BY <2>3 DEF SpeakNotes, Change
    <3>4. Told'      BY <2>3 DEF SpeakNotes, Change
    <3>5. Quiesced'  BY <2>3 DEF SpeakNotes, Change
    <3> QED BY <3>1, <3>2, <3>3, <3>4, <3>5
  <2>4. CASE SpeakMarks       BY <2>4 DEF SpeakMarks
  <2>5. CASE SpeakIdles       BY <2>5 DEF SpeakIdles
  <2> QED BY <1>2, <2>1, <2>2, <2>3, <2>4, <2>5 DEF SpeakStep
<1>3. CASE Handle
  BY <1>3 DEF Handle, Change, Serving
<1>4. CASE Boot
  BY <1>4 DEF Boot, Goto, Restored
<1>5. CASE MainStep
  <2>1. CASE InstallHandlers  BY <2>1 DEF InstallHandlers, Goto
  <2>2. CASE StartThreads     BY <2>2 DEF StartThreads, Goto
  <2>3. CASE LeaveLoop        BY <2>3 DEF LeaveLoop, Goto
  <2>4. CASE StopWriter       BY <2>4 DEF StopWriter, StopAndWake, Goto
  <2>5. CASE JoinWriter       BY <2>5 DEF JoinWriter, WriterJoined, Goto
  <2>6. CASE JoinSpeak        BY <2>6 DEF JoinSpeak, Goto
  <2>7. CASE FlushSnapshots   BY <2>7 DEF FlushSnapshots, FinalState, Goto
  <2>8. CASE FlushPublishes   BY <2>8 DEF FlushPublishes, Goto
  <2>9. CASE FlushFails
    <3>1. TypeOK'    BY <2>9 DEF FlushFails, Goto
    <3>2. Ahead'     BY <2>9 DEF FlushFails, Goto
    <3>3. Snapshots' BY <2>9 DEF FlushFails, Goto
    <3>4. Told'      BY <2>9 DEF FlushFails, Goto
    <3>5. Quiesced'  BY <2>9 DEF FlushFails, Goto
    <3> QED BY <3>1, <3>2, <3>3, <3>4, <3>5
  <2>10. CASE Exit
    <3>1. TypeOK'    BY <2>10 DEF Exit, Ended
    <3>2. Ahead'     BY <2>10 DEF Exit, Ended
    <3>3. Snapshots' BY <2>10 DEF Exit, Ended
    <3>4. Told'      BY <2>10 DEF Exit, Ended
    <3>5. Quiesced'  BY <2>10 DEF Exit, Ended
    <3> QED BY <3>1, <3>2, <3>3, <3>4, <3>5
  <2> QED BY <1>5, <2>1, <2>2, <2>3, <2>4, <2>5, <2>6, <2>7, <2>8, <2>9, <2>10 DEF MainStep
<1>6. CASE ServerDies
  <2>1. TypeOK'    BY <1>6 DEF ServerDies, Goto
  <2>2. Ahead'     BY <1>6 DEF ServerDies, Goto
  <2>3. Snapshots' BY <1>6 DEF ServerDies, Goto
  <2>4. Told'      BY <1>6 DEF ServerDies, Goto
  <2>5. Quiesced'  BY <1>6 DEF ServerDies, Goto
  <2> QED BY <2>1, <2>2, <2>3, <2>4, <2>5
<1>7. CASE Sigterm
  <2>1. TypeOK'    BY <1>7 DEF Sigterm
  <2>2. Ahead'     BY <1>7 DEF Sigterm
  <2>3. Snapshots' BY <1>7 DEF Sigterm
  <2>4. Told'      BY <1>7 DEF Sigterm
  <2>5. Quiesced'  BY <1>7 DEF Sigterm
  <2> QED BY <2>1, <2>2, <2>3, <2>4, <2>5
<1>8. CASE Kill
  <2>1. TypeOK'
    <3>1. kills' \in Nat /\ faults' \in Nat  BY <1>8 DEF Kill
    <3> QED BY <1>8, <3>1 DEF Kill, Ended
  <2>2. Ahead'     BY <1>8 DEF Kill, Ended
  <2>3. Snapshots' BY <1>8 DEF Kill, Ended
  <2>4. Told'      BY <1>8 DEF Kill, Ended
  <2>5. Quiesced'  BY <1>8 DEF Kill, Ended
  <2> QED BY <2>1, <2>2, <2>3, <2>4, <2>5
<1>9. CASE UNCHANGED vars
  BY <1>9 DEF vars
<1> QED BY <1>1, <1>2, <1>3, <1>4, <1>5, <1>6, <1>7, <1>8, <1>9 DEF Next

LEMMA Invariance == Spec => []IInv
<1>1. IInv /\ [Next]_vars => IInv'
  BY NextInv
<1> QED BY InitInv, <1>1, PTL DEF Spec

-----------------------------------------------------------------------------
\* Every variable of the process keeps its type.
THEOREM TypeCorrect == Spec => []TypeOK
<1>1. IInv => TypeOK
  BY DEF IInv
<1> QED BY Invariance, <1>1, PTL

\* The final flush includes everything done before the order to stop, however
\* the writer, the speak thread and the connection threads run on meanwhile.
THEOREM ShutdownHolds == Spec => []ShutdownKeepsAll
<1>1. IInv => ShutdownKeepsAll
  BY DEF IInv, Told, ShutdownKeepsAll
<1> QED BY Invariance, <1>1, PTL

\* What the speak thread noted is in the final file if it ended in time: the
\* join comes before the snapshot, and nothing is noted after it.
THEOREM QuiescedHolds == Spec => []QuiescedIsSaved
<1>1. IInv => QuiescedIsSaved
  BY DEF IInv, Quiesced, QuiescedIsSaved
<1> QED BY Invariance, <1>1, PTL

\* A shutdown whose final save succeeds loses nothing.
THEOREM ShutdownLosesNothingHolds == Spec => []ShutdownLosesNothing
<1>1. ShutdownKeepsAll /\ QuiescedIsSaved => ShutdownLosesNothing
  BY DEF ShutdownLosesNothing
<1> QED BY <1>1, ShutdownHolds, QuiescedHolds, PTL

-----------------------------------------------------------------------------
(* Refinement: the two saves publish, the two kinds of end restart, every   *)
(* other step changes memory by one or changes neither.                     *)

LEMMA StoreStep == IInv /\ [Next]_vars => [Store!Next]_(Store!vars)
<1> SUFFICES ASSUME IInv, [Next]_vars PROVE [Store!Next]_(Store!vars)
  OBVIOUS
<1> USE DEF Store!Next, Store!vars, Store!Change, Store!Publish, Store!Restart
<1>1. CASE WriterPublishes \/ FlushPublishes
  <2>1. disk' \in disk..mem /\ mem' = mem
    BY <1>1 DEF WriterPublishes, FlushPublishes, IInv, TypeOK, Snapshots
  <2> QED BY <2>1
<1>2. CASE Exit \/ Kill
  BY <1>2 DEF Exit, Kill, Ended
<1>3. CASE SpeakNotes \/ Handle
  BY <1>3 DEF SpeakNotes, Handle, Change
<1>4. CASE Boot
  BY <1>4 DEF Boot, Restored, IInv, Ahead
<1>5. CASE UNCHANGED <<mem, disk>>
  BY <1>5
<1>6. CASE UNCHANGED vars
  BY <1>6 DEF vars
<1>7. Next => \/ WriterPublishes \/ FlushPublishes \/ Exit \/ Kill
              \/ SpeakNotes \/ Handle \/ Boot \/ UNCHANGED <<mem, disk>>
  BY DEF Next, WriterStep, WriterTop, WriterWakes, WriterClears, WriterSnapshots, WriterFails,
         SpeakStep, SpeakBegins, SpeakTop, SpeakMarks, SpeakIdles, MainStep,
         InstallHandlers, StartThreads, LeaveLoop, StopWriter, JoinWriter, JoinSpeak,
         FlushSnapshots, FlushFails, ServerDies, Sigterm
<1> QED BY <1>1, <1>2, <1>3, <1>4, <1>5, <1>6, <1>7

\* The process and its file implement StableStore: no late or stale save takes
\* the file back, and every restart continues from a state the daemon was in.
THEOREM Refinement == Spec => ImplementsStableStore
<1>1. Init => Store!Init
  BY DEF Init, Store!Init
<1>2. IInv /\ [Next]_vars => [Store!Next]_(Store!vars)
  BY StoreStep
<1> QED BY Invariance, <1>1, <1>2, PTL DEF Spec, Store!Spec, ImplementsStableStore
=============================================================================
