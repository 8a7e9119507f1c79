---------------------------- MODULE Persistence ----------------------------
(***************************************************************************)
(* persistence.py and SpeechDaemon.run(): the daemon process from boot to     *)
(* exit, and the state file.  Four kinds of threads: the main thread, the   *)
(* speak thread, the writer thread and the connection threads; the process  *)
(* may be killed between any two of their steps.                            *)
(*                                                                          *)
(* Every change of durable state happens under the daemon lock, so the      *)
(* state is the number of changes that led to it: a snapshot is the number  *)
(* it saw.  Publishing is os.replace() of a complete temporary file, so the *)
(* file is always some whole snapshot.                                      *)
(***************************************************************************)
EXTENDS Naturals

CONSTANTS MaxChanges,   \* bound: changes memory holds
          MaxFaults,    \* bound: saves that fail
          MaxKills      \* bound: times the process is killed

ASSUME BoundsAssumption == {MaxChanges, MaxFaults, MaxKills} \subseteq Nat

VARIABLES
    main,       \* where run() is
    writer,     \* where the writer thread is
    speaker,    \* where the speak thread is
    running,    \* host._running
    writing,    \* PersistenceWriter._running
    dirty,      \* PersistenceWriter._dirty
    mem,        \* changes made to the durable state
    disk,       \* the state file, as the changes it includes
    snap,       \* the writer's snapshot
    finalSnap,  \* the snapshot of the final flush
    told,       \* SIGTERM arrived or the server died in this life, ...
    toldAt,     \* ... when mem was this
    noted,      \* mem after the speak thread's latest change
    joined,     \* run() saw the speak thread end
    flushed,    \* the final flush did not fail
    faults, kills

procVars  == <<running, writing, dirty>>
savesVars == <<snap, finalSnap, flushed>>
toldVars  == <<told, toldAt>>
noteVars  == <<noted, joined>>
boundVars == <<faults, kills>>
vars == <<main, writer, speaker, procVars, mem, disk, savesVars, toldVars, noteVars, boundVars>>

Init ==
    /\ main = "down" /\ writer = "none" /\ speaker = "none"
    /\ running = FALSE /\ writing = FALSE /\ dirty = FALSE
    /\ mem = 0 /\ disk = 0 /\ snap = 0 /\ finalSnap = 0
    /\ told = FALSE /\ toldAt = 0 /\ noted = 0 /\ joined = FALSE /\ flushed = FALSE
    /\ faults = 0 /\ kills = 0

Change ==
    /\ mem < MaxChanges
    /\ mem' = mem + 1

-----------------------------------------------------------------------------
(* The writer thread *)

WriterTop ==
    /\ writer = "top"
    /\ writer' = IF writing THEN "wait" ELSE "gone"
    /\ UNCHANGED <<main, speaker, procVars, mem, disk, savesVars, toldVars, noteVars, boundVars>>

\* dirty.wait() returns; a wakeup for shutdown saves nothing.
WriterWakes ==
    /\ writer = "wait" /\ dirty
    /\ writer' = IF writing THEN "debounce" ELSE "top"
    /\ UNCHANGED <<main, speaker, procVars, mem, disk, savesVars, toldVars, noteVars, boundVars>>

WriterClears ==
    /\ writer = "debounce"
    /\ dirty' = FALSE
    /\ writer' = "snapshot"
    /\ UNCHANGED <<main, speaker, running, writing, mem, disk, savesVars, toldVars, noteVars,
                   boundVars>>

\* Under the daemon lock; the write happens outside it.
WriterSnapshots ==
    /\ writer = "snapshot"
    /\ snap' = mem
    /\ writer' = "save"
    /\ UNCHANGED <<main, speaker, procVars, mem, disk, finalSnap, flushed, toldVars, noteVars,
                   boundVars>>

\* Mutant: the flag is cleared once more after the save.
PublishThenClear ==
    /\ writer = "save"
    /\ disk' = snap /\ dirty' = FALSE
    /\ writer' = "top"
    /\ UNCHANGED <<main, speaker, running, writing, mem, savesVars, toldVars, noteVars, boundVars>>

WriterPublishes ==
    /\ writer = "save"
    /\ disk' = snap
    /\ writer' = "top"
    /\ UNCHANGED <<main, speaker, procVars, mem, savesVars, toldVars, noteVars, boundVars>>

\* A full or read-only disk: the fault is swallowed.
WriterFails ==
    /\ writer = "save" /\ faults < MaxFaults
    /\ faults' = faults + 1
    /\ writer' = "top"
    /\ UNCHANGED <<main, speaker, procVars, mem, disk, savesVars, toldVars, noteVars, kills>>

WriterStep ==
    \/ WriterTop \/ WriterWakes \/ WriterClears \/ WriterSnapshots
    \/ WriterPublishes \/ WriterFails

-----------------------------------------------------------------------------
(* The speak thread and the connection threads *)

\* _speak_loop() sets the host's running flag itself.
SpeakBegins ==
    /\ speaker = "born"
    /\ running' = TRUE
    /\ speaker' = "top"
    /\ UNCHANGED <<main, writer, writing, dirty, mem, disk, savesVars, toldVars, noteVars,
                   boundVars>>

SpeakTop ==
    /\ speaker = "top"
    /\ speaker' = IF running THEN "speaking" ELSE "gone"
    /\ UNCHANGED <<main, writer, procVars, mem, disk, savesVars, toldVars, noteVars, boundVars>>

\* note_spoken(): heard flag and frontier change under the lock ...
SpeakNotes ==
    /\ speaker = "speaking"
    /\ Change
    /\ noted' = mem' /\ UNCHANGED joined
    /\ speaker' = "mark"
    /\ UNCHANGED <<main, writer, procVars, disk, savesVars, toldVars, boundVars>>

\* ... and the state is marked after it was released.
SpeakMarks ==
    /\ speaker = "mark"
    /\ dirty' = TRUE
    /\ speaker' = "top"
    /\ UNCHANGED <<main, writer, running, writing, mem, disk, savesVars, toldVars, noteVars,
                   boundVars>>

\* A turn with nothing to say, or whose utterance was requeued.
SpeakIdles ==
    /\ speaker = "speaking"
    /\ speaker' = "top"
    /\ UNCHANGED <<main, writer, procVars, mem, disk, savesVars, toldVars, noteVars, boundVars>>

SpeakStep == SpeakBegins \/ SpeakTop \/ SpeakNotes \/ SpeakMarks \/ SpeakIdles

\* handle_message(): change and mark under one hold of the lock.  Connection
\* threads live until the process exits.
Serving == main \notin {"down", "boot", "start"}

Handle ==
    /\ Serving
    /\ Change
    /\ dirty' = TRUE
    /\ UNCHANGED <<main, writer, speaker, running, writing, disk, savesVars, toldVars,
                   noteVars, boundVars>>

-----------------------------------------------------------------------------
(* The main thread: run() *)

Goto(label) == main' = label

Restored == disk

\* _restore_state() before any other thread exists; then the writer starts.
Boot ==
    /\ main = "down"
    /\ mem' = Restored /\ noted' = Restored /\ joined' = FALSE
    /\ writing' = TRUE /\ writer' = "top" /\ dirty' = FALSE
    /\ running' = TRUE
    /\ told' = FALSE /\ toldAt' = 0 /\ flushed' = FALSE
    /\ Goto("boot")
    /\ UNCHANGED <<speaker, disk, snap, finalSnap, boundVars>>

InstallHandlers ==
    /\ main = "boot"
    /\ Goto("start")
    /\ UNCHANGED <<writer, speaker, procVars, mem, disk, savesVars, toldVars, noteVars, boundVars>>

StartThreads ==
    /\ main = "start"
    /\ speaker' = "born"
    /\ Goto("serving")
    /\ UNCHANGED <<writer, procVars, mem, disk, savesVars, toldVars, noteVars, boundVars>>

\* The loop of run() sees the flag; stop() clears it once more.
LeaveLoop ==
    /\ main = "serving" /\ ~ running
    /\ running' = FALSE
    /\ Goto("stopWriter")
    /\ UNCHANGED <<writer, speaker, writing, dirty, mem, disk, savesVars, toldVars, noteVars,
                   boundVars>>

\* The accept thread ended (accept() failed): run() shuts down of itself.
ServerDies ==
    /\ main = "serving" /\ ~ told
    /\ running' = FALSE
    /\ told' = TRUE /\ toldAt' = mem
    /\ Goto("stopWriter")
    /\ UNCHANGED <<writer, speaker, writing, dirty, mem, disk, savesVars, noteVars, boundVars>>

\* Mutant: the writer is told to stop, and left asleep.
StopWithoutWaking == writing' = FALSE /\ UNCHANGED dirty

StopAndWake == writing' = FALSE /\ dirty' = TRUE

StopWriter ==
    /\ main = "stopWriter"
    /\ StopAndWake
    /\ Goto("joinWriter")
    /\ UNCHANGED <<writer, speaker, running, mem, disk, savesVars, toldVars, noteVars, boundVars>>

\* Mutant: the writer is not waited for.
WriterTold == TRUE

WriterJoined == writer = "gone"

JoinWriter ==
    /\ main = "joinWriter" /\ WriterJoined
    /\ Goto("joinSpeak")
    /\ UNCHANGED <<writer, speaker, procVars, mem, disk, savesVars, toldVars, noteVars, boundVars>>

\* join(timeout=5.0) returns when the thread has ended or five seconds passed.
JoinSpeak ==
    /\ main = "joinSpeak"
    /\ joined' = (speaker = "gone")
    /\ Goto("flush")
    /\ UNCHANGED <<writer, speaker, procVars, mem, disk, savesVars, toldVars, noted, boundVars>>

\* Mutant: the final flush saves the writer's last snapshot again.
LastSnapshot == snap

FinalState == mem

FlushSnapshots ==
    /\ main = "flush"
    /\ finalSnap' = FinalState
    /\ Goto("publish")
    /\ UNCHANGED <<writer, speaker, procVars, mem, disk, snap, flushed, toldVars, noteVars,
                   boundVars>>

FlushPublishes ==
    /\ main = "publish"
    /\ disk' = finalSnap
    /\ flushed' = TRUE
    /\ Goto("exiting")
    /\ UNCHANGED <<writer, speaker, procVars, mem, snap, finalSnap, toldVars, noteVars, boundVars>>

FlushFails ==
    /\ main = "publish" /\ faults < MaxFaults
    /\ faults' = faults + 1
    /\ Goto("exiting")
    /\ UNCHANGED <<writer, speaker, procVars, mem, disk, savesVars, toldVars, noteVars, kills>>

\* The process ends, and every daemon thread with it.
Ended ==
    /\ main' = "down" /\ writer' = "none" /\ speaker' = "none"
    /\ running' = FALSE /\ writing' = FALSE /\ dirty' = FALSE
    /\ mem' = disk /\ noted' = disk /\ joined' = FALSE /\ snap' = 0 /\ finalSnap' = 0
    /\ told' = FALSE /\ toldAt' = 0 /\ flushed' = FALSE
    /\ UNCHANGED disk

\* The lockfile is unlinked, the keepalive players stop.
Exit ==
    /\ main = "exiting"
    /\ Ended
    /\ UNCHANGED boundVars

MainStep ==
    \/ InstallHandlers \/ StartThreads \/ LeaveLoop \/ StopWriter
    \/ JoinWriter \/ JoinSpeak \/ FlushSnapshots \/ FlushPublishes \/ FlushFails \/ Exit

-----------------------------------------------------------------------------
(* Signals *)

\* _on_shutdown_signal(): runs on the main thread, wherever it is.  launchd
\* sends it once.
Sigterm ==
    /\ main \notin {"down", "boot"} /\ ~ told
    /\ running' = FALSE
    /\ told' = TRUE /\ toldAt' = mem
    /\ UNCHANGED <<main, writer, speaker, writing, dirty, mem, disk, savesVars, noteVars,
                   boundVars>>

\* SIGKILL, a crash, or a SIGTERM before the handler is installed.
Kill ==
    /\ main # "down" /\ kills < MaxKills
    /\ kills' = kills + 1
    /\ Ended
    /\ UNCHANGED faults

Next ==
    \/ WriterStep \/ SpeakStep \/ Handle
    \/ Boot \/ MainStep \/ ServerDies \/ Sigterm \/ Kill

Spec == Init /\ [][Next]_vars

\* Every thread keeps running: the debounce, an utterance and a join all end.
\* Nothing is assumed of messages, signals and kills.
FairSpec ==
    /\ Spec
    /\ WF_vars(WriterStep)
    /\ WF_vars(SpeakStep)
    /\ WF_vars(MainStep)

-----------------------------------------------------------------------------
(* Properties *)

TypeOK ==
    /\ main \in {"down", "boot", "start", "serving", "stopWriter", "joinWriter",
                 "joinSpeak", "flush", "publish", "exiting"}
    /\ writer \in {"none", "top", "wait", "debounce", "snapshot", "save", "gone"}
    /\ speaker \in {"none", "born", "top", "speaking", "mark", "gone"}
    /\ running \in BOOLEAN /\ writing \in BOOLEAN /\ dirty \in BOOLEAN
    /\ told \in BOOLEAN /\ flushed \in BOOLEAN
    /\ mem \in Nat /\ disk \in Nat /\ snap \in Nat /\ finalSnap \in Nat
    /\ joined \in BOOLEAN
    /\ toldAt \in Nat /\ noted \in Nat /\ faults \in Nat /\ kills \in Nat

\* The file is the durable register StableStore: it never falls back to an
\* older state (no late save overwrites a newer one), and a restart continues
\* from a state the daemon was in.
Store == INSTANCE StableStore

ImplementsStableStore == Store!Spec

\* A daemon told to stop leaves nothing behind that it had done before: at exit
\* the file includes every change made before then, unless the final
\* save itself failed.
ShutdownKeepsAll ==
    main = "exiting" /\ flushed => toldAt <= disk

\* "Quiesce the speak thread so a final note_spoken can't land after the
\* snapshot" (run): a speak thread that ended in time has noted nothing that
\* the final file lacks.
QuiescedIsSaved == main = "exiting" /\ flushed /\ joined => noted <= disk

\* A shutdown whose final save succeeds loses nothing.
ShutdownLosesNothing == ShutdownKeepsAll /\ QuiescedIsSaved

\* "No steady-state mutation is dropped" (_run_one_cycle): whatever is changed
\* while the daemon serves reaches the file, unless a save failed.
EverySaved ==
    \A n \in 1..MaxChanges :
        main = "serving" /\ mem >= n ~> main # "serving" \/ disk >= n \/ faults > 0

\* A SIGTERM the daemon has heeded ends it: the flag is down and the speak
\* thread, which raises it once, has begun.
Heeded == main # "down" /\ told /\ ~ running /\ speaker \notin {"none", "born"}

HeededSignalEnds == Heeded ~> main = "down"
=============================================================================
