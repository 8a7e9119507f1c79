----------------------------- MODULE Permission -----------------------------
(***************************************************************************)
(* decisions.py and host.py: the blocking permission ask.  A connection     *)
(* thread handles PERMISSION_REQUEST under the daemon lock, leaves the      *)
(* lock, and only then looks its session's pending entry up again and waits *)
(* on that entry's event; it takes the lock a third time to reply.  The     *)
(* entry a request creates has the request's name; so has the queue item    *)
(* that speaks it.                                                          *)
(***************************************************************************)
EXTENDS FiniteSets

CONSTANTS Session,   \* session ids
          Request,   \* permission requests (and the threads serving them)
          None       \* no session / no entry / no behaviour

ASSUME NoneAssumption == None \notin Session \union Request \union {"allow", "deny"}

VARIABLES
    pc,        \* where each request's connection thread is
    asker,     \* the session it asks for
    pending,   \* _pending_decisions
    set,       \* entries whose event is set
    behavior,  \* entry["behavior"]
    waitsOn,   \* the entry a thread found and waits on
    got,       \* what event.wait() returned
    reply,     \* the decision the hook was sent
    queued,    \* asks whose text is queued
    inFlight,  \* the ask being spoken
    cut,       \* speaker.cancel() ran since it was popped
    stopped,   \* sessions whose stream is stopped
    workspace, \* the session an answer goes to
    expired,   \* entries whose expiry was announced
    approved   \* history: requests that were outstanding when the user
               \* approved for their session

askVars    == <<pc, asker, waitsOn, got, reply>>
entryVars  == <<pending, set, behavior, expired, approved>>
speechVars == <<queued, inFlight, cut, stopped>>
vars == <<askVars, entryVars, speechVars, workspace>>

Behavior == {"allow", "deny"}

Init ==
    /\ pc = [r \in Request |-> "out"]
    /\ asker = [r \in Request |-> None]
    /\ pending = [s \in Session |-> None]
    /\ set = {} /\ behavior = [r \in Request |-> None]
    /\ waitsOn = [r \in Request |-> None]
    /\ got = [r \in Request |-> FALSE]
    /\ reply = [r \in Request |-> None]
    /\ queued = {} /\ inFlight = None /\ cut = FALSE /\ stopped = {}
    /\ workspace = None /\ expired = {} /\ approved = {}

AsksOf(s) == {r \in Request : asker[r] = s}

Blocked == {r \in Request : pc[r] \in {"asked", "waiting", "woken"}}

-----------------------------------------------------------------------------
(* The connection thread of a request *)

\* on_permission_request(): a fresh entry replaces the session's previous one,
\* whose waiter is released with nothing.
Released(s) == {pending[s]} \ {None}

Ask(r, s) ==
    /\ pc[r] = "out"
    /\ pc' = [pc EXCEPT ![r] = "asked"]
    /\ asker' = [asker EXCEPT ![r] = s]
    /\ set' = set \union Released(s)
    /\ pending' = [pending EXCEPT ![s] = r]
    /\ queued' = queued \union {r}
    /\ UNCHANGED <<behavior, waitsOn, got, reply, inFlight, cut, stopped, workspace,
                   expired, approved>>

\* The handler raised: the hook is sent to the terminal at once.
AskFails(r, s) ==
    /\ pc[r] = "out"
    /\ pc' = [pc EXCEPT ![r] = "replied"]
    /\ asker' = [asker EXCEPT ![r] = s]
    /\ UNCHANGED <<waitsOn, got, reply, entryVars, speechVars, workspace>>

\* _await_permission_decision(): the entry is looked up after the handler's
\* lock was released.
Found(r) == pending[asker[r]]

FindEntry(r) ==
    /\ pc[r] = "asked"
    /\ waitsOn' = [waitsOn EXCEPT ![r] = Found(r)]
    /\ pc' = [pc EXCEPT ![r] = IF Found(r) = None THEN "replied" ELSE "waiting"]
    /\ UNCHANGED <<asker, got, reply, entryVars, speechVars, workspace>>

Wake(r) ==
    /\ pc[r] = "waiting" /\ waitsOn[r] \in set
    /\ got' = [got EXCEPT ![r] = TRUE]
    /\ pc' = [pc EXCEPT ![r] = "woken"]
    /\ UNCHANGED <<asker, waitsOn, reply, entryVars, speechVars, workspace>>

\* Mutant: the event is waited for without a deadline.
NeverTimesOut(r) == pc[r] = "waiting" /\ FALSE

TimeOut(r) ==
    /\ pc[r] = "waiting" /\ waitsOn[r] \notin set
    /\ pc' = [pc EXCEPT ![r] = "woken"]
    /\ UNCHANGED <<asker, waitsOn, got, reply, entryVars, speechVars, workspace>>

\* Mutant: a wait that expired lets through.
DecisionFailsOpen(r) == IF got[r] THEN behavior[waitsOn[r]] ELSE "allow"

Decision(r) == IF got[r] THEN behavior[waitsOn[r]] ELSE None

\* Mutant: an expired entry is left behind.
StillOursIfAnswered(r) == got[r] /\ pending[asker[r]] = waitsOn[r]

StillOurs(r) == pending[asker[r]] = waitsOn[r]

\* Mutant: the text of an expired ask stays where it is.
TextKept(r) == queued

TextRemoved(r) == queued \ {waitsOn[r]}

\* The decision is the entry's only if the wait was answered; whoever finds
\* the entry still pending removes it, and announces the expiry if it is one.
Reply(r) ==
    /\ pc[r] = "woken"
    /\ pc' = [pc EXCEPT ![r] = "replied"]
    /\ reply' = [reply EXCEPT ![r] = Decision(r)]
    /\ IF StillOurs(r)
       THEN /\ pending' = [pending EXCEPT ![asker[r]] = None]
            /\ IF got[r] THEN UNCHANGED <<expired, queued>>
               ELSE /\ expired' = expired \union {waitsOn[r]}
                    /\ queued' = TextRemoved(r)
       ELSE UNCHANGED <<pending, expired, queued>>
    /\ UNCHANGED <<asker, waitsOn, got, set, behavior, approved, inFlight, cut, stopped,
                   workspace>>

Thread(r) == FindEntry(r) \/ Wake(r) \/ TimeOut(r) \/ Reply(r)

-----------------------------------------------------------------------------
(* The user *)

AnswerTarget == pending[workspace]

\* on_answer_permission(): only the workspace's own pending ask is answered.
\* The entry stays pending until its waiter takes it; the press cuts whatever
\* is being spoken.
Answer(b) ==
    /\ workspace # None
    /\ LET e == AnswerTarget
       IN  /\ e # None
           /\ behavior' = [behavior EXCEPT ![e] = b]
           /\ set' = set \union {e}
    /\ approved' = IF b = "allow" THEN approved \union (AsksOf(workspace) \intersect Blocked)
                   ELSE approved
    /\ cut' = (inFlight # None)
    /\ UNCHANGED <<askVars, pending, expired, queued, inFlight, stopped, workspace>>

Focus(s) ==
    /\ workspace' = s
    /\ UNCHANGED <<askVars, entryVars, speechVars>>

\* What the ask's text meets on its way to the ear.
CutsOwn(s) == cut' = (cut \/ (inFlight # None /\ asker[inFlight] = s))

StopSession(s) ==
    /\ s \notin stopped
    /\ stopped' = stopped \union {s}
    /\ CutsOwn(s)
    /\ UNCHANGED <<askVars, entryVars, queued, inFlight, workspace>>

StartSession(s) ==
    /\ s \in stopped
    /\ stopped' = stopped \ {s}
    /\ queued' = queued \ AsksOf(s)
    /\ UNCHANGED <<askVars, entryVars, inFlight, cut, workspace>>

Flush(s) ==
    /\ queued' = queued \ AsksOf(s)
    /\ CutsOwn(s)
    /\ UNCHANGED <<askVars, entryVars, inFlight, stopped, workspace>>

\* SESSION_END forgets the stream, and leaves the pending entry behind.
SessionEnd(s) ==
    /\ queued' = queued \ AsksOf(s)
    /\ stopped' = stopped \ {s}
    /\ workspace' = IF workspace = s THEN None ELSE workspace
    /\ UNCHANGED <<askVars, entryVars, inFlight, cut>>

-----------------------------------------------------------------------------
(* The speak loop, as far as an ask can tell *)

Voice(r) ==
    /\ inFlight = None /\ r \in queued /\ asker[r] \notin stopped
    /\ inFlight' = r
    /\ queued' = queued \ {r}
    /\ cut' = FALSE
    /\ UNCHANGED <<askVars, entryVars, stopped, workspace>>

\* A cut utterance of a stopped session goes back to its queue.
SpeechEnds ==
    /\ inFlight # None
    /\ inFlight' = None
    /\ cut' = FALSE
    /\ queued' \in {queued} \union
          (IF cut /\ asker[inFlight] \in stopped THEN {queued \union {inFlight}} ELSE {})
    /\ UNCHANGED <<askVars, entryVars, stopped, workspace>>

-----------------------------------------------------------------------------
Next ==
    \/ \E r \in Request : Thread(r) \/ Voice(r) \/ \E s \in Session : Ask(r, s) \/ AskFails(r, s)
    \/ \E b \in Behavior : Answer(b)
    \/ \E s \in Session : Focus(s) \/ StopSession(s) \/ StartSession(s) \/ Flush(s)
                          \/ SessionEnd(s)
    \/ SpeechEnds

Spec == Init /\ [][Next]_vars

\* A connection thread keeps running; event.wait() has a deadline.
FairSpec == Spec /\ \A r \in Request : WF_vars(Thread(r))

-----------------------------------------------------------------------------
(* Properties *)

EntryOrNone == Request \union {None}

TypeOK ==
    /\ pc \in [Request -> {"out", "asked", "waiting", "woken", "replied"}]
    /\ asker \in [Request -> Session \union {None}]
    /\ pending \in [Session -> EntryOrNone]
    /\ set \subseteq Request /\ expired \subseteq Request /\ approved \subseteq Request
    /\ behavior \in [Request -> Behavior \union {None}]
    /\ waitsOn \in [Request -> EntryOrNone]
    /\ got \in [Request -> BOOLEAN]
    /\ reply \in [Request -> Behavior \union {None}]
    /\ queued \subseteq Request /\ inFlight \in EntryOrNone /\ cut \in BOOLEAN
    /\ stopped \subseteq Session /\ workspace \in Session \union {None}

\* Fail-closed: a command is let through only if the user approved for its
\* own session while its hook was blocked -- no timeout, error, earlier
\* approval or other session's approval ever becomes an "allow".
AllowedOnlyByPress ==
    \A r \in Request : reply[r] = "allow" => r \in approved

\* An ask that can still be answered has a hook that will receive the answer:
\* "Approved." is never said of a decision nobody waits for.
PendingHasWaiter ==
    \A s \in Session : pending[s] # None =>
        \E r \in Blocked : \/ waitsOn[r] = pending[s]
                           \/ r = pending[s] /\ pc[r] = "asked"

\* The entries and the threads that wait on them fit together.
EntriesSound == TypeOK /\ PendingHasWaiter

\* Every blocked hook is answered or sent to the terminal's own prompt.
EveryHookReleased ==
    \A r \in Request : pc[r] = "asked" ~> pc[r] = "replied"

\* A second PERMISSION_REQUEST releases the stale waiter with None, fail-closed
\* (tests/test_decisions_answer.py:72): a hook is told "allow" only by an
\* answer to its own ask.
AllowedByOwnAnswer ==
    \A r \in Request : reply[r] = "allow" => behavior[r] = "allow"

\* The expiry removes an ask's text, so that a later read never voices a dead
\* ask as live: an expired ask waits in a queue only if it was being spoken as
\* it expired and a stop then cut it.
ExpiredComesFromAStop ==
    [][\A r \in expired' \intersect queued' :
          \/ r \in expired \intersect queued
          \/ r = inFlight /\ cut /\ asker[r] \in stopped]_vars
=============================================================================
