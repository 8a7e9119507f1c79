------------------------------ MODULE Presence ------------------------------
(***************************************************************************)
(* host.py _keepalive_recheck and _keepalive_present: the policy that tells  *)
(* the manager whether a session is live and its user there.  The speak      *)
(* loop runs it at the top of every turn, without the daemon lock, in steps  *)
(* (read, set_enabled, set_active, tick); a lifecycle handler runs it under  *)
(* the daemon lock, reads the cached presence and calls set_active only.     *)
(***************************************************************************)
EXTENDS KeepAlive

CONSTANT MaxChanges    \* bound: changes in the world and lifecycle messages

VARIABLES
    live,       \* a registered session is live
    spoke,      \* an item was played within the presence window
    there,      \* the user touched a device within it
    waiting,    \* something is queued to be spoken
    cached,     \* _keepalive_hid_present
    age,        \* of the cached sample: within the floor, the TTL, or past it
    step,       \* where the loop is in its turn
    verdict,    \* what it read
    handler,    \* what a lifecycle handler is about to say
    phase,      \* of the process
    changes     \* changes so far

worldFlags == <<live, spoke, there, waiting>>
worldVars == <<worldFlags, changes>>
cacheVars == <<cached, age>>
hostVars == <<step, verdict, handler, phase>>
pvars == <<kvars, worldVars, cacheVars, hostVars>>

-----------------------------------------------------------------------------
(* The world *)

Happens == changes < MaxChanges /\ changes' = changes + 1

Toggle(flag) == flag' = ~ flag

\* Sessions come and go, with a handler told or by a terminal that closes; the
\* loop speaks; the user comes and goes; a queue fills and drains; the knob.
World ==
    /\ phase = "up" /\ Happens
    /\ \/ Toggle(live) /\ UNCHANGED <<spoke, there, waiting>>
       \/ Toggle(spoke) /\ UNCHANGED <<live, there, waiting>>
       \/ Toggle(there) /\ UNCHANGED <<live, spoke, waiting>>
       \/ Toggle(waiting) /\ UNCHANGED <<live, spoke, there>>
    /\ UNCHANGED <<kvars, cacheVars, hostVars>>

\* KEEPALIVE_HID_MIN_S, then KEEPALIVE_HID_TTL_S pass.
SampleAges ==
    /\ age # "stale"
    /\ age' = IF age = "fresh" THEN "settled" ELSE "stale"
    /\ UNCHANGED <<kvars, worldVars, cached, hostVars>>

-----------------------------------------------------------------------------
(* _keepalive_present *)

\* Mutant: the whole TTL is waited out with something queued.
NoBypass == FALSE

\* The cached absence is doubted early when something waits to be heard.
Bypass == ~ cached /\ age = "settled" /\ waiting

SampleDue == ~ spoke /\ (age = "stale" \/ Bypass)

\* A sampler that fails says present.
Sampled == {there, TRUE}

BareVerdict == live /\ (spoke \/ cached)

\* The loop waits for its own reaping.
LoopFree == doomed = 0

\* The loop's read; only here is the device asked.
Read ==
    /\ step = "read" /\ phase = "up" /\ LoopFree
    /\ IF live /\ SampleDue
       THEN cached' \in Sampled /\ age' = "fresh"
       ELSE UNCHANGED cacheVars
    /\ verdict' = (live /\ (spoke \/ cached'))
    /\ step' = "enable"
    /\ UNCHANGED <<kvars, worldVars, handler, phase>>

\* keepalive_enabled is read here and nowhere else; the user may have turned it.
Enables ==
    /\ step = "enable"
    /\ \/ SetEnabled(enabled) /\ UNCHANGED changes
       \/ SetEnabled(~ enabled) /\ Happens
    /\ step' = "act"
    /\ UNCHANGED <<worldFlags, cacheVars, verdict, handler, phase>>

Acts ==
    /\ step = "act" /\ LoopFree
    /\ SetActive(verdict)
    /\ verdict' = FALSE
    /\ step' = "tick"
    /\ UNCHANGED <<worldVars, cacheVars, handler, phase>>

\* After the tick the rest of the turn, the utterance included.
Ticks ==
    /\ step = "tick"
    /\ Tick
    /\ step' = "read"
    /\ UNCHANGED <<worldVars, cacheVars, verdict, handler, phase>>

-----------------------------------------------------------------------------
(* A lifecycle handler; the daemon lock admits one at a time *)

HandlerReads ==
    /\ phase # "gone" /\ handler = "idle" /\ Happens
    /\ handler' = IF BareVerdict THEN "on" ELSE "off"
    /\ UNCHANGED <<kvars, worldFlags, cacheVars, step, verdict, phase>>

HandlerActs ==
    /\ phase # "gone" /\ handler # "idle"
    /\ SetActive(handler = "on")
    /\ handler' = "idle"
    /\ UNCHANGED <<worldVars, cacheVars, step, verdict, phase>>

-----------------------------------------------------------------------------
(* Shutdown: the speak thread is joined, then the manager stopped, then the  *)
(* process ends; what still plays outlives it.  Connection threads run on.   *)

ShutDown ==
    /\ phase = "up" /\ step = "read"
    /\ Stop
    /\ phase' = "stopped"
    /\ UNCHANGED <<worldVars, cacheVars, step, verdict, handler>>

ProcessEnds ==
    /\ phase = "stopped" /\ doomed = 0
    /\ phase' = "gone"
    /\ UNCHANGED <<kvars, worldVars, cacheVars, step, verdict, handler>>

-----------------------------------------------------------------------------
PInit ==
    /\ KInit
    /\ live \in BOOLEAN /\ spoke = FALSE /\ there \in BOOLEAN
    /\ waiting = FALSE /\ cached = TRUE /\ age = "stale"
    /\ step = "read" /\ verdict = FALSE /\ handler = "idle" /\ phase = "up"
    /\ changes = 0

LoopTurn == Read \/ Enables \/ Acts \/ Ticks

Handler == HandlerReads \/ HandlerActs

\* The process's other threads, and the players.
Alone == phase # "gone" /\ UNCHANGED <<worldVars, cacheVars, hostVars>>

TimerFires(kind) == Alone /\ Fire(kind)

HoldEnds == Alone /\ \E mine \in BOOLEAN : HoldExpired(mine)

OverlapEnds == Alone /\ \E mine \in BOOLEAN : OverlapDue(mine)

Reaps == Alone /\ Reap

\* The players are processes of their own.
PlayerExits == Exit /\ UNCHANGED <<worldVars, cacheVars, hostVars>>

PNext ==
    \/ World \/ SampleAges \/ LoopTurn \/ Handler \/ ShutDown \/ ProcessEnds
    \/ (\E kind \in Kinds : TimerFires(kind))
    \/ HoldEnds \/ OverlapEnds \/ Reaps \/ PlayerExits

PSpec == PInit /\ [][PNext]_pvars

\* The loop's turns go on (an utterance ends), time passes for every timer and
\* for the sample, and a thread that waits for the manager's lock gets it.
PFairSpec ==
    /\ PSpec
    /\ WF_pvars(LoopTurn) /\ WF_pvars(SampleAges) /\ WF_pvars(Reaps)
    /\ \A kind \in Kinds : WF_pvars(TimerFires(kind))
    /\ WF_pvars(HoldEnds) /\ WF_pvars(OverlapEnds)

-----------------------------------------------------------------------------
(* Properties *)

\* A user who is there with something waiting to be heard is taken for absent
\* within the floor of the last sample only: the first words after a return
\* are not clipped for the rest of the TTL.
ReturningHeard ==
    [][step = "read" /\ step' = "enable" /\ live /\ there /\ waiting /\ ~ verdict'
         => age = "fresh"]_pvars

\* Sessions that are gone let go of the audio device in the end, whatever a
\* late handler or timer did.
DeviceReleased == <>[](phase = "up" /\ ~ live) => <>[](playing + doomed = 0)

\* With a live session and its user there, the device is held again and again
\* until the manager gives up.
StreamKept ==
    <>[](phase = "up" /\ live /\ there /\ enabled)
        => []<>(playing > 0 \/ degraded)

\* The device is held for whom it is meant and let go otherwise.
StreamFollowsNeed == DeviceReleased /\ StreamKept
=============================================================================
