----------------------------- MODULE KeepAlive -----------------------------
(***************************************************************************)
(* daemon/keepalive.py: the manager of the silent players that hold the      *)
(* audio device open.  Each action is one block under the manager's own      *)
(* lock; what it detaches is terminated after the lock is released, while    *)
(* other threads go on.                                                      *)
(*                                                                          *)
(* A timer that fires waits for the lock as a late callback, and cancelling  *)
(* it then comes too late.  Its callback closes over the timer object and    *)
(* compares it with the recorded one; `mine' is that comparison.             *)
(*                                                                          *)
(* Players are counted, not named.  Durations are abstracted: a timer fires  *)
(* some time after it was armed, a death is observed as fast or slow, the    *)
(* back-off has elapsed or not.                                              *)
(***************************************************************************)
EXTENDS Naturals

CONSTANTS GiveUp,       \* GIVEUP_N
          MaxPlayers    \* bound: players in the list, exited ones included

ASSUME GiveUpAssumption == GiveUp \in Nat \ {0}
ASSUME PlayersAssumption == MaxPlayers \in Nat \ {0}

VARIABLES
    enabled,    \* _enabled
    want,       \* _want
    playing,    \* players of the list that run
    exited,     \* players of the list that exited and were not observed yet
    doomed,     \* players detached from the list and not terminated yet
    overlap,    \* _overlap_timer is set
    hold,       \* _hold_timer is set
    late,       \* callbacks of fired timers that wait for the lock
    fast,       \* _fast_deaths
    degraded    \* _degraded

playerVars == <<playing, exited, doomed>>
timerVars == <<overlap, hold, late>>
policyVars == <<enabled, want, fast, degraded>>
kvars == <<playerVars, timerVars, policyVars>>

Kinds == {"overlap", "hold"}

Callback(kind, mine) == [kind |-> kind, mine |-> mine]

\* The late callbacks once the recorded timers of these kinds are cancelled,
\* replaced or forgotten.
Disowned(kinds) ==
    {IF c.kind \in kinds THEN Callback(c.kind, FALSE) ELSE c : c \in late}

-----------------------------------------------------------------------------
(* _spawn_locked and _detach_players_locked *)

ArmOverlap == TRUE

\* A player joins `kept' running and `dead' exited ones; its successor is armed
\* in place of the armed one.
Spawns(kept, dead) ==
    /\ kept + dead < MaxPlayers
    /\ playing' = kept + 1 /\ exited' = dead
    /\ overlap' = ArmOverlap
    /\ UNCHANGED degraded

\* Popen raised: an immediate give-up.
SpawnRaises(kept, dead, armed) ==
    /\ playing' = kept /\ exited' = dead
    /\ overlap' = armed
    /\ degraded' = TRUE

\* The chain dies with its players.
ChainAfterDetach == FALSE

Detach ==
    /\ doomed' = doomed + playing
    /\ playing' = 0 /\ exited' = 0
    /\ overlap' = ChainAfterDetach

-----------------------------------------------------------------------------
(* Policy *)

Disable ==
    /\ enabled' = FALSE
    /\ hold' = FALSE
    /\ Detach
    /\ late' = Disowned(Kinds)
    /\ UNCHANGED <<want, fast, degraded>>

\* The edge forgives a give-up; a repeated call does not.
Enable ==
    /\ enabled' = TRUE
    /\ fast' = IF enabled THEN fast ELSE 0
    /\ degraded' = (degraded /\ enabled)
    /\ UNCHANGED <<playerVars, timerVars, want>>

SetEnabled(on) == IF on THEN Enable ELSE Disable

\* What the False -> True edge leaves of an earlier give-up.
StillDegraded == want /\ degraded

\* A running player, and only that, blocks the spawn.
Activate ==
    /\ hold' = FALSE
    /\ want' = TRUE
    /\ fast' = IF want THEN fast ELSE 0
    /\ IF enabled /\ ~ StillDegraded /\ playing = 0
       THEN \/ /\ exited < MaxPlayers
               /\ playing' = 1 /\ overlap' = ArmOverlap
               /\ degraded' = FALSE
               /\ late' = Disowned(Kinds)
            \/ /\ degraded' = TRUE
               /\ late' = Disowned({"hold"})
               /\ UNCHANGED <<playing, overlap>>
       ELSE /\ degraded' = StillDegraded
            /\ late' = Disowned({"hold"})
            /\ UNCHANGED <<playing, overlap>>
    /\ UNCHANGED <<enabled, exited, doomed>>

\* Mutant: every call starts the hold anew.
HoldsAnew == playing + exited > 0

\* The device is held for a while once it is no longer wanted.
HoldBegins == want /\ playing + exited > 0

Deactivate ==
    /\ want' = FALSE
    /\ IF HoldBegins
       THEN hold' = TRUE /\ late' = Disowned({"hold"})
       ELSE UNCHANGED <<hold, late>>
    /\ UNCHANGED <<enabled, playerVars, overlap, fast, degraded>>

SetActive(active) == IF active THEN Activate ELSE Deactivate

-----------------------------------------------------------------------------
(* tick: deaths are observed, a streak of fast ones gives up *)

\* Of the exited players `quick' were fast; one slow death clears the streak
\* (the list is in the order of the spawns, so the slow ones come first).
Streak(quick) == IF quick < exited THEN quick ELSE fast + quick

MayRespawn == want /\ enabled /\ ~ degraded /\ playing = 0 /\ exited = 0

Tick ==
    \E quick \in 0..exited, elapsed \in BOOLEAN :
        /\ fast' = Streak(quick)
        /\ IF fast' >= GiveUp
           THEN degraded' = TRUE /\ Detach /\ late' = Disowned({"overlap"})
           ELSE /\ UNCHANGED doomed
                /\ IF MayRespawn /\ elapsed
                   THEN \/ Spawns(0, 0) /\ late' = Disowned({"overlap"})
                        \/ SpawnRaises(0, 0, overlap) /\ UNCHANGED late
                   ELSE exited' = 0 /\ UNCHANGED <<playing, overlap, degraded, late>>
        /\ UNCHANGED <<enabled, want, hold>>

Stop ==
    /\ want' = FALSE
    /\ hold' = FALSE
    /\ Detach
    /\ late' = Disowned(Kinds)
    /\ UNCHANGED <<enabled, fast, degraded>>

\* Outside the lock: terminate() and a bounded wait.
Reap ==
    /\ doomed > 0
    /\ doomed' = doomed - 1
    /\ UNCHANGED <<playing, exited, timerVars, policyVars>>

-----------------------------------------------------------------------------
(* Timers *)

Fire(kind) ==
    /\ IF kind = "overlap" THEN overlap ELSE hold
    /\ Callback(kind, TRUE) \notin late
    /\ late' = late \union {Callback(kind, TRUE)}
    /\ UNCHANGED <<playerVars, overlap, hold, policyVars>>

\* Mutants: any callback acts if a timer of its kind is recorded; the chain
\* goes on for nobody.
AnyTimer(kind, mine) == IF kind = "overlap" THEN overlap ELSE hold
ChainAlways == TRUE

IsMine(kind, mine) == mine

\* The chain goes on while the stream is wanted, and through a hold.
ChainGoesOn == want \/ hold

\* The successor overlaps the player whose file is about to end.
OverlapDue(mine) ==
    /\ Callback("overlap", mine) \in late
    /\ late' = late \ {Callback("overlap", mine)}
    /\ IF IsMine("overlap", mine)
       THEN IF enabled /\ ~ degraded /\ ChainGoesOn
            THEN \/ Spawns(playing, 0)
                 \/ SpawnRaises(playing, 0, FALSE)
            ELSE overlap' = FALSE /\ UNCHANGED <<playing, exited, degraded>>
       ELSE UNCHANGED <<playing, exited, overlap, degraded>>
    /\ UNCHANGED <<doomed, hold, enabled, want, fast>>

HoldExpired(mine) ==
    /\ Callback("hold", mine) \in late
    /\ IF IsMine("hold", mine) /\ ~ want
       THEN /\ hold' = FALSE /\ Detach
            /\ late' = Disowned({"overlap"}) \ {Callback("hold", mine)}
       ELSE /\ late' = late \ {Callback("hold", mine)}
            /\ UNCHANGED <<hold, overlap, playerVars>>
    /\ UNCHANGED policyVars

\* A player reaches the end of its file, or dies.
Exit ==
    /\ playing > 0
    /\ playing' = playing - 1 /\ exited' = exited + 1
    /\ UNCHANGED <<doomed, timerVars, policyVars>>

-----------------------------------------------------------------------------
KInit ==
    /\ enabled \in BOOLEAN /\ want = FALSE /\ fast = 0 /\ degraded = FALSE
    /\ playing = 0 /\ exited = 0 /\ doomed = 0
    /\ overlap = FALSE /\ hold = FALSE /\ late = {}

Callbacks == \E mine \in BOOLEAN : OverlapDue(mine) \/ HoldExpired(mine)

\* The manager under callers of any kind, in any order.
KNext ==
    \/ \E b \in BOOLEAN : SetEnabled(b) \/ SetActive(b)
    \/ Tick \/ Stop \/ Reap
    \/ Callbacks \/ (\E kind \in Kinds : Fire(kind)) \/ Exit

KSpec == KInit /\ [][KNext]_kvars

-----------------------------------------------------------------------------
(* Properties *)

KTypeOK ==
    /\ enabled \in BOOLEAN /\ want \in BOOLEAN /\ degraded \in BOOLEAN
    /\ playing \in Nat /\ exited \in Nat /\ doomed \in Nat /\ fast \in Nat
    /\ overlap \in BOOLEAN /\ hold \in BOOLEAN
    /\ late \subseteq [kind : Kinds, mine : BOOLEAN]

\* A manager nobody wants plays only through its hold: no timer that comes
\* late starts a chain on an idle one.
IdleIsSilent == playing > 0 => want \/ hold

\* "keepalive off" stops everything, and nothing starts it behind its back.
DisabledIsSilent ==
    ~ enabled => playing = 0 /\ exited = 0 /\ ~ hold /\ ~ overlap

\* Nothing plays that nobody asked for.
NeverUnbidden == KTypeOK /\ IdleIsSilent /\ DisabledIsSilent

\* Overlap, never gap: a stream that plays has its successor armed (its timer
\* may have fired already), through a hold too, and loses it only when the
\* manager gives up.
ChainUnbroken ==
    playing' > 0 /\ ~ degraded' /\ (playing = 0 \/ overlap) => overlap'

\* A manager that has given up starts nothing until it is wanted anew: the
\* verdict repeated ten times a second does not erase the bound on a storm.
GivenUpStaysQuiet == degraded /\ playing' > playing => ~ want /\ want'

\* A hold lasts its whole time: the stream it keeps is given up only once its
\* own timer -- not one cancelled too late -- has fired, unless the knob or the
\* shutdown ends it.
HoldIsWhole ==
    hold /\ ~ hold' /\ ~ want' /\ enabled' /\ ~ Stop
        => Callback("hold", TRUE) \in late

\* A stream once started goes on, through holds and successors, until it is
\* let go or given up; and given up is given up.
StreamUnbroken == [][ChainUnbroken /\ GivenUpStaysQuiet /\ HoldIsWhole]_kvars
=============================================================================
