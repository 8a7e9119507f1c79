---------------------------- MODULE PresenceProofs ----------------------------
(***************************************************************************)
(* The keepalive for every GIVEUP_N and any number of players and changes.   *)
(* What the manager promises is proved under callers of any kind, in any     *)
(* order (KSpec); the policy's steps are such callers, so it inherits all    *)
(* of it.                                                                    *)
(***************************************************************************)
EXTENDS Presence, TLAPS

KInv == KTypeOK /\ IdleIsSilent /\ DisabledIsSilent

LateCallbacks == [kind : Kinds, mine : BOOLEAN]

\* Cancelling a timer whose callback waits leaves a callback.
LEMMA DisownedType ==
    ASSUME late \subseteq LateCallbacks, NEW kinds
    PROVE  Disowned(kinds) \subseteq LateCallbacks
<1>. SUFFICES ASSUME NEW c \in late
              PROVE  (IF c.kind \in kinds THEN Callback(c.kind, FALSE) ELSE c)
                       \in LateCallbacks
  BY DEF Disowned
<1>1. c \in LateCallbacks OBVIOUS
<1>2. Callback(c.kind, FALSE) \in LateCallbacks
  BY <1>1 DEF LateCallbacks, Callback
<1>3. QED BY <1>1, <1>2

LEMMA CallbackType ==
    ASSUME NEW kind \in Kinds
    PROVE  Callback(kind, TRUE) \in LateCallbacks
BY DEF LateCallbacks, Callback

\* What a step may make of the late callbacks.
LEMMA LateStep ==
    ASSUME late \subseteq LateCallbacks, [KNext]_kvars
    PROVE  late' \subseteq LateCallbacks
<1>1. \/ late' \subseteq late
      \/ \E kinds : late' \subseteq Disowned(kinds)
      \/ \E kind \in Kinds : late' = late \union {Callback(kind, TRUE)}
  <2>1. CASE \E b \in BOOLEAN : SetEnabled(b)
    BY <2>1 DEF SetEnabled, Enable, Disable, timerVars
  <2>2. CASE \E b \in BOOLEAN : SetActive(b)
    BY <2>2 DEF SetActive, Activate, Deactivate
  <2>3. CASE Tick \/ Stop
    BY <2>3 DEF Tick, Stop
  <2>4. CASE Reap \/ Exit
    BY <2>4 DEF Reap, Exit, timerVars
  <2>5. CASE Callbacks
    BY <2>5 DEF Callbacks, OverlapDue, HoldExpired
  <2>6. CASE \E kind \in Kinds : Fire(kind)
    BY <2>6 DEF Fire
  <2>7. CASE UNCHANGED kvars
    BY <2>7 DEF kvars, timerVars
  <2>8. QED BY <2>1, <2>2, <2>3, <2>4, <2>5, <2>6, <2>7 DEF KNext
<1>2. CASE late' \subseteq late
  BY <1>2
<1>3. CASE \E kinds : late' \subseteq Disowned(kinds)
  BY <1>3, DisownedType
<1>4. CASE \E kind \in Kinds : late' = late \union {Callback(kind, TRUE)}
  BY <1>4, CallbackType
<1>5. QED BY <1>1, <1>2, <1>3, <1>4

Counts == /\ playing \in Nat /\ exited \in Nat /\ doomed \in Nat /\ fast \in Nat

Flags == /\ enabled \in BOOLEAN /\ want \in BOOLEAN /\ degraded \in BOOLEAN
         /\ overlap \in BOOLEAN /\ hold \in BOOLEAN

LEMMA CountStep == Counts /\ [KNext]_kvars => Counts'
<1>. SUFFICES ASSUME Counts, [KNext]_kvars PROVE Counts'
  OBVIOUS
<1>. USE DEF Counts
<1>1. CASE \E b \in BOOLEAN : SetEnabled(b)
  BY <1>1 DEF SetEnabled, Enable, Disable, Detach, playerVars
<1>2. CASE \E b \in BOOLEAN : SetActive(b)
  BY <1>2 DEF SetActive, Activate, Deactivate, playerVars
<1>3. CASE Tick
  BY <1>3 DEF Tick, Streak, Detach, Spawns, SpawnRaises
<1>4. CASE Stop
  BY <1>4 DEF Stop, Detach
<1>5. CASE Reap \/ Exit
  BY <1>5 DEF Reap, Exit, policyVars
<1>6. CASE Callbacks
  BY <1>6 DEF Callbacks, OverlapDue, HoldExpired, Spawns, SpawnRaises, Detach,
              playerVars, policyVars
<1>7. CASE \E kind \in Kinds : Fire(kind)
  BY <1>7 DEF Fire, playerVars, policyVars
<1>8. CASE UNCHANGED kvars
  BY <1>8 DEF kvars, playerVars, policyVars
<1>9. QED BY <1>1, <1>2, <1>3, <1>4, <1>5, <1>6, <1>7, <1>8 DEF KNext

LEMMA FlagStep == Flags /\ [KNext]_kvars => Flags'
<1>. SUFFICES ASSUME Flags, [KNext]_kvars PROVE Flags'
  OBVIOUS
<1>. USE DEF Flags
<1>1. CASE \E b \in BOOLEAN : SetEnabled(b)
  BY <1>1 DEF SetEnabled, Enable, Disable, Detach, ChainAfterDetach, timerVars
<1>2. CASE \E b \in BOOLEAN : SetActive(b)
  BY <1>2 DEF SetActive, Activate, Deactivate, StillDegraded, ArmOverlap
<1>3. CASE Tick
  BY <1>3 DEF Tick, Detach, ChainAfterDetach, Spawns, SpawnRaises, ArmOverlap
<1>4. CASE Stop
  BY <1>4 DEF Stop, Detach, ChainAfterDetach
<1>5. CASE Reap \/ Exit
  BY <1>5 DEF Reap, Exit, timerVars, policyVars
<1>6. CASE Callbacks
  BY <1>6 DEF Callbacks, OverlapDue, HoldExpired, Spawns, SpawnRaises, Detach,
              ChainAfterDetach, ArmOverlap, policyVars
<1>7. CASE \E kind \in Kinds : Fire(kind)
  BY <1>7 DEF Fire, policyVars
<1>8. CASE UNCHANGED kvars
  BY <1>8 DEF kvars, timerVars, policyVars
<1>9. QED BY <1>1, <1>2, <1>3, <1>4, <1>5, <1>6, <1>7, <1>8 DEF KNext

\* No step of the manager leaves the types.
LEMMA TypeStep == KTypeOK /\ [KNext]_kvars => KTypeOK'
<1>1. KTypeOK <=> Counts /\ Flags /\ late \subseteq LateCallbacks
  BY DEF KTypeOK, Counts, Flags, LateCallbacks
<1>2. KTypeOK' <=> Counts' /\ Flags' /\ late' \subseteq LateCallbacks
  BY DEF KTypeOK, Counts, Flags, LateCallbacks
<1>3. QED BY <1>1, <1>2, CountStep, FlagStep, LateStep

\* Every way a player starts has a reason to: the stream is wanted or held.
LEMMA IdleStep == KTypeOK /\ IdleIsSilent /\ [KNext]_kvars => IdleIsSilent'
<1>. USE DEF IdleIsSilent, KTypeOK
<1>1. CASE \E b \in BOOLEAN : SetEnabled(b)
  BY <1>1 DEF SetEnabled, Enable, Disable, Detach, playerVars, timerVars
<1>2. CASE \E b \in BOOLEAN : SetActive(b)
  BY <1>2 DEF SetActive, Activate, Deactivate, HoldBegins, playerVars
<1>3. CASE Tick
  BY <1>3 DEF Tick, Detach, MayRespawn, Spawns, SpawnRaises
<1>4. CASE Stop
  BY <1>4 DEF Stop, Detach
<1>5. CASE Reap
  BY <1>5 DEF Reap, timerVars, policyVars
<1>6. CASE Callbacks
  BY <1>6 DEF Callbacks, OverlapDue, HoldExpired, ChainGoesOn, Spawns,
              SpawnRaises, Detach, playerVars, policyVars
<1>7. CASE \E kind \in Kinds : Fire(kind)
  BY <1>7 DEF Fire, playerVars, policyVars
<1>8. CASE Exit
  BY <1>8 DEF Exit, timerVars, policyVars
<1>9. CASE UNCHANGED kvars
  BY <1>9 DEF kvars, playerVars, timerVars, policyVars
<1>10. QED BY <1>1, <1>2, <1>3, <1>4, <1>5, <1>6, <1>7, <1>8, <1>9 DEF KNext

\* A disabled manager has nothing to go on from.
LEMMA DisabledStep ==
    KTypeOK /\ DisabledIsSilent /\ [KNext]_kvars => DisabledIsSilent'
<1>. USE DEF DisabledIsSilent, KTypeOK
<1>1. CASE \E b \in BOOLEAN : SetEnabled(b)
  BY <1>1 DEF SetEnabled, Enable, Disable, Detach, ChainAfterDetach
<1>2. CASE \E b \in BOOLEAN : SetActive(b)
  BY <1>2 DEF SetActive, Activate, Deactivate, HoldBegins, playerVars
<1>3. CASE Tick
  BY <1>3 DEF Tick, Detach, ChainAfterDetach, MayRespawn
<1>4. CASE Stop
  BY <1>4 DEF Stop, Detach, ChainAfterDetach
<1>5. CASE Reap
  BY <1>5 DEF Reap, timerVars, policyVars
<1>6. CASE Callbacks
  BY <1>6 DEF Callbacks, OverlapDue, HoldExpired, Detach, ChainAfterDetach,
              playerVars, policyVars
<1>7. CASE \E kind \in Kinds : Fire(kind)
  BY <1>7 DEF Fire, playerVars, policyVars
<1>8. CASE Exit
  BY <1>8 DEF Exit, timerVars, policyVars
<1>9. CASE UNCHANGED kvars
  BY <1>9 DEF kvars, playerVars, timerVars, policyVars
<1>10. QED BY <1>1, <1>2, <1>3, <1>4, <1>5, <1>6, <1>7, <1>8, <1>9 DEF KNext

LEMMA InvStep == KInv /\ [KNext]_kvars => KInv'
BY TypeStep, IdleStep, DisabledStep DEF KInv

LEMMA InvAlways == KSpec => []KInv
<1>1. KInit => KInv
  <2>. SUFFICES ASSUME KInit PROVE KInv
    OBVIOUS
  <2>1. KTypeOK BY DEF KInit, KTypeOK
  <2>2. IdleIsSilent BY DEF KInit, IdleIsSilent
  <2>3. DisabledIsSilent BY DEF KInit, DisabledIsSilent
  <2>4. QED BY <2>1, <2>2, <2>3 DEF KInv
<1>2. QED BY <1>1, InvStep, PTL DEF KSpec

-----------------------------------------------------------------------------
(* What every call of the manager keeps to *)

\* After a give-up only a new activation starts a player.
LEMMA GivenUpStep == KInv /\ KNext => GivenUpStaysQuiet
<1>. SUFFICES ASSUME KTypeOK, KNext, degraded
              PROVE (~ want /\ want') \/ ~ (playing' > playing)
  BY DEF KInv, GivenUpStaysQuiet
<1>. DEFINE Fewer == playing' = playing \/ playing' = 0 \/ playing' = playing - 1
<1>1. Fewer => ~ (playing' > playing)
  BY DEF KTypeOK
<1>. HIDE DEF Fewer
<1>2. CASE \E b \in BOOLEAN : SetEnabled(b)
  BY <1>1, <1>2 DEF Fewer, SetEnabled, Enable, Disable, Detach, playerVars
<1>3. CASE \E b \in BOOLEAN : SetActive(b)
  <2>1. CASE Activate
    <3>1. CASE want
      BY <1>1, <2>1, <3>1 DEF Fewer, Activate, StillDegraded
    <3>2. CASE ~ want
      BY <2>1, <3>2 DEF Activate
    <3>3. QED BY <3>1, <3>2
  <2>2. CASE Deactivate
    BY <1>1, <2>2 DEF Fewer, Deactivate, playerVars
  <2>3. QED BY <1>3, <2>1, <2>2 DEF SetActive
<1>4. CASE Tick
  BY <1>1, <1>4 DEF Fewer, Tick, Detach, MayRespawn
<1>5. CASE Stop \/ Reap \/ Exit
  BY <1>1, <1>5 DEF Fewer, Stop, Reap, Exit, Detach
<1>6. CASE Callbacks
  BY <1>1, <1>6 DEF Fewer, Callbacks, OverlapDue, HoldExpired, Detach, playerVars
<1>7. CASE \E kind \in Kinds : Fire(kind)
  BY <1>1, <1>7 DEF Fewer, Fire, playerVars
<1>8. QED BY <1>2, <1>3, <1>4, <1>5, <1>6, <1>7 DEF KNext

\* A playing stream keeps an armed successor until the manager gives up.
LEMMA ChainStep == KInv /\ KNext => ChainUnbroken
<1>. SUFFICES ASSUME KTypeOK, IdleIsSilent, DisabledIsSilent, KNext,
                     playing' > 0, ~ degraded', playing = 0 \/ overlap
              PROVE overlap'
  BY DEF KInv, ChainUnbroken
<1>. USE DEF KTypeOK
<1>1. CASE \E b \in BOOLEAN : SetEnabled(b)
  BY <1>1 DEF SetEnabled, Enable, Disable, Detach, playerVars, timerVars
<1>2. CASE \E b \in BOOLEAN : SetActive(b)
  BY <1>2 DEF SetActive, Activate, Deactivate, ArmOverlap, playerVars
<1>3. CASE Tick
  BY <1>3 DEF Tick, Detach, Spawns, SpawnRaises, ArmOverlap
<1>4. CASE Stop
  BY <1>4 DEF Stop, Detach
<1>5. CASE Reap \/ Exit
  BY <1>5 DEF Reap, Exit, timerVars
<1>6. CASE Callbacks
  <2>1. PICK mine \in BOOLEAN : OverlapDue(mine) \/ HoldExpired(mine)
    BY <1>6 DEF Callbacks
  <2>2. CASE OverlapDue(mine)
    <3>1. playing > 0 /\ ~ degraded => enabled /\ ChainGoesOn
      BY DEF IdleIsSilent, DisabledIsSilent, ChainGoesOn
    <3>2. QED
      BY <2>2, <3>1 DEF OverlapDue, Spawns, SpawnRaises, ArmOverlap
  <2>3. CASE HoldExpired(mine)
    BY <2>3 DEF HoldExpired, Detach, playerVars
  <2>4. QED BY <2>1, <2>2, <2>3
<1>7. CASE \E kind \in Kinds : Fire(kind)
  BY <1>7 DEF Fire, playerVars
<1>8. QED BY <1>1, <1>2, <1>3, <1>4, <1>5, <1>6, <1>7 DEF KNext

\* A hold ends by its own timer, by a new activation, by the knob or by the
\* shutdown.
LEMMA HoldStep == KInv /\ KNext => HoldIsWhole
<1>. SUFFICES ASSUME KTypeOK, KNext, hold, ~ hold', ~ want', enabled', ~ Stop
              PROVE Callback("hold", TRUE) \in late
  BY DEF KInv, HoldIsWhole
<1>. USE DEF KTypeOK
<1>1. CASE \E b \in BOOLEAN : SetEnabled(b)
  BY <1>1 DEF SetEnabled, Enable, Disable, timerVars
<1>2. CASE \E b \in BOOLEAN : SetActive(b)
  BY <1>2 DEF SetActive, Activate, Deactivate
<1>3. CASE Tick
  BY <1>3 DEF Tick
<1>4. CASE Reap \/ Exit
  BY <1>4 DEF Reap, Exit, timerVars
<1>5. CASE Callbacks
  BY <1>5 DEF Callbacks, OverlapDue, HoldExpired, IsMine
<1>6. CASE \E kind \in Kinds : Fire(kind)
  BY <1>6 DEF Fire
<1>7. QED BY <1>1, <1>2, <1>3, <1>4, <1>5, <1>6 DEF KNext

-----------------------------------------------------------------------------
(* The policy *)

\* Whatever the loop, the lifecycle handlers, the timers and the shutdown do
\* to the manager is a call the manager's own specification admits.
THEOREM PolicyImplementsManager == PSpec => KSpec
<1>1. PInit => KInit
  BY DEF PInit
<1>2. [PNext]_pvars => [KNext]_kvars
  <2>. SUFFICES ASSUME [PNext]_pvars PROVE [KNext]_kvars
    OBVIOUS
  <2>1. CASE World \/ SampleAges \/ HandlerReads \/ ProcessEnds \/ Read
    BY <2>1 DEF World, SampleAges, HandlerReads, ProcessEnds, Read
  <2>2. CASE Enables
    <3>1. enabled \in BOOLEAN => (~ enabled) \in BOOLEAN OBVIOUS
    <3>2. \E b \in BOOLEAN : SetEnabled(b)
      BY <2>2 DEF Enables, SetEnabled
    <3>3. QED BY <3>2 DEF KNext
  <2>3. CASE Acts \/ HandlerActs
    BY <2>3 DEF Acts, HandlerActs, KNext, SetActive
  <2>4. CASE Ticks \/ ShutDown
    BY <2>4 DEF Ticks, ShutDown, KNext
  <2>5. CASE (\E kind \in Kinds : TimerFires(kind)) \/ HoldEnds \/ OverlapEnds
    BY <2>5 DEF TimerFires, HoldEnds, OverlapEnds, KNext, Callbacks
  <2>6. CASE Reaps \/ PlayerExits
    BY <2>6 DEF Reaps, PlayerExits, KNext
  <2>7. CASE UNCHANGED pvars
    BY <2>7 DEF pvars
  <2>8. QED
    BY <2>1, <2>2, <2>3, <2>4, <2>5, <2>6, <2>7 DEF PNext, LoopTurn, Handler
<1>3. QED BY <1>1, <1>2, PTL DEF PSpec, KSpec

-----------------------------------------------------------------------------
(* What the manager promises under the policy *)

\* Nothing plays that nobody asked for: unwanted, the manager plays only
\* through its hold, and switched off not at all.
THEOREM PresenceNeverUnbidden == PSpec => []NeverUnbidden
BY PolicyImplementsManager, InvAlways, PTL DEF KInv, NeverUnbidden

\* A stream once started goes on until it is let go or given up, and given up is
\* given up.
THEOREM PresenceStreamUnbroken == PSpec => StreamUnbroken
<1>1. KInv /\ [KNext]_kvars
        => [ChainUnbroken /\ GivenUpStaysQuiet /\ HoldIsWhole]_kvars
  <2>1. KInv /\ KNext => ChainUnbroken /\ GivenUpStaysQuiet /\ HoldIsWhole
    BY ChainStep, GivenUpStep, HoldStep
  <2>2. QED BY <2>1
<1>2. QED
  BY <1>1, PolicyImplementsManager, InvAlways, PTL DEF KSpec, StreamUnbroken

-----------------------------------------------------------------------------
(* The policy's own state *)

PTypeOK ==
    /\ live \in BOOLEAN /\ spoke \in BOOLEAN /\ there \in BOOLEAN
    /\ waiting \in BOOLEAN /\ cached \in BOOLEAN
    /\ age \in {"fresh", "settled", "stale"}

\* Only the world moves what the policy reads, and only a read or time its cache.
LEMMA PTypeStep == PTypeOK /\ [PNext]_pvars => PTypeOK'
<1>. SUFFICES ASSUME PTypeOK, [PNext]_pvars PROVE PTypeOK'
  OBVIOUS
<1>. USE DEF PTypeOK
<1>1. CASE World
  BY <1>1 DEF World, Toggle, cacheVars
<1>2. CASE SampleAges
  BY <1>2 DEF SampleAges, worldVars, worldFlags
<1>3. CASE Read
  BY <1>3 DEF Read, Sampled, worldVars, worldFlags, cacheVars
<1>4. CASE UNCHANGED <<worldFlags, cacheVars>>
  BY <1>4 DEF worldFlags, cacheVars
<1>5. World \/ SampleAges \/ Read \/ UNCHANGED <<worldFlags, cacheVars>>
  BY DEF PNext, LoopTurn, Enables, Acts, Ticks, Handler, HandlerReads, HandlerActs,
         ShutDown, ProcessEnds, TimerFires, HoldEnds, OverlapEnds, Reaps, PlayerExits,
         Alone, pvars, worldVars
<1>6. QED BY <1>1, <1>2, <1>3, <1>4, <1>5

\* A read that says nobody is there, of a user who is, trusts a sample no older
\* than the floor when something waits: otherwise it would have asked.
LEMMA ReadStep ==
    ASSUME PTypeOK, PNext, step = "read", step' = "enable", live, there, waiting,
           ~ verdict'
    PROVE  age = "fresh"
<1>1. Read
  BY DEF PNext, World, SampleAges, LoopTurn, Enables, Acts, Ticks, Handler, HandlerReads,
         HandlerActs, ShutDown, ProcessEnds, TimerFires, HoldEnds, OverlapEnds, Reaps,
         PlayerExits, Alone, hostVars
<1>2. ~ spoke /\ ~ cached'
  BY <1>1 DEF Read
<1>3. ~ SampleDue
  <2>1. Sampled = {TRUE}
    BY DEF Sampled, PTypeOK
  <2>2. QED BY <1>1, <1>2, <2>1 DEF Read
<1>4. cached' = cached
  BY <1>1, <1>3 DEF Read, cacheVars
<1>5. QED BY <1>2, <1>3, <1>4 DEF SampleDue, Bypass, PTypeOK

\* A user who came back and for whom something waits is taken for absent for
\* the floor of one sample at most, never for its whole life.
THEOREM PresenceReturningHeard == PSpec => ReturningHeard
<1>1. PInit => PTypeOK
  BY DEF PInit, PTypeOK
<1>2. PTypeOK /\ [PNext]_pvars
        => [step = "read" /\ step' = "enable" /\ live /\ there /\ waiting /\ ~ verdict'
              => age = "fresh"]_pvars
  BY ReadStep
<1>3. QED BY <1>1, <1>2, PTypeStep, PTL DEF PSpec, ReturningHeard
=============================================================================
