--------------------------- MODULE FeatureProofs ---------------------------
(***************************************************************************)
(* What holds of the two features that hold a state of their own beside the *)
(* daemon's, for any sessions, settings, messages and orders of delivery:   *)
(* the session chooser, which drives the daemon from a chord, and the       *)
(* catch-up, which puts the segments of a summary among what is queued.     *)
(***************************************************************************)
EXTENDS DaemonProofs, Chooser, Catchup

-----------------------------------------------------------------------------
(* The removal of items from a queue *)

\* f[i] is what remains of the first i items of q.
Remaining(q, ids, f) ==
    f = [i \in 0..Len(q) |->
            IF i = 0 THEN <<>> ELSE IF q[i].id \in ids THEN f[i - 1] ELSE Append(f[i - 1], q[i])]

LEMMA RemovalExists ==
    ASSUME NEW T, NEW q \in Seq(T), NEW ids
    PROVE  \E f : Remaining(q, ids, f) /\ RemoveIds(q, ids) = f[Len(q)]
<1> DEFINE Step(g, i) == IF q[i].id \in ids THEN g[i - 1] ELSE Append(g[i - 1], q[i])
           Run(n, g) == g = [i \in 0..n |-> IF i = 0 THEN <<>> ELSE Step(g, i)]
           bad == {n \in 0..Len(q) : ~ \E g : Run(n, g)}
<1>1. bad = {}
  <2> SUFFICES ASSUME bad # {} PROVE FALSE
    OBVIOUS
  <2>1. bad \subseteq Nat
    OBVIOUS
  <2>2. PICK n \in bad : \A k \in bad : n <= k
    <3> HIDE DEF bad
    <3> QED
      BY <2>1, Least
  <2>3. CASE n = 0
    <3> DEFINE g == [i \in 0..0 |-> <<>>]
    <3>1. g = [i \in 0..0 |-> IF i = 0 THEN <<>> ELSE Step(g, i)]
      OBVIOUS
    <3> QED
      BY <2>3, <3>1
  <2>4. CASE n # 0
    <3>1. n - 1 \in 0..Len(q) /\ ~ (n <= n - 1) /\ n \in Nat
      BY <2>4
    <3>2. PICK g : Run(n - 1, g)
      BY <2>2, <3>1
    <3> DEFINE h == [i \in 0..n |-> IF i = n THEN Step(g, n) ELSE g[i]]
    <3>3. ASSUME NEW i \in 0..n PROVE h[i] = IF i = 0 THEN <<>> ELSE Step(h, i)
      <4>1. CASE i = n
        BY <2>4, <3>1, <4>1
      <4>2. CASE i # n
        <5>1. i \in 0..(n - 1) /\ (i # 0 => i - 1 \in 0..n /\ i - 1 # n)
          BY <3>1, <4>2
        <5>2. g[i] = IF i = 0 THEN <<>> ELSE Step(g, i)
          BY <3>2, <5>1
        <5> QED
          BY <4>2, <5>1, <5>2
      <4> QED
        BY <4>1, <4>2
    <3>4. Run(n, h)
      <4>1. h = [i \in 0..n |-> h[i]]
        OBVIOUS
      <4> HIDE DEF h, Step
      <4> QED
        BY <3>3, <4>1
    <3> HIDE DEF h, Run
    <3> QED
      BY <3>4
  <2> QED
    BY <2>3, <2>4
<1>2. \E g : Run(Len(q), g)
  <2>1. Len(q) \in 0..Len(q)
    OBVIOUS
  <2> HIDE DEF Run
  <2> QED
    BY <1>1, <2>1
<1>3. PICK f : Run(Len(q), f) /\ RemoveIds(q, ids) = f[Len(q)]
  BY <1>2 DEF RemoveIds
<1> QED
  BY <1>3 DEF Remaining

\* The items that remain are the others, in the order they had.
LEMMA RemoveIdsElements ==
    ASSUME NEW T, NEW q \in Seq(T), NEW ids
    PROVE  LET r == RemoveIds(q, ids)
           IN  /\ r \in Seq(T)
               /\ \A i \in DOMAIN r : \E a \in DOMAIN q : r[i] = q[a] /\ q[a].id \notin ids
               /\ \A a \in DOMAIN q : q[a].id \notin ids => \E i \in DOMAIN r : r[i] = q[a]
               /\ \A i, j \in DOMAIN r :
                     i < j => \E a, b \in DOMAIN q : a < b /\ r[i] = q[a] /\ r[j] = q[b]
<1>1. PICK f : Remaining(q, ids, f) /\ RemoveIds(q, ids) = f[Len(q)]
  BY RemovalExists
<1>2. \A i \in 0..Len(q) :
         f[i] = IF i = 0 THEN <<>> ELSE IF q[i].id \in ids THEN f[i - 1] ELSE Append(f[i - 1], q[i])
  BY <1>1 DEF Remaining
<1> DEFINE From(n) == \A i \in 1..Len(f[n]) : \E a \in 1..n : f[n][i] = q[a] /\ q[a].id \notin ids
           All(n) == \A a \in 1..n : q[a].id \notin ids => \E i \in 1..Len(f[n]) : f[n][i] = q[a]
           Order(n) == \A i, j \in 1..Len(f[n]) :
                          i < j => \E a, b \in 1..n : a < b /\ f[n][i] = q[a] /\ f[n][j] = q[b]
           Good(n) == f[n] \in Seq(T) /\ From(n) /\ All(n) /\ Order(n)
           bad == {n \in 0..Len(q) : ~ Good(n)}
<1>3. bad = {}
  <2> SUFFICES ASSUME bad # {} PROVE FALSE
    OBVIOUS
  <2>1. PICK n \in bad : \A k \in bad : n <= k
    <3>1. bad \subseteq Nat
      OBVIOUS
    <3> HIDE DEF bad
    <3> QED
      BY <3>1, Least
  <2>2. CASE n = 0
    <3>1. f[0] = <<>> /\ 1..0 = {} /\ Len(<<>>) = 0
      BY <1>2
    <3>2. Good(0)
      BY <3>1
    <3> HIDE DEF Good
    <3> QED
      BY <2>1, <2>2, <3>2
  <2>3. CASE n # 0
    <3>1. n \in 1..Len(q) /\ n - 1 \in 0..Len(q) /\ ~ (n <= n - 1) /\ n \in Nat
      BY <2>3
    <3>2. Good(n - 1)
      <4> HIDE DEF Good
      <4> QED
        BY <2>1, <3>1
    <3>3. 1..n = (1..(n - 1)) \union {n} /\ \A a \in 1..(n - 1) : a < n
      BY <3>1
    <3>4. Good(n)
      <4> DEFINE r == f[n - 1]
                 l == Len(r)
      <4>1. r \in Seq(T) /\ l \in Nat /\ q[n] \in T
        BY <3>1, <3>2
      <4>2. \A i \in 1..l : \E a \in 1..(n - 1) : r[i] = q[a] /\ q[a].id \notin ids
        BY <3>2
      <4>3. \A a \in 1..(n - 1) : q[a].id \notin ids => \E i \in 1..l : r[i] = q[a]
        BY <3>2
      <4>4. \A i, j \in 1..l : i < j => \E a, b \in 1..(n - 1) : a < b /\ r[i] = q[a] /\ r[j] = q[b]
        BY <3>2
      <4>5. f[n] = IF q[n].id \in ids THEN r ELSE Append(r, q[n])
        BY <1>2, <3>1
      <4> HIDE DEF r
      <4>6. CASE q[n].id \in ids
        <5>1. f[n] = r
          BY <4>5, <4>6
        <5>2. From(n)
          BY <3>3, <4>2, <5>1
        <5>3. All(n)
          BY <3>3, <4>3, <4>6, <5>1
        <5>4. Order(n)
          BY <3>3, <4>4, <5>1
        <5> QED
          BY <4>1, <5>1, <5>2, <5>3, <5>4
      <4>7. CASE q[n].id \notin ids
        <5>1. f[n] = Append(r, q[n])
          BY <4>5, <4>7
        <5>2. /\ f[n] \in Seq(T) /\ Len(f[n]) = l + 1 /\ f[n][l + 1] = q[n]
              /\ \A i \in 1..l : f[n][i] = r[i]
              /\ 1..(l + 1) = (1..l) \union {l + 1} /\ \A i \in 1..l : i < l + 1
          BY <4>1, <5>1
        <5> HIDE DEF l
        <5>3. ASSUME NEW i \in 1..(l + 1) PROVE \E a \in 1..n : f[n][i] = q[a] /\ q[a].id \notin ids
          <6>1. CASE i \in 1..l
            BY <3>3, <4>2, <5>2, <6>1
          <6>2. CASE i = l + 1
            BY <3>3, <4>7, <5>2, <6>2
          <6> QED
            BY <5>2, <6>1, <6>2
        <5>4. ASSUME NEW a \in 1..n, q[a].id \notin ids PROVE \E i \in 1..(l + 1) : f[n][i] = q[a]
          <6>1. CASE a \in 1..(n - 1)
            <7>1. PICK i \in 1..l : r[i] = q[a]
              BY <4>3, <5>4, <6>1
            <7> QED
              BY <5>2, <7>1
          <6>2. CASE a = n
            BY <5>2, <6>2
          <6> QED
            BY <3>3, <6>1, <6>2
        <5>5. ASSUME NEW i \in 1..(l + 1), NEW j \in 1..(l + 1), i < j
              PROVE  \E a, b \in 1..n : a < b /\ f[n][i] = q[a] /\ f[n][j] = q[b]
          <6>1. i \in 1..l
            BY <4>1, <5>5
          <6>2. CASE j \in 1..l
            <7>1. PICK a \in 1..(n - 1), b \in 1..(n - 1) : a < b /\ r[i] = q[a] /\ r[j] = q[b]
              BY <4>4, <5>5, <6>1, <6>2
            <7>2. f[n][i] = q[a] /\ f[n][j] = q[b] /\ a \in 1..n /\ b \in 1..n
              BY <3>3, <5>2, <6>1, <6>2, <7>1
            <7> QED
              BY <7>1, <7>2
          <6>3. CASE j = l + 1
            <7>1. PICK a \in 1..(n - 1) : r[i] = q[a]
              BY <4>2, <6>1
            <7>2. a \in 1..n /\ n \in 1..n /\ a < n /\ f[n][i] = q[a] /\ f[n][j] = q[n]
              BY <3>3, <5>2, <6>1, <6>3, <7>1
            <7> QED
              BY <7>2
          <6> QED
            BY <5>2, <6>2, <6>3
        <5>6. From(n) /\ All(n) /\ Order(n)
          BY <5>2, <5>3, <5>4, <5>5
        <5> QED
          BY <5>2, <5>6
      <4> QED
        BY <4>6, <4>7
    <3> HIDE DEF Good
    <3> QED
      BY <2>1, <3>4
  <2> QED
    BY <2>2, <2>3
<1>4. Good(Len(q))
  <2>1. Len(q) \in 0..Len(q)
    OBVIOUS
  <2> HIDE DEF Good
  <2> QED
    BY <1>3, <2>1
<1> DEFINE r == f[Len(q)]
<1>5. r \in Seq(T) /\ DOMAIN q = 1..Len(q) /\ DOMAIN r = 1..Len(r)
  BY <1>4
<1>6. \A i \in DOMAIN r : \E a \in DOMAIN q : r[i] = q[a] /\ q[a].id \notin ids
  BY <1>4, <1>5
<1>7. \A a \in DOMAIN q : q[a].id \notin ids => \E i \in DOMAIN r : r[i] = q[a]
  BY <1>4, <1>5
<1>8. \A i, j \in DOMAIN r : i < j => \E a, b \in DOMAIN q : a < b /\ r[i] = q[a] /\ r[j] = q[b]
  <2>1. Order(Len(q))
    BY <1>4
  <2>2. \A i, j \in 1..Len(r) : i < j => \E a, b \in 1..Len(q) : a < b /\ r[i] = q[a] /\ r[j] = q[b]
    BY <2>1
  <2> HIDE DEF r, Order, Good
  <2> SUFFICES ASSUME NEW i \in DOMAIN r, NEW j \in DOMAIN r, i < j
               PROVE  \E a, b \in DOMAIN q : a < b /\ r[i] = q[a] /\ r[j] = q[b]
    OBVIOUS
  <2>3. i \in 1..Len(r) /\ j \in 1..Len(r)
    BY <1>5
  <2>4. PICK a \in 1..Len(q), b \in 1..Len(q) : a < b /\ r[i] = q[a] /\ r[j] = q[b]
    BY <2>2, <2>3
  <2> QED
    BY <1>5, <2>4
<1>9. RemoveIds(q, ids) = r
  BY <1>1
<1> HIDE DEF r
<1> QED
  BY <1>5, <1>6, <1>7, <1>8, <1>9

LEMMA RemoveIdsIds ==
    ASSUME NEW T, NEW q \in Seq(T), NEW ids
    PROVE  LET r == RemoveIds(q, ids)
           IN  /\ r \in Seq(T) /\ Ids(r) = Ids(q) \ ids
               /\ Distinct(q) => Distinct(r)
<1> DEFINE r == RemoveIds(q, ids)
<1>1. /\ r \in Seq(T)
      /\ \A i \in DOMAIN r : \E a \in DOMAIN q : r[i] = q[a] /\ q[a].id \notin ids
      /\ \A a \in DOMAIN q : q[a].id \notin ids => \E i \in DOMAIN r : r[i] = q[a]
      /\ \A i, j \in DOMAIN r :
            i < j => \E a, b \in DOMAIN q : a < b /\ r[i] = q[a] /\ r[j] = q[b]
  BY RemoveIdsElements
<1>2. DOMAIN r \subseteq Nat /\ DOMAIN q \subseteq Nat
  BY <1>1
<1> HIDE DEF r
<1>3. Ids(r) = Ids(q) \ ids
  <2>1. ASSUME NEW i \in DOMAIN r PROVE r[i].id \in Ids(q) \ ids
    BY <1>1 DEF Ids
  <2>2. ASSUME NEW a \in DOMAIN q, q[a].id \notin ids PROVE q[a].id \in Ids(r)
    <3>1. PICK i \in DOMAIN r : r[i] = q[a]
      BY <1>1, <2>2
    <3> QED
      BY <3>1 DEF Ids
  <2> QED
    BY <2>1, <2>2 DEF Ids
<1>4. ASSUME Distinct(q), NEW i \in DOMAIN r, NEW j \in DOMAIN r, i < j PROVE r[i].id # r[j].id
  <2>1. PICK a \in DOMAIN q, b \in DOMAIN q : a < b /\ r[i] = q[a] /\ r[j] = q[b]
    BY <1>1, <1>4
  <2>2. a # b
    BY <1>2, <2>1
  <2> QED
    BY <1>4, <2>1, <2>2 DEF Distinct
<1>5. ASSUME Distinct(q), NEW i \in DOMAIN r, NEW j \in DOMAIN r, r[i].id = r[j].id PROVE i = j
  <2>1. ~ (i < j) /\ ~ (j < i)
    BY <1>4, <1>5
  <2>2. i \in Nat /\ j \in Nat
    BY <1>2
  <2> QED
    BY <2>1, <2>2
<1> QED
  BY <1>1, <1>3, <1>5 DEF Distinct, r

-----------------------------------------------------------------------------
(* The end of a browse *)

Wire == [type : Closers \union {"step"}, by : {1, 0, -1}, digit : Session \union {None}]

\* Handling a message takes it, and it alone, off the wire.
LEMMA HandledMessage ==
    ASSUME wire \in Seq(Wire), NEW type, NEW i \in DOMAIN wire, Handles(type, i)
    PROVE  /\ wire[i].type = type /\ wire' \in Seq(Wire)
           /\ \A j \in DOMAIN wire : wire[j] = wire[i] \/ \E k \in DOMAIN wire' : wire'[k] = wire[j]
<1>1. i \in 1..Len(wire) /\ DOMAIN wire = 1..Len(wire) /\ Len(wire) \in Nat
  OBVIOUS
<1>2. wire' = RemoveAt(wire, i) /\ wire[i].type = type
  BY DEF Handles
<1>3. /\ wire' \in Seq(Wire) /\ Len(wire') = Len(wire) - 1
      /\ \A j \in 1..(Len(wire) - 1) : wire'[j] = IF j < i THEN wire[j] ELSE wire[j + 1]
  BY <1>1, <1>2, RemoveAtElements
<1>4. ASSUME NEW j \in DOMAIN wire, j # i PROVE \E k \in DOMAIN wire' : wire'[k] = wire[j]
  <2>1. CASE j < i
    BY <1>1, <1>3, <2>1
  <2>2. CASE j > i
    <3>1. j - 1 \in DOMAIN wire' /\ wire'[j - 1] = wire[j]
      BY <1>1, <1>3, <2>2
    <3> QED
      BY <3>1
  <2> QED
    BY <1>1, <1>4, <2>1, <2>2
<1> QED
  BY <1>2, <1>3, <1>4

\* The wire carries what the hotkey program sends.
WireTypes == wire \in Seq(Wire)

LEMMA WireInvariance == BSpec => []WireTypes
<1>1. BInit => WireTypes
  BY DEF BInit, WireTypes
<1>2. WireTypes /\ [BNext]_bvars => WireTypes'
  <2> SUFFICES ASSUME WireTypes, [BNext]_bvars PROVE WireTypes'
    OBVIOUS
  <2>1. CASE Keyboard
    <3>1. wire' = wire \/ \E m \in Wire : wire' = Append(wire, m)
      BY <2>1 DEF Keyboard, Tap, Release, Dial, CapFires, LeaveMode, Exits, Sends, TapMessage, KeyMessage, Wire, Closers
    <3> QED
      BY <3>1 DEF WireTypes
  <2>2. CASE Handle
    <3>1. PICK i \in DOMAIN wire, type \in Closers \union {"step"} : Handles(type, i)
      BY <2>2 DEF Handle, ChooserStep, ChooserCommit, ChooserDigit, ChooserCancel, Closers
    <3> QED
      BY <3>1, HandledMessage DEF WireTypes
  <2>3. CASE Lapse \/ Elsewhere \/ UNCHANGED bvars
    BY <2>3 DEF Lapse, Elsewhere, bvars, browseVars, WireTypes
  <2> QED
    BY <2>1, <2>2, <2>3 DEF BNext
<1> QED
  BY <1>1, <1>2, PTL DEF BSpec

\* What the handlers do to the gesture.  A tap leaves a browse open or opens one,
\* which is stray when nothing that could end it is left; the messages that end
\* a gesture end the browse, a digit nobody answers to excepted.
LEMMA StepGesture ==
    ASSUME NEW i \in DOMAIN wire, ChooserStep(i)
    PROVE  /\ UNCHANGED chord /\ Handles("step", i)
           /\ \/ chooser # None /\ UNCHANGED stray
              \/ stray' = Overtaken
              \/ chooser' = None
  BY DEF ChooserStep, StepOn, StepOpens, NobodyToBrowse, IsOpen, MovesNothing, ChooserLeaves

LEMMA CloserGesture ==
    ASSUME NEW i \in DOMAIN wire, ChooserCommit(i) \/ ChooserDigit(i) \/ ChooserCancel(i)
    PROVE  chooser' = None \/ stray'
  BY DEF ChooserCommit, ChooserDigit, ChooserCancel, NotOpen, CancelBrowse, Lands, LandingAtHome, LandingRefused,
         Landing, NobodyThere, Closes

\* Whatever the order in which the messages of a chord are handled and whatever
\* closed meanwhile, no browse outlives its chord but one that a digit left open
\* or that a tap opened after its own release.
THEOREM BrowseEndsHolds == BSpec => []BrowseEnds
<1>1. BInit => BrowseEnds
  BY DEF BInit, BrowseEnds
<1>2. WireTypes /\ BrowseEnds /\ [BNext]_bvars => BrowseEnds'
  <2> SUFFICES ASSUME WireTypes, BrowseEnds, [BNext]_bvars,
                      (chooser # None /\ ~ chord /\ \A i \in DOMAIN wire : wire[i].type \notin Closers)'
               PROVE  stray'
    BY DEF BrowseEnds
  <2>1. CASE Keyboard
    <3>1. ~ chord'
      OBVIOUS
    <3>2. PICK m : LeaveMode(m) /\ m.type \in Closers
      <4>1. /\ KeyMessage("commit", None).type = "commit" /\ KeyMessage("cancel", None).type = "cancel"
            /\ \A s \in Session : KeyMessage("digit", s).type = "digit"
        BY DEF KeyMessage
      <4>2. Release \/ CapFires \/ \E s \in Session : Dial(s)
        BY <2>1, <3>1 DEF Keyboard, Tap
      <4> QED
        BY <4>1, <4>2 DEF Release, Dial, CapFires, Closers
    <3>3. wire' = Append(wire, m)
      BY <3>2 DEF LeaveMode, Exits, Sends
    <3>4. Len(wire) + 1 \in DOMAIN wire' /\ wire'[Len(wire) + 1] = m
      BY <3>3 DEF WireTypes
    <3> QED
      BY <3>2, <3>4
  <2>2. CASE Handle
    <3>1. PICK i \in DOMAIN wire : ChooserStep(i) \/ ChooserCommit(i) \/ ChooserDigit(i) \/ ChooserCancel(i)
      BY <2>2 DEF Handle
    <3>2. CASE ChooserStep(i)
      <4>1. /\ ~ chord /\ Handles("step", i)
            /\ (chooser # None /\ UNCHANGED stray) \/ stray' = Overtaken
        BY <3>2, StepGesture
      <4>2. \A j \in DOMAIN wire : wire[j].type \notin Closers
        BY <4>1, HandledMessage DEF WireTypes, Closers
      <4>3. Overtaken
        BY <4>1 DEF Overtaken
      <4>4. CASE chooser # None /\ UNCHANGED stray
        <5>1. stray
          BY <4>1, <4>2, <4>4 DEF BrowseEnds
        <5> QED
          BY <4>4, <5>1
      <4>5. CASE stray' = Overtaken
        BY <4>3, <4>5
      <4> QED
        BY <4>1, <4>4, <4>5
    <3>3. CASE ChooserCommit(i) \/ ChooserDigit(i) \/ ChooserCancel(i)
      BY <3>3, CloserGesture
    <3> QED
      BY <3>1, <3>2, <3>3
  <2>3. CASE Lapse \/ Elsewhere \/ UNCHANGED bvars
    BY <2>3 DEF Lapse, Elsewhere, bvars, browseVars, BrowseEnds
  <2> QED
    BY <2>1, <2>2, <2>3 DEF BNext
<1> QED
  BY <1>1, <1>2, WireInvariance, PTL DEF BSpec

\* However long ago its candidates were gathered, a browse lands on a session
\* that is registered, with its terminal open, and the voice goes there or,
\* if it is muted, to nobody.
THEOREM LandsOnTheLivingHolds == BSpec => LandsOnTheLiving
<1>1. ASSUME [BNext]_bvars, landings' # landings
      PROVE  fg' \in reg \ dead /\ spk' \in {fg', None}
  <2>1. Handle
    BY <1>1 DEF BNext, Keyboard, Lapse, Elsewhere, bvars, browseVars
  <2>2. PICK s \in Live : Landing(s)
    BY <1>1, <2>1 DEF Handle, ChooserStep, ChooserCommit, ChooserDigit, ChooserCancel, NotOpen, CancelBrowse, Lands,
       LandingAtHome, LandingRefused, Landing, Landable, NobodyThere, MovesNothing
  <2> QED
    BY <2>2 DEF Landing, Live
<1>2. [BNext]_bvars => [landings' # landings => fg' \in reg \ dead /\ spk' \in {fg', None}]_bvars
  BY <1>1
<1> QED
  BY <1>2, PTL DEF BSpec, LandsOnTheLiving

-----------------------------------------------------------------------------
(* What a handler of the chooser has done so far                            *)

WorkSet ==
    [queue : [Session -> Seq(ItemSet)], markers : SUBSET MarkerSet, id : Nat, present : SUBSET Session,
     stopped : [Session -> BOOLEAN], current : ItemSet \union {None}, cancels : BOOLEAN]

\* The queues are sound, every marker has an id that was given out, a fresh
\* stream has no flag set, and the claim is still the thread's item or nobody's.
Work(w) ==
    /\ w \in WorkSet
    /\ Sound(w.queue, hand, w.id) /\ nextId \in Nat /\ nextId <= w.id
    /\ \A m \in w.markers : m.id \in 0..w.id
    /\ present \subseteq w.present
    /\ \A s \in Session : s \notin w.present => ~ w.stopped[s]
    /\ \A s \in Session : armed[s] => ~ w.stopped[s]
    /\ w.current \in {None, hand}

Muted(w) == voiceState = "stopped-all" => \A s \in Session : s \in w.present => w.stopped[s]

\* A marker's id is one that was given out.
Known == \A m \in markers : m.id \in 0..nextId

LEMMA WorkBegins ==
    ASSUME QueueInv, NumInv, FlagInv, Known
    PROVE  /\ Work(Untouched) /\ Muted(Untouched)
           /\ Untouched.queue = queue /\ Untouched.markers = markers /\ Untouched.id = nextId
           /\ Untouched.present = present /\ Untouched.stopped = stopped /\ Untouched.current = current
<1>1. /\ Untouched.queue = queue /\ Untouched.markers = markers /\ Untouched.id = nextId
      /\ Untouched.present = present /\ Untouched.stopped = stopped /\ Untouched.current = current
  BY DEF Untouched
<1>2. /\ queue \in [Session -> Seq(ItemSet)] /\ markers \subseteq MarkerSet /\ nextId \in Nat
      /\ present \subseteq Session /\ stopped \in [Session -> BOOLEAN] /\ current \in ItemSet \union {None}
      /\ current \in {None, hand}
  BY DEF QueueInv, Queues, Sound, NumInv, FlagInv, FlagTypes, RosterTypes, Hands, Idle, Busy
<1>3. Untouched \in WorkSet
  BY <1>2 DEF Untouched, WorkSet
<1>4. Sound(queue, hand, nextId) /\ nextId <= nextId
  BY <1>2 DEF QueueInv, Queues
<1>5. Work(Untouched)
  BY <1>1, <1>2, <1>3, <1>4 DEF Work, Known, FlagInv, Fresh, NoArmedOnStopped
<1> QED
  BY <1>1, <1>5 DEF Muted, FlagInv, MasterQuiet

\* An item put in front of its stream's queue.
LEMMA PutFrontIs ==
    ASSUME NEW w \in WorkSet, NEW item \in ItemSet
    PROVE  LET v == PutFront(w, item)
           IN  /\ v \in WorkSet
               /\ v.queue = [w.queue EXCEPT ![item.session] = EnqueueFront(@, item)]
               /\ v.id = item.id /\ v.markers = w.markers
               /\ v.present = w.present \union {item.session}
               /\ v.stopped = [w.stopped EXCEPT ![item.session] =
                                  @ \/ (item.session \notin w.present /\ voiceState = "stopped-all")]
               /\ v.current = w.current /\ v.cancels = w.cancels
<1>1. item.session \in Session /\ item.id \in Nat
  BY ItemSession
<1> DEFINE s == item.session
           q == [w.queue EXCEPT ![s] = EnqueueFront(@, item)]
           f == [w.stopped EXCEPT ![s] = @ \/ (s \notin w.present /\ voiceState = "stopped-all")]
<1>2. w.queue[s] \in Seq(ItemSet) /\ w.queue \in [Session -> Seq(ItemSet)] /\ w.stopped \in [Session -> BOOLEAN]
  BY <1>1 DEF WorkSet
<1>3. EnqueueFront(w.queue[s], item) \in Seq(ItemSet)
  BY <1>2, EnqueueFrontIds
<1>4. q \in [Session -> Seq(ItemSet)] /\ f \in [Session -> BOOLEAN]
  BY <1>2, <1>3
<1>5. PutFront(w, item) = [w EXCEPT !.queue = q, !.id = item.id, !.present = @ \union {s}, !.stopped = f]
  BY DEF PutFront
<1> DEFINE v == PutFront(w, item)
<1> HIDE DEF s, q, f
<1>6. s \in Session /\ w.present \union {s} \in SUBSET Session
  BY <1>1 DEF s, WorkSet
<1>7. /\ v.queue = q /\ v.id = item.id /\ v.markers = w.markers /\ v.present = w.present \union {s}
      /\ v.stopped = f /\ v.current = w.current /\ v.cancels = w.cancels
  BY <1>5 DEF WorkSet
<1>8. v \in WorkSet
  <2>1. v = [queue |-> q, markers |-> w.markers, id |-> item.id, present |-> w.present \union {s},
             stopped |-> f, current |-> w.current, cancels |-> w.cancels]
    BY <1>5 DEF WorkSet
  <2>2. w.markers \in SUBSET MarkerSet /\ w.current \in ItemSet \union {None} /\ w.cancels \in BOOLEAN
    BY DEF WorkSet
  <2> HIDE DEF v
  <2> QED
    BY <1>1, <1>4, <1>6, <2>1, <2>2 DEF WorkSet
<1> HIDE DEF v
<1> QED
  BY <1>7, <1>8 DEF s, q, f, v

LEMMA PutFrontWorks ==
    ASSUME FlagInv, NEW w, Work(w), NEW item \in ItemSet, item.id = w.id + 1
    PROVE  /\ Work(PutFront(w, item))
           /\ Muted(w) => Muted(PutFront(w, item))
<1> DEFINE v == PutFront(w, item)
           s == item.session
<1>1. w \in WorkSet /\ s \in Session /\ item \in Of(s)
  BY ItemSession DEF Work
<1>2. /\ v \in WorkSet
      /\ v.queue = [w.queue EXCEPT ![s] = EnqueueFront(@, item)]
      /\ v.id = w.id + 1 /\ v.markers = w.markers
      /\ v.present = w.present \union {s}
      /\ v.stopped = [w.stopped EXCEPT ![s] = @ \/ (s \notin w.present /\ voiceState = "stopped-all")]
      /\ v.current = w.current
  BY <1>1, PutFrontIs
<1> HIDE DEF v, s
<1>3. Sound(v.queue, hand, v.id)
  <2>1. Sound(w.queue, hand, w.id) /\ w.queue \in [Session -> Seq(ItemSet)]
    BY <1>1 DEF Work, WorkSet
  <2>2. item.session = s /\ item.id = w.id + 1
    BY DEF s
  <2> QED
    BY <1>1, <1>2, <2>1, <2>2, FrontSound
<1>4. nextId <= v.id /\ \A m \in v.markers : m.id \in 0..v.id
  <2>1. w.id \in Nat /\ nextId <= w.id /\ nextId \in Nat
    BY <1>1 DEF Work, WorkSet
  <2>2. nextId <= w.id + 1 /\ 0..w.id \subseteq 0..(w.id + 1)
    BY <2>1
  <2>3. \A m \in w.markers : m.id \in 0..w.id
    BY DEF Work
  <2> QED
    BY <1>2, <2>2, <2>3
<1>5. \A t \in Session : v.stopped[t] <=> w.stopped[t] \/ (t = s /\ s \notin w.present /\ voiceState = "stopped-all")
  BY <1>1, <1>2 DEF WorkSet
<1>6. /\ present \subseteq v.present
      /\ \A t \in Session : t \notin v.present => ~ v.stopped[t]
      /\ \A t \in Session : armed[t] => ~ v.stopped[t]
  BY <1>1, <1>2, <1>5 DEF Work, FlagInv, Fresh
<1>7. v.current \in {None, hand}
  BY <1>2 DEF Work
<1>8. Work(v)
  BY <1>2, <1>3, <1>4, <1>6, <1>7 DEF Work
<1>9. Muted(w) => Muted(v)
  BY <1>2, <1>5 DEF Muted
<1> QED
  BY <1>8, <1>9 DEF v

\* The preview leaves the queues.
LEMMA RemovePreviewIs ==
    ASSUME NEW w \in WorkSet, NEW ch
    PROVE  LET v == RemovePreview(w, ch)
           IN  /\ v \in WorkSet
               /\ v.queue = [s \in Session |-> RemoveIds(w.queue[s], PreviewIds(ch))]
               /\ v.id = w.id /\ v.markers = w.markers /\ v.present = w.present
               /\ v.stopped = w.stopped /\ v.current = w.current
<1> DEFINE q == [s \in Session |-> RemoveIds(w.queue[s], PreviewIds(ch))]
           c == w.cancels \/ (w.current # None /\ w.current.id = ch.preview)
           v == RemovePreview(w, ch)
<1>1. \A s \in Session : w.queue[s] \in Seq(ItemSet)
  BY DEF WorkSet
<1>2. q \in [Session -> Seq(ItemSet)] /\ c \in BOOLEAN
  BY <1>1, RemoveIdsIds
<1>3. v = [w EXCEPT !.queue = q, !.cancels = c]
  BY DEF RemovePreview
<1> HIDE DEF q, c, v
<1>4. v = [queue |-> q, markers |-> w.markers, id |-> w.id, present |-> w.present,
           stopped |-> w.stopped, current |-> w.current, cancels |-> c]
  BY <1>3 DEF WorkSet
<1>5. v \in WorkSet
  BY <1>2, <1>4 DEF WorkSet
<1> QED
  BY <1>4, <1>5 DEF q, v

LEMMA RemovePreviewWorks ==
    ASSUME NEW w, Work(w), NEW ch
    PROVE  /\ Work(RemovePreview(w, ch))
           /\ Muted(w) => Muted(RemovePreview(w, ch))
<1> DEFINE v == RemovePreview(w, ch)
           ids == PreviewIds(ch)
<1>1. w \in WorkSet
  BY DEF Work
<1>2. /\ v \in WorkSet /\ v.queue = [s \in Session |-> RemoveIds(w.queue[s], ids)]
      /\ v.id = w.id /\ v.markers = w.markers /\ v.present = w.present
      /\ v.stopped = w.stopped /\ v.current = w.current
  BY <1>1, RemovePreviewIs
<1> HIDE DEF v, ids
<1>3. ASSUME NEW s \in Session
      PROVE  v.queue[s] \in Seq(Of(s)) /\ Distinct(v.queue[s]) /\ Ids(v.queue[s]) \subseteq Ids(w.queue[s])
  <2>1. w.queue[s] \in Seq(Of(s)) /\ Distinct(w.queue[s])
    BY DEF Work, Sound
  <2> QED
    BY <1>2, <2>1, RemoveIdsIds
<1>4. v.queue \in [Session -> Seq(ItemSet)]
  BY <1>2 DEF WorkSet
<1>5. Sound(v.queue, hand, v.id)
  BY <1>2, <1>3, <1>4 DEF Work, Sound
<1>6. Work(v)
  BY <1>2, <1>5 DEF Work
<1> QED
  BY <1>2, <1>6 DEF v, Muted

\* The captured item comes back under a new id.
Browsing(ch, n) ==
    /\ ch.captured \in ItemSet \union {None}
    /\ ch.entry \subseteq MarkerSet /\ ch.preview \in 0..n

Copy(item, n) == [item EXCEPT !.id = n]

LEMMA CopyIs ==
    ASSUME NEW item \in ItemSet, NEW n \in Nat
    PROVE  /\ Copy(item, n) \in ItemSet /\ Copy(item, n).id = n /\ Copy(item, n).session = item.session
           /\ Copy(item, n) = [item EXCEPT !.id = Copy(item, n).id]
  BY DEF Copy, ItemSet

LEMMA PutBackIs ==
    ASSUME FlagInv, NEW w, Work(w), NEW ch, NEW k, Browsing(ch, k), ch.captured # None
    PROVE  LET v == PutBack(w, ch)
               item == Copy(ch.captured, w.id + 1)
               s == ch.captured.session
           IN  /\ v \in WorkSet /\ v.id = w.id + 1
               /\ v.queue = [w.queue EXCEPT ![s] = EnqueueFront(@, item)]
               /\ v.markers = w.markers \union {[m EXCEPT !.id = w.id + 1] : m \in ch.entry}
               /\ v.present = PutFront(w, item).present /\ v.stopped = PutFront(w, item).stopped
               /\ v.current = w.current
<1> DEFINE item == Copy(ch.captured, w.id + 1)
           p == PutFront(w, item)
           new == {[m EXCEPT !.id = w.id + 1] : m \in ch.entry}
           v == PutBack(w, ch)
<1>1. w \in WorkSet /\ w.id + 1 \in Nat
  BY DEF Work, WorkSet
<1>2. item \in ItemSet /\ item.id = w.id + 1 /\ item.session = ch.captured.session
  BY <1>1, CopyIs DEF Browsing
<1>3. v = [p EXCEPT !.markers = @ \union new]
  BY <1>2 DEF PutBack, Copy
<1> HIDE DEF item, p
<1>4. /\ p \in WorkSet /\ p.id = w.id + 1 /\ p.markers = w.markers /\ p.current = w.current
      /\ p.queue = [w.queue EXCEPT ![ch.captured.session] = EnqueueFront(@, item)]
  BY <1>1, <1>2, PutFrontIs DEF p
<1>5. new \subseteq MarkerSet
  BY <1>1 DEF Browsing, MarkerSet
<1> HIDE DEF new, v
<1>6. v = [queue |-> p.queue, markers |-> w.markers \union new, id |-> p.id, present |-> p.present,
           stopped |-> p.stopped, current |-> p.current, cancels |-> p.cancels]
  BY <1>3, <1>4 DEF WorkSet
<1>7. v \in WorkSet
  BY <1>1, <1>4, <1>5, <1>6 DEF WorkSet
<1> QED
  BY <1>4, <1>6, <1>7 DEF v, new, p, item

LEMMA PutBackWorks ==
    ASSUME FlagInv, NEW w, Work(w), NEW ch, NEW k, Browsing(ch, k)
    PROVE  /\ Work(PutBack(w, ch)) /\ w.id <= PutBack(w, ch).id
           /\ Muted(w) => Muted(PutBack(w, ch))
<1>1. CASE ch.captured = None
  <2>1. w.id \in Nat
    BY DEF Work, WorkSet
  <2> QED
    BY <1>1, <2>1 DEF PutBack
<1>2. CASE ch.captured # None
  <2> DEFINE item == Copy(ch.captured, w.id + 1)
             p == PutFront(w, item)
             v == PutBack(w, ch)
             new == {[m EXCEPT !.id = w.id + 1] : m \in ch.entry}
  <2>1. w \in WorkSet /\ w.id \in Nat /\ w.id + 1 \in Nat
    BY DEF Work, WorkSet
  <2>2. item \in ItemSet /\ item.id = w.id + 1
    BY <1>2, <2>1, CopyIs DEF Browsing
  <2> HIDE DEF item
  <2>3. Work(p) /\ (Muted(w) => Muted(p))
    BY <2>2, PutFrontWorks
  <2>4. /\ v \in WorkSet /\ v.id = p.id /\ v.queue = p.queue /\ v.markers = p.markers \union new
        /\ v.present = p.present /\ v.stopped = p.stopped /\ v.current = p.current /\ v.id = w.id + 1
    <3>1. /\ v \in WorkSet /\ v.id = w.id + 1 /\ v.markers = w.markers \union new
          /\ v.queue = [w.queue EXCEPT ![ch.captured.session] = EnqueueFront(@, item)]
          /\ v.present = p.present /\ v.stopped = p.stopped /\ v.current = w.current
      BY <1>2, PutBackIs DEF item
    <3>2. /\ p.id = item.id /\ p.markers = w.markers /\ p.current = w.current
          /\ p.queue = [w.queue EXCEPT ![item.session] = EnqueueFront(@, item)]
      BY <2>1, <2>2, PutFrontIs
    <3>3. item.session = ch.captured.session
      BY <1>2, <2>1, CopyIs DEF Browsing, item
    <3> HIDE DEF v, p, new
    <3> QED
      BY <2>2, <3>1, <3>2, <3>3
  <2> HIDE DEF v, p
  <2>5. \A m \in new : m.id \in 0..(w.id + 1)
    <3> SUFFICES ASSUME NEW m \in ch.entry PROVE [m EXCEPT !.id = w.id + 1].id \in 0..(w.id + 1)
      BY DEF new
    <3>1. m \in MarkerSet
      BY DEF Browsing
    <3> QED
      BY <2>1, <3>1 DEF MarkerSet
  <2> HIDE DEF v, p, new
  <2>6. Work(v)
    BY <2>3, <2>4, <2>5 DEF Work
  <2>7. Muted(p) => Muted(v)
    BY <2>4 DEF Muted
  <2> QED
    BY <2>1, <2>3, <2>4, <2>6, <2>7 DEF v
<1> QED
  BY <1>1, <1>2

LEMMA RestoredWorks ==
    ASSUME FlagInv, NEW w, Work(w), NEW ch, NEW k, Browsing(ch, k)
    PROVE  /\ Work(Restored(w, ch)) /\ w.id <= Restored(w, ch).id
           /\ Muted(w) => Muted(Restored(w, ch))
<1>1. /\ Work(RemovePreview(w, ch)) /\ RemovePreview(w, ch).id = w.id
      /\ Muted(w) => Muted(RemovePreview(w, ch))
  BY RemovePreviewWorks, RemovePreviewIs DEF Work
<1> QED
  BY <1>1, PutBackWorks DEF Restored

-----------------------------------------------------------------------------
(* What any other step of the daemon does to the markers and the roster     *)

\* A marker that a step binds has an id the step gave out.
LEMMA LoopBinds ==
    ASSUME NumInv, LoopStep
    PROVE  nextId <= nextId' /\ \A m \in markers' : m \in markers \/ m.id \in nextId..nextId'
<1>1. markers' \subseteq markers /\ nextId' \in {nextId, nextId + 1}
  BY LoopEntries
<1> QED
  BY <1>1 DEF NumInv

LEMMA PressBinds ==
    ASSUME NumInv, Press
    PROVE  nextId <= nextId' /\ \A m \in markers' : m \in markers \/ m.id \in nextId..nextId'
<1>1. nextId \in Nat /\ nextId' \in {nextId, nextId + 1, nextId + 2}
  BY PressEntries DEF NumInv
<1>2. CASE RepeatLast
  <2>1. \A m \in markers' : m \in markers \/ \E k \in markers : m = [k EXCEPT !.id = nextId + 1]
    BY <1>2 DEF RepeatLast
  <2>2. nextId' = nextId + 1 \/ nextId' = nextId + 2
    BY <1>2 DEF RepeatLast, EnqueueFirst, Cue, Item
  <2>3. \A k \in markers : [k EXCEPT !.id = nextId + 1].id = nextId + 1
    BY DEF NumInv, MarkerSet
  <2>4. nextId <= nextId' /\ nextId + 1 \in nextId..nextId'
    BY <1>1, <2>2
  <2> QED
    BY <2>1, <2>3, <2>4
<1>3. CASE SkipPile \/ StartSession
  <2>1. markers' \subseteq markers
    BY <1>3 DEF SkipPile, StartSession, Without
  <2> QED
    BY <1>1, <2>1
<1>4. CASE markers' \subseteq markers
  BY <1>1, <1>4
<1> QED
  BY <1>2, <1>3, <1>4, PressEntries

LEMMA ReadoutBinds ==
    ASSUME NumInv, NEW s, NEW entries \in Seq(Nat), NEW kinds, EnqueueReadout(s, entries, kinds)
    PROVE  nextId <= nextId' /\ \A m \in markers' : m \in markers \/ m.id \in nextId..nextId'
<1>1. nextId \in Nat /\ nextId' = nextId + Len(entries) /\ Len(entries) \in Nat /\ DOMAIN entries = 1..Len(entries)
  BY DEF EnqueueReadout, NumInv
<1>2. \A i \in DOMAIN entries : Marker(nextId + i, s, entries[i]).id = nextId + i
  BY DEF Marker
<1> QED
  BY <1>1, <1>2, ReadoutMarkers

LEMMA ReportBinds ==
    ASSUME NumInv, NEW s \in Session, Report(s)
    PROVE  nextId <= nextId' /\ \A m \in markers' : m \in markers \/ m.id \in nextId..nextId'
<1>1. nextId \in Nat
  BY DEF NumInv
<1>2. CASE markers' \subseteq markers /\ nextId' \in {nextId, nextId + 1, nextId + 2}
  BY <1>1, <1>2
<1>3. CASE ProsePartial(s) \/ SetForeground(s) \/ TerminalCloses(s)
  BY <1>2, <1>3 DEF ProsePartial, SetForeground, TerminalCloses, ledgerVars
<1>4. CASE SessionStart(s)
  <2>1. \E i, j \in {0, 1} : nextId' = nextId + i + j
    BY <1>4 DEF SessionStart
  <2> QED
    BY <1>1, <1>2, <1>4, <2>1 DEF SessionStart, Without
<1>5. CASE Flush(s) \/ SessionEnd(s)
  BY <1>2, <1>5 DEF Flush, SessionEnd, Without
<1>6. CASE Prose(s) \/ Tool(s) \/ Decision(s) \/ TurnDone(s)
  <2>1. buffer[s] \in Seq(Nat) /\ Append(buffer[s], newest[s] + 1) \in Seq(Nat)
    BY NextEntry DEF NumInv
  <2>2. \/ UNCHANGED <<markers, nextId>>
        \/ \E entries \in Seq(Nat) : \E kinds : EnqueueReadout(s, entries, kinds)
    BY <1>6, <2>1 DEF Prose, Tool, Decision, Announce, TurnDone
  <2> QED
    BY <1>1, <2>2, ReadoutBinds
<1> QED
  BY <1>3, <1>4, <1>5, <1>6 DEF Report

LEMMA NextKnown == NumInv /\ Known /\ [Next]_vars => Known' /\ nextId <= nextId'
<1> SUFFICES ASSUME NumInv, Known, [Next]_vars PROVE Known' /\ nextId <= nextId'
  OBVIOUS
<1>1. nextId \in Nat /\ nextId' \in Nat
  BY NextNumbers DEF NumInv
<1>2. nextId <= nextId' /\ \A m \in markers' : m \in markers \/ m.id \in nextId..nextId'
  <2>1. CASE AudioFault \/ UNCHANGED vars
    BY <1>1, <2>1 DEF AudioFault, vars, ledgerVars
  <2> QED
    BY <2>1, LoopBinds, PressBinds, ReportBinds DEF Next
<1> QED
  BY <1>1, <1>2 DEF Known

\* Sessions are registered one at a time.
LEMMA RegisteredOneByOne == [Next]_vars => \E s : reg' \subseteq reg \union {s}
<1> SUFFICES ASSUME [Next]_vars PROVE \E s : reg' \subseteq reg \union {s}
  OBVIOUS
<1>1. CASE AudioFault \/ UNCHANGED vars
  BY <1>1 DEF AudioFault, vars, rosterVars
<1>2. CASE LoopStep
  BY <1>2 DEF LoopStep, PopHeldCue, NoHeldCue, CheckStopped, PopOwn, Adopt, NothingToSay, SpeakCompletes,
       SpeakCut, SpeakRaises, SignalFailure, Requeue, TailDone, NoteSpoken, rosterVars
<1>3. CASE Press
  BY <1>3 DEF Press, Stop, Skip, SkipPile, NothingToSkip, StartSession, StopSession, StopAll, NoDecisionHere,
       DecisionClosed, JumpDecision, RepeatLast, NothingToRepeat, JumpWaiting, NobodyWaiting, OsFocus, AnswerOn, rosterVars
<1>4. CASE \E s \in Session : Report(s)
  BY <1>4 DEF Report, Prose, ProsePartial, Tool, Decision, TurnDone, Flush, SetForeground, SessionStart, SessionEnd,
       TerminalCloses, Announce, RosterUntouched, PolicyA, rosterVars
<1> QED
  BY <1>1, <1>2, <1>3, <1>4 DEF Next

LEMMA NextFinite == IsFiniteSet(reg) /\ [Next]_vars => IsFiniteSet(reg')
<1> SUFFICES ASSUME IsFiniteSet(reg), [Next]_vars PROVE IsFiniteSet(reg')
  OBVIOUS
<1>1. PICK s : reg' \subseteq reg \union {s}
  BY RegisteredOneByOne
<1>2. IsFiniteSet(reg \union {s})
  BY FS_AddElement
<1> QED
  BY <1>1, <1>2, FS_Subset

-----------------------------------------------------------------------------
(* What a handler of the chooser leaves behind                              *)

\* The word that a session closed.
LEMMA ClosedWordWorks ==
    ASSUME QueueInv, NumInv, FlagInv, Known
    PROVE  LET v == ClosedWord(Untouched)
           IN  /\ Work(v) /\ Muted(v) /\ v.current = current
<1>1. /\ Work(Untouched) /\ Muted(Untouched)
      /\ Untouched.queue = queue /\ Untouched.markers = markers /\ Untouched.id = nextId
      /\ Untouched.present = present /\ Untouched.stopped = stopped /\ Untouched.current = current
      /\ Untouched.cancels = FALSE
  BY WorkBegins DEF Untouched
<1> DEFINE dest == Preferred(spk, Workspace)
           word == Cue(nextId + 1, dest)
           v == ClosedWord(Untouched)
<1>2. dest \in Session \union {None}
  BY DEF QueueInv, RosterTypes, Preferred, Workspace
<1>3. CASE dest = None
  BY <1>1, <1>3 DEF ClosedWord
<1>4. CASE dest # None
  <2> DEFINE q == [queue EXCEPT ![dest] = Enqueue(@, word, Cap)]
             M == {m \in markers : m.id \notin EvictedIds(queue[dest], Cap)}
             f == StoppedOnceOpen({dest})
  <2>1. v = [Untouched EXCEPT !.queue = q, !.id = word.id, !.markers = M, !.present = present \union {dest},
                              !.stopped = f]
    BY <1>1, <1>4 DEF ClosedWord
  <2> HIDE DEF dest
  <2>2. word \in Of(dest) /\ word.id = nextId + 1 /\ dest \in Session /\ nextId \in Nat
    <3>1. dest \in Session /\ nextId \in Nat /\ nextId + 1 \in Nat
      BY <1>2, <1>4 DEF NumInv
    <3> QED
      BY <3>1, Words
  <2>3. Sound(queue, hand, nextId)
    BY DEF QueueInv, Queues
  <2>4. Sound(q, hand, nextId + 1)
    BY <2>2, <2>3, BackSound
  <2>5. v = [queue |-> q, markers |-> M, id |-> nextId + 1, present |-> present \union {dest},
             stopped |-> f, current |-> current, cancels |-> FALSE]
    <3> HIDE DEF q, M, f, word, v
    <3> QED
      BY <2>1, <2>2 DEF Untouched
  <2>6. q \in [Session -> Seq(ItemSet)] /\ M \in SUBSET MarkerSet /\ f \in [Session -> BOOLEAN]
    BY <2>4 DEF Sound, NumInv, StoppedOnceOpen, FlagInv, FlagTypes
  <2>7. /\ \A s \in Session : f[s] <=> stopped[s] \/ (s = dest /\ s \notin present /\ voiceState = "stopped-all")
        /\ \A m \in M : m.id \in 0..(nextId + 1)
        /\ nextId <= nextId + 1
    <3>1. \A s \in Session : f[s] <=> stopped[s] \/ (s = dest /\ s \notin present /\ voiceState = "stopped-all")
      BY DEF StoppedOnceOpen, BornStopped, FlagInv, FlagTypes
    <3>2. \A m \in M : m.id \in 0..(nextId + 1)
      BY <2>2 DEF Known
    <3> HIDE DEF f, M
    <3> QED
      BY <2>2, <3>1, <3>2
  <2>8. present \union {dest} \in SUBSET Session /\ current \in ItemSet \union {None} /\ current \in {None, hand}
    <3>1. present \subseteq Session
      BY DEF QueueInv, RosterTypes
    <3>2. current \in {None, hand} /\ current \in ItemSet \union {None}
      BY DEF QueueInv, Hands, Idle, Busy
    <3> QED
      BY <2>2, <3>1, <3>2
  <2> HIDE DEF q, M, f, v, dest
  <2>9. v \in WorkSet
    BY <2>2, <2>5, <2>6, <2>8 DEF WorkSet
  <2>10. /\ v.queue = q /\ v.id = nextId + 1 /\ v.markers = M /\ v.present = present \union {dest}
         /\ v.stopped = f /\ v.current = current
    BY <2>5
  <2>11. \A s \in Session : (s \notin v.present => ~ v.stopped[s]) /\ (armed[s] => ~ v.stopped[s])
    BY <2>7, <2>10 DEF FlagInv, Fresh, NoArmedOnStopped
  <2>12. Work(v)
    BY <2>2, <2>4, <2>7, <2>8, <2>9, <2>10, <2>11 DEF Work
  <2>13. Muted(v)
    BY <2>7, <2>8, <2>10 DEF Muted, FlagInv, MasterQuiet
  <2> QED
    BY <2>10, <2>12, <2>13 DEF v
<1> QED
  BY <1>3, <1>4

\* A stale browse is cancelled, an open one's first tap takes the claim.
Browses(ch, n) == ch # None => Browsing(ch, n)

LEMMA ExpiredWorks ==
    ASSUME QueueInv, NumInv, FlagInv, Known, Browses(chooser, nextId)
    PROVE  Work(Expired) /\ Muted(Expired)
  BY WorkBegins, RestoredWorks DEF Expired, Browses

LEMMA CutsWorks ==
    ASSUME NEW w, Work(w)
    PROVE  /\ Work(Cuts(w)) /\ (Muted(w) => Muted(Cuts(w)))
           /\ Cuts(w).queue = w.queue /\ Cuts(w).markers = w.markers
           /\ Cuts(w).id = w.id /\ Cuts(w).current = None
<1> DEFINE v == Cuts(w)
           c == w.cancels \/ w.current # None
<1>1. w \in WorkSet
  BY DEF Work
<1>2. v = [w EXCEPT !.cancels = c, !.current = None]
  BY DEF Cuts, ClaimTaken
<1>3. c \in BOOLEAN
  BY <1>1 DEF WorkSet
<1> HIDE DEF v, c
<1>4. v = [queue |-> w.queue, markers |-> w.markers, id |-> w.id, present |-> w.present,
           stopped |-> w.stopped, current |-> None, cancels |-> c]
  BY <1>1, <1>2 DEF WorkSet
<1>5. v \in WorkSet
  BY <1>1, <1>3, <1>4 DEF WorkSet
<1>6. Work(v)
  BY <1>4, <1>5 DEF Work
<1> QED
  BY <1>4, <1>6 DEF v, Muted

LEMMA CancelsWorks ==
    ASSUME NEW w, Work(w)
    PROVE  LET v == [w EXCEPT !.cancels = TRUE]
           IN  /\ Work(v) /\ (Muted(w) => Muted(v))
               /\ v.queue = w.queue /\ v.markers = w.markers /\ v.id = w.id
               /\ v.present = w.present /\ v.stopped = w.stopped
<1> DEFINE c == TRUE
           v == [w EXCEPT !.cancels = c]
<1>1. w \in WorkSet /\ c \in BOOLEAN
  BY DEF Work
<1> HIDE DEF c
<1>2. v = [queue |-> w.queue, markers |-> w.markers, id |-> w.id, present |-> w.present,
           stopped |-> w.stopped, current |-> w.current, cancels |-> c]
  BY <1>1 DEF WorkSet
<1> HIDE DEF v
<1>3. v \in WorkSet
  <2>1. /\ w.queue \in [Session -> Seq(ItemSet)] /\ w.markers \in SUBSET MarkerSet /\ w.id \in Nat
        /\ w.present \in SUBSET Session /\ w.stopped \in [Session -> BOOLEAN]
        /\ w.current \in ItemSet \union {None} /\ c \in BOOLEAN
    BY <1>1 DEF WorkSet
  <2> QED
    BY <1>2, <2>1 DEF WorkSet
<1>4. Work(v)
  BY <1>2, <1>3 DEF Work
<1> QED
  BY <1>2, <1>4 DEF v, c, Muted

DaemonInv == QueueInv /\ NumInv /\ FlagInv /\ Known

\* What a handler has prepared, put into effect.
LEMMA EffectsKeep ==
    ASSUME DaemonInv, NEW w, Work(w), Effects(w), UNCHANGED <<armed, frontier, newest, buffer, pc, hand>>,
           (Muted(w) /\ UNCHANGED voiceState) \/ voiceState' = "flowing",
           (reg \subseteq Session /\ announced \subseteq Session /\ dead \subseteq Session)',
           ({fg, spk, focus, sanction} \subseteq Session \union {None})'
    PROVE  DaemonInv' /\ nextId <= nextId'
<1>1. /\ queue' = w.queue /\ markers' = w.markers /\ nextId' = w.id
      /\ present' = w.present /\ stopped' = w.stopped /\ current' = w.current
  BY DEF Effects
<1>2. /\ w.markers \subseteq MarkerSet /\ w.id \in Nat /\ w.present \subseteq Session
      /\ w.stopped \in [Session -> BOOLEAN] /\ w.current \in {None, hand}
  BY DEF Work, WorkSet
<1>3. Queues'
  BY <1>1 DEF Work, Queues
<1>4. Hands'
  BY <1>1, <1>2 DEF DaemonInv, QueueInv, Hands
<1>5. RosterTypes'
  BY <1>1, <1>2 DEF RosterTypes
<1>6. NumInv'
  BY <1>1, <1>2 DEF DaemonInv, NumInv
<1>7. Known'
  BY <1>1 DEF Work, Known
<1>8. FlagTypes' /\ NoArmedOnStopped'
  BY <1>1, <1>2 DEF DaemonInv, FlagInv, FlagTypes, NoArmedOnStopped, Work
<1>9. Fresh'
  BY <1>1 DEF DaemonInv, FlagInv, Fresh, Work
<1>10. MasterQuiet'
  BY <1>1 DEF Muted, MasterQuiet
<1> QED
  BY <1>1, <1>3, <1>4, <1>5, <1>6, <1>7, <1>8, <1>9, <1>10 DEF DaemonInv, QueueInv, FlagInv, Work

LEMMA QuietOutcome ==
    ASSUME DaemonInv, NEW w, Work(w), Muted(w), Effects(w), VoiceStays, MovesNothing
    PROVE  DaemonInv' /\ nextId <= nextId' /\ UNCHANGED <<reg, landings>>
<1>1. /\ UNCHANGED <<armed, frontier, newest, buffer, pc, hand, voiceState>>
      /\ UNCHANGED <<reg, announced, dead, fg, spk, focus, sanction, landings>>
  BY DEF VoiceStays, MovesNothing, ChooserLeaves, loopVars
<1>2. /\ reg \subseteq Session /\ announced \subseteq Session /\ dead \subseteq Session
      /\ {fg, spk, focus, sanction} \subseteq Session \union {None}
  BY DEF DaemonInv, QueueInv, RosterTypes
<1> QED
  BY <1>1, <1>2, EffectsKeep

\* A preview is delivered, or with no stream to hear it on, withdrawn.
LEMMA DeliveryKeeps ==
    ASSUME DaemonInv, NEW w, Work(w), Muted(w), NEW ch \in BrowseSet, DeliverPreview(w, ch), MovesNothing
    PROVE  /\ DaemonInv' /\ nextId <= nextId' /\ UNCHANGED <<reg, landings>>
           /\ chooser' \in BrowseSet /\ chooser' = [ch EXCEPT !.preview = (chooser').preview]
           /\ (chooser').preview \in 0..nextId'
           /\ markers' = w.markers
           /\ \A s \in Session : \A i \in DOMAIN w.queue[s] :
                 w.queue[s][i].id # ch.preview => \E j \in DOMAIN queue'[s] : queue'[s][j] = w.queue[s][i]
<1> DEFINE r == RemovePreview(w, ch)
           v == [r EXCEPT !.cancels = TRUE]
           dest == PreviewDest
           cue == Cue(v.id + 1, dest)
           p == PutFront(v, cue)
<1>1. w \in WorkSet
  BY DEF Work
<1>2. /\ Work(r) /\ Muted(r)
      /\ r.queue = [s \in Session |-> RemoveIds(w.queue[s], PreviewIds(ch))]
      /\ r.id = w.id /\ r.markers = w.markers
  BY <1>1, RemovePreviewWorks, RemovePreviewIs
<1> HIDE DEF r
<1>3. Work(v) /\ Muted(v) /\ v.queue = r.queue /\ v.id = r.id /\ v.markers = r.markers
  BY <1>2, CancelsWorks
<1> HIDE DEF v
<1>4. \A s \in Session : v.queue[s] \in Seq(ItemSet) /\ w.queue[s] \in Seq(ItemSet)
  BY <1>1, <1>3 DEF Work, WorkSet
<1>5. ASSUME NEW s \in Session, NEW i \in DOMAIN w.queue[s], w.queue[s][i].id # ch.preview
      PROVE  \E j \in DOMAIN v.queue[s] : v.queue[s][j] = w.queue[s][i]
  <2>1. v.queue[s] = RemoveIds(w.queue[s], PreviewIds(ch))
    BY <1>2, <1>3
  <2>2. w.queue[s][i].id \notin PreviewIds(ch)
    BY <1>5 DEF PreviewIds
  <2>3. \A a \in DOMAIN w.queue[s] :
           w.queue[s][a].id \notin PreviewIds(ch) => \E j \in DOMAIN v.queue[s] : v.queue[s][j] = w.queue[s][a]
    BY <1>4, <2>1, RemoveIdsElements
  <2> QED
    BY <2>2, <2>3
<1>6. v.id \in Nat /\ v.id + 1 \in Nat /\ v.id <= v.id + 1
  BY <1>3 DEF Work, WorkSet
<1>7. /\ UNCHANGED <<armed, frontier, newest, buffer, pc, hand, voiceState>>
      /\ UNCHANGED <<reg, announced, dead, fg, focus, landings>>
  BY DEF MovesNothing, ChooserLeaves, loopVars
<1>8. /\ reg \subseteq Session /\ announced \subseteq Session /\ dead \subseteq Session
      /\ {fg, spk, focus, sanction} \subseteq Session \union {None}
  BY DEF DaemonInv, QueueInv, RosterTypes
<1>9. ASSUME NEW n \in Nat, chooser' = [ch EXCEPT !.preview = n]
      PROVE  chooser' \in BrowseSet /\ (chooser').preview = n
  BY <1>9 DEF BrowseSet
<1>10. CASE dest = None
  <2>1. Effects(v) /\ chooser' = [ch EXCEPT !.preview = 0] /\ UNCHANGED <<sanction, spk>>
    BY <1>10 DEF DeliverPreview, v, r
  <2>2. DaemonInv' /\ nextId <= nextId'
    BY <1>3, <1>7, <1>8, <2>1, EffectsKeep
  <2>3. queue' = v.queue /\ nextId' = v.id /\ markers' = v.markers
    BY <2>1 DEF Effects
  <2>4. chooser' \in BrowseSet /\ (chooser').preview = 0
    BY <1>9, <2>1
  <2> QED
    BY <1>2, <1>3, <1>5, <1>6, <1>7, <2>1, <2>2, <2>3, <2>4
<1>11. CASE dest # None
  <2>1. /\ Effects(p) /\ chooser' = [ch EXCEPT !.preview = v.id + 1]
        /\ SanctionDeadRead(dest, FALSE)
        /\ spk' = SpeakerOnceSanctioned(dest, FALSE, v.stopped[dest])
    BY <1>11 DEF DeliverPreview, v, r
  <2>2. dest \in Session
    BY <1>11 DEF PreviewDest, Workspace, DaemonInv, QueueInv, RosterTypes
  <2>3. sanction' \in Session \union {None} /\ spk' \in Session \union {None}
    BY <1>8, <2>1, <2>2 DEF SanctionDeadRead, SpeakerOnceSanctioned
  <2> HIDE DEF dest
  <2>4. cue \in Of(dest) /\ cue.id = v.id + 1 /\ cue.session = dest
    BY <1>6, <2>2, Words
  <2>5. cue \in ItemSet
    BY <2>4 DEF Of
  <2> HIDE DEF cue
  <2>6. Work(p) /\ Muted(p)
    BY <1>3, <2>4, <2>5, PutFrontWorks DEF DaemonInv
  <2>7. p.queue = [v.queue EXCEPT ![dest] = EnqueueFront(@, cue)] /\ p.id = v.id + 1 /\ p.markers = v.markers
    BY <1>3, <2>4, <2>5, PutFrontIs DEF Work
  <2> HIDE DEF p
  <2>8. DaemonInv' /\ nextId <= nextId'
    BY <1>7, <1>8, <2>1, <2>3, <2>6, EffectsKeep
  <2>9. queue' = p.queue /\ nextId' = p.id /\ markers' = p.markers
    BY <2>1 DEF Effects
  <2>10. chooser' \in BrowseSet /\ (chooser').preview = v.id + 1
    BY <1>6, <1>9, <2>1
  <2>11. ASSUME NEW s \in Session, NEW j \in DOMAIN v.queue[s]
         PROVE  \E k \in DOMAIN queue'[s] : queue'[s][k] = v.queue[s][j]
    <3>1. CASE s = dest
      <4>1. queue'[s] = EnqueueFront(v.queue[s], cue)
        BY <1>3, <2>2, <2>7, <2>9, <3>1 DEF Work, WorkSet
      <4>2. j + 1 \in DOMAIN EnqueueFront(v.queue[s], cue) /\ EnqueueFront(v.queue[s], cue)[j + 1] = v.queue[s][j]
        BY <1>4, <2>5 DEF EnqueueFront
      <4> QED
        BY <4>1, <4>2
    <3>2. CASE s # dest
      BY <1>3, <2>7, <2>9, <3>2 DEF Work, WorkSet
    <3> QED
      BY <3>1, <3>2
  <2>12. \A s \in Session : \A i \in DOMAIN w.queue[s] :
            w.queue[s][i].id # ch.preview => \E j \in DOMAIN queue'[s] : queue'[s][j] = w.queue[s][i]
    <3> SUFFICES ASSUME NEW s \in Session, NEW i \in DOMAIN w.queue[s], w.queue[s][i].id # ch.preview
                 PROVE  \E k \in DOMAIN queue'[s] : queue'[s][k] = w.queue[s][i]
      OBVIOUS
    <3>1. PICK j \in DOMAIN v.queue[s] : v.queue[s][j] = w.queue[s][i]
      BY <1>5
    <3> QED
      BY <2>11, <3>1
  <2> QED
    BY <1>2, <1>3, <1>6, <1>7, <2>1, <2>7, <2>8, <2>9, <2>10, <2>12
<1> QED
  BY <1>10, <1>11

-----------------------------------------------------------------------------
(* The invariant of a browse                                                *)

Opened(ch, n) == ch \in BrowseSet /\ ch.index < Len(ch.candidates) /\ ch.preview \in 0..n

BrowseInv ==
    /\ DaemonInv /\ WireTypes /\ IsFiniteSet(reg) /\ landings \in Nat
    /\ chooser # None => Opened(chooser, nextId)

LEMMA OpenedBrowses ==
    ASSUME NEW ch, NEW n, Opened(ch, n)
    PROVE  Browsing(ch, n) /\ ch # None
  BY BrowseAssumption DEF Opened, Browsing, BrowseSet

\* The candidates are sessions, and one of them is shown.
LEMMA SnapshotSeq ==
    ASSUME DaemonInv, IsFiniteSet(reg), NEW candidates \in Snapshots
    PROVE  candidates \in Seq(Session)
<1>1. PICK rest \in SetToSeqs(Live \ {Workspace}) :
         candidates = (IF Workspace \in Live THEN <<Workspace>> ELSE <<>>) \o rest
  BY DEF Snapshots
<1> DEFINE S == Live \ {Workspace}
<1>2. S \subseteq reg /\ reg \subseteq Session
  BY DEF Live, DaemonInv, QueueInv, RosterTypes
<1>3. Cardinality(S) \in Nat
  BY <1>2, FS_Subset, FS_CardinalityType
<1>4. rest \in [1..Cardinality(S) -> S]
  BY <1>1 DEF SetToSeqs
<1>5. rest \in Seq(Session)
  <2> DEFINE n == Cardinality(S)
  <2>1. n \in Nat /\ rest \in [1..n -> Session]
    <3>1. S \subseteq Session
      BY <1>2
    <3> HIDE DEF S
    <3> QED
      BY <1>3, <1>4, <3>1
  <2> HIDE DEF n, S
  <2> QED
    BY <2>1
<1>6. (IF Workspace \in Live THEN <<Workspace>> ELSE <<>>) \in Seq(Session)
  BY <1>2 DEF Live
<1> QED
  BY <1>1, <1>5, <1>6

LEMMA TurnedOpened ==
    ASSUME NEW ch \in BrowseSet, ch.candidates # <<>>, NEW by \in {1, 0, -1}
    PROVE  LET t == Turned(ch, by)
           IN  /\ t \in BrowseSet /\ t.index < Len(t.candidates)
               /\ t.candidates = ch.candidates /\ t.preview = ch.preview
               /\ t.captured = ch.captured /\ t.entry = ch.entry
<1> DEFINE n == Len(ch.candidates)
           k == (ch.index + by) % n
<1>1. ch.candidates \in Seq(Session) /\ n \in Nat /\ n > 0 /\ ch.index + by \in Int
  BY DEF BrowseSet
<1>2. k \in 0..(n - 1)
  <2> HIDE DEF n
  <2> QED
    BY <1>1
<1>3. Turned(ch, by) = [ch EXCEPT !.index = k]
  BY DEF Turned
<1> HIDE DEF k
<1>4. k \in Nat /\ k < n
  BY <1>1, <1>2
<1> QED
  BY <1>3, <1>4 DEF BrowseSet

LEMMA OpeningOpened ==
    ASSUME DaemonInv, NEW w, Work(w), NEW candidates \in Seq(Session)
    PROVE  LET o == Opening(w, candidates)
           IN  o \in BrowseSet /\ o.candidates = candidates /\ o.preview = 0 /\ o.captured = w.current
<1> DEFINE E == {m \in w.markers : w.current # None /\ m.id = w.current.id}
<1>1. w \in WorkSet
  BY DEF Work
<1>2. E \in SUBSET MarkerSet /\ w.current \in ItemSet \union {None}
  BY <1>1 DEF WorkSet
<1>3. Workspace \in Session \union {None}
  BY DEF Workspace, DaemonInv, QueueInv, RosterTypes
<1>4. Opening(w, candidates) = [origin |-> Workspace, candidates |-> candidates, index |-> 0,
                                captured |-> w.current, entry |-> E, preview |-> 0]
  BY DEF Opening
<1> HIDE DEF E
<1> QED
  BY <1>2, <1>3, <1>4 DEF BrowseSet

\* What a tap does.
LEMMA StepKeeps ==
    ASSUME BrowseInv, NEW i \in DOMAIN wire, ChooserStep(i)
    PROVE  /\ DaemonInv' /\ nextId <= nextId' /\ UNCHANGED <<reg, landings>>
           /\ chooser' # None => Opened(chooser', nextId')
<1>1. wire[i].by \in {1, 0, -1} /\ MovesNothing
  <2>1. wire[i] \in Wire
    BY DEF BrowseInv, WireTypes
  <2> QED
    BY <2>1 DEF Wire, ChooserStep
<1>2. Work(Untouched) /\ Muted(Untouched)
  BY WorkBegins DEF BrowseInv, DaemonInv
<1>3. Browses(chooser, nextId)
  BY OpenedBrowses DEF BrowseInv, Browses
<1>4. Work(Expired) /\ Muted(Expired)
  BY <1>3, ExpiredWorks DEF BrowseInv, DaemonInv
<1>5. ASSUME NEW w, Work(w), Muted(w), NEW ch \in BrowseSet, ch.candidates # <<>>,
             DeliverPreview(w, Turned(ch, wire[i].by))
      PROVE  /\ DaemonInv' /\ nextId <= nextId' /\ UNCHANGED <<reg, landings>>
             /\ Opened(chooser', nextId')
  <2> DEFINE t == Turned(ch, wire[i].by)
  <2>1. t \in BrowseSet /\ t.index < Len(t.candidates)
    BY <1>1, <1>5, TurnedOpened
  <2>2. DeliverPreview(w, t)
    BY <1>5
  <2> HIDE DEF t
  <2>3. /\ DaemonInv' /\ nextId <= nextId' /\ UNCHANGED <<reg, landings>>
        /\ chooser' \in BrowseSet /\ chooser' = [t EXCEPT !.preview = (chooser').preview]
        /\ (chooser').preview \in 0..nextId'
    BY <1>1, <1>5, <2>1, <2>2, DeliveryKeeps DEF BrowseInv
  <2>4. (chooser').index = t.index /\ (chooser').candidates = t.candidates
    BY <2>1, <2>3 DEF BrowseSet
  <2> QED
    BY <2>1, <2>3, <2>4 DEF Opened
<1>6. CASE StepOn(wire[i])
  <2>1. chooser \in BrowseSet /\ chooser.candidates # <<>>
    BY <1>6 DEF StepOn, IsOpen, BrowseInv, Opened, BrowseSet
  <2> QED
    BY <1>2, <1>5, <1>6, <2>1 DEF StepOn
<1>7. CASE StepOpens(wire[i])
  <2>1. PICK candidates \in Snapshots \ {<<>>} :
           DeliverPreview(Cuts(Expired), Turned(Opening(Expired, candidates), wire[i].by))
    BY <1>7 DEF StepOpens
  <2>2. candidates \in Seq(Session)
    BY <2>1, SnapshotSeq DEF BrowseInv
  <2>3. Opening(Expired, candidates) \in BrowseSet /\ Opening(Expired, candidates).candidates # <<>>
    BY <1>4, <2>1, <2>2, OpeningOpened DEF BrowseInv
  <2>4. Work(Cuts(Expired)) /\ Muted(Cuts(Expired))
    BY <1>4, CutsWorks
  <2> QED
    BY <1>5, <2>1, <2>3, <2>4
<1>8. CASE NobodyToBrowse
  <2>1. Effects(Expired) /\ VoiceStays /\ chooser' = None
    BY <1>8 DEF NobodyToBrowse, VoiceStays
  <2> QED
    BY <1>1, <1>4, <2>1, QuietOutcome DEF BrowseInv
<1> QED
  BY <1>6, <1>7, <1>8 DEF ChooserStep

\* What a message that ends a chord does, other than land.
Ends(w) == Work(w) /\ Muted(w) /\ Effects(w) /\ VoiceStays /\ MovesNothing

LEMMA CloserOutcomes ==
    ASSUME BrowseInv, NEW i \in DOMAIN wire, ChooserCommit(i) \/ ChooserDigit(i) \/ ChooserCancel(i)
    PROVE  \/ ~ IsOpen /\ chooser' = None /\ Ends(Expired)
           \/ IsOpen /\ chooser' = None /\ Ends(Restored(Untouched, chooser))
           \/ IsOpen /\ chooser' = None /\ Ends(Restored(ClosedWord(Untouched), chooser))
           \/ UNCHANGED chooser /\ (Ends(Untouched) \/ Ends(ClosedWord(Untouched)))
           \/ IsOpen /\ \E s \in Live : Landing(s)
<1>1. Work(Untouched) /\ Muted(Untouched) /\ Work(ClosedWord(Untouched)) /\ Muted(ClosedWord(Untouched))
  BY WorkBegins, ClosedWordWorks DEF BrowseInv, DaemonInv
<1>2. Browses(chooser, nextId)
  BY OpenedBrowses DEF BrowseInv, Browses
<1>3. Work(Expired) /\ Muted(Expired)
  BY <1>2, ExpiredWorks DEF BrowseInv, DaemonInv
<1>4. ASSUME IsOpen, NEW w, Work(w), Muted(w)
      PROVE  Work(Restored(w, chooser)) /\ Muted(Restored(w, chooser))
  BY <1>2, <1>4, RestoredWorks DEF IsOpen, Browses, BrowseInv, DaemonInv
<1>5. CASE NotOpen
  BY <1>3, <1>5 DEF NotOpen, Closes, Ends
<1>6. CASE CancelBrowse
  BY <1>1, <1>4, <1>6 DEF CancelBrowse, Closes, Ends
<1>7. ASSUME NEW s, Lands(s)
      PROVE  \/ IsOpen /\ chooser' = None /\ Ends(Restored(Untouched, chooser))
             \/ IsOpen /\ chooser' = None /\ Ends(Restored(ClosedWord(Untouched), chooser))
             \/ IsOpen /\ s \in Live /\ Landing(s)
  <2>1. CASE LandingAtHome(s)
    BY <1>1, <1>4, <2>1 DEF LandingAtHome, CancelBrowse, Closes, Ends
  <2>2. CASE LandingRefused(s)
    BY <1>1, <1>4, <1>7, <2>2 DEF LandingRefused, GaveBack, Lands, Closes, Ends
  <2>3. CASE Landing(s)
    BY <1>7, <2>3 DEF Landing, Landable, Lands
  <2> QED
    BY <1>7, <2>1, <2>2, <2>3 DEF Lands
<1>8. CASE \E s : NobodyThere(s)
  <2>1. Effects(Untouched) \/ Effects(ClosedWord(Untouched))
    BY <1>8 DEF NobodyThere
  <2> QED
    BY <1>1, <1>8, <2>1 DEF NobodyThere, Ends
<1> QED
  BY <1>5, <1>6, <1>7, <1>8 DEF ChooserCommit, ChooserDigit, ChooserCancel

LEMMA LandingKeeps ==
    ASSUME BrowseInv, NEW s \in Live, Landing(s), IsOpen
    PROVE  DaemonInv' /\ nextId <= nextId' /\ IsFiniteSet(reg') /\ landings' = landings + 1
<1> DEFINE r == RemovePreview(Untouched, chooser)
           v == [r EXCEPT !.cancels = TRUE]
           c == [v EXCEPT !.present = @ \union {s}]
           cue == Cue(c.id + 1, s)
           p == PutFront(c, cue)
<1>1. s \in Session /\ s \in reg
  BY DEF Live, BrowseInv, DaemonInv, QueueInv, RosterTypes
<1>2. Work(v)
  BY WorkBegins, RemovePreviewWorks, CancelsWorks DEF BrowseInv, DaemonInv
<1> HIDE DEF v
<1>3. Work(c)
  <2>1. v \in WorkSet
    BY <1>2 DEF Work
  <2> DEFINE P == v.present \union {s}
  <2>2. P \in SUBSET Session /\ v.present \subseteq P
    BY <1>1, <2>1 DEF WorkSet
  <2>3. c = [v EXCEPT !.present = P]
    OBVIOUS
  <2> HIDE DEF P, c
  <2>4. c = [queue |-> v.queue, markers |-> v.markers, id |-> v.id, present |-> P,
             stopped |-> v.stopped, current |-> v.current, cancels |-> v.cancels]
    BY <2>1, <2>3 DEF WorkSet
  <2>5. c \in WorkSet
    BY <2>1, <2>2, <2>4 DEF WorkSet
  <2> QED
    BY <1>2, <2>2, <2>4, <2>5 DEF Work
<1>4. c.id + 1 \in Nat
  BY <1>3 DEF Work, WorkSet
<1>5. Effects(p)
  <2>1. c = [r EXCEPT !.cancels = TRUE, !.present = @ \union {s}]
    <3>1. r \in WorkSet
      BY WorkBegins, RemovePreviewWorks DEF BrowseInv, DaemonInv, Work
    <3> HIDE DEF r
    <3> QED
      BY <3>1 DEF v, WorkSet
  <2> QED
    BY <2>1 DEF Landing
<1>6. cue \in ItemSet /\ cue.id = c.id + 1
  <2> HIDE DEF c
  <2> QED
    BY <1>1, <1>4, Words DEF Of
<1> HIDE DEF c, cue
<1>7. Work(p)
  BY <1>3, <1>6, PutFrontWorks DEF BrowseInv, DaemonInv
<1> HIDE DEF p
<1>8. /\ UNCHANGED <<armed, frontier, newest, buffer, pc, hand, announced, dead, focus, sanction>>
      /\ voiceState' = "flowing" /\ fg' = s /\ reg' = reg /\ spk' \in {None, s} /\ landings' = landings + 1
  BY <1>1 DEF Landing, ChooserLeaves, loopVars
<1>9. /\ (reg \subseteq Session /\ announced \subseteq Session /\ dead \subseteq Session)'
      /\ ({fg, spk, focus, sanction} \subseteq Session \union {None})'
  BY <1>1, <1>8 DEF BrowseInv, DaemonInv, QueueInv, RosterTypes
<1> QED
  BY <1>5, <1>7, <1>8, <1>9, EffectsKeep DEF BrowseInv

\* The daemon starts with all of this in order.
LEMMA InitDaemonInv == Init => QueueInv /\ NumInv /\ FlagInv
<1> SUFFICES ASSUME Init PROVE QueueInv /\ NumInv /\ FlagInv
  OBVIOUS
<1>1. NumInv
  BY DEF Init, InitState, NumInv
<1>2. FlagInv
  BY DEF Init, InitState, FlagInv, FlagTypes, Fresh, NoArmedOnStopped, MasterQuiet
<1>3. queue = [s \in Session |-> <<>>] /\ hand = None /\ nextId = 0
  BY DEF Init, InitState
<1>4. Queues
  BY <1>3 DEF Queues, Sound, Distinct, Ids
<1>5. Hands /\ RosterTypes
  BY RosterAssumption DEF Init, InitState, Hands, Idle, Busy, RosterTypes
<1> QED
  BY <1>1, <1>2, <1>4, <1>5 DEF QueueInv

LEMMA BrowseInvariance == BSpec => []BrowseInv
<1>1. BInit => BrowseInv
  <2> SUFFICES ASSUME BInit PROVE BrowseInv
    OBVIOUS
  <2>1. QueueInv /\ NumInv /\ FlagInv
    BY InitDaemonInv DEF BInit, Init
  <2>2. markers = {} /\ reg = Roster0 /\ landings = 0 /\ chooser = None /\ wire = <<>>
    BY DEF BInit, InitState
  <2> QED
    BY <2>1, <2>2, FiniteRoster DEF BrowseInv, DaemonInv, Known, WireTypes
<1>2. BrowseInv /\ WireTypes' /\ [BNext]_bvars => BrowseInv'
  <2> SUFFICES ASSUME BrowseInv, WireTypes', [BNext]_bvars PROVE BrowseInv'
    OBVIOUS
  <2>1. CASE Keyboard \/ Lapse \/ Elsewhere \/ UNCHANGED bvars
    <3>1. [Next]_vars /\ UNCHANGED <<chooser, landings>>
      BY <2>1 DEF Keyboard, Lapse, Elsewhere, bvars, browseVars
    <3>2. DaemonInv' /\ nextId <= nextId'
      BY <3>1, NextQueues, NextNumbers, NextFlagInv, NextKnown DEF BrowseInv, DaemonInv
    <3>3. IsFiniteSet(reg')
      BY <3>1, NextFinite DEF BrowseInv
    <3>4. nextId \in Nat /\ nextId' \in Nat
      BY <3>2 DEF BrowseInv, DaemonInv, NumInv
    <3> QED
      BY <3>1, <3>2, <3>3, <3>4 DEF BrowseInv, Opened
  <2>2. CASE Handle
    <3>1. PICK i \in DOMAIN wire : ChooserStep(i) \/ ChooserCommit(i) \/ ChooserDigit(i) \/ ChooserCancel(i)
      BY <2>2 DEF Handle
    <3>2. CASE ChooserStep(i)
      BY <3>2, StepKeeps DEF BrowseInv
    <3>3. CASE \E s \in Live : Landing(s) /\ IsOpen
      <4>1. DaemonInv' /\ nextId <= nextId' /\ IsFiniteSet(reg') /\ landings' = landings + 1
        BY <3>3, LandingKeeps
      <4>2. chooser' = None
        BY <3>3 DEF Landing, Closes
      <4> QED
        BY <4>1, <4>2 DEF BrowseInv
    <3>4. ASSUME NEW w, Ends(w), chooser' \in {None, chooser} PROVE BrowseInv'
      <4>1. DaemonInv' /\ nextId <= nextId' /\ UNCHANGED <<reg, landings>>
        BY <3>4, QuietOutcome DEF Ends, BrowseInv
      <4>2. nextId \in Nat /\ nextId' \in Nat
        BY <4>1 DEF BrowseInv, DaemonInv, NumInv
      <4> QED
        BY <3>4, <4>1, <4>2 DEF BrowseInv, Opened
    <3>5. CASE ~ ChooserStep(i)
      BY <3>1, <3>3, <3>4, <3>5, CloserOutcomes
    <3> QED
      BY <3>2, <3>5
  <2> QED
    BY <2>1, <2>2 DEF BNext
<1> QED
  BY <1>1, <1>2, WireInvariance, PTL DEF BSpec

-----------------------------------------------------------------------------
(* What was interrupted is given back                                       *)

\* An item of the queues q is the one the browse ch captured, under an id that
\* the markers M bind to the entries it had.
Entries(M, id) == {m.entry : m \in {k \in M : k.id = id}}

IsBack(it, M, ch) ==
    /\ it = [ch.captured EXCEPT !.id = it.id] /\ it.id # 0
    /\ Entries(M, it.id) = {m.entry : m \in ch.entry}

HasBack(q, M, ch) ==
    \E i \in DOMAIN q[ch.captured.session] : IsBack(q[ch.captured.session][i], M, ch)

LEMMA PutBackGives ==
    ASSUME FlagInv, NEW w, Work(w), NEW ch, NEW k, Browsing(ch, k), ch.captured # None
    PROVE  HasBack(PutBack(w, ch).queue, PutBack(w, ch).markers, ch)
<1> DEFINE n == w.id + 1
           item == Copy(ch.captured, n)
           s == ch.captured.session
           v == PutBack(w, ch)
           new == {[m EXCEPT !.id = n] : m \in ch.entry}
<1>1. w \in WorkSet /\ w.id \in Nat /\ n \in Nat /\ n # 0
  BY DEF Work, WorkSet
<1>2. /\ item \in ItemSet /\ item.id = n /\ item = [ch.captured EXCEPT !.id = item.id]
      /\ s \in Session
  BY <1>1, CopyIs, ItemSession DEF Browsing
<1>3. v.queue = [w.queue EXCEPT ![s] = EnqueueFront(@, item)] /\ v.markers = w.markers \union new
  BY PutBackIs
<1> HIDE DEF item, v
<1>4. v.queue[s] = EnqueueFront(w.queue[s], item) /\ w.queue[s] \in Seq(ItemSet)
  BY <1>1, <1>2, <1>3 DEF WorkSet
<1>5. 1 \in DOMAIN v.queue[s] /\ v.queue[s][1] = item
  BY <1>2, <1>4 DEF EnqueueFront
<1>6. \A m \in w.markers : m.id # n
  BY <1>1 DEF Work
<1>7. \A m \in ch.entry : [m EXCEPT !.id = n].id = n /\ [m EXCEPT !.id = n].entry = m.entry
  BY <1>1 DEF Browsing, MarkerSet
<1>8. Entries(v.markers, n) = {m.entry : m \in ch.entry}
  <2>1. ASSUME NEW m \in v.markers, m.id = n PROVE \E e \in ch.entry : m.entry = e.entry
    <3>1. m \in new
      BY <1>3, <1>6, <2>1
    <3> QED
      BY <1>7, <3>1
  <2>2. ASSUME NEW e \in ch.entry PROVE \E m \in v.markers : m.id = n /\ m.entry = e.entry
    <3>1. [e EXCEPT !.id = n] \in v.markers
      BY <1>3
    <3> QED
      BY <1>7, <3>1
  <2> HIDE DEF n, new
  <2> QED
    BY <2>1, <2>2 DEF Entries
<1>9. IsBack(item, v.markers, ch)
  BY <1>1, <1>2, <1>8 DEF IsBack
<1> QED
  BY <1>5, <1>9 DEF HasBack, v

LEMMA RestoredGives ==
    ASSUME FlagInv, NEW w, Work(w), NEW ch, NEW k, Browsing(ch, k), ch.captured # None
    PROVE  HasBack(Restored(w, ch).queue, Restored(w, ch).markers, ch)
<1>1. Work(RemovePreview(w, ch))
  BY RemovePreviewWorks
<1> QED
  BY <1>1, PutBackGives DEF Restored

LEMMA OverIsGiven ==
    ASSUME BrowseInv, chooser # None, NEW w, Work(w), Effects(Restored(w, chooser)), chooser.captured # None
    PROVE  HasBack(queue', markers', chooser)
<1>1. Browsing(chooser, nextId) /\ FlagInv
  BY OpenedBrowses DEF BrowseInv, DaemonInv
<1>2. queue' = Restored(w, chooser).queue /\ markers' = Restored(w, chooser).markers
  BY DEF Effects
<1> QED
  BY <1>1, <1>2, RestoredGives

\* The browse that replaces a stale one has no preview yet, and its first one
\* pushes in front.
LEMMA ReplacedIsGiven ==
    ASSUME BrowseInv, NEW i \in DOMAIN wire, chooser # None, lapsed, chooser.captured # None,
           ChooserStep(i), StepOpens(wire[i])
    PROVE  HasBack(queue', markers', chooser)
<1> DEFINE s == chooser.captured.session
           w == Cuts(Expired)
<1>1. Browsing(chooser, nextId) /\ FlagInv /\ DaemonInv
  BY OpenedBrowses DEF BrowseInv, DaemonInv
<1>2. Work(Untouched) /\ Work(Expired) /\ Muted(Expired) /\ Expired = Restored(Untouched, chooser)
  BY <1>1, WorkBegins, ExpiredWorks DEF Browses, DaemonInv, Expired
<1>3. HasBack(Expired.queue, Expired.markers, chooser)
  BY <1>1, <1>2, RestoredGives
<1>4. Work(w) /\ Muted(w) /\ w.queue = Expired.queue /\ w.markers = Expired.markers
  BY <1>2, CutsWorks
<1> HIDE DEF w
<1>5. PICK j \in DOMAIN w.queue[s] : IsBack(w.queue[s][j], w.markers, chooser)
  BY <1>3, <1>4 DEF HasBack
<1>6. PICK candidates \in Snapshots \ {<<>>} :
         DeliverPreview(w, Turned(Opening(Expired, candidates), wire[i].by))
  BY DEF StepOpens, w
<1>7. wire[i].by \in {1, 0, -1} /\ MovesNothing
  <2>1. wire[i] \in Wire
    BY DEF BrowseInv, WireTypes
  <2> QED
    BY <2>1 DEF Wire, ChooserStep
<1> DEFINE o == Opening(Expired, candidates)
           t == Turned(o, wire[i].by)
<1>8. candidates \in Seq(Session) /\ candidates # <<>>
  BY <1>6, SnapshotSeq DEF BrowseInv
<1>9. o \in BrowseSet /\ o.candidates # <<>> /\ o.preview = 0
  BY <1>1, <1>2, <1>8, OpeningOpened
<1> HIDE DEF o
<1>10. t \in BrowseSet /\ t.preview = 0
  BY <1>7, <1>9, TurnedOpened
<1>11. DeliverPreview(w, t)
  BY <1>6 DEF o
<1> HIDE DEF t
<1>12. /\ markers' = w.markers
       /\ \A u \in Session : \A a \in DOMAIN w.queue[u] :
             w.queue[u][a].id # t.preview => \E b \in DOMAIN queue'[u] : queue'[u][b] = w.queue[u][a]
  BY <1>1, <1>4, <1>7, <1>10, <1>11, DeliveryKeeps
<1>13. s \in Session
  BY <1>1, ItemSession DEF Browsing
<1>14. w.queue[s][j].id # t.preview
  BY <1>5, <1>10 DEF IsBack
<1>15. PICK b \in DOMAIN queue'[s] : queue'[s][b] = w.queue[s][j]
  BY <1>12, <1>13, <1>14
<1>16. IsBack(queue'[s][b], markers', chooser)
  BY <1>5, <1>12, <1>15
<1> QED
  BY <1>15, <1>16 DEF HasBack

LEMMA GivenStep ==
    ASSUME BrowseInv, [BNext]_bvars, Parked # None, Parked' # Parked, landings' = landings
    PROVE  HasBack(queue', markers', chooser)
<1>1. chooser # None /\ chooser.captured # None /\ chooser \in BrowseSet
  BY DEF Parked, BrowseInv, Opened
<1>2. Handle
  BY DEF BNext, Keyboard, Lapse, Elsewhere, bvars, browseVars, Parked
<1>3. PICK i \in DOMAIN wire : ChooserStep(i) \/ ChooserCommit(i) \/ ChooserDigit(i) \/ ChooserCancel(i)
  BY <1>2 DEF Handle
<1>4. Work(Untouched) /\ Work(ClosedWord(Untouched))
  BY WorkBegins, ClosedWordWorks DEF BrowseInv, DaemonInv
<1>5. ~ IsOpen => lapsed /\ Expired = Restored(Untouched, chooser)
  BY <1>1 DEF IsOpen, Expired
<1>6. CASE ChooserStep(i)
  <2>1. CASE StepOpens(wire[i])
    <3>1. lapsed
      BY <1>5, <2>1 DEF StepOpens
    <3> QED
      BY <1>1, <1>6, <2>1, <3>1, ReplacedIsGiven
  <2>2. CASE NobodyToBrowse
    BY <1>1, <1>4, <1>5, <2>2, OverIsGiven DEF NobodyToBrowse
  <2>3. CASE StepOn(wire[i])
    <3> DEFINE t == Turned(chooser, wire[i].by)
    <3>1. wire[i] \in Wire /\ wire[i].by \in {1, 0, -1}
      <4>1. wire[i] \in Wire
        BY DEF BrowseInv, WireTypes
      <4> QED
        BY <4>1 DEF Wire
    <3>2. chooser.candidates # <<>>
      BY <1>1 DEF BrowseInv, Opened, BrowseSet
    <3>3. t \in BrowseSet /\ t.captured = chooser.captured
      BY <1>1, <3>1, <3>2, TurnedOpened
    <3>4. DeliverPreview(Untouched, t) /\ MovesNothing /\ Muted(Untouched)
      BY <1>6, <2>3, WorkBegins DEF StepOn, ChooserStep, BrowseInv, DaemonInv
    <3> HIDE DEF t
    <3>5. chooser' \in BrowseSet /\ chooser' = [t EXCEPT !.preview = (chooser').preview]
      BY <1>4, <3>3, <3>4, DeliveryKeeps DEF BrowseInv
    <3>6. (chooser').captured = chooser.captured
      BY <3>3, <3>5 DEF BrowseSet
    <3> QED
      BY <1>1, <3>5, <3>6, BrowseAssumption DEF Parked
  <2> QED
    BY <1>6, <2>1, <2>2, <2>3 DEF ChooserStep
<1>7. CASE ~ ChooserStep(i)
  <2>1. \/ ~ IsOpen /\ Effects(Expired)
        \/ Effects(Restored(Untouched, chooser))
        \/ Effects(Restored(ClosedWord(Untouched), chooser))
        \/ UNCHANGED chooser
        \/ \E s \in Live : Landing(s)
    BY <1>3, <1>7, CloserOutcomes DEF Ends
  <2>2. ~ \E s \in Live : Landing(s)
    <3>1. \A s : Landing(s) => landings' = landings + 1
      BY DEF Landing
    <3>2. landings \in Nat
      BY DEF BrowseInv
    <3> QED
      BY <3>1, <3>2
  <2>3. ~ UNCHANGED chooser
    BY DEF Parked
  <2> QED
    BY <1>1, <1>4, <1>5, <2>1, <2>2, <2>3, OverIsGiven
<1> QED
  BY <1>6, <1>7

\* However a browse ends short of a landing -- cancelled, back home, refused,
\* stale and replaced -- what its first tap interrupted is queued again under a
\* new id, and the markers of that id name the entries it voiced, and no other.
THEOREM GivenBackHolds == BSpec => GivenBack
<1> DEFINE Back == \E it \in {queue'[Parked.session][i] : i \in DOMAIN queue'[Parked.session]} :
                      /\ it = [Parked EXCEPT !.id = it.id]
                      /\ {m.entry : m \in {k \in markers' : k.id = it.id}} = {m.entry : m \in chooser.entry}
<1>1. BrowseInv /\ [BNext]_bvars
        => [Parked # None /\ Parked' # Parked /\ landings' = landings => Back]_bvars
  <2> SUFFICES ASSUME BrowseInv, [BNext]_bvars, Parked # None, Parked' # Parked, landings' = landings
               PROVE  Back
    OBVIOUS
  <2>1. HasBack(queue', markers', chooser)
    BY GivenStep
  <2>2. Parked = chooser.captured
    BY DEF Parked
  <2> QED
    BY <2>1, <2>2 DEF HasBack, IsBack, Entries
<1> QED
  BY <1>1, BrowseInvariance, PTL DEF BSpec, GivenBack

-----------------------------------------------------------------------------
(* The order of a queue.  Whatever a step does to a queue, what it held      *)
(* before (the ids up to n) keeps its order and stays a cue if it was one;   *)
(* nothing becomes one but the question of a jump.                           *)

Thinned(q, r, n) ==
    /\ \A i \in DOMAIN r : r[i].id \in 0..n =>
          \E a \in DOMAIN q : /\ q[a].id = r[i].id /\ (q[a].cue => r[i].cue)
                              /\ r[i].cue => q[a].cue \/ "JUMP_DECISION" \in Messages
    /\ \A i, j \in DOMAIN r : i < j /\ r[i].id \in 0..n /\ r[j].id \in 0..n =>
          \E a, b \in DOMAIN q : a < b /\ q[a].id = r[i].id /\ q[b].id = r[j].id

LEMMA ThinnedSelf == \A q, n : Thinned(q, q, n)
  BY DEF Thinned

LEMMA ThinnedTwice ==
    ASSUME NEW q, NEW r, NEW t, NEW n, Thinned(q, r, n), Thinned(r, t, n)
    PROVE  Thinned(q, t, n)
<1>1. ASSUME NEW i \in DOMAIN t, t[i].id \in 0..n
      PROVE  \E a \in DOMAIN q : /\ q[a].id = t[i].id /\ (q[a].cue => t[i].cue)
                                 /\ t[i].cue => q[a].cue \/ "JUMP_DECISION" \in Messages
  <2>1. PICK c \in DOMAIN r : /\ r[c].id = t[i].id /\ (r[c].cue => t[i].cue)
                              /\ t[i].cue => r[c].cue \/ "JUMP_DECISION" \in Messages
    BY <1>1 DEF Thinned
  <2>2. PICK a \in DOMAIN q : /\ q[a].id = r[c].id /\ (q[a].cue => r[c].cue)
                              /\ r[c].cue => q[a].cue \/ "JUMP_DECISION" \in Messages
    BY <1>1, <2>1 DEF Thinned
  <2> QED
    BY <2>1, <2>2
<1>2. ASSUME NEW i \in DOMAIN t, NEW j \in DOMAIN t, i < j, t[i].id \in 0..n, t[j].id \in 0..n
      PROVE  \E a, b \in DOMAIN q : a < b /\ q[a].id = t[i].id /\ q[b].id = t[j].id
  <2>1. PICK c \in DOMAIN r, d \in DOMAIN r : c < d /\ r[c].id = t[i].id /\ r[d].id = t[j].id
    BY <1>2 DEF Thinned
  <2>2. PICK a \in DOMAIN q, b \in DOMAIN q : a < b /\ q[a].id = r[c].id /\ q[b].id = r[d].id
    BY <1>2, <2>1 DEF Thinned
  <2> QED
    BY <2>1, <2>2
<1> QED
  BY <1>1, <1>2 DEF Thinned

\* What is new is put where it likes.
LEMMA ThinnedFront ==
    ASSUME NEW T, NEW q \in Seq(T), NEW item \in T, NEW n, item.id \notin 0..n
    PROVE  Thinned(q, EnqueueFront(q, item), n)
<1> DEFINE r == EnqueueFront(q, item)
<1>1. /\ r \in Seq(T) /\ Len(r) = Len(q) + 1 /\ r[1] = item
      /\ \A i \in 1..Len(q) : r[i + 1] = q[i]
  BY DEF EnqueueFront
<1> HIDE DEF r
<1>2. ASSUME NEW i \in DOMAIN r, r[i].id \in 0..n
      PROVE  \E a \in DOMAIN q : i = a + 1 /\ r[i] = q[a]
  <2>1. i # 1
    BY <1>1, <1>2
  <2>2. i - 1 \in 1..Len(q) /\ i = (i - 1) + 1
    BY <1>1, <2>1
  <2> QED
    BY <1>1, <2>2
<1>3. ASSUME NEW i \in DOMAIN r, NEW j \in DOMAIN r, i < j, r[i].id \in 0..n, r[j].id \in 0..n
      PROVE  \E a, b \in DOMAIN q : a < b /\ q[a].id = r[i].id /\ q[b].id = r[j].id
  <2>1. PICK a \in DOMAIN q : i = a + 1 /\ r[i] = q[a]
    BY <1>2, <1>3
  <2>2. PICK b \in DOMAIN q : j = b + 1 /\ r[j] = q[b]
    BY <1>2, <1>3
  <2>3. a < b
    BY <1>3, <2>1, <2>2
  <2> QED
    BY <2>1, <2>2, <2>3
<1> QED
  BY <1>2, <1>3 DEF Thinned, r

LEMMA ThinnedAppend ==
    ASSUME NEW T, NEW q \in Seq(T), NEW item \in T, NEW n, item.id \notin 0..n
    PROVE  Thinned(q, Append(q, item), n)
<1> DEFINE r == Append(q, item)
<1>1. /\ DOMAIN r = 1..(Len(q) + 1) /\ Len(q) \in Nat /\ DOMAIN q = 1..Len(q)
      /\ \A i \in 1..Len(q) : r[i] = q[i]
      /\ r[Len(q) + 1] = item
  OBVIOUS
<1> HIDE DEF r
<1>2. \A i \in DOMAIN r : r[i].id \in 0..n => i \in DOMAIN q /\ r[i] = q[i]
  BY <1>1
<1> QED
  BY <1>2 DEF Thinned, r

\* What leaves leaves the rest in order.
LEMMA ThinnedRemoved ==
    ASSUME NEW T, NEW q \in Seq(T), NEW k \in 1..Len(q), NEW n
    PROVE  Thinned(q, RemoveAt(q, k), n)
<1> DEFINE r == RemoveAt(q, k)
           g(i) == IF i < k THEN i ELSE i + 1
<1>1. /\ r \in Seq(T) /\ Len(r) = Len(q) - 1
      /\ \A i \in 1..Len(r) : r[i] = IF i < k THEN q[i] ELSE q[i + 1]
  BY RemoveAtElements
<1> HIDE DEF r
<1>2. \A i \in DOMAIN r : g(i) \in DOMAIN q /\ r[i] = q[g(i)]
  BY <1>1
<1>3. \A i, j \in DOMAIN r : i < j => g(i) < g(j)
  BY <1>1
<1> HIDE DEF g
<1> QED
  BY <1>2, <1>3 DEF Thinned, r

LEMMA ThinnedTail ==
    ASSUME NEW T, NEW q \in Seq(T), q # <<>>, NEW n
    PROVE  Thinned(q, Tail(q), n)
<1> DEFINE r == Tail(q)
<1>1. /\ r \in Seq(T) /\ Len(r) = Len(q) - 1 /\ Len(q) >= 1
      /\ \A i \in 1..Len(r) : r[i] = q[i + 1]
  OBVIOUS
<1> HIDE DEF r
<1>2. \A i \in DOMAIN r : i + 1 \in DOMAIN q /\ r[i] = q[i + 1]
  BY <1>1
<1>3. \A i, j \in DOMAIN r : i < j => i + 1 < j + 1
  BY <1>1
<1> QED
  BY <1>2, <1>3 DEF Thinned, r

LEMMA ThinnedEnqueue ==
    ASSUME NEW T, NEW q \in Seq(T), NEW item \in T, NEW cap, NEW n, item.id \notin 0..n
    PROVE  Thinned(q, Enqueue(q, item, cap), n)
<1> DEFINE k == EvictedAt(q, cap)
<1>1. k \in 0..Len(q)
  BY EvictedPlace
<1>2. Enqueue(q, item, cap) = IF k = 0 THEN Append(q, item) ELSE Append(RemoveAt(q, k), item)
  BY DEF Enqueue
<1> HIDE DEF k
<1>3. CASE k = 0
  BY <1>2, <1>3, ThinnedAppend
<1>4. CASE k # 0
  <2> DEFINE p == RemoveAt(q, k)
  <2>1. k \in 1..Len(q)
    BY <1>1, <1>4
  <2>2. p \in Seq(T) /\ Thinned(q, p, n)
    BY <2>1, RemoveAtElements, ThinnedRemoved
  <2> HIDE DEF p
  <2>3. Thinned(p, Append(p, item), n)
    BY <2>2, ThinnedAppend
  <2>4. Thinned(q, Append(p, item), n)
    BY <2>2, <2>3, ThinnedTwice
  <2> QED
    BY <1>2, <1>4, <2>4 DEF p
<1> QED
  BY <1>3, <1>4

LEMMA ThinnedAll ==
    ASSUME NEW T, NEW q \in Seq(T), NEW items \in Seq(T), NEW n,
           \A i \in 1..Len(items) : items[i].id \notin 0..n
    PROVE  Thinned(q, EnqueueAll(q, items), n)
<1>1. PICK f : After(q, items, f) /\ EnqueueAll(q, items) = f[Len(items)]
  BY RunExists
<1>2. \A i \in 0..Len(items) : f[i] = IF i = 0 THEN q ELSE Enqueue(f[i - 1], items[i], Cap)
  BY <1>1 DEF After
<1> DEFINE Good(m) == f[m] \in Seq(T) /\ Thinned(q, f[m], n)
           bad == {m \in 0..Len(items) : ~ Good(m)}
<1>3. bad = {}
  <2> SUFFICES ASSUME bad # {} PROVE FALSE
    OBVIOUS
  <2>1. PICK m \in bad : \A k \in bad : m <= k
    <3>1. bad \subseteq Nat
      OBVIOUS
    <3> HIDE DEF bad
    <3> QED
      BY <3>1, Least
  <2>2. CASE m = 0
    <3>1. f[0] = q
      BY <1>2, <2>2
    <3> QED
      BY <2>2, <3>1, ThinnedSelf
  <2>3. CASE m # 0
    <3>1. m \in 1..Len(items) /\ m - 1 \in 0..Len(items) /\ ~ (m <= m - 1)
      BY <2>3
    <3>2. Good(m - 1)
      <4> HIDE DEF Good
      <4> QED
        BY <2>1, <3>1
    <3>3. f[m] = Enqueue(f[m - 1], items[m], Cap) /\ items[m] \in T /\ items[m].id \notin 0..n
      BY <1>2, <3>1
    <3>4. Enqueue(f[m - 1], items[m], Cap) \in Seq(T)
      BY <3>2, <3>3, EnqueueIds
    <3>5. Thinned(f[m - 1], Enqueue(f[m - 1], items[m], Cap), n)
      BY <3>2, <3>3, ThinnedEnqueue
    <3>6. Thinned(q, f[m], n)
      BY <3>2, <3>3, <3>5, ThinnedTwice
    <3>7. Good(m)
      BY <3>3, <3>4, <3>6
    <3> HIDE DEF Good
    <3> QED
      BY <3>7
  <2> QED
    BY <2>2, <2>3
<1>4. Good(Len(items))
  <2>1. Len(items) \in 0..Len(items)
    OBVIOUS
  <2> HIDE DEF Good
  <2> QED
    BY <1>3, <2>1
<1> QED
  BY <1>1, <1>4

LEMMA ThinnedJump ==
    ASSUME NEW T, NEW q \in Seq(T), NEW n
    PROVE  Thinned(q, JumpToDecision(q), n)
<1> DEFINE k == DecisionAt(q)
           r == JumpToDecision(q)
<1>1. k \in 1..(Len(q) + 1)
  <2> DEFINE places == {i \in DOMAIN q : q[i].decision}
  <2>1. k = IF HasDecision(q) THEN Min(places) ELSE Len(q) + 1
    BY DEF DecisionAt, Positions
  <2>2. places \subseteq Nat /\ places \subseteq 1..Len(q) /\ (HasDecision(q) => places # {})
    BY DEF HasDecision
  <2>3. Len(q) \in Nat
    OBVIOUS
  <2> HIDE DEF places, k
  <2>4. CASE HasDecision(q)
    <3>1. Min(places) \in 1..Len(q)
      BY <2>2, <2>4, MinIsLeast
    <3> QED
      BY <2>1, <2>3, <2>4, <3>1
  <2> QED
    BY <2>1, <2>3, <2>4
<1>2. r = SubSeq(q, k, Len(q))
  BY DEF JumpToDecision
<1> HIDE DEF k, r
<1>3. /\ r \in Seq(T) /\ Len(r) = Len(q) - k + 1
      /\ \A i \in 1..Len(r) : r[i] = q[i + k - 1]
  BY <1>1, <1>2
<1>4. \A i \in DOMAIN r : i + k - 1 \in DOMAIN q /\ r[i] = q[i + k - 1]
  BY <1>1, <1>3
<1>5. \A i, j \in DOMAIN r : i < j => i + k - 1 < j + k - 1
  BY <1>1, <1>3
<1> QED
  BY <1>4, <1>5 DEF Thinned, r

LEMMA ThinnedClaim ==
    ASSUME NEW q \in Seq(ItemSet), NEW n, "JUMP_DECISION" \in Messages
    PROVE  Thinned(q, ClaimHead(q), n)
<1> DEFINE r == ClaimHead(q)
<1>1. CASE q = <<>>
  BY <1>1, ThinnedSelf DEF ClaimHead
<1>2. CASE q # <<>>
  <2>1. r = [q EXCEPT ![1] = [@ EXCEPT !.cue = TRUE]]
    BY <1>2 DEF ClaimHead
  <2>2. 1 \in DOMAIN q /\ DOMAIN r = DOMAIN q /\ q[1] \in ItemSet
    BY <1>2, <2>1
  <2>3. r[1] = [q[1] EXCEPT !.cue = TRUE]
    BY <2>1, <2>2
  <2>4. r[1].id = q[1].id /\ r[1].cue = TRUE
    BY <2>2, <2>3 DEF ItemSet
  <2>5. \A i \in DOMAIN q : i # 1 => r[i] = q[i]
    BY <2>1, <2>2
  <2> HIDE DEF r
  <2>6. \A i \in DOMAIN r : i \in DOMAIN q /\ q[i].id = r[i].id /\ (q[i].cue => r[i].cue)
    BY <2>2, <2>4, <2>5
  <2> QED
    BY <2>6 DEF Thinned, r
<1> QED
  BY <1>1, <1>2

LEMMA ThinnedIds ==
    ASSUME NEW T, NEW q \in Seq(T), NEW ids, NEW n
    PROVE  Thinned(q, RemoveIds(q, ids), n)
<1> DEFINE r == RemoveIds(q, ids)
<1>1. /\ \A i \in DOMAIN r : \E a \in DOMAIN q : r[i] = q[a] /\ q[a].id \notin ids
      /\ \A i, j \in DOMAIN r :
            i < j => \E a, b \in DOMAIN q : a < b /\ r[i] = q[a] /\ r[j] = q[b]
  BY RemoveIdsElements
<1> HIDE DEF r
<1>2. ASSUME NEW i \in DOMAIN r
      PROVE  \E a \in DOMAIN q : q[a].id = r[i].id /\ q[a].cue = r[i].cue
  BY <1>1
<1>3. ASSUME NEW i \in DOMAIN r, NEW j \in DOMAIN r, i < j
      PROVE  \E a, b \in DOMAIN q : a < b /\ q[a].id = r[i].id /\ q[b].id = r[j].id
  <2>1. PICK a \in DOMAIN q, b \in DOMAIN q : a < b /\ r[i] = q[a] /\ r[j] = q[b]
    BY <1>1, <1>3
  <2> QED
    BY <2>1
<1> QED
  BY <1>2, <1>3 DEF Thinned, r

-----------------------------------------------------------------------------
(* The same of all queues, which a handler may change one after the other.   *)

Thin(q, r, n) ==
    /\ r \in [Session -> Seq(ItemSet)]
    /\ \A s \in Session : Thinned(q[s], r[s], n)

LEMMA ThinSelf ==
    ASSUME NEW q \in [Session -> Seq(ItemSet)], NEW n
    PROVE  Thin(q, q, n)
  BY ThinnedSelf DEF Thin

LEMMA ThinAt ==
    ASSUME NEW q, NEW r, NEW n, NEW s, NEW t, Thin(q, r, n),
           s \in Session => t \in Seq(ItemSet) /\ Thinned(r[s], t, n)
    PROVE  Thin(q, [r EXCEPT ![s] = t], n)
<1> DEFINE p == [r EXCEPT ![s] = t]
<1>1. r \in [Session -> Seq(ItemSet)] /\ \A u \in Session : Thinned(q[u], r[u], n)
  BY DEF Thin
<1>2. /\ p \in [Session -> Seq(ItemSet)]
      /\ \A u \in Session : p[u] = IF u = s THEN t ELSE r[u]
  BY <1>1
<1> HIDE DEF p
<1>3. ASSUME NEW u \in Session PROVE Thinned(q[u], p[u], n)
  <2>1. CASE u = s
    BY <1>1, <1>2, <2>1, ThinnedTwice
  <2>2. CASE u # s
    BY <1>1, <1>2, <2>2
  <2> QED
    BY <2>1, <2>2
<1> QED
  BY <1>2, <1>3 DEF Thin, p

LEMMA ThinFront ==
    ASSUME NEW q, NEW r, NEW n, NEW s, NEW it \in ItemSet, Thin(q, r, n), it.id \notin 0..n
    PROVE  Thin(q, [r EXCEPT ![s] = EnqueueFront(@, it)], n)
<1>1. s \in Session => r[s] \in Seq(ItemSet)
  BY DEF Thin
<1>2. s \in Session => EnqueueFront(r[s], it) \in Seq(ItemSet) /\ Thinned(r[s], EnqueueFront(r[s], it), n)
  BY <1>1, EnqueueFrontIds, ThinnedFront
<1> QED
  BY <1>2, ThinAt

LEMMA ThinBack ==
    ASSUME NEW q, NEW r, NEW n, NEW s, NEW it \in ItemSet, Thin(q, r, n), it.id \notin 0..n, NEW cap
    PROVE  Thin(q, [r EXCEPT ![s] = Enqueue(@, it, cap)], n)
<1>1. s \in Session => r[s] \in Seq(ItemSet)
  BY DEF Thin
<1>2. s \in Session => Enqueue(r[s], it, cap) \in Seq(ItemSet) /\ Thinned(r[s], Enqueue(r[s], it, cap), n)
  BY <1>1, EnqueueIds, ThinnedEnqueue
<1> QED
  BY <1>2, ThinAt

\* A queue that holds only what is new.
New(r, n) == \A i \in DOMAIN r : r[i].id \notin 0..n

LEMMA ThinnedNew ==
    ASSUME NEW q, NEW r, NEW n, New(r, n)
    PROVE  Thinned(q, r, n)
  BY DEF New, Thinned

LEMMA ThinNew ==
    ASSUME NEW q, NEW r, NEW n, NEW s, NEW t \in Seq(ItemSet), Thin(q, r, n), New(t, n)
    PROVE  Thin(q, [r EXCEPT ![s] = t], n)
  BY ThinnedNew, ThinAt

LEMMA EmptyIsNew == \A n : <<>> \in Seq(ItemSet) /\ New(<<>>, n)
  BY DEF New

LEMMA OneIsNew ==
    ASSUME NEW it \in ItemSet, NEW n, it.id \notin 0..n
    PROVE  <<it>> \in Seq(ItemSet) /\ New(<<it>>, n)
<1>1. DOMAIN <<it>> = {1} /\ <<it>>[1] = it
  OBVIOUS
<1> QED
  BY <1>1 DEF New

\* An id given out now is none of those given out.
LEMMA NextIds ==
    ASSUME QueueInv
    PROVE  /\ nextId \in Nat
           /\ \A k \in Nat : k > 0 => nextId + k \in Nat /\ nextId + k \notin 0..nextId
           /\ nextId + 1 \in Nat /\ nextId + 1 \notin 0..nextId
           /\ nextId + 2 \in Nat /\ nextId + 2 \notin 0..nextId
           /\ Thin(queue, queue, nextId)
<1>1. nextId \in Nat /\ queue \in [Session -> Seq(ItemSet)]
  BY DEF QueueInv, Queues, Sound
<1> QED
  BY <1>1, ThinSelf

\* The words of the daemon under such an id.
LEMMA NewWords ==
    ASSUME NEW n, NEW k \in Nat, k \notin 0..n, NEW s \in Session
    PROVE  /\ Cue(k, s) \in ItemSet /\ Cue(k, s).id = k /\ Cue(k, s).session = s
           /\ Item(k, s, FALSE, FALSE, FALSE) \in ItemSet /\ Item(k, s, FALSE, FALSE, FALSE).id = k
  BY DEF Cue, Item, ItemSet

-----------------------------------------------------------------------------
(* What a step does to the queues.                                           *)

\* The old items stay in order, and a stream that is started again holds none.
Orderly ==
    /\ Thin(queue, queue', nextId)
    /\ \A s \in Session : stopped[s] /\ ~ stopped'[s] => New(queue'[s], nextId)

\* A handler that starts no stream.
LEMMA MutedOrderly ==
    ASSUME Thin(queue, queue', nextId), \A s \in Session : stopped[s] => stopped'[s]
    PROVE  Orderly
  BY DEF Orderly

LEMMA OnceOpenMutes ==
    ASSUME NEW S, stopped' = StoppedOnceOpen(S)
    PROVE  \A s \in Session : stopped[s] => stopped'[s]
  BY DEF StoppedOnceOpen

LEMMA AnswerOrderly ==
    ASSUME QueueInv, NEW dest \in Session \union {None}, NEW S, AnswerOn(dest, S)
    PROVE  Orderly
<1> DEFINE w == NewCue(dest)
<1>1. dest \in Session /\ stopped' = StoppedOnceOpen(S \union {dest}) /\ EnqueueFirst(queue, w)
  BY DEF AnswerOn
<1>2. w \in ItemSet /\ w.id = nextId + 1 /\ w.session = dest
  BY <1>1, NextIds, NewWords DEF NewCue
<1> HIDE DEF w
<1>3. queue' = [queue EXCEPT ![dest] = EnqueueFront(@, w)]
  BY <1>1, <1>2 DEF EnqueueFirst
<1>4. Thin(queue, queue', nextId)
  BY <1>2, <1>3, NextIds, ThinFront
<1> QED
  BY <1>1, <1>4, OnceOpenMutes, MutedOrderly

LEMMA PressOrderly ==
    ASSUME QueueInv, FlagInv, Press
    PROVE  Orderly
<1>1. /\ nextId \in Nat
      /\ nextId + 1 \in Nat /\ nextId + 1 \notin 0..nextId
      /\ nextId + 2 \in Nat /\ nextId + 2 \notin 0..nextId
      /\ Thin(queue, queue, nextId)
  BY NextIds
<1>2. \A s \in Session : /\ NewCue(s) \in ItemSet /\ NewCue(s).id = nextId + 1 /\ NewCue(s).session = s
                         /\ Cue(nextId + 2, s) \in ItemSet /\ Cue(nextId + 2, s).id = nextId + 2 /\ Cue(nextId + 2, s).session = s
                         /\ Item(nextId + 2, s, FALSE, FALSE, FALSE) \in ItemSet
                         /\ Item(nextId + 2, s, FALSE, FALSE, FALSE).id = nextId + 2
  BY <1>1, NewWords DEF NewCue
<1>3. RosterTypes /\ queue \in [Session -> Seq(ItemSet)] /\ stopped \in [Session -> BOOLEAN]
  BY DEF QueueInv, Queues, Sound, FlagInv, FlagTypes
<1>4. Workspace \in Session \union {None} /\ StartTarget \in Session \union {None}
      /\ RepeatTarget \in Session \union {None} /\ PileTarget \in Session \union {None}
      /\ Preferred(Workspace, spk) \in Session \union {None}
      /\ Preferred(spk, Workspace) \in Session \union {None}
      /\ spk \in Session \union {None} /\ fg \in Session \union {None}
  BY <1>3, Targets DEF RosterTypes
<1>5. CASE Skip \/ OsFocus
  <2>1. queue' = queue /\ stopped' = stopped
    BY <1>5 DEF Skip, OsFocus, streamVars, flagVars
  <2> QED
    BY <1>1, <2>1, MutedOrderly
<1>6. CASE Stop
  <2>1. stopped' = stopped /\ (queue' = [queue EXCEPT ![fg] = <<>>] \/ queue' = queue)
    BY <1>6 DEF Stop, Emptied, flagVars
  <2>2. Thin(queue, [queue EXCEPT ![fg] = <<>>], nextId)
    BY <1>1, EmptyIsNew, ThinNew
  <2> QED
    BY <1>1, <2>1, <2>2, MutedOrderly
<1>7. CASE SkipPile
  <2> DEFINE t == PileTarget
             d == IF spk \notin {None, t} THEN spk ELSE t
             w == NewCue(d)
  <2>1. t \in Session /\ d \in Session
    BY <1>4, <1>7 DEF SkipPile
  <2>2. stopped' = StoppedOnceOpen(PilesRead \union {d}) /\ EnqueueFirst(Emptied(t), w)
    BY <1>7 DEF SkipPile
  <2>3. w \in ItemSet /\ w.id = nextId + 1 /\ w.session = d
    BY <1>2, <2>1
  <2> HIDE DEF w, d, t
  <2>4. queue' = [[queue EXCEPT ![t] = <<>>] EXCEPT ![d] = EnqueueFront(@, w)]
    BY <2>2, <2>3 DEF EnqueueFirst, Emptied
  <2>5. Thin(queue, [queue EXCEPT ![t] = <<>>], nextId)
    BY <1>1, EmptyIsNew, ThinNew
  <2>6. Thin(queue, queue', nextId)
    BY <1>1, <2>3, <2>4, <2>5, ThinFront
  <2> QED
    BY <2>2, <2>6, OnceOpenMutes, MutedOrderly
<1>8. CASE StartSession
  <2> DEFINE s == StartTarget
             w == NewCue(s)
             a == Item(nextId + 2, s, FALSE, FALSE, FALSE)
  <2>1. s \in Session
    BY <1>4, <1>8 DEF StartSession, StoppedNow
  <2>2. /\ stopped' = [stopped EXCEPT ![s] = FALSE]
        /\ \/ queue' = [queue EXCEPT ![s] = Enqueue(<<w>>, a, Cap)]
           \/ EnqueueFirst(Emptied(s), w)
    BY <1>8 DEF StartSession
  <2>3. /\ w \in ItemSet /\ w.id = nextId + 1 /\ w.session = s
        /\ a \in ItemSet /\ a.id = nextId + 2
    BY <1>2, <2>1
  <2> HIDE DEF w, s, a
  <2>4. <<w>> \in Seq(ItemSet) /\ New(<<w>>, nextId)
    BY <1>1, <2>3, OneIsNew
  <2>5. \E t \in Seq(ItemSet) : queue' = [queue EXCEPT ![s] = t] /\ New(t, nextId)
    <3>1. CASE queue' = [queue EXCEPT ![s] = Enqueue(<<w>>, a, Cap)]
      <4> DEFINE t == Enqueue(<<w>>, a, Cap)
      <4>1. t \in Seq(ItemSet) /\ Ids(t) \subseteq Ids(<<w>>) \union {a.id}
        BY <2>3, <2>4, EnqueueIds
      <4>2. Ids(<<w>>) = {w.id}
        BY DEF Ids
      <4>3. New(t, nextId)
        <5> HIDE DEF t
        <5> QED
          BY <1>1, <2>3, <4>1, <4>2 DEF New, Ids
      <4> HIDE DEF t
      <4> QED
        BY <3>1, <4>1, <4>3 DEF t
    <3>2. CASE EnqueueFirst(Emptied(s), w)
      <4>1. queue' = [[queue EXCEPT ![s] = <<>>] EXCEPT ![s] = EnqueueFront(@, w)]
        BY <2>3, <3>2 DEF EnqueueFirst, Emptied
      <4>2. [queue EXCEPT ![s] = <<>>][s] = <<>>
        BY <1>3, <2>1
      <4>3. EnqueueFront(<<>>, w) = <<w>>
        BY DEF EnqueueFront
      <4>4. queue' = [queue EXCEPT ![s] = <<w>>]
        BY <1>3, <2>1, <4>1, <4>2, <4>3
      <4> QED
        BY <2>4, <4>4
    <3> QED
      BY <2>2, <3>1, <3>2
  <2>6. PICK t \in Seq(ItemSet) : queue' = [queue EXCEPT ![s] = t] /\ New(t, nextId)
    BY <2>5
  <2>7. Thin(queue, queue', nextId)
    BY <1>1, <2>6, ThinNew
  <2>8. queue'[s] = t
    BY <1>3, <2>1, <2>6
  <2>9. \A u \in Session : u # s => stopped'[u] = stopped[u]
    BY <1>3, <2>2
  <2> QED
    BY <2>6, <2>7, <2>8, <2>9 DEF Orderly
<1>9. CASE StopSession
  <2> DEFINE w == NewCue(spk)
  <2>1. spk \in Session /\ stopped' = [stopped EXCEPT ![spk] = TRUE] /\ EnqueueWord(w)
    BY <1>4, <1>9 DEF StopSession
  <2>2. w \in ItemSet /\ w.id = nextId + 1 /\ w.session = spk
    BY <1>2, <2>1
  <2> HIDE DEF w
  <2>3. queue' = [queue EXCEPT ![spk] = Enqueue(@, w, Cap)]
    BY <2>1, <2>2 DEF EnqueueWord
  <2>4. Thin(queue, queue', nextId)
    BY <1>1, <2>2, <2>3, ThinBack
  <2>5. \A s \in Session : stopped[s] => stopped'[s]
    BY <1>3, <2>1
  <2> QED
    BY <2>4, <2>5, MutedOrderly
<1>10. CASE StopAll
  <2>1. \A s \in Session : stopped[s] => stopped'[s]
    BY <1>10 DEF StopAll, FlagInv, Fresh
  <2>2. Thin(queue, queue', nextId)
    <3>1. CASE spk = None
      BY <1>1, <1>10, <3>1 DEF StopAll
    <3>2. CASE spk # None
      <4> DEFINE w == NewCue(spk)
      <4>1. spk \in Session /\ EnqueueWord(w)
        BY <1>4, <1>10, <3>2 DEF StopAll
      <4>2. w \in ItemSet /\ w.id = nextId + 1 /\ w.session = spk
        BY <1>2, <4>1
      <4> HIDE DEF w
      <4>3. queue' = [queue EXCEPT ![spk] = Enqueue(@, w, Cap)]
        BY <4>1, <4>2 DEF EnqueueWord
      <4> QED
        BY <1>1, <4>2, <4>3, ThinBack
    <3> QED
      BY <3>1, <3>2
  <2> QED
    BY <2>1, <2>2, MutedOrderly
<1>11. CASE DecisionClosed
  <2> DEFINE d == Preferred(spk, Workspace)
             w == NewCue(d)
  <2>1. d \in Session
    BY <1>4, <1>11 DEF DecisionClosed, DecisionQueued, Preferred
  <2>2. stopped' = StoppedOnceOpen({d}) /\ EnqueueWord(w)
    BY <1>11 DEF DecisionClosed
  <2>3. w \in ItemSet /\ w.id = nextId + 1 /\ w.session = d
    BY <1>2, <2>1
  <2> HIDE DEF w, d
  <2>4. queue' = [queue EXCEPT ![d] = Enqueue(@, w, Cap)]
    BY <2>2, <2>3 DEF EnqueueWord
  <2>5. Thin(queue, queue', nextId)
    BY <1>1, <2>3, <2>4, ThinBack
  <2> QED
    BY <2>2, <2>5, OnceOpenMutes, MutedOrderly
<1>12. CASE JumpDecision
  <2> DEFINE s == Workspace
             j == JumpToDecision(queue[s])
             r == IF stopped[s] THEN ClaimHead(j) ELSE j
             p == [queue EXCEPT ![s] = r]
             w == NewCue(s)
  <2>1. s \in Session
    BY <1>4, <1>12 DEF JumpDecision, DecisionQueued
  <2>2. stopped' = stopped /\ (EnqueueFirst(p, w) \/ queue' = p)
    BY <1>12 DEF JumpDecision, flagVars
  <2>3. queue[s] \in Seq(ItemSet)
    BY <1>3, <2>1
  <2>4. j \in Seq(ItemSet) /\ Thinned(queue[s], j, nextId)
    BY <2>3, JumpIds, ThinnedJump
  <2> HIDE DEF j
  <2>5. \A it \in ItemSet : [it EXCEPT !.cue = TRUE] \in ItemSet
    BY DEF ItemSet
  <2>6. ClaimHead(j) \in Seq(ItemSet) /\ Thinned(j, ClaimHead(j), nextId)
    <3>1. "JUMP_DECISION" \in Messages
      BY <1>12 DEF JumpDecision, Receive
    <3> QED
      BY <2>4, <2>5, <3>1, ClaimHeadIds, ThinnedClaim
  <2>7. Thinned(queue[s], ClaimHead(j), nextId)
    BY <2>4, <2>6, ThinnedTwice
  <2>8. r \in Seq(ItemSet) /\ Thinned(queue[s], r, nextId)
    BY <2>4, <2>6, <2>7
  <2>9. w \in ItemSet /\ w.id = nextId + 1 /\ w.session = s
    BY <1>2, <2>1
  <2> HIDE DEF r, w, s
  <2>10. Thin(queue, p, nextId)
    BY <1>1, <2>8, ThinAt
  <2> HIDE DEF p
  <2>11. queue' = p \/ queue' = [p EXCEPT ![s] = EnqueueFront(@, w)]
    BY <2>2, <2>9 DEF EnqueueFirst
  <2>12. Thin(queue, queue', nextId)
    BY <1>1, <2>9, <2>10, <2>11, ThinFront
  <2> QED
    BY <2>2, <2>12, MutedOrderly
<1>13. CASE RepeatLast
  <2> DEFINE t == RepeatTarget
             c == Recopied
             p == [queue EXCEPT ![current.session] = EnqueueFront(@, c)]
             back == IF current = None THEN queue ELSE p
             n == IF current = None THEN 1 ELSE 2
             w == Cue(nextId + n, t)
  <2>1. t \in Session /\ \E S : stopped' = StoppedOnceOpen(S)
    BY <1>4, <1>13 DEF RepeatLast
  <2>2. EnqueueFirst(back, w)
    BY <1>13 DEF RepeatLast
  <2>3. w \in ItemSet /\ w.id \in {nextId + 1, nextId + 2} /\ w.session = t
    BY <1>1, <2>1, NewWords
  <2>4. current # None => c \in ItemSet /\ c.id = nextId + 1
    <3>1. current # None => current \in ItemSet
      BY DEF QueueInv, Hands, Queues, Sound
    <3> QED
      BY <1>1, <3>1 DEF Recopied, ItemSet
  <2> HIDE DEF w, c, t
  <2>5. current # None => Thin(queue, p, nextId)
    BY <1>1, <2>4, ThinFront
  <2> HIDE DEF p
  <2>6. Thin(queue, back, nextId)
    BY <1>1, <2>5
  <2> HIDE DEF back
  <2>7. queue' = [back EXCEPT ![t] = EnqueueFront(@, w)]
    BY <2>2, <2>3 DEF EnqueueFirst
  <2>8. Thin(queue, queue', nextId)
    BY <1>1, <2>3, <2>6, <2>7, ThinFront
  <2> QED
    BY <2>1, <2>8, OnceOpenMutes, MutedOrderly
<1>14. CASE JumpWaiting
  <2>1. PICK s \in Session : EnqueueFirst(queue, NewCue(s))
    BY <1>3, <1>14 DEF JumpWaiting, Asking, WaitingSessions, RosterTypes
  <2> DEFINE w == NewCue(s)
  <2>2. w \in ItemSet /\ w.id = nextId + 1 /\ w.session = s /\ EnqueueFirst(queue, w)
    BY <1>2, <2>1
  <2> HIDE DEF w
  <2>3. queue' = [queue EXCEPT ![s] = EnqueueFront(@, w)]
    BY <2>2 DEF EnqueueFirst
  <2>4. Thin(queue, queue', nextId)
    BY <1>1, <2>2, <2>3, ThinFront
  <2>5. stopped' = stopped
    BY <1>14 DEF JumpWaiting, flagVars
  <2> QED
    BY <2>4, <2>5, MutedOrderly
<1>15. CASE NothingToSkip \/ NoDecisionHere \/ NothingToRepeat \/ NobodyWaiting
  BY <1>4, <1>15, AnswerOrderly DEF NothingToSkip, NoDecisionHere, NothingToRepeat, NobodyWaiting
<1> QED
  BY <1>5, <1>6, <1>7, <1>8, <1>9, <1>10, <1>11, <1>12, <1>13, <1>14, <1>15 DEF Press

LEMMA ReadoutOrderly ==
    ASSUME QueueInv, NEW s \in Session, NEW entries \in Seq(Nat), NEW kinds,
           EnqueueReadout(s, entries, kinds)
    PROVE  Thin(queue, queue', nextId)
<1> DEFINE items == Readout(s, entries, kinds)
           r == EnqueueAll(queue[s], items)
<1>1. nextId \in Nat /\ Thin(queue, queue, nextId) /\ queue \in [Session -> Seq(ItemSet)]
  BY NextIds DEF QueueInv, Queues, Sound
<1>2. queue' = [queue EXCEPT ![s] = r]
  BY DEF EnqueueReadout
<1>3. /\ items \in Seq(Of(s)) /\ DOMAIN items = DOMAIN entries
      /\ \A i \in DOMAIN entries : items[i].id = nextId + i
  BY <1>1, ReadoutItems
<1>4. items \in Seq(ItemSet)
  <2>1. Of(s) \subseteq ItemSet
    BY DEF Of
  <2> HIDE DEF items
  <2> QED
    BY <1>3, <2>1
<1> HIDE DEF items
<1>5. \A i \in 1..Len(items) : items[i].id \notin 0..nextId
  <2>1. DOMAIN items = 1..Len(items) /\ DOMAIN entries \subseteq Nat \ {0}
    BY <1>4
  <2> QED
    BY <1>1, <1>3, <2>1
<1>6. queue[s] \in Seq(ItemSet)
  BY <1>1
<1>7. r \in Seq(ItemSet) /\ Thinned(queue[s], r, nextId)
  BY <1>4, <1>5, <1>6, EnqueueAllIds, ThinnedAll
<1> HIDE DEF r
<1> QED
  BY <1>1, <1>2, <1>7, ThinAt

LEMMA ReportOrderly ==
    ASSUME QueueInv, NumInv, FlagInv, NEW s \in Session, Report(s)
    PROVE  Orderly
<1>1. /\ nextId \in Nat /\ Thin(queue, queue, nextId)
      /\ \A k \in Nat : k > 0 => nextId + k \in Nat /\ nextId + k \notin 0..nextId
      /\ nextId + 1 \in Nat /\ nextId + 1 \notin 0..nextId
      /\ nextId + 2 \in Nat /\ nextId + 2 \notin 0..nextId
  BY NextIds
<1>2. queue \in [Session -> Seq(ItemSet)] /\ stopped \in [Session -> BOOLEAN]
  BY DEF QueueInv, Queues, Sound, FlagInv, FlagTypes
<1>3. CASE Prose(s) \/ ProsePartial(s) \/ Tool(s) \/ Decision(s) \/ TurnDone(s)
  <2>1. stopped' = StoppedOnceOpen({s})
    BY <1>3 DEF Prose, ProsePartial, Tool, Decision, TurnDone, Announce
  <2>2. buffer[s] \in Seq(Nat) /\ Append(buffer[s], newest[s] + 1) \in Seq(Nat)
    BY DEF NumInv
  <2>3. \/ UNCHANGED queue
        \/ \E entries \in Seq(Nat) : \E kinds : EnqueueReadout(s, entries, kinds)
    BY <1>3, <2>2 DEF Prose, ProsePartial, Tool, Decision, TurnDone, Announce
  <2>4. Thin(queue, queue', nextId)
    BY <1>1, <2>3, ReadoutOrderly
  <2> QED
    BY <2>1, <2>4, OnceOpenMutes, MutedOrderly
<1>4. CASE Flush(s)
  <2> DEFINE w == Cue(nextId + 1, s)
  <2>1. stopped' = StoppedOnceOpen({s})
    BY <1>4 DEF Flush
  <2>2. w \in ItemSet /\ w.id = nextId + 1
    BY <1>1, NewWords
  <2>3. queue' = [queue EXCEPT ![s] = <<w>>] \/ queue' = [queue EXCEPT ![s] = <<>>]
    BY <1>4 DEF Flush
  <2> HIDE DEF w
  <2>4. <<w>> \in Seq(ItemSet) /\ New(<<w>>, nextId)
    BY <1>1, <2>2, OneIsNew
  <2>5. Thin(queue, [queue EXCEPT ![s] = <<w>>], nextId)
    BY <1>1, <2>4, ThinNew
  <2>6. Thin(queue, [queue EXCEPT ![s] = <<>>], nextId)
    BY <1>1, EmptyIsNew, ThinNew
  <2>7. Thin(queue, queue', nextId)
    BY <2>3, <2>5, <2>6
  <2> QED
    BY <2>1, <2>7, OnceOpenMutes, MutedOrderly
<1>5. CASE SetForeground(s) \/ TerminalCloses(s)
  <2>1. queue' = queue /\ stopped' = stopped
    BY <1>5 DEF SetForeground, TerminalCloses, streamVars, flagVars
  <2> QED
    BY <1>1, <2>1, MutedOrderly
<1>6. CASE SessionStart(s)
  <2> DEFINE claims == ~ StoppedNow(s) /\ s \notin announced
             resumes == armed[s] \/ LiftsHold(s)
             a == Item(nextId + 1, s, FALSE, FALSE, FALSE)
             b == IF claims THEN Enqueue(queue[s], a, Cap) ELSE queue[s]
             n == nextId + (IF claims THEN 1 ELSE 0)
             w == Cue(n + 1, s)
             r == IF resumes THEN EnqueueFront(b, w) ELSE b
  <2>1. queue' = [queue EXCEPT ![s] = r] /\ stopped' = StoppedOnceOpen({s})
    BY <1>6 DEF SessionStart
  <2> HIDE DEF claims, resumes
  <2>2. n + 1 \in Nat /\ n + 1 \notin 0..nextId
    BY <1>1
  <2> HIDE DEF n
  <2>3. /\ a \in ItemSet /\ a.id \notin 0..nextId
        /\ w \in ItemSet /\ w.id \notin 0..nextId
    BY <1>1, <2>2, NewWords
  <2> HIDE DEF a, w
  <2>4. queue[s] \in Seq(ItemSet)
    BY <1>2
  <2>5. b \in Seq(ItemSet) /\ Thinned(queue[s], b, nextId)
    BY <2>3, <2>4, EnqueueIds, ThinnedEnqueue, ThinnedSelf
  <2> HIDE DEF b
  <2>6. EnqueueFront(b, w) \in Seq(ItemSet) /\ Thinned(b, EnqueueFront(b, w), nextId)
    BY <2>3, <2>5, EnqueueFrontIds, ThinnedFront
  <2>7. Thinned(queue[s], EnqueueFront(b, w), nextId)
    BY <2>5, <2>6, ThinnedTwice
  <2>8. r \in Seq(ItemSet) /\ Thinned(queue[s], r, nextId)
    BY <2>5, <2>6, <2>7
  <2> HIDE DEF r
  <2>9. Thin(queue, queue', nextId)
    BY <1>1, <2>1, <2>8, ThinAt
  <2> QED
    BY <2>1, <2>9, OnceOpenMutes, MutedOrderly
<1>7. CASE SessionEnd(s)
  <2>1. queue' = [queue EXCEPT ![s] = <<>>] /\ stopped' = [stopped EXCEPT ![s] = FALSE]
    BY <1>7 DEF SessionEnd
  <2>2. Thin(queue, queue', nextId)
    BY <1>1, <2>1, EmptyIsNew, ThinNew
  <2>3. queue'[s] = <<>> /\ \A u \in Session : u # s => stopped'[u] = stopped[u]
    BY <1>2, <2>1
  <2> QED
    BY <2>2, <2>3, EmptyIsNew DEF Orderly
<1> QED
  BY <1>3, <1>4, <1>5, <1>6, <1>7 DEF Report

\* The item in hand goes back to the front of its stream, which is muted.
ReturnsIt ==
    /\ hand # None
    /\ queue' = [queue EXCEPT ![hand.session] = EnqueueFront(@, hand)]
    /\ hand' = None
    /\ \A s \in Session : stopped[s] => stopped'[s]
    /\ stopped'[hand.session]

\* It is new, or was the first of a queue or its first cue.
Takes(s, k) ==
    /\ hand' = queue[s][k]
    /\ \A i \in DOMAIN queue[s] : i < k => ~ queue[s][i].cue

HandOrderly ==
    \/ hand' \in {None, hand}
    \/ hand' # None /\ hand'.id \notin 0..nextId
    \/ \E s \in Session : \E k \in DOMAIN queue[s] : Takes(s, k)

LEMMA LoopOrderly ==
    ASSUME QueueInv, FlagInv, LoopStep
    PROVE  (Orderly \/ ReturnsIt) /\ HandOrderly
<1>1. /\ nextId \in Nat /\ Thin(queue, queue, nextId)
      /\ nextId + 1 \in Nat /\ nextId + 1 \notin 0..nextId
  BY NextIds
<1>2. queue \in [Session -> Seq(ItemSet)] /\ stopped \in [Session -> BOOLEAN] /\ Queues /\ Hands /\ RosterTypes
  BY DEF QueueInv, Queues, Sound, FlagInv, FlagTypes
<1>3. CASE PopHeldCue
  <2> DEFINE s == OldestHeldCue
             k == CueAt(queue[s])
  <2>1. s \in Session /\ HasCue(queue[s])
    BY <1>2, <1>3, OldestIsHolding DEF PopHeldCue, HoldingCue
  <2>2. /\ hand' = queue[s][k] /\ stopped' = stopped
        /\ queue' = [queue EXCEPT ![s] = RemoveAt(@, k)]
    BY <1>3 DEF PopHeldCue, Claim, PopControlCue, flagVars
  <2> HIDE DEF s
  <2>3. queue[s] \in Seq(ItemSet)
    BY <1>2, <2>1
  <2>4. k \in 1..Len(queue[s]) /\ k \in DOMAIN queue[s]
    BY <2>1, <2>3, CuePlace
  <2>5. \A i \in DOMAIN queue[s] : i < k => ~ queue[s][i].cue
    <3> DEFINE places == {i \in DOMAIN queue[s] : queue[s][i].cue}
    <3>1. k = Min(places)
      BY DEF CueAt, Positions
    <3>2. places \subseteq Nat /\ places # {} /\ DOMAIN queue[s] \subseteq Nat
      BY <2>1, <2>3 DEF HasCue
    <3>3. \A i \in places : k <= i
      <4> HIDE DEF places
      <4> QED
        BY <3>1, <3>2, MinIsLeast
    <3> SUFFICES ASSUME NEW i \in DOMAIN queue[s], i < k, queue[s][i].cue PROVE FALSE
      OBVIOUS
    <3>4. k <= i /\ i \in Nat /\ k \in Nat
      BY <2>4, <3>2, <3>3
    <3> QED
      BY <3>4
  <2> HIDE DEF k
  <2>6. RemoveAt(queue[s], k) \in Seq(ItemSet) /\ Thinned(queue[s], RemoveAt(queue[s], k), nextId)
    BY <2>3, <2>4, RemoveAtElements, ThinnedRemoved
  <2>7. Thin(queue, queue', nextId)
    BY <1>1, <2>2, <2>6, ThinAt
  <2>8. Orderly
    BY <2>2, <2>7, MutedOrderly
  <2>9. Takes(s, k)
    BY <2>2, <2>5 DEF Takes
  <2> QED
    BY <2>1, <2>4, <2>8, <2>9 DEF HandOrderly
<1>4. CASE NoHeldCue \/ CheckStopped \/ NothingToSay \/ SpeakCompletes \/ SpeakCut \/ SpeakRaises \/ NoteSpoken
  <2>1. queue' = queue /\ stopped' = stopped /\ hand' \in {None, hand}
    BY <1>4 DEF NoHeldCue, CheckStopped, NothingToSay, SpeakCompletes, SpeakCut, SpeakRaises, NoteSpoken,
         Claim, EndTurn, streamVars, flagVars
  <2> QED
    BY <1>1, <2>1, MutedOrderly DEF HandOrderly
<1>5. ASSUME NEW s \in Session, queue[s] # <<>>, queue' = [queue EXCEPT ![s] = Tail(@)],
             hand' = Head(queue[s]), stopped' = stopped
      PROVE  Orderly /\ HandOrderly
  <2>1. queue[s] \in Seq(ItemSet)
    BY <1>2
  <2>2. Tail(queue[s]) \in Seq(ItemSet) /\ Thinned(queue[s], Tail(queue[s]), nextId)
    BY <1>5, <2>1, TailIds, ThinnedTail
  <2>3. Thin(queue, queue', nextId)
    BY <1>1, <1>5, <2>2, ThinAt
  <2>4. 1 \in DOMAIN queue[s] /\ Head(queue[s]) = queue[s][1] /\ DOMAIN queue[s] = 1..Len(queue[s])
    BY <1>5, <2>1
  <2>5. Takes(s, 1)
    BY <1>5, <2>4 DEF Takes
  <2> QED
    BY <1>5, <2>3, <2>4, <2>5, MutedOrderly DEF HandOrderly
<1>6. CASE PopOwn
  <2>1. HeldVoice \in Session /\ queue[HeldVoice] # <<>>
    BY <1>2, <1>6 DEF PopOwn, OwnQueueEmpty, HeldVoice, RosterTypes
  <2>2. /\ hand' = Head(queue[HeldVoice]) /\ stopped' = stopped
        /\ queue' = [queue EXCEPT ![HeldVoice] = Tail(@)]
    BY <1>6 DEF PopOwn, Claim, flagVars
  <2> QED
    BY <1>5, <2>1, <2>2
<1>7. CASE Adopt
  <2> DEFINE s == LongestWaiting
  <2>1. s \in Session /\ queue[s] # <<>>
    BY <1>2, <1>7, LongestIsWaiting DEF Adopt, Waiting, RosterTypes
  <2>2. stopped' = stopped
    BY <1>7 DEF Adopt, flagVars
  <2>3. CASE markResume
    <3>1. hand' = Cue(nextId + 1, s) /\ queue' = queue
      BY <1>7, <2>3 DEF Adopt, Claim
    <3>2. Cue(nextId + 1, s) \in ItemSet /\ Cue(nextId + 1, s).id = nextId + 1
      BY <1>1, <2>1, NewWords
    <3>3. hand' # None /\ hand'.id \notin 0..nextId
      BY <1>1, <3>1, <3>2, NoneAssumption
    <3> QED
      BY <1>1, <2>2, <3>1, <3>3, MutedOrderly DEF HandOrderly
  <2>4. CASE ~ markResume
    <3>1. hand' = Head(queue[s]) /\ queue' = [queue EXCEPT ![s] = Tail(@)]
      BY <1>7, <2>4 DEF Adopt, Claim
    <3> HIDE DEF s
    <3> QED
      BY <1>5, <2>1, <2>2, <3>1
  <2> QED
    BY <2>3, <2>4
<1>8. CASE SignalFailure
  <2> DEFINE s == hand.session
             w == Cue(nextId + 1, s)
  <2>1. hand' = hand /\ hand \in ItemSet
    BY <1>2, <1>8 DEF SignalFailure, Hands, Busy
  <2>2. s \in Session
    BY <2>1, ItemSession
  <2>3. \/ UNCHANGED <<queue, stopped>>
        \/ stopped' = StoppedOnceOpen({s}) /\ EnqueueWord(w)
    BY <1>8 DEF SignalFailure, streamVars, flagVars
  <2>4. w \in ItemSet /\ w.id = nextId + 1 /\ w.session = s
    BY <1>1, <2>2, NewWords
  <2> HIDE DEF s, w
  <2>5. \/ UNCHANGED <<queue, stopped>>
        \/ stopped' = StoppedOnceOpen({s}) /\ queue' = [queue EXCEPT ![s] = Enqueue(@, w, Cap)]
    BY <2>3, <2>4 DEF EnqueueWord
  <2>6. Thin(queue, queue', nextId)
    <3>1. Thin(queue, [queue EXCEPT ![s] = Enqueue(@, w, Cap)], nextId)
      BY <1>1, <2>4, ThinBack
    <3> QED
      BY <1>1, <2>5, <3>1
  <2>7. \A u \in Session : stopped[u] => stopped'[u]
    BY <2>5, OnceOpenMutes
  <2> QED
    BY <2>1, <2>6, <2>7, MutedOrderly DEF HandOrderly
<1>9. CASE Requeue
  <2>1. /\ pc = "tail" /\ StoppedNow(hand.session) /\ stopped' = StoppedOnceOpen({hand.session})
        /\ queue' = [queue EXCEPT ![hand.session] = EnqueueFront(@, hand)] /\ hand' = None
    BY <1>9 DEF Requeue, EndTurn
  <2>2. hand # None
    BY <1>2, <2>1, NoneAssumption DEF Hands, Busy
  <2>3. stopped'[hand.session]
    BY <2>1 DEF StoppedNow
  <2>4. ReturnsIt
    BY <2>1, <2>2, <2>3, OnceOpenMutes DEF ReturnsIt
  <2> QED
    BY <2>1, <2>4 DEF HandOrderly
<1>10. CASE TailDone
  <2>1. queue' = queue /\ stopped' = stopped /\ hand' = hand
    BY <1>10 DEF TailDone
  <2> QED
    BY <1>1, <2>1, MutedOrderly DEF HandOrderly
<1> QED
  BY <1>3, <1>4, <1>6, <1>7, <1>8, <1>9, <1>10 DEF LoopStep

LEMMA NextOrderly ==
    ASSUME QueueInv, NumInv, FlagInv, [Next]_vars
    PROVE  (Orderly \/ ReturnsIt) /\ HandOrderly
<1>1. CASE LoopStep
  BY <1>1, LoopOrderly
<1>2. CASE Press
  <2>1. hand' = hand
    BY <1>2 DEF Press, Stop, Skip, SkipPile, NothingToSkip, StartSession, StopSession, StopAll, NoDecisionHere,
       DecisionClosed, JumpDecision, RepeatLast, NothingToRepeat, JumpWaiting, NobodyWaiting, OsFocus, AnswerOn,
       LoopUntouched, loopVars
  <2> QED
    BY <1>2, <2>1, PressOrderly DEF HandOrderly
<1>3. CASE \E s \in Session : Report(s)
  <2>1. hand' = hand
    BY <1>3 DEF Report, Prose, ProsePartial, Tool, Decision, TurnDone, Flush, SetForeground, SessionStart, SessionEnd,
       TerminalCloses, Announce, HostUntouched, loopVars
  <2> QED
    BY <1>3, <2>1, ReportOrderly DEF HandOrderly
<1>4. CASE AudioFault \/ UNCHANGED vars
  <2>1. queue' = queue /\ stopped' = stopped /\ hand' = hand
    BY <1>4 DEF AudioFault, vars, streamVars, flagVars, loopVars
  <2> QED
    BY <2>1, NextIds, MutedOrderly DEF HandOrderly
<1> QED
  BY <1>1, <1>2, <1>3, <1>4 DEF Next

-----------------------------------------------------------------------------
(* Previews                                                                 *)

\* Of the previews, the queues q of the streams that f does not stop hold none
\* but those of X.
Shows(q, f, X) == \A s \in Session : ~ f[s] => Ids(q[s]) \intersect previews \subseteq X

Clean(w, X) == Work(w) /\ Shows(w.queue, w.stopped, X)

Shown == IF chooser = None THEN {} ELSE PreviewIds(chooser)

PreviewInv == previews \subseteq 0..nextId /\ NoStalePreview

LEMMA ShownIs == NoStalePreview <=> Shows(queue, stopped, Shown)
  BY DEF NoStalePreview, Shows, Shown, PreviewIds, Ids

LEMMA CleanBegins ==
    ASSUME BrowseInv, PreviewInv
    PROVE  Clean(Untouched, Shown)
<1>1. Work(Untouched) /\ Untouched.queue = queue /\ Untouched.stopped = stopped
  BY WorkBegins DEF BrowseInv, DaemonInv
<1>2. Shows(queue, stopped, Shown)
  BY ShownIs DEF PreviewInv
<1> QED
  BY <1>1, <1>2 DEF Clean

\* An item under a new id is no preview yet.
LEMMA FreshIsNoPreview ==
    ASSUME PreviewInv, NEW w, Work(w)
    PROVE  w.id \in Nat /\ w.id + 1 \in Nat /\ w.id + 1 \notin previews /\ nextId <= w.id
<1>1. w.id \in Nat /\ nextId \in Nat /\ nextId <= w.id
  BY DEF Work, WorkSet
<1>2. w.id + 1 \notin 0..nextId
  BY <1>1
<1> QED
  BY <1>1, <1>2 DEF PreviewInv

LEMMA CleanFront ==
    ASSUME DaemonInv, PreviewInv, NEW X, NEW w, Clean(w, X), NEW item \in ItemSet, item.id = w.id + 1
    PROVE  Clean(PutFront(w, item), X)
<1> DEFINE v == PutFront(w, item)
           s == item.session
<1>1. w \in WorkSet /\ s \in Session /\ w.stopped \in [Session -> BOOLEAN]
      /\ w.queue \in [Session -> Seq(ItemSet)]
  BY ItemSession DEF Clean, Work, WorkSet
<1>2. /\ v.queue = [w.queue EXCEPT ![s] = EnqueueFront(@, item)]
      /\ v.stopped = [w.stopped EXCEPT ![s] = @ \/ (s \notin w.present /\ voiceState = "stopped-all")]
  BY <1>1, PutFrontIs
<1>3. Work(v)
  BY PutFrontWorks DEF Clean, DaemonInv
<1> HIDE DEF v, s
<1>4. item.id \notin previews
  BY FreshIsNoPreview DEF Clean
<1>5. \A t \in Session : ~ v.stopped[t] => ~ w.stopped[t]
  BY <1>1, <1>2
<1>6. ASSUME NEW t \in Session PROVE Ids(v.queue[t]) \subseteq Ids(w.queue[t]) \union {item.id}
  <2>1. CASE t = s
    <3>1. v.queue[t] = EnqueueFront(w.queue[t], item) /\ w.queue[t] \in Seq(ItemSet)
      BY <1>1, <1>2, <2>1
    <3> QED
      BY <3>1, EnqueueFrontIds
  <2>2. CASE t # s
    BY <1>1, <1>2, <2>2
  <2> QED
    BY <2>1, <2>2
<1>7. Shows(v.queue, v.stopped, X)
  BY <1>4, <1>5, <1>6 DEF Clean, Shows
<1> QED
  BY <1>3, <1>7 DEF Clean, v

LEMMA CleanRemoved ==
    ASSUME NEW w, NEW ch, Clean(w, PreviewIds(ch))
    PROVE  Clean(RemovePreview(w, ch), {})
<1> DEFINE v == RemovePreview(w, ch)
<1>1. w \in WorkSet /\ \A s \in Session : w.queue[s] \in Seq(ItemSet)
  BY DEF Clean, Work, WorkSet
<1>2. v.queue = [s \in Session |-> RemoveIds(w.queue[s], PreviewIds(ch))] /\ v.stopped = w.stopped
  BY <1>1, RemovePreviewIs
<1>3. Work(v)
  BY RemovePreviewWorks DEF Clean
<1> HIDE DEF v
<1>4. ASSUME NEW s \in Session PROVE Ids(v.queue[s]) = Ids(w.queue[s]) \ PreviewIds(ch)
  <2>1. v.queue[s] = RemoveIds(w.queue[s], PreviewIds(ch)) /\ w.queue[s] \in Seq(ItemSet)
    BY <1>1, <1>2
  <2> QED
    BY <2>1, RemoveIdsIds
<1>5. Shows(v.queue, v.stopped, {})
  BY <1>2, <1>4 DEF Clean, Shows
<1> QED
  BY <1>3, <1>5 DEF Clean, v

LEMMA CleanBack ==
    ASSUME DaemonInv, PreviewInv, NEW X, NEW w, Clean(w, X), NEW ch, NEW k, Browsing(ch, k)
    PROVE  Clean(PutBack(w, ch), X)
<1>1. CASE ch.captured = None
  BY <1>1 DEF PutBack
<1>2. CASE ch.captured # None
  <2> DEFINE item == Copy(ch.captured, w.id + 1)
             p == PutFront(w, item)
             v == PutBack(w, ch)
  <2>1. w \in WorkSet /\ w.id + 1 \in Nat
    BY DEF Clean, Work, WorkSet
  <2>2. item \in ItemSet /\ item.id = w.id + 1 /\ item.session = ch.captured.session
    BY <1>2, <2>1, CopyIs DEF Browsing
  <2>3. v.queue = [w.queue EXCEPT ![ch.captured.session] = EnqueueFront(@, item)] /\ v.stopped = p.stopped
    BY <1>2, PutBackIs DEF Clean, DaemonInv
  <2>4. Work(v)
    BY PutBackWorks DEF Clean, DaemonInv
  <2> HIDE DEF item, v
  <2>5. p.queue = [w.queue EXCEPT ![item.session] = EnqueueFront(@, item)]
    BY <2>1, <2>2, PutFrontIs
  <2>6. Clean(p, X)
    BY <2>2, CleanFront
  <2> HIDE DEF p
  <2> QED
    BY <2>2, <2>3, <2>4, <2>5, <2>6 DEF Clean, v
<1> QED
  BY <1>1, <1>2

LEMMA CleanRestored ==
    ASSUME DaemonInv, PreviewInv, NEW w, NEW ch, Clean(w, PreviewIds(ch)), NEW k, Browsing(ch, k)
    PROVE  Clean(Restored(w, ch), {})
  BY CleanRemoved, CleanBack DEF Restored

LEMMA CleanWord ==
    ASSUME BrowseInv, PreviewInv
    PROVE  Clean(ClosedWord(Untouched), Shown)
<1> DEFINE dest == Preferred(spk, Workspace)
           word == Cue(nextId + 1, dest)
           v == ClosedWord(Untouched)
<1>1. Clean(Untouched, Shown) /\ Work(v)
  BY CleanBegins, ClosedWordWorks DEF BrowseInv, DaemonInv
<1>2. CASE dest = None
  BY <1>1, <1>2 DEF ClosedWord
<1>3. CASE dest # None
  <2>1. /\ dest \in Session /\ nextId + 1 \in Nat /\ nextId + 1 \notin previews
        /\ queue \in [Session -> Seq(ItemSet)] /\ stopped \in [Session -> BOOLEAN]
    <3>1. dest \in Session
      BY <1>3 DEF BrowseInv, DaemonInv, QueueInv, RosterTypes, Preferred, Workspace
    <3>2. Untouched.id = nextId
      BY DEF Untouched
    <3>3. nextId + 1 \in Nat /\ nextId + 1 \notin previews
      BY <1>1, <3>2, FreshIsNoPreview DEF Clean
    <3> QED
      BY <3>1, <3>3 DEF BrowseInv, DaemonInv, QueueInv, Queues, Sound, FlagInv, FlagTypes
  <2>2. v.queue = [queue EXCEPT ![dest] = Enqueue(@, word, Cap)] /\ v.stopped = StoppedOnceOpen({dest})
    BY <1>3 DEF ClosedWord, Untouched
  <2> HIDE DEF dest, v
  <2>3. word \in ItemSet /\ word.id = nextId + 1
    BY <2>1 DEF Cue, Item, ItemSet
  <2> HIDE DEF word
  <2>4. \A t \in Session : ~ v.stopped[t] => ~ stopped[t]
    BY <2>2 DEF StoppedOnceOpen
  <2>5. ASSUME NEW t \in Session PROVE Ids(v.queue[t]) \subseteq Ids(queue[t]) \union {word.id}
    <3>1. CASE t = dest
      <4>1. v.queue[t] = Enqueue(queue[t], word, Cap) /\ queue[t] \in Seq(ItemSet)
        BY <2>1, <2>2, <3>1
      <4> QED
        BY <2>3, <4>1, EnqueueIds
    <3>2. CASE t # dest
      BY <2>1, <2>2, <3>2
    <3> QED
      BY <3>1, <3>2
  <2>6. Shows(queue, stopped, Shown)
    BY ShownIs DEF PreviewInv
  <2>7. Shows(v.queue, v.stopped, Shown)
    BY <2>1, <2>3, <2>4, <2>5, <2>6 DEF Shows
  <2> QED
    BY <1>1, <2>7 DEF Clean, v
<1> QED
  BY <1>2, <1>3

\* A browse that is over has cleared its preview away.
LEMMA CleanExpired ==
    ASSUME BrowseInv, PreviewInv, ~ IsOpen
    PROVE  Clean(Expired, {})
<1>1. Clean(Untouched, Shown)
  BY CleanBegins
<1>2. CASE chooser = None
  BY <1>1, <1>2 DEF Expired, Shown
<1>3. CASE chooser # None
  <2>1. Expired = Restored(Untouched, chooser) /\ Shown = PreviewIds(chooser)
    BY <1>3 DEF Expired, IsOpen, Shown
  <2>2. Browsing(chooser, nextId)
    BY <1>3, OpenedBrowses DEF BrowseInv
  <2> QED
    BY <1>1, <2>1, <2>2, CleanRestored DEF BrowseInv
<1> QED
  BY <1>2, <1>3

\* What is put into effect is what is queued.
LEMMA CleanOver ==
    ASSUME PreviewInv, NEW w, NEW X, Clean(w, X), Effects(w), UNCHANGED previews,
           X \subseteq IF chooser' = None THEN {} ELSE PreviewIds(chooser')
    PROVE  PreviewInv'
<1>1. queue' = w.queue /\ stopped' = w.stopped /\ nextId' = w.id /\ nextId <= w.id /\ nextId \in Nat /\ w.id \in Nat
  BY DEF Effects, Clean, Work, WorkSet
<1>2. previews' \subseteq 0..nextId'
  BY <1>1 DEF PreviewInv
<1>3. NoStalePreview'
  BY <1>1 DEF Clean, Shows, NoStalePreview, PreviewIds, Ids
<1> QED
  BY <1>2, <1>3 DEF PreviewInv

\* A preview that is delivered replaces the one before it.
LEMMA CleanDelivery ==
    ASSUME DaemonInv, PreviewInv, NEW w, NEW ch \in BrowseSet, Clean(w, PreviewIds(ch)), DeliverPreview(w, ch)
    PROVE  PreviewInv'
<1> DEFINE r == RemovePreview(w, ch)
           v == [r EXCEPT !.cancels = TRUE]
           dest == PreviewDest
           cue == Cue(v.id + 1, dest)
           p == PutFront(v, cue)
<1>1. Clean(r, {})
  BY CleanRemoved
<1> HIDE DEF r
<1>2. Work(v) /\ v.queue = r.queue /\ v.stopped = r.stopped
  BY <1>1, CancelsWorks DEF Clean
<1>3. Clean(v, {})
  BY <1>1, <1>2 DEF Clean
<1>4. CASE dest = None
  <2>1. Effects(v) /\ UNCHANGED previews
    BY <1>4 DEF DeliverPreview, v, r
  <2> HIDE DEF v
  <2> QED
    BY <1>3, <2>1, CleanOver
<1>5. CASE dest # None
  <2>1. /\ Effects(p) /\ chooser' = [ch EXCEPT !.preview = v.id + 1]
        /\ previews' = previews \union {v.id + 1}
    BY <1>5 DEF DeliverPreview, v, r
  <2>2. dest \in Session
    BY <1>5 DEF PreviewDest, Workspace, DaemonInv, QueueInv, RosterTypes
  <2> HIDE DEF dest, v
  <2>3. v.id \in Nat /\ v.id + 1 \in Nat /\ nextId <= v.id
    BY <1>2, FreshIsNoPreview
  <2>4. cue \in ItemSet /\ cue.id = v.id + 1
    BY <2>2, <2>3 DEF Cue, Item, ItemSet
  <2> HIDE DEF cue
  <2>5. Clean(p, {})
    BY <1>3, <2>4, CleanFront
  <2>6. p.id = v.id + 1
    BY <1>2, <2>4, PutFrontIs DEF Work
  <2> HIDE DEF p
  <2>7. queue' = p.queue /\ stopped' = p.stopped /\ nextId' = v.id + 1
    BY <2>1, <2>6 DEF Effects
  <2>8. chooser' # None /\ (chooser').preview = v.id + 1
    <3>1. chooser' \in BrowseSet
      BY <2>1, <2>3 DEF BrowseSet
    <3> QED
      BY <2>1, <3>1, BrowseAssumption DEF BrowseSet
  <2>9. previews' \subseteq 0..nextId'
    <3>1. nextId \in Nat /\ 0..nextId \subseteq 0..(v.id + 1) /\ v.id + 1 \in 0..(v.id + 1)
      BY <2>3 DEF DaemonInv, NumInv
    <3> QED
      BY <2>1, <2>7, <3>1 DEF PreviewInv
  <2>10. NoStalePreview'
    <3> SUFFICES ASSUME NEW s \in Session, NEW i \in DOMAIN queue'[s],
                        queue'[s][i].id \in previews', ~ stopped'[s]
                 PROVE  queue'[s][i].id = v.id + 1
      BY <2>8 DEF NoStalePreview
    <3>1. queue'[s][i].id \in Ids(p.queue[s]) /\ ~ p.stopped[s]
      BY <2>7 DEF Ids
    <3>2. queue'[s][i].id \notin previews
      BY <2>5, <3>1 DEF Clean, Shows
    <3> QED
      BY <2>1, <3>2
  <2> QED
    BY <2>9, <2>10 DEF PreviewInv
<1> QED
  BY <1>4, <1>5

LEMMA CleanStep ==
    ASSUME BrowseInv, PreviewInv, NEW i \in DOMAIN wire, ChooserStep(i)
    PROVE  PreviewInv'
<1>1. wire[i].by \in {1, 0, -1}
  <2>1. wire[i] \in Wire
    BY DEF BrowseInv, WireTypes
  <2> QED
    BY <2>1 DEF Wire
<1>2. CASE StepOn(wire[i])
  <2> DEFINE t == Turned(chooser, wire[i].by)
  <2>1. chooser # None /\ chooser \in BrowseSet /\ chooser.candidates # <<>>
    BY <1>2 DEF StepOn, IsOpen, BrowseInv, Opened, BrowseSet
  <2>2. t \in BrowseSet /\ t.preview = chooser.preview /\ DeliverPreview(Untouched, t)
    BY <1>1, <1>2, <2>1, TurnedOpened DEF StepOn
  <2> HIDE DEF t
  <2>3. Clean(Untouched, PreviewIds(t))
    BY <2>1, <2>2, CleanBegins DEF Shown, PreviewIds
  <2> QED
    BY <2>2, <2>3, CleanDelivery DEF BrowseInv
<1>3. CASE StepOpens(wire[i])
  <2>1. PICK candidates \in Snapshots \ {<<>>} :
           DeliverPreview(Cuts(Expired), Turned(Opening(Expired, candidates), wire[i].by))
    BY <1>3 DEF StepOpens
  <2> DEFINE o == Opening(Expired, candidates)
             t == Turned(o, wire[i].by)
             w == Cuts(Expired)
  <2>2. Clean(Expired, {})
    BY <1>3, CleanExpired DEF StepOpens
  <2>3. candidates \in Seq(Session)
    BY <2>1, SnapshotSeq DEF BrowseInv
  <2>4. o \in BrowseSet /\ o.candidates # <<>>
    BY <2>1, <2>2, <2>3, OpeningOpened DEF BrowseInv, Clean
  <2>5. t \in BrowseSet /\ DeliverPreview(w, t)
    <3> HIDE DEF o
    <3> QED
      BY <1>1, <2>1, <2>4, TurnedOpened DEF o
  <2> HIDE DEF t, o
  <2>6. Work(w) /\ w.queue = Expired.queue /\ w.stopped = Expired.stopped
    <3>1. Expired \in WorkSet
      BY <2>2 DEF Clean, Work
    <3>2. w.stopped = Expired.stopped
      BY <3>1 DEF Cuts, WorkSet
    <3> QED
      BY <2>2, <3>2, CutsWorks DEF Clean
  <2> HIDE DEF w
  <2>7. Clean(w, PreviewIds(t))
    BY <2>2, <2>6 DEF Clean, Shows
  <2> QED
    BY <2>5, <2>7, CleanDelivery DEF BrowseInv
<1>4. CASE NobodyToBrowse
  <2>1. Clean(Expired, {}) /\ Effects(Expired) /\ UNCHANGED previews
    BY <1>4, CleanExpired DEF NobodyToBrowse
  <2> QED
    BY <2>1, CleanOver
<1> QED
  BY <1>2, <1>3, <1>4 DEF ChooserStep

LEMMA CleanLanding ==
    ASSUME BrowseInv, PreviewInv, IsOpen, NEW s \in Live, Landing(s)
    PROVE  PreviewInv'
<1> DEFINE r == RemovePreview(Untouched, chooser)
           c == [r EXCEPT !.cancels = TRUE, !.present = @ \union {s}]
           cue == Cue(c.id + 1, s)
           p == PutFront(c, cue)
<1>1. chooser # None /\ s \in Session
  BY DEF IsOpen, Live, BrowseInv, DaemonInv, QueueInv, RosterTypes
<1>2. Clean(r, {})
  BY <1>1, CleanBegins, CleanRemoved DEF Shown
<1>3. Effects(p) /\ UNCHANGED previews
  BY DEF Landing, Closes
<1> HIDE DEF r
<1>4. Clean(c, {})
  <2> DEFINE P == r.present \union {s}
             x == TRUE
  <2>1. r \in WorkSet /\ Work(r)
    BY <1>2 DEF Clean, Work
  <2>2. P \in SUBSET Session /\ r.present \subseteq P /\ x \in BOOLEAN
    BY <1>1, <2>1 DEF WorkSet
  <2>3. c = [r EXCEPT !.cancels = x, !.present = P]
    OBVIOUS
  <2> HIDE DEF P, c, x
  <2>4. c = [queue |-> r.queue, markers |-> r.markers, id |-> r.id, present |-> P,
             stopped |-> r.stopped, current |-> r.current, cancels |-> x]
    BY <2>1, <2>3 DEF WorkSet
  <2>5. c \in WorkSet
    BY <2>1, <2>2, <2>4 DEF WorkSet
  <2>6. Work(c)
    BY <2>1, <2>2, <2>4, <2>5 DEF Work
  <2> QED
    BY <1>2, <2>4, <2>6 DEF Clean
<1> HIDE DEF c
<1>5. cue \in ItemSet /\ cue.id = c.id + 1
  <2>1. c.id + 1 \in Nat
    BY <1>4, FreshIsNoPreview DEF Clean
  <2> QED
    BY <1>1, <2>1 DEF Cue, Item, ItemSet
<1> HIDE DEF cue
<1>6. Clean(p, {})
  BY <1>4, <1>5, CleanFront DEF BrowseInv
<1> HIDE DEF p
<1> QED
  BY <1>3, <1>6, CleanOver

LEMMA CleanClosers ==
    ASSUME BrowseInv, PreviewInv, NEW i \in DOMAIN wire, ChooserCommit(i) \/ ChooserDigit(i) \/ ChooserCancel(i)
    PROVE  PreviewInv'
<1>1. UNCHANGED previews
  BY DEF ChooserCommit, ChooserDigit, ChooserCancel, NotOpen, Lands, LandingAtHome, LandingRefused, Landing,
     CancelBrowse, NobodyThere, Closes
<1>2. Clean(Untouched, Shown) /\ Clean(ClosedWord(Untouched), Shown)
  BY CleanBegins, CleanWord
<1>3. ASSUME NEW w, Clean(w, {}), Effects(w) PROVE PreviewInv'
  BY <1>1, <1>3, CleanOver
<1>4. CASE ~ IsOpen /\ Ends(Expired)
  BY <1>3, <1>4, CleanExpired DEF Ends
<1>5. CASE IsOpen /\ (Ends(Restored(Untouched, chooser)) \/ Ends(Restored(ClosedWord(Untouched), chooser)))
  <2>1. Shown = PreviewIds(chooser) /\ Browsing(chooser, nextId)
    BY <1>5, OpenedBrowses DEF IsOpen, Shown, BrowseInv
  <2>2. Clean(Restored(Untouched, chooser), {}) /\ Clean(Restored(ClosedWord(Untouched), chooser), {})
    BY <1>2, <2>1, CleanRestored DEF BrowseInv
  <2> QED
    BY <1>3, <1>5, <2>2 DEF Ends
<1>6. CASE UNCHANGED chooser /\ (Ends(Untouched) \/ Ends(ClosedWord(Untouched)))
  <2>1. PICK w \in {Untouched, ClosedWord(Untouched)} : Effects(w)
    BY <1>6 DEF Ends
  <2>2. Clean(w, Shown) /\ Shown = IF chooser' = None THEN {} ELSE PreviewIds(chooser')
    BY <1>2, <1>6 DEF Shown
  <2> QED
    BY <1>1, <2>1, <2>2, CleanOver
<1>7. CASE IsOpen /\ \E s \in Live : Landing(s)
  BY <1>7, CleanLanding
<1> QED
  BY <1>4, <1>5, <1>6, <1>7, CloserOutcomes

\* Any other step of the daemon gives out new ids, keeps the old in order, and
\* starts no stream that holds any of them.
LEMMA CleanElsewhere ==
    ASSUME BrowseInv, PreviewInv, [Next]_vars, UNCHANGED <<chooser, previews>>
    PROVE  PreviewInv'
<1>1. nextId <= nextId' /\ nextId \in Nat /\ nextId' \in Nat
  BY NextKnown, NextNumbers DEF BrowseInv, DaemonInv, NumInv
<1>2. previews' \subseteq 0..nextId'
  BY <1>1 DEF PreviewInv
<1>3. SUFFICES ASSUME NEW s \in Session, NEW i \in DOMAIN queue'[s], queue'[s][i].id \in previews, ~ stopped'[s]
               PROVE  chooser # None /\ queue'[s][i].id = chooser.preview
  BY <1>2 DEF PreviewInv, NoStalePreview
<1>4. Orderly \/ ReturnsIt
  BY NextOrderly DEF BrowseInv, DaemonInv
<1>5. queue'[s][i].id \in 0..nextId
  BY <1>3 DEF PreviewInv
<1>6. ~ stopped[s] /\ \E k \in DOMAIN queue[s] : queue[s][k].id = queue'[s][i].id
  <2>1. CASE Orderly
    BY <1>3, <1>5, <2>1 DEF Orderly, New, Thin, Thinned
  <2>2. CASE ReturnsIt
    <3>1. s # hand.session /\ queue'[s] = queue[s]
      BY <1>3, <2>2 DEF ReturnsIt, BrowseInv, DaemonInv, QueueInv, Queues, Sound
    <3> QED
      BY <1>3, <2>2, <3>1 DEF ReturnsIt
  <2> QED
    BY <1>4, <2>1, <2>2
<1> QED
  BY <1>3, <1>6 DEF PreviewInv, NoStalePreview

\* However the messages of a browse are ordered and whatever the daemon does
\* between them, no started stream holds a preview but the one that is shown.
THEOREM NoStalePreviewHolds == BSpec => []NoStalePreview
<1>1. BInit => PreviewInv
  BY DEF BInit, InitState, PreviewInv, NoStalePreview
<1>2. BrowseInv /\ PreviewInv /\ [BNext]_bvars => PreviewInv'
  <2> SUFFICES ASSUME BrowseInv, PreviewInv, [BNext]_bvars PROVE PreviewInv'
    OBVIOUS
  <2>1. CASE Keyboard \/ Lapse \/ Elsewhere \/ UNCHANGED bvars
    <3>1. [Next]_vars /\ UNCHANGED <<chooser, previews>>
      BY <2>1 DEF Keyboard, Lapse, Elsewhere, bvars, browseVars
    <3> QED
      BY <3>1, CleanElsewhere
  <2>2. CASE Handle
    BY <2>2, CleanStep, CleanClosers DEF Handle
  <2> QED
    BY <2>1, <2>2 DEF BNext
<1>3. PreviewInv => NoStalePreview
  BY DEF PreviewInv
<1> QED
  BY <1>1, <1>2, <1>3, BrowseInvariance, PTL DEF BSpec

-----------------------------------------------------------------------------
(* What was interrupted is voiced once.  On a started stream an entry has one *)
(* item (Once), and none beside the copy a browse has parked (Alone); an item *)
(* carries entries of its own session, and a cue none (Own, Bare); a browse   *)
(* parks the entries of what it captured, never of a cue (OfCaptured); and    *)
(* what is still buffered was never queued (Unqueued).                        *)
\* The two bind one entry.
Same(m, p) == m.session = p.session /\ m.entry = p.entry

\* The entries of its session are still numbered as they were.
Counts(m) == m.session \notin ended

\* An item carries entries of its own session, a cue none.
Own(q, h, M) ==
    \A m \in M : /\ \A s \in Session : m.id \in Ids(q[s]) => m.session = s
                 /\ h # None /\ m.id = h.id => m.session = h.session

Bare(q, h, M) ==
    \A m \in M : /\ \A s \in Session : \A i \in DOMAIN q[s] : q[s][i].id = m.id => ~ q[s][i].cue
                 /\ h # None /\ m.id = h.id => ~ h.cue

\* Its item waits in the queue of its session, or is the claim c.
Carried(q, c, m) == m.id \in Ids(q[m.session]) \/ (c # None /\ c.id = m.id)

\* On a stream that f does not stop, an entry has one item.
Once(q, c, M, f) ==
    \A m, n \in M :
        Same(m, n) /\ Counts(m) /\ ~ f[m.session] /\ Carried(q, c, m) /\ Carried(q, c, n) => m.id = n.id

\* The loop may pop from s: it is started, or was when the loop looked.
Flows(s, f) == ~ f[s] \/ (pc = "pop" /\ spk = s)

\* An entry of P, which a browse has parked, has none.
Alone(q, c, M, P, f) ==
    \A p \in P, m \in M :
        Same(m, p) /\ Counts(m) => /\ Flows(m.session, f) => m.id \notin Ids(q[m.session])
                                   /\ c # None => c.id # m.id

Parks(ch) == IF ch = None THEN {} ELSE ch.entry

OfCaptured(ch) ==
    ch # None => \A p \in ch.entry : /\ ch.captured # None /\ p.session = ch.captured.session
                                     /\ ~ ch.captured.cue

\* What is buffered is recorded, once, and was never queued or parked.
Unqueued(X) ==
    \A s \in Session \ ended :
        /\ \A i, j \in DOMAIN buffer[s] : buffer[s][i] = buffer[s][j] => i = j
        /\ \A i \in DOMAIN buffer[s] : buffer[s][i] <= newest[s]
        /\ \A x \in X : x.session = s =>
              x.entry <= newest[s] /\ \A i \in DOMAIN buffer[s] : buffer[s][i] # x.entry

OnceInv ==
    /\ Own(queue, hand, markers) /\ Bare(queue, hand, markers)
    /\ Once(queue, current, markers, stopped)
    /\ Alone(queue, current, markers, Parks(chooser), stopped)
    /\ OfCaptured(chooser)
    /\ Unqueued(markers \union Parks(chooser))
    /\ hand # None /\ current = None /\ pc = "speak" => cut

\* The same of what a handler of the chooser has prepared.
Sole(w, P) ==
    /\ Work(w)
    /\ Own(w.queue, hand, w.markers) /\ Bare(w.queue, hand, w.markers)
    /\ Once(w.queue, w.current, w.markers, w.stopped)
    /\ Alone(w.queue, w.current, w.markers, P, w.stopped)
    /\ \A m \in w.markers : \E k \in markers \union Parks(chooser) : Same(m, k)
    /\ hand # None /\ w.current = None /\ pc = "speak" => cut \/ w.cancels

NoJumps == "JUMP_DECISION" \notin Messages

\* What a marker's id is found on was there before.
LEMMA OldIds ==
    ASSUME NEW q, NEW r, NEW n, Thin(q, r, n), NEW s \in Session, NEW k \in 0..n, k \in Ids(r[s])
    PROVE  k \in Ids(q[s])
  BY DEF Thin, Thinned, Ids

LEMMA OwnKept ==
    ASSUME NEW q, NEW r, NEW n, NEW h, NEW M, NEW N, N \subseteq M,
           Thin(q, r, n), Own(q, h, M), \A m \in M : m.id \in 0..n
    PROVE  Own(r, h, N)
<1>1. ASSUME NEW m \in N, NEW s \in Session, m.id \in Ids(r[s]) PROVE m.session = s
  <2>1. m \in M /\ m.id \in 0..n
    OBVIOUS
  <2>2. m.id \in Ids(q[s])
    BY <1>1, <2>1, OldIds
  <2> QED
    BY <2>1, <2>2 DEF Own
<1> QED
  BY <1>1 DEF Own

LEMMA BareKept ==
    ASSUME NoJumps, NEW q, NEW r, NEW n, NEW h, NEW M, NEW N, N \subseteq M,
           Thin(q, r, n), Bare(q, h, M), \A m \in M : m.id \in 0..n
    PROVE  Bare(r, h, N)
<1>1. ASSUME NEW m \in N, NEW s \in Session, NEW i \in DOMAIN r[s], r[s][i].id = m.id PROVE ~ r[s][i].cue
  <2>1. m \in M /\ m.id \in 0..n
    OBVIOUS
  <2>2. PICK a \in DOMAIN q[s] : q[s][a].id = r[s][i].id /\ (r[s][i].cue => q[s][a].cue)
    BY <1>1, <2>1 DEF Thin, Thinned, NoJumps
  <2> QED
    BY <1>1, <2>1, <2>2 DEF Bare
<1> QED
  BY <1>1 DEF Bare

LEMMA SoleKept ==
    ASSUME NoJumps, NEW P, NEW w, Sole(w, P), NEW v, Work(v), Thin(w.queue, v.queue, w.id),
           v.markers \subseteq w.markers, v.current = w.current, w.cancels => v.cancels,
           \A s \in Session : w.stopped[s] => v.stopped[s]
    PROVE  Sole(v, P)
<1>1. \A m \in w.markers : m.id \in 0..w.id /\ m.session \in Session
  BY DEF Sole, Work, WorkSet, MarkerSet
<1>2. Own(v.queue, hand, v.markers) /\ Bare(v.queue, hand, v.markers)
  BY <1>1, OwnKept, BareKept DEF Sole
<1>3. \A m \in v.markers : m \in w.markers /\ (m.id \in Ids(v.queue[m.session]) => m.id \in Ids(w.queue[m.session]))
  BY <1>1, OldIds
<1>4. \A m \in v.markers : Carried(v.queue, v.current, m) => Carried(w.queue, w.current, m)
  BY <1>3 DEF Carried
<1>5. Once(v.queue, v.current, v.markers, v.stopped)
  BY <1>1, <1>3, <1>4 DEF Sole, Once
<1>6. \A s \in Session : Flows(s, v.stopped) => Flows(s, w.stopped)
  BY DEF Flows
<1>7. Alone(v.queue, v.current, v.markers, P, v.stopped)
  <2> SUFFICES ASSUME NEW p \in P, NEW m \in v.markers, Same(m, p), Counts(m)
               PROVE  /\ Flows(m.session, v.stopped) => m.id \notin Ids(v.queue[m.session])
                      /\ v.current # None => (v.current).id # m.id
    BY DEF Alone
  <2>1. m \in w.markers /\ m.session \in Session
    BY <1>1
  <2>2. /\ Flows(m.session, w.stopped) => m.id \notin Ids(w.queue[m.session])
        /\ w.current # None => (w.current).id # m.id
    BY <2>1 DEF Sole, Alone
  <2> QED
    BY <1>3, <1>6, <2>1, <2>2
<1>8. \A m \in v.markers : \E k \in markers \union Parks(chooser) : Same(m, k)
  BY DEF Sole
<1> QED
  BY <1>2, <1>5, <1>7, <1>8 DEF Sole

LEMMA SoleLess ==
    ASSUME NEW P, NEW Q, Q \subseteq P, NEW w, Sole(w, P)
    PROVE  Sole(w, Q)
  BY DEF Sole, Alone

LEMMA SoleBegins ==
    ASSUME BrowseInv, OnceInv
    PROVE  Sole(Untouched, Parks(chooser))
<1>1. /\ Work(Untouched) /\ Untouched.queue = queue /\ Untouched.markers = markers
      /\ Untouched.stopped = stopped /\ Untouched.current = current
  BY WorkBegins DEF BrowseInv, DaemonInv
<1>2. \A m \in markers : \E k \in markers \union Parks(chooser) : Same(m, k)
  BY DEF Same
<1> QED
  BY <1>1, <1>2 DEF Sole, OnceInv

LEMMA SoleFront ==
    ASSUME NoJumps, DaemonInv, NEW P, NEW w, Sole(w, P), NEW item \in ItemSet, item.id = w.id + 1
    PROVE  Sole(PutFront(w, item), P)
<1> DEFINE v == PutFront(w, item)
           s == item.session
<1>1. w \in WorkSet /\ s \in Session /\ w.stopped \in [Session -> BOOLEAN]
      /\ w.queue \in [Session -> Seq(ItemSet)] /\ w.id \in Nat
  BY ItemSession DEF Sole, Work, WorkSet
<1>2. /\ v.queue = [w.queue EXCEPT ![s] = EnqueueFront(@, item)]
      /\ v.stopped = [w.stopped EXCEPT ![s] = @ \/ (s \notin w.present /\ voiceState = "stopped-all")]
      /\ v.markers = w.markers /\ v.current = w.current /\ v.cancels = w.cancels
  BY <1>1, PutFrontIs
<1>3. Work(v)
  BY PutFrontWorks DEF Sole, DaemonInv
<1> HIDE DEF v, s
<1>4. item.id \notin 0..w.id
  BY <1>1
<1>5. Thin(w.queue, w.queue, w.id)
  BY <1>1, ThinSelf
<1>6. Thin(w.queue, v.queue, w.id)
  <2>1. Thin(w.queue, [w.queue EXCEPT ![s] = EnqueueFront(@, item)], w.id)
    BY <1>4, <1>5, ThinFront
  <2> QED
    BY <1>2, <2>1
<1>7. \A t \in Session : w.stopped[t] => v.stopped[t]
  BY <1>1, <1>2
<1>8. v.markers \subseteq w.markers /\ (w.cancels => v.cancels)
  BY <1>2
<1>9. Sole(v, P)
  BY <1>2, <1>3, <1>6, <1>7, <1>8, SoleKept
<1> QED
  BY <1>9 DEF v

LEMMA SoleRemoved ==
    ASSUME NoJumps, NEW P, NEW w, Sole(w, P), NEW ch
    PROVE  Sole(RemovePreview(w, ch), P)
<1> DEFINE v == RemovePreview(w, ch)
<1>1. w \in WorkSet /\ w.queue \in [Session -> Seq(ItemSet)] /\ w.cancels \in BOOLEAN
  BY DEF Sole, Work, WorkSet
<1>2. /\ v.queue = [s \in Session |-> RemoveIds(w.queue[s], PreviewIds(ch))]
      /\ v.stopped = w.stopped /\ v.markers = w.markers /\ v.current = w.current
  BY <1>1, RemovePreviewIs
<1>3. w.cancels => v.cancels
  <2> DEFINE c == w.cancels \/ (w.current # None /\ w.current.id = ch.preview)
             q == [s \in Session |-> RemoveIds(w.queue[s], PreviewIds(ch))]
  <2>1. v = [w EXCEPT !.queue = q, !.cancels = c]
    BY DEF RemovePreview
  <2> HIDE DEF c, q, v
  <2>2. v.cancels = c
    BY <1>1, <2>1 DEF WorkSet
  <2> QED
    BY <2>2 DEF c
<1>4. Work(v)
  BY RemovePreviewWorks DEF Sole
<1> HIDE DEF v
<1>5. ASSUME NEW s \in Session PROVE Thinned(w.queue[s], v.queue[s], w.id)
  <2>1. w.queue[s] \in Seq(ItemSet) /\ v.queue[s] = RemoveIds(w.queue[s], PreviewIds(ch))
    BY <1>1, <1>2
  <2> QED
    BY <2>1, ThinnedIds
<1>6. v.queue \in [Session -> Seq(ItemSet)]
  BY <1>4 DEF Work, WorkSet
<1>7. Thin(w.queue, v.queue, w.id)
  BY <1>5, <1>6 DEF Thin
<1>8. \A t \in Session : w.stopped[t] => v.stopped[t]
  BY <1>2
<1>9. v.markers \subseteq w.markers
  BY <1>2
<1>10. Sole(v, P)
  BY <1>2, <1>3, <1>4, <1>7, <1>8, <1>9, SoleKept
<1> QED
  BY <1>10 DEF v

\* A cancel that is asked for stays asked for.
LEMMA BackCancels ==
    ASSUME NEW w, Work(w), NEW ch, NEW k, Browsing(ch, k)
    PROVE  PutBack(w, ch).cancels = w.cancels
<1>1. CASE ch.captured = None
  BY <1>1 DEF PutBack
<1>2. CASE ch.captured # None
  <2> DEFINE item == [ch.captured EXCEPT !.id = w.id + 1]
             p == PutFront(w, item)
             M == p.markers \union {[m EXCEPT !.id = item.id] : m \in ch.entry}
  <2>1. w \in WorkSet /\ w.id + 1 \in Nat
    BY DEF Work, WorkSet
  <2>2. item \in ItemSet
    BY <1>2, <2>1 DEF Browsing, ItemSet
  <2>3. PutBack(w, ch) = [p EXCEPT !.markers = M]
    BY <1>2 DEF PutBack
  <2> HIDE DEF item
  <2>4. p \in WorkSet /\ p.cancels = w.cancels
    BY <2>1, <2>2, PutFrontIs
  <2> HIDE DEF p, M
  <2>5. [p EXCEPT !.markers = M].cancels = p.cancels
    BY <2>4 DEF WorkSet
  <2> QED
    BY <2>3, <2>4, <2>5
<1> QED
  BY <1>1, <1>2

\* What was parked is given back, and nothing else carries it.
LEMMA SoleBack ==
    ASSUME NoJumps, DaemonInv, NEW w, NEW ch, NEW k, Browsing(ch, k), Sole(w, ch.entry),
           OfCaptured(ch), ch # None, ch.entry \subseteq Parks(chooser)
    PROVE  Sole(PutBack(w, ch), {})
<1>1. CASE ch.captured = None
  BY <1>1, SoleLess DEF PutBack
<1>2. CASE ch.captured # None
  <2> DEFINE v == PutBack(w, ch)
             item == Copy(ch.captured, w.id + 1)
             s == ch.captured.session
             n == w.id + 1
             new == {[m EXCEPT !.id = n] : m \in ch.entry}
  <2>1. w \in WorkSet /\ w.id \in Nat /\ n \in Nat /\ n \notin 0..w.id
        /\ w.queue \in [Session -> Seq(ItemSet)] /\ w.stopped \in [Session -> BOOLEAN]
    BY DEF Sole, Work, WorkSet
  <2>2. item \in ItemSet /\ item.id = n /\ item.session = s /\ item.cue = ch.captured.cue /\ s \in Session
    <3>1. ch.captured \in ItemSet
      BY <1>2 DEF Browsing
    <3> QED
      BY <2>1, <3>1, CopyIs DEF ItemSet, Copy
  <2>3. /\ v.queue = [w.queue EXCEPT ![s] = EnqueueFront(@, item)]
        /\ v.markers = w.markers \union new /\ v.current = w.current
        /\ v.stopped = PutFront(w, item).stopped
    BY <1>2, PutBackIs DEF Sole, DaemonInv
  <2>5. Work(v) /\ v.cancels = w.cancels
    BY PutBackWorks, BackCancels DEF Sole, DaemonInv
  <2>6. ASSUME NEW m \in new
        PROVE  m.id = n /\ m.session = s /\ \E p \in ch.entry : Same(m, p)
    <3>1. PICK p \in ch.entry : m = [p EXCEPT !.id = n]
      BY DEF new
    <3>2. p \in MarkerSet /\ p.session = s
      BY <1>2 DEF Browsing, OfCaptured
    <3>3. m.id = n /\ m.session = p.session /\ m.entry = p.entry
      BY <2>1, <3>1, <3>2 DEF MarkerSet
    <3> QED
      BY <3>2, <3>3 DEF Same
  <2> HIDE DEF v, item, s, n, new
  <2>4. v.stopped = [w.stopped EXCEPT ![s] = @ \/ (s \notin w.present /\ voiceState = "stopped-all")]
    <3>1. PutFront(w, item).stopped =
             [w.stopped EXCEPT ![item.session] = @ \/ (item.session \notin w.present /\ voiceState = "stopped-all")]
      BY <2>1, <2>2, PutFrontIs
    <3> QED
      BY <2>2, <2>3, <3>1
  <2>7. Thin(w.queue, v.queue, w.id)
    <3>1. Thin(w.queue, w.queue, w.id)
      BY <2>1, ThinSelf
    <3>2. Thin(w.queue, [w.queue EXCEPT ![s] = EnqueueFront(@, item)], w.id)
      BY <2>1, <2>2, <3>1, ThinFront
    <3> QED
      BY <2>3, <3>2
  <2>8. \A m \in w.markers : m.id \in 0..w.id /\ m.session \in Session
    BY DEF Sole, Work, WorkSet, MarkerSet
  <2>9. Own(v.queue, hand, w.markers) /\ Bare(v.queue, hand, w.markers)
    BY <2>7, <2>8, OwnKept, BareKept DEF Sole
  <2>10. hand # None => hand.id # n
    BY <2>1 DEF Sole, Work, Sound
  <2>11. ASSUME NEW t \in Session, n \in Ids(v.queue[t]) PROVE t = s
    <3>1. n \notin Ids(w.queue[t])
      BY <2>1 DEF Sole, Work, Sound
    <3> QED
      BY <2>1, <2>3, <2>11, <3>1
  <2>12. Own(v.queue, hand, v.markers)
    BY <2>3, <2>6, <2>9, <2>10, <2>11 DEF Own
  <2>13. ASSUME NEW m \in new, NEW t \in Session, NEW i \in DOMAIN v.queue[t], v.queue[t][i].id = n
         PROVE  ~ v.queue[t][i].cue
    <3>1. t = s
      BY <2>11, <2>13 DEF Ids
    <3>2. v.queue[s] = EnqueueFront(w.queue[s], item) /\ w.queue[s] \in Seq(ItemSet)
      BY <2>1, <2>2, <2>3
    <3>3. 1 \in DOMAIN v.queue[s] /\ v.queue[s][1] = item
      BY <2>2, <3>2 DEF EnqueueFront
    <3>4. Distinct(v.queue[s])
      BY <2>2, <2>5 DEF Work, Sound
    <3>5. i = 1
      BY <2>2, <2>13, <3>1, <3>3, <3>4 DEF Distinct
    <3>6. ~ item.cue
      BY <2>2, <2>6, <2>13 DEF OfCaptured
    <3> QED
      BY <3>1, <3>3, <3>5, <3>6
  <2>14. Bare(v.queue, hand, v.markers)
    <3>1. ASSUME NEW m \in new
          PROVE  /\ \A t \in Session : \A i \in DOMAIN v.queue[t] : v.queue[t][i].id = m.id => ~ v.queue[t][i].cue
                 /\ hand # None => m.id # hand.id
      BY <2>6, <2>10, <2>13
    <3> QED
      BY <2>3, <2>9, <3>1 DEF Bare
  <2>15. \A m \in w.markers : Carried(v.queue, v.current, m) => Carried(w.queue, w.current, m)
    BY <2>3, <2>7, <2>8, OldIds DEF Carried
  <2>16. \A t \in Session : ~ v.stopped[t] => ~ w.stopped[t]
    BY <2>1, <2>2, <2>4
  <2>17. ASSUME NEW m \in w.markers, NEW l \in new, Same(m, l), Counts(m), ~ v.stopped[m.session]
         PROVE  ~ Carried(v.queue, v.current, m)
    <3>1. PICK p \in ch.entry : Same(l, p)
      BY <2>6
    <3>2. Same(m, p) /\ ~ w.stopped[m.session] /\ m.session \in Session
      BY <2>8, <2>16, <2>17, <3>1 DEF Same
    <3>3. ~ Carried(w.queue, w.current, m)
      BY <2>17, <3>2 DEF Sole, Alone, Flows, Carried
    <3> QED
      BY <2>15, <3>3
  <2>18. Once(v.queue, v.current, v.markers, v.stopped)
    <3> SUFFICES ASSUME NEW m \in v.markers, NEW l \in v.markers, Same(m, l), Counts(m), ~ v.stopped[m.session],
                        Carried(v.queue, v.current, m), Carried(v.queue, v.current, l)
                 PROVE  m.id = l.id
      BY DEF Once
    <3>1. CASE m \in w.markers /\ l \in w.markers
      <4>1. ~ w.stopped[m.session] /\ Carried(w.queue, w.current, m) /\ Carried(w.queue, w.current, l)
        BY <2>8, <2>15, <2>16, <3>1
      <4> QED
        BY <3>1, <4>1 DEF Sole, Once
    <3>2. CASE m \in new /\ l \in new
      BY <2>6, <3>2
    <3>3. CASE m \in w.markers /\ l \in new
      BY <2>17, <3>3
    <3>4. CASE m \in new /\ l \in w.markers
      BY <2>17, <3>4 DEF Same, Counts
    <3> QED
      BY <2>3, <3>1, <3>2, <3>3, <3>4
  <2>19. \A m \in v.markers : \E l \in markers \union Parks(chooser) : Same(m, l)
    BY <2>3, <2>6 DEF Sole
  <2>20. Sole(v, {})
    BY <2>3, <2>5, <2>12, <2>14, <2>18, <2>19 DEF Sole, Alone
  <2> QED
    BY <2>20 DEF v
<1> QED
  BY <1>1, <1>2

LEMMA SoleRestored ==
    ASSUME NoJumps, DaemonInv, NEW w, NEW ch, NEW k, Browsing(ch, k), Sole(w, ch.entry),
           OfCaptured(ch), ch # None, ch.entry \subseteq Parks(chooser)
    PROVE  Sole(Restored(w, ch), {})
<1>1. Sole(RemovePreview(w, ch), ch.entry)
  BY SoleRemoved
<1> DEFINE r == RemovePreview(w, ch)
<1>2. Sole(r, ch.entry) /\ Restored(w, ch) = PutBack(r, ch)
  BY <1>1 DEF Restored
<1> HIDE DEF r
<1> QED
  BY <1>2, SoleBack

\* A browse that is over has given back what it parked.
LEMMA SoleExpired ==
    ASSUME NoJumps, BrowseInv, OnceInv, ~ IsOpen
    PROVE  Sole(Expired, {})
<1>1. Sole(Untouched, Parks(chooser))
  BY SoleBegins
<1>2. CASE chooser = None
  BY <1>1, <1>2 DEF Expired, Parks
<1>3. CASE chooser # None
  <2>1. Expired = Restored(Untouched, chooser) /\ Parks(chooser) = chooser.entry
    BY <1>3 DEF Expired, IsOpen, Parks
  <2>2. Browsing(chooser, nextId)
    BY <1>3, OpenedBrowses DEF BrowseInv
  <2>3. OfCaptured(chooser)
    BY DEF OnceInv
  <2> QED
    BY <1>1, <1>3, <2>1, <2>2, <2>3, SoleRestored DEF BrowseInv
<1> QED
  BY <1>2, <1>3

LEMMA SoleWord ==
    ASSUME NoJumps, BrowseInv, OnceInv
    PROVE  Sole(ClosedWord(Untouched), Parks(chooser))
<1> DEFINE dest == Preferred(spk, Workspace)
           word == Cue(nextId + 1, dest)
           v == ClosedWord(Untouched)
<1>1. /\ Sole(Untouched, Parks(chooser)) /\ Work(v) /\ v.current = current
      /\ Untouched.queue = queue /\ Untouched.markers = markers /\ Untouched.stopped = stopped
      /\ Untouched.current = current /\ Untouched.id = nextId /\ ~ Untouched.cancels
  BY SoleBegins, ClosedWordWorks DEF BrowseInv, DaemonInv, Untouched
<1>2. CASE dest = None
  BY <1>1, <1>2 DEF ClosedWord
<1>3. CASE dest # None
  <2>1. /\ v.queue = [queue EXCEPT ![dest] = Enqueue(@, word, Cap)] /\ v.stopped = StoppedOnceOpen({dest})
        /\ v.markers = {m \in markers : m.id \notin EvictedIds(queue[dest], Cap)}
    BY <1>3 DEF ClosedWord, Untouched
  <2>2. dest \in Session
    BY <1>3 DEF BrowseInv, DaemonInv, QueueInv, RosterTypes, Preferred, Workspace
  <2> HIDE DEF dest, v
  <2>3. word \in ItemSet /\ word.id = nextId + 1 /\ nextId + 1 \notin 0..nextId /\ Thin(queue, queue, nextId)
    BY <2>2, NextIds, NewWords DEF BrowseInv, DaemonInv
  <2> HIDE DEF word
  <2>4. Thin(queue, [queue EXCEPT ![dest] = Enqueue(@, word, Cap)], nextId)
    BY <2>3, ThinBack
  <2>5. Thin(Untouched.queue, v.queue, Untouched.id)
    BY <1>1, <2>1, <2>4
  <2>6. \A t \in Session : Untouched.stopped[t] => v.stopped[t]
    BY <1>1, <2>1 DEF StoppedOnceOpen
  <2>7. v.markers \subseteq Untouched.markers /\ v.current = Untouched.current
    BY <1>1, <2>1
  <2>8. Untouched.cancels => v.cancels
    BY <1>1
  <2>9. Sole(v, Parks(chooser))
    BY <1>1, <2>5, <2>6, <2>7, <2>8, SoleKept
  <2> QED
    BY <2>9 DEF v
<1> QED
  BY <1>2, <1>3

\* The utterance in flight is cut and parked: nothing else carries it.
LEMMA SoleCuts ==
    ASSUME DaemonInv, NEW w, Sole(w, {}), NEW candidates
    PROVE  LET o == Opening(w, candidates)
           IN  /\ Sole(Cuts(w), o.entry) /\ o.entry \subseteq w.markers
               /\ \A p \in o.entry : /\ o.captured # None /\ p.session = o.captured.session
                                      /\ ~ o.captured.cue
<1> DEFINE o == Opening(w, candidates)
           v == Cuts(w)
           E == {m \in w.markers : w.current # None /\ m.id = w.current.id}
<1>1. /\ o.entry = E /\ o.captured = w.current
  BY DEF Opening
<1>2. /\ Work(v) /\ v.queue = w.queue /\ v.markers = w.markers /\ v.current = None
      /\ v.stopped = w.stopped /\ v.cancels = (w.cancels \/ w.current # None)
  <2>1. w \in WorkSet
    BY DEF Sole, Work
  <2>2. v.stopped = w.stopped /\ v.cancels = (w.cancels \/ w.current # None)
    BY <2>1 DEF Cuts, WorkSet
  <2> QED
    BY <2>2, CutsWorks DEF Sole
<1> HIDE DEF o, v
<1>3. w.current \in {None, hand} /\ (w.current # None => w.current = hand /\ hand # None /\ pc # "pop")
  BY DEF Sole, Work, DaemonInv, QueueInv, Hands, Idle
<1>4. ASSUME NEW p \in E
      PROVE  /\ w.current # None /\ p.session = w.current.session /\ ~ w.current.cue
             /\ p \in w.markers /\ p.session \in Session /\ Carried(w.queue, w.current, p)
  <2>1. p \in w.markers /\ w.current # None /\ p.id = w.current.id /\ p.session \in Session
    BY DEF Sole, Work, WorkSet, MarkerSet
  <2> QED
    BY <1>3, <2>1 DEF Sole, Own, Bare, Carried
<1>5. Once(v.queue, v.current, v.markers, v.stopped)
  <2>1. \A m \in w.markers : Carried(v.queue, v.current, m) => Carried(w.queue, w.current, m)
    BY <1>2 DEF Carried
  <2> QED
    BY <1>2, <2>1 DEF Sole, Once
<1>6. Alone(v.queue, v.current, v.markers, E, v.stopped)
  <2> SUFFICES ASSUME NEW p \in E, NEW m \in w.markers, Same(m, p), Counts(m), Flows(m.session, w.stopped),
                      m.id \in Ids(w.queue[m.session])
               PROVE  FALSE
    BY <1>2 DEF Alone
  <2>1. m.session = p.session /\ ~ w.stopped[m.session] /\ p.id = hand.id /\ hand # None
    BY <1>3, <1>4 DEF Flows, Same
  <2>2. m.id = p.id
    BY <1>4, <2>1 DEF Sole, Once, Carried
  <2> QED
    BY <1>4, <2>1, <2>2 DEF Sole, Work, Sound
<1>7. hand # None /\ v.current = None /\ pc = "speak" => cut \/ v.cancels
  BY <1>2 DEF Sole
<1>8. Own(v.queue, hand, v.markers) /\ Bare(v.queue, hand, v.markers)
      /\ \A m \in v.markers : \E k \in markers \union Parks(chooser) : Same(m, k)
  BY <1>2 DEF Sole
<1>9. Sole(v, E)
  BY <1>2, <1>5, <1>6, <1>7, <1>8 DEF Sole
<1> QED
  BY <1>1, <1>4, <1>9 DEF o, v

\* The voice is not moved onto a stopped stream while the loop is about to pop.
Unraced == pc = "pop" /\ spk' # spk => spk' = None \/ ~ stopped'[spk']

\* What a handler of the chooser leaves alone.
Still == UNCHANGED <<hand, pc, buffer, newest, ended>>

Had(P) == \A p \in P : \E k \in markers \union Parks(chooser) : Same(p, k)

LEMMA SoleOver ==
    ASSUME DaemonInv, OnceInv, Unraced, Still, NEW w, NEW P, Sole(w, P), Effects(w),
           Parks(chooser') \subseteq P, OfCaptured(chooser'), Had(Parks(chooser'))
    PROVE  OnceInv'
<1>1. /\ queue' = w.queue /\ markers' = w.markers /\ current' = w.current /\ stopped' = w.stopped
      /\ cut' = (cut \/ (w.cancels /\ pc = "speak"))
      /\ hand' = hand /\ pc' = pc /\ buffer' = buffer /\ newest' = newest /\ ended' = ended
  BY DEF Effects, CancelIf, Still
<1>2. (Own(queue, hand, markers))' /\ (Bare(queue, hand, markers))'
  BY <1>1 DEF Sole, Own, Bare
<1>3. (Once(queue, current, markers, stopped))'
  BY <1>1 DEF Sole, Once, Counts, Same, Carried
<1>4. (Alone(queue, current, markers, Parks(chooser), stopped))'
  <2> SUFFICES ASSUME NEW p \in Parks(chooser'), NEW m \in w.markers, Same(m, p), Counts(m)
               PROVE  /\ Flows(m.session, stopped)' => m.id \notin Ids(w.queue[m.session])
                      /\ w.current # None => w.current.id # m.id
    BY <1>1 DEF Alone, Counts, Same, Parks
  <2>1. m.session \in Session /\ m.session # None
    BY NoneAssumption DEF Sole, Work, WorkSet, MarkerSet
  <2>2. Flows(m.session, stopped)' => Flows(m.session, w.stopped)
    BY <1>1, <2>1 DEF Unraced, Flows
  <2> QED
    BY <2>2 DEF Sole, Alone
<1>5. (OfCaptured(chooser))'
  BY DEF OfCaptured
<1>6. (Unqueued(markers \union Parks(chooser)))'
  <2>1. ASSUME NEW x \in markers' \union Parks(chooser') PROVE \E k \in markers \union Parks(chooser) : Same(x, k)
    BY <1>1 DEF Sole, Had
  <2>2. Unqueued(markers \union Parks(chooser))
    BY DEF OnceInv
  <2>3. Unqueued(markers' \union Parks(chooser'))
    BY <2>1, <2>2 DEF Unqueued, Same
  <2> QED
    BY <1>1, <2>3 DEF Unqueued, Parks
<1>7. hand' # None /\ current' = None /\ pc' = "speak" => cut'
  BY <1>1 DEF Sole
<1> QED
  BY <1>2, <1>3, <1>4, <1>5, <1>6, <1>7 DEF OnceInv

LEMMA SoleDelivery ==
    ASSUME NoJumps, DaemonInv, OnceInv, Unraced, Still, NEW w, NEW ch \in BrowseSet, Sole(w, ch.entry),
           OfCaptured(ch), Had(ch.entry), DeliverPreview(w, ch)
    PROVE  OnceInv'
<1> DEFINE r == RemovePreview(w, ch)
           v == [r EXCEPT !.cancels = TRUE]
           dest == PreviewDest
           cue == Cue(v.id + 1, dest)
           p == PutFront(v, cue)
<1>1. Sole(r, ch.entry)
  BY SoleRemoved
<1> HIDE DEF r
<1>2. Work(v) /\ v.queue = r.queue /\ v.id = r.id /\ v.markers = r.markers /\ v.stopped = r.stopped
  BY <1>1, CancelsWorks DEF Sole
<1>3. v.current = r.current /\ v.cancels
  <2>1. r \in WorkSet
    BY <1>1 DEF Sole, Work
  <2> QED
    BY <2>1 DEF WorkSet
<1> HIDE DEF v
<1>4. Sole(v, ch.entry)
  BY <1>1, <1>2, <1>3 DEF Sole
<1>5. ASSUME NEW n \in Nat, chooser' = [ch EXCEPT !.preview = n]
      PROVE  Parks(chooser') \subseteq ch.entry /\ OfCaptured(chooser') /\ Had(Parks(chooser'))
  <2>1. chooser' # None /\ (chooser').entry = ch.entry /\ (chooser').captured = ch.captured
    <3>1. chooser' \in BrowseSet
      BY <1>5 DEF BrowseSet
    <3> QED
      BY <1>5, <3>1, BrowseAssumption DEF BrowseSet
  <2>2. ch # None
    BY BrowseAssumption
  <2>3. Parks(chooser') = ch.entry
    BY <2>1 DEF Parks
  <2> QED
    BY <2>1, <2>2, <2>3 DEF OfCaptured
<1>6. CASE dest = None
  <2>1. Effects(v) /\ chooser' = [ch EXCEPT !.preview = 0]
    BY <1>6 DEF DeliverPreview, v, r
  <2> QED
    BY <1>4, <1>5, <2>1, SoleOver
<1>7. CASE dest # None
  <2>1. Effects(p) /\ chooser' = [ch EXCEPT !.preview = v.id + 1]
    BY <1>7 DEF DeliverPreview, v, r
  <2>2. dest \in Session
    BY <1>7 DEF PreviewDest, Workspace, DaemonInv, QueueInv, RosterTypes
  <2> HIDE DEF dest
  <2>3. v.id \in Nat /\ v.id + 1 \in Nat
    BY <1>2 DEF Work, WorkSet
  <2>4. cue \in ItemSet /\ cue.id = v.id + 1
    BY <2>2, <2>3 DEF Cue, Item, ItemSet
  <2> HIDE DEF cue
  <2>5. Sole(p, ch.entry)
    BY <1>4, <2>4, SoleFront
  <2> HIDE DEF p
  <2> QED
    BY <1>5, <2>1, <2>3, <2>5, SoleOver
<1> QED
  BY <1>6, <1>7

LEMMA SoleStep ==
    ASSUME NoJumps, BrowseInv, OnceInv, Unraced, Still, NEW i \in DOMAIN wire, ChooserStep(i)
    PROVE  OnceInv'
<1>1. wire[i].by \in {1, 0, -1}
  <2>1. wire[i] \in Wire
    BY DEF BrowseInv, WireTypes
  <2> QED
    BY <2>1 DEF Wire
<1>2. CASE StepOn(wire[i])
  <2> DEFINE t == Turned(chooser, wire[i].by)
  <2>1. chooser # None /\ chooser \in BrowseSet /\ chooser.candidates # <<>>
    BY <1>2 DEF StepOn, IsOpen, BrowseInv, Opened, BrowseSet
  <2>2. /\ t \in BrowseSet /\ t.entry = chooser.entry /\ t.captured = chooser.captured
        /\ DeliverPreview(Untouched, t)
    BY <1>1, <1>2, <2>1, TurnedOpened DEF StepOn
  <2> HIDE DEF t
  <2>3. Sole(Untouched, t.entry)
    BY <2>1, <2>2, SoleBegins DEF Parks
  <2>4. OfCaptured(t)
    BY <2>1, <2>2 DEF OnceInv, OfCaptured
  <2>5. Had(t.entry)
    BY <2>1, <2>2 DEF Had, Parks, Same
  <2> QED
    BY <2>2, <2>3, <2>4, <2>5, SoleDelivery DEF BrowseInv
<1>3. CASE StepOpens(wire[i])
  <2>1. PICK candidates \in Snapshots \ {<<>>} :
           DeliverPreview(Cuts(Expired), Turned(Opening(Expired, candidates), wire[i].by))
    BY <1>3 DEF StepOpens
  <2> DEFINE o == Opening(Expired, candidates)
             t == Turned(o, wire[i].by)
             w == Cuts(Expired)
  <2>2. Sole(Expired, {})
    BY <1>3, SoleExpired DEF StepOpens
  <2>3. candidates \in Seq(Session)
    BY <2>1, SnapshotSeq DEF BrowseInv
  <2>4. o \in BrowseSet /\ o.candidates # <<>>
    BY <2>1, <2>2, <2>3, OpeningOpened DEF BrowseInv, Sole
  <2>5. /\ Sole(w, o.entry) /\ o.entry \subseteq Expired.markers
        /\ \A p \in o.entry : /\ o.captured # None /\ p.session = o.captured.session
                               /\ ~ o.captured.cue
    BY <2>2, SoleCuts DEF BrowseInv
  <2>6. t \in BrowseSet /\ DeliverPreview(w, t) /\ t.entry = o.entry /\ t.captured = o.captured
    <3> HIDE DEF o
    <3> QED
      BY <1>1, <2>1, <2>4, TurnedOpened DEF o
  <2> HIDE DEF t, o, w
  <2>7. OfCaptured(t)
    BY <2>5, <2>6 DEF OfCaptured
  <2>8. Had(t.entry)
    BY <2>2, <2>5, <2>6 DEF Had, Sole
  <2> QED
    BY <2>5, <2>6, <2>7, <2>8, SoleDelivery DEF BrowseInv
<1>4. CASE NobodyToBrowse
  <2>1. Sole(Expired, {}) /\ Effects(Expired) /\ chooser' = None
    BY <1>4, SoleExpired DEF NobodyToBrowse
  <2>2. Parks(chooser') \subseteq {} /\ OfCaptured(chooser') /\ Had(Parks(chooser'))
    BY <2>1 DEF Parks, OfCaptured, Had
  <2> QED
    BY <2>1, <2>2, SoleOver DEF BrowseInv
<1> QED
  BY <1>2, <1>3, <1>4 DEF ChooserStep

LEMMA SoleLanding ==
    ASSUME NoJumps, BrowseInv, OnceInv, Unraced, Still, IsOpen, NEW s \in Live, Landing(s)
    PROVE  OnceInv'
<1> DEFINE r == RemovePreview(Untouched, chooser)
           c == [r EXCEPT !.cancels = TRUE, !.present = @ \union {s}]
           cue == Cue(c.id + 1, s)
           p == PutFront(c, cue)
<1>1. chooser # None /\ s \in Session
  BY DEF IsOpen, Live, BrowseInv, DaemonInv, QueueInv, RosterTypes
<1>2. Sole(r, Parks(chooser))
  BY SoleBegins, SoleRemoved
<1>3. Effects(p) /\ chooser' = None
  BY DEF Landing, Closes
<1> HIDE DEF r
<1>4. Sole(c, Parks(chooser))
  <2> DEFINE S == r.present \union {s}
             x == TRUE
  <2>1. r \in WorkSet /\ Work(r)
    BY <1>2 DEF Sole, Work
  <2>2. S \in SUBSET Session /\ r.present \subseteq S /\ x \in BOOLEAN
    BY <1>1, <2>1 DEF WorkSet
  <2>3. c = [r EXCEPT !.cancels = x, !.present = S]
    OBVIOUS
  <2> HIDE DEF S, c, x
  <2>4. c = [queue |-> r.queue, markers |-> r.markers, id |-> r.id, present |-> S,
             stopped |-> r.stopped, current |-> r.current, cancels |-> x]
    BY <2>1, <2>3 DEF WorkSet
  <2>5. c \in WorkSet
    BY <2>1, <2>2, <2>4 DEF WorkSet
  <2>6. Work(c)
    BY <2>1, <2>2, <2>4, <2>5 DEF Work
  <2>7. c.cancels = TRUE
    BY <2>4 DEF x
  <2> QED
    BY <1>2, <2>4, <2>6, <2>7 DEF Sole
<1> HIDE DEF c
<1>5. cue \in ItemSet /\ cue.id = c.id + 1
  <2>1. c.id + 1 \in Nat
    BY <1>4 DEF Sole, Work, WorkSet
  <2> QED
    BY <1>1, <2>1 DEF Cue, Item, ItemSet
<1> HIDE DEF cue
<1>6. Sole(p, Parks(chooser))
  BY <1>4, <1>5, SoleFront DEF BrowseInv
<1> HIDE DEF p
<1>7. Parks(chooser') \subseteq Parks(chooser) /\ OfCaptured(chooser') /\ Had(Parks(chooser'))
  BY <1>3 DEF Parks, OfCaptured, Had
<1> QED
  BY <1>3, <1>6, <1>7, SoleOver DEF BrowseInv

LEMMA SoleClosers ==
    ASSUME NoJumps, BrowseInv, OnceInv, Unraced, Still, NEW i \in DOMAIN wire,
           ChooserCommit(i) \/ ChooserDigit(i) \/ ChooserCancel(i)
    PROVE  OnceInv'
<1>1. Sole(Untouched, Parks(chooser)) /\ Sole(ClosedWord(Untouched), Parks(chooser))
  BY SoleBegins, SoleWord
<1>2. ASSUME NEW w, Sole(w, {}), Effects(w), chooser' = None PROVE OnceInv'
  <2>1. Parks(chooser') \subseteq {} /\ OfCaptured(chooser') /\ Had(Parks(chooser'))
    BY <1>2 DEF Parks, OfCaptured, Had
  <2> QED
    BY <1>2, <2>1, SoleOver DEF BrowseInv
<1>3. CASE ~ IsOpen /\ chooser' = None /\ Ends(Expired)
  BY <1>2, <1>3, SoleExpired DEF Ends
<1>4. CASE /\ IsOpen /\ chooser' = None
           /\ Ends(Restored(Untouched, chooser)) \/ Ends(Restored(ClosedWord(Untouched), chooser))
  <2>1. Parks(chooser) = chooser.entry /\ Browsing(chooser, nextId) /\ chooser # None /\ OfCaptured(chooser)
    BY <1>4, OpenedBrowses DEF IsOpen, Parks, BrowseInv, OnceInv
  <2>2. Sole(Restored(Untouched, chooser), {}) /\ Sole(Restored(ClosedWord(Untouched), chooser), {})
    BY <1>1, <2>1, SoleRestored DEF BrowseInv
  <2> QED
    BY <1>2, <1>4, <2>2 DEF Ends
<1>5. CASE UNCHANGED chooser /\ (Ends(Untouched) \/ Ends(ClosedWord(Untouched)))
  <2>1. PICK w \in {Untouched, ClosedWord(Untouched)} : Effects(w)
    BY <1>5 DEF Ends
  <2>2. Sole(w, Parks(chooser)) /\ chooser' = chooser
    BY <1>1, <1>5
  <2>3. Parks(chooser') \subseteq Parks(chooser) /\ OfCaptured(chooser') /\ Had(Parks(chooser'))
    BY <2>2 DEF OnceInv, Had, Same
  <2> QED
    BY <2>1, <2>2, <2>3, SoleOver DEF BrowseInv
<1>6. CASE IsOpen /\ \E s \in Live : Landing(s)
  BY <1>6, SoleLanding
<1> QED
  BY <1>3, <1>4, <1>5, <1>6, CloserOutcomes

\* No message of a session is the loop's business.
LEMMA ReportsApart ==
    ASSUME NEW s \in Session, Report(s)
    PROVE  UNCHANGED <<pc, hand, current>>
<1>1. CASE Prose(s) \/ ProsePartial(s) \/ Flush(s)
  BY <1>1 DEF Prose, ProsePartial, Flush, HostUntouched, loopVars
<1>2. CASE Tool(s) \/ Decision(s) \/ TurnDone(s)
  BY <1>2 DEF Tool, Decision, TurnDone, Announce, HostUntouched, loopVars
<1>3. CASE SetForeground(s) \/ SessionStart(s) \/ SessionEnd(s) \/ TerminalCloses(s)
  BY <1>3 DEF SetForeground, SessionStart, SessionEnd, TerminalCloses, loopVars
<1> QED
  BY <1>1, <1>2, <1>3 DEF Report

\* The claim and the hand change together.
LEMMA ClaimMoves ==
    ASSUME [Next]_vars
    PROVE  \/ UNCHANGED <<current, hand>>
           \/ current' = None /\ hand' = None
           \/ current' = hand' /\ (PopHeldCue \/ PopOwn \/ Adopt)
<1>1. CASE AudioFault \/ UNCHANGED vars
  BY <1>1 DEF AudioFault, vars, loopVars
<1>2. CASE LoopStep
  BY <1>2 DEF LoopStep, PopHeldCue, NoHeldCue, CheckStopped, PopOwn, Adopt, NothingToSay, Claim, EndTurn,
     SpeakCompletes, SpeakCut, SpeakRaises, SignalFailure, Requeue, TailDone, NoteSpoken
<1>3. CASE Press
  BY <1>3 DEF Press, Stop, Skip, SkipPile, NothingToSkip, StartSession, StopSession, StopAll, NoDecisionHere,
     DecisionClosed, JumpDecision, RepeatLast, NothingToRepeat, JumpWaiting, NobodyWaiting, OsFocus, AnswerOn,
     LoopUntouched, loopVars
<1>4. CASE \E s \in Session : Report(s)
  BY <1>4, ReportsApart
<1> QED
  BY <1>1, <1>2, <1>3, <1>4 DEF Next

\* The loop gets to the pop boundary by its look at the speaker's flag.
LEMMA Looked ==
    ASSUME [Next]_vars, pc' = "pop"
    PROVE  \/ pc = "pop"
           \/ UNCHANGED <<spk, stopped, queue, hand, current>> /\ ~ IsStopped(spk)
<1>1. CASE AudioFault \/ UNCHANGED vars
  BY <1>1 DEF AudioFault, vars, loopVars
<1>2. CASE LoopStep
  BY <1>2 DEF LoopStep, PopHeldCue, NoHeldCue, CheckStopped, PopOwn, Adopt, NothingToSay, Goto, EndTurn, AfterSpeech,
     SpeakCompletes, SpeakCut, SpeakRaises, SignalFailure, Requeue, TailDone, NoteSpoken, streamVars, flagVars, rosterVars
<1>3. CASE Press
  BY <1>3 DEF Press, Stop, Skip, SkipPile, NothingToSkip, StartSession, StopSession, StopAll, NoDecisionHere,
     DecisionClosed, JumpDecision, RepeatLast, NothingToRepeat, JumpWaiting, NobodyWaiting, OsFocus, AnswerOn,
     LoopUntouched, loopVars
<1>4. CASE \E s \in Session : Report(s)
  BY <1>4, ReportsApart
<1> QED
  BY <1>1, <1>2, <1>3, <1>4 DEF Next

\* What is cut stays cut as long as it is being voiced.
LEMMA CutLasts ==
    ASSUME [Next]_vars, pc' = "speak"
    PROVE  \/ pc = "speak" /\ UNCHANGED <<hand, current>> /\ (cut => cut')
           \/ current' = hand'
<1>1. CASE AudioFault \/ UNCHANGED vars
  BY <1>1 DEF AudioFault, vars, loopVars
<1>2. CASE LoopStep
  BY <1>2 DEF LoopStep, PopHeldCue, NoHeldCue, CheckStopped, PopOwn, Adopt, NothingToSay, Goto, EndTurn, AfterSpeech, Claim,
     SpeakCompletes, SpeakCut, SpeakRaises, SignalFailure, Requeue, TailDone, NoteSpoken
<1>3. CASE Press
  BY <1>3 DEF Press, Stop, Skip, SkipPile, NothingToSkip, StartSession, StopSession, StopAll, NoDecisionHere,
     DecisionClosed, JumpDecision, RepeatLast, NothingToRepeat, JumpWaiting, NobodyWaiting, OsFocus, AnswerOn,
     LoopUntouched, loopVars, Cancel, CancelIf
<1>4. CASE \E s \in Session : Report(s)
  <2>1. PICK s \in Session : Report(s)
    BY <1>4
  <2>2. UNCHANGED <<pc, hand, current>>
    BY <2>1, ReportsApart
  <2>3. cut => cut'
    <3>1. CASE Flush(s)
      BY <3>1 DEF Flush, CancelIf
    <3>2. CASE ~ Flush(s)
      <4>1. UNCHANGED cut
        BY <2>1, <3>2 DEF Report, Prose, ProsePartial, Tool, Decision, TurnDone, SetForeground, SessionStart,
           SessionEnd, TerminalCloses, Announce
      <4> QED
        BY <4>1
    <3> QED
      BY <3>1, <3>2
  <2> QED
    BY <2>2, <2>3
<1> QED
  BY <1>1, <1>2, <1>3, <1>4 DEF Next

\* What is popped flows, or is a cue.
LEMMA PopsFlow ==
    ASSUME QueueInv, PopHeldCue \/ PopOwn \/ Adopt
    PROVE  hand' # None /\ (hand'.cue \/ Flows(hand'.session, stopped))
<1>1. CASE PopHeldCue
  <2> DEFINE s == OldestHeldCue
  <2>1. s \in HoldingCue /\ s \in Session
    BY <1>1, OldestIsHolding DEF PopHeldCue, HoldingCue, QueueInv
  <2>2. hand' = queue[s][CueAt(queue[s])] /\ HasCue(queue[s])
    BY <1>1, <2>1 DEF PopHeldCue, Claim, HoldingCue
  <2> HIDE DEF s
  <2>3. queue[s] \in Seq(ItemSet)
    BY <2>1 DEF QueueInv, Queues, Sound
  <2>4. CueAt(queue[s]) \in 1..Len(queue[s]) /\ queue[s][CueAt(queue[s])].cue
    BY <2>2, <2>3, CuePlace
  <2> QED
    BY <2>2, <2>3, <2>4, NoneAssumption
<1>2. CASE PopOwn
  <2>1. hand = None /\ pc = "pop"
    BY <1>2 DEF PopOwn, QueueInv, Hands, Idle
  <2>2. hand' = Head(queue[HeldVoice]) /\ HeldVoice \in Session /\ queue[HeldVoice] # <<>> /\ HeldVoice = spk
    BY <1>2 DEF PopOwn, Claim, OwnQueueEmpty, HeldVoice, QueueInv, RosterTypes
  <2>3. hand'.session = HeldVoice /\ hand' \in ItemSet
    BY <2>1, <2>2, PoppedHead DEF QueueInv, Queues, Of
  <2> QED
    BY <2>1, <2>2, <2>3, NoneAssumption DEF Flows
<1>3. CASE Adopt
  <2> DEFINE s == LongestWaiting
  <2>1. hand = None /\ s \in Waiting
    BY <1>3, LongestIsWaiting DEF Adopt, QueueInv, Hands, Idle
  <2>2. s \in Session /\ queue[s] # <<>> /\ ~ stopped[s]
    BY <2>1 DEF Waiting, QueueInv, RosterTypes
  <2>3. hand' = Cue(nextId + 1, s) \/ hand' = Head(queue[s])
    BY <1>3 DEF Adopt, Claim
  <2>4. Cue(nextId + 1, s).cue /\ Cue(nextId + 1, s) \in ItemSet
    BY <2>2, LastId, Words DEF Cue, Item, Of
  <2>5. Head(queue[s]).session = s /\ Head(queue[s]) \in ItemSet
    BY <2>1, <2>2, PoppedHead DEF QueueInv, Queues, Of
  <2> QED
    BY <2>2, <2>3, <2>4, <2>5, NoneAssumption DEF Flows
<1> QED
  BY <1>1, <1>2, <1>3

\* What any other step does to the markers: the entries of a session are let go
\* of, or one is buffered behind them, or what is buffered is queued.
Held(s) == Append(buffer[s], newest[s] + 1)

Gathers(s, entries) ==
    /\ entries = buffer[s] \/ (entries = Held(s) /\ newest'[s] = newest[s] + 1)
    /\ \/ buffer' = [buffer EXCEPT ![s] = entries] /\ markers' \subseteq markers
       \/ /\ buffer' = [buffer EXCEPT ![s] = <<>>]
          /\ \E kinds : EnqueueReadout(s, entries, kinds)
          /\ UNCHANGED <<hand, current>>

NoRepeats == "REPEAT_LAST" \notin Messages

LEMMA NextGathers ==
    ASSUME NoRepeats, NumInv, [Next]_vars
    PROVE  \/ markers' \subseteq markers /\ \A s \in Session : buffer'[s] \in {buffer[s], <<>>}
           \/ \E s \in Session : \E entries \in Seq(Nat) : Gathers(s, entries)
<1>1. CASE UNCHANGED vars \/ LoopStep \/ AudioFault
  <2>1. markers' \subseteq markers /\ UNCHANGED buffer
    BY <1>1, LoopEntries DEF AudioFault, vars, streamVars, ledgerVars
  <2> QED
    BY <2>1
<1>2. CASE Press
  <2>1. ~ RepeatLast
    BY DEF NoRepeats, RepeatLast, Receive
  <2>2. markers' \subseteq markers
    BY <1>2, <2>1, PressEntries DEF SkipPile, StartSession, Without
  <2>3. UNCHANGED buffer \/ buffer' = [buffer EXCEPT ![StartTarget] = <<>>]
    BY <1>2, <2>1, PressEntries DEF SkipPile, StartSession, Numbers
  <2>4. \A s \in Session : buffer'[s] \in {buffer[s], <<>>}
    BY <2>3 DEF NumInv
  <2> QED
    BY <2>2, <2>4
<1>3. CASE \E s \in Session : Report(s)
  <2>1. PICK s \in Session : Report(s)
    BY <1>3
  <2>2. UNCHANGED <<hand, current>>
    BY <2>1 DEF Report, Prose, ProsePartial, Tool, Decision, TurnDone, Flush, SetForeground, SessionStart, SessionEnd,
       TerminalCloses, Announce, HostUntouched, loopVars
  <2>3. CASE ProsePartial(s) \/ SetForeground(s) \/ SessionStart(s) \/ TerminalCloses(s)
    BY <2>3, ReportEntries DEF Numbers
  <2>4. CASE Flush(s) \/ SessionEnd(s)
    <3>1. markers' \subseteq markers /\ buffer' = [buffer EXCEPT ![s] = <<>>]
      BY <2>4 DEF Flush, SessionEnd, Without
    <3> QED
      BY <3>1 DEF NumInv
  <2>5. buffer[s] \in Seq(Nat) /\ Held(s) \in Seq(Nat) /\ newest \in [Session -> Nat]
    BY NextEntry DEF NumInv, Held
  <2>6. CASE Tool(s) \/ Decision(s)
    <3>1. PICK kind : Announce(s, kind)
      BY <2>6 DEF Tool, Decision
    <3>2. /\ EnqueueReadout(s, Held(s), Append(ProseKinds(Len(buffer[s])), kind))
          /\ buffer' = [buffer EXCEPT ![s] = <<>>] /\ newest'[s] = newest[s] + 1
      BY <2>5, <3>1 DEF Announce, Held
    <3>3. Gathers(s, Held(s))
      BY <2>2, <3>2 DEF Gathers
    <3> QED
      BY <2>5, <3>3
  <2>7. CASE Prose(s)
    <3>1. /\ newest'[s] = newest[s] + 1
          /\ \/ buffer' = [buffer EXCEPT ![s] = <<>>] /\ EnqueueReadout(s, Held(s), ProseKinds(Len(Held(s))))
             \/ buffer' = [buffer EXCEPT ![s] = Held(s)] /\ UNCHANGED markers
      BY <2>5, <2>7 DEF Prose, Held
    <3>2. Gathers(s, Held(s))
      BY <2>2, <3>1 DEF Gathers
    <3> QED
      BY <2>5, <3>2
  <2>8. CASE TurnDone(s)
    <3>1. EnqueueReadout(s, buffer[s], ProseKinds(Len(buffer[s]))) /\ buffer' = [buffer EXCEPT ![s] = <<>>]
      BY <2>8 DEF TurnDone
    <3>2. Gathers(s, buffer[s])
      BY <2>2, <3>1 DEF Gathers
    <3> QED
      BY <2>5, <3>2
  <2> QED
    BY <2>1, <2>3, <2>4, <2>6, <2>7, <2>8 DEF Report
<1> QED
  BY <1>1, <1>2, <1>3 DEF Next

\* A session that has not ended counts on.
Renumbers == ended' = ended \union {s \in Session : newest'[s] < newest[s]}

LEMMA CountsOn ==
    ASSUME NumInv, NumInv', Renumbers, NEW s \in Session, s \notin ended'
    PROVE  s \notin ended /\ newest[s] <= newest'[s] /\ newest[s] \in Nat /\ newest'[s] \in Nat
<1>1. newest[s] \in Nat /\ newest'[s] \in Nat
  BY DEF NumInv
<1>2. ~ (newest'[s] < newest[s]) /\ s \notin ended
  BY DEF Renumbers
<1> QED
  BY <1>1, <1>2

\* The entries that are queued, in hand or parked, and those gathered behind.
Issued == markers \union Parks(chooser)

Apt(s, entries, X) ==
    /\ \A i, j \in DOMAIN entries : entries[i] = entries[j] => i = j
    /\ \A x \in X : x.session = s => \A i \in DOMAIN entries : entries[i] # x.entry

LEMMA HeldApt ==
    ASSUME NumInv, NumInv', Renumbers, Unqueued(Issued), Issued \subseteq MarkerSet,
           NEW s \in Session, s \notin ended', NEW entries, Gathers(s, entries)
    PROVE  Apt(s, entries, Issued) /\ \A i \in DOMAIN entries : entries[i] <= newest'[s]
<1> DEFINE n == Len(buffer[s])
<1>1. s \notin ended /\ newest[s] <= newest'[s] /\ newest[s] \in Nat /\ newest'[s] \in Nat
  BY CountsOn
<1>2. /\ \A i, j \in DOMAIN buffer[s] : buffer[s][i] = buffer[s][j] => i = j
      /\ \A i \in DOMAIN buffer[s] : buffer[s][i] <= newest[s]
      /\ \A x \in Issued : x.session = s =>
            x.entry <= newest[s] /\ \A i \in DOMAIN buffer[s] : buffer[s][i] # x.entry
  BY <1>1 DEF Unqueued
<1>3. \A i \in DOMAIN buffer[s] : buffer[s][i] \in Nat
  BY DEF NumInv
<1>4. CASE entries = buffer[s]
  <2>1. \A i \in DOMAIN entries : entries[i] <= newest'[s]
    BY <1>1, <1>2, <1>3, <1>4
  <2> QED
    BY <1>2, <1>4, <2>1 DEF Apt
<1>5. CASE entries = Held(s) /\ newest'[s] = newest[s] + 1
  <2>1. /\ DOMAIN entries = 1..(n + 1) /\ n \in Nat /\ DOMAIN buffer[s] = 1..n
        /\ \A i \in 1..n : entries[i] = buffer[s][i]
        /\ entries[n + 1] = newest[s] + 1
    BY <1>5, NextEntry DEF Held
  <2> HIDE DEF n
  <2>2. \A i \in DOMAIN entries : i \in 1..n \/ i = n + 1
    BY <2>1
  <2>3. \A i \in 1..n : entries[i] \in Nat /\ entries[i] <= newest[s]
    BY <1>2, <1>3, <2>1
  <2>4. \A i \in 1..n : entries[i] # entries[n + 1] /\ entries[i] <= newest'[s]
    <3> SUFFICES ASSUME NEW i \in 1..n PROVE entries[i] # entries[n + 1] /\ entries[i] <= newest'[s]
      OBVIOUS
    <3>1. entries[i] \in Nat /\ entries[i] <= newest[s]
      BY <2>3
    <3> QED
      BY <1>1, <1>5, <2>1, <3>1
  <2>5. entries[n + 1] <= newest'[s]
    BY <1>1, <1>5, <2>1
  <2>6. ASSUME NEW i \in DOMAIN entries, NEW j \in DOMAIN entries, entries[i] = entries[j] PROVE i = j
    BY <1>2, <2>1, <2>2, <2>4, <2>6
  <2>7. ASSUME NEW x \in Issued, x.session = s, NEW i \in DOMAIN entries PROVE entries[i] # x.entry
    <3>1. CASE i \in 1..n
      BY <1>2, <2>1, <2>7, <3>1
    <3>2. CASE i = n + 1
      <4>1. x.entry <= newest[s] /\ x.entry \in Nat /\ entries[i] = newest[s] + 1
        BY <1>2, <2>1, <2>7, <3>2 DEF MarkerSet
      <4> QED
        BY <1>1, <4>1
    <3> QED
      BY <2>2, <3>1, <3>2
  <2> QED
    BY <2>2, <2>4, <2>5, <2>6, <2>7 DEF Apt
<1> QED
  BY <1>4, <1>5 DEF Gathers

\* A marker that a step binds is of an entry nobody has queued, and each entry
\* gets one.
Unbound ==
    \A m \in markers' : m \notin markers /\ m.session \notin ended' =>
        /\ \A x \in Issued : ~ Same(m, x)
        /\ \A n \in markers' : n \notin markers /\ Same(m, n) => m.id = n.id

LEMMA UnqueuedKept ==
    ASSUME NumInv, NumInv', Renumbers, Unqueued(Issued), Issued \subseteq MarkerSet, UNCHANGED chooser,
           markers' \subseteq markers, \A s \in Session : buffer'[s] \in {buffer[s], <<>>}
    PROVE  Unqueued(Issued)'
<1>1. Issued' \subseteq Issued
  BY DEF Issued
<1> SUFFICES ASSUME NEW s \in Session, s \notin ended'
             PROVE  /\ \A i, j \in DOMAIN buffer'[s] : buffer'[s][i] = buffer'[s][j] => i = j
                    /\ \A i \in DOMAIN buffer'[s] : buffer'[s][i] <= newest'[s]
                    /\ \A x \in Issued' : x.session = s =>
                          x.entry <= newest'[s] /\ \A i \in DOMAIN buffer'[s] : buffer'[s][i] # x.entry
  BY DEF Unqueued
<1>2. s \notin ended /\ newest[s] <= newest'[s] /\ newest[s] \in Nat /\ newest'[s] \in Nat
  BY CountsOn
<1>3. /\ \A i, j \in DOMAIN buffer[s] : buffer[s][i] = buffer[s][j] => i = j
      /\ \A i \in DOMAIN buffer[s] : buffer[s][i] <= newest[s]
      /\ \A x \in Issued : x.session = s =>
            x.entry <= newest[s] /\ \A i \in DOMAIN buffer[s] : buffer[s][i] # x.entry
  BY <1>2 DEF Unqueued
<1>4. \A i \in DOMAIN buffer[s] : buffer[s][i] \in Nat
  BY DEF NumInv
<1>5. \A x \in Issued : x.entry \in Nat
  BY DEF MarkerSet
<1>6. \A i \in DOMAIN buffer[s] : buffer[s][i] <= newest'[s]
  BY <1>2, <1>3, <1>4
<1>7. \A x \in Issued : x.session = s => x.entry <= newest'[s]
  BY <1>2, <1>3, <1>5
<1>8. CASE buffer'[s] = buffer[s]
  BY <1>1, <1>3, <1>6, <1>7, <1>8
<1>9. CASE buffer'[s] = <<>>
  BY <1>1, <1>7, <1>9
<1> QED
  BY <1>8, <1>9

LEMMA UnqueuedGathered ==
    ASSUME NumInv, NumInv', Renumbers, Unqueued(Issued), Issued \subseteq MarkerSet, UNCHANGED chooser,
           NEW s \in Session, NEW entries \in Seq(Nat), Gathers(s, entries)
    PROVE  Unqueued(Issued)' /\ Unbound
<1>1. buffer \in [Session -> Seq(Nat)]
  BY DEF NumInv
<1>2. \A m \in markers' : \/ m \in markers
                          \/ /\ buffer'[s] = <<>>
                             /\ \E i \in DOMAIN entries : m.id = nextId + i /\ m.session = s /\ m.entry = entries[i]
  <2>1. CASE markers' \subseteq markers
    BY <2>1
  <2>2. CASE buffer' = [buffer EXCEPT ![s] = <<>>] /\ \E kinds : EnqueueReadout(s, entries, kinds)
    <3>1. PICK kinds : EnqueueReadout(s, entries, kinds)
      BY <2>2
    <3>2. buffer'[s] = <<>>
      BY <1>1, <2>2
    <3>3. \A m \in markers' : m \in markers \/ \E i \in DOMAIN entries : m = Marker(nextId + i, s, entries[i])
      BY <3>1, ReadoutMarkers
    <3> QED
      BY <3>2, <3>3 DEF Marker
  <2> QED
    BY <2>1, <2>2 DEF Gathers
<1>3. buffer'[s] \in {entries, <<>>} /\ \A t \in Session : t # s => buffer'[t] = buffer[t]
  BY <1>1 DEF Gathers
<1>4. s \notin ended' => Apt(s, entries, Issued) /\ \A i \in DOMAIN entries : entries[i] <= newest'[s]
  BY HeldApt
<1>5. Unqueued(Issued)'
  <2> SUFFICES ASSUME NEW t \in Session, t \notin ended'
               PROVE  /\ \A i, j \in DOMAIN buffer'[t] : buffer'[t][i] = buffer'[t][j] => i = j
                      /\ \A i \in DOMAIN buffer'[t] : buffer'[t][i] <= newest'[t]
                      /\ \A x \in Issued' : x.session = t =>
                            x.entry <= newest'[t] /\ \A i \in DOMAIN buffer'[t] : buffer'[t][i] # x.entry
    BY DEF Unqueued
  <2>1. t \notin ended /\ newest[t] <= newest'[t] /\ newest[t] \in Nat /\ newest'[t] \in Nat
    BY CountsOn
  <2>2. /\ \A i, j \in DOMAIN buffer[t] : buffer[t][i] = buffer[t][j] => i = j
        /\ \A i \in DOMAIN buffer[t] : buffer[t][i] <= newest[t]
        /\ \A x \in Issued : x.session = t =>
              x.entry <= newest[t] /\ \A i \in DOMAIN buffer[t] : buffer[t][i] # x.entry
    BY <2>1 DEF Unqueued
  <2>3. \A x \in Issued' : x \in Issued \/ x \in markers'
    BY DEF Issued
  <2>4. \A x \in Issued : x.session = t => x.entry <= newest'[t]
    <3>1. \A x \in Issued : x.entry \in Nat
      BY DEF MarkerSet
    <3> QED
      BY <2>1, <2>2, <3>1
  <2>5. CASE t # s
    <3>1. buffer'[t] = buffer[t] /\ \A x \in Issued' : x.session = t => x \in Issued
      BY <1>2, <1>3, <2>3, <2>5 DEF Issued
    <3>2. \A i \in DOMAIN buffer[t] : buffer[t][i] <= newest'[t]
      <4>1. \A i \in DOMAIN buffer[t] : buffer[t][i] \in Nat
        BY <1>1
      <4> QED
        BY <2>1, <2>2, <4>1
    <3> QED
      BY <2>2, <2>4, <3>1, <3>2
  <2>6. CASE t = s
    <3>1. Apt(t, entries, Issued) /\ \A i \in DOMAIN entries : entries[i] <= newest'[t]
      BY <1>4, <2>6
    <3>2. /\ \A i, j \in DOMAIN buffer'[t] : buffer'[t][i] = buffer'[t][j] => i = j
          /\ \A i \in DOMAIN buffer'[t] : buffer'[t][i] <= newest'[t]
          /\ \A x \in Issued : x.session = t => \A i \in DOMAIN buffer'[t] : buffer'[t][i] # x.entry
      <4>1. CASE buffer'[t] = entries
        BY <3>1, <4>1 DEF Apt
      <4>2. CASE buffer'[t] = <<>>
        BY <4>2
      <4> QED
        BY <1>3, <2>6, <4>1, <4>2
    <3>3. ASSUME NEW x \in Issued', x.session = t
          PROVE  x.entry <= newest'[t] /\ \A i \in DOMAIN buffer'[t] : buffer'[t][i] # x.entry
      <4>1. CASE x \in Issued
        BY <2>4, <3>2, <3>3, <4>1
      <4>2. CASE x \notin Issued
        <5>1. x \in markers' /\ x \notin markers
          BY <2>3, <4>2 DEF Issued
        <5>2. buffer'[t] = <<>> /\ \E i \in DOMAIN entries : x.entry = entries[i]
          BY <1>2, <2>6, <5>1
        <5> QED
          BY <3>1, <5>2
      <4> QED
        BY <4>1, <4>2
    <3> QED
      BY <3>2, <3>3
  <2> QED
    BY <2>5, <2>6
<1>6. Unbound
  <2> SUFFICES ASSUME NEW m \in markers', m \notin markers, m.session \notin ended'
               PROVE  /\ \A x \in Issued : ~ Same(m, x)
                      /\ \A n \in markers' : n \notin markers /\ Same(m, n) => m.id = n.id
    BY DEF Unbound
  <2>1. PICK i \in DOMAIN entries : m.id = nextId + i /\ m.session = s /\ m.entry = entries[i]
    BY <1>2
  <2>2. Apt(s, entries, Issued)
    BY <1>4, <2>1
  <2>3. ASSUME NEW n \in markers', n \notin markers, Same(m, n) PROVE m.id = n.id
    <3>1. PICK j \in DOMAIN entries : n.id = nextId + j /\ n.entry = entries[j]
      BY <1>2, <2>3
    <3>2. i = j
      BY <2>1, <2>2, <2>3, <3>1 DEF Apt, Same
    <3> QED
      BY <2>1, <3>1, <3>2
  <2>4. \A x \in Issued : ~ Same(m, x)
    BY <2>1, <2>2 DEF Apt, Same
  <2> QED
    BY <2>3, <2>4
<1> QED
  BY <1>5, <1>6

LEMMA NextUnqueued ==
    ASSUME NoRepeats, NumInv, Unqueued(Issued), Issued \subseteq MarkerSet,
           [Next]_vars, Renumbers, UNCHANGED chooser
    PROVE  Unqueued(Issued)' /\ Unbound
<1>1. NumInv'
  BY NextNumbers
<1>2. CASE markers' \subseteq markers /\ \A s \in Session : buffer'[s] \in {buffer[s], <<>>}
  <2>1. Unbound
    BY <1>2 DEF Unbound
  <2> QED
    BY <1>1, <1>2, <2>1, UnqueuedKept
<1> QED
  BY <1>1, <1>2, UnqueuedGathered, NextGathers

\* The item of a marker that a step binds is new, no cue, in the queue of its
\* session and in no other.
Begot(m) ==
    /\ m.id \notin 0..nextId
    /\ \A t \in Session : \A i \in DOMAIN queue'[t] :
          queue'[t][i].id = m.id => m.session = t /\ ~ queue'[t][i].cue
    /\ hand' # None => hand'.id # m.id
    /\ current' # None => current'.id # m.id

LEMMA ReadoutBegets ==
    ASSUME QueueInv, NEW s \in Session, NEW entries \in Seq(Nat), NEW kinds,
           EnqueueReadout(s, entries, kinds), UNCHANGED <<hand, current>>,
           NEW m \in markers', m \notin markers
    PROVE  Begot(m)
<1> DEFINE items == Readout(s, entries, kinds)
           T == {it \in Of(s) : it.id \in 0..nextId \/ ~ it.cue}
           r == EnqueueAll(queue[s], items)
<1>1. nextId \in Nat /\ queue \in [Session -> Seq(ItemSet)]
      /\ \A t \in Session : queue[t] \in Seq(Of(t)) /\ Ids(queue[t]) \subseteq 0..nextId
  BY DEF QueueInv, Queues, Sound
<1>2. PICK k \in DOMAIN entries : m.id = nextId + k /\ m.session = s
  BY ReadoutMarkers DEF Marker
<1>3. m.id \notin 0..nextId
  BY <1>1, <1>2
<1>4. queue' = [queue EXCEPT ![s] = r]
  BY DEF EnqueueReadout
<1>5. items \in Seq(T)
  <2>1. items \in Seq(Of(s))
    BY <1>1, ReadoutItems
  <2>2. \A i \in DOMAIN items : ~ items[i].cue
    BY DEF Readout, Item
  <2> HIDE DEF items
  <2>3. items \in [1..Len(items) -> Of(s)] /\ Len(items) \in Nat
    BY <2>1
  <2>4. \A i \in 1..Len(items) : items[i] \in T
    BY <2>2, <2>3
  <2>5. items \in [1..Len(items) -> T]
    BY <2>3, <2>4
  <2> HIDE DEF T
  <2> QED
    BY <2>3, <2>5
<1>6. queue[s] \in Seq(T)
  <2>1. queue[s] \in [1..Len(queue[s]) -> Of(s)] /\ Len(queue[s]) \in Nat
    BY <1>1
  <2>2. \A i \in 1..Len(queue[s]) : queue[s][i].id \in 0..nextId
    BY <1>1, <2>1 DEF Ids
  <2>3. queue[s] \in [1..Len(queue[s]) -> T]
    BY <2>1, <2>2
  <2> HIDE DEF T
  <2> QED
    BY <2>1, <2>3
<1> HIDE DEF items
<1>7. r \in Seq(T)
  <2> HIDE DEF T
  <2> QED
    BY <1>5, <1>6, EnqueueAllIds
<1> HIDE DEF r
<1>8. ASSUME NEW t \in Session, NEW i \in DOMAIN queue'[t], queue'[t][i].id = m.id
      PROVE  m.session = t /\ ~ queue'[t][i].cue
  <2>1. CASE t = s
    <3>1. queue'[t] = r
      BY <1>1, <1>4, <2>1
    <3>2. r[i] \in T
      BY <1>7, <1>8, <3>1
    <3> QED
      BY <1>2, <1>3, <1>8, <2>1, <3>1, <3>2
  <2>2. CASE t # s
    <3>1. queue'[t] = queue[t]
      BY <1>1, <1>4, <2>2
    <3>2. m.id \in 0..nextId
      BY <1>1, <1>8, <3>1 DEF Ids
    <3> QED
      BY <1>3, <3>2
  <2> QED
    BY <2>1, <2>2
<1>9. (hand' # None => hand'.id # m.id) /\ (current' # None => current'.id # m.id)
  BY <1>3 DEF QueueInv, Queues, Sound, Hands
<1> QED
  BY <1>3, <1>8, <1>9 DEF Begot

LEMMA NextBegets ==
    ASSUME NoRepeats, QueueInv, NumInv, [Next]_vars, NEW m \in markers', m \notin markers
    PROVE  Begot(m)
<1>1. PICK s \in Session, entries \in Seq(Nat) : Gathers(s, entries)
  BY NextGathers
<1>2. PICK kinds : EnqueueReadout(s, entries, kinds) /\ UNCHANGED <<hand, current>>
  BY <1>1 DEF Gathers
<1> QED
  BY <1>2, ReadoutBegets

\* An item put first.
LEMMA FrontElements ==
    ASSUME NEW T, NEW q \in Seq(T), NEW it, NEW i \in DOMAIN EnqueueFront(q, it)
    PROVE  EnqueueFront(q, it)[i] = it \/ \E a \in DOMAIN q : EnqueueFront(q, it)[i] = q[a]
<1> DEFINE r == EnqueueFront(q, it)
           n == Len(q)
<1>1. /\ n \in Nat /\ DOMAIN q = 1..n /\ DOMAIN r = 1..(n + 1)
      /\ \A j \in 1..(n + 1) : r[j] = IF j = 1 THEN it ELSE q[j - 1]
  BY DEF EnqueueFront
<1> HIDE DEF r, n
<1>2. i \in 1..(n + 1)
  BY <1>1 DEF r
<1>3. CASE i = 1
  BY <1>1, <1>2, <1>3 DEF r
<1>4. CASE i # 1
  <2>1. i - 1 \in 1..n
    BY <1>1, <1>2, <1>4
  <2> QED
    BY <1>1, <1>2, <1>4, <2>1 DEF r
<1> QED
  BY <1>3, <1>4

\* What a step leaves queued under an old id was queued on the stream before, or
\* is what was cut and returns; a stream that may be popped from was one before.
LEMMA StreamsStay ==
    ASSUME BrowseInv, Unraced, [Next]_vars,
           NEW s \in Session, NEW k \in 0..nextId, k \in Ids(queue'[s])
    PROVE  /\ k \in Ids(queue[s]) \/ (hand # None /\ s = hand.session /\ k = hand.id)
           /\ stopped[s] => stopped'[s]
           /\ Flows(s, stopped)' => k \in Ids(queue[s]) /\ Flows(s, stopped)
<1>1. QueueInv /\ NumInv /\ FlagInv
  BY DEF BrowseInv, DaemonInv
<1>2. Orderly \/ ReturnsIt
  BY <1>1, NextOrderly
<1>3. pc' = "pop" => pc = "pop" \/ (UNCHANGED <<spk, stopped, hand>> /\ ~ IsStopped(spk))
  BY Looked
<1>4. s # None
  BY NoneAssumption
<1>5. CASE Orderly
  <2>1. k \in Ids(queue[s])
    BY <1>5, OldIds DEF Orderly
  <2>2. stopped[s] => stopped'[s]
    BY <1>5 DEF Orderly, New, Ids
  <2>3. ASSUME pc' = "pop", spk' = s, stopped[s] PROVE pc = "pop" /\ spk = s
    <3>1. stopped'[s]
      BY <2>2, <2>3
    <3>2. pc = "pop"
      BY <1>3, <1>4, <2>3 DEF IsStopped
    <3> QED
      BY <1>4, <2>3, <3>1, <3>2 DEF Unraced
  <2> QED
    BY <2>1, <2>2, <2>3 DEF Flows
<1>6. CASE ReturnsIt
  <2> DEFINE h == hand.session
  <2>1. hand # None /\ hand' = None /\ h \in Session /\ queue[h] \in Seq(ItemSet)
        /\ queue \in [Session -> Seq(ItemSet)]
    BY <1>1, <1>6, ItemSession DEF ReturnsIt, QueueInv, Queues, Sound
  <2>2. /\ queue' = [queue EXCEPT ![h] = EnqueueFront(@, hand)]
        /\ stopped'[h] /\ \A t \in Session : stopped[t] => stopped'[t]
    BY <1>6 DEF ReturnsIt
  <2> HIDE DEF h
  <2>3. queue'[h] = EnqueueFront(queue[h], hand) /\ \A t \in Session : t # h => queue'[t] = queue[t]
    BY <2>1, <2>2
  <2>4. Ids(queue'[h]) = Ids(queue[h]) \union {hand.id}
    <3>1. hand \in ItemSet
      BY <1>1, <2>1 DEF QueueInv, Queues, Sound
    <3> QED
      BY <2>1, <2>3, <3>1, EnqueueFrontIds
  <2>5. pc # "pop"
    BY <1>1, <2>1 DEF QueueInv, Hands, Idle
  <2>6. pc' # "pop"
    BY <1>3, <2>1, <2>5
  <2>7. ~ stopped'[s] => s # h /\ ~ stopped[s] /\ k \in Ids(queue[s])
    BY <2>2, <2>3
  <2>8. k \in Ids(queue[s]) \/ (s = h /\ k = hand.id)
    BY <2>3, <2>4
  <2> QED
    BY <2>1, <2>2, <2>6, <2>7, <2>8 DEF Flows, h
<1> QED
  BY <1>2, <1>5, <1>6

\* What the thread takes into its hands is new or the first of a queue.
LEMMA HandsStay ==
    ASSUME BrowseInv, [Next]_vars, hand' # None, hand'.id \in 0..nextId
    PROVE  hand' = hand \/ \E s \in Session : \E k \in DOMAIN queue[s] : hand' = queue[s][k] /\ hand'.session = s
<1>1. QueueInv /\ NumInv /\ FlagInv
  BY DEF BrowseInv, DaemonInv
<1>2. HandOrderly
  BY <1>1, NextOrderly
<1>3. \A s \in Session : \A k \in DOMAIN queue[s] : queue[s][k].session = s
  <2> SUFFICES ASSUME NEW s \in Session, NEW k \in DOMAIN queue[s] PROVE queue[s][k].session = s
    OBVIOUS
  <2>1. queue[s] \in Seq(Of(s))
    BY <1>1 DEF QueueInv, Queues, Sound
  <2>2. queue[s][k] \in Of(s)
    BY <2>1
  <2> QED
    BY <2>2 DEF Of
<1> QED
  BY <1>2, <1>3 DEF HandOrderly, Takes

\* So is what it claims, and then it flowed or is a cue.
LEMMA ClaimsStay ==
    ASSUME BrowseInv, [Next]_vars, current' # None, current'.id \in 0..nextId
    PROVE  \/ current' = current
           \/ \E s \in Session : \E k \in DOMAIN queue[s] :
                 /\ current' = queue[s][k]
                 /\ current'.cue \/ Flows(s, stopped)
<1>1. QueueInv
  BY DEF BrowseInv, DaemonInv
<1>2. CASE current' = hand' /\ (PopHeldCue \/ PopOwn \/ Adopt)
  <2>1. hand' # None /\ (hand'.cue \/ Flows(hand'.session, stopped))
    BY <1>1, <1>2, PopsFlow
  <2>2. hand = None
    BY <1>1, <1>2 DEF PopHeldCue, PopOwn, Adopt, QueueInv, Hands, Idle
  <2>3. hand'.id \in 0..nextId /\ hand' # hand
    BY <1>2, <2>1, <2>2
  <2>4. \E s \in Session : \E k \in DOMAIN queue[s] : hand' = queue[s][k] /\ hand'.session = s
    BY <2>1, <2>3, HandsStay
  <2>5. PICK s \in Session : \E k \in DOMAIN queue[s] : hand' = queue[s][k] /\ hand'.session = s
    BY <2>4
  <2>6. PICK k \in DOMAIN queue[s] : hand' = queue[s][k] /\ hand'.session = s
    BY <2>5
  <2>7. current' = queue[s][k] /\ (current'.cue \/ Flows(s, stopped))
    BY <1>2, <2>1, <2>6
  <2> QED
    BY <2>7
<1> QED
  BY <1>2, ClaimMoves

LEMMA OwnElsewhere ==
    ASSUME NoRepeats, BrowseInv, Own(queue, hand, markers), Unraced, [Next]_vars
    PROVE  Own(queue, hand, markers)'
<1>1. QueueInv /\ NumInv /\ Known
  BY DEF BrowseInv, DaemonInv
<1> SUFFICES ASSUME NEW m \in markers'
             PROVE  /\ \A s \in Session : m.id \in Ids(queue'[s]) => m.session = s
                    /\ hand' # None /\ m.id = hand'.id => m.session = hand'.session
  BY DEF Own
<1>2. CASE m \notin markers
  <2>1. Begot(m)
    BY <1>1, <1>2, NextBegets
  <2> QED
    BY <2>1 DEF Begot, Ids
<1>3. CASE m \in markers
  <2>1. m.id \in 0..nextId
    BY <1>1, <1>3 DEF Known
  <2>2. /\ \A s \in Session : m.id \in Ids(queue[s]) => m.session = s
        /\ hand # None /\ m.id = hand.id => m.session = hand.session
    BY <1>3 DEF Own
  <2>3. \A s \in Session : m.id \in Ids(queue'[s]) => m.session = s
    BY <2>1, <2>2, StreamsStay
  <2>4. ASSUME hand' # None, m.id = hand'.id PROVE m.session = hand'.session
    <3>1. CASE hand' = hand
      BY <2>2, <2>4, <3>1
    <3>2. ASSUME NEW s \in Session, NEW k \in DOMAIN queue[s], hand' = queue[s][k], hand'.session = s
          PROVE  m.session = hand'.session
      BY <2>2, <2>4, <3>2 DEF Ids
    <3> QED
      BY <2>1, <2>4, <3>1, <3>2, HandsStay
  <2> QED
    BY <2>3, <2>4
<1> QED
  BY <1>2, <1>3

LEMMA BareElsewhere ==
    ASSUME NoJumps, NoRepeats, BrowseInv, Bare(queue, hand, markers), [Next]_vars
    PROVE  Bare(queue, hand, markers)'
<1>1. QueueInv /\ NumInv /\ FlagInv /\ Known
  BY DEF BrowseInv, DaemonInv
<1>2. Orderly \/ ReturnsIt
  BY <1>1, NextOrderly
<1> SUFFICES ASSUME NEW m \in markers'
             PROVE  /\ \A s \in Session : \A i \in DOMAIN queue'[s] : queue'[s][i].id = m.id => ~ queue'[s][i].cue
                    /\ hand' # None /\ m.id = hand'.id => ~ hand'.cue
  BY DEF Bare
<1>3. CASE m \notin markers
  <2>1. Begot(m)
    BY <1>1, <1>3, NextBegets
  <2> QED
    BY <2>1 DEF Begot
<1>4. CASE m \in markers
  <2>1. m.id \in 0..nextId
    BY <1>1, <1>4 DEF Known
  <2>2. /\ \A s \in Session : \A i \in DOMAIN queue[s] : queue[s][i].id = m.id => ~ queue[s][i].cue
        /\ hand # None /\ m.id = hand.id => ~ hand.cue
    BY <1>4 DEF Bare
  <2>3. ASSUME NEW s \in Session, NEW i \in DOMAIN queue'[s], queue'[s][i].id = m.id PROVE ~ queue'[s][i].cue
    <3>1. CASE Orderly
      <4>1. Thinned(queue[s], queue'[s], nextId)
        BY <3>1 DEF Orderly, Thin
      <4>2. PICK a \in DOMAIN queue[s] : queue[s][a].id = queue'[s][i].id /\ (queue'[s][i].cue => queue[s][a].cue)
        BY <2>1, <2>3, <4>1 DEF Thinned, NoJumps
      <4> QED
        BY <2>2, <2>3, <4>2
    <3>2. CASE ReturnsIt
      <4>1. hand # None /\ queue' = [queue EXCEPT ![hand.session] = EnqueueFront(@, hand)]
            /\ queue \in [Session -> Seq(ItemSet)] /\ queue[s] \in Seq(ItemSet)
        BY <1>1, <3>2 DEF ReturnsIt, QueueInv, Queues, Sound
      <4>2. CASE s = hand.session
        <5>1. queue'[s] = EnqueueFront(queue[s], hand)
          BY <4>1, <4>2
        <5>2. queue'[s][i] = hand \/ \E a \in DOMAIN queue[s] : queue'[s][i] = queue[s][a]
          BY <4>1, <5>1, FrontElements
        <5> QED
          BY <2>2, <2>3, <4>1, <5>2
      <4>3. CASE s # hand.session
        <5>1. queue'[s] = queue[s]
          BY <4>1, <4>3
        <5> QED
          BY <2>2, <2>3, <5>1
      <4> QED
        BY <4>2, <4>3
    <3> QED
      BY <1>2, <3>1, <3>2
  <2>4. ASSUME hand' # None, m.id = hand'.id PROVE ~ hand'.cue
    <3>1. CASE hand' = hand
      BY <2>2, <2>4, <3>1
    <3>2. ASSUME NEW s \in Session, NEW k \in DOMAIN queue[s], hand' = queue[s][k] PROVE ~ hand'.cue
      BY <2>2, <2>4, <3>2
    <3> QED
      BY <2>1, <2>4, <3>1, <3>2, HandsStay
  <2> QED
    BY <2>3, <2>4
<1> QED
  BY <1>3, <1>4

\* Where a stream is not stopped, what an old marker's id is found on afterwards
\* was there before.
LEMMA CarriedStays ==
    ASSUME BrowseInv, OnceInv, Unraced, [Next]_vars,
           NEW m \in markers, ~ stopped'[m.session], Carried(queue', current', m)
    PROVE  /\ Carried(queue, current, m)
           /\ stopped[m.session] => current' # None /\ current'.id = m.id
<1>1. m.id \in 0..nextId /\ m.session \in Session
  BY DEF BrowseInv, DaemonInv, Known, NumInv, MarkerSet
<1>2. CASE m.id \in Ids(queue'[m.session])
  <2>1. Flows(m.session, stopped)'
    BY DEF Flows
  <2> QED
    BY <1>1, <1>2, <2>1, StreamsStay DEF Carried
<1>3. CASE current' # None /\ current'.id = m.id
  <2>1. CASE current' = current
    BY <1>3, <2>1 DEF Carried
  <2>2. ASSUME NEW s \in Session, NEW k \in DOMAIN queue[s], current' = queue[s][k]
        PROVE  Carried(queue, current, m)
    <3>1. m.id \in Ids(queue[s])
      BY <1>3, <2>2 DEF Ids
    <3>2. m.session = s
      BY <3>1 DEF OnceInv, Own
    <3> QED
      BY <3>1, <3>2 DEF Carried
  <2> QED
    BY <1>1, <1>3, <2>1, <2>2, ClaimsStay
<1> QED
  BY <1>2, <1>3 DEF Carried

LEMMA OnceElsewhere ==
    ASSUME BrowseInv, OnceInv, Unraced, [Next]_vars, ended \subseteq ended', Unbound
    PROVE  Once(queue, current, markers, stopped)'
<1> SUFFICES ASSUME NEW m \in markers', NEW n \in markers', Same(m, n), m.session \notin ended',
                    ~ stopped'[m.session], Carried(queue', current', m), Carried(queue', current', n)
             PROVE  m.id = n.id
  BY DEF Once, Counts, Carried
<1>1. m.session = n.session /\ Same(n, m) /\ m.session \notin ended
  BY DEF Same
<1>2. CASE m \notin markers \/ n \notin markers
  BY <1>1, <1>2 DEF Unbound, Issued
<1>3. CASE m \in markers /\ n \in markers
  <2>1. /\ Carried(queue, current, m) /\ Carried(queue, current, n)
        /\ stopped[m.session] => current'.id = m.id /\ current'.id = n.id
    BY <1>1, <1>3, CarriedStays
  <2> QED
    BY <1>1, <1>3, <2>1 DEF OnceInv, Once, Counts
<1> QED
  BY <1>2, <1>3

LEMMA AloneElsewhere ==
    ASSUME BrowseInv, OnceInv, Unraced, [Next]_vars, ended \subseteq ended', Unbound, UNCHANGED chooser
    PROVE  Alone(queue, current, markers, Parks(chooser), stopped)'
<1> SUFFICES ASSUME NEW p \in Parks(chooser), NEW m \in markers', Same(m, p), m.session \notin ended'
             PROVE  /\ Flows(m.session, stopped)' => m.id \notin Ids(queue'[m.session])
                    /\ current' # None => current'.id # m.id
  BY DEF Alone, Counts, Parks, Flows
<1>1. m \in markers
  BY DEF Unbound, Issued
<1>2. m.session \notin ended /\ m.session \in Session /\ m.id \in 0..nextId
  BY <1>1 DEF BrowseInv, DaemonInv, Known, NumInv, MarkerSet
<1>3. /\ Flows(m.session, stopped) => m.id \notin Ids(queue[m.session])
      /\ current # None => current.id # m.id
  BY <1>1, <1>2 DEF OnceInv, Alone, Counts
<1>4. Flows(m.session, stopped)' => m.id \notin Ids(queue'[m.session])
  BY <1>2, <1>3, StreamsStay
<1>5. ASSUME current' # None, current'.id = m.id PROVE FALSE
  <2>1. CASE current' = current
    BY <1>3, <1>5, <2>1
  <2>2. ASSUME NEW s \in Session, NEW k \in DOMAIN queue[s], current' = queue[s][k],
               current'.cue \/ Flows(s, stopped)
        PROVE  FALSE
    <3>1. m.id \in Ids(queue[s])
      BY <1>5, <2>2 DEF Ids
    <3>2. m.session = s /\ ~ current'.cue
      BY <1>1, <1>5, <2>2, <3>1 DEF OnceInv, Own, Bare
    <3> QED
      BY <1>3, <2>2, <3>1, <3>2
  <2> QED
    BY <1>2, <1>5, <2>1, <2>2, ClaimsStay
<1> QED
  BY <1>4, <1>5

LEMMA ElsewhereOnce ==
    ASSUME NoJumps, NoRepeats, BrowseInv, OnceInv, Unraced, [Next]_vars, UNCHANGED chooser, Renumbers
    PROVE  OnceInv'
<1>1. NumInv /\ Unqueued(Issued)
  BY DEF BrowseInv, DaemonInv, OnceInv, Issued
<1>2. Issued \subseteq MarkerSet
  <2>1. Parks(chooser) \subseteq MarkerSet
    BY DEF Parks, BrowseInv, Opened, BrowseSet
  <2> QED
    BY <1>1, <2>1 DEF Issued, NumInv
<1>3. Unqueued(Issued)' /\ Unbound
  BY <1>1, <1>2, NextUnqueued
<1>4. ended \subseteq ended'
  BY DEF Renumbers
<1>5. Own(queue, hand, markers)' /\ Bare(queue, hand, markers)'
  BY OwnElsewhere, BareElsewhere DEF OnceInv
<1>6. /\ Once(queue, current, markers, stopped)'
      /\ Alone(queue, current, markers, Parks(chooser), stopped)'
  BY <1>3, <1>4, OnceElsewhere, AloneElsewhere
<1>7. OfCaptured(chooser)'
  BY DEF OnceInv, OfCaptured
<1>8. hand' # None /\ current' = None /\ pc' = "speak" => cut'
  BY CutLasts DEF OnceInv
<1>9. Unqueued(markers \union Parks(chooser))'
  BY <1>3 DEF Issued
<1> QED
  BY <1>5, <1>6, <1>7, <1>8, <1>9 DEF OnceInv

\* The types of a browse and of what the daemon keeps beside the queues.
BrowseTypes == RestTypes /\ {lapsed, chord, stray} \subseteq BOOLEAN /\ taps \in Nat

LEMMA HandlerTypes ==
    ASSUME RestTypes, ChooserLeaves, voiceState' \in {voiceState, "flowing"},
           cut' \in BOOLEAN, whole' \in BOOLEAN
    PROVE  RestTypes'
<1>1. /\ UNCHANGED <<markResume, deferred, partial, lastUtt, sent, exempt, done, broken, outstanding>>
      /\ voiceState' \in VoiceStates
  BY DEF ChooserLeaves, loopVars, RestTypes, ModeTypes, VoiceStates
<1> QED
  BY <1>1 DEF RestTypes, ModeTypes, LoopTypes

LEMMA DeliveryTypes ==
    ASSUME RestTypes, NEW w, NEW ch, DeliverPreview(w, ch)
    PROVE  cut' \in BOOLEAN /\ whole' \in BOOLEAN
<1>1. cut' \in BOOLEAN
  <2>1. \E v : Effects(v)
    BY DEF DeliverPreview
  <2> QED
    BY <2>1 DEF Effects, CancelIf
<1>2. whole' = whole \/ \E dest : SanctionDeadRead(dest, FALSE)
  BY DEF DeliverPreview
<1>3. whole \in BOOLEAN
  BY DEF RestTypes, ModeTypes
<1>4. whole' \in BOOLEAN
  BY <1>2, <1>3 DEF SanctionDeadRead
<1> QED
  BY <1>1, <1>4

LEMMA HandleTypes ==
    ASSUME BrowseTypes, NEW i \in DOMAIN wire,
           ChooserStep(i) \/ ChooserCommit(i) \/ ChooserDigit(i) \/ ChooserCancel(i)
    PROVE  BrowseTypes'
<1>1. RestTypes /\ lapsed \in BOOLEAN /\ whole \in BOOLEAN
  BY DEF BrowseTypes, RestTypes, ModeTypes
<1>2. ASSUME NEW w, Effects(w) PROVE cut' \in BOOLEAN
  BY <1>2 DEF Effects, CancelIf
<1>3. CASE ChooserStep(i)
  <2>1. lapsed' \in BOOLEAN
    BY <1>1, <1>3 DEF ChooserStep, StepOn, StepOpens, NobodyToBrowse
  <2>2. stray' \in {stray, FALSE, Overtaken}
    BY <1>3 DEF ChooserStep, StepOn, StepOpens, NobodyToBrowse
  <2>3. Overtaken \in BOOLEAN
    BY DEF Overtaken
  <2>4. cut' \in BOOLEAN /\ whole' \in BOOLEAN
    <3>1. CASE NobodyToBrowse
      BY <1>1, <1>2, <3>1 DEF NobodyToBrowse
    <3>2. CASE \E w, ch : DeliverPreview(w, ch)
      BY <1>1, <3>2, DeliveryTypes
    <3> QED
      BY <1>3, <3>1, <3>2 DEF ChooserStep, StepOn, StepOpens
  <2>5. ChooserLeaves /\ voiceState' = voiceState
    BY <1>3 DEF ChooserStep, MovesNothing
  <2>6. RestTypes'
    BY <1>1, <2>4, <2>5, HandlerTypes
  <2>7. UNCHANGED <<chord, taps>>
    BY <2>5 DEF ChooserLeaves
  <2> QED
    BY <2>1, <2>2, <2>3, <2>6, <2>7 DEF BrowseTypes
<1>4. CASE ChooserCommit(i) \/ ChooserDigit(i) \/ ChooserCancel(i)
  <2>1. \/ NotOpen \/ CancelBrowse
        \/ \E s : NobodyThere(s) \/ LandingRefused(s) \/ Landing(s)
    BY <1>4 DEF ChooserCommit, ChooserDigit, ChooserCancel, Lands, LandingAtHome
  <2>2. lapsed' \in {lapsed, FALSE} /\ stray' \in BOOLEAN
    BY <2>1 DEF NotOpen, CancelBrowse, NobodyThere, LandingRefused, Landing, Closes
  <2>3. whole' = whole /\ \E w : Effects(w)
    BY <2>1 DEF NotOpen, CancelBrowse, NobodyThere, LandingRefused, Landing, VoiceStays
  <2>4. ChooserLeaves /\ voiceState' \in {voiceState, "flowing"}
    BY <2>1 DEF NotOpen, CancelBrowse, NobodyThere, LandingRefused, Landing, MovesNothing
  <2>5. RestTypes'
    BY <1>1, <1>2, <2>3, <2>4, HandlerTypes
  <2>6. UNCHANGED <<chord, taps>>
    BY <2>4 DEF ChooserLeaves
  <2> QED
    BY <1>1, <2>2, <2>5, <2>6 DEF BrowseTypes
<1> QED
  BY <1>3, <1>4

LEMMA BrowseTyped == BSpec => []BrowseTypes
<1>1. BInit => BrowseTypes
  <2> SUFFICES ASSUME BInit PROVE BrowseTypes
    OBVIOUS
  <2>1. RestTypes
    BY InitRest DEF BInit, Init
  <2> QED
    BY <2>1 DEF BInit, BrowseTypes
<1>2. BrowseInv /\ BrowseTypes /\ [BNext]_bvars => BrowseTypes'
  <2> SUFFICES ASSUME BrowseInv, BrowseTypes, [BNext]_bvars PROVE BrowseTypes'
    OBVIOUS
  <2>1. CASE Handle
    BY <2>1, HandleTypes DEF Handle
  <2>2. CASE ~ Handle
    <3>1. [Next]_vars
      BY <2>2 DEF BNext, Keyboard, Lapse, Elsewhere, bvars
    <3>2. RestTypes'
      BY <3>1, NextRest DEF BrowseTypes, BrowseInv, DaemonInv
    <3>3. lapsed \in BOOLEAN /\ chord \in BOOLEAN /\ stray \in BOOLEAN /\ taps \in Nat
      BY DEF BrowseTypes
    <3>4. /\ lapsed' = lapsed \/ lapsed' = TRUE
          /\ chord' = chord \/ chord' = TRUE \/ chord' = FALSE
          /\ stray' = stray
          /\ taps' = taps \/ taps' = taps + 1
      BY <2>2 DEF BNext, Keyboard, Tap, Release, Dial, CapFires, LeaveMode, Lapse, Elsewhere, bvars, browseVars
    <3>5. lapsed' \in BOOLEAN /\ chord' \in BOOLEAN /\ stray' \in BOOLEAN
      BY <3>3, <3>4, Zenon
    <3>6. taps' \in Nat
      BY <3>3, <3>4
    <3> QED
      BY <3>2, <3>5, <3>6 DEF BrowseTypes
  <2> QED
    BY <2>1, <2>2
<1> QED
  BY <1>1, <1>2, BrowseInvariance, PTL DEF BSpec

LEMMA BrowseTypesAre == BrowseInv /\ BrowseTypes => BTypeOK
<1> SUFFICES ASSUME BrowseInv, BrowseTypes PROVE BTypeOK
  OBVIOUS
<1>1. TypeOK
  BY AllTypes DEF BrowseInv, DaemonInv, BrowseTypes
<1>2. chooser = None \/ (chooser \in BrowseSet /\ chooser.index < Len(chooser.candidates))
  BY DEF BrowseInv, Opened
<1>3. /\ wire \in Seq([type : Closers \union {"step"}, by : {1, 0, -1}, digit : Session \union {None}])
      /\ {landings, taps} \subseteq Nat
  BY DEF BrowseInv, WireTypes, Wire, BrowseTypes
<1> QED
  BY <1>1, <1>2, <1>3 DEF BTypeOK, BrowseTypes

\* One of the items that an entry is bound to awaits voicing.
LEMMA OnceIsResumed ==
    ASSUME BrowseInv, OnceInv
    PROVE  ResumedOnce
<1>1. QueueInv
  BY DEF BrowseInv, DaemonInv
<1> SUFFICES ASSUME NEW m \in markers, ~ stopped[m.session], m.session \notin ended
             PROVE  Cardinality(Holders(m)) <= 1
  BY DEF ResumedOnce
<1>2. ASSUME NEW n \in markers, n.id \in Awaiting PROVE Carried(queue, current, n)
  <2>1. CASE n.id \in Queued
    <3>1. PICK s \in Session : n.id \in Ids(queue[s])
      BY <2>1 DEF Queued, QueuedIds
    <3>2. n.session = s
      BY <3>1 DEF OnceInv, Own
    <3> QED
      BY <3>1, <3>2 DEF Carried
  <2>2. CASE hand # None /\ pc = "speak" /\ ~ cut /\ n.id = hand.id
    <3>1. current # None
      BY <2>2 DEF OnceInv
    <3>2. current = hand
      BY <1>1, <3>1 DEF QueueInv, Hands
    <3> QED
      BY <2>2, <3>1, <3>2 DEF Carried
  <2> QED
    BY <1>2, <2>1, <2>2 DEF Awaiting, InHand
<1>3. ASSUME NEW x \in Holders(m), NEW y \in Holders(m) PROVE x = y
  <2>1. PICK k \in markers : k.session = m.session /\ k.entry = m.entry /\ k.id = x /\ x \in Awaiting
    BY <1>3 DEF Holders
  <2>2. PICK n \in markers : n.session = m.session /\ n.entry = m.entry /\ n.id = y /\ y \in Awaiting
    BY <1>3 DEF Holders
  <2>3. Carried(queue, current, k) /\ Carried(queue, current, n)
    BY <1>2, <2>1, <2>2
  <2>4. Same(k, n) /\ Counts(k) /\ ~ stopped[k.session]
    BY <2>1, <2>2 DEF Same, Counts
  <2>5. k.id = n.id
    BY <2>3, <2>4 DEF OnceInv, Once
  <2> QED
    BY <2>1, <2>2, <2>5
<1>4. CASE Holders(m) = {}
  BY <1>4, FS_EmptySet
<1>5. CASE Holders(m) # {}
  <2>1. PICK x : x \in Holders(m)
    BY <1>5
  <2>2. Holders(m) = {x}
    BY <1>3, <2>1
  <2>3. Cardinality({x}) = 1
    BY FS_Singleton
  <2> QED
    BY <2>2, <2>3
<1> QED
  BY <1>4, <1>5

\* A browse leaves nothing of its own behind, and what it interrupts is voiced
\* once, however its messages are ordered and whatever the daemon does between
\* them: as long as nothing is repeated (the repeat is a second item for its
\* entry), no question is jumped to (a jump clears no copy of what it cuts), and
\* while the loop is between its look at the speaker's flag and its pop no
\* message puts the voice on a stopped stream (the loop would then pop from it).
THEOREM BrowseSoundHolds ==
    ASSUME {"REPEAT_LAST", "JUMP_DECISION"} \intersect Messages = {}
    PROVE  BSpec /\ [][Unraced]_bvars => []BrowseSound
<1>1. NoJumps /\ NoRepeats
  BY DEF NoJumps, NoRepeats
<1>2. BInit => OnceInv
  <2> SUFFICES ASSUME BInit PROVE OnceInv
    OBVIOUS
  <2>1. /\ markers = {} /\ hand = None /\ chooser = None
        /\ buffer = [s \in Session |-> <<>>]
    BY DEF BInit, InitState
  <2>2. Parks(chooser) = {} /\ OfCaptured(chooser)
    BY <2>1 DEF Parks, OfCaptured
  <2>3. Unqueued(markers \union Parks(chooser))
    BY <2>1, <2>2 DEF Unqueued
  <2> QED
    BY <2>1, <2>2, <2>3 DEF OnceInv, Own, Bare, Once, Alone
<1>3. BrowseInv /\ OnceInv /\ [BNext]_bvars /\ [Unraced]_bvars => OnceInv'
  <2> SUFFICES ASSUME BrowseInv, OnceInv, [BNext]_bvars, [Unraced]_bvars PROVE OnceInv'
    OBVIOUS
  <2>1. Unraced
    BY DEF Unraced, bvars, vars, rosterVars
  <2>2. CASE Handle
    <3>1. PICK i \in DOMAIN wire : ChooserStep(i) \/ ChooserCommit(i) \/ ChooserDigit(i) \/ ChooserCancel(i)
      BY <2>2 DEF Handle
    <3>2. ChooserLeaves
      BY <3>1 DEF ChooserStep, ChooserCommit, ChooserDigit, ChooserCancel, NotOpen, CancelBrowse, NobodyThere,
         Lands, LandingAtHome, LandingRefused, Landing, MovesNothing
    <3>3. Still
      BY <3>2 DEF Still, ChooserLeaves, loopVars
    <3> QED
      BY <1>1, <2>1, <3>1, <3>3, SoleStep, SoleClosers
  <2>3. CASE ~ Handle
    <3>1. [Next]_vars /\ UNCHANGED chooser
      BY <2>3 DEF BNext, Keyboard, Lapse, Elsewhere, bvars, browseVars
    <3>2. Renumbers
      <4>1. CASE Elsewhere
        BY <4>1 DEF Elsewhere, Renumbers
      <4>2. CASE UNCHANGED <<newest, ended>>
        <5>1. \A s \in Session : ~ (newest[s] < newest[s])
          <6>1. \A s \in Session : newest[s] \in Nat
            BY DEF BrowseInv, DaemonInv, NumInv
          <6> QED
            BY <6>1
        <5> QED
          BY <4>2, <5>1 DEF Renumbers
      <4> QED
        BY <2>3, <4>1, <4>2 DEF BNext, Keyboard, Lapse, bvars, browseVars, vars, ledgerVars
    <3> QED
      BY <1>1, <2>1, <3>1, <3>2, ElsewhereOnce
  <2> QED
    BY <2>2, <2>3
<1>4. BrowseInv /\ BrowseTypes /\ OnceInv /\ NoStalePreview => BrowseSound
  BY BrowseTypesAre, OnceIsResumed DEF BrowseSound
<1> QED
  BY <1>2, <1>3, <1>4, BrowseInvariance, BrowseTyped, NoStalePreviewHolds, PTL DEF BSpec

-----------------------------------------------------------------------------
(* Catch-ups.  The ids of the segments of the one in flight, the last of     *)
(* them to be heard, and its acknowledgement.                                *)

OwnIds == IF InFlight THEN SegmentIds(bundle.id) ELSE {}

LastIds == {k \in OwnIds : [id |-> k, render |-> bundle.id, burn |-> TRUE] \in segments}

Acks == IF InFlight THEN {bundle.ack} ELSE {}

\* A worker posts once, and what has been rendered is not rendered again.
Results ==
    /\ bundle \in Bundle \union {None}
    /\ inbox \subseteq [id : Nat, ok : BOOLEAN] /\ working \subseteq Nat /\ seq \in Nat
    /\ \A r \in working : r \in 0..seq
    /\ \A x \in inbox : x.id \in 0..seq /\ x.id \notin working
    /\ \A x, y \in inbox : x.id = y.id => x = y
    /\ InFlight => bundle.id \in 0..seq
    /\ Rendering => bundle.id \notin working /\ \A x \in inbox : x.id # bundle.id

Rendered ==
    /\ segments \subseteq [id : Nat, render : Nat, burn : BOOLEAN]
    /\ \A g \in segments : g.id \in 0..nextId /\ g.render \in 0..seq
    /\ Acks \subseteq 0..nextId /\ Acks \intersect OwnIds = {}
    /\ IF Rendering THEN LastIds # {} /\ \A l \in LastIds, k \in OwnIds : l <= k
                    ELSE OwnIds = {}

\* In a queue the segments go down by their ids, the acknowledgement is before
\* them, and all are answers to the press.
InOrder(q, own, acks) ==
    /\ \A i \in DOMAIN q : q[i].id \in own \union acks => q[i].cue
    /\ \A i, j \in DOMAIN q : i < j /\ q[i].id \in own /\ q[j].id \in own => q[i].id > q[j].id
    /\ \A i, j \in DOMAIN q : q[i].id \in own /\ q[j].id \in acks => j < i

\* The item may stand before q.
Before(it, q, own, acks) ==
    /\ it.id \in own \union acks => it.cue
    /\ it.id \in own => \A i \in DOMAIN q : q[i].id \notin acks /\ (q[i].id \in own => q[i].id < it.id)

\* No more segments wait than are left to be voiced.
Near(k) == k \in OwnIds => \A l \in LastIds : k < l + bundle.left

Waits ==
    \A s \in Session :
        /\ InOrder(queue[s], OwnIds, Acks)
        /\ \A k \in Ids(queue[s]) : Near(k) /\ (k \in OwnIds => s = bundle.dest)

Holds ==
    hand # None =>
        /\ Before(hand, queue[hand.session], OwnIds, Acks)
        /\ Near(hand.id) /\ (hand.id \in OwnIds => hand.session = bundle.dest)

CatchInv == Results /\ Rendered /\ Waits /\ Holds /\ NoLoneTail

\* The order of the segments survives whatever thins a queue.
LEMMA OrderThinned ==
    ASSUME NEW q, NEW r, NEW n, NEW own, NEW acks,
           own \subseteq 0..n, acks \subseteq 0..n, acks \intersect own = {},
           DOMAIN r \subseteq Nat, DOMAIN q \subseteq Nat,
           InOrder(q, own, acks), Thinned(q, r, n)
    PROVE  InOrder(r, own, acks)
<1>1. ASSUME NEW i \in DOMAIN r, r[i].id \in own \union acks PROVE r[i].cue
  <2>1. PICK a \in DOMAIN q : q[a].id = r[i].id /\ (q[a].cue => r[i].cue)
    BY <1>1 DEF Thinned
  <2> QED
    BY <1>1, <2>1 DEF InOrder
<1>2. ASSUME NEW i \in DOMAIN r, NEW j \in DOMAIN r, i < j, r[i].id \in own, r[j].id \in own
      PROVE  r[i].id > r[j].id
  <2>1. PICK a \in DOMAIN q, b \in DOMAIN q : a < b /\ q[a].id = r[i].id /\ q[b].id = r[j].id
    BY <1>2 DEF Thinned
  <2> QED
    BY <1>2, <2>1 DEF InOrder
<1>3. ASSUME NEW i \in DOMAIN r, NEW j \in DOMAIN r, r[i].id \in own, r[j].id \in acks
      PROVE  j < i
  <2>1. i # j /\ i \in Nat /\ j \in Nat
    BY <1>3
  <2>2. ASSUME i < j PROVE FALSE
    <3>1. PICK a \in DOMAIN q, b \in DOMAIN q : a < b /\ q[a].id = r[i].id /\ q[b].id = r[j].id
      BY <1>3, <2>2 DEF Thinned
    <3>2. b < a
      BY <1>3, <3>1 DEF InOrder
    <3>3. a \in Nat /\ b \in Nat
      OBVIOUS
    <3> QED
      BY <3>1, <3>2, <3>3
  <2> QED
    BY <2>1, <2>2
<1> QED
  BY <1>1, <1>2, <1>3 DEF InOrder

LEMMA BeforeThinned ==
    ASSUME NEW q, NEW r, NEW n, NEW own, NEW acks, NEW it,
           own \subseteq 0..n, acks \subseteq 0..n,
           Before(it, q, own, acks), Thinned(q, r, n)
    PROVE  Before(it, r, own, acks)
<1>1. ASSUME it.id \in own, NEW i \in DOMAIN r, r[i].id \in own \union acks
      PROVE  r[i].id \notin acks /\ (r[i].id \in own => r[i].id < it.id)
  <2>1. PICK a \in DOMAIN q : q[a].id = r[i].id
    BY <1>1 DEF Thinned
  <2> QED
    BY <1>1, <2>1 DEF Before
<1>2. ASSUME it.id \in own, NEW i \in DOMAIN r
      PROVE  r[i].id \notin acks /\ (r[i].id \in own => r[i].id < it.id)
  BY <1>1, <1>2
<1> QED
  BY <1>2 DEF Before

\* What may stand before a queue is put there.
LEMMA OrderFront ==
    ASSUME NEW T, NEW q \in Seq(T), NEW it \in T, NEW own, NEW acks,
           own \subseteq Nat, acks \intersect own = {},
           InOrder(q, own, acks), Before(it, q, own, acks)
    PROVE  InOrder(EnqueueFront(q, it), own, acks)
<1> DEFINE r == EnqueueFront(q, it)
<1>1. /\ r \in Seq(T) /\ Len(r) = Len(q) + 1 /\ r[1] = it
      /\ \A i \in 1..Len(q) : r[i + 1] = q[i]
  BY DEF EnqueueFront
<1>2. DOMAIN r = 1..(Len(q) + 1) /\ DOMAIN q = 1..Len(q) /\ Len(q) \in Nat
  BY <1>1
<1> HIDE DEF r
<1>3. \A i \in DOMAIN r : i # 1 => i - 1 \in DOMAIN q /\ r[i] = q[i - 1]
  BY <1>1, <1>2
<1>4. ASSUME NEW i \in DOMAIN r, r[i].id \in own \union acks PROVE r[i].cue
  BY <1>1, <1>3, <1>4 DEF InOrder, Before
<1>5. ASSUME NEW i \in DOMAIN r, NEW j \in DOMAIN r, i < j, r[i].id \in own, r[j].id \in own
      PROVE  r[i].id > r[j].id
  <2>1. j # 1 /\ i \in Nat /\ j \in Nat
    BY <1>2, <1>5
  <2>2. j - 1 \in DOMAIN q /\ r[j] = q[j - 1]
    BY <1>3, <2>1
  <2>3. CASE i = 1
    <3>1. r[j].id < r[i].id
      BY <1>1, <1>5, <2>2, <2>3 DEF Before
    <3>2. r[i].id \in Nat /\ r[j].id \in Nat
      BY <1>5
    <3> QED
      BY <3>1, <3>2
  <2>4. CASE i # 1
    <3>1. i - 1 \in DOMAIN q /\ r[i] = q[i - 1] /\ i - 1 < j - 1
      BY <1>3, <1>5, <2>1, <2>4
    <3> QED
      BY <1>5, <2>2, <3>1 DEF InOrder
  <2> QED
    BY <2>3, <2>4
<1>6. ASSUME NEW i \in DOMAIN r, NEW j \in DOMAIN r, r[i].id \in own, r[j].id \in acks
      PROVE  j < i
  <2>1. i # j /\ i \in Nat /\ j \in Nat /\ i >= 1 /\ j >= 1
    BY <1>2, <1>6
  <2>2. CASE j = 1
    BY <2>1, <2>2
  <2>3. CASE j # 1
    <3>1. j - 1 \in DOMAIN q /\ r[j] = q[j - 1]
      BY <1>3, <2>3
    <3>2. i # 1
      BY <1>1, <1>6, <3>1 DEF Before
    <3>3. i - 1 \in DOMAIN q /\ r[i] = q[i - 1]
      BY <1>3, <3>2
    <3>4. j - 1 < i - 1
      BY <1>6, <3>1, <3>3 DEF InOrder
    <3> QED
      BY <2>1, <3>4
  <2> QED
    BY <2>2, <2>3
<1> QED
  BY <1>4, <1>5, <1>6 DEF InOrder, r

\* What was taken, the head or the first cue, may stand before the rest.
LEMMA OrderTaken ==
    ASSUME NEW q, NEW r, NEW n, NEW k \in DOMAIN q, NEW own, NEW acks,
           own \subseteq 0..n, acks \subseteq 0..n, acks \intersect own = {},
           DOMAIN q \subseteq Nat,
           InOrder(q, own, acks), Thinned(q, r, n),
           \A i \in DOMAIN q : i < k => ~ q[i].cue,
           q[k].id \notin Ids(r)
    PROVE  Before(q[k], r, own, acks)
<1>1. q[k].id \in own \union acks => q[k].cue
  BY DEF InOrder
<1>2. ASSUME q[k].id \in own, NEW i \in DOMAIN r, r[i].id \in own \union acks
      PROVE  r[i].id \notin acks /\ (r[i].id \in own => r[i].id < q[k].id)
  <2>1. PICK a \in DOMAIN q : q[a].id = r[i].id
    BY <1>2 DEF Thinned
  <2>2. a # k
    BY <2>1 DEF Ids
  <2>3. q[a].cue
    BY <1>2, <2>1 DEF InOrder
  <2>4. ~ (a < k)
    BY <2>3
  <2>5. a \in Nat /\ k \in Nat
    OBVIOUS
  <2>6. k < a
    BY <2>2, <2>4, <2>5
  <2>7. q[a].id \notin acks
    <3> SUFFICES ASSUME q[a].id \in acks PROVE FALSE
      OBVIOUS
    <3>1. a < k
      BY <1>2 DEF InOrder
    <3> QED
      BY <2>4, <3>1
  <2>8. q[a].id \in own => q[k].id > q[a].id
    BY <1>2, <2>6 DEF InOrder
  <2>9. own \subseteq Nat
    OBVIOUS
  <2>10. q[a].id \in own => q[k].id \in Nat /\ q[a].id \in Nat
    BY <1>2, <2>9
  <2> QED
    BY <2>1, <2>7, <2>8, <2>10
<1>3. ASSUME q[k].id \in own, NEW i \in DOMAIN r
      PROVE  r[i].id \notin acks /\ (r[i].id \in own => r[i].id < q[k].id)
  BY <1>2, <1>3
<1> QED
  BY <1>1, <1>3 DEF Before

-----------------------------------------------------------------------------
(* The steps that render nothing: a turn of the loop, other handlers, a press *)
(* that finds nothing to catch up on.                                        *)

\* The bundle stays but for what the properties alone look at.
Stays == bundle' = bundle \/ (InFlight /\ bundle' = [bundle EXCEPT !.pinned = FALSE])

LEMMA StaysSame ==
    ASSUME bundle \in Bundle \union {None}, Stays, UNCHANGED segments
    PROVE  /\ bundle' \in Bundle \union {None}
           /\ UNCHANGED <<OwnIds, LastIds, Acks, InFlight, Rendering>>
           /\ InFlight => /\ bundle'.id = bundle.id /\ bundle'.dest = bundle.dest
                          /\ bundle'.left = bundle.left /\ bundle'.ack = bundle.ack
<1>1. CASE bundle' = bundle
  BY <1>1 DEF OwnIds, LastIds, Acks, InFlight, Rendering, SegmentIds
<1>2. CASE InFlight /\ bundle' = [bundle EXCEPT !.pinned = FALSE]
  <2>1. bundle \in Bundle
    BY <1>2 DEF InFlight
  <2>2. bundle' \in Bundle /\ bundle'.id = bundle.id /\ bundle'.dest = bundle.dest
        /\ bundle'.left = bundle.left /\ bundle'.ack = bundle.ack
    BY <1>2, <2>1 DEF Bundle
  <2>3. InFlight' = InFlight
    BY <1>2, <2>2, BundleAssumption DEF InFlight
  <2>4. InFlight
    BY <1>2
  <2>5. Rendering' = Rendering /\ Acks' = Acks
    BY <2>2, <2>3 DEF Rendering, Acks
  <2>6. OwnIds' = OwnIds
    BY <2>2, <2>3, <2>4 DEF OwnIds, SegmentIds
  <2>7. LastIds' = LastIds
    BY <2>2, <2>6 DEF LastIds
  <2> QED
    BY <2>2, <2>3, <2>5, <2>6, <2>7
<1> QED
  BY <1>1, <1>2 DEF Stays

\* The frame: all that the order of the segments needs of a step.
Quiet ==
    /\ QueueInv /\ QueueInv' /\ nextId <= nextId'
    /\ Orderly \/ ReturnsIt
    /\ HandOrderly

LEMMA OwnIdsAre ==
    ASSUME Rendered, QueueInv
    PROVE  /\ OwnIds \subseteq 0..nextId /\ OwnIds \subseteq Nat /\ LastIds \subseteq OwnIds
           /\ \A k \in OwnIds : InFlight /\ \E g \in segments : g.id = k /\ g.render = bundle.id
<1>1. nextId \in Nat
  BY DEF QueueInv, Queues, Sound
<1>2. \A k \in OwnIds : InFlight /\ \E g \in segments : g.id = k /\ g.render = bundle.id
  BY DEF OwnIds, SegmentIds
<1>3. OwnIds \subseteq 0..nextId
  BY <1>2 DEF Rendered
<1> QED
  BY <1>1, <1>2, <1>3 DEF LastIds

LEMMA RenderedStays ==
    ASSUME Quiet, Rendered, UNCHANGED <<segments, seq, OwnIds, LastIds, Acks, Rendering>>
    PROVE  Rendered'
<1>1. nextId \in Nat /\ nextId' \in Nat /\ nextId <= nextId'
  BY DEF Quiet, QueueInv, Queues, Sound
<1>2. \A k \in 0..nextId : k \in 0..nextId'
  BY <1>1
<1>3. \A g \in segments' : g.id \in 0..nextId' /\ g.render \in 0..seq'
  BY <1>2 DEF Rendered
<1>4. Acks' \subseteq 0..nextId'
  BY <1>2 DEF Rendered
<1> QED
  BY <1>3, <1>4 DEF Rendered

\* Where an old item may be after the step.
LEMMA OldQueued ==
    ASSUME Quiet, NEW s \in Session, NEW k \in Ids(queue'[s]), k \in 0..nextId
    PROVE  k \in Ids(queue[s]) \/ (hand # None /\ k = hand.id /\ s = hand.session /\ ReturnsIt)
<1>1. CASE Orderly
  <2>1. Thinned(queue[s], queue'[s], nextId)
    BY <1>1 DEF Orderly, Thin
  <2> QED
    BY <2>1 DEF Thinned, Ids
<1>2. CASE ReturnsIt
  <2>1. queue \in [Session -> Seq(ItemSet)] /\ hand \in ItemSet
    BY <1>2 DEF Quiet, ReturnsIt, QueueInv, Queues, Sound
  <2>2. queue'[s] = IF s = hand.session THEN EnqueueFront(queue[s], hand) ELSE queue[s]
    BY <1>2, <2>1 DEF ReturnsIt
  <2>3. Ids(EnqueueFront(queue[s], hand)) = Ids(queue[s]) \union {hand.id}
    BY <2>1, EnqueueFrontIds
  <2> QED
    BY <1>2, <2>2, <2>3 DEF ReturnsIt
<1> QED
  BY <1>1, <1>2 DEF Quiet

LEMMA WaitsStays ==
    ASSUME Quiet, Rendered, Waits, Holds, UNCHANGED <<OwnIds, LastIds, Acks>>,
           OwnIds # {} => bundle'.left = bundle.left /\ bundle'.dest = bundle.dest
    PROVE  Waits'
<1>1. OwnIds \subseteq 0..nextId /\ OwnIds \subseteq Nat /\ Acks \subseteq 0..nextId /\ Acks \intersect OwnIds = {}
  BY OwnIdsAre DEF Rendered, Quiet
<1>2. queue \in [Session -> Seq(ItemSet)] /\ queue' \in [Session -> Seq(ItemSet)]
  BY DEF Quiet, QueueInv, Queues, Sound
<1>3. ASSUME NEW s \in Session PROVE InOrder(queue'[s], OwnIds, Acks)
  <2>1. queue[s] \in Seq(ItemSet) /\ queue'[s] \in Seq(ItemSet)
    BY <1>2
  <2>2. DOMAIN queue[s] \subseteq Nat /\ DOMAIN queue'[s] \subseteq Nat
    BY <2>1
  <2>3. InOrder(queue[s], OwnIds, Acks)
    BY DEF Waits
  <2>4. CASE Orderly
    <3>1. Thinned(queue[s], queue'[s], nextId)
      BY <2>4 DEF Orderly, Thin
    <3> QED
      BY <1>1, <2>2, <2>3, <3>1, OrderThinned
  <2>5. CASE ReturnsIt
    <3>1. hand # None /\ hand \in ItemSet
      BY <2>5 DEF Quiet, ReturnsIt, QueueInv, Queues, Sound
    <3>2. queue'[s] = IF s = hand.session THEN EnqueueFront(queue[s], hand) ELSE queue[s]
      BY <1>2, <2>5 DEF ReturnsIt
    <3>3. CASE s = hand.session
      <4>1. Before(hand, queue[s], OwnIds, Acks)
        BY <3>1, <3>3 DEF Holds
      <4>2. InOrder(EnqueueFront(queue[s], hand), OwnIds, Acks)
        BY <1>1, <2>1, <2>3, <3>1, <4>1, OrderFront
      <4> QED
        BY <3>2, <3>3, <4>2
    <3> QED
      BY <2>3, <3>2, <3>3
  <2> QED
    BY <2>4, <2>5 DEF Quiet
<1>4. ASSUME NEW s \in Session, NEW k \in Ids(queue'[s]), k \in OwnIds
      PROVE  Near(k) /\ s = bundle.dest
  <2>1. k \in Ids(queue[s]) \/ (hand # None /\ k = hand.id /\ s = hand.session)
    BY <1>1, <1>4, OldQueued
  <2> QED
    BY <1>4, <2>1 DEF Waits, Holds
<1>5. ASSUME NEW s \in Session, NEW k \in Ids(queue'[s])
      PROVE  Near(k)' /\ (k \in OwnIds' => s = bundle'.dest)
  <2>1. CASE k \in OwnIds
    BY <1>4, <1>5, <2>1 DEF Near
  <2>2. CASE k \notin OwnIds
    BY <2>2 DEF Near
  <2> QED
    BY <2>1, <2>2
<1>6. \A s \in Session : InOrder(queue[s], OwnIds, Acks)'
  BY <1>3 DEF InOrder
<1> QED
  BY <1>5, <1>6 DEF Waits

LEMMA HoldsStays ==
    ASSUME Quiet, Rendered, Waits, Holds, UNCHANGED <<OwnIds, LastIds, Acks>>,
           OwnIds # {} => bundle'.left = bundle.left /\ bundle'.dest = bundle.dest
    PROVE  Holds'
<1>1. OwnIds \subseteq 0..nextId /\ OwnIds \subseteq Nat /\ Acks \subseteq 0..nextId /\ Acks \intersect OwnIds = {}
  BY OwnIdsAre DEF Rendered, Quiet
<1>2. /\ queue \in [Session -> Seq(ItemSet)] /\ queue' \in [Session -> Seq(ItemSet)]
      /\ hand' # None => hand' \in ItemSet /\ \A s \in Session : hand'.id \notin Ids(queue'[s])
  BY DEF Quiet, QueueInv, Queues, Sound
<1> SUFFICES ASSUME hand' # None PROVE Holds'
  BY DEF Holds
<1>3. Orderly
  BY DEF Quiet, ReturnsIt
<1>4. \A s \in Session : Thinned(queue[s], queue'[s], nextId)
  BY <1>3 DEF Orderly, Thin
<1>5. hand'.session \in Session
  BY <1>2, ItemSession
<1>6. /\ Before(hand', queue'[hand'.session], OwnIds, Acks)
      /\ hand'.id \in OwnIds => Near(hand'.id) /\ hand'.session = bundle.dest
  <2>1. CASE hand' = hand
    <3>1. /\ Before(hand, queue[hand.session], OwnIds, Acks)
          /\ Near(hand.id) /\ (hand.id \in OwnIds => hand.session = bundle.dest)
      BY <2>1 DEF Holds
    <3>2. Thinned(queue[hand.session], queue'[hand.session], nextId)
      BY <1>4, <1>5, <2>1
    <3>3. Before(hand, queue'[hand.session], OwnIds, Acks)
      BY <1>1, <3>1, <3>2, BeforeThinned
    <3> QED
      BY <2>1, <3>1, <3>3
  <2>2. CASE hand'.id \notin 0..nextId
    <3>1. hand'.id \notin OwnIds /\ hand'.id \notin Acks
      BY <1>1, <2>2
    <3> QED
      BY <3>1 DEF Before
  <2>3. ASSUME NEW s \in Session, NEW k \in DOMAIN queue[s], Takes(s, k)
        PROVE  /\ Before(hand', queue'[hand'.session], OwnIds, Acks)
               /\ hand'.id \in OwnIds => Near(hand'.id) /\ hand'.session = bundle.dest
    <3>1. hand' = queue[s][k] /\ \A i \in DOMAIN queue[s] : i < k => ~ queue[s][i].cue
      BY <2>3 DEF Takes
    <3>2. queue[s] \in Seq(Of(s)) /\ queue[s] \in Seq(ItemSet)
      BY <1>2 DEF Quiet, QueueInv, Queues, Sound
    <3>3. hand'.session = s /\ DOMAIN queue[s] \subseteq Nat /\ hand'.id \in Ids(queue[s])
      BY <3>1, <3>2 DEF Of, Ids
    <3>4. InOrder(queue[s], OwnIds, Acks) /\ Near(hand'.id) /\ (hand'.id \in OwnIds => s = bundle.dest)
      BY <3>3 DEF Waits
    <3>5. queue[s][k].id \notin Ids(queue'[s])
      BY <1>2, <3>1
    <3>6. Thinned(queue[s], queue'[s], nextId)
      BY <1>4
    <3>7. Before(queue[s][k], queue'[s], OwnIds, Acks)
      BY <1>1, <3>1, <3>3, <3>4, <3>5, <3>6, OrderTaken
    <3> QED
      BY <3>1, <3>3, <3>4, <3>7
  <2> QED
    BY <2>1, <2>2, <2>3 DEF Quiet, HandOrderly
<1>7. Near(hand.id)' /\ (hand'.id \in OwnIds' => hand'.session = bundle'.dest)
  BY <1>6 DEF Near
<1>8. Before(hand, queue[hand.session], OwnIds, Acks)'
  BY <1>6 DEF Before
<1> QED
  BY <1>7, <1>8 DEF Holds

\* A segment that waits to be heard after the step waited before.
LEMMA OldLone ==
    ASSUME Quiet, Rendered, NoLoneTail, NEW s \in Session, NEW g \in segments,
           g.id \in Ids(queue'[s]), ~ stopped'[s]
    PROVE  Rendering /\ g.render = bundle.id /\ s = bundle.dest
<1>1. g.id \in 0..nextId
  BY DEF Rendered
<1>2. g.id \in Ids(queue[s])
  <2>1. g.id \in Ids(queue[s]) \/ (s = hand.session /\ ReturnsIt)
    BY <1>1, OldQueued
  <2> QED
    BY <2>1 DEF ReturnsIt
<1>3. ~ stopped[s]
  <2>1. CASE Orderly
    BY <1>1, <2>1 DEF Orderly, New, Ids
  <2>2. CASE ReturnsIt
    BY <2>2 DEF ReturnsIt
  <2> QED
    BY <2>1, <2>2 DEF Quiet
<1> QED
  BY <1>2, <1>3 DEF NoLoneTail

LEMMA LoneStays ==
    ASSUME Quiet, Rendered, NoLoneTail, UNCHANGED segments,
           Rendering => Rendering' /\ bundle'.id = bundle.id /\ bundle'.dest = bundle.dest
    PROVE  NoLoneTail'
  BY OldLone DEF NoLoneTail

\* A step of the rest of the daemon is such a step.
LEMMA NextQuiet ==
    ASSUME DaemonInv, [Next]_vars
    PROVE  Quiet /\ DaemonInv'
<1>1. QueueInv /\ NumInv /\ FlagInv /\ Known
  BY DEF DaemonInv
<1>2. QueueInv' /\ NumInv' /\ FlagInv'
  BY <1>1, NextQueues, NextNumbers, NextFlagInv
<1>3. Known' /\ nextId <= nextId'
  BY <1>1, NextKnown
<1>4. (Orderly \/ ReturnsIt) /\ HandOrderly
  BY <1>1, NextOrderly
<1> QED
  BY <1>1, <1>2, <1>3, <1>4 DEF Quiet, DaemonInv

LEMMA ResultsStay ==
    ASSUME Results, Stays, UNCHANGED <<segments, seq, inbox, working>>
    PROVE  Results'
<1>1. /\ bundle' \in Bundle \union {None} /\ UNCHANGED <<InFlight, Rendering>>
      /\ InFlight => bundle'.id = bundle.id
  BY StaysSame DEF Results
<1>2. Rendering => InFlight
  BY DEF Rendering
<1> QED
  BY <1>1, <1>2 DEF Results

LEMMA QuietKeeps ==
    ASSUME CatchInv, Quiet, Stays, UNCHANGED <<segments, seq>>, Results'
    PROVE  CatchInv'
<1>1. Results /\ Rendered /\ Waits /\ Holds /\ NoLoneTail
  BY DEF CatchInv
<1>2. /\ UNCHANGED <<OwnIds, LastIds, Acks, InFlight, Rendering>>
      /\ InFlight => /\ bundle'.id = bundle.id /\ bundle'.dest = bundle.dest
                     /\ bundle'.left = bundle.left /\ bundle'.ack = bundle.ack
  BY <1>1, StaysSame DEF Results
<1>3. Rendering => InFlight
  BY DEF Rendering
<1>4. OwnIds # {} => InFlight
  BY DEF OwnIds
<1>5. Rendered'
  BY <1>1, <1>2, RenderedStays
<1>6. Waits' /\ Holds'
  BY <1>1, <1>2, <1>4, WaitsStays, HoldsStays
<1>7. NoLoneTail'
  BY <1>1, <1>2, <1>3, LoneStays
<1> QED
  BY <1>1, <1>5, <1>6, <1>7 DEF CatchInv

-----------------------------------------------------------------------------
(* The steps of a catch-up.                                                  *)

CatchUpInv == DaemonInv /\ RestTypes /\ CatchInv

\* A press, or a result that is rendered, leaves the daemon's state what it is
\* meant to be once its queues are.
LEMMA PressedKeeps ==
    ASSUME DaemonInv, RestTypes, NEW S \in SUBSET Session, NEW dest \in Session,
           OpenWith(S), MadeAudible(dest), PressLeaves, markers' = markers,
           sent' \in Nat, cut' \in BOOLEAN,
           nextId <= nextId', Sound(queue', hand, nextId')
    PROVE  DaemonInv' /\ RestTypes'
<1>1. QueueInv /\ NumInv /\ FlagInv /\ Known
  BY DEF DaemonInv
<1>2. /\ UNCHANGED <<armed, deferred, buffer, partial, newest, lastUtt, voiceState, markResume,
                     reg, announced, fg, focus, dead, broken>>
      /\ UNCHANGED <<frontier, current, pc, hand, exempt, done, outstanding>>
  BY DEF PressLeaves, CatchUpLeaves
<1>3. present' = present \union S /\ stopped' = StoppedOnceOpen(S)
  BY DEF OpenWith, Open
<1>4. FlagInv'
  <2>1. Opens(S) /\ Quieter /\ armed' \in [Session -> BOOLEAN] /\ \A s \in Session : armed'[s] => armed[s]
    BY <1>1, <1>2 DEF OpenWith, Opens, Quieter, FlagInv, FlagTypes
  <2> QED
    BY <1>1, <2>1, OpeningKeeps
<1>5. nextId \in Nat /\ nextId' \in Nat
  BY <1>1 DEF NumInv, Sound
<1>6. NumInv'
  BY <1>1, <1>2, <1>5 DEF NumInv
<1>7. Known'
  <2>1. \A k \in 0..nextId : k \in 0..nextId'
    BY <1>5
  <2> QED
    BY <1>1, <2>1 DEF Known
<1>8. sanction' \in {sanction, dest} /\ whole' \in BOOLEAN /\ spk' \in {spk, dest}
  BY DEF MadeAudible, SanctionDeadRead, SpeakerOnceSanctioned, RestTypes, ModeTypes
<1>9. QueueInv'
  <2>1. Queues'
    BY <1>2 DEF Queues
  <2>2. Hands'
    BY <1>1, <1>2 DEF QueueInv, Hands
  <2>3. RosterTypes'
    BY <1>1, <1>2, <1>3, <1>8 DEF QueueInv, RosterTypes
  <2> QED
    BY <2>1, <2>2, <2>3 DEF QueueInv
<1>10. RestTypes'
  <2>1. ModeTypes'
    BY <1>2, <1>8 DEF RestTypes, ModeTypes
  <2>2. LoopTypes'
    BY <1>2 DEF RestTypes, LoopTypes
  <2> QED
    BY <2>1, <2>2 DEF RestTypes
<1> QED
  BY <1>4, <1>6, <1>7, <1>9, <1>10 DEF DaemonInv

\* Where the words go.
LEMMA DestIs ==
    ASSUME DaemonInv
    PROVE  /\ Workspace \in Session \union {None}
           /\ \A t \in Session : CueDest(t) \in Session
<1>1. RosterTypes
  BY DEF DaemonInv, QueueInv
<1> QED
  BY <1>1, NoneAssumption DEF RosterTypes, Workspace, CueDest

\* A word in front of one of the queues q, which are those of the daemon or
\* what is left of them.
LEMMA WordQuiet ==
    ASSUME DaemonInv, RestTypes, NEW S \in SUBSET Session, NEW dest \in Session, NEW q,
           Thin(queue, q, nextId), Sound(q, hand, nextId),
           OpenWith(S), EnqueueFirst(q, Cue(nextId + 1, dest)), MadeAudible(dest),
           PressLeaves, markers' = markers, sent' \in Nat, cut' \in BOOLEAN
    PROVE  /\ DaemonInv' /\ RestTypes' /\ Quiet /\ Orderly
           /\ nextId' = nextId + 1 /\ nextId + 1 \in Nat
           /\ queue' = [q EXCEPT ![dest] = EnqueueFront(@, Cue(nextId + 1, dest))]
<1> DEFINE w == Cue(nextId + 1, dest)
<1>1. QueueInv /\ nextId \in Nat /\ nextId + 1 \in Nat /\ nextId + 1 \notin 0..nextId
  BY NextIds DEF DaemonInv
<1>2. w \in Of(dest) /\ w \in ItemSet /\ w.id = nextId + 1 /\ w.session = dest
  BY <1>1, Words, NewWords
<1> HIDE DEF w
<1>3. queue' = [q EXCEPT ![dest] = EnqueueFront(@, w)] /\ nextId' = nextId + 1
  BY <1>2 DEF EnqueueFirst, w
<1>4. Sound(queue', hand, nextId') /\ nextId <= nextId'
  <2>1. Sound([q EXCEPT ![dest] = EnqueueFront(@, w)], hand, nextId + 1)
    BY <1>2, FrontSound
  <2>2. nextId <= nextId + 1
    BY <1>1
  <2> QED
    BY <1>3, <2>1, <2>2
<1>5. DaemonInv' /\ RestTypes'
  BY <1>4, PressedKeeps
<1>6. Thin(queue, queue', nextId)
  BY <1>1, <1>2, <1>3, ThinFront
<1>7. Orderly
  BY <1>6, OnceOpenMutes, MutedOrderly DEF OpenWith
<1>8. HandOrderly
  BY DEF PressLeaves, HandOrderly
<1> QED
  BY <1>1, <1>3, <1>4, <1>5, <1>7, <1>8 DEF Quiet, DaemonInv, w

LEMMA NothingKeeps ==
    ASSUME CatchUpInv, NothingToCatchUp
    PROVE  CatchUpInv'
<1> DEFINE dest == CueDest(Workspace)
           S == {Workspace, dest}
<1>1. DaemonInv /\ RestTypes /\ CatchInv
  BY DEF CatchUpInv
<1>2. Workspace \in Session /\ dest \in Session
  BY <1>1, DestIs DEF NothingToCatchUp
<1>3. /\ OpenWith(S) /\ EnqueueFirst(queue, Cue(nextId + 1, dest)) /\ MadeAudible(dest) /\ PressLeaves
      /\ sent' = sent + 1 /\ UNCHANGED <<markers, cut, bundle, inbox, working, seq, segments>>
  BY DEF NothingToCatchUp, Receive, catchVars
<1>4. Thin(queue, queue, nextId) /\ Sound(queue, hand, nextId)
  BY <1>1, NextIds DEF DaemonInv, QueueInv, Queues
<1>5. sent' \in Nat /\ cut' \in BOOLEAN /\ S \in SUBSET Session
  BY <1>1, <1>2, <1>3 DEF RestTypes, ModeTypes, LoopTypes
<1> HIDE DEF dest, S
<1>6. DaemonInv' /\ RestTypes' /\ Quiet
  BY <1>1, <1>2, <1>3, <1>4, <1>5, WordQuiet
<1>7. Results'
  BY <1>1, <1>3, ResultsStay DEF CatchInv, Stays
<1>8. CatchInv'
  BY <1>1, <1>3, <1>6, <1>7, QuietKeeps DEF Stays
<1> QED
  BY <1>6, <1>8 DEF CatchUpInv

\* Once the bundle is gone with its segments, nothing is left to be in order.
LEMMA BundleGone ==
    ASSUME CatchInv, Quiet, bundle' = None, UNCHANGED <<segments, seq, inbox, working>>,
           Rendering => \A k \in OwnIds : k \notin Ids(queue'[bundle.dest])
    PROVE  CatchInv'
<1>1. Results /\ Rendered /\ Waits /\ Holds /\ NoLoneTail
  BY DEF CatchInv
<1>2. OwnIds' = {} /\ LastIds' = {} /\ Acks' = {} /\ ~ InFlight' /\ ~ Rendering'
  BY DEF OwnIds, LastIds, Acks, InFlight, Rendering
<1>3. Results'
  BY <1>1, <1>2 DEF Results
<1>4. Rendered'
  <2>1. nextId \in Nat /\ nextId' \in Nat /\ nextId <= nextId'
    BY DEF Quiet, QueueInv, Queues, Sound
  <2>2. \A k \in 0..nextId : k \in 0..nextId'
    BY <2>1
  <2> QED
    BY <1>1, <1>2, <2>2 DEF Rendered
<1>5. Waits' /\ Holds'
  <2>1. \A q : InOrder(q, {}, {}) /\ \A it : Before(it, q, {}, {})
    BY DEF InOrder, Before
  <2>2. \A k : Near(k)'
    BY <1>2 DEF Near
  <2>3. \A s \in Session : InOrder(queue[s], OwnIds, Acks)'
    <3>1. \A s \in Session : InOrder(queue'[s], {}, {})
      BY <2>1
    <3> QED
      BY <1>2, <3>1 DEF InOrder
  <2>4. Before(hand, queue[hand.session], OwnIds, Acks)'
    <3>1. Before(hand', queue'[hand'.session], {}, {})
      BY <2>1
    <3> QED
      BY <1>2, <3>1 DEF Before
  <2> QED
    BY <1>2, <2>2, <2>3, <2>4 DEF Waits, Holds
<1>6. NoLoneTail'
  <2> SUFFICES ASSUME NEW s \in Session, NEW g \in segments, g.id \in Ids(queue'[s]), ~ stopped'[s]
               PROVE  FALSE
    BY DEF NoLoneTail
  <2>1. Rendering /\ g.render = bundle.id /\ s = bundle.dest
    BY <1>1, OldLone
  <2>2. g.id \in OwnIds
    BY <2>1 DEF OwnIds, SegmentIds, Rendering
  <2> QED
    BY <2>1, <2>2
<1> QED
  BY <1>3, <1>4, <1>5, <1>6 DEF CatchInv

\* Some items leave a queue.
LEMMA RemovedQueues ==
    ASSUME DaemonInv, NEW s \in Session, NEW ids
    PROVE  LET q == [queue EXCEPT ![s] = RemoveIds(@, ids)]
           IN  /\ Thin(queue, q, nextId) /\ Sound(q, hand, nextId)
               /\ q \in [Session -> Seq(ItemSet)]
               /\ Ids(q[s]) = Ids(queue[s]) \ ids
<1> DEFINE t == RemoveIds(queue[s], ids)
<1>1. Sound(queue, hand, nextId) /\ Thin(queue, queue, nextId) /\ nextId \in Nat
  BY NextIds DEF DaemonInv, QueueInv, Queues
<1>2. /\ queue[s] \in Seq(Of(s)) /\ queue[s] \in Seq(ItemSet) /\ Distinct(queue[s])
      /\ queue \in [Session -> Seq(ItemSet)]
  BY <1>1 DEF Sound
<1>3. t \in Seq(Of(s)) /\ t \in Seq(ItemSet) /\ Ids(t) = Ids(queue[s]) \ ids /\ Distinct(t)
  BY <1>2, RemoveIdsIds
<1>4. Thinned(queue[s], t, nextId)
  BY <1>2, ThinnedIds
<1>5. [queue EXCEPT ![s] = RemoveIds(@, ids)] = [queue EXCEPT ![s] = t]
  OBVIOUS
<1> HIDE DEF t
<1>6. Thin(queue, [queue EXCEPT ![s] = t], nextId)
  BY <1>1, <1>3, <1>4, ThinAt
<1>7. Sound([queue EXCEPT ![s] = t], hand, nextId)
  <2>1. nextId <= nextId /\ Ids(t) \subseteq Ids(queue[s]) \union (nextId + 1)..nextId
    BY <1>1, <1>3
  <2> QED
    BY <1>1, <1>3, <2>1, Replaced
<1>8. [queue EXCEPT ![s] = t] \in [Session -> Seq(ItemSet)] /\ [queue EXCEPT ![s] = t][s] = t
  BY <1>2, <1>3
<1> QED
  BY <1>3, <1>5, <1>6, <1>7, <1>8

LEMMA DropQueues ==
    ASSUME DaemonInv, NEW s \in Session, NEW r
    PROVE  LET q == DropSegments(s, r)
           IN  /\ Thin(queue, q, nextId) /\ Sound(q, hand, nextId)
               /\ q \in [Session -> Seq(ItemSet)]
               /\ Ids(q[s]) = Ids(queue[s]) \ SegmentIds(r)
  BY RemovedQueues DEF DropSegments

\* Where the bundle was rendered to.
LEMMA DestSession ==
    ASSUME Results
    PROVE  /\ InFlight => bundle \in Bundle /\ bundle.target \in Session
           /\ Rendering => bundle.dest \in Session
  BY DEF Results, InFlight, Rendering, Bundle

LEMMA CancelKeeps ==
    ASSUME CatchUpInv, CancelCatchUp
    PROVE  CatchUpInv'
<1> DEFINE dest == CueDest(bundle.target)
           q == IF Rendering THEN DropSegments(bundle.dest, bundle.id) ELSE queue
<1>1. DaemonInv /\ RestTypes /\ CatchInv /\ Results
  BY DEF CatchUpInv, CatchInv
<1>2. InFlight
  BY DEF CancelCatchUp
<1>3. dest \in Session
  BY <1>1, <1>2, DestIs, DestSession
<1>4. /\ OpenWith({dest}) /\ EnqueueFirst(q, Cue(nextId + 1, dest)) /\ MadeAudible(dest) /\ PressLeaves
      /\ sent' = sent + 1 /\ bundle' = None /\ UNCHANGED <<markers, inbox, working, seq, segments>>
  BY DEF CancelCatchUp, Receive
<1>5. Thin(queue, q, nextId) /\ Sound(q, hand, nextId) /\ q \in [Session -> Seq(ItemSet)]
  <2>1. CASE Rendering
    BY <1>1, <2>1, DestSession, DropQueues
  <2>2. CASE ~ Rendering
    BY <1>1, <2>2, NextIds DEF DaemonInv, QueueInv, Queues, Sound
  <2> QED
    BY <2>1, <2>2
<1>6. sent' \in Nat /\ cut' \in BOOLEAN /\ {dest} \in SUBSET Session
  <2>1. cut' \in BOOLEAN
    BY <1>1 DEF CancelCatchUp, CancelIf, RestTypes, LoopTypes
  <2> QED
    BY <1>1, <1>3, <1>4, <2>1 DEF RestTypes, ModeTypes
<1>7. Rendering => \A k \in OwnIds : k \notin Ids(q[bundle.dest])
  <2> SUFFICES ASSUME Rendering, NEW k \in OwnIds PROVE k \notin Ids(q[bundle.dest])
    OBVIOUS
  <2>1. Ids(q[bundle.dest]) = Ids(queue[bundle.dest]) \ SegmentIds(bundle.id)
    BY <1>1, DestSession, DropQueues
  <2> HIDE DEF q
  <2> QED
    BY <1>2, <2>1 DEF OwnIds
<1> HIDE DEF dest, q
<1>8. /\ DaemonInv' /\ RestTypes' /\ Quiet
      /\ nextId' = nextId + 1 /\ nextId + 1 \in Nat
      /\ queue' = [q EXCEPT ![dest] = EnqueueFront(@, Cue(nextId + 1, dest))]
  BY <1>1, <1>3, <1>4, <1>5, <1>6, WordQuiet
<1>9. ASSUME Rendering, NEW k \in OwnIds PROVE k \notin Ids(queue'[bundle.dest])
  <2> DEFINE w == Cue(nextId + 1, dest)
             d == bundle.dest
  <2>1. d \in Session /\ q[d] \in Seq(ItemSet) /\ k \notin Ids(q[d])
    BY <1>1, <1>5, <1>7, <1>9, DestSession
  <2>2. k \in 0..nextId
    BY <1>1, OwnIdsAre DEF CatchInv, DaemonInv
  <2>3. w \in ItemSet /\ w.id = nextId + 1 /\ nextId + 1 \notin 0..nextId
    BY <1>1, <1>3, <1>8, NewWords, NextIds DEF DaemonInv
  <2>4. queue'[d] = q[d] \/ queue'[d] = EnqueueFront(q[d], w)
    BY <1>3, <1>5, <1>8, <2>1
  <2> HIDE DEF w, d
  <2>5. Ids(EnqueueFront(q[d], w)) = Ids(q[d]) \union {nextId + 1}
    BY <2>1, <2>3, EnqueueFrontIds
  <2>6. k \notin Ids(queue'[d])
    BY <2>1, <2>2, <2>3, <2>4, <2>5
  <2> QED
    BY <2>6 DEF d
<1>10. CatchInv'
  BY <1>1, <1>4, <1>8, <1>9, BundleGone
<1> QED
  BY <1>8, <1>10 DEF CatchUpInv

\* A press that starts a catch-up: nothing of it is rendered yet.
LEMMA StartKeeps ==
    ASSUME CatchUpInv, StartCatchUp
    PROVE  CatchUpInv'
<1> DEFINE dest == CueDest(Workspace)
           S == {Workspace, dest}
           w == Cue(nextId + 1, dest)
<1>1. DaemonInv /\ RestTypes /\ CatchInv /\ Results /\ Rendered /\ Waits /\ Holds /\ NoLoneTail
  BY DEF CatchUpInv, CatchInv
<1>2. Workspace \in Session /\ dest \in Session /\ ~ InFlight
  BY <1>1, DestIs DEF StartCatchUp, Piled
<1>3. /\ OpenWith(S) /\ EnqueueFirst(queue, w) /\ MadeAudible(dest) /\ PressLeaves
      /\ sent' = sent + 1 /\ seq' = seq + 1 /\ working' = working \union {seq + 1}
      /\ UNCHANGED <<markers, cut, inbox, segments>>
      /\ bundle' = [id |-> seq + 1, target |-> Workspace, end |-> newest[Workspace],
                    ack |-> nextId + 1, dest |-> None, ended |-> FALSE, pinned |-> TRUE, left |-> 0]
  BY DEF StartCatchUp, Receive
<1>4. Thin(queue, queue, nextId) /\ Sound(queue, hand, nextId)
  BY <1>1, NextIds DEF DaemonInv, QueueInv, Queues
<1>5. sent' \in Nat /\ cut' \in BOOLEAN /\ S \in SUBSET Session
  BY <1>1, <1>2, <1>3 DEF RestTypes, ModeTypes, LoopTypes
<1> HIDE DEF dest, S, w
<1>6. /\ DaemonInv' /\ RestTypes' /\ Quiet /\ nextId' = nextId + 1
      /\ queue' = [queue EXCEPT ![dest] = EnqueueFront(@, w)]
  BY <1>1, <1>2, <1>3, <1>4, <1>5, WordQuiet DEF w
<1>7. /\ nextId \in Nat /\ nextId + 1 \in Nat /\ nextId + 1 \notin 0..nextId
      /\ \A k \in 0..nextId : k \in 0..nextId' /\ nextId + 1 \in 0..nextId'
      /\ seq \in Nat /\ seq + 1 \in Nat /\ seq + 1 \notin 0..seq /\ seq + 1 \in 0..seq'
      /\ \A k \in 0..seq : k \in 0..seq'
  <2>1. nextId \in Nat /\ seq \in Nat
    BY <1>1, NextIds DEF DaemonInv, Results
  <2> QED
    BY <1>3, <1>6, <2>1
<1>8. /\ bundle' \in Bundle /\ bundle'.id = seq + 1 /\ bundle'.dest = None /\ bundle'.ack = nextId + 1
  <2>1. newest[Workspace] \in Nat
    BY <1>1, <1>2 DEF DaemonInv, NumInv
  <2> QED
    BY <1>2, <1>3, <1>7, <2>1 DEF Bundle
<1>9. InFlight' /\ ~ Rendering' /\ Acks' = {nextId + 1}
  BY <1>8, BundleAssumption DEF InFlight, Rendering, Acks
<1>10. OwnIds' = {} /\ LastIds' = {}
  <2>1. \A g \in segments : g.render # seq + 1
    BY <1>1, <1>7 DEF Rendered
  <2>2. SegmentIds(bundle.id)' = {}
    BY <1>3, <1>8, <2>1 DEF SegmentIds
  <2>3. OwnIds' = {}
    BY <1>9, <2>2 DEF OwnIds
  <2> QED
    BY <2>3 DEF LastIds
<1>11. Results'
  <2>1. inbox' \subseteq [id : Nat, ok : BOOLEAN] /\ working' \subseteq Nat /\ seq' \in Nat
    BY <1>1, <1>3, <1>7 DEF Results
  <2>2. \A r \in working' : r \in 0..seq'
    BY <1>1, <1>3, <1>7 DEF Results
  <2>3. \A x \in inbox' : x.id \in 0..seq' /\ x.id \notin working'
    BY <1>1, <1>3, <1>7 DEF Results
  <2>4. \A x, y \in inbox' : x.id = y.id => x = y
    BY <1>1, <1>3 DEF Results
  <2> QED
    BY <1>7, <1>8, <1>9, <2>1, <2>2, <2>3, <2>4 DEF Results
<1>12. Rendered'
  <2>1. Acks' \subseteq 0..nextId' /\ Acks' \intersect OwnIds' = {}
    BY <1>7, <1>9, <1>10
  <2>2. \A g \in segments' : g.id \in 0..nextId' /\ g.render \in 0..seq'
    BY <1>1, <1>3, <1>7 DEF Rendered
  <2>3. segments' \subseteq [id : Nat, render : Nat, burn : BOOLEAN]
    BY <1>1, <1>3 DEF Rendered
  <2> QED
    BY <1>9, <1>10, <2>1, <2>2, <2>3 DEF Rendered
<1>13. ASSUME NEW s \in Session PROVE InOrder(queue'[s], {}, {nextId + 1})
  <2>1. queue[s] \in Seq(ItemSet) /\ Ids(queue[s]) \subseteq 0..nextId /\ queue \in [Session -> Seq(ItemSet)]
    BY <1>4 DEF Sound
  <2>2. \A i \in DOMAIN queue[s] : queue[s][i].id # nextId + 1
    BY <1>7, <2>1 DEF Ids
  <2>3. CASE s # dest
    <3>1. queue'[s] = queue[s]
      BY <1>6, <2>1, <2>3
    <3> QED
      BY <2>2, <3>1 DEF InOrder
  <2>4. CASE s = dest
    <3> DEFINE q == queue[s]
               r == EnqueueFront(q, w)
    <3>1. queue'[s] = r
      BY <1>6, <2>1, <2>4
    <3>2. w \in ItemSet /\ w.cue
      BY <1>2, <1>7 DEF w, Cue, Item, ItemSet
    <3>3. /\ Len(r) = Len(q) + 1 /\ r[1] = w /\ r \in Seq(ItemSet)
          /\ \A i \in 1..Len(q) : r[i + 1] = q[i]
      BY <2>1, <3>2 DEF EnqueueFront
    <3>4. \A i \in DOMAIN q : q[i].id # nextId + 1
      BY <2>2
    <3>5. q \in Seq(ItemSet)
      BY <2>1
    <3> HIDE DEF r, q
    <3>6. \A i \in DOMAIN r : i = 1 \/ (i - 1 \in DOMAIN q /\ r[i] = q[i - 1])
      BY <3>3, <3>5
    <3>7. \A i \in DOMAIN r : r[i].id = nextId + 1 => r[i].cue
      BY <3>2, <3>3, <3>4, <3>6
    <3> QED
      BY <3>1, <3>7 DEF InOrder
  <2> QED
    BY <2>3, <2>4
<1>14. Waits'
  <2>1. \A k : Near(k)'
    BY <1>10 DEF Near
  <2>2. \A s \in Session : InOrder(queue[s], OwnIds, Acks)'
    BY <1>9, <1>10, <1>13 DEF InOrder
  <2> QED
    BY <1>10, <2>1, <2>2 DEF Waits
<1>15. Holds'
  <2>1. hand' = hand /\ (hand # None => hand.id \in 0..nextId)
    BY <1>3, <1>4 DEF PressLeaves, Sound
  <2>2. hand' # None => hand'.id \notin OwnIds' \union Acks'
    BY <1>7, <1>9, <1>10, <2>1
  <2>3. hand' # None => Before(hand, queue[hand.session], OwnIds, Acks)' /\ Near(hand.id)'
    BY <2>2 DEF Before, Near
  <2> QED
    BY <2>2, <2>3 DEF Holds
<1>16. NoLoneTail'
  <2>1. ~ Rendering
    BY <1>2 DEF Rendering
  <2> QED
    BY <1>1, <1>3, <1>6, <2>1, LoneStays
<1> QED
  BY <1>6, <1>11, <1>12, <1>14, <1>15, <1>16 DEF CatchUpInv, CatchInv

\* What workers post, and what the loop finds stale.
LEMMA InboxKeeps ==
    ASSUME CatchUpInv, UNCHANGED <<vars, bundle, seq, segments>>, Results'
    PROVE  CatchUpInv'
<1>1. DaemonInv /\ RestTypes /\ CatchInv /\ QueueInv
  BY DEF CatchUpInv, DaemonInv
<1>2. Quiet /\ DaemonInv'
  BY <1>1, NextQuiet
<1>3. RestTypes'
  BY <1>1, NextRest
<1>4. CatchInv'
  BY <1>1, <1>2, QuietKeeps DEF Stays
<1> QED
  BY <1>2, <1>3, <1>4 DEF CatchUpInv

LEMMA WorkerKeeps ==
    ASSUME CatchUpInv, NEW r \in working, NEW ok \in BOOLEAN, WorkerPosts(r, ok)
    PROVE  CatchUpInv'
<1> DEFINE x == [id |-> r, ok |-> ok]
<1>1. Results
  BY DEF CatchUpInv, CatchInv
<1>2. /\ working' = working \ {r} /\ inbox' = inbox \union {x}
      /\ UNCHANGED <<vars, bundle, seq, segments>>
  BY DEF WorkerPosts
<1>3. x.id = r /\ r \in Nat /\ r \in 0..seq /\ x \in [id : Nat, ok : BOOLEAN]
  BY <1>1 DEF Results
<1> HIDE DEF x
<1>4. InFlight' = InFlight /\ Rendering' = Rendering
  BY <1>2 DEF InFlight, Rendering
<1>5. Results'
  <2>1. \A y \in inbox' : y.id \in 0..seq' /\ y.id \notin working'
    BY <1>1, <1>2, <1>3 DEF Results
  <2>2. \A y, z \in inbox' : y.id = z.id => y = z
    BY <1>1, <1>2, <1>3 DEF Results
  <2>3. Rendering => bundle.id \notin working' /\ \A y \in inbox' : y.id # bundle.id
    BY <1>1, <1>2, <1>3 DEF Results
  <2>4. inbox' \subseteq [id : Nat, ok : BOOLEAN] /\ working' \subseteq Nat
    BY <1>1, <1>2, <1>3 DEF Results
  <2>5. \A k \in working' : k \in 0..seq
    BY <1>1, <1>2 DEF Results
  <2>6. seq' = seq /\ bundle' = bundle /\ seq \in Nat /\ bundle \in Bundle \union {None}
        /\ (InFlight => bundle.id \in 0..seq)
    BY <1>1, <1>2 DEF Results
  <2> QED
    BY <1>4, <2>1, <2>2, <2>3, <2>4, <2>5, <2>6 DEF Results
<1> QED
  BY <1>2, <1>5, InboxKeeps

LEMMA StaleKeeps ==
    ASSUME CatchUpInv, NEW res \in inbox, StaleResult(res)
    PROVE  CatchUpInv'
<1>1. Results
  BY DEF CatchUpInv, CatchInv
<1>2. inbox' = inbox \ {res} /\ UNCHANGED <<vars, bundle, working, seq, segments>>
  BY DEF StaleResult
<1>3. InFlight' = InFlight /\ Rendering' = Rendering
  BY <1>2 DEF InFlight, Rendering
<1>4. Results'
  BY <1>1, <1>2, <1>3 DEF Results
<1> QED
  BY <1>2, <1>4, InboxKeeps

-----------------------------------------------------------------------------
(* The result is rendered                                                    *)

LEMMA Joined ==
    ASSUME NEW T, NEW e \in Seq(T), NEW g \in Seq(T)
    PROVE  /\ e \o g \in Seq(T) /\ Len(e \o g) = Len(e) + Len(g)
           /\ \A i \in 1..Len(e) : (e \o g)[i] = e[i]
           /\ \A i \in 1..Len(g) : (e \o g)[Len(e) + i] = g[i]
  OBVIOUS

\* What is new is put somewhere into a queue.
Inserted(q, items, r, at) ==
    /\ at \in 0..Len(q) /\ Len(r) = Len(q) + Len(items)
    /\ \A i \in 1..at : r[i] = q[i]
    /\ \A i \in 1..Len(items) : r[at + i] = items[i]
    /\ \A i \in (at + 1)..Len(q) : r[Len(items) + i] = q[i]

\* The items stand together, right behind the anchor where there is one.
LEMMA InsertAfterElements ==
    ASSUME NEW T, NEW q \in Seq(T), NEW items \in Seq(T), NEW anchor
    PROVE  /\ InsertAfter(q, anchor, items) \in Seq(T)
           /\ \E at \in 0..Len(q) :
                 /\ Inserted(q, items, InsertAfter(q, anchor, items), at)
                 /\ anchor \in Ids(q) => at \in DOMAIN q /\ q[at].id = anchor
<1> DEFINE r == InsertAfter(q, anchor, items)
           n == Len(items)
<1>1. CASE anchor \notin Ids(q)
  <2>1. r = items \o q
    BY <1>1 DEF InsertAfter
  <2>2. /\ r \in Seq(T) /\ Len(r) = Len(q) + n
        /\ \A i \in 1..0 : r[i] = q[i]
        /\ \A i \in 1..n : r[0 + i] = items[i]
        /\ \A i \in (0 + 1)..Len(q) : r[n + i] = q[i]
    BY <2>1
  <2>3. 0 \in 0..Len(q)
    OBVIOUS
  <2> HIDE DEF r, n
  <2> QED
    BY <1>1, <2>2, <2>3 DEF r, n, Inserted
<1>2. CASE anchor \in Ids(q)
  <2> DEFINE at == CHOOSE i \in DOMAIN q : q[i].id = anchor
             f == SubSeq(q, 1, at)
             g == SubSeq(q, at + 1, Len(q))
  <2>1. at \in DOMAIN q /\ q[at].id = anchor
    BY <1>2 DEF Ids
  <2>2. r = f \o items \o g
    BY <1>2 DEF InsertAfter
  <2> HIDE DEF at
  <2>3. at \in 1..Len(q) /\ at \in 0..Len(q)
    BY <2>1
  <2>4. f \in Seq(T) /\ Len(f) = at /\ \A i \in 1..at : f[i] = q[i]
    BY <2>3
  <2>5. g \in Seq(T) /\ Len(g) = Len(q) - at /\ \A i \in 1..(Len(q) - at) : g[i] = q[i + at]
    BY <2>3
  <2> HIDE DEF f, g
  <2> DEFINE e == f \o items
  <2>6. /\ e \in Seq(T) /\ Len(e) = at + n
        /\ \A i \in 1..at : e[i] = q[i]
        /\ \A i \in 1..n : e[at + i] = items[i]
    BY <2>3, <2>4
  <2>7. r = e \o g
    BY <2>2
  <2> HIDE DEF e
  <2>8. n \in Nat
    OBVIOUS
  <2> HIDE DEF n, r
  <2>9. /\ r \in Seq(T) /\ Len(r) = Len(q) + n
        /\ \A i \in 1..(at + n) : r[i] = e[i]
        /\ \A i \in 1..(Len(q) - at) : r[at + n + i] = g[i]
    <3>1. /\ e \o g \in Seq(T) /\ Len(e \o g) = Len(e) + Len(g)
          /\ \A i \in 1..Len(e) : (e \o g)[i] = e[i]
          /\ \A i \in 1..Len(g) : (e \o g)[Len(e) + i] = g[i]
      <4>1. e \in Seq(T) /\ g \in Seq(T)
        BY <2>5, <2>6
      <4> QED
        BY <4>1, Joined
    <3>2. Len(e) = at + n /\ Len(g) = Len(q) - at /\ Len(q) \in Nat
      BY <2>5, <2>6
    <3>3. Len(e) + Len(g) = Len(q) + n
      BY <3>2, <2>3, <2>8
    <3> QED
      BY <3>1, <3>2, <3>3, <2>7
  <2>10. \A i \in 1..at : r[i] = q[i]
    BY <2>3, <2>6, <2>8, <2>9
  <2>11. \A i \in 1..n : r[at + i] = items[i]
    BY <2>3, <2>6, <2>8, <2>9
  <2>12. \A i \in (at + 1)..Len(q) : r[n + i] = q[i]
    <3> SUFFICES ASSUME NEW i \in (at + 1)..Len(q) PROVE r[n + i] = q[i]
      OBVIOUS
    <3>1. i - at \in 1..(Len(q) - at) /\ at + n + (i - at) = n + i /\ (i - at) + at = i
      BY <2>3, <2>8
    <3>2. r[at + n + (i - at)] = g[i - at] /\ g[i - at] = q[(i - at) + at]
      BY <2>5, <2>9, <3>1
    <3> QED
      BY <3>1, <3>2
  <2>13. Inserted(q, items, r, at)
    BY <2>3, <2>9, <2>10, <2>11, <2>12 DEF n, Inserted
  <2> QED
    BY <2>1, <2>3, <2>9, <2>13 DEF r
<1> QED
  BY <1>1, <1>2

LEMMA InsertedPlaces ==
    ASSUME NEW T, NEW q \in Seq(T), NEW items \in Seq(T), NEW r \in Seq(T), NEW at, Inserted(q, items, r, at),
           NEW i \in DOMAIN r
    PROVE  \/ i \in DOMAIN q /\ i <= at /\ r[i] = q[i]
           \/ i > at /\ i - at \in DOMAIN items /\ r[i] = items[i - at]
           \/ i - Len(items) \in DOMAIN q /\ i - Len(items) > at /\ r[i] = q[i - Len(items)]
<1>1. /\ at \in 0..Len(q) /\ Len(q) \in Nat /\ Len(items) \in Nat /\ i \in 1..(Len(q) + Len(items))
      /\ DOMAIN q = 1..Len(q) /\ DOMAIN items = 1..Len(items)
  BY DEF Inserted
<1>2. CASE i <= at
  BY <1>1, <1>2 DEF Inserted
<1>3. CASE i > at /\ i <= at + Len(items)
  <2>1. i - at \in 1..Len(items) /\ at + (i - at) = i
    BY <1>1, <1>3
  <2> QED
    BY <1>1, <1>3, <2>1 DEF Inserted
<1>4. CASE i > at + Len(items)
  <2>1. i - Len(items) \in (at + 1)..Len(q) /\ Len(items) + (i - Len(items)) = i /\ i - Len(items) > at
    BY <1>1, <1>4
  <2>2. r[Len(items) + (i - Len(items))] = q[i - Len(items)]
    BY <2>1 DEF Inserted
  <2>3. i - Len(items) \in DOMAIN q
    BY <1>1, <2>1
  <2> QED
    BY <2>1, <2>2, <2>3
<1> QED
  BY <1>1, <1>2, <1>3, <1>4

\* Items numbered downwards from m + n to m + 1 in a queue of older ones.
Falling(items, m) == \A i \in DOMAIN items : items[i].id = m + Len(items) + 1 - i

LEMMA InsertedIds ==
    ASSUME NEW T, NEW q \in Seq(T), NEW items \in Seq(T), NEW r \in Seq(T), NEW at, Inserted(q, items, r, at),
           NEW m \in Nat, Falling(items, m), Ids(q) \subseteq 0..m, Distinct(q)
    PROVE  /\ Ids(r) \subseteq Ids(q) \union (m + 1)..(m + Len(items))
           /\ Distinct(r)
<1> DEFINE n == Len(items)
<1>1. n \in Nat /\ DOMAIN items = 1..n /\ \A j \in DOMAIN items : items[j].id = m + n + 1 - j
  BY DEF Falling
<1>2. \A j \in DOMAIN items : items[j].id \in (m + 1)..(m + n) /\ items[j].id \notin 0..m
  BY <1>1
<1>3. \A j \in DOMAIN q : q[j].id \in Ids(q) /\ q[j].id \in 0..m
  BY DEF Ids
<1>4. \A i \in DOMAIN r : \/ i \in DOMAIN q /\ i <= at /\ r[i] = q[i]
                          \/ i > at /\ i - at \in DOMAIN items /\ r[i] = items[i - at]
                          \/ i - n \in DOMAIN q /\ i - n > at /\ r[i] = q[i - n]
  BY InsertedPlaces
<1>5. at \in Nat /\ DOMAIN r \subseteq Nat /\ DOMAIN q \subseteq Nat
  BY DEF Inserted
<1> HIDE DEF n
<1>6. \A i \in DOMAIN r : r[i].id \in Ids(q) \union (m + 1)..(m + n)
  BY <1>2, <1>3, <1>4
<1>7. ASSUME NEW i \in DOMAIN r, NEW j \in DOMAIN r, r[i].id = r[j].id PROVE i = j
  <2>1. i \in Nat /\ j \in Nat
    BY <1>5
  <2>2. CASE i - at \in DOMAIN items /\ r[i] = items[i - at]
    <3>1. r[j].id \notin 0..m
      BY <1>2, <1>7, <2>2
    <3>2. j - at \in DOMAIN items /\ r[j] = items[j - at]
      BY <1>3, <1>4, <3>1
    <3>3. m + n + 1 - (i - at) = m + n + 1 - (j - at)
      BY <1>1, <1>7, <2>2, <3>2
    <3> QED
      BY <1>1, <1>5, <2>1, <3>3
  <2>3. CASE r[i].id \in 0..m
    <3>1. r[j].id \in 0..m
      BY <1>7, <2>3
    <3>2. (i \in DOMAIN q /\ i <= at /\ r[i] = q[i]) \/ (i - n \in DOMAIN q /\ i - n > at /\ r[i] = q[i - n])
      BY <1>2, <1>4, <2>3
    <3>3. (j \in DOMAIN q /\ j <= at /\ r[j] = q[j]) \/ (j - n \in DOMAIN q /\ j - n > at /\ r[j] = q[j - n])
      BY <1>2, <1>4, <3>1
    <3>4. \A a, b \in DOMAIN q : q[a].id = q[b].id => a = b
      BY DEF Distinct
    <3>5. CASE i \in DOMAIN q /\ i <= at /\ r[i] = q[i] /\ j \in DOMAIN q /\ j <= at /\ r[j] = q[j]
      BY <1>7, <3>4, <3>5
    <3>6. CASE i \in DOMAIN q /\ i <= at /\ r[i] = q[i] /\ j - n \in DOMAIN q /\ j - n > at /\ r[j] = q[j - n]
      <4>1. i = j - n
        BY <1>7, <3>4, <3>6
      <4> QED
        BY <1>5, <2>1, <3>6, <4>1
    <3>7. CASE j \in DOMAIN q /\ j <= at /\ r[j] = q[j] /\ i - n \in DOMAIN q /\ i - n > at /\ r[i] = q[i - n]
      <4>1. j = i - n
        BY <1>7, <3>4, <3>7
      <4> QED
        BY <1>5, <2>1, <3>7, <4>1
    <3>8. CASE i - n \in DOMAIN q /\ r[i] = q[i - n] /\ j - n \in DOMAIN q /\ r[j] = q[j - n]
      <4>1. i - n = j - n
        BY <1>7, <3>4, <3>8
      <4> QED
        BY <1>1, <2>1, <4>1
    <3> QED
      BY <3>2, <3>3, <3>5, <3>6, <3>7, <3>8
  <2> QED
    BY <1>3, <1>4, <2>2, <2>3
<1> QED
  BY <1>6, <1>7 DEF Distinct, Ids, n

\* They are in order when the acknowledgement is the anchor, or gone.
LEMMA InsertedInOrder ==
    ASSUME NEW T, NEW q \in Seq(T), NEW items \in Seq(T), NEW r \in Seq(T), NEW at, Inserted(q, items, r, at),
           NEW m \in Nat, Falling(items, m), Ids(q) \subseteq 0..m, Distinct(q),
           \A i \in DOMAIN items : items[i].cue,
           NEW ack \in 0..m, \A i \in DOMAIN q : q[i].id = ack => q[i].cue,
           ack \in Ids(q) => at \in DOMAIN q /\ q[at].id = ack
    PROVE  InOrder(r, (m + 1)..(m + Len(items)), {ack})
<1> DEFINE n == Len(items)
           own == (m + 1)..(m + n)
<1>1. n \in Nat /\ DOMAIN items = 1..n /\ \A j \in DOMAIN items : items[j].id = m + n + 1 - j
  BY DEF Falling
<1>2. \A j \in DOMAIN items : items[j].id \in own /\ items[j].id \notin 0..m
  BY <1>1
<1>3. \A j \in DOMAIN q : q[j].id \in Ids(q) /\ q[j].id \in 0..m /\ q[j].id \notin own
  BY DEF Ids
<1>4. \A i \in DOMAIN r : \/ i \in DOMAIN q /\ i <= at /\ r[i] = q[i]
                          \/ i > at /\ i - at \in DOMAIN items /\ r[i] = items[i - at]
                          \/ i - n \in DOMAIN q /\ i - n > at /\ r[i] = q[i - n]
  BY InsertedPlaces
<1>5. at \in Nat /\ DOMAIN r \subseteq Nat /\ DOMAIN q \subseteq Nat
  BY DEF Inserted
<1>6. ack \notin own /\ own \subseteq Nat
  BY <1>1
<1> HIDE DEF n, own
<1>7. \A i \in DOMAIN r : r[i].id \in own => i > at /\ i - at \in DOMAIN items /\ r[i] = items[i - at]
  BY <1>3, <1>4
<1>8. \A i \in DOMAIN r : r[i].id = ack => i <= at /\ r[i].cue
  <2> SUFFICES ASSUME NEW i \in DOMAIN r, r[i].id = ack PROVE i <= at /\ r[i].cue
    OBVIOUS
  <2>1. CASE i \in DOMAIN q /\ i <= at /\ r[i] = q[i]
    BY <2>1
  <2>2. CASE i - n \in DOMAIN q /\ i - n > at /\ r[i] = q[i - n]
    <3>1. ack \in Ids(q)
      BY <1>3, <2>2
    <3>2. i - n = at
      BY <2>2, <3>1 DEF Distinct
    <3> QED
      BY <1>5, <2>2, <3>2
  <2>3. r[i].id \notin own
    BY <1>6
  <2> QED
    BY <1>2, <1>4, <2>1, <2>2, <2>3
<1>9. \A i \in DOMAIN r : r[i].id \in own => r[i].cue
  BY <1>7
<1>10. ASSUME NEW i \in DOMAIN r, NEW j \in DOMAIN r, i < j, r[i].id \in own, r[j].id \in own
       PROVE  r[i].id > r[j].id
  <2>1. /\ r[i].id = m + n + 1 - (i - at) /\ r[j].id = m + n + 1 - (j - at)
    BY <1>1, <1>7, <1>10
  <2> QED
    BY <1>1, <1>5, <1>10, <2>1
<1>11. ASSUME NEW i \in DOMAIN r, NEW j \in DOMAIN r, r[i].id \in own, r[j].id = ack PROVE j < i
  <2>1. i > at /\ j <= at /\ i \in Nat /\ j \in Nat
    BY <1>5, <1>7, <1>8, <1>11
  <2> QED
    BY <1>5, <2>1
<1>12. InOrder(r, own, {ack})
  BY <1>8, <1>9, <1>10, <1>11 DEF InOrder
<1> QED
  BY <1>12 DEF own, n

\* The segments as they are numbered and put in place.
LEMMA RenderShape ==
    ASSUME CatchUpInv, NEW res \in inbox, RenderResult(res)
    PROVE  /\ InFlight /\ ~ Rendering /\ res.id = bundle.id
           /\ bundle \in Bundle /\ UNCHANGED <<markers, cut, sent, working, seq, hand>> /\ PressLeaves
           /\ inbox' = inbox \ {res}
           /\ \E dest \in Session, n \in Nat, items \in Seq(ItemSet), at \in Nat :
                 /\ n > 0 /\ Len(items) = n /\ items \in Seq(Of(dest)) /\ Falling(items, nextId)
                 /\ \A i \in DOMAIN items : items[i].cue
                 /\ OpenWith({dest}) /\ MadeAudible(dest) /\ nextId' = nextId + n
                 /\ queue' = [queue EXCEPT ![dest] = InsertAfter(@, bundle.ack, items)]
                 /\ segments' = segments \union
                      {[id |-> nextId + i, render |-> bundle.id, burn |-> i = 1] : i \in 1..n}
                 /\ \E e \in BOOLEAN : bundle' = [bundle EXCEPT !.dest = dest, !.ended = e, !.left = n]
<1>1. Results /\ DaemonInv /\ nextId \in Nat
  BY NextIds DEF CatchUpInv, CatchInv, DaemonInv
<1>2. InFlight /\ res.id = bundle.id
  BY DEF RenderResult, Awaited
<1>3. ~ Rendering /\ bundle \in Bundle /\ bundle.target \in Session
  BY <1>1, <1>2, DestSession DEF Results
<1>4. UNCHANGED <<markers, cut, sent, working, seq>> /\ PressLeaves /\ inbox' = inbox \ {res}
  BY DEF RenderResult
<1>5. hand' = hand
  BY <1>4 DEF PressLeaves
<1> DEFINE dest  == CueDest(bundle.target)
           gone  == bundle.target \notin reg
           n     == SegmentCount(gone, res.ok, bundle.target)
           items == [i \in 1..n |-> Cue(nextId + n + 1 - i, dest)]
<1>6. dest \in Session
  BY <1>1, <1>3, DestIs
<1>7. n \in Nat /\ n > 0
  BY DEF SegmentCount
<1>8. /\ OpenWith({dest}) /\ MadeAudible(dest) /\ nextId' = nextId + n
      /\ queue' = [queue EXCEPT ![dest] = InsertAfter(@, bundle.ack, items)]
      /\ segments' = segments \union
           {[id |-> nextId + i, render |-> bundle.id, burn |-> i = 1] : i \in 1..n}
      /\ bundle' = [bundle EXCEPT !.dest = dest, !.ended = gone, !.left = n]
  BY DEF RenderResult
<1>9. gone \in BOOLEAN
  OBVIOUS
<1> HIDE DEF dest, gone, n
<1>10. \A i \in 1..n : /\ nextId + n + 1 - i \in Nat
                       /\ Cue(nextId + n + 1 - i, dest) \in Of(dest)
                       /\ Cue(nextId + n + 1 - i, dest).id = nextId + n + 1 - i
                       /\ Cue(nextId + n + 1 - i, dest).cue
  <2> SUFFICES ASSUME NEW i \in 1..n
               PROVE  /\ nextId + n + 1 - i \in Nat
                      /\ Cue(nextId + n + 1 - i, dest) \in Of(dest)
                      /\ Cue(nextId + n + 1 - i, dest).id = nextId + n + 1 - i
                      /\ Cue(nextId + n + 1 - i, dest).cue
    OBVIOUS
  <2>1. nextId + n + 1 - i \in Nat
    BY <1>1, <1>7
  <2>2. \A k \in Nat : Cue(k, dest) \in Of(dest) /\ Cue(k, dest).id = k /\ Cue(k, dest).cue
    BY <1>6, Words DEF Cue, Item
  <2> QED
    BY <2>1, <2>2
<1>11. items \in Seq(Of(dest)) /\ Len(items) = n /\ DOMAIN items = 1..n
  BY <1>7, <1>10
<1>12. \A i \in DOMAIN items : items[i].cue /\ items[i].id = nextId + n + 1 - i
  BY <1>10, <1>11
<1> HIDE DEF items
<1>13. Falling(items, nextId)
  BY <1>11, <1>12 DEF Falling
<1>14. items \in Seq(ItemSet)
  <2>1. Of(dest) \subseteq ItemSet
    BY DEF Of
  <2> QED
    BY <1>11, <2>1
<1> QED
  BY <1>2, <1>3, <1>4, <1>5, <1>6, <1>7, <1>8, <1>9, <1>11, <1>12, <1>13, <1>14

\* Whose they are once they are rendered.
LEMMA RenderedIds ==
    ASSUME Results, Rendered, InFlight, ~ Rendering, NEW n \in Nat, nextId \in Nat, n > 0, nextId' = nextId + n,
           NEW dest \in Session, NEW e \in BOOLEAN, UNCHANGED seq,
           segments' = segments \union
               {[id |-> nextId + i, render |-> bundle.id, burn |-> i = 1] : i \in 1..n},
           bundle' = [bundle EXCEPT !.dest = dest, !.ended = e, !.left = n]
    PROVE  /\ bundle' \in Bundle /\ bundle'.id = bundle.id /\ bundle'.dest = dest /\ bundle'.left = n
           /\ Rendering' /\ Acks' = {bundle.ack} /\ bundle.ack \in 0..nextId
           /\ OwnIds' = (nextId + 1)..(nextId + n) /\ LastIds' = {nextId + 1}
           /\ \A g \in segments' : g \in segments \/ (g.id \in (nextId + 1)..(nextId + n) /\ g.render = bundle.id)
           /\ segments' \subseteq [id : Nat, render : Nat, burn : BOOLEAN]
<1>1. bundle \in Bundle
  BY DEF Results, InFlight
<1>2. /\ bundle' \in Bundle /\ bundle'.id = bundle.id /\ bundle'.dest = dest /\ bundle'.left = n
      /\ bundle'.ack = bundle.ack
  BY <1>1 DEF Bundle
<1>3. InFlight' /\ Rendering' /\ Acks' = {bundle.ack}
  BY <1>2, BundleAssumption, NoneAssumption DEF InFlight, Rendering, Acks
<1>4. bundle.ack \in 0..nextId
  BY DEF Rendered, Acks
<1>5. \A g \in segments : g.render # bundle.id /\ g.id \in 0..nextId
  BY DEF Rendered, OwnIds, SegmentIds
<1> DEFINE Seg(i) == [id |-> nextId + i, render |-> bundle.id, burn |-> i = 1]
<1>6. \A i \in 1..n : /\ Seg(i).id = nextId + i /\ Seg(i).render = bundle.id /\ Seg(i).burn = (i = 1)
                      /\ Seg(i) \in [id : Nat, render : Nat, burn : BOOLEAN] /\ Seg(i) \in segments'
  <2>1. bundle.id \in Nat
    BY <1>1 DEF Bundle
  <2>2. \A i \in 1..n : nextId + i \in Nat
    OBVIOUS
  <2> QED
    BY <2>1, <2>2
<1>7. \A g \in segments' : g \in segments \/ \E i \in 1..n : g = Seg(i)
  OBVIOUS
<1> HIDE DEF Seg
<1>8. \A k : k \in (nextId + 1)..(nextId + n) <=> \E i \in 1..n : k = nextId + i
  <2>1. ASSUME NEW k \in (nextId + 1)..(nextId + n) PROVE \E i \in 1..n : k = nextId + i
    <3>1. k - nextId \in 1..n /\ k = nextId + (k - nextId)
      OBVIOUS
    <3> QED
      BY <3>1
  <2>2. \A i \in 1..n : nextId + i \in (nextId + 1)..(nextId + n)
    OBVIOUS
  <2> QED
    BY <2>1, <2>2
<1>9. SegmentIds(bundle.id)' = (nextId + 1)..(nextId + n)
  <2>1. \A k : k \in SegmentIds(bundle.id)' <=> \E g \in segments' : g.render = bundle.id /\ k = g.id
    BY <1>2 DEF SegmentIds
  <2>2. \A k : (\E g \in segments' : g.render = bundle.id /\ k = g.id) <=> \E i \in 1..n : k = nextId + i
    BY <1>5, <1>6, <1>7
  <2> DEFINE A == SegmentIds(bundle.id)'
             B == (nextId + 1)..(nextId + n)
  <2>3. \A k : k \in A <=> k \in B
    BY <1>8, <2>1, <2>2
  <2> HIDE DEF A, B
  <2>4. A = B
    BY <2>3
  <2> QED
    BY <2>4 DEF A, B
<1>10. OwnIds' = (nextId + 1)..(nextId + n)
  BY <1>3, <1>9 DEF OwnIds
<1>11. LastIds' = {nextId + 1}
  <2>1. \A k : k \in LastIds' <=> k \in (nextId + 1)..(nextId + n)
                                  /\ [id |-> k, render |-> bundle.id, burn |-> TRUE] \in segments'
    BY <1>2, <1>10 DEF LastIds
  <2>2. ASSUME NEW k, k \in LastIds' PROVE k = nextId + 1
    <3>1. [id |-> k, render |-> bundle.id, burn |-> TRUE] \in segments'
      BY <2>1, <2>2
    <3>2. PICK i \in 1..n : [id |-> k, render |-> bundle.id, burn |-> TRUE] = Seg(i)
      BY <1>5, <1>7, <3>1
    <3>3. Seg(i).id = k /\ Seg(i).burn = TRUE
      BY <3>2
    <3>4. Seg(i).id = nextId + i /\ Seg(i).burn = (i = 1)
      BY <1>6
    <3>5. i = 1
      BY <3>3, <3>4
    <3> QED
      BY <3>3, <3>4, <3>5
  <2>3. nextId + 1 \in LastIds'
    <3>1. Seg(1) = [id |-> nextId + 1, render |-> bundle.id, burn |-> TRUE]
      <4>1. (1 = 1) = TRUE
        OBVIOUS
      <4> QED
        BY <4>1 DEF Seg
    <3>4. 1 \in 1..n
      OBVIOUS
    <3>2. nextId + 1 \in (nextId + 1)..(nextId + n)
      OBVIOUS
    <3> QED
      BY <1>6, <2>1, <3>1, <3>2, <3>4
  <2> QED
    BY <2>2, <2>3
<1>12. segments' \subseteq [id : Nat, render : Nat, burn : BOOLEAN]
  BY <1>6, <1>7 DEF Rendered
<1>13. \A g \in segments' : g \in segments \/ (g.id \in (nextId + 1)..(nextId + n) /\ g.render = bundle.id)
  BY <1>6, <1>7, <1>8
<1> QED
  BY <1>2, <1>3, <1>4, <1>10, <1>11, <1>12, <1>13

LEMMA RenderKeeps ==
    ASSUME CatchUpInv, NEW res \in inbox, RenderResult(res)
    PROVE  CatchUpInv'
<1>1. /\ DaemonInv /\ RestTypes /\ CatchInv /\ Results /\ Rendered /\ Waits /\ Holds /\ NoLoneTail
      /\ QueueInv /\ Queues /\ nextId \in Nat
  BY NextIds DEF CatchUpInv, CatchInv, DaemonInv, QueueInv
<1>2. /\ InFlight /\ ~ Rendering /\ res.id = bundle.id
      /\ bundle \in Bundle /\ UNCHANGED <<markers, cut, sent, working, seq, hand>> /\ PressLeaves
      /\ inbox' = inbox \ {res}
  BY RenderShape
<1>3. PICK dest \in Session, n \in Nat, items \in Seq(ItemSet), at \in Nat :
         /\ n > 0 /\ Len(items) = n /\ items \in Seq(Of(dest)) /\ Falling(items, nextId)
         /\ \A i \in DOMAIN items : items[i].cue
         /\ OpenWith({dest}) /\ MadeAudible(dest) /\ nextId' = nextId + n
         /\ queue' = [queue EXCEPT ![dest] = InsertAfter(@, bundle.ack, items)]
         /\ segments' = segments \union
              {[id |-> nextId + i, render |-> bundle.id, burn |-> i = 1] : i \in 1..n}
         /\ \E e \in BOOLEAN : bundle' = [bundle EXCEPT !.dest = dest, !.ended = e, !.left = n]
  BY RenderShape
<1>4. /\ bundle' \in Bundle /\ bundle'.id = bundle.id /\ bundle'.dest = dest /\ bundle'.left = n
      /\ Rendering' /\ Acks' = {bundle.ack} /\ bundle.ack \in 0..nextId
      /\ OwnIds' = (nextId + 1)..(nextId + n) /\ LastIds' = {nextId + 1}
      /\ \A g \in segments' : g \in segments \/ (g.id \in (nextId + 1)..(nextId + n) /\ g.render = bundle.id)
      /\ segments' \subseteq [id : Nat, render : Nat, burn : BOOLEAN]
  BY <1>1, <1>2, <1>3, RenderedIds
<1> DEFINE q == queue[dest]
           own == (nextId + 1)..(nextId + n)
<1>5. q \in Seq(Of(dest)) /\ q \in Seq(ItemSet) /\ Distinct(q) /\ Ids(q) \subseteq 0..nextId
      /\ queue \in [Session -> Seq(ItemSet)]
  BY <1>1 DEF Queues, Sound
<1>6. \A i \in DOMAIN q : q[i].id = bundle.ack => q[i].cue
  BY <1>1, <1>2 DEF Waits, InOrder, Acks
<1> DEFINE r == InsertAfter(q, bundle.ack, items)
<1>7. queue' = [queue EXCEPT ![dest] = r]
  BY <1>3
<1>8. r \in Seq(Of(dest)) /\ r \in Seq(ItemSet)
  <2> HIDE DEF q
  <2> QED
    BY <1>3, <1>5, InsertAfterElements DEF r
<1>9. \E k \in 0..Len(q) :
         /\ Inserted(q, items, r, k)
         /\ bundle.ack \in Ids(q) => k \in DOMAIN q /\ q[k].id = bundle.ack
  <2>1. q \in Seq(ItemSet) /\ items \in Seq(ItemSet)
    BY <1>5
  <2> DEFINE a == bundle.ack
  <2> HIDE DEF q, a
  <2>2. \E k \in 0..Len(q) :
           /\ Inserted(q, items, InsertAfter(q, a, items), k)
           /\ a \in Ids(q) => k \in DOMAIN q /\ q[k].id = a
    BY <2>1, InsertAfterElements
  <2> QED
    BY <2>2 DEF r, a
<1> HIDE DEF r
<1>10. PICK k \in 0..Len(q) :
          /\ Inserted(q, items, r, k)
          /\ bundle.ack \in Ids(q) => k \in DOMAIN q /\ q[k].id = bundle.ack
  BY <1>9
<1> HIDE DEF q, own
<1>11. Ids(r) \subseteq Ids(q) \union own /\ Distinct(r)
  <2>1. Ids(r) \subseteq Ids(q) \union (nextId + 1)..(nextId + Len(items)) /\ Distinct(r)
    BY <1>1, <1>3, <1>5, <1>8, <1>10, InsertedIds
  <2> QED
    BY <1>3, <2>1 DEF own
<1>12. InOrder(r, own, {bundle.ack})
  <2>1. InOrder(r, (nextId + 1)..(nextId + Len(items)), {bundle.ack})
    <3>1. /\ q \in Seq(ItemSet) /\ items \in Seq(ItemSet) /\ r \in Seq(ItemSet)
          /\ nextId \in Nat /\ bundle.ack \in 0..nextId
      BY <1>1, <1>4, <1>5, <1>8
    <3>2. Falling(items, nextId) /\ \A i \in DOMAIN items : items[i].cue
      BY <1>3
    <3>3. Distinct(q) /\ Ids(q) \subseteq 0..nextId
      BY <1>5
    <3> QED
      BY <1>6, <1>10, <3>1, <3>2, <3>3, InsertedInOrder
  <2> QED
    BY <1>3, <2>1 DEF own
<1>13. \A s \in Session : queue'[s] = IF s = dest THEN r ELSE queue[s]
  BY <1>5, <1>7
<1>14. /\ nextId' \in Nat /\ nextId <= nextId' /\ own \subseteq 0..nextId' /\ nextId + 1 \in own
       /\ \A j \in own : j \notin 0..nextId /\ j < nextId + 1 + n /\ nextId + 1 <= j
       /\ \A j \in 0..nextId : j \in 0..nextId'
  BY <1>1, <1>3 DEF own
<1>15. Sound(queue', hand, nextId')
  <2>1. Sound(queue, hand, nextId) /\ Ids(r) \subseteq Ids(queue[dest]) \union (nextId + 1)..nextId'
    BY <1>1, <1>3, <1>11 DEF Queues, q, own
  <2> QED
    BY <1>7, <1>8, <1>11, <1>14, <2>1, Replaced
<1>16. DaemonInv' /\ RestTypes'
  <2>1. sent' \in Nat /\ cut' \in BOOLEAN /\ markers' = markers
    BY <1>1, <1>2 DEF RestTypes, ModeTypes, LoopTypes
  <2>2. {dest} \in SUBSET Session
    OBVIOUS
  <2> QED
    BY <1>1, <1>2, <1>3, <1>14, <1>15, <2>1, <2>2, PressedKeeps
<1>17. Results'
  <2>1. inbox' \subseteq inbox /\ \A x \in inbox' : x # res
    BY <1>2
  <2>2. bundle.id \notin working' /\ \A x \in inbox' : x.id # bundle.id
    BY <1>1, <1>2, <2>1 DEF Results
  <2>3. /\ inbox' \subseteq [id : Nat, ok : BOOLEAN] /\ working' \subseteq Nat /\ seq' \in Nat
        /\ \A j \in working' : j \in 0..seq'
        /\ \A x \in inbox' : x.id \in 0..seq' /\ x.id \notin working'
        /\ \A x, y \in inbox' : x.id = y.id => x = y
        /\ bundle.id \in 0..seq'
    BY <1>1, <1>2, <2>1 DEF Results
  <2> QED
    BY <1>4, <2>2, <2>3 DEF Results
<1>18. Rendered'
  <2>1. \A g \in segments' : g.id \in 0..nextId' /\ g.render \in 0..seq'
    <3>1. \A g \in segments : g.id \in 0..nextId' /\ g.render \in 0..seq'
      BY <1>1, <1>2, <1>14 DEF Rendered
    <3>2. bundle.id \in 0..seq'
      BY <1>1, <1>2 DEF Results
    <3> QED
      BY <1>4, <1>14, <3>1, <3>2 DEF own
  <2>2. Acks' \subseteq 0..nextId' /\ Acks' \intersect OwnIds' = {}
    BY <1>4, <1>14 DEF own
  <2>3. LastIds' # {} /\ \A l \in LastIds', j \in OwnIds' : l <= j
    BY <1>4, <1>14 DEF own
  <2> QED
    BY <1>4, <2>1, <2>2, <2>3 DEF Rendered
<1>19. ASSUME NEW s \in Session PROVE InOrder(queue'[s], own, {bundle.ack})
  <2>1. CASE s = dest
    BY <1>12, <1>13, <2>1
  <2>2. CASE s # dest
    <3>1. Ids(queue[s]) \subseteq 0..nextId /\ queue'[s] = queue[s]
      BY <1>1, <1>13, <2>2 DEF Queues, Sound
    <3>2. \A i \in DOMAIN queue[s] : queue[s][i].id \notin own
      BY <1>14, <3>1 DEF Ids
    <3>3. \A i \in DOMAIN queue[s] : queue[s][i].id = bundle.ack => queue[s][i].cue
      BY <1>1, <1>2 DEF Waits, InOrder, Acks
    <3> QED
      BY <3>1, <3>2, <3>3 DEF InOrder
  <2> QED
    BY <2>1, <2>2
<1>20. Waits'
  <2>1. \A j \in own : \A l \in LastIds' : j < l + bundle'.left
    BY <1>4, <1>14
  <2>2. \A j : Near(j)'
    BY <1>4, <2>1 DEF Near, own
  <2>3. ASSUME NEW s \in Session, NEW j \in Ids(queue'[s]), j \in own PROVE s = dest
    <3> SUFFICES ASSUME s # dest PROVE FALSE
      OBVIOUS
    <3>1. j \in 0..nextId
      BY <1>1, <1>13, <2>3 DEF Queues, Sound
    <3> QED
      BY <1>14, <2>3, <3>1
  <2>4. \A s \in Session : InOrder(queue[s], OwnIds, Acks)'
    BY <1>4, <1>19 DEF InOrder, own
  <2> QED
    BY <1>4, <2>2, <2>3, <2>4 DEF Waits, own
<1>21. Holds'
  <2>1. hand' = hand /\ (hand # None => hand.id \in 0..nextId)
    BY <1>1, <1>2 DEF Queues, Sound
  <2>2. hand' = None
    <3>1. pc = "held"
      BY DEF RenderResult, DrainsInbox
    <3> QED
      BY <1>1, <2>1, <3>1 DEF QueueInv, Hands, Idle
  <2> QED
    BY <2>2 DEF Holds
<1>22. NoLoneTail'
  <2> SUFFICES ASSUME NEW s \in Session, NEW g \in segments', g.id \in Ids(queue'[s]), ~ stopped'[s]
               PROVE  g.render = bundle.id /\ s = dest
    BY <1>4 DEF NoLoneTail
  <2>1. CASE g \in segments
    <3>1. g.id \in 0..nextId
      BY <1>1, <2>1 DEF Rendered
    <3>2. g.id \in Ids(queue[s])
      BY <1>11, <1>13, <1>14, <3>1 DEF q
    <3>3. ~ stopped[s]
      BY <1>3, OnceOpenMutes DEF OpenWith
    <3> QED
      BY <1>1, <1>2, <2>1, <3>2, <3>3 DEF NoLoneTail
  <2>2. CASE g.id \in own /\ g.render = bundle.id
    <3> SUFFICES ASSUME s # dest PROVE FALSE
      BY <2>2
    <3>1. g.id \in 0..nextId
      BY <1>1, <1>13 DEF Queues, Sound
    <3> QED
      BY <1>14, <2>2, <3>1
  <2> QED
    BY <1>4, <2>1, <2>2 DEF own
<1> QED
  BY <1>16, <1>17, <1>18, <1>20, <1>21, <1>22 DEF CatchUpInv, CatchInv

-----------------------------------------------------------------------------
(* A segment was voiced or cut.                                              *)

LEMMA NotesOwn ==
    ASSUME CatchUpInv, NotesSegment
    PROVE  /\ hand # None /\ hand \in ItemSet /\ hand.id \in OwnIds /\ hand.id \in Nat
           /\ InFlight /\ Rendering /\ bundle \in Bundle /\ bundle.dest \in Session
           /\ hand.session = bundle.dest /\ Near(hand.id)
           /\ \A i \in DOMAIN queue[bundle.dest] :
                 queue[bundle.dest][i].id \in OwnIds => queue[bundle.dest][i].id < hand.id
<1>1. Results /\ Rendered /\ Holds /\ QueueInv
  BY DEF CatchUpInv, CatchInv, DaemonInv
<1>2. hand # None /\ hand \in ItemSet
  BY <1>1, NoneAssumption DEF NotesSegment, QueueInv, Hands, Busy, Idle
<1>3. InFlight /\ Rendering /\ hand.id \in OwnIds
  BY DEF NotesSegment, Rendering, OwnIds
<1>4. bundle \in Bundle /\ bundle.dest \in Session
  BY <1>1, <1>3, DestSession DEF Results, InFlight
<1>5. Before(hand, queue[hand.session], OwnIds, Acks) /\ Near(hand.id) /\ hand.session = bundle.dest
  BY <1>1, <1>2, <1>3 DEF Holds
<1> QED
  BY <1>2, <1>3, <1>4, <1>5, ItemSession DEF Before

LEMMA TurnEnded ==
    ASSUME DaemonInv, RestTypes, EndsTurn, frontier' \in [Session -> Nat], markers' \subseteq markers,
           Sound(queue', None, nextId), Thin(queue, queue', nextId)
    PROVE  DaemonInv' /\ RestTypes' /\ Quiet
<1>1. QueueInv /\ NumInv /\ FlagInv /\ Known
  BY DEF DaemonInv
<1>2. /\ UNCHANGED <<present, stopped, nextId, sanction, whole, spk, cut, sent>>
      /\ UNCHANGED <<armed, deferred, buffer, partial, newest, lastUtt, voiceState, markResume,
                     reg, announced, fg, focus, dead, broken>>
      /\ current' = None /\ hand' = None /\ exempt' = FALSE /\ done' = FALSE /\ pc' = "held"
      /\ outstanding' \subseteq outstanding
  BY DEF EndsTurn, EndTurn, CatchUpLeaves, Goto
<1>3. FlagInv'
  BY <1>1, <1>2, FrameKeeps DEF FlagFrame, Quieter
<1>4. NumInv' /\ Known'
  BY <1>1, <1>2 DEF NumInv, Known
<1>5. QueueInv'
  <2>1. Queues'
    BY <1>2 DEF Queues
  <2>2. Hands'
    BY <1>2 DEF Hands, Idle, Busy
  <2>3. RosterTypes'
    BY <1>1, <1>2 DEF QueueInv, RosterTypes
  <2> QED
    BY <2>1, <2>2, <2>3 DEF QueueInv
<1>6. RestTypes'
  BY <1>2 DEF RestTypes, ModeTypes, LoopTypes
<1>7. Quiet
  <2>1. Orderly
    BY <1>2 DEF Orderly
  <2>2. nextId <= nextId'
    BY <1>1, <1>2 DEF NumInv
  <2> QED
    BY <1>1, <1>2, <1>5, <2>1, <2>2 DEF Quiet, HandOrderly
<1> QED
  BY <1>3, <1>4, <1>5, <1>6, <1>7 DEF DaemonInv

\* It stays sound when nothing is in the hand.
LEMMA LetGo ==
    ASSUME NEW q, NEW h, NEW n, Sound(q, h, n)
    PROVE  Sound(q, None, n)
  BY DEF Sound

LEMMA CutKeeps ==
    ASSUME CatchUpInv, SegmentCut
    PROVE  CatchUpInv'
<1>1. DaemonInv /\ RestTypes /\ CatchInv /\ NumInv
  BY DEF CatchUpInv, DaemonInv
<1>2. /\ NotesSegment /\ bundle' = None /\ queue' = DropSegments(hand.session, bundle.id)
      /\ UNCHANGED <<frontier, markers>> /\ EndsTurn
  BY DEF SegmentCut
<1>3. UNCHANGED <<segments, seq, inbox, working>>
  BY <1>2 DEF EndsTurn
<1>4. hand.session = bundle.dest /\ bundle.dest \in Session /\ InFlight
  BY <1>2, NotesOwn
<1>5. /\ Thin(queue, queue', nextId) /\ Sound(queue', hand, nextId)
      /\ Ids(queue'[bundle.dest]) = Ids(queue[bundle.dest]) \ SegmentIds(bundle.id)
  BY <1>1, <1>2, <1>4, DropQueues
<1>6. frontier' \in [Session -> Nat] /\ markers' \subseteq markers /\ Sound(queue', None, nextId)
  BY <1>1, <1>2, <1>5, LetGo DEF NumInv
<1>7. DaemonInv' /\ RestTypes' /\ Quiet
  BY <1>1, <1>2, <1>5, <1>6, TurnEnded
<1>8. CatchInv'
  BY <1>1, <1>2, <1>3, <1>4, <1>5, <1>7, BundleGone DEF OwnIds
<1> QED
  BY <1>7, <1>8 DEF CatchUpInv

LEMMA EndsKeep ==
    ASSUME CatchUpInv, RenderEnds
    PROVE  CatchUpInv'
<1> DEFINE t == bundle.target
           q == [queue EXCEPT ![t] = RemoveIds(@, SliceIds)]
<1>1. DaemonInv /\ RestTypes /\ CatchInv /\ NumInv /\ QueueInv /\ Rendered /\ Results
  BY DEF CatchUpInv, DaemonInv, CatchInv
<1>2. NotesSegment /\ LastSegment(hand) /\ bundle' = None /\ EndsTurn
  BY DEF RenderEnds
<1>3. UNCHANGED <<segments, seq, inbox, working>>
  BY <1>2 DEF EndsTurn
<1>4. /\ bundle.dest \in Session /\ InFlight /\ bundle \in Bundle /\ t \in Session /\ bundle.end \in Nat
      /\ hand.id \in OwnIds /\ hand.id \in Nat
      /\ \A i \in DOMAIN queue[bundle.dest] :
            queue[bundle.dest][i].id \in OwnIds => queue[bundle.dest][i].id < hand.id
  BY <1>2, NotesOwn DEF Bundle
<1>5. \A k \in OwnIds : k \notin Ids(queue[bundle.dest])
  <2> SUFFICES ASSUME NEW i \in DOMAIN queue[bundle.dest], queue[bundle.dest][i].id \in OwnIds PROVE FALSE
    BY DEF Ids
  <2>1. hand.id \in LastIds
    BY <1>2, <1>4 DEF LastSegment, LastIds
  <2>2. hand.id <= queue[bundle.dest][i].id
    BY <1>1, <1>2, <2>1 DEF Rendered, NotesSegment
  <2>3. queue[bundle.dest][i].id < hand.id /\ queue[bundle.dest][i].id \in Nat
    BY <1>1, <1>4, OwnIdsAre
  <2> QED
    BY <1>4, <2>2, <2>3
<1>6. /\ Thin(queue, q, nextId) /\ Sound(q, hand, nextId) /\ q \in [Session -> Seq(ItemSet)]
      /\ Ids(q[t]) = Ids(queue[t]) \ SliceIds
  BY <1>1, <1>4, RemovedQueues
<1>7. Thin(queue, queue, nextId) /\ Sound(queue, hand, nextId) /\ queue \in [Session -> Seq(ItemSet)]
  BY <1>1, NextIds DEF QueueInv, Queues, Sound
<1>8. /\ queue' \in {queue, q} /\ markers' \subseteq markers
      /\ frontier' \in {frontier, Advance(t, SliceEnd)}
  BY DEF RenderEnds, Without
<1>9. \A s \in Session : Ids(q[s]) \subseteq Ids(queue[s])
  BY <1>4, <1>6, <1>7
<1> HIDE DEF q
<1>10. Thin(queue, queue', nextId) /\ Sound(queue', None, nextId)
       /\ Ids(queue'[bundle.dest]) \subseteq Ids(queue[bundle.dest])
  BY <1>4, <1>6, <1>7, <1>8, <1>9, LetGo
<1>11. frontier' \in [Session -> Nat]
  BY <1>1, <1>4, <1>8 DEF NumInv, Advance, SliceEnd
<1>12. DaemonInv' /\ RestTypes' /\ Quiet
  BY <1>1, <1>2, <1>8, <1>10, <1>11, TurnEnded
<1>13. CatchInv'
  BY <1>1, <1>2, <1>3, <1>5, <1>10, <1>12, BundleGone
<1> QED
  BY <1>12, <1>13 DEF CatchUpInv

LEMMA VoicedKeeps ==
    ASSUME CatchUpInv, SegmentVoiced
    PROVE  CatchUpInv'
<1>1. /\ DaemonInv /\ RestTypes /\ CatchInv /\ NumInv /\ QueueInv
      /\ Rendered /\ Results /\ Waits /\ Holds /\ NoLoneTail
  BY DEF CatchUpInv, DaemonInv, CatchInv
<1>2. /\ NotesSegment /\ ~ LastSegment(hand) /\ bundle' = [bundle EXCEPT !.left = @ - 1]
      /\ UNCHANGED <<queue, frontier, markers>> /\ EndsTurn
  BY DEF SegmentVoiced
<1>3. UNCHANGED <<segments, seq, inbox, working, stopped>> /\ hand' = None
  BY <1>2 DEF EndsTurn, EndTurn
<1>4. /\ bundle.dest \in Session /\ InFlight /\ Rendering /\ bundle \in Bundle
      /\ hand.id \in OwnIds /\ hand.id \in Nat /\ Near(hand.id)
      /\ \A i \in DOMAIN queue[bundle.dest] :
            queue[bundle.dest][i].id \in OwnIds => queue[bundle.dest][i].id < hand.id
  BY <1>2, NotesOwn
<1>5. LastIds \subseteq OwnIds /\ OwnIds \subseteq Nat /\ bundle.left \in Nat
  BY <1>1, <1>4, OwnIdsAre DEF Bundle
<1>6. hand.id \notin LastIds
  BY <1>2 DEF LastSegment, LastIds
<1>7. \A l \in LastIds : l \in Nat /\ l <= hand.id /\ l # hand.id /\ hand.id < l + bundle.left
  BY <1>1, <1>4, <1>5, <1>6 DEF Rendered, Near
<1>8. bundle.left - 1 \in Nat
  <2>1. PICK l \in LastIds : TRUE
    BY <1>1, <1>4 DEF Rendered
  <2> QED
    BY <1>4, <1>5, <1>7, <2>1
<1>9. /\ bundle' \in Bundle /\ bundle'.id = bundle.id /\ bundle'.dest = bundle.dest
      /\ bundle'.ack = bundle.ack /\ bundle'.left = bundle.left - 1
  BY <1>2, <1>4, <1>8 DEF Bundle
<1>10. InFlight' /\ Rendering' /\ Acks' = Acks
  BY <1>4, <1>9, BundleAssumption DEF InFlight, Rendering, Acks
<1>11. OwnIds' = OwnIds
  BY <1>3, <1>4, <1>9, <1>10 DEF OwnIds, SegmentIds
<1>12. LastIds' = LastIds
  BY <1>3, <1>9, <1>11 DEF LastIds
<1>13. Thin(queue, queue', nextId) /\ Sound(queue', None, nextId)
  BY <1>1, <1>2, NextIds, LetGo DEF QueueInv, Queues
<1>14. frontier' \in [Session -> Nat] /\ markers' \subseteq markers
  BY <1>1, <1>2 DEF NumInv
<1>15. DaemonInv' /\ RestTypes' /\ Quiet
  BY <1>1, <1>2, <1>13, <1>14, TurnEnded
<1>16. Results'
  BY <1>1, <1>3, <1>4, <1>9, <1>10 DEF Results
<1>17. Rendered'
  BY <1>1, <1>3, <1>4, <1>10, <1>11, <1>12, <1>15, RenderedStays
<1>18. ASSUME NEW s \in Session, NEW k \in Ids(queue[s]), k \in OwnIds
       PROVE  s = bundle.dest /\ \A l \in LastIds : k < l + (bundle.left - 1)
  <2>1. s = bundle.dest
    BY <1>1, <1>18 DEF Waits
  <2>2. k < hand.id /\ k \in Nat
    BY <1>4, <1>5, <1>18, <2>1 DEF Ids
  <2>3. \A l \in LastIds : k < l + (bundle.left - 1)
    BY <1>4, <1>5, <1>7, <2>2
  <2> QED
    BY <2>1, <2>3
<1>19. Waits'
  <2>1. \A s \in Session : InOrder(queue[s], OwnIds, Acks)
    BY <1>1 DEF Waits
  <2>2. \A s \in Session : InOrder(queue[s], OwnIds, Acks)'
    BY <1>2, <1>10, <1>11, <2>1 DEF InOrder
  <2>3. ASSUME NEW s \in Session, NEW k \in Ids(queue'[s])
        PROVE  Near(k)' /\ (k \in OwnIds' => s = bundle'.dest)
    <3>1. k \in Ids(queue[s])
      BY <1>2
    <3> QED
      BY <1>9, <1>11, <1>12, <1>18, <3>1 DEF Near
  <2> QED
    BY <2>2, <2>3 DEF Waits
<1>20. Holds'
  BY <1>3 DEF Holds
<1>21. NoLoneTail'
  BY <1>1, <1>3, <1>9, <1>10, <1>15, LoneStays
<1> QED
  BY <1>15, <1>16, <1>17, <1>19, <1>20, <1>21 DEF CatchUpInv, CatchInv

-----------------------------------------------------------------------------
(* Every step                                                                *)

\* A turn that renders and notes nothing of a catch-up, another handler.
LEMMA RestKeeps ==
    ASSUME CatchUpInv, Next, Stays, UNCHANGED <<inbox, working, seq, segments>>
    PROVE  CatchUpInv'
<1>1. DaemonInv /\ RestTypes /\ CatchInv /\ Results /\ QueueInv
  BY DEF CatchUpInv, CatchInv, DaemonInv
<1>2. Quiet /\ DaemonInv' /\ RestTypes'
  BY <1>1, NextQuiet, NextRest
<1>3. Results'
  BY <1>1, ResultsStay
<1>4. CatchInv'
  BY <1>1, <1>2, <1>3, QuietKeeps
<1> QED
  BY <1>2, <1>4 DEF CatchUpInv

LEMMA IdleKeeps ==
    ASSUME CatchUpInv, UNCHANGED cvars
    PROVE  CatchUpInv'
<1>1. Results
  BY DEF CatchUpInv, CatchInv
<1>2. UNCHANGED <<vars, bundle, seq, segments, inbox, working>>
  BY DEF cvars, catchVars
<1>3. Results'
  BY <1>1, <1>2, ResultsStay DEF Stays
<1> QED
  BY <1>2, <1>3, InboxKeeps

LEMMA CatchUpInit == CInit => CatchUpInv
<1> SUFFICES ASSUME CInit PROVE CatchUpInv
  OBVIOUS
<1>1. Init /\ bundle = None /\ inbox = {} /\ working = {} /\ seq = 0 /\ segments = {}
  BY DEF CInit, Init
<1>2. /\ queue = [s \in Session |-> <<>>] /\ hand = None /\ nextId = 0 /\ markers = {}
  BY <1>1 DEF Init, InitState
<1>3. DaemonInv /\ RestTypes
  BY <1>1, <1>2, InitDaemonInv, InitRest DEF DaemonInv, Known
<1>4. ~ InFlight /\ ~ Rendering /\ OwnIds = {} /\ LastIds = {} /\ Acks = {}
  BY <1>1 DEF InFlight, Rendering, OwnIds, LastIds, Acks
<1>5. \A s \in Session : queue[s] = <<>> /\ Ids(queue[s]) = {}
  BY <1>2 DEF Ids
<1>6. Results /\ Rendered /\ Holds /\ NoLoneTail
  BY <1>1, <1>2, <1>4 DEF Results, Rendered, Holds, NoLoneTail
<1>7. Waits
  BY <1>5 DEF Waits, InOrder
<1> QED
  BY <1>3, <1>6, <1>7 DEF CatchUpInv, CatchInv

LEMMA CatchUpStep == CatchUpInv /\ [CNext]_cvars => CatchUpInv'
<1> SUFFICES ASSUME CatchUpInv, [CNext]_cvars PROVE CatchUpInv'
  OBVIOUS
<1>1. CASE PlainTurn
  <2>1. Next /\ bundle' = bundle /\ UNCHANGED <<inbox, working, seq, segments>>
    BY <1>1 DEF PlainTurn, catchVars, Next
  <2> QED
    BY <2>1, RestKeeps DEF Stays
<1>2. CASE OtherHandler
  <2>1. Next /\ UNCHANGED <<inbox, working, seq, segments>>
    BY <1>2 DEF OtherHandler, Next
  <2>2. Stays
    BY <1>2 DEF OtherHandler, Stays
  <2> QED
    BY <2>1, <2>2, RestKeeps
<1>3. CASE Deliver
  BY <1>3, StaleKeeps, RenderKeeps DEF Deliver
<1>4. CASE CatchUpPress
  BY <1>4, NothingKeeps, StartKeeps, CancelKeeps DEF CatchUpPress
<1>5. CASE Note
  BY <1>5, CutKeeps, VoicedKeeps, EndsKeep DEF Note
<1>6. CASE Worker
  BY <1>6, WorkerKeeps DEF Worker
<1>7. CASE UNCHANGED cvars
  BY <1>7, IdleKeeps
<1> QED
  BY <1>1, <1>2, <1>3, <1>4, <1>5, <1>6, <1>7 DEF CNext, Turn

LEMMA CatchUpInvariance == CSpec => []CatchUpInv
<1>1. CInit => CatchUpInv
  BY CatchUpInit
<1>2. CatchUpInv /\ [CNext]_cvars => CatchUpInv'
  BY CatchUpStep
<1> QED
  BY <1>1, <1>2, PTL DEF CSpec

\* Whatever the presses, the workers and the other handlers interleave to: the
\* bundle in flight, its worker and its segments fit together, and no segment
\* of a cancelled, cut or finished render is left to be heard.
THEOREM RenderSoundHolds == CSpec => []RenderSound
<1>1. CatchUpInv => RenderSound
  <2> SUFFICES ASSUME CatchUpInv PROVE RenderSound
    OBVIOUS
  <2>1. DaemonInv /\ RestTypes /\ Results /\ Rendered /\ NoLoneTail
    BY DEF CatchUpInv, CatchInv
  <2>2. TypeOK
    BY <2>1, AllTypes DEF DaemonInv
  <2>3. CTypeOK
    BY <2>1, <2>2 DEF CTypeOK, Results, Rendered
  <2> QED
    BY <2>1, <2>3 DEF RenderSound
<1> QED
  BY <1>1, CatchUpInvariance, PTL

\* The acknowledgement of a catch-up stands before its summary, and the summary
\* in order, through every pop, cut, put-back and eviction around them.
THEOREM HeardInOrderHolds == CSpec => []HeardInOrder
<1>1. CatchUpInv => HeardInOrder
  <2> SUFFICES ASSUME CatchUpInv, Rendering,
                      NEW i \in DOMAIN queue[bundle.dest], NEW j \in DOMAIN queue[bundle.dest]
               PROVE  LET q == queue[bundle.dest]
                      IN  /\ i < j /\ {q[i].id, q[j].id} \subseteq SegmentIds(bundle.id)
                                 => q[i].id > q[j].id
                          /\ q[i].id \in SegmentIds(bundle.id) /\ q[j].id = bundle.ack => j < i
    BY DEF HeardInOrder
  <2>1. Results /\ Waits
    BY DEF CatchUpInv, CatchInv
  <2>2. bundle.dest \in Session /\ InFlight
    BY <2>1, DestSession DEF Rendering
  <2>3. OwnIds = SegmentIds(bundle.id) /\ Acks = {bundle.ack}
    BY <2>2 DEF OwnIds, Acks
  <2>4. InOrder(queue[bundle.dest], OwnIds, Acks)
    BY <2>1, <2>2 DEF Waits
  <2> QED
    BY <2>3, <2>4 DEF InOrder
<1> QED
  BY <1>1, CatchUpInvariance, PTL

-----------------------------------------------------------------------------
(* The burn                                                                  *)

\* An item voices one entry at most.
OneEntry == \A m, n \in markers : m.id = n.id => m = n

\* Markers are bound at ids nobody has, one each.
LEMMA BoundOnce ==
    ASSUME NumInv, Known, OneEntry, NEW bound,
           markers' \subseteq markers \union bound,
           \A m \in bound : m.id \notin 0..nextId,
           \A m, n \in bound : m.id = n.id => m = n
    PROVE  OneEntry'
<1> SUFFICES ASSUME NEW m \in markers', NEW n \in markers', m.id = n.id PROVE m = n
  BY DEF OneEntry
<1>1. \A k \in markers : k.id \in 0..nextId
  BY DEF Known
<1>2. CASE m \in markers /\ n \in markers
  BY <1>2 DEF OneEntry
<1>3. CASE m \in bound /\ n \in bound
  BY <1>3
<1> QED
  BY <1>1, <1>2, <1>3

LEMMA RepeatOneEntry ==
    ASSUME NumInv, Known, OneEntry, RepeatLast
    PROVE  OneEntry'
<1> DEFINE own == {m \in markers : current # None /\ m.id = current.id}
           bound == {[m EXCEPT !.id = nextId + 1] : m \in own}
<1>1. markers' = markers \union bound
  BY DEF RepeatLast
<1>2. \A m \in own : [m EXCEPT !.id = nextId + 1].id = nextId + 1
  BY DEF NumInv, MarkerSet
<1>3. \A m \in bound : m.id = nextId + 1
  BY <1>2
<1>4. \A m, n \in own : m = n
  BY DEF OneEntry
<1>5. \A m, n \in bound : m = n
  BY <1>4
<1>6. nextId + 1 \notin 0..nextId
  BY DEF NumInv
<1> HIDE DEF bound
<1> QED
  BY <1>1, <1>3, <1>5, <1>6, BoundOnce

LEMMA ReadoutOneEntry ==
    ASSUME NumInv, Known, OneEntry, NEW s, NEW entries \in Seq(Nat), NEW kinds,
           EnqueueReadout(s, entries, kinds)
    PROVE  OneEntry'
<1> DEFINE bound == {Marker(nextId + i, s, entries[i]) : i \in DOMAIN entries}
<1>1. markers' \subseteq markers \union bound
  BY ReadoutMarkers
<1>2. nextId \in Nat /\ DOMAIN entries = 1..Len(entries) /\ Len(entries) \in Nat
  BY DEF NumInv
<1>3. \A m \in bound : \E i \in DOMAIN entries : m = Marker(nextId + i, s, entries[i]) /\ m.id = nextId + i
  BY DEF Marker
<1> HIDE DEF bound
<1>4. ASSUME NEW m \in bound PROVE m.id \notin 0..nextId
  <2>1. PICK i \in DOMAIN entries : m.id = nextId + i
    BY <1>3
  <2> QED
    BY <1>2, <2>1
<1>5. ASSUME NEW m \in bound, NEW n \in bound, m.id = n.id PROVE m = n
  <2>1. PICK i \in DOMAIN entries : m = Marker(nextId + i, s, entries[i]) /\ m.id = nextId + i
    BY <1>3
  <2>2. PICK j \in DOMAIN entries : n = Marker(nextId + j, s, entries[j]) /\ n.id = nextId + j
    BY <1>3
  <2>3. i = j
    BY <1>2, <1>5, <2>1, <2>2
  <2> QED
    BY <2>1, <2>2, <2>3
<1> QED
  BY <1>1, <1>4, <1>5, BoundOnce

LEMMA NextOneEntry == NumInv /\ Known /\ OneEntry /\ [Next]_vars => OneEntry'
<1> SUFFICES ASSUME NumInv, Known, OneEntry, [Next]_vars PROVE OneEntry'
  OBVIOUS
<1>1. CASE markers' \subseteq markers
  BY <1>1 DEF OneEntry
<1>2. CASE LoopStep \/ AudioFault \/ UNCHANGED vars
  BY <1>1, <1>2, LoopEntries DEF AudioFault, vars, ledgerVars
<1>3. CASE Press
  BY <1>1, <1>3, RepeatOneEntry, PressEntries DEF SkipPile, StartSession, Without
<1>4. ASSUME NEW s \in Session, Report(s) PROVE OneEntry'
  <2>1. buffer[s] \in Seq(Nat) /\ Append(buffer[s], newest[s] + 1) \in Seq(Nat)
    BY NextEntry DEF NumInv
  <2>2. CASE Prose(s) \/ Tool(s) \/ Decision(s) \/ TurnDone(s)
    <3>1. \/ UNCHANGED <<markers, nextId>>
          \/ \E entries \in Seq(Nat) : \E kinds : EnqueueReadout(s, entries, kinds)
      BY <2>1, <2>2 DEF Prose, Tool, Decision, Announce, TurnDone
    <3> QED
      BY <1>1, <3>1, ReadoutOneEntry
  <2>3. CASE Flush(s) \/ SessionEnd(s)
    BY <1>1, <2>3 DEF Flush, SessionEnd, Without
  <2> QED
    BY <1>1, <1>4, <2>2, <2>3, ReportEntries DEF Report
<1> QED
  BY <1>2, <1>3, <1>4 DEF Next

LEMMA OneEntryInvariance == CSpec => []OneEntry
<1>1. CInit => OneEntry
  BY DEF CInit, InitState, OneEntry
<1>2. CatchUpInv /\ OneEntry /\ [CNext]_cvars => OneEntry'
  <2> SUFFICES ASSUME CatchUpInv, OneEntry, [CNext]_cvars PROVE OneEntry'
    OBVIOUS
  <2>1. NumInv /\ Known
    BY DEF CatchUpInv, DaemonInv
  <2>2. CASE [Next]_vars
    BY <2>1, <2>2, NextOneEntry
  <2>3. CASE markers' \subseteq markers
    BY <2>3 DEF OneEntry
  <2>4. CASE PlainTurn \/ OtherHandler
    BY <2>2, <2>4 DEF PlainTurn, OtherHandler, Next
  <2>5. CASE Deliver \/ CatchUpPress \/ Note \/ Worker
    BY <2>3, <2>5 DEF Deliver, StaleResult, RenderResult, CatchUpPress, NothingToCatchUp, StartCatchUp,
         CancelCatchUp, Note, SegmentCut, SegmentVoiced, RenderEnds, Without, Worker, WorkerPosts,
         vars, ledgerVars
  <2>6. CASE UNCHANGED cvars
    BY <2>2, <2>6 DEF cvars
  <2> QED
    BY <2>4, <2>5, <2>6 DEF CNext, Turn
<1> QED
  BY <1>1, <1>2, CatchUpInvariance, PTL DEF CSpec

\* Only the end of a render that was heard to its last segment burns.
LEMMA BurnsAtTheEnd ==
    ASSUME CatchUpInv, [CNext]_cvars, Burning
    PROVE  RenderEnds
<1>1. pc = "note" /\ NotesSegment /\ InFlight /\ bundle' = None /\ frontier' # frontier
  BY DEF Burning, NotesSegment, Rendering
<1>2. bundle \in Bundle
  BY <1>1 DEF CatchUpInv, CatchInv, Results, InFlight
<1>3. ~ PlainTurn /\ ~ Deliver
  BY <1>1 DEF PlainTurn, Deliver, StaleResult, RenderResult, DrainsInbox
<1>4. ~ CatchUpPress
  BY <1>1 DEF CatchUpPress, NothingToCatchUp, StartCatchUp, CancelCatchUp, PressLeaves
<1>5. ~ Worker /\ ~ UNCHANGED cvars
  BY <1>1 DEF Worker, WorkerPosts, cvars, vars, streamVars, flagVars
<1>6. [bundle EXCEPT !.pinned = FALSE] \in Bundle
  BY <1>2 DEF Bundle
<1>7. ~ OtherHandler
  BY <1>1, <1>2, <1>6, BundleAssumption DEF OtherHandler
<1>8. ~ SegmentCut /\ ~ SegmentVoiced
  BY <1>1 DEF SegmentCut, SegmentVoiced
<1> QED
  BY <1>3, <1>4, <1>5, <1>7, <1>8 DEF CNext, Turn, Note

\* A burn takes the pinned slice whole -- nothing of it is left in the queue to
\* be read again -- and nothing else: what the session said since the press is
\* neither dropped nor passed over, whatever the cap evicted meanwhile.
THEOREM BurnTakesOnlyTheSlice ==
    CSpec => [][Burning => BurnTakesTheSlice /\ BurnSparesTheRest]_cvars
<1>1. CatchUpInv /\ OneEntry /\ [CNext]_cvars
        => [Burning => BurnTakesTheSlice /\ BurnSparesTheRest]_cvars
  <2> SUFFICES ASSUME CatchUpInv, OneEntry, [CNext]_cvars, Burning
               PROVE  BurnTakesTheSlice /\ BurnSparesTheRest
    OBVIOUS
  <2> DEFINE t == bundle.target
  <2>1. RenderEnds /\ NumInv /\ QueueInv
    BY BurnsAtTheEnd DEF CatchUpInv, DaemonInv
  <2>2. frontier' # frontier
    BY DEF Burning
  <2>3. /\ t \in Session /\ bundle.end \in Nat
    BY <2>1, BundleAssumption DEF CatchUpInv, CatchInv, Results, RenderEnds, NotesSegment, Rendering,
         InFlight, Bundle
  <2>4. /\ frontier' = Advance(t, SliceEnd) /\ markers' = Without(SliceIds)
        /\ queue' = [queue EXCEPT ![t] = RemoveIds(@, SliceIds)]
    BY <2>1, <2>2 DEF RenderEnds
  <2>5. frontier'[t] = bundle.end
    BY <2>2, <2>3, <2>4, <2>1 DEF Advance, SliceEnd, NumInv
  <2>6. Ids(queue'[t]) = Ids(queue[t]) \ SliceIds
    <3>1. queue[t] \in Seq(ItemSet) /\ queue'[t] = RemoveIds(queue[t], SliceIds)
      BY <2>1, <2>3, <2>4 DEF QueueInv, Queues, Sound
    <3> QED
      BY <3>1, RemoveIdsIds
  <2>7. \A m \in markers : m.entry \in Nat
    BY <2>1 DEF NumInv, MarkerSet
  <2>8. \A k : k \in SliceIds <=> k \in Ids(queue[t]) /\ \E m \in markers : m.id = k /\ m.entry <= bundle.end
    BY DEF SliceIds, SliceEnd
  <2> HIDE DEF t
  <2>9. ASSUME NEW m \in markers', m.id \in Ids(queue'[t]) PROVE m.entry > frontier'[t]
    <3>1. m \in markers /\ m.id \notin SliceIds /\ m.id \in Ids(queue[t])
      BY <2>4, <2>6, <2>9 DEF Without
    <3>2. ~ (m.entry <= bundle.end)
      BY <2>8, <3>1
    <3> QED
      BY <2>3, <2>5, <2>7, <3>1, <3>2
  <2>10. ASSUME NEW m \in markers, m.entry > bundle.end PROVE m \in markers' /\ m.entry > frontier'[t]
    <3>1. m.id \notin SliceIds
      <4> SUFFICES ASSUME m.id \in SliceIds PROVE FALSE
        OBVIOUS
      <4>1. PICK n \in markers : n.id = m.id /\ n.entry <= bundle.end
        BY <2>8
      <4>2. n = m
        BY <4>1 DEF OneEntry
      <4> QED
        BY <2>3, <2>7, <2>10, <4>1, <4>2
    <3> QED
      BY <2>4, <2>5, <2>10, <3>1 DEF Without
  <2> QED
    BY <2>9, <2>10 DEF BurnTakesTheSlice, BurnSparesTheRest, t
<1> QED
  BY <1>1, CatchUpInvariance, OneEntryInvariance, PTL DEF CSpec
=============================================================================
