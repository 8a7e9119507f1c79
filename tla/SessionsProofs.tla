--------------------------- MODULE SessionsProofs ---------------------------
(***************************************************************************)
(* Proofs about Sessions, for every number of sessions and windows: a tty   *)
(* has one claimant and none that was evicted, and a number one session;    *)
(* the roster holds who is there; and the focus is found, kept and moved.   *)
(***************************************************************************)
EXTENDS Sessions, FiniteSetTheorems, WellFoundedInduction, TLAPS

Claims ==
    /\ ident \in [Session -> Identity]
    /\ evicted \subseteq Session
    /\ ExclusiveTty
    /\ EvictedHoldsNoTty

Numbers ==
    /\ number \in [Session -> Nat]
    /\ saved \in [Session -> Nat]
    /\ UniqueNumbers

-----------------------------------------------------------------------------
\* A capture is an identity.
LEMMA CaptureType ==
    ASSUME NEW w \in Window, NEW found \in BOOLEAN
    PROVE  Capture(w, found) \in Identity
  BY ConstantsAssumption DEF Capture, Identity

\* Setting an identity leaves its tty with the session that was found on it.
LEMMA SetIdentityClaims ==
    ASSUME Claims, NEW s \in Session, NEW id \in Identity
    PROVE  LET ids == Claimed(s, id)
               out == EvictedAfter(s, id)
           IN  /\ ids \in [Session -> Identity]
               /\ out \subseteq Session
               /\ \A x, y \in Session : x # y /\ ids[x].tty = ids[y].tty => ids[x].tty = NoTty
               /\ \A x \in out : ids[x].tty = NoTty
<1> DEFINE ids == Claimed(s, id)
           out == EvictedAfter(s, id)
<1> USE DEF Claims
<1>1. /\ ident[s] \in Identity
      /\ ident[s].tty \in Tty \union {NoTty} /\ ident[s].pane \in Window \union {NoWindow}
      /\ id.tty \in Tty \union {NoTty} /\ id.pane \in Window \union {NoWindow}
  BY DEF Identity
<1>2. ids[s].tty = IF id.tty # NoTty THEN id.tty ELSE ident[s].tty
  BY DEF Claimed, KeepUnlessEmpty
<1>3. ASSUME NEW o \in Session, o # s
      PROVE  /\ ids[o] \in Identity
             /\ ids[o].tty = IF o \in Robbed(s, id) THEN NoTty ELSE ident[o].tty
  <2>1. ids[o] = IF o \in Robbed(s, id) THEN [ident[o] EXCEPT !.tty = NoTty] ELSE ident[o]
    BY <1>3 DEF Claimed
  <2>2. ident[o] \in Identity
    OBVIOUS
  <2> QED BY <2>1, <2>2 DEF Identity
<1>4. ids \in [Session -> Identity]
  <2>1. ids[s] \in Identity
    BY <1>1 DEF Claimed, KeepUnlessEmpty, Identity
  <2>2. ids = [o \in Session |-> ids[o]]
    BY DEF Claimed
  <2>3. \A o \in Session : ids[o] \in Identity
    BY <1>3, <2>1
  <2> HIDE DEF ids
  <2> QED BY <2>2, <2>3
<1>5. out \subseteq Session
  BY DEF EvictedAfter, Robbed
<1>6. ASSUME NEW o \in Session, o # s, ids[o].tty = ids[s].tty
      PROVE  ids[s].tty = NoTty
  <2>1. CASE id.tty = NoTty
    BY <1>2, <1>3, <1>6, <2>1 DEF Robbed, ExclusiveTty
  <2>2. CASE id.tty # NoTty
    BY <1>2, <1>3, <1>6, <2>2 DEF Robbed
  <2> QED BY <2>1, <2>2
<1>7. \A x, y \in Session : x # y /\ ids[x].tty = ids[y].tty => ids[x].tty = NoTty
  <2> SUFFICES ASSUME NEW x \in Session, NEW y \in Session, x # y, ids[x].tty = ids[y].tty
               PROVE  ids[x].tty = NoTty
    OBVIOUS
  <2> HIDE DEF ids
  <2>1. CASE x = s \/ y = s
    BY <1>6, <2>1
  <2>2. CASE x # s /\ y # s
    BY <1>3, <2>2 DEF ExclusiveTty
  <2> QED BY <2>1, <2>2
<1>8. \A x \in out : ids[x].tty = NoTty
  <2> SUFFICES ASSUME NEW x \in out PROVE ids[x].tty = NoTty
    OBVIOUS
  <2>1. x \in evicted \union Robbed(s, id) /\ (id.tty # NoTty => x # s)
    BY DEF EvictedAfter
  <2>2. CASE x = s
    BY <1>2, <2>1, <2>2 DEF Robbed, EvictedHoldsNoTty
  <2>3. CASE x # s
    BY <1>3, <1>5, <2>1, <2>3 DEF EvictedHoldsNoTty
  <2> QED BY <2>2, <2>3
<1> QED BY <1>4, <1>5, <1>7, <1>8

LEMMA NextClaims == Claims /\ [Next]_vars => Claims'
<1> SUFFICES ASSUME Claims, [Next]_vars PROVE Claims'
  OBVIOUS
<1>1. ASSUME UNCHANGED <<ident, evicted>> PROVE Claims'
  BY <1>1 DEF Claims, ExclusiveTty, EvictedHoldsNoTty
<1>2. ASSUME NEW s \in Session, NEW w \in Window, NEW found \in Captures,
             NEW takes \in BOOLEAN, Report(s, w, found, takes)
      PROVE  Claims'
  <2>1. Capture(w, found) \in Identity
    BY CaptureType, ConstantsAssumption
  <2>2. /\ ident' = Claimed(s, Capture(w, found))
        /\ evicted' = EvictedAfter(s, Capture(w, found))
    BY <1>2 DEF Report, SetIdentity
  <2> HIDE DEF Claims
  <2> QED
    BY <2>1, <2>2, SetIdentityClaims DEF Claims, ExclusiveTty, EvictedHoldsNoTty
<1>3. ASSUME NEW s \in Session, End(s) PROVE Claims'
  <2>1. Nowhere \in Identity /\ Nowhere.tty = NoTty
    BY DEF Nowhere, Identity
  <2>2. ident' = [ident EXCEPT ![s] = Nowhere] /\ evicted' = evicted \ {s}
    BY <1>3 DEF End
  <2> QED BY <2>1, <2>2 DEF Claims, ExclusiveTty, EvictedHoldsNoTty
<1>4. ASSUME Restart PROVE Claims'
  <2>1. Nowhere \in Identity /\ Nowhere.tty = NoTty
    BY DEF Nowhere, Identity
  <2>2. ident' = [s \in Session |-> Nowhere] /\ evicted' = {}
    BY <1>4 DEF Restart
  <2> QED BY <2>1, <2>2 DEF Claims, ExclusiveTty, EvictedHoldsNoTty
<1>5. ASSUME NEW s \in Session, NEW takes \in BOOLEAN, Submit(s, takes) PROVE Claims'
  BY <1>1, <1>5 DEF Submit
<1>6. ASSUME NEW s \in Session, Talk(s) \/ Jump(s) \/ Die(s) PROVE Claims'
  BY <1>1, <1>6 DEF Talk, Jump, Die, registry
<1>7. ASSUME OsFocus \/ Save PROVE Claims'
  BY <1>1, <1>7 DEF OsFocus, Save, registry
<1>8. ASSUME NEW w \in Window \union {NoWindow}, OpenWindow(w) \/ CloseWindow(w) \/ MoveFocus(w)
      PROVE  Claims'
  BY <1>1, <1>8 DEF OpenWindow, CloseWindow, MoveFocus, registry
<1>9. ASSUME UNCHANGED vars PROVE Claims'
  BY <1>1, <1>9 DEF vars, registry
<1> QED BY <1>2, <1>3, <1>4, <1>5, <1>6, <1>7, <1>8, <1>9 DEF Next

LEMMA ClaimsInvariant == Spec => []Claims
<1>1. Init => Claims
  BY DEF Init, Claims, ExclusiveTty, EvictedHoldsNoTty, Nowhere, Identity
<1> QED BY <1>1, NextClaims, PTL DEF Spec

\* No tty ever has two claimants, however many sessions move between however
\* many windows.
THEOREM ExclusiveTtyHolds == Spec => []ExclusiveTty
<1>1. Claims => ExclusiveTty
  BY DEF Claims
<1> QED BY ClaimsInvariant, <1>1, PTL

\* An evicted session claims no tty until it is heard from one.
THEOREM EvictedHolds == Spec => []EvictedHoldsNoTty
<1>1. Claims => EvictedHoldsNoTty
  BY DEF Claims
<1> QED BY ClaimsInvariant, <1>1, PTL

-----------------------------------------------------------------------------
(* Numbers: a new one is not taken, a restart brings back a subset of saved *)
(* ones, everything else gives numbers up or leaves them.                   *)

LEMMA RecordNumbers ==
    ASSUME Numbers, NEW s \in Session, Record(s), UNCHANGED saved
    PROVE  Numbers'
<1>1. CASE number[s] # 0
  BY <1>1 DEF Record, Numbers, UniqueNumbers
<1>2. CASE number[s] = 0
  <2>1. PICK n \in 1..Cardinality(Session) :
          n \notin Taken /\ number' = [number EXCEPT ![s] = n]
    BY <1>2 DEF Record
  <2>2. n \in Nat
    BY <2>1, ConstantsAssumption
  <2>3. \A o \in Session : number[o] # n
    BY <2>1 DEF Taken
  <2> QED BY <2>1, <2>2, <2>3 DEF Numbers, UniqueNumbers
<1> QED BY <1>1, <1>2

LEMMA NextNumbers == Numbers /\ [Next]_vars => Numbers'
<1> SUFFICES ASSUME Numbers, [Next]_vars PROVE Numbers'
  OBVIOUS
<1>1. ASSUME UNCHANGED <<number, saved>> PROVE Numbers'
  BY <1>1 DEF Numbers, UniqueNumbers
<1>2. ASSUME NEW s \in Session, NEW w \in Window, NEW found \in Captures,
             NEW takes \in BOOLEAN, Report(s, w, found, takes)
      PROVE  Numbers'
  BY <1>2, RecordNumbers DEF Report
<1>3. ASSUME NEW s \in Session, NEW takes \in BOOLEAN, Submit(s, takes) PROVE Numbers'
  BY <1>3, RecordNumbers DEF Submit
<1>4. ASSUME NEW s \in Session, Jump(s) PROVE Numbers'
  BY <1>4, RecordNumbers DEF Jump
<1>5. ASSUME NEW s \in Session, End(s) PROVE Numbers'
  <2>1. number' = [number EXCEPT ![s] = 0] /\ saved' = saved
    BY <1>5 DEF End
  <2> QED BY <2>1 DEF Numbers, UniqueNumbers
<1>6. ASSUME Save PROVE Numbers'
  BY <1>6 DEF Save, registry, Numbers, UniqueNumbers
<1>7. ASSUME Restart PROVE Numbers'
  <2>1. PICK kept \in SUBSET {s \in Session : saved[s] # 0} :
          number' = [s \in Session |-> IF s \in kept THEN saved[s] ELSE 0]
    BY <1>7 DEF Restart
  <2>2. saved' = saved
    BY <1>7 DEF Restart
  <2> QED BY <2>1, <2>2 DEF Numbers, UniqueNumbers
<1>8. ASSUME NEW s \in Session, Talk(s) \/ Die(s) PROVE Numbers'
  BY <1>1, <1>8 DEF Talk, Die, registry
<1>9. ASSUME OsFocus PROVE Numbers'
  BY <1>1, <1>9 DEF OsFocus
<1>10. ASSUME NEW w \in Window \union {NoWindow}, OpenWindow(w) \/ CloseWindow(w) \/ MoveFocus(w)
       PROVE  Numbers'
  BY <1>1, <1>10 DEF OpenWindow, CloseWindow, MoveFocus, registry
<1>11. ASSUME UNCHANGED vars PROVE Numbers'
  BY <1>1, <1>11 DEF vars, registry
<1> QED BY <1>2, <1>3, <1>4, <1>5, <1>6, <1>7, <1>8, <1>9, <1>10, <1>11 DEF Next

\* No two sessions ever answer to one number, in memory or in the file, however
\* the daemon is restarted and whichever sessions come back.
THEOREM UniqueNumbersHolds == Spec => []UniqueNumbers
<1>1. Init => Numbers
  BY DEF Init, Numbers, UniqueNumbers
<1>2. Numbers => UniqueNumbers
  BY DEF Numbers
<1> QED BY <1>1, <1>2, NextNumbers, PTL DEF Spec

\* A terminal and a number lead to one session each.
THEOREM ClaimsExclusiveHolds == Spec => []ClaimsExclusive
<1>1. ExclusiveTty /\ EvictedHoldsNoTty /\ UniqueNumbers => ClaimsExclusive
  BY DEF ClaimsExclusive
<1> QED BY <1>1, ExclusiveTtyHolds, EvictedHolds, UniqueNumbersHolds, PTL

-----------------------------------------------------------------------------
(* Sequences without duplicates: taking an element out, putting it first,   *)
(* and finding the first of a set.                                          *)

Less == {ss \in Nat \X Nat : ss[1] < ss[2]}

\* A set of naturals has a least element.
LEMMA Least ==
    ASSUME NEW T, T \subseteq Nat, T # {}
    PROVE  \E x \in T : \A y \in T : x <= y
<1>1. IsWellFoundedOn(Less, Nat)
  <2>1. Less = OpToRel(<, Nat)
    BY DEF Less, OpToRel
  <2> QED BY NatLessThanWellFounded, <2>1
<1>2. PICK x \in T : \A y \in T : ~ (<<y, x>> \in Less)
  BY <1>1, WFMin
<1>3. ASSUME NEW y \in T PROVE x <= y
  <2>1. x \in Nat /\ y \in Nat
    OBVIOUS
  <2>2. ~ (y < x)
    BY <1>2, <2>1 DEF Less
  <2> QED BY <2>1, <2>2
<1> QED BY <1>3

LEMMA MinIsLeast ==
    ASSUME NEW T, T \subseteq Nat, T # {}
    PROVE  Min(T) \in T /\ \A y \in T : Min(T) <= y
  BY Least DEF Min

\* RemoveFirst() takes the element out of a sequence that has it once.
LEMMA RemovedOnce ==
    ASSUME NEW S, NEW q \in Seq(S), IsInjective(q), NEW e
    PROVE  LET r == RemoveFirst(q, e)
           IN  r \in Seq(S) /\ IsInjective(r) /\ Range(r) = Range(q) \ {e}
<1> DEFINE I == {i \in 1..Len(q) : q[i] = e}
<1>1. CASE I = {}
  <2>1. RemoveFirst(q, e) = q
    BY <1>1 DEF RemoveFirst
  <2> QED BY <1>1, <2>1 DEF Range
<1>2. CASE I # {}
  <2>1. PICK k \in I : k = Min(I)
    <3>1. I \subseteq Nat
      OBVIOUS
    <3> HIDE DEF I
    <3> QED BY <1>2, <3>1, MinIsLeast
  <2>2. k \in 1..Len(q) /\ q[k] = e
    OBVIOUS
  <2>3. RemoveFirst(q, e) = RemoveAt(q, k)
    BY <1>2, <2>1 DEF RemoveFirst, SelectInSeq
  <2> DEFINE r == RemoveAt(q, k)
  <2> HIDE DEF I
  <2>4. /\ r \in Seq(S) /\ Len(r) = Len(q) - 1
        /\ \A i \in 1..Len(r) : r[i] = IF i < k THEN q[i] ELSE q[i + 1]
    <3> DEFINE f == SubSeq(q, 1, k - 1)
               g == SubSeq(q, k + 1, Len(q))
    <3>1. /\ f \in Seq(S) /\ Len(f) = k - 1
          /\ \A i \in 1..(k - 1) : f[i] = q[i]
      BY <2>2
    <3>2. /\ g \in Seq(S) /\ Len(g) = Len(q) - k
          /\ \A i \in 1..(Len(q) - k) : g[i] = q[i + k]
      BY <2>2
    <3>3. r = f \o g
      BY DEF RemoveAt
    <3> HIDE DEF f, g, r
    <3>4. /\ r \in Seq(S) /\ Len(r) = Len(f) + Len(g)
          /\ \A i \in 1..Len(r) : r[i] = IF i <= Len(f) THEN f[i] ELSE g[i - Len(f)]
      <4>1. f \in Seq(S) /\ g \in Seq(S)
        BY <3>1, <3>2
      <4> QED BY <3>3, <4>1
    <3>5. Len(r) = Len(q) - 1
      BY <2>2, <3>1, <3>2, <3>4
    <3>6. ASSUME NEW i \in 1..Len(r) PROVE r[i] = IF i < k THEN q[i] ELSE q[i + 1]
      <4>1. CASE i < k
        BY <2>2, <3>1, <3>4, <4>1
      <4>2. CASE ~ (i < k)
        <5>1. i - (k - 1) \in 1..(Len(q) - k) /\ (i - (k - 1)) + k = i + 1 /\ ~ (i <= k - 1)
          BY <2>2, <3>5, <4>2
        <5> QED BY <2>2, <3>1, <3>2, <3>4, <5>1, <4>2
      <4> QED BY <4>1, <4>2
    <3> QED BY <3>4, <3>5, <3>6
  <2>5. \A i, j \in 1..Len(q) : q[i] = q[j] => i = j
    BY DEF IsInjective
  <2> HIDE DEF r
  <2>6. IsInjective(r)
    <3> SUFFICES ASSUME NEW i \in 1..Len(r), NEW j \in 1..Len(r), r[i] = r[j] PROVE i = j
      BY <2>4 DEF IsInjective
    <3> QED BY <2>2, <2>4, <2>5
  <2>7. ASSUME NEW x \in Range(r) PROVE x \in Range(q) \ {e}
    <3>1. PICK i \in 1..Len(r) : r[i] = x
      BY <2>4 DEF Range
    <3>2. PICK j \in 1..Len(q) : j # k /\ q[j] = x
      BY <2>2, <2>4, <3>1
    <3> QED BY <2>2, <2>5, <3>2 DEF Range
  <2>8. ASSUME NEW x \in Range(q) \ {e} PROVE x \in Range(r)
    <3>1. PICK j \in 1..Len(q) : q[j] = x /\ j # k
      BY <2>2 DEF Range
    <3>2. PICK i \in 1..Len(r) : i = IF j < k THEN j ELSE j - 1
      BY <2>2, <2>4, <3>1
    <3>3. r[i] = x
      BY <2>2, <2>4, <3>1, <3>2
    <3> QED BY <2>4, <3>3 DEF Range
  <2> QED BY <2>3, <2>4, <2>6, <2>7, <2>8 DEF r
<1> QED BY <1>1, <1>2

\* Touched() moves a session to the front.
LEMMA TouchedFirst ==
    ASSUME NEW s \in Session, NEW q \in Seq(Session), IsInjective(q)
    PROVE  LET r == Touched(s, q)
           IN  r \in Seq(Session) /\ IsInjective(r) /\ Range(r) = Range(q) \union {s}
<1> DEFINE p == RemoveFirst(q, s)
           r == <<s>> \o p
<1>1. p \in Seq(Session) /\ IsInjective(p) /\ Range(p) = Range(q) \ {s}
  BY RemovedOnce
<1> HIDE DEF p
<1>2. /\ r \in Seq(Session) /\ Len(r) = Len(p) + 1
      /\ \A i \in 1..Len(r) : r[i] = IF i = 1 THEN s ELSE p[i - 1]
  BY <1>1
<1>3. ASSUME NEW i \in 1..Len(p) PROVE p[i] # s
  <2>1. p[i] \in Range(p)
    BY <1>1 DEF Range
  <2> QED BY <1>1, <2>1
<1>4. \A i, j \in 1..Len(p) : p[i] = p[j] => i = j
  BY <1>1 DEF IsInjective
<1> HIDE DEF r
<1>5. IsInjective(r)
  <2> SUFFICES ASSUME NEW i \in 1..Len(r), NEW j \in 1..Len(r), r[i] = r[j] PROVE i = j
    BY <1>2 DEF IsInjective
  <2>1. CASE i = 1 \/ j = 1
    BY <1>1, <1>2, <1>3, <2>1
  <2>2. CASE i # 1 /\ j # 1
    <3>1. i - 1 \in 1..Len(p) /\ j - 1 \in 1..Len(p)
      BY <1>1, <1>2, <2>2
    <3> QED BY <1>2, <1>4, <2>2, <3>1
  <2> QED BY <2>1, <2>2
<1>6. Range(r) = Range(p) \union {s}
  <2>1. ASSUME NEW x \in Range(r) PROVE x \in Range(p) \union {s}
    <3>1. PICK i \in 1..Len(r) : r[i] = x
      BY <1>2 DEF Range
    <3>2. CASE i = 1
      BY <1>2, <3>1, <3>2
    <3>3. CASE i # 1
      <4>1. i - 1 \in 1..Len(p) /\ p[i - 1] = x
        BY <1>1, <1>2, <3>1, <3>3
      <4> QED BY <1>1, <4>1 DEF Range
    <3> QED BY <3>2, <3>3
  <2>2. s \in Range(r)
    <3>1. 1 \in 1..Len(r) /\ r[1] = s
      BY <1>1, <1>2
    <3> QED BY <1>2, <3>1 DEF Range
  <2>3. ASSUME NEW x \in Range(p) PROVE x \in Range(r)
    <3>1. PICK i \in 1..Len(p) : p[i] = x
      BY <1>1 DEF Range
    <3>2. i + 1 \in 1..Len(r) /\ r[i + 1] = x
      BY <1>1, <1>2, <3>1
    <3> QED BY <1>2, <3>2 DEF Range
  <2> QED BY <2>1, <2>2, <2>3
<1> QED BY <1>1, <1>2, <1>5, <1>6 DEF Touched, r, p

\* FirstOf() finds a candidate that is in the order, if there is one.
LEMMA FirstOfFinds ==
    ASSUME NEW q \in Seq(Session), NEW C \in SUBSET Session
    PROVE  /\ Range(q) \intersect C = {} => FirstOf(q, C) = NoSession
           /\ Range(q) \intersect C # {} => FirstOf(q, C) \in Range(q) \intersect C
<1> DEFINE places == {i \in 1..Len(q) : q[i] \in C}
<1>1. FirstOf(q, C) = IF places = {} THEN NoSession ELSE q[Min(places)]
  BY DEF FirstOf
<1>2. places # {} => Min(places) \in places
  <2>1. places \subseteq Nat
    OBVIOUS
  <2> HIDE DEF places
  <2> QED BY <2>1, MinIsLeast
<1>3. Range(q) \intersect C = {} <=> places = {}
  BY DEF Range
<1>4. ASSUME NEW i \in places PROVE q[i] \in Range(q) \intersect C
  BY DEF Range
<1> HIDE DEF places
<1> QED BY <1>1, <1>2, <1>3, <1>4

\* The session at the end of the order, once.
LEMMA AppendedOnce ==
    ASSUME NEW s \in Session, NEW q \in Seq(Session), IsInjective(q), s \notin Range(q)
    PROVE  LET r == Append(q, s)
           IN  r \in Seq(Session) /\ IsInjective(r) /\ Range(r) = Range(q) \union {s}
<1> DEFINE r == Append(q, s)
<1>1. /\ r \in Seq(Session) /\ Len(r) = Len(q) + 1
      /\ \A i \in 1..Len(r) : r[i] = IF i = Len(r) THEN s ELSE q[i]
  OBVIOUS
<1>2. \A i \in 1..Len(q) : q[i] # s
  BY DEF Range
<1>3. \A i, j \in 1..Len(q) : q[i] = q[j] => i = j
  BY DEF IsInjective
<1> HIDE DEF r
<1>4. IsInjective(r)
  <2> SUFFICES ASSUME NEW i \in 1..Len(r), NEW j \in 1..Len(r), r[i] = r[j] PROVE i = j
    BY <1>1 DEF IsInjective
  <2> QED BY <1>1, <1>2, <1>3
<1>5. Range(r) = Range(q) \union {s}
  <2>1. Len(r) \in 1..Len(r) /\ \A i \in 1..Len(q) : i \in 1..Len(r) /\ i # Len(r)
    BY <1>1
  <2> QED BY <1>1, <2>1 DEF Range
<1> QED BY <1>1, <1>4, <1>5 DEF r

-----------------------------------------------------------------------------
(* The roster: what each variable holds, and that nothing the chooser walks *)
(* or a pointer points to is unregistered.                                  *)

RegistryTypes ==
    /\ number \in [Session -> 0..Cardinality(Session)]
    /\ saved \in [Session -> 0..Cardinality(Session)]
    /\ provisional \subseteq Session
    /\ raw \in Identity /\ watched \in Identity
    /\ restarts \in Nat

WorldTypes ==
    /\ at \in [Session -> Window \union {NoWindow}]
    /\ window \in [Window -> {"new", "open", "closed"}]
    /\ front \in Window \union {NoWindow}
    /\ iterm \subseteq Window

Ring ==
    /\ known \in Seq(Session) /\ IsInjective(known) /\ Range(known) \subseteq Registered
    /\ mru \in Seq(Session) /\ IsInjective(mru) /\ Range(mru) \subseteq Registered
    /\ foreground \in Registered \union {NoSession}
    /\ pin \in Registered \union {NoSession}

\* What a window shows is an identity.
LEMMA LineType ==
    ASSUME NEW w \in Window \union {NoWindow}
    PROVE  Line(w) \in Identity
  BY ConstantsAssumption DEF Line, Nowhere, Identity

\* Recording a session registers it, and nobody else.
LEMMA Recorded ==
    ASSUME RegistryTypes, NEW s \in Session, Record(s)
    PROVE  /\ number' \in [Session -> 0..Cardinality(Session)]
           /\ Registered' = Registered \union {s}
<1>1. CASE number[s] # 0
  BY <1>1 DEF Record, RegistryTypes, Registered
<1>2. CASE number[s] = 0
  <2>1. PICK n \in 1..Cardinality(Session) : number' = [number EXCEPT ![s] = n]
    BY <1>2 DEF Record
  <2>2. Cardinality(Session) \in Nat
    BY ConstantsAssumption, FS_CardinalityType
  <2>3. n # 0 /\ n \in 0..Cardinality(Session)
    BY <2>1, <2>2
  <2> QED BY <2>1, <2>3 DEF RegistryTypes, Registered
<1> QED BY <1>1, <1>2

LEMMA NextRegistryTypes == RegistryTypes /\ WorldTypes /\ [Next]_vars => RegistryTypes'
<1> SUFFICES ASSUME RegistryTypes, WorldTypes, [Next]_vars PROVE RegistryTypes'
  OBVIOUS
<1>1. ASSUME NEW s \in Session, NEW w \in Window, NEW found \in Captures,
             NEW takes \in BOOLEAN, Report(s, w, found, takes)
      PROVE  RegistryTypes'
  BY <1>1, Recorded DEF Report, RegistryTypes
<1>2. ASSUME NEW s \in Session, NEW takes \in BOOLEAN, Submit(s, takes) PROVE RegistryTypes'
  BY <1>2, Recorded DEF Submit, RegistryTypes
<1>3. ASSUME NEW s \in Session, Jump(s) PROVE RegistryTypes'
  BY <1>3, Recorded DEF Jump, RegistryTypes
<1>4. ASSUME NEW s \in Session, End(s) PROVE RegistryTypes'
  <2>1. 0 \in 0..Cardinality(Session)
    BY ConstantsAssumption, FS_CardinalityType
  <2> QED BY <1>4, <2>1 DEF End, RegistryTypes
<1>5. ASSUME OsFocus PROVE RegistryTypes'
  <2>1. watched' = Line(front) /\ raw' = watched'
    BY <1>5 DEF OsFocus
  <2> QED BY <1>5, <2>1, LineType DEF OsFocus, RegistryTypes, WorldTypes
<1>6. ASSUME Save PROVE RegistryTypes'
  BY <1>6 DEF Save, registry, RegistryTypes
<1>7. ASSUME Restart PROVE RegistryTypes'
  <2>1. PICK kept \in SUBSET {s \in Session : saved[s] # 0} :
          /\ number' = [s \in Session |-> IF s \in kept THEN saved[s] ELSE 0]
          /\ provisional' = kept
    BY <1>7 DEF Restart
  <2>2. 0 \in 0..Cardinality(Session)
    BY ConstantsAssumption, FS_CardinalityType
  <2>3. Nowhere \in Identity
    BY DEF Nowhere, Identity
  <2>4. number' \in [Session -> 0..Cardinality(Session)]
    BY <2>1, <2>2 DEF RegistryTypes
  <2> QED BY <1>7, <2>1, <2>3, <2>4 DEF Restart, RegistryTypes
<1>8. ASSUME NEW s \in Session, Talk(s) \/ Die(s) PROVE RegistryTypes'
  BY <1>8 DEF Talk, Die, registry, RegistryTypes
<1>9. ASSUME NEW w \in Window \union {NoWindow}, OpenWindow(w) \/ CloseWindow(w) \/ MoveFocus(w)
      PROVE  RegistryTypes'
  BY <1>9 DEF OpenWindow, CloseWindow, MoveFocus, registry, RegistryTypes
<1>10. ASSUME UNCHANGED vars PROVE RegistryTypes'
  BY <1>10 DEF vars, registry, RegistryTypes
<1> QED
  BY <1>1, <1>2, <1>3, <1>4, <1>5, <1>6, <1>7, <1>8, <1>9, <1>10 DEF Next

LEMMA NextWorldTypes == WorldTypes /\ [Next]_vars => WorldTypes'
<1> SUFFICES ASSUME WorldTypes, [Next]_vars PROVE WorldTypes'
  OBVIOUS
<1>1. ASSUME UNCHANGED world PROVE WorldTypes'
  BY <1>1 DEF world, WorldTypes
<1>2. ASSUME NEW s \in Session, NEW w \in Window, NEW found \in Captures,
             NEW takes \in BOOLEAN, Report(s, w, found, takes)
      PROVE  WorldTypes'
  BY <1>2 DEF Report, WorldTypes
<1>3. ASSUME NEW s \in Session, End(s) \/ Die(s) PROVE WorldTypes'
  BY <1>3 DEF End, Die, WorldTypes
<1>4. ASSUME NEW w \in Window, OpenWindow(w) PROVE WorldTypes'
  BY <1>4 DEF OpenWindow, WorldTypes
<1>5. ASSUME NEW w \in Window, CloseWindow(w) PROVE WorldTypes'
  BY <1>5 DEF CloseWindow, WorldTypes
<1>6. ASSUME NEW w \in Window \union {NoWindow}, MoveFocus(w) PROVE WorldTypes'
  BY <1>6 DEF MoveFocus, WorldTypes
<1>7. ASSUME NEW s \in Session, NEW takes \in BOOLEAN,
             Submit(s, takes) \/ Talk(s) \/ Jump(s) \/ OsFocus \/ Save \/ Restart
      PROVE  WorldTypes'
  BY <1>1, <1>7 DEF Submit, Talk, Jump, OsFocus, Save, Restart
<1>8. ASSUME UNCHANGED vars PROVE WorldTypes'
  BY <1>1, <1>8 DEF vars
<1>9. TRUE \in BOOLEAN
  OBVIOUS
<1>10. ASSUME NEW s \in Session, Talk(s) \/ Jump(s) PROVE WorldTypes'
  BY <1>7, <1>9, <1>10
<1>11. ASSUME OsFocus \/ Save \/ Restart PROVE WorldTypes'
  BY <1>1, <1>11 DEF OsFocus, Save, Restart
<1> QED
  BY <1>2, <1>3, <1>4, <1>5, <1>6, <1>7, <1>8, <1>10, <1>11 DEF Next

-----------------------------------------------------------------------------
\* The lines of identity a resolution may find are those that are known.
LEMMA ResolvedKnown ==
    ASSUME NEW order \in Seq(Session), NEW line, NEW ids, NEW out
    PROVE  LET C == Claimants(line, ids) \ out
               r == Resolved(line, ids, order, out)
           IN  /\ Range(order) \intersect C = {} => r = NoSession
               /\ Range(order) \intersect C # {} => r \in Range(order) \intersect C
  BY FirstOfFinds DEF Resolved, Claimants

\* A claim enters its session in the order of identities, and moves the focus
\* and the ring to sessions that are in it.
LEMMA ClaimRing ==
    ASSUME Ring, NEW s \in Session, NEW id, NEW recent \in Seq(Session), IsInjective(recent),
           SetIdentity(s, id, recent)
    PROVE  /\ known' \in Seq(Session) /\ IsInjective(known')
           /\ Range(known') = Range(known) \union {s}
           /\ mru' \in Seq(Session) /\ IsInjective(mru')
           /\ Range(mru') \subseteq Range(recent) \union Range(known')
           /\ pin' \in {pin, NoSession} \union Range(known')
<1> DEFINE order == IF s \in Range(known) THEN known ELSE Append(known, s)
           held  == PinAfterEviction(s, id)
           found == Resolved(raw, Claimed(s, id), order, EvictedAfter(s, id))
<1>1. order \in Seq(Session) /\ IsInjective(order) /\ Range(order) = Range(known) \union {s}
  BY AppendedOnce DEF Ring
<1>2. /\ known' = order
      /\ pin' = IF Unresolved(held) THEN found ELSE held
      /\ mru' = IF Unresolved(held) /\ found # NoSession THEN Touched(found, recent) ELSE recent
  BY DEF SetIdentity
<1>3. found \in Range(order) \union {NoSession}
  <2> HIDE DEF order
  <2> QED BY <1>1, ResolvedKnown
<1>4. held \in {pin, s}
  BY DEF PinAfterEviction
<1>5. Range(order) \subseteq Session
  BY <1>1 DEF Range, Ring
<1>6. found # NoSession =>
        /\ Touched(found, recent) \in Seq(Session) /\ IsInjective(Touched(found, recent))
        /\ Range(Touched(found, recent)) = Range(recent) \union {found}
  <2> HIDE DEF found, order
  <2> QED BY <1>3, <1>5, TouchedFirst
<1> HIDE DEF order, held, found
<1> QED BY <1>1, <1>2, <1>3, <1>4, <1>6

LEMMA NextRing == Ring /\ RegistryTypes /\ [Next]_vars => Ring'
<1> SUFFICES ASSUME Ring, RegistryTypes, [Next]_vars PROVE Ring'
  OBVIOUS
<1>1. ASSUME UNCHANGED <<number, known, mru, foreground, pin>> PROVE Ring'
  BY <1>1 DEF Ring, Registered
<1>2. ASSUME NEW s \in Session
      PROVE  /\ Touched(s, mru) \in Seq(Session) /\ IsInjective(Touched(s, mru))
             /\ Range(Touched(s, mru)) = Range(mru) \union {s}
  BY TouchedFirst DEF Ring
<1>3. ASSUME NEW s \in Session, NEW w \in Window, NEW found \in Captures,
             NEW takes \in BOOLEAN, Report(s, w, found, takes)
      PROVE  Ring'
  <2> DEFINE recent == IF takes THEN Touched(s, mru) ELSE mru
  <2>1. Registered' = Registered \union {s}
    BY <1>3, Recorded DEF Report
  <2>2. SetIdentity(s, Capture(w, found), recent) /\ foreground' = IF takes THEN s ELSE foreground
    BY <1>3 DEF Report
  <2>3. /\ recent \in Seq(Session) /\ IsInjective(recent)
        /\ Range(recent) \subseteq Range(mru) \union {s}
    BY <1>2 DEF Ring
  <2> HIDE DEF recent
  <2>4. /\ known' \in Seq(Session) /\ IsInjective(known')
        /\ Range(known') = Range(known) \union {s}
        /\ mru' \in Seq(Session) /\ IsInjective(mru')
        /\ Range(mru') \subseteq Range(recent) \union Range(known')
        /\ pin' \in {pin, NoSession} \union Range(known')
    BY <2>2, <2>3, ClaimRing
  <2> QED BY <2>1, <2>2, <2>3, <2>4 DEF Ring
<1>4. ASSUME NEW s \in Session, NEW takes \in BOOLEAN, Submit(s, takes) PROVE Ring'
  <2>1. Registered' = Registered \union {s}
    BY <1>4, Recorded DEF Submit
  <2>2. /\ UNCHANGED <<known, pin>>
        /\ foreground' = IF takes THEN s ELSE foreground
        /\ mru' = IF takes THEN Touched(s, mru) ELSE mru
    BY <1>4 DEF Submit
  <2> QED BY <1>2, <2>1, <2>2 DEF Ring
<1>5. ASSUME NEW s \in Session, Jump(s) PROVE Ring'
  <2>1. Registered' = Registered \union {s}
    BY <1>5, Recorded DEF Jump
  <2>2. UNCHANGED <<known, pin>> /\ foreground' = s /\ mru' = Touched(s, mru)
    BY <1>5 DEF Jump
  <2> QED BY <1>2, <2>1, <2>2 DEF Ring
<1>6. ASSUME NEW s \in Session, End(s) PROVE Ring'
  <2>1. Registered' = Registered \ {s}
    BY <1>6 DEF End, Registered, RegistryTypes
  <2>2. /\ known' = RemoveFirst(known, s) /\ mru' = RemoveFirst(mru, s)
        /\ foreground' = IF foreground = s THEN NoSession ELSE foreground
        /\ pin' = IF pin = s THEN NoSession ELSE pin
    BY <1>6 DEF End, MruWithout
  <2>3. /\ known' \in Seq(Session) /\ IsInjective(known') /\ Range(known') = Range(known) \ {s}
        /\ mru' \in Seq(Session) /\ IsInjective(mru') /\ Range(mru') = Range(mru) \ {s}
    BY <2>2, RemovedOnce DEF Ring
  <2> QED BY <2>1, <2>2, <2>3 DEF Ring
<1>7. ASSUME OsFocus PROVE Ring'
  <2>1. /\ UNCHANGED <<number, known, foreground>>
        /\ pin' = Pinned(watched')
        /\ mru' = IF pin' # NoSession THEN Touched(pin', mru) ELSE mru
    BY <1>7 DEF OsFocus
  <2>2. pin' \in Range(known) \union {NoSession}
    BY <2>1, ResolvedKnown DEF Pinned, Ring
  <2>3. Range(known) \subseteq Registered /\ Registered \subseteq Session /\ Registered' = Registered
    BY <2>1 DEF Ring, Registered
  <2>4. pin' # NoSession =>
          /\ Touched(pin', mru) \in Seq(Session) /\ IsInjective(Touched(pin', mru))
          /\ Range(Touched(pin', mru)) = Range(mru) \union {pin'}
    BY <2>2, <2>3, <1>2
  <2> QED BY <2>1, <2>2, <2>3, <2>4 DEF Ring
<1>8. ASSUME Restart PROVE Ring'
  <2>1. known' = <<>> /\ mru' = <<>> /\ foreground' = NoSession /\ pin' = NoSession
    BY <1>8 DEF Restart
  <2>2. IsInjective(<<>>) /\ Range(<<>>) = {} /\ <<>> \in Seq(Session)
    BY DEF IsInjective, Range
  <2> QED BY <2>1, <2>2 DEF Ring
<1>9. ASSUME NEW s \in Session, Talk(s) \/ Die(s) PROVE Ring'
  BY <1>1, <1>9 DEF Talk, Die, registry
<1>10. ASSUME Save PROVE Ring'
  BY <1>1, <1>10 DEF Save, registry
<1>11. ASSUME NEW w \in Window \union {NoWindow}, OpenWindow(w) \/ CloseWindow(w) \/ MoveFocus(w)
       PROVE  Ring'
  BY <1>1, <1>11 DEF OpenWindow, CloseWindow, MoveFocus, registry
<1>12. ASSUME UNCHANGED vars PROVE Ring'
  BY <1>1, <1>12 DEF vars, registry
<1> QED
  BY <1>3, <1>4, <1>5, <1>6, <1>7, <1>8, <1>9, <1>10, <1>11, <1>12 DEF Next

Roster == RegistryTypes /\ WorldTypes /\ Ring

LEMMA RosterInvariant == Spec => []Roster
<1>1. Init => Roster
  <2> SUFFICES ASSUME Init PROVE Roster
    OBVIOUS
  <2>1. 0 \in 0..Cardinality(Session)
    BY ConstantsAssumption, FS_CardinalityType
  <2>2. Nowhere \in Identity
    BY DEF Nowhere, Identity
  <2>3. IsInjective(<<>>) /\ Range(<<>>) = {} /\ <<>> \in Seq(Session)
    BY DEF IsInjective, Range
  <2>4. RegistryTypes
    BY <2>1, <2>2 DEF Init, RegistryTypes
  <2>5. WorldTypes
    BY ConstantsAssumption DEF Init, WorldTypes
  <2>6. Ring
    BY <2>3 DEF Init, Ring
  <2> QED BY <2>4, <2>5, <2>6 DEF Roster
<1>2. Roster /\ [Next]_vars => Roster'
  BY NextRegistryTypes, NextWorldTypes, NextRing DEF Roster
<1> QED BY <1>1, <1>2, PTL DEF Spec

\* Every variable keeps its type; the ring and the order of the identities hold
\* no session twice.
THEOREM TypeCorrect == Spec => []TypeOK
<1>1. Roster /\ Claims => TypeOK
  BY DEF Roster, RegistryTypes, WorldTypes, Ring, Claims, TypeOK, Registered
<1> QED BY <1>1, RosterInvariant, ClaimsInvariant, PTL

\* What the chooser walks and the pointers point to is registered, whatever is
\* claimed, ended, evicted or lost in a restart.
THEOREM RingRegisteredHolds == Spec => []RingRegistered
<1>1. Roster => RingRegistered
  BY DEF Roster, Ring, RingRegistered
<1> QED BY <1>1, RosterInvariant, PTL

-----------------------------------------------------------------------------
(* Windows and processes: what runs, runs in an open window, and the window *)
(* and the tty a session claims are those it runs in.                       *)

\* A hook always finds the tty it runs on.
AlwaysFound == Captures \subseteq {TRUE}

\* The user's windows are all of one terminal program.
OneProgram == Programs \subseteq {{}, Window}

Windows ==
    /\ front # NoWindow => window[front] = "open"
    /\ \A v, w \in Window :
          window[v] = "open" /\ window[w] = "open" /\ TtyOf[v] = TtyOf[w] => v = w

Homes ==
    \A s \in Session : at[s] # NoWindow =>
        window[at[s]] = "open" /\ ident[s].tty \in {NoTty, TtyOf[at[s]]}

LEMMA NextWindows == WorldTypes /\ Windows /\ [Next]_vars => Windows'
<1> SUFFICES ASSUME WorldTypes, Windows, [Next]_vars PROVE Windows'
  OBVIOUS
<1>1. ASSUME UNCHANGED <<window, front>> PROVE Windows'
  BY <1>1 DEF Windows
<1>2. ASSUME NEW w \in Window, OpenWindow(w) PROVE Windows'
  <2>1. /\ front' = w /\ window' = [window EXCEPT ![w] = "open"]
        /\ \A v \in Window : window[v] = "open" => TtyOf[v] # TtyOf[w]
    BY <1>2 DEF OpenWindow, TtyAlive
  <2> QED BY <2>1 DEF Windows, WorldTypes
<1>3. ASSUME NEW w \in Window, CloseWindow(w) PROVE Windows'
  BY <1>3 DEF CloseWindow, Windows, WorldTypes
<1>4. ASSUME NEW w \in Window \union {NoWindow}, MoveFocus(w) PROVE Windows'
  BY <1>4 DEF MoveFocus, Windows
<1>5. ASSUME NEW s \in Session, NEW w \in Window, NEW found \in Captures,
             NEW takes \in BOOLEAN, Report(s, w, found, takes)
      PROVE  Windows'
  BY <1>1, <1>5 DEF Report
<1>6. ASSUME NEW s \in Session, NEW takes \in BOOLEAN, Submit(s, takes) PROVE Windows'
  BY <1>1, <1>6 DEF Submit, world
<1>7. ASSUME NEW s \in Session, Talk(s) \/ End(s) \/ Jump(s) \/ Die(s) PROVE Windows'
  BY <1>1, <1>7 DEF Talk, End, Jump, Die, world
<1>8. ASSUME OsFocus \/ Save \/ Restart PROVE Windows'
  BY <1>1, <1>8 DEF OsFocus, Save, Restart, world
<1>9. ASSUME UNCHANGED vars PROVE Windows'
  BY <1>1, <1>9 DEF vars, world
<1> QED BY <1>2, <1>3, <1>4, <1>5, <1>6, <1>7, <1>8, <1>9 DEF Next

\* What a report makes of the claims: its session claims the tty it was found
\* on, and who claimed that before is evicted.
LEMMA ReportClaims ==
    ASSUME AlwaysFound, Roster, Claims, NEW s \in Session, NEW w \in Window,
           NEW found \in Captures, NEW takes \in BOOLEAN, Report(s, w, found, takes)
    PROVE  /\ at' = [at EXCEPT ![s] = w]
           /\ UNCHANGED <<window, front, iterm, raw, watched>>
           /\ \/ at[s] = w
              \/ at[s] = NoWindow /\ front = w /\ watched = Line(w)
           /\ TtyOf[w] # NoTty
           /\ ident'[s].tty = TtyOf[w]
           /\ ident'[s].pane = IF w \in iterm THEN w ELSE ident[s].pane
           /\ \A o \in Session \ {s} :
                 /\ ident'[o].tty = IF ident[o].tty = TtyOf[w] THEN NoTty ELSE ident[o].tty
                 /\ ident'[o].pane = ident[o].pane
                 /\ ident[o].tty # TtyOf[w] => ident'[o] = ident[o]
           /\ evicted' = (evicted \union Robbed(s, Capture(w, found))) \ {s}
           /\ Robbed(s, Capture(w, found)) = {o \in Session \ {s} : ident[o].tty = TtyOf[w]}
<1> DEFINE id == Capture(w, found)
<1>1. TtyOf[w] \in Tty /\ TtyOf[w] # NoTty /\ w # NoWindow
  BY ConstantsAssumption
<1>2. id.tty = TtyOf[w] /\ id.pane = IF w \in iterm THEN w ELSE NoWindow
  BY DEF AlwaysFound, Capture
<1>3. Robbed(s, id) = {o \in Session \ {s} : ident[o].tty = TtyOf[w]}
  BY <1>1, <1>2 DEF Robbed
<1>4. ident' = Claimed(s, id) /\ evicted' = EvictedAfter(s, id)
  BY DEF Report, SetIdentity
<1>5. evicted' = (evicted \union Robbed(s, id)) \ {s}
  BY <1>1, <1>2, <1>4 DEF EvictedAfter
<1>6. /\ ident'[s].tty = TtyOf[w]
      /\ ident'[s].pane = IF w \in iterm THEN w ELSE ident[s].pane
  BY <1>1, <1>2, <1>4 DEF Claimed, KeepUnlessEmpty
<1>7. ASSUME NEW o \in Session \ {s}
      PROVE  /\ ident'[o].tty = IF ident[o].tty = TtyOf[w] THEN NoTty ELSE ident[o].tty
             /\ ident'[o].pane = ident[o].pane
             /\ ident[o].tty # TtyOf[w] => ident'[o] = ident[o]
  <2>1. ident[o] \in Identity
    BY DEF Claims
  <2>2. ident'[o] = IF o \in Robbed(s, id) THEN [ident[o] EXCEPT !.tty = NoTty] ELSE ident[o]
    BY <1>4 DEF Claimed
  <2> HIDE DEF id
  <2> QED BY <1>3, <2>1, <2>2 DEF Identity
<1>8. /\ at' = [at EXCEPT ![s] = w]
      /\ at[s] = w \/ (at[s] = NoWindow /\ front = w /\ watched = Line(w))
      /\ UNCHANGED <<window, front, iterm, raw, watched>>
  BY DEF Report, Roster, WorldTypes
<1> QED BY <1>1, <1>3, <1>5, <1>6, <1>7, <1>8

LEMMA NextHomes ==
    AlwaysFound /\ Roster /\ Claims /\ Windows /\ Homes /\ [Next]_vars => Homes'
<1> SUFFICES ASSUME AlwaysFound, Roster, Claims, Windows, Homes, [Next]_vars PROVE Homes'
  OBVIOUS
<1> USE DEF Roster, WorldTypes
<1>1. ASSUME UNCHANGED <<at, window, ident>> PROVE Homes'
  BY <1>1 DEF Homes
<1>2. ASSUME NEW s \in Session, NEW w \in Window, NEW found \in Captures,
             NEW takes \in BOOLEAN, Report(s, w, found, takes)
      PROVE  Homes'
  <2>1. /\ at' = [at EXCEPT ![s] = w] /\ window' = window
        /\ at[s] = w \/ front = w
        /\ ident'[s].tty = TtyOf[w]
        /\ \A o \in Session \ {s} : ident'[o].tty \in {NoTty, ident[o].tty}
    BY <1>2, ReportClaims
  <2>2. window[w] = "open"
    BY <2>1, ConstantsAssumption DEF Homes, Windows
  <2> SUFFICES ASSUME NEW o \in Session, at'[o] # NoWindow
               PROVE  window'[at'[o]] = "open" /\ ident'[o].tty \in {NoTty, TtyOf[at'[o]]}
    BY DEF Homes
  <2>3. CASE o = s
    BY <2>1, <2>2, <2>3
  <2>4. CASE o # s
    BY <2>1, <2>4 DEF Homes
  <2> QED BY <2>3, <2>4
<1>3. ASSUME NEW s \in Session, End(s) PROVE Homes'
  <2>1. /\ at' = [at EXCEPT ![s] = NoWindow] /\ window' = window
        /\ ident' = [ident EXCEPT ![s] = Nowhere]
    BY <1>3 DEF End
  <2> QED BY <2>1 DEF Homes, Claims
<1>4. ASSUME NEW s \in Session, Die(s) PROVE Homes'
  BY <1>4 DEF Die, registry, Homes
<1>5. ASSUME Restart PROVE Homes'
  BY <1>5 DEF Restart, world, Homes, Nowhere
<1>6. ASSUME NEW w \in Window, OpenWindow(w) PROVE Homes'
  BY <1>6 DEF OpenWindow, registry, Homes
<1>7. ASSUME NEW w \in Window, CloseWindow(w) PROVE Homes'
  BY <1>7 DEF CloseWindow, registry, Homes
<1>8. ASSUME NEW w \in Window \union {NoWindow}, MoveFocus(w) PROVE Homes'
  BY <1>1, <1>8 DEF MoveFocus, registry
<1>9. ASSUME NEW s \in Session, NEW takes \in BOOLEAN, Submit(s, takes) PROVE Homes'
  BY <1>1, <1>9 DEF Submit, world
<1>10. ASSUME NEW s \in Session, Talk(s) \/ Jump(s) PROVE Homes'
  BY <1>1, <1>10 DEF Talk, Jump, world
<1>11. ASSUME OsFocus \/ Save PROVE Homes'
  BY <1>1, <1>11 DEF OsFocus, Save, world, registry
<1>12. ASSUME UNCHANGED vars PROVE Homes'
  BY <1>1, <1>12 DEF vars, world, registry
<1> QED
  BY <1>2, <1>3, <1>4, <1>5, <1>6, <1>7, <1>8, <1>9, <1>10, <1>11, <1>12 DEF Next

Rooms == Roster /\ Claims /\ Windows /\ Homes

LEMMA RoomsInvariant ==
    ASSUME AlwaysFound PROVE Spec => []Rooms
<1>1. Init => Windows /\ Homes
  BY DEF Init, Windows, Homes
<1>2. Roster /\ Claims /\ Windows /\ [Next]_vars => Windows'
  BY NextWindows DEF Roster
<1>3. Roster /\ Claims /\ Windows /\ Homes /\ [Next]_vars => Homes'
  BY NextHomes
<1>4. Rooms <=> Roster /\ Claims /\ Windows /\ Homes
  BY DEF Rooms
<1> QED BY <1>1, <1>2, <1>3, <1>4, RosterInvariant, ClaimsInvariant, PTL DEF Spec

LEMMA RunningAlive == Rooms => RunningNotDead
  BY DEF Rooms, Homes, RunningNotDead, Liveness, TtyAlive, Roster, WorldTypes

\* The roster is sound: what the chooser walks is registered and, when a hook
\* always finds its tty, a session that runs is never called closed unless
\* another session was found in its terminal.
THEOREM RosterSoundHolds ==
    ASSUME AlwaysFound PROVE Spec => []RosterSound
<1>1. Rooms => RunningNotDead
  BY RunningAlive
<1>2. RosterSound <=> TypeOK /\ RingRegistered /\ RunningNotDead
  BY DEF RosterSound
<1> QED BY <1>1, <1>2, TypeCorrect, RingRegisteredHolds, RoomsInvariant, PTL

-----------------------------------------------------------------------------
(* The focus.  A pane that is claimed is an iTerm pane, of the window its   *)
(* session runs in, and comes with that window's tty; so two claimants of   *)
(* what has the keyboard claim one tty, and are one session.                *)

Panes ==
    /\ iterm \in {{}, Window}
    /\ \A s \in Session :
          /\ ident[s].pane \in iterm \union {NoWindow}
          /\ s \notin evicted /\ ident[s].pane # NoWindow => ident[s].tty = TtyOf[ident[s].pane]
          /\ at[s] # NoWindow => ident[s].pane \in {NoWindow, at[s]}

\* The daemon knows of the focus what the watcher saw or nothing; a pane it was
\* told of is not one whose tty another window has got while a session runs there.
Raw ==
    /\ raw \in {watched, Nowhere}
    /\ \E w \in Window \union {NoWindow} : watched = Line(w)
    /\ \A s \in Session :
          at[s] # NoWindow /\ raw.pane # NoWindow /\ TtyOf[raw.pane] = TtyOf[at[s]]
          => raw.pane = at[s]

LEMMA NextPanes ==
    ASSUME AlwaysFound
    PROVE  Rooms /\ Panes /\ [Next]_vars => Panes'
<1> SUFFICES ASSUME Rooms, Panes, [Next]_vars PROVE Panes'
  OBVIOUS
<1> USE DEF Rooms, Roster, WorldTypes
<1>1. ASSUME UNCHANGED <<at, iterm, ident, evicted>> PROVE Panes'
  BY <1>1 DEF Panes
<1>2. ASSUME NEW s \in Session, NEW w \in Window, NEW found \in Captures,
             NEW takes \in BOOLEAN, Report(s, w, found, takes)
      PROVE  Panes'
  <2> DEFINE robbed == Robbed(s, Capture(w, found))
  <2>1. /\ at' = [at EXCEPT ![s] = w] /\ iterm' = iterm
        /\ ident'[s].tty = TtyOf[w]
        /\ ident'[s].pane = IF w \in iterm THEN w ELSE ident[s].pane
        /\ \A o \in Session \ {s} :
              /\ ident'[o].pane = ident[o].pane
              /\ ident[o].tty # TtyOf[w] => ident'[o] = ident[o]
        /\ evicted' = (evicted \union robbed) \ {s}
        /\ robbed = {o \in Session \ {s} : ident[o].tty = TtyOf[w]}
    BY <1>2, ReportClaims
  <2> HIDE DEF robbed
  <2> SUFFICES ASSUME NEW o \in Session
               PROVE  /\ ident'[o].pane \in iterm' \union {NoWindow}
                      /\ o \notin evicted' /\ ident'[o].pane # NoWindow
                            => ident'[o].tty = TtyOf[ident'[o].pane]
                      /\ at'[o] # NoWindow => ident'[o].pane \in {NoWindow, at'[o]}
    BY <2>1 DEF Panes
  <2>2. CASE o = s
    <3>1. at'[s] = w /\ ident'[s].pane \in {w, NoWindow} /\ (ident'[s].pane = w => w \in iterm)
      BY <2>1, ConstantsAssumption DEF Panes
    <3> QED BY <2>1, <2>2, <3>1
  <2>3. CASE o # s
    BY <2>1, <2>3 DEF Panes
  <2> QED BY <2>2, <2>3
<1>3. ASSUME NEW s \in Session, End(s) PROVE Panes'
  <2>1. /\ at' = [at EXCEPT ![s] = NoWindow] /\ iterm' = iterm
        /\ ident' = [ident EXCEPT ![s] = Nowhere] /\ evicted' = evicted \ {s}
    BY <1>3 DEF End
  <2> QED BY <2>1 DEF Panes, Claims, Nowhere
<1>4. ASSUME NEW s \in Session, Die(s) PROVE Panes'
  BY <1>4 DEF Die, registry, Panes
<1>5. ASSUME Restart PROVE Panes'
  BY <1>5 DEF Restart, world, Panes, Nowhere
<1>6. ASSUME NEW w \in Window, CloseWindow(w) PROVE Panes'
  BY <1>6 DEF CloseWindow, registry, Panes
<1>7. ASSUME NEW w \in Window \union {NoWindow}, OpenWindow(w) \/ MoveFocus(w) PROVE Panes'
  BY <1>1, <1>7 DEF OpenWindow, MoveFocus, registry
<1>8. ASSUME NEW s \in Session, NEW takes \in BOOLEAN, Submit(s, takes) PROVE Panes'
  BY <1>1, <1>8 DEF Submit, world
<1>9. ASSUME NEW s \in Session, Talk(s) \/ Jump(s) PROVE Panes'
  BY <1>1, <1>9 DEF Talk, Jump, world
<1>10. ASSUME OsFocus \/ Save PROVE Panes'
  BY <1>1, <1>10 DEF OsFocus, Save, world, registry
<1>11. ASSUME UNCHANGED vars PROVE Panes'
  BY <1>1, <1>11 DEF vars, world, registry
<1> QED
  BY <1>2, <1>3, <1>4, <1>5, <1>6, <1>7, <1>8, <1>9, <1>10, <1>11 DEF Next

\* A session reports from where it was or from the window in front, which the
\* watcher has seen.
LEMMA NextRaw ==
    ASSUME AlwaysFound
    PROVE  Rooms /\ Raw /\ [Next]_vars => Raw'
<1> SUFFICES ASSUME Rooms, Raw, [Next]_vars PROVE Raw'
  OBVIOUS
<1> USE DEF Rooms, Roster, WorldTypes
<1>1. ASSUME NEW w \in Window \union {NoWindow}, iterm' = iterm PROVE Line(w)' = Line(w)
  BY <1>1 DEF Line
<1>2. ASSUME UNCHANGED <<iterm, raw, watched>>,
             \A s \in Session : at'[s] \in {NoWindow, at[s]}
      PROVE  Raw'
  BY <1>1, <1>2 DEF Raw
<1>3. ASSUME NEW s \in Session, NEW w \in Window, NEW found \in Captures,
             NEW takes \in BOOLEAN, Report(s, w, found, takes)
      PROVE  Raw'
  <2>1. /\ at' = [at EXCEPT ![s] = w] /\ UNCHANGED <<iterm, raw, watched>>
        /\ at[s] = w \/ watched = Line(w)
    BY <1>3, ReportClaims
  <2>2. w # NoWindow
    BY ConstantsAssumption
  <2>3. ASSUME raw.pane # NoWindow, TtyOf[raw.pane] = TtyOf[w] PROVE raw.pane = w
    <3>1. CASE at[s] = w
      BY <2>2, <2>3, <3>1 DEF Raw
    <3>2. CASE watched = Line(w)
      BY <2>2, <2>3, <3>2 DEF Raw, Line, Nowhere
    <3> QED BY <2>1, <3>1, <3>2
  <2>4. ASSUME NEW o \in Session, at'[o] # NoWindow, raw.pane # NoWindow,
               TtyOf[raw.pane] = TtyOf[at'[o]]
        PROVE  raw.pane = at'[o]
    <3>1. CASE o = s
      BY <2>1, <2>3, <2>4, <3>1
    <3>2. CASE o # s
      BY <2>1, <2>4, <3>2 DEF Raw
    <3> QED BY <3>1, <3>2
  <2> QED BY <1>1, <2>1, <2>4 DEF Raw
<1>4. ASSUME OsFocus PROVE Raw'
  <2>1. /\ raw' = Line(front) /\ watched' = Line(front)
        /\ UNCHANGED <<at, iterm>>
    BY <1>4 DEF OsFocus, world
  <2>2. \E w \in Window \union {NoWindow} : watched' = Line(w)'
    <3>1. front \in Window \union {NoWindow} /\ watched' = Line(front)
      BY <2>1
    <3>2. PICK w \in Window \union {NoWindow} : w = front
      BY <3>1
    <3>3. Line(w)' = Line(w)
      BY <1>1, <2>1
    <3> QED BY <3>1, <3>2, <3>3
  <2>3. ASSUME NEW s \in Session, at'[s] # NoWindow, raw'.pane # NoWindow,
               TtyOf[raw'.pane] = TtyOf[at'[s]]
        PROVE  raw'.pane = at'[s]
    <3>1. raw'.pane = front /\ front # NoWindow
      BY <2>1, <2>3 DEF Line, Nowhere
    <3>2. window[front] = "open" /\ window[at[s]] = "open"
      BY <2>1, <2>3, <3>1 DEF Windows, Homes
    <3>3. front \in Window /\ at[s] \in Window
      BY <2>1, <2>3, <3>1
    <3> QED BY <2>1, <2>3, <3>1, <3>2, <3>3 DEF Windows
  <2> QED BY <2>1, <2>2, <2>3 DEF Raw
<1>5. ASSUME Restart PROVE Raw'
  <2>1. raw' = Nowhere /\ UNCHANGED <<iterm, watched>>
    BY <1>5 DEF Restart, world
  <2>2. Nowhere.pane = NoWindow
    BY DEF Nowhere
  <2> QED BY <1>1, <2>1, <2>2 DEF Raw
<1>6. ASSUME NEW s \in Session, End(s) \/ Die(s) PROVE Raw'
  BY <1>2, <1>6 DEF End, Die, registry
<1>7. ASSUME NEW w \in Window, CloseWindow(w) PROVE Raw'
  BY <1>2, <1>7 DEF CloseWindow, registry
<1>8. ASSUME NEW w \in Window \union {NoWindow}, OpenWindow(w) \/ MoveFocus(w) PROVE Raw'
  BY <1>2, <1>8 DEF OpenWindow, MoveFocus, registry
<1>9. ASSUME NEW s \in Session, NEW takes \in BOOLEAN, Submit(s, takes) PROVE Raw'
  BY <1>2, <1>9 DEF Submit, world
<1>10. ASSUME NEW s \in Session, Talk(s) \/ Jump(s) PROVE Raw'
  BY <1>2, <1>10 DEF Talk, Jump, world
<1>11. ASSUME Save \/ UNCHANGED vars PROVE Raw'
  BY <1>2, <1>11 DEF Save, vars, world, registry
<1> QED
  BY <1>3, <1>4, <1>5, <1>6, <1>7, <1>8, <1>9, <1>10, <1>11 DEF Next

\* Who claims what has the keyboard, and was not evicted, is one session.
LEMMA OneClaimant ==
    ASSUME Claims, Panes, Raw,
           NEW s \in Session \ evicted, NEW o \in Session \ evicted,
           Matches(ident[s], raw), Matches(ident[o], raw)
    PROVE  s = o
<1>1. raw.tty = NoTty \/ raw.pane = NoWindow
  BY DEF Raw, Line, Nowhere
<1>2. CASE raw.pane = NoWindow
  BY <1>2 DEF Matches, Claims, ExclusiveTty
<1>3. CASE raw.pane # NoWindow
  <2>1. ident[s].pane = raw.pane /\ ident[o].pane = raw.pane
    BY <1>1, <1>3 DEF Matches
  <2>2. raw.pane \in Window
    BY <1>3, <2>1 DEF Panes
  <2>3. ident[s].tty = TtyOf[raw.pane] /\ ident[o].tty = TtyOf[raw.pane]
    BY <1>3, <2>1 DEF Panes
  <2> QED BY <2>2, <2>3, ConstantsAssumption DEF Claims, ExclusiveTty
<1> QED BY <1>2, <1>3

-----------------------------------------------------------------------------
\* The focus after a claim: it stays, moves with the tty, or is found at last.
LEMMA ReportFocus ==
    ASSUME AlwaysFound, Rooms, Panes, Raw, Raw', PinAtFocus, FocusNotLost,
           NEW s \in Session, NEW w \in Window, NEW found \in Captures, NEW takes \in BOOLEAN,
           Report(s, w, found, takes)
    PROVE  PinAtFocus' /\ FocusNotLost'
<1> USE DEF Rooms, Roster
<1> DEFINE id     == Capture(w, found)
           robbed == Robbed(s, id)
           order  == IF s \in Range(known) THEN known ELSE Append(known, s)
           held   == PinAfterEviction(s, id)
           C      == Claimants(raw, ident') \ evicted'
           hit    == Resolved(raw, ident', order, evicted')
<1>1. /\ at' = [at EXCEPT ![s] = w] /\ UNCHANGED <<iterm, raw, watched>>
      /\ at[s] = w \/ (at[s] = NoWindow /\ front = w /\ watched = Line(w))
      /\ TtyOf[w] # NoTty /\ ident'[s].tty = TtyOf[w]
      /\ ident'[s].pane = IF w \in iterm THEN w ELSE ident[s].pane
      /\ \A o \in Session \ {s} : ident[o].tty # TtyOf[w] => ident'[o] = ident[o]
      /\ evicted' = (evicted \union robbed) \ {s}
      /\ robbed = {o \in Session \ {s} : ident[o].tty = TtyOf[w]}
  BY ReportClaims
<1>2. /\ known' = order
      /\ pin' = IF Unresolved(held) THEN hit ELSE held
      /\ held = IF pin \in robbed THEN s ELSE pin
  BY DEF Report, SetIdentity, PinAfterEviction
<1>3. /\ Range(known') \intersect C = {} => hit = NoSession
      /\ Range(known') \intersect C # {} => hit \in Range(known') \intersect C
  <2>1. known' \in Seq(Session)
    BY NextRing DEF Ring, Next
  <2> QED BY <1>2, <2>1, ResolvedKnown
<1>4. w # NoWindow /\ NoSession \notin Session /\ pin \in Session \union {NoSession}
  BY ConstantsAssumption DEF Ring, Registered
<1>5. raw.tty # NoTty => raw.pane = NoWindow
  BY DEF Raw, Line, Nowhere
<1> HIDE DEF id, robbed, order, held, hit
<1>6. ASSUME pin' # NoSession PROVE pin' \notin evicted' /\ Matches(ident'[pin'], raw)
  <2>1. CASE Unresolved(held)
    BY <1>2, <1>3, <1>6, <2>1 DEF Claimants
  <2>2. CASE ~ Unresolved(held) /\ pin \in robbed
    <3>1. pin \in Session \ {s} /\ pin \notin evicted /\ ident[pin].tty = TtyOf[w]
          /\ Matches(ident[pin], raw) /\ pin' = s /\ s \notin evicted'
      BY <1>1, <1>2, <1>4, <2>2 DEF PinAtFocus
    <3>2. CASE raw.tty # NoTty
      BY <1>1, <1>5, <3>1, <3>2 DEF Matches
    <3>3. CASE raw.tty = NoTty
      <4>1. raw.pane # NoWindow /\ ident[pin].pane = raw.pane
        BY <3>1, <3>3 DEF Matches
      <4>2. TtyOf[raw.pane] = TtyOf[w] /\ iterm = Window
        BY <3>1, <4>1 DEF Panes
      <4>3. raw.pane = w
        BY <1>1, <1>4, <4>1, <4>2 DEF Raw, WorldTypes
      <4> QED BY <1>1, <3>1, <4>1, <4>2, <4>3 DEF Matches
    <3> QED BY <3>2, <3>3
  <2>3. CASE ~ Unresolved(held) /\ pin \notin robbed /\ pin # s
    <3>1. pin' = pin /\ pin \in Session \ {s} /\ pin \notin evicted /\ Matches(ident[pin], raw)
      BY <1>2, <1>4, <1>6, <2>3 DEF PinAtFocus
    <3>2. ident'[pin] = ident[pin] /\ pin \notin evicted'
      BY <1>1, <2>3, <3>1
    <3> QED BY <3>1, <3>2
  <2>4. CASE ~ Unresolved(held) /\ pin \notin robbed /\ pin = s
    <3>1. pin' = s /\ s \notin evicted /\ s \notin evicted' /\ Matches(ident[s], raw)
      BY <1>1, <1>2, <1>4, <2>4 DEF PinAtFocus
    <3>2. CASE raw.tty # NoTty
      <4>1. ident[s].tty = raw.tty
        BY <1>5, <3>1, <3>2 DEF Matches
      <4>2. raw.tty = TtyOf[w]
        <5>1. CASE at[s] = w
          BY <1>4, <3>2, <4>1, <5>1 DEF Homes
        <5>2. CASE watched = Line(w)
          BY <1>4, <3>2, <5>2 DEF Raw, Line, Nowhere
        <5> QED BY <1>1, <5>1, <5>2
      <4> QED BY <1>1, <3>1, <3>2, <4>2 DEF Matches
    <3>3. CASE raw.tty = NoTty
      <4>1. raw.pane # NoWindow /\ ident[s].pane = raw.pane
        BY <3>1, <3>3 DEF Matches
      <4>2. iterm = Window
        BY <4>1 DEF Panes
      <4>3. raw.pane = w
        <5>1. CASE at[s] = w
          BY <1>4, <4>1, <5>1 DEF Panes
        <5>2. CASE watched = Line(w)
          BY <1>4, <4>1, <5>2 DEF Raw, Line, Nowhere
        <5> QED BY <1>1, <5>1, <5>2
      <4> QED BY <1>1, <3>1, <4>1, <4>2, <4>3 DEF Matches
    <3> QED BY <3>2, <3>3
  <2> QED BY <2>1, <2>2, <2>3, <2>4
<1>7. ASSUME pin' = NoSession, NEW o \in Range(known'), o \notin evicted'
      PROVE  ~ Matches(ident'[o], raw)
  <2>1. o \in Session
    BY <1>7, NextRing DEF Next, Ring, Range
  <2>2. CASE raw = Nowhere
    BY <2>2 DEF Matches, Nowhere
  <2>3. CASE raw # Nowhere
    <3>1. held = NoSession /\ hit = NoSession
      BY <1>2, <1>7, <2>3 DEF Unresolved
    <3>2. o \notin C
      BY <1>3, <1>4, <1>7, <2>1, <3>1 DEF Claimants
    <3> QED BY <1>7, <2>1, <3>2 DEF Claimants
  <2> QED BY <2>2, <2>3
<1> QED BY <1>1, <1>6, <1>7 DEF PinAtFocus, FocusNotLost

LEMMA NextFocus ==
    ASSUME AlwaysFound
    PROVE  Rooms /\ Panes /\ Raw /\ Raw' /\ PinAtFocus /\ FocusNotLost /\ [Next]_vars
           => PinAtFocus' /\ FocusNotLost'
<1> SUFFICES ASSUME Rooms, Panes, Raw, Raw', PinAtFocus, FocusNotLost, [Next]_vars
             PROVE  PinAtFocus' /\ FocusNotLost'
  OBVIOUS
<1>1. ASSUME UNCHANGED <<ident, evicted, known, pin, raw>> PROVE PinAtFocus' /\ FocusNotLost'
  BY <1>1 DEF PinAtFocus, FocusNotLost
<1>2. ASSUME NEW s \in Session, NEW w \in Window, NEW found \in Captures,
             NEW takes \in BOOLEAN, Report(s, w, found, takes)
      PROVE  PinAtFocus' /\ FocusNotLost'
  BY <1>2, ReportFocus
<1>3. ASSUME NEW s \in Session, End(s) PROVE PinAtFocus' /\ FocusNotLost'
  <2>1. /\ ident' = [ident EXCEPT ![s] = Nowhere] /\ evicted' = evicted \ {s}
        /\ known' = RemoveFirst(known, s) /\ raw' = raw
        /\ pin' = IF pin = s THEN NoSession ELSE pin
    BY <1>3 DEF End
  <2>2. Range(known') = Range(known) \ {s} /\ Range(known) \subseteq Session
    BY <2>1, RemovedOnce DEF Rooms, Roster, Ring, Registered
  <2>3. \A o \in Session \ {s} : ident'[o] = ident[o]
    BY <2>1 DEF Rooms, Claims
  <2>4. pin \in Session \union {NoSession}
    BY DEF Rooms, Roster, Ring, Registered
  <2>5. PinAtFocus'
    BY <2>1, <2>3, <2>4 DEF PinAtFocus
  <2>6. ASSUME pin' = NoSession, NEW o \in Range(known'), o \notin evicted'
        PROVE  ~ Matches(ident'[o], raw)
    <3>1. o \in Session \ {s} /\ o \in Range(known) /\ o \notin evicted
      BY <2>1, <2>2, <2>6
    <3>2. CASE pin = NoSession
      BY <2>3, <3>1, <3>2 DEF FocusNotLost
    <3>3. CASE pin = s /\ pin # NoSession
      <4>1. s \notin evicted /\ Matches(ident[s], raw)
        BY <3>3 DEF PinAtFocus
      <4> QED BY <2>3, <3>1, <4>1, OneClaimant DEF Rooms
    <3> QED BY <2>1, <2>6, <3>2, <3>3
  <2> QED BY <2>1, <2>5, <2>6 DEF FocusNotLost
<1>4. ASSUME OsFocus PROVE PinAtFocus' /\ FocusNotLost'
  <2> DEFINE C == Claimants(raw', ident) \ evicted
             hit == Resolved(raw', ident, known, evicted)
  <2>1. /\ UNCHANGED <<ident, evicted, known>>
        /\ pin' = IF raw' = Nowhere THEN NoSession ELSE hit
    BY <1>4 DEF OsFocus, Pinned
  <2>2. /\ Range(known) \intersect C = {} => hit = NoSession
        /\ Range(known) \intersect C # {} => hit \in Range(known) \intersect C
    BY ResolvedKnown DEF Rooms, Roster, Ring
  <2>3. Range(known) \subseteq Session /\ NoSession \notin Session
    BY ConstantsAssumption DEF Rooms, Roster, Ring, Registered
  <2> HIDE DEF hit
  <2>4. CASE raw' = Nowhere
    BY <2>1, <2>4 DEF PinAtFocus, FocusNotLost, Matches, Nowhere
  <2>5. CASE raw' # Nowhere
    BY <2>1, <2>2, <2>3, <2>5 DEF PinAtFocus, FocusNotLost, Claimants
  <2> QED BY <2>4, <2>5
<1>5. ASSUME Restart PROVE PinAtFocus' /\ FocusNotLost'
  BY <1>5 DEF Restart, PinAtFocus, FocusNotLost, Range
<1>6. ASSUME NEW s \in Session, NEW takes \in BOOLEAN, Submit(s, takes)
      PROVE  PinAtFocus' /\ FocusNotLost'
  BY <1>1, <1>6 DEF Submit
<1>7. ASSUME NEW s \in Session, Talk(s) \/ Jump(s) \/ Die(s) PROVE PinAtFocus' /\ FocusNotLost'
  BY <1>1, <1>7 DEF Talk, Jump, Die, registry
<1>8. ASSUME NEW w \in Window \union {NoWindow}, OpenWindow(w) \/ CloseWindow(w) \/ MoveFocus(w)
      PROVE  PinAtFocus' /\ FocusNotLost'
  BY <1>1, <1>8 DEF OpenWindow, CloseWindow, MoveFocus, registry
<1>9. ASSUME Save \/ UNCHANGED vars PROVE PinAtFocus' /\ FocusNotLost'
  BY <1>1, <1>9 DEF Save, vars, registry
<1> QED BY <1>2, <1>3, <1>4, <1>5, <1>6, <1>7, <1>8, <1>9 DEF Next

LEMMA FocusInvariant ==
    ASSUME AlwaysFound, OneProgram
    PROVE  Spec => [](Rooms /\ Panes /\ Raw /\ PinAtFocus /\ FocusNotLost)
<1>1. Init => Panes /\ Raw /\ PinAtFocus /\ FocusNotLost
  <2> SUFFICES ASSUME Init PROVE Panes /\ Raw /\ PinAtFocus /\ FocusNotLost
    OBVIOUS
  <2>1. Panes
    BY DEF Init, Panes, OneProgram, Nowhere
  <2>2. Raw
    BY DEF Init, Raw, Line, Nowhere
  <2>3. PinAtFocus /\ FocusNotLost
    BY DEF Init, PinAtFocus, FocusNotLost, Range
  <2> QED BY <2>1, <2>2, <2>3
<1>2. Rooms /\ Panes /\ [Next]_vars => Panes'
  BY NextPanes
<1>3. Rooms /\ Raw /\ [Next]_vars => Raw'
  BY NextRaw
<1>4. Rooms /\ Panes /\ Raw /\ Raw' /\ PinAtFocus /\ FocusNotLost /\ [Next]_vars
      => PinAtFocus' /\ FocusNotLost'
  BY NextFocus
<1> QED BY <1>1, <1>2, <1>3, <1>4, RoomsInvariant, PTL DEF Spec

\* When a hook always finds its tty and the user's windows are all of one
\* terminal program, who has the keyboard is known whenever it can be, and it is
\* nobody else: for every number of sessions and windows, however the ttys are
\* handed out again, sessions die, move and are restarted.
THEOREM FocusSoundHolds ==
    ASSUME AlwaysFound, OneProgram PROVE Spec => []FocusSound
<1>1. Rooms /\ Panes /\ Raw /\ PinAtFocus => PinIsThere
  <2> SUFFICES ASSUME Rooms, Panes, Raw, PinAtFocus, NEW s \in Session,
                      pin # NoSession, s \notin evicted, Matches(ident[s], raw)
               PROVE  pin = s
    BY DEF PinIsThere
  <2>1. pin \in Session \ evicted /\ Matches(ident[pin], raw)
    BY DEF PinAtFocus, Rooms, Roster, Ring, Registered
  <2> QED BY <2>1, OneClaimant DEF Rooms
<1>2. FocusSound <=> PinAtFocus /\ FocusNotLost /\ PinIsThere
  BY DEF FocusSound
<1> QED BY <1>1, <1>2, FocusInvariant, PTL
=============================================================================
