------------------------------ MODULE Sessions ------------------------------
(***************************************************************************)
(* sessions.py: which session is in which terminal, which of them has the   *)
(* keyboard, and the numbers they are called by; with the focus watcher of  *)
(* sonari-hotkeyd.swift, which reports a focus only when it changed, and    *)
(* with the windows, whose ttys the system hands out again.                 *)
(*                                                                          *)
(* Folder names, the announce flag and the voice pointer are left out;      *)
(* whether a submit takes the voice (Policy A) is an input here.            *)
(***************************************************************************)
EXTENDS Naturals, Sequences, FiniteSets, SequencesExt

CONSTANTS
    Session, Window,
    Tty,          \* the tty devices
    TtyOf,        \* the tty of each window
    Programs,     \* the choices of windows that are iTerm panes; the others
                  \* are Terminal's
    NoSession, NoWindow, NoTty,
    Captures,     \* whether finding the tty may succeed, fail, or both
    MaxRestarts   \* bound: restarts of the daemon

ASSUME ConstantsAssumption ==
    /\ IsFiniteSet(Session)
    /\ Programs \subseteq SUBSET Window
    /\ TtyOf \in [Window -> Tty]
    /\ Captures \subseteq BOOLEAN
    /\ NoSession \notin Session /\ NoWindow \notin Window /\ NoTty \notin Tty
    /\ MaxRestarts \in Nat

VARIABLES
    number,       \* _numbers, 0 for a session that is not registered
    ident,        \* _identities: claims of a tty and an iTerm pane
    known,        \* keys of _identities, in insertion order
    evicted,      \* _tty_evicted
    provisional,  \* _provisional
    mru,          \* _mru
    foreground,   \* _foreground
    pin,          \* _os_focused_session
    raw,          \* _os_focus_raw
    saved,        \* the numbers in the state file
    at,           \* the window each session's process runs in
    window,       \* the life of each window
    front,        \* the window that has the keyboard
    iterm,        \* the windows that are iTerm panes
    watched,      \* lastFocusLine of the watcher
    restarts

registry == <<number, ident, known, evicted, provisional, mru, foreground, pin, raw>>
world    == <<at, window, front, iterm>>
vars     == <<registry, saved, world, watched, restarts>>

Nowhere == [tty |-> NoTty, pane |-> NoWindow]

\* What the watcher reads of a window, and what a hook reads of its own.
Line(w) ==
    IF w = NoWindow THEN Nowhere
    ELSE IF w \in iterm THEN [tty |-> NoTty, pane |-> w]
    ELSE [tty |-> TtyOf[w], pane |-> NoWindow]

Capture(w, found) ==
    [tty  |-> IF found THEN TtyOf[w] ELSE NoTty,
     pane |-> IF w \in iterm THEN w ELSE NoWindow]

Registered == {s \in Session : number[s] # 0}

Init ==
    /\ number = [s \in Session |-> 0] /\ saved = [s \in Session |-> 0]
    /\ ident = [s \in Session |-> Nowhere] /\ known = <<>>
    /\ evicted = {} /\ provisional = {} /\ mru = <<>>
    /\ foreground = NoSession /\ pin = NoSession /\ raw = Nowhere
    /\ at = [s \in Session |-> NoWindow]
    /\ window = [w \in Window |-> "new"]
    /\ front = NoWindow /\ iterm \in Programs /\ watched = Nowhere
    /\ restarts = 0

-----------------------------------------------------------------------------
(* The registry's methods *)

Taken == {number[s] : s \in Session}

\* _record(): the lowest free number, once.
Record(s) ==
    IF number[s] # 0
    THEN UNCHANGED number
    ELSE \E n \in 1..Cardinality(Session) :
            /\ n \notin Taken
            /\ 1..(n - 1) \subseteq Taken
            /\ number' = [number EXCEPT ![s] = n]

\* _touch_mru()
Touched(s, recent) == <<s>> \o RemoveFirst(recent, s)

\* Mutant: a session that claimed a tty before is not robbed of it.
RobbedNewcomers(s, id) ==
    {o \in Session \ {s} : id.tty # NoTty /\ ident[o].tty = id.tty /\ ident[s].tty = NoTty}

\* The other claimants of the tty a session was just found on.
Robbed(s, id) ==
    {o \in Session \ {s} : id.tty # NoTty /\ ident[o].tty = id.tty}

\* Mutant: what was claimed before wins.
KeepOld(old, new) == IF old # NoTty THEN old ELSE new

KeepUnlessEmpty(old, new) == IF new # NoTty THEN new ELSE old

EvictedAfter(s, id) ==
    (evicted \union Robbed(s, id)) \ (IF id.tty # NoTty THEN {s} ELSE {})

Claimed(s, id) ==
    [o \in Session |->
        IF o = s
        THEN [tty  |-> KeepUnlessEmpty(ident[s].tty, id.tty),
              pane |-> IF id.pane # NoWindow THEN id.pane ELSE ident[s].pane]
        ELSE IF o \in Robbed(s, id) THEN [ident[o] EXCEPT !.tty = NoTty]
        ELSE ident[o]]

Matches(id, line) ==
    \/ line.tty # NoTty /\ id.tty = line.tty
    \/ line.pane # NoWindow /\ id.pane = line.pane

FirstOf(order, candidates) ==
    LET places == {i \in 1..Len(order) : order[i] \in candidates}
    IN  IF places = {} THEN NoSession ELSE order[Min(places)]

Claimants(line, ids) == {s \in Session : Matches(ids[s], line)}

\* _resolve_os_focus(): the first claimant, in the order of the identities.
Resolved(line, ids, order, out) == FirstOf(order, Claimants(line, ids) \ out)

\* Mutant: the focus stays with the session that lost the terminal.
PinKept(s, id) == pin

\* The focus moves with the tty.
PinAfterEviction(s, id) == IF pin \in Robbed(s, id) THEN s ELSE pin

Unresolved(p) == p = NoSession /\ raw # Nowhere

SetIdentity(s, id, recent) ==
    LET order == IF s \in Range(known) THEN known ELSE Append(known, s)
        held  == PinAfterEviction(s, id)
        found == Resolved(raw, Claimed(s, id), order, EvictedAfter(s, id))
    IN  /\ known' = order
        /\ ident' = Claimed(s, id)
        /\ evicted' = EvictedAfter(s, id)
        /\ pin' = IF Unresolved(held) THEN found ELSE held
        /\ mru' = IF Unresolved(held) /\ found # NoSession
                  THEN Touched(found, recent) ELSE recent

Workspace == IF pin \in Registered THEN pin ELSE foreground

TtyAlive(t) == \E w \in Window : TtyOf[w] = t /\ window[w] = "open"

Liveness(s) ==
    IF s \in provisional THEN "pending"
    ELSE IF s \in evicted THEN "dead"
    ELSE IF ident[s].tty # NoTty /\ ~ TtyAlive(ident[s].tty) THEN "dead"
    ELSE "live"

-----------------------------------------------------------------------------
(* Messages *)

\* SET_FOREGROUND and SESSION_START of a session without identity (the first
\* message of a session's start): takes tells Policy A's verdict.
Submit(s, takes) ==
    /\ at[s] # NoWindow
    /\ provisional' = provisional \ {s}
    /\ Record(s)
    /\ foreground' = IF takes THEN s ELSE foreground
    /\ mru' = IF takes THEN Touched(s, mru) ELSE mru
    /\ UNCHANGED <<ident, known, evicted, pin, raw, saved, world, watched, restarts>>

\* The same with identity: every prompt, and the second message of a start.  A
\* session is started by typing in the window that has the keyboard, which the
\* watcher, polling twice a second, has seen.
Report(s, w, found, takes) ==
    /\ \/ at[s] = w /\ UNCHANGED at
       \/ /\ at[s] = NoWindow /\ front = w /\ watched = Line(w)
          /\ at' = [at EXCEPT ![s] = w]
    /\ provisional' = provisional \ {s}
    /\ Record(s)
    /\ foreground' = IF takes THEN s ELSE foreground
    /\ SetIdentity(s, Capture(w, found), IF takes THEN Touched(s, mru) ELSE mru)
    /\ UNCHANGED <<raw, saved, window, front, iterm, watched, restarts>>

\* Any other message of a session, registered or not: clear_quarantine().
Talk(s) ==
    /\ at[s] # NoWindow /\ s \in provisional
    /\ provisional' = provisional \ {s}
    /\ UNCHANGED <<number, ident, known, evicted, mru, foreground, pin, raw,
                   saved, world, watched, restarts>>

MruWithout(s) == RemoveFirst(mru, s)

\* SESSION_END: unregister().
End(s) ==
    /\ at[s] # NoWindow
    /\ at' = [at EXCEPT ![s] = NoWindow]
    /\ number' = [number EXCEPT ![s] = 0]
    /\ ident' = [ident EXCEPT ![s] = Nowhere]
    /\ known' = RemoveFirst(known, s)
    /\ evicted' = evicted \ {s} /\ provisional' = provisional \ {s}
    /\ mru' = MruWithout(s)
    /\ foreground' = IF foreground = s THEN NoSession ELSE foreground
    /\ pin' = IF pin = s THEN NoSession ELSE pin
    /\ UNCHANGED <<raw, saved, window, front, iterm, watched, restarts>>

Pinned(line) == IF line = Nowhere THEN NoSession ELSE Resolved(line, ident, known, evicted)

\* pollFocus() sees another line than the last, and OS_FOCUS: set_os_focus().
OsFocus ==
    /\ Line(front) # watched
    /\ watched' = Line(front)
    /\ raw' = watched'
    /\ pin' = Pinned(watched')
    /\ mru' = IF pin' # NoSession THEN Touched(pin', mru) ELSE mru
    /\ UNCHANGED <<number, ident, known, evicted, provisional, foreground, saved, world,
                   restarts>>

\* focus(): jumps and chooser landings go to live sessions, navigation to the
\* workspace; a session that is not registered has a stream if it was heard.
Jump(s) ==
    /\ s \in Registered \/ at[s] # NoWindow
    /\ s = Workspace \/ Liveness(s) = "live"
    /\ Record(s)
    /\ foreground' = s
    /\ mru' = Touched(s, mru)
    /\ UNCHANGED <<ident, known, evicted, provisional, pin, raw, saved, world, watched,
                   restarts>>

-----------------------------------------------------------------------------
(* The state file: to_state(), and a restart by load_state() *)

Save ==
    /\ saved' = number
    /\ UNCHANGED <<registry, world, watched, restarts>>

\* kept: the saved sessions whose pile is not stale.
Restart ==
    /\ restarts < MaxRestarts
    /\ restarts' = restarts + 1
    /\ \E kept \in SUBSET {s \in Session : saved[s] # 0} :
         /\ number' = [s \in Session |-> IF s \in kept THEN saved[s] ELSE 0]
         /\ provisional' = kept
    /\ ident' = [s \in Session |-> Nowhere] /\ known' = <<>>
    /\ evicted' = {} /\ mru' = <<>>
    /\ foreground' = NoSession /\ pin' = NoSession /\ raw' = Nowhere
    /\ UNCHANGED <<saved, world, watched>>

-----------------------------------------------------------------------------
(* The world: windows, and processes that die without a word *)

\* A tty has one window at a time; an iTerm pane's id is never used again.
OpenWindow(w) ==
    /\ window[w] \in IF w \in iterm THEN {"new"} ELSE {"new", "closed"}
    /\ ~ TtyAlive(TtyOf[w])
    /\ window' = [window EXCEPT ![w] = "open"]
    /\ front' = w
    /\ UNCHANGED <<registry, saved, at, iterm, watched, restarts>>

CloseWindow(w) ==
    /\ window[w] = "open"
    /\ window' = [window EXCEPT ![w] = "closed"]
    /\ at' = [s \in Session |-> IF at[s] = w THEN NoWindow ELSE at[s]]
    /\ front' = IF front = w THEN NoWindow ELSE front
    /\ UNCHANGED <<registry, saved, iterm, watched, restarts>>

MoveFocus(w) ==
    /\ w \in {NoWindow} \union {v \in Window : window[v] = "open"}
    /\ w # front
    /\ front' = w
    /\ UNCHANGED <<registry, saved, at, window, iterm, watched, restarts>>

Die(s) ==
    /\ at[s] # NoWindow
    /\ at' = [at EXCEPT ![s] = NoWindow]
    /\ UNCHANGED <<registry, saved, window, front, iterm, watched, restarts>>

Next ==
    \/ \E s \in Session, w \in Window, found \in Captures, takes \in BOOLEAN :
          Report(s, w, found, takes)
    \/ \E s \in Session, takes \in BOOLEAN : Submit(s, takes)
    \/ \E s \in Session : Talk(s) \/ End(s) \/ Jump(s) \/ Die(s)
    \/ OsFocus \/ Save \/ Restart
    \/ \E w \in Window : OpenWindow(w) \/ CloseWindow(w)
    \/ \E w \in Window \union {NoWindow} : MoveFocus(w)

Spec == Init /\ [][Next]_vars

-----------------------------------------------------------------------------
(* Properties *)

Identity == [tty : Tty \union {NoTty}, pane : Window \union {NoWindow}]

TypeOK ==
    /\ number \in [Session -> 0..Cardinality(Session)]
    /\ saved \in [Session -> 0..Cardinality(Session)]
    /\ ident \in [Session -> Identity]
    /\ known \in Seq(Session) /\ IsInjective(known)
    /\ evicted \subseteq Session
    /\ provisional \subseteq Session
    /\ mru \in Seq(Session) /\ IsInjective(mru)
    /\ foreground \in Session \union {NoSession}
    /\ pin \in Session \union {NoSession}
    /\ raw \in Identity
    /\ at \in [Session -> Window \union {NoWindow}]
    /\ window \in [Window -> {"new", "open", "closed"}]
    /\ front \in Window \union {NoWindow}
    /\ iterm \subseteq Window
    /\ watched \in Identity
    /\ restarts \in Nat

\* A tty has one claimant, however terminals are closed and their devices handed
\* out again: nothing that is looked up by tty finds the wrong session.
ExclusiveTty ==
    \A s, o \in Session : s # o /\ ident[s].tty = ident[o].tty => ident[s].tty = NoTty

\* A session that lost its terminal claims none until it is heard from one.
EvictedHoldsNoTty == \A s \in evicted : ident[s].tty = NoTty

\* A number teleports to one session, before and after a restart, and whichever
\* of the restored sessions come back.
UniqueNumbers ==
    \A s, o \in Session : s # o =>
        /\ number[s] = number[o] => number[s] = 0
        /\ saved[s] = saved[o] => saved[s] = 0

\* A terminal and a number lead to one session each.
ClaimsExclusive == ExclusiveTty /\ EvictedHoldsNoTty /\ UniqueNumbers

\* What the chooser walks and the pointers point to is registered.
RingRegistered ==
    Range(mru) \union Range(known) \union ({foreground, pin} \ {NoSession}) \subseteq Registered

\* The session that has the keyboard claims the terminal in front.
PinAtFocus == pin # NoSession => pin \notin evicted /\ Matches(ident[pin], raw)

\* A focus that was reported before its session is found when the session is.
FocusNotLost ==
    pin = NoSession =>
        \A s \in Range(known) : s \notin evicted => ~ Matches(ident[s], raw)

\* When a session runs in the window in front and claims it, no session that
\* is elsewhere or gone has the keyboard ("the session whose terminal has OS
\* keyboard focus", focused_session).
PinIsThere ==
    \A s \in Session :
        /\ pin # NoSession /\ at[s] # NoWindow
        /\ Line(at[s]) = raw /\ s \notin evicted /\ Matches(ident[s], raw)
        => at[pin] = at[s]

\* "Never hide a live session" (tty_alive): a running session whose terminal
\* nobody else was found in is not called closed.
RunningNotDead ==
    \A s \in Session : at[s] # NoWindow /\ s \notin evicted => Liveness(s) # "dead"

\* Who has the keyboard is known whenever it can be, and it is nobody else.
FocusSound == PinAtFocus /\ FocusNotLost /\ PinIsThere

\* The roster holds who is there, and takes nobody who runs for closed.
RosterSound == TypeOK /\ RingRegistered /\ RunningNotDead

\* "Retained while a terminal stays focused" (_os_focus_raw): what the watcher
\* reported last and will not report again is what the daemon knows.
FocusRetained == raw = watched
=============================================================================
