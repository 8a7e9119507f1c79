------------------------------ MODULE OneVoice ------------------------------
(***************************************************************************)
(* What Speaker promises its callers, without the epoch, the locks or the   *)
(* processes: utterances take the one voice in turn, and the outcome a      *)
(* caller is told agrees with the cancels that arrived after the point from *)
(* which its utterance counts as cancellable.                               *)
(***************************************************************************)
CONSTANTS Thread,   \* callers of speak()
          Nobody    \* not a thread: the voice is free

VARIABLES voice,    \* the thread whose utterance owns the voice, or Nobody
          asked,    \* threads with a speak() outstanding
          armed,    \* of these, the ones a cancel now reaches
          cut,      \* of these, the ones a cancel has reached
          outcome   \* what each thread's last speak() told it

vars == <<voice, asked, armed, cut, outcome>>

Outcome == {"none", "done", "cut", "failed", "unspawned"}

Init ==
    /\ voice = Nobody
    /\ asked = {} /\ armed = {} /\ cut = {}
    /\ outcome = [t \in Thread |-> "none"]

\* A caller asks to speak; one that claimed its epoch is armed at once.
Ask(t) ==
    /\ t \notin asked
    /\ asked' = asked \union {t}
    /\ armed' \in {armed, armed \union {t}}
    /\ outcome' = [outcome EXCEPT ![t] = "none"]
    /\ UNCHANGED <<voice, cut>>

TakeVoice(t) ==
    /\ t \in asked /\ voice = Nobody
    /\ voice' = t
    /\ UNCHANGED <<asked, armed, cut, outcome>>

Arm(t) ==
    /\ voice = t
    /\ armed' = armed \union {t}
    /\ UNCHANGED <<voice, asked, cut, outcome>>

Cancel ==
    /\ cut' = cut \union armed
    /\ UNCHANGED <<voice, asked, armed, outcome>>

\* The promise: "cut" only to a caller a cancel reached, and a broken audio
\* path ("failed") is never reported to one that was cancelled.
Conclude(t, o) ==
    /\ t \in asked
    /\ voice \in {t} \/ o = "unspawned"
    /\ o = "cut" => t \in cut
    /\ o = "failed" => t \notin cut
    /\ voice' = IF voice = t THEN Nobody ELSE voice
    /\ asked' = asked \ {t} /\ armed' = armed \ {t} /\ cut' = cut \ {t}
    /\ outcome' = [outcome EXCEPT ![t] = o]

Next ==
    \/ Cancel
    \/ \E t \in Thread : \/ Ask(t) \/ TakeVoice(t) \/ Arm(t)
                         \/ \E o \in Outcome \ {"none"} : Conclude(t, o)

Spec == Init /\ [][Next]_vars
=============================================================================
