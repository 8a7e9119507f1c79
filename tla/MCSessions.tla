----------------------------- MODULE MCSessions -----------------------------
(* Three windows and two ttys, which are handed out again; the user has one
   terminal program, Terminal or iTerm. *)
EXTENDS Sessions, TLC

CONSTANTS a, b, w1, w2, w3, t1, t2

MCSession == {a, b}
MCWindow == {w1, w2, w3}
MCTty == {t1, t2}
MCTtyOf == w1 :> t1 @@ w2 :> t2 @@ w3 :> t2

TerminalOrITerm == {{}, MCWindow}
TerminalOnly == {{}}

Found == {TRUE}

SessionSymmetry == Permutations(Session)
=============================================================================
