--------------------------- MODULE MCLinearInbox ---------------------------
(* LinearInbox for TLC: two workers, a session with two prompts and another  *)
(* whose stop signal arrives between them; or one session with two prompts.  *)
EXTENDS LinearInbox, TLC

CONSTANTS s1, s2, w1, w2

MCRows == 1 .. 3
MCTwoRows == 1 .. 2
MCSessions == {s1, s2}
MCSessionOf == 1 :> s1 @@ 2 :> s2 @@ 3 :> s1
MCOneSession == [r \in MCTwoRows |-> s1]
MCNoSignals == {}
MCSignals == {2}
MCOneWorker == {w1}
MCWorkers == {w1, w2}
=============================================================================
