--------------------------- MODULE MCRunLifecycle ---------------------------
(* RunLifecycle with its control turns, for TLC: two gated calls in sequence, *)
(* a continuation for each and one more, two decision requests that race on   *)
(* one call or serve one each, and two control turns that race to undo.  With *)
(* a resume sent twice: three calls, three requests, no control turn.         *)
EXTENDS ControlTurn, TLC

CONSTANTS i1, i2, i3, k1, k2, k3, d1, d2, d3, u1, u2

MCInvocations == {i1, i2, i3}
MCCalls == {k1, k2}
MCThreeCalls == {k1, k2, k3}
MCDeciders == {d1, d2}
MCThreeDeciders == {d1, d2, d3}
MCUndoers == {u1, u2}
MCNoUndoers == {}
=============================================================================
