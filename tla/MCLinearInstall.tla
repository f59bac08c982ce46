-------------------------- MODULE MCLinearInstall --------------------------
(* LinearInstall for TLC: two callbacks over two states, two workers.       *)
EXTENDS LinearInstall, TLC

CONSTANTS c1, c2, o1, o2, w1, w2

MCCallbacks == {c1, c2}
MCStates == {o1, o2}
MCWorkers == {w1, w2}
=============================================================================
