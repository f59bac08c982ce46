----------------------------- MODULE MCTaskUndo -----------------------------
(* TaskUndo for TLC: two runs over two or three tasks with one field value   *)
(* besides the pointer.  MaxEvents bounds the events the runs log before     *)
(* their undos, which are not bounded.                                       *)
EXTENDS TaskUndo, TLC

CONSTANTS t1, t2, t3, v1, v2, r1, r2

MCTwoTasks == {t1, t2}
MCTasks == {t1, t2, t3}
MCValues == {v1, v2}
MCOneValue == {v1}
MCRuns == {r1, r2}
\* The runs play the same part and so do the values; tasks do not, because the
\* cascade is logged in some fixed order.
MCSymmetry == Permutations(MCRuns) \cup Permutations(MCValues)
=============================================================================
