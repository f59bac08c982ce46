-------------------------- MODULE MCLinearIngress --------------------------
(* LinearIngress for TLC: an event with a retry and a prompt by somebody   *)
(* else, each with a delivery id of its own, and copies of their bodies     *)
(* under either; two requests at a time.                                    *)
EXTENDS LinearIngress, TLC

CONSTANTS e1, e2, b1, b2, b3, d1, d2, a1, a2

Fact(c, act, cr, au) == [consistent |-> c, action |-> act, creator |-> cr, author |-> au]

MCEvents == {e1, e2}
MCFacts == e1 :> Fact(TRUE, "created", "allowed", "nobody")
        @@ e2 :> Fact(TRUE, "prompted", "allowed", "another")
MCBodies == {b1, b2, b3}
MCEventOf == b1 :> e1 @@ b2 :> e1 @@ b3 :> e2
MCDeliveries == {d1, d2}
MCDeliveryOf == e1 :> d1 @@ e2 :> d2
MCSlots == {a1, a2}
=============================================================================
