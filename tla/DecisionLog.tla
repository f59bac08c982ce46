---------------------------- MODULE DecisionLog ----------------------------
(***************************************************************************)
(* What durable ingress promises of one identity of a delivery, its        *)
(* Linear-Delivery or its signed body: one unit of work or one refusal,    *)
(* decided once and never again.  Source: the docstrings of                *)
(* accept_agent_session_event and _classify_conflict in                    *)
(* app/linear_agent.py.                                                    *)
(***************************************************************************)
CONSTANT Identities

VARIABLE recorded  \* the inbox rows that bear each identity

Init == recorded = [d \in Identities |-> {}]

\* "The commit is the acknowledgement."
Record(d) == /\ recorded[d] = {}
             /\ \E u \in recorded'[d] : recorded' = [recorded EXCEPT ![d] = {u}]

Next == \E d \in Identities : Record(d)

Spec == Init /\ [][Next]_recorded
=============================================================================
