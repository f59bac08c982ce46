--------------------------- MODULE LinearIngress ---------------------------
(***************************************************************************)
(* The webhook's durable ingress: overlapping deliveries, redeliveries and *)
(* replays of agent-session events, each decided in one transaction of     *)
(* accept_agent_session_event that commits before the route answers 200.   *)
(*                                                                         *)
(* Source: post_linear_webhook of app/main.py, app/linear_agent.py and the *)
(* inbox statements of app/sql.py.  The route awaits the body and hands    *)
(* the transaction to a thread, so the transactions overlap; an INSERT     *)
(* that meets an uncommitted row of the same identity waits for it.        *)
(*                                                                         *)
(* A body is signed, so it fixes its event.  Linear keeps an event's       *)
(* delivery id across retries and signs a new body each time; it may have  *)
(* used the id before for another event.  The delivery id is a header the  *)
(* signature does not cover: a signed body may come under any id.          *)
(***************************************************************************)
EXTENDS Naturals, FiniteSets

CONSTANTS Events, Facts,          \* what the body of an event says
          Bodies, EventOf,
          Deliveries, DeliveryOf, \* the Linear-Delivery of an event
          Slots, NoRow,           \* requests in progress
          MaxFailures             \* bound on crashes, errors and lost answers

Actions == {"created", "prompted", "other"}
Humans == {"allowed", "another", "nobody"}

ASSUME IngressAssumption ==
  /\ Facts \in [Events -> [consistent : BOOLEAN, action : Actions,
                           creator : Humans, author : Humans]]
  /\ EventOf \in [Bodies -> Events]
  /\ DeliveryOf \in [Events -> Deliveries]
  /\ MaxFailures \in Nat

VARIABLES
  installed,  \* an ACTIVE installation the events name
  inbox,      \* the committed rows of linear_agent_inbox
  pc, req,    \* the requests
  failures

vars == <<installed, inbox, pc, req, failures>>

Refusals == {"identity_mismatch", "inactive_installation",
             "unsupported_action", "missing_creator", "unauthorized_human"}
Decisions == {"pending"} \cup Refusals
Conflicts == {"inserted", "duplicate", "body_replay", "identity_conflict"}

Rows == [delivery : Deliveries, body : Bodies, status : Decisions]
PCs == {"idle", "verify", "select", "insert", "classify", "commit", "respond"}

TypeOK ==
  /\ installed \in BOOLEAN
  /\ inbox \subseteq Rows
  /\ pc \in [Slots -> PCs]
  /\ \A a \in Slots : pc[a] # "idle" =>
       req[a] \in [row : Rows, late : BOOLEAN, outcome : Conflicts]
  /\ failures \in 0 .. MaxFailures

NoReq == [row |-> NoRow, late |-> FALSE, outcome |-> "inserted"]

Init ==
  /\ installed \in BOOLEAN
  /\ inbox = {}
  /\ pc = [a \in Slots |-> "idle"]
  /\ req = [a \in Slots |-> NoReq]
  /\ failures = 0

----------------------------------------------------------------------------
(* Helpers                                                                 *)

\* A refusal without its reason.
Decision_NoReason(f, active) ==
  IF /\ f.consistent /\ active
     /\ \/ f.action = "created" /\ f.creator = "allowed"
        \/ f.action = "prompted" /\ f.author = "allowed"
    THEN "pending" ELSE "refused"

\* _assert_internally_consistent and _authorize, in their order: "created" is
\* authorized by who opened the session, "prompted" by who wrote the message.
Decision(f, active) ==
  CASE ~f.consistent -> "identity_mismatch"
    [] f.consistent /\ ~active -> "inactive_installation"
    [] f.consistent /\ active /\ f.action = "other" -> "unsupported_action"
    [] f.consistent /\ active /\ f.action = "created" ->
         CASE f.creator = "nobody" -> "missing_creator"
           [] f.creator = "another" -> "unauthorized_human"
           [] OTHER -> "pending"
    [] f.consistent /\ active /\ f.action = "prompted" ->
         CASE f.author = "nobody" -> "identity_mismatch"
           [] f.author = "another" -> "unauthorized_human"
           [] OTHER -> "pending"

Event(r) == EventOf[r.body]

\* The two UNIQUE identities of linear_agent_inbox.
Collides_OnDelivery(r, q) == r.delivery = q.delivery

Collides(r, q) == r.delivery = q.delivery \/ r.body = q.body

Goto(a, l) == pc' = [pc EXCEPT ![a] = l]
Quiet == UNCHANGED <<installed, inbox, failures>>

----------------------------------------------------------------------------
(* Linear                                                                  *)

Arrives(a, d, b, late) ==
  /\ pc[a] = "idle"
  /\ Goto(a, "verify")
  /\ req' = [req EXCEPT ![a] = [row |-> [delivery |-> d, body |-> b,
                                         status |-> "pending"],
                                late |-> late, outcome |-> "inserted"]]
  /\ UNCHANGED <<installed, inbox, failures>>

\* An attempt at an event, signed now, under the event's delivery id.
Attempt(e) == \E a \in Slots, b \in Bodies :
                EventOf[b] = e /\ Arrives(a, DeliveryOf[e], b, FALSE)

\* A body long after it was signed.
Late == \E a \in Slots, b \in Bodies, d \in Deliveries : Arrives(a, d, b, TRUE)

\* body_digest: "The HMAC authenticates the body and not the headers", so a copy
\* of a body comes under any delivery id, before its original, after it, or
\* when the original was lost.
Replay == \E a \in Slots, b \in Bodies, d \in Deliveries :
            Arrives(a, d, b, FALSE)

\* apply_oauth_revocation, and TX B of an installation.
InstallationChanges ==
  /\ installed' = ~installed
  /\ UNCHANGED <<inbox, pc, req, failures>>

----------------------------------------------------------------------------
(* The request                                                             *)

\* The window of verify_freshness in seconds, the timestamps in milliseconds.
Verify_Seconds(a) ==
  /\ pc[a] = "verify"
  /\ Goto(a, "idle") /\ req' = [req EXCEPT ![a] = NoReq]
  /\ Quiet

\* post_linear_webhook before the thread: a body signed more than
\* linear_webhook_freshness_seconds ago is a 401 that leaves no trace.
Verify(a) ==
  /\ pc[a] = "verify"
  /\ IF req[a].late
       THEN Goto(a, "idle") /\ req' = [req EXCEPT ![a] = NoReq]
       ELSE Goto(a, "select") /\ UNCHANGED req
  /\ Quiet

\* SELECT_LINEAR_INSTALLATION_FOR_EVENT and the decision.
SelectInstallation(a) ==
  /\ pc[a] = "select"
  /\ req' = [req EXCEPT ![a].row.status =
               Decision(Facts[Event(req[a].row)], installed)]
  /\ Goto(a, "insert")
  /\ Quiet

\* INSERT_LINEAR_INBOX, ON CONFLICT DO NOTHING.  The row is not visible to
\* the others before the commit; they wait for it if they would collide.
InsertInbox(a) ==
  /\ pc[a] = "insert"
  /\ \A o \in Slots \ {a} : pc[o] = "commit" => ~Collides(req[a].row, req[o].row)
  /\ Goto(a, IF \E q \in inbox : Collides(req[a].row, q) THEN "classify" ELSE "commit")
  /\ Quiet /\ UNCHANGED req

\* What the two identities of the request say of the rows they hit.  A retry
\* is told from a reused id by the identity of the event, not by its body.
Outcome_ByDelivery(r) ==
  IF \E q \in inbox : q.delivery = r.delivery THEN "duplicate" ELSE "body_replay"

Outcome(r) ==
  LET byDelivery == {q \in inbox : q.delivery = r.delivery}
      byBody == {q \in inbox : q.body = r.body}
  IN IF byDelivery = {} THEN "body_replay"
     ELSE IF byBody = {}
       THEN IF \E q \in byDelivery : Event(q) = Event(r)
              THEN "duplicate" ELSE "identity_conflict"
     ELSE IF byDelivery = byBody THEN "duplicate" ELSE "identity_conflict"

\* _classify_conflict; the transaction then commits nothing.
ClassifyConflict(a) ==
  /\ pc[a] = "classify"
  /\ req' = [req EXCEPT ![a].outcome = Outcome(req[a].row)]
  /\ Goto(a, "respond")
  /\ Quiet

Commit(a) ==
  /\ pc[a] = "commit"
  /\ inbox' = inbox \cup {req[a].row}
  /\ Goto(a, "respond")
  /\ UNCHANGED <<installed, req, failures>>

\* 200, also for a refusal that is now on record.
Respond(a) ==
  /\ pc[a] = "respond"
  /\ Goto(a, "idle")
  /\ req' = [req EXCEPT ![a] = NoReq]
  /\ Quiet

\* The process dies, the database errs (a 500), or the 200 never arrives:
\* what is not committed is gone.
Fail(a) ==
  /\ pc[a] # "idle" /\ failures < MaxFailures
  /\ failures' = failures + 1
  /\ Goto(a, "idle")
  /\ req' = [req EXCEPT ![a] = NoReq]
  /\ UNCHANGED <<installed, inbox>>

Handle(a) == \/ Verify(a) \/ SelectInstallation(a) \/ InsertInbox(a)
             \/ ClassifyConflict(a) \/ Commit(a) \/ Respond(a)

Next == \/ \E e \in Events : Attempt(e)
        \/ Late \/ Replay \/ InstallationChanges
        \/ \E a \in Slots : Handle(a) \/ Fail(a)

Spec == Init /\ [][Next]_vars

\* A handler ends; Linear retries an event until it is answered 200, however
\* busy the server is.
FairSpec == /\ Spec
            /\ \A a \in Slots : WF_vars(Handle(a))
            /\ \A e \in Events : SF_vars(Attempt(e))

----------------------------------------------------------------------------
(* Properties                                                              *)

Recorded(e) == {r \in inbox : Event(r) = e}

\* "A redelivery of the same event is recognized as already handled rather than
\* re-evaluated": whatever overlaps, each delivery id and each signed body is
\* decided once, and that row stays, after a reinstall as well.  An event has a
\* second row only under an id that is not its first one's and with a body that
\* is not.
ByDelivery == INSTANCE DecisionLog WITH
  Identities <- Deliveries,
  recorded <- [d \in Deliveries |-> {r \in inbox : r.delivery = d}]

ByBody == INSTANCE DecisionLog WITH
  Identities <- Bodies,
  recorded <- [b \in Bodies |-> {r \in inbox : r.body = b}]

ImplementsDecisionLog == ByDelivery!Spec /\ ByBody!Spec

\* "Nothing above this line is durable": a request about to be answered 200 has
\* its event on record, unless the answer names a reused delivery id, and then
\* the id stands for another event, or for another body while this one is on
\* record under an id of its own.
AnswerIsTrue ==
  \A a \in Slots : pc[a] = "respond" =>
    LET r == req[a].row IN
    CASE req[a].outcome = "inserted" -> r \in inbox
      [] req[a].outcome = "duplicate" ->
           \E q \in inbox : q.delivery = r.delivery /\ Event(q) = Event(r)
      [] req[a].outcome = "body_replay" ->
           \E q \in inbox : q.body = r.body /\ q.delivery # r.delivery
      [] req[a].outcome = "identity_conflict" ->
           \E q \in inbox : /\ q.delivery = r.delivery /\ q.body # r.body
                            /\ \/ Event(q) # Event(r)
                               \/ \E p \in inbox : p.body = r.body


\* No failure between the insert, the commit and the answer wedges an event:
\* what Linear keeps retrying is decided, unless its delivery id stands for
\* another event.
EveryEventDecided ==
  \A e \in Events : <>(\/ Recorded(e) # {}
                       \/ \E q \in inbox : q.delivery = DeliveryOf[e] /\ Event(q) # e)
=============================================================================
