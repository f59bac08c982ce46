------------------------- MODULE LinearIngressProofs -------------------------
(***************************************************************************)
(* What LinearIngress guarantees for any events, bodies, delivery ids and  *)
(* overlapping requests, and any copy of any body under any id: a delivery *)
(* id and a body are decided at most once and for good (it implements      *)
(* DecisionLog for each), and no answer says what is not so.               *)
(***************************************************************************)
EXTENDS LinearIngress, TLAPS

----------------------------------------------------------------------------
(* The inductive invariant                                                 *)

Requests == [row : Rows \cup {NoRow}, late : BOOLEAN, outcome : Conflicts]

TypeInv == TypeOK /\ req \in [Slots -> Requests]

\* The two identities of the rows on record are unique.
RecordInv == \A p, q \in inbox : Collides(p, q) => p = q

\* An inserted row collides with no other, on record or about to be; a row
\* to classify collides with one on record.
InsertInv == \A a \in Slots :
  /\ pc[a] = "commit" =>
       /\ \A q \in inbox : ~Collides(req[a].row, q)
       /\ \A o \in Slots \ {a} : pc[o] = "commit" =>
            ~Collides(req[a].row, req[o].row)
  /\ pc[a] = "classify" => \E q \in inbox : Collides(req[a].row, q)
  /\ pc[a] \in {"verify", "select", "insert", "classify", "commit"} =>
       req[a].outcome = "inserted"

\* AnswerIsTrue, slot by slot.
Truthful(a) ==
  LET r == req[a].row IN
  /\ req[a].outcome = "inserted" => r \in inbox
  /\ req[a].outcome = "duplicate" =>
       \E q \in inbox : q.delivery = r.delivery /\ Event(q) = Event(r)
  /\ req[a].outcome = "body_replay" =>
       \E q \in inbox : q.body = r.body /\ q.delivery # r.delivery
  /\ req[a].outcome = "identity_conflict" =>
       \E q \in inbox : /\ q.delivery = r.delivery /\ q.body # r.body
                        /\ \/ Event(q) # Event(r)
                           \/ \E p \in inbox : p.body = r.body

AnswerInv == \A a \in Slots : pc[a] = "respond" => Truthful(a)

IngressInv == /\ TypeInv
              /\ RecordInv
              /\ InsertInv
              /\ AnswerInv

----------------------------------------------------------------------------
(* Types                                                                   *)

LEMMA DecisionType ==
  ASSUME NEW f \in [consistent : BOOLEAN, action : Actions,
                    creator : Humans, author : Humans],
         NEW b \in BOOLEAN
  PROVE  Decision(f, b) \in Decisions
<1>1. /\ f.consistent \in BOOLEAN /\ f.action \in {"created", "prompted", "other"}
      /\ f.creator \in {"allowed", "another", "nobody"}
      /\ f.author \in {"allowed", "another", "nobody"}
  BY DEF Actions, Humans
<1> QED BY <1>1 DEF Decision, Decisions, Refusals

LEMMA InitTypeInv ==
  Init => TypeInv
BY IngressAssumption DEF Init, TypeInv, TypeOK, Requests, NoReq, PCs, Conflicts

\* A slot that takes or gives up a request.
LEMMA SlotTypes ==
  ASSUME TypeInv, NEW a \in Slots, NEW l \in PCs, Goto(a, l),
         NEW q \in Requests, l # "idle" => q.row \in Rows,
         req' = [req EXCEPT ![a] = q]
  PROVE  /\ pc' \in [Slots -> PCs] /\ req' \in [Slots -> Requests]
         /\ \A o \in Slots : pc'[o] # "idle" =>
              req'[o] \in [row : Rows, late : BOOLEAN, outcome : Conflicts]
<1>1. pc' \in [Slots -> PCs] /\ req' \in [Slots -> Requests]
  BY DEF TypeInv, TypeOK, Goto
<1>2. l # "idle" => q \in [row : Rows, late : BOOLEAN, outcome : Conflicts]
  BY DEF Requests
<1>3. pc'[a] = l /\ req'[a] = q
      /\ \A o \in Slots \ {a} : pc'[o] = pc[o] /\ req'[o] = req[o]
  BY DEF TypeInv, TypeOK, Goto
<1>4. \A o \in Slots : pc'[o] # "idle" =>
        req'[o] \in [row : Rows, late : BOOLEAN, outcome : Conflicts]
  BY <1>2, <1>3 DEF TypeInv, TypeOK
<1> QED BY <1>1, <1>4

LEMMA NextTypeInv ==
  TypeInv /\ [Next]_vars => TypeInv'
<1> SUFFICES ASSUME TypeInv, [Next]_vars PROVE TypeInv'
  OBVIOUS
<1> USE IngressAssumption
<1>1. /\ TypeOK /\ req \in [Slots -> Requests] /\ NoReq \in Requests
      /\ \A r \in Rows : Event(r) \in Events /\ r.body \in Bodies
  BY DEF TypeInv, Requests, NoReq, Conflicts, Rows, Event
<1>2. CASE UNCHANGED vars \/ InstallationChanges
  BY <1>1, <1>2 DEF vars, InstallationChanges, TypeInv, TypeOK
<1>3. ASSUME NEW a \in Slots, NEW d \in Deliveries, NEW b \in Bodies,
             NEW late \in BOOLEAN, Arrives(a, d, b, late)
      PROVE  TypeInv'
  <2> DEFINE q == [row |-> [delivery |-> d, body |-> b, status |-> "pending"],
                   late |-> late, outcome |-> "inserted"]
  <2>1. q \in Requests /\ q.row \in Rows
    BY DEF Requests, Rows, Decisions, Conflicts
  <2>2. Goto(a, "verify") /\ req' = [req EXCEPT ![a] = q]
    BY <1>3 DEF Arrives
  <2> HIDE DEF q
  <2>3. /\ pc' \in [Slots -> PCs] /\ req' \in [Slots -> Requests]
        /\ \A o \in Slots : pc'[o] # "idle" =>
             req'[o] \in [row : Rows, late : BOOLEAN, outcome : Conflicts]
    BY <2>1, <2>2, SlotTypes DEF PCs
  <2> QED BY <1>1, <1>3, <2>3 DEF Arrives, TypeInv, TypeOK
<1>4. ASSUME NEW e \in Events, Attempt(e) PROVE TypeInv'
  <2>1. PICK a \in Slots, b \in Bodies : Arrives(a, DeliveryOf[e], b, FALSE)
    BY <1>4 DEF Attempt
  <2> QED BY <1>3, <2>1
<1>5. CASE Late
  <2>1. PICK a \in Slots, b \in Bodies, d \in Deliveries : Arrives(a, d, b, TRUE)
    BY <1>5 DEF Late
  <2> QED BY <1>3, <2>1
<1>6. CASE Replay
  <2>1. PICK a \in Slots, b \in Bodies, d \in Deliveries : Arrives(a, d, b, FALSE)
    BY <1>6 DEF Replay
  <2> QED BY <1>3, <2>1
<1>7. ASSUME NEW a \in Slots, Goto(a, "idle"), req' = [req EXCEPT ![a] = NoReq],
             installed' = installed, inbox' = inbox,
             failures' \in 0 .. MaxFailures
      PROVE  TypeInv'
  <2>1. "idle" \in PCs
    BY DEF PCs
  <2>2. /\ pc' \in [Slots -> PCs] /\ req' \in [Slots -> Requests]
        /\ \A o \in Slots : pc'[o] # "idle" =>
             req'[o] \in [row : Rows, late : BOOLEAN, outcome : Conflicts]
    BY <1>1, <1>7, <2>1, SlotTypes
  <2> QED BY <1>1, <1>7, <2>2 DEF TypeInv, TypeOK
<1>8. ASSUME NEW a \in Slots, NEW l \in PCs, NEW q \in Requests, q.row \in Rows,
             Goto(a, l), req' = [req EXCEPT ![a] = q], Quiet
      PROVE  TypeInv'
  <2>1. /\ pc' \in [Slots -> PCs] /\ req' \in [Slots -> Requests]
        /\ \A o \in Slots : pc'[o] # "idle" =>
             req'[o] \in [row : Rows, late : BOOLEAN, outcome : Conflicts]
    BY <1>8, SlotTypes
  <2> QED BY <1>1, <1>8, <2>1 DEF Quiet, TypeInv, TypeOK
<1>9. ASSUME NEW a \in Slots, pc[a] # "idle", NEW l \in PCs, Goto(a, l), Quiet,
             UNCHANGED req
      PROVE  TypeInv'
  <2>1. req[a] \in Requests /\ req[a].row \in Rows
        /\ req' = [req EXCEPT ![a] = req[a]]
    BY <1>1, <1>9 DEF TypeOK
  <2> QED BY <1>8, <1>9, <2>1
<1>10. ASSUME NEW a \in Slots, Handle(a) \/ Fail(a) PROVE TypeInv'
  <2>1. CASE Verify(a)
    BY <1>1, <1>7, <1>9, <2>1 DEF Verify, Quiet, TypeOK, PCs
  <2>2. CASE SelectInstallation(a)
    <3> DEFINE u == Decision(Facts[Event(req[a].row)], installed)
               q == [req[a] EXCEPT !.row.status = u]
    <3>1. /\ req[a] \in Requests /\ req[a].row \in Rows
          /\ Event(req[a].row) \in Events /\ installed \in BOOLEAN
      BY <1>1, <2>2 DEF SelectInstallation, TypeOK
    <3>2. u \in Decisions
      BY <3>1, DecisionType
    <3>3. req' = [req EXCEPT ![a] = q] /\ Goto(a, "insert") /\ Quiet
      BY <2>2 DEF SelectInstallation
    <3> HIDE DEF u
    <3>4. q \in Requests /\ q.row \in Rows
      BY <3>1, <3>2 DEF Requests, Rows
    <3> HIDE DEF q
    <3> QED BY <1>8, <3>3, <3>4 DEF PCs
  <2>3. CASE InsertInbox(a)
    BY <1>9, <2>3 DEF InsertInbox, PCs
  <2>4. CASE ClassifyConflict(a)
    <3> DEFINE u == Outcome(req[a].row)
               q == [req[a] EXCEPT !.outcome = u]
    <3>1. req[a] \in Requests /\ req[a].row \in Rows
      BY <1>1, <2>4 DEF ClassifyConflict, TypeOK
    <3>2. u \in Conflicts
      BY DEF Outcome, Conflicts
    <3>3. req' = [req EXCEPT ![a] = q] /\ Goto(a, "respond") /\ Quiet
      BY <2>4 DEF ClassifyConflict
    <3> HIDE DEF u
    <3>4. q \in Requests /\ q.row \in Rows
      BY <3>1, <3>2 DEF Requests
    <3> HIDE DEF q
    <3> QED BY <1>8, <3>3, <3>4 DEF PCs
  <2>5. CASE Commit(a)
    <3>1. req[a].row \in Rows
      BY <1>1, <2>5 DEF Commit, TypeOK
    <3>2. inbox' \subseteq Rows
      BY <1>1, <2>5, <3>1 DEF Commit, TypeOK
    <3>3. pc' \in [Slots -> PCs] /\ \A o \in Slots : pc'[o] # "idle" => pc[o] # "idle"
      BY <1>1, <2>5 DEF Commit, Goto, TypeOK, PCs
    <3> QED BY <1>1, <2>5, <3>2, <3>3 DEF Commit, TypeInv, TypeOK
  <2>6. CASE Respond(a)
    BY <1>1, <1>7, <2>6 DEF Respond, Quiet, TypeOK
  <2>7. CASE Fail(a)
    <3>1. failures' \in 0 .. MaxFailures
      BY <1>1, <2>7 DEF Fail, TypeOK
    <3> QED BY <1>7, <2>7, <3>1 DEF Fail
  <2> QED BY <1>10, <2>1, <2>2, <2>3, <2>4, <2>5, <2>6, <2>7 DEF Handle
<1> QED BY <1>2, <1>4, <1>5, <1>6, <1>10 DEF Next

----------------------------------------------------------------------------
(* Every step                                                              *)

LEMMA InitIngressInv ==
  Init => IngressInv
<1> SUFFICES ASSUME Init PROVE IngressInv
  OBVIOUS
<1>1. TypeInv
  BY InitTypeInv
<1>2. RecordInv /\ InsertInv /\ AnswerInv
  BY DEF Init, RecordInv, InsertInv, AnswerInv
<1> QED BY <1>1, <1>2 DEF IngressInv

\* What a step of slot a that leaves the inbox alone must show of itself.
OwnPart(a) ==
  /\ pc[a] = "commit" =>
       /\ \A q \in inbox : ~Collides(req[a].row, q)
       /\ \A o \in Slots \ {a} : pc[o] = "commit" =>
            ~Collides(req[a].row, req[o].row)
  /\ pc[a] = "classify" => \E q \in inbox : Collides(req[a].row, q)
  /\ pc[a] \in {"verify", "select", "insert", "classify", "commit"} =>
       req[a].outcome = "inserted"
  /\ pc[a] = "respond" => Truthful(a)

LEMMA SlotKeeps ==
  ASSUME IngressInv, TypeInv', NEW a \in Slots, inbox' = inbox,
         \A o \in Slots \ {a} : pc'[o] = pc[o] /\ req'[o] = req[o],
         OwnPart(a)'
  PROVE  IngressInv'
<1>1. RecordInv'
  BY DEF IngressInv, RecordInv, Event, Collides
<1>2. AnswerInv'
  BY DEF IngressInv, AnswerInv, OwnPart, Truthful, Event
<1>3. InsertInv'
  <2> SUFFICES ASSUME NEW o \in Slots
               PROVE  /\ pc'[o] = "commit" =>
                           /\ \A q \in inbox : ~Collides(req'[o].row, q)
                           /\ \A s \in Slots \ {o} : pc'[s] = "commit" =>
                                ~Collides(req'[o].row, req'[s].row)
                      /\ pc'[o] = "classify" =>
                           \E q \in inbox : Collides(req'[o].row, q)
                      /\ pc'[o] \in {"verify", "select", "insert", "classify",
                                     "commit"} => req'[o].outcome = "inserted"
    BY DEF InsertInv, Collides
  <2>1. CASE o = a
    BY <2>1 DEF OwnPart, Collides
  <2>2. CASE o # a
    BY <2>2 DEF OwnPart, IngressInv, InsertInv, Collides
  <2> QED BY <2>1, <2>2
<1> QED BY <1>1, <1>2, <1>3 DEF IngressInv

\* A request arrives: any body, under any delivery id.
LEMMA ArrivesKeeps ==
  ASSUME IngressInv, TypeInv', NEW a \in Slots, NEW d \in Deliveries,
         NEW b \in Bodies, NEW late \in BOOLEAN, Arrives(a, d, b, late)
  PROVE  IngressInv'
<1>1. /\ pc'[a] = "verify" /\ req'[a].row.delivery = d /\ req'[a].row.body = b
      /\ req'[a].outcome = "inserted" /\ inbox' = inbox
      /\ \A o \in Slots \ {a} : pc'[o] = pc[o] /\ req'[o] = req[o]
  BY DEF Arrives, Goto, IngressInv, TypeInv, TypeOK
<1>2. OwnPart(a)'
  BY <1>1 DEF OwnPart
<1> QED BY <1>1, <1>2, SlotKeeps

\* The answer of a conflict is true of the rows the request hits.
LEMMA OutcomeIsTrue ==
  ASSUME RecordInv, NEW r, \E q \in inbox : Collides(r, q)
  PROVE  /\ Outcome(r) # "inserted"
         /\ Outcome(r) = "duplicate" =>
              \E q \in inbox : q.delivery = r.delivery /\ Event(q) = Event(r)
         /\ Outcome(r) = "body_replay" =>
              \E q \in inbox : q.body = r.body /\ q.delivery # r.delivery
         /\ Outcome(r) = "identity_conflict" =>
              \E q \in inbox : /\ q.delivery = r.delivery /\ q.body # r.body
                               /\ \/ Event(q) # Event(r)
                                  \/ \E p \in inbox : p.body = r.body
<1> DEFINE byDelivery == {q \in inbox : q.delivery = r.delivery}
           byBody == {q \in inbox : q.body = r.body}
<1>1. byDelivery # {} \/ byBody # {}
  BY DEF Collides
<1>2. CASE byDelivery = {}
  <2>1. Outcome(r) = "body_replay"
    BY <1>2 DEF Outcome
  <2>2. PICK q \in byBody : TRUE
    BY <1>1, <1>2
  <2>3. q.delivery # r.delivery
    BY <1>2, <2>2
  <2> QED BY <2>1, <2>2, <2>3
<1>3. CASE byDelivery # {} /\ byBody = {}
  <2>1. PICK p \in byDelivery : TRUE
    BY <1>3
  <2>2. CASE \E q \in byDelivery : Event(q) = Event(r)
    <3>1. Outcome(r) = "duplicate"
      BY <1>3, <2>2 DEF Outcome
    <3> QED BY <2>2, <3>1
  <2>3. CASE ~ \E q \in byDelivery : Event(q) = Event(r)
    <3>1. Outcome(r) = "identity_conflict"
      BY <1>3, <2>3 DEF Outcome
    <3>2. Event(p) # Event(r) /\ p.body # r.body
      BY <1>3, <2>1, <2>3
    <3> QED BY <2>1, <3>1, <3>2
  <2> QED BY <2>2, <2>3
<1>4. CASE byDelivery # {} /\ byBody # {}
  <2>1. PICK p \in byDelivery, q \in byBody : TRUE
    BY <1>4
  <2>2. Event(q) = Event(r)
    BY <2>1 DEF Event
  <2>3. \A o \in byDelivery : o = p
    BY <2>1 DEF RecordInv, Collides
  <2>4. \A o \in byBody : o = q
    BY <2>1 DEF RecordInv, Collides
  <2>5. CASE p = q
    <3>1. byDelivery = byBody
      BY <2>1, <2>3, <2>4, <2>5
    <3>2. Outcome(r) = "duplicate"
      BY <1>4, <3>1 DEF Outcome
    <3> QED BY <2>1, <2>2, <2>5, <3>2
  <2>6. CASE p # q
    <3>1. byDelivery # byBody
      BY <2>1, <2>4, <2>6
    <3>2. Outcome(r) = "identity_conflict"
      BY <1>4, <3>1 DEF Outcome
    <3>3. p.body # r.body
      BY <2>1, <2>4, <2>6
    <3> QED BY <2>1, <3>2, <3>3
  <2> QED BY <2>5, <2>6
<1> QED BY <1>2, <1>3, <1>4

\* The row that is committed is the first of its delivery id and of its body.
LEMMA CommitsFirst ==
  ASSUME IngressInv, NEW a \in Slots, pc[a] = "commit"
  PROVE  \A q \in inbox : /\ q.delivery # req[a].row.delivery
                           /\ q.body # req[a].row.body
BY DEF IngressInv, InsertInv, Collides

LEMMA CommitKeeps ==
  ASSUME IngressInv, TypeInv', NEW a \in Slots, Commit(a)
  PROVE  IngressInv'
<1> DEFINE r == req[a].row
<1>1. /\ pc[a] = "commit" /\ inbox' = inbox \cup {r} /\ req' = req
      /\ pc'[a] = "respond" /\ \A o \in Slots \ {a} : pc'[o] = pc[o]
  BY DEF Commit, Goto, IngressInv, TypeInv, TypeOK
<1>2. /\ \A q \in inbox : ~Collides(r, q)
      /\ \A o \in Slots \ {a} : pc[o] = "commit" => ~Collides(r, req[o].row)
      /\ req[a].outcome = "inserted"
  BY <1>1 DEF IngressInv, InsertInv
<1> HIDE DEF r
<1>3. RecordInv'
  BY <1>1, <1>2 DEF IngressInv, RecordInv, Collides
<1>4. InsertInv'
  BY <1>1, <1>2 DEF IngressInv, InsertInv, Collides, r
<1>5. AnswerInv'
  <2>1. Truthful(a)'
    BY <1>1, <1>2 DEF Truthful, r
  <2>2. ASSUME NEW o \in Slots \ {a}, pc[o] = "respond" PROVE Truthful(o)'
    BY <1>1, <2>2 DEF IngressInv, AnswerInv, Truthful, Event
  <2> QED BY <1>1, <2>1, <2>2 DEF AnswerInv
<1> QED BY <1>3, <1>4, <1>5 DEF IngressInv

LEMMA NextIngressInv ==
  IngressInv /\ [Next]_vars => IngressInv'
<1> SUFFICES ASSUME IngressInv, [Next]_vars PROVE IngressInv'
  OBVIOUS
<1>1. TypeInv' /\ TypeOK /\ req \in [Slots -> Requests]
  BY NextTypeInv DEF IngressInv, TypeInv
<1>2. CASE UNCHANGED vars \/ InstallationChanges
  <2>1. UNCHANGED <<inbox, pc, req>>
    BY <1>2 DEF vars, InstallationChanges
  <2> QED
    BY <1>1, <2>1 DEF IngressInv, RecordInv, InsertInv, AnswerInv,
                      Truthful, Collides, Event
<1>3. ASSUME NEW e \in Events, Attempt(e) PROVE IngressInv'
  <2>1. PICK a \in Slots, b \in Bodies :
          EventOf[b] = e /\ Arrives(a, DeliveryOf[e], b, FALSE)
    BY <1>3 DEF Attempt
  <2> QED BY <1>1, <2>1, ArrivesKeeps, IngressAssumption
<1>4. CASE Late
  <2>1. PICK a \in Slots, b \in Bodies, d \in Deliveries : Arrives(a, d, b, TRUE)
    BY <1>4 DEF Late
  <2> QED BY <1>1, <2>1, ArrivesKeeps
<1>5. CASE Replay
  <2>1. PICK a \in Slots, b \in Bodies, d \in Deliveries : Arrives(a, d, b, FALSE)
    BY <1>5 DEF Replay
  <2> QED BY <1>1, <2>1, ArrivesKeeps
<1>6. ASSUME NEW a \in Slots, Handle(a) \/ Fail(a) PROVE IngressInv'
  <2>1. ASSUME Goto(a, "idle"), req' = [req EXCEPT ![a] = NoReq], inbox' = inbox
        PROVE  IngressInv'
    <3>1. /\ pc'[a] = "idle"
          /\ \A o \in Slots \ {a} : pc'[o] = pc[o] /\ req'[o] = req[o]
      BY <1>1, <2>1 DEF Goto, TypeOK
    <3>2. OwnPart(a)'
      BY <3>1 DEF OwnPart
    <3> QED BY <1>1, <2>1, <3>1, <3>2, SlotKeeps
  <2>2. CASE Verify(a)
    <3>1. CASE Goto(a, "select") /\ UNCHANGED req
      <4>1. /\ pc[a] = "verify" /\ pc'[a] = "select" /\ UNCHANGED <<inbox, req>>
            /\ \A o \in Slots \ {a} : pc'[o] = pc[o]
        BY <1>1, <2>2, <3>1 DEF Verify, Quiet, Goto, TypeOK
      <4>2. OwnPart(a)'
        BY <4>1 DEF OwnPart, IngressInv, InsertInv
      <4> QED BY <1>1, <4>1, <4>2, SlotKeeps
    <3> QED BY <2>1, <2>2, <3>1 DEF Verify, Quiet
  <2>3. CASE SelectInstallation(a)
    <3>1. /\ pc[a] = "select" /\ pc'[a] = "insert" /\ inbox' = inbox
          /\ req[a].row \in Rows
      BY <1>1, <2>3 DEF SelectInstallation, Quiet, Goto, TypeOK
    <3>2. /\ req'[a].row.delivery = req[a].row.delivery
          /\ req'[a].row.body = req[a].row.body
          /\ req'[a].outcome = req[a].outcome
      BY <1>1, <2>3, <3>1 DEF SelectInstallation, Requests, Rows
    <3>3. \A o \in Slots \ {a} : pc'[o] = pc[o] /\ req'[o] = req[o]
      BY <1>1, <2>3 DEF SelectInstallation, Goto, TypeOK
    <3>4. OwnPart(a)'
      BY <3>1, <3>2 DEF OwnPart, IngressInv, InsertInv
    <3> QED BY <1>1, <3>1, <3>3, <3>4, SlotKeeps
  <2>4. CASE InsertInbox(a)
    <3>1. /\ pc[a] = "insert" /\ UNCHANGED <<inbox, req>>
          /\ pc'[a] = IF \E q \in inbox : Collides(req[a].row, q)
                        THEN "classify" ELSE "commit"
          /\ \A o \in Slots \ {a} : pc'[o] = pc[o]
          /\ \A o \in Slots \ {a} : pc[o] = "commit" =>
               ~Collides(req[a].row, req[o].row)
      BY <1>1, <2>4 DEF InsertInbox, Quiet, Goto, TypeOK
    <3>2. OwnPart(a)'
      BY <3>1
      DEF OwnPart, IngressInv, InsertInv, Collides
    <3> QED BY <1>1, <3>1, <3>2, SlotKeeps
  <2>5. CASE ClassifyConflict(a)
    <3>1. /\ pc[a] = "classify" /\ pc'[a] = "respond" /\ inbox' = inbox
          /\ req'[a].row = req[a].row /\ req'[a].outcome = Outcome(req[a].row)
          /\ \A o \in Slots \ {a} : pc'[o] = pc[o] /\ req'[o] = req[o]
      BY <1>1, <2>5 DEF ClassifyConflict, Quiet, Goto, TypeOK, Requests
    <3>2. (\E q \in inbox : Collides(req[a].row, q)) /\ RecordInv
      BY <3>1 DEF IngressInv, InsertInv
    <3>3. Truthful(a)'
      BY <3>1, <3>2, OutcomeIsTrue DEF Truthful, Event
    <3>4. OwnPart(a)'
      BY <3>1, <3>3 DEF OwnPart
    <3> QED BY <1>1, <3>1, <3>4, SlotKeeps
  <2>6. CASE Commit(a)
    BY <1>1, <2>6, CommitKeeps
  <2>7. CASE Respond(a) \/ Fail(a)
    BY <2>1, <2>7 DEF Respond, Fail, Quiet
  <2> QED BY <1>6, <2>2, <2>3, <2>4, <2>5, <2>6, <2>7 DEF Handle
<1> QED BY <1>2, <1>3, <1>4, <1>5, <1>6 DEF Next

----------------------------------------------------------------------------
(* Theorems                                                                *)

\* The inductive invariant of ingress.
THEOREM IngressInvariant == Spec => []IngressInv
BY InitIngressInv, NextIngressInv, PTL DEF Spec

\* The rows on record and the requests in progress keep their types.
THEOREM IngressTypes == Spec => []TypeOK
<1>1. IngressInv => TypeOK
  BY DEF IngressInv, TypeInv
<1> QED BY IngressInvariant, <1>1, PTL

\* _classify_conflict and the commit before the answer: whatever a request is
\* about to be told is so.
THEOREM AnswersAreTrue == Spec => []AnswerIsTrue
<1>1. IngressInv => AnswerIsTrue
  <2> SUFFICES ASSUME IngressInv, NEW a \in Slots, pc[a] = "respond"
               PROVE  LET r == req[a].row IN
                      CASE req[a].outcome = "inserted" -> r \in inbox
                        [] req[a].outcome = "duplicate" ->
                             \E q \in inbox : /\ q.delivery = r.delivery
                                              /\ Event(q) = Event(r)
                        [] req[a].outcome = "body_replay" ->
                             \E q \in inbox : /\ q.body = r.body
                                              /\ q.delivery # r.delivery
                        [] req[a].outcome = "identity_conflict" ->
                             \E q \in inbox :
                               /\ q.delivery = r.delivery /\ q.body # r.body
                               /\ \/ Event(q) # Event(r)
                                  \/ \E p \in inbox : p.body = r.body
    BY DEF AnswerIsTrue
  <2>1. Truthful(a)
    BY DEF IngressInv, AnswerInv
  <2>2. req[a].outcome \in {"inserted", "duplicate", "body_replay",
                            "identity_conflict"}
    BY DEF IngressInv, TypeInv, TypeOK, Conflicts
  <2> QED BY <2>1, <2>2 DEF Truthful
<1> QED BY IngressInvariant, <1>1, PTL

\* What the steps of ingress do to the rows of one identity.
LEMMA RowsCommitted ==
  ASSUME [Next]_vars
  PROVE  \/ inbox' = inbox
         \/ \E a \in Slots : pc[a] = "commit" /\ inbox' = inbox \cup {req[a].row}
<1>1. inbox' = inbox \/ \E a \in Slots : Commit(a)
  BY DEF Next, vars, InstallationChanges, Attempt, Late, Replay, Arrives,
         Handle, Verify, SelectInstallation, InsertInbox, ClassifyConflict,
         Respond, Fail, Quiet
<1> QED BY <1>1 DEF Commit

\* accept_agent_session_event implements DecisionLog twice: a delivery id gets
\* one row, once, and so does a signed body, however the deliveries overlap,
\* are retried with new bodies or come again under other ids.
THEOREM IngressImplementsDecisionLog == Spec => ImplementsDecisionLog
<1> DEFINE recD == [d \in Deliveries |-> {r \in inbox : r.delivery = d}]
           recB == [b \in Bodies |-> {r \in inbox : r.body = b}]
<1>1. Init => ByDelivery!Init /\ ByBody!Init
  BY DEF Init, ByDelivery!Init, ByBody!Init
<1>2. ASSUME IngressInv, NEW a \in Slots, pc[a] = "commit",
             inbox' = inbox \cup {req[a].row}
      PROVE  ByDelivery!Next /\ ByBody!Next
  <2>1. PICK u \in Rows : u = req[a].row
    BY <1>2 DEF IngressInv, TypeInv, TypeOK
  <2>2. /\ u.delivery \in Deliveries /\ u.body \in Bodies
        /\ \A q \in inbox : q.delivery # u.delivery /\ q.body # u.body
    BY <1>2, <2>1, CommitsFirst DEF Rows
  <2>3. ByDelivery!Next
    <3>1. /\ recD[u.delivery] = {} /\ recD'[u.delivery] = {u}
          /\ \A d \in Deliveries \ {u.delivery} : recD'[d] = recD[d]
      BY <1>2, <2>1, <2>2
    <3>2. recD' = [recD EXCEPT ![u.delivery] = {u}]
      BY <3>1
    <3>3. ByDelivery!Record(u.delivery)
      BY <3>1, <3>2 DEF ByDelivery!Record
    <3> QED BY <2>2, <3>3 DEF ByDelivery!Next
  <2>4. ByBody!Next
    <3>1. /\ recB[u.body] = {} /\ recB'[u.body] = {u}
          /\ \A b \in Bodies \ {u.body} : recB'[b] = recB[b]
      BY <1>2, <2>1, <2>2
    <3>2. recB' = [recB EXCEPT ![u.body] = {u}]
      BY <3>1
    <3>3. ByBody!Record(u.body)
      BY <3>1, <3>2 DEF ByBody!Record
    <3> QED BY <2>2, <3>3 DEF ByBody!Next
  <2> QED BY <2>3, <2>4
<1>3. IngressInv /\ [Next]_vars => [ByDelivery!Next]_recD /\ [ByBody!Next]_recB
  BY <1>2, RowsCommitted
<1> QED
  BY IngressInvariant, <1>1, <1>3, PTL
  DEF Spec, ImplementsDecisionLog, ByDelivery!Spec, ByBody!Spec
=============================================================================
