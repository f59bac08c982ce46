--------------------------- MODULE ToolLeaseProofs ---------------------------
(***************************************************************************)
(* What ToolLease guarantees for every set of callers and requests and     *)
(* every bound on passes and polls, provided no lease holder outlives its  *)
(* lease (HolderPrompt): the mutation of a tool call commits at most once, *)
(* a completed row is final, every answer is the one committed result, and *)
(* the lease implements ToolCall.                                          *)
(*                                                                         *)
(* None of these facts is inductive alone.  The strengthening, LeaseInv,   *)
(* says what a caller standing at each guarded statement may rely on: the  *)
(* one holder sits on a pending, unexpired row, a thief that still sees an *)
(* expired row sees a pending one, and committed is the stored result.     *)
(***************************************************************************)
EXTENDS ToolLease, TLAPS

\* Callers past INSERT_LEASE whose hash was compared with the row.
Matched == {"reacquire", "steal", "poll"}

\* Nothing happened before a row exists.
NoneInv == lease.status = "none" =>
  /\ committed = {}
  /\ \A c \in Callers : pc[c] \notin Holding \cup Matched \cup {"resolve"}

\* The holder's row is live; see SoleHolder.
HolderInv == (\E c \in Callers : pc[c] \in Holding) => ~lease.expired

\* A thief between its SELECT and its guarded UPDATE.
StealInv == \A c \in Callers :
  pc[c] = "steal" /\ lease.expired => lease.status = "pending"

\* The stored result is the one execution that committed.
ResultInv ==
  /\ lease.status = "completed" =>
       /\ committed = {lease.result}
       /\ lease.result \in Callers
       /\ request[lease.result] = lease.request
  /\ lease.status # "completed" => committed = {}

CallerInv == \A c \in Callers :
  /\ pc[c] \in Matched => lease.request = request[c]
  /\ pc[c] = "respond" => c \in committed
  /\ pc[c] # "done" => answered[c] = NoCaller

LeaseInv == /\ TypeOK
            /\ NoneInv
            /\ SoleHolder
            /\ HolderInv
            /\ StealInv
            /\ ResultInv
            /\ CallerInv
            /\ AnsweredWithOwnRequest

----------------------------------------------------------------------------

LEMMA InitLeaseInv == Init => LeaseInv
BY LeaseAssumption
   DEF Init, LeaseInv, TypeOK, NoneInv, SoleHolder, HolderInv, StealInv,
       ResultInv, CallerInv, AnsweredWithOwnRequest, NoLease, Statuses, PCs,
       Holding, Matched

\* A guarded UPDATE that may be taken: the row is failed, or pending and
\* expired, so nobody holds it and nothing has committed.
LEMMA TakeLeaseInv ==
  ASSUME LeaseInv, NEW c \in Callers, pc[c] \in {"reacquire", "steal"},
         lease.status = "failed" \/ (lease.status = "pending" /\ lease.expired),
         Take(c)
  PROVE  LeaseInv'
<1> USE DEF LeaseInv, TypeOK, Holding, Statuses, PCs, Matched
<1>1. /\ lease'.status = "pending" /\ lease'.expired = FALSE
      /\ lease'.request = lease.request /\ lease'.result = lease.result
      /\ lease' \in [status : Statuses, request : Requests \cup {NoRequest},
                     expired : BOOLEAN, result : Callers \cup {NoCaller}]
  BY DEF Take
<1>2. \A d \in Callers : pc[d] \notin Holding
  BY DEF HolderInv, SoleHolder
<1>3. pc' = [pc EXCEPT ![c] = "execute"] /\ committed' = {}
      /\ UNCHANGED <<target, request, passes, polls, answered>>
  BY DEF Take, Goto, ResultInv
<1>4. TypeOK'
  BY <1>1, <1>3
<1>5. SoleHolder' /\ HolderInv' /\ NoneInv' /\ StealInv'
  BY <1>1, <1>2, <1>3 DEF SoleHolder, HolderInv, NoneInv, StealInv, CallerInv
<1>6. ResultInv' /\ CallerInv' /\ AnsweredWithOwnRequest'
  BY <1>1, <1>3 DEF ResultInv, CallerInv, AnsweredWithOwnRequest
<1> QED
  BY <1>4, <1>5, <1>6

LEMMA NextLeaseInv ==
  ASSUME HolderPrompt, LeaseInv, [Next]_vars
  PROVE  LeaseInv'
<1> USE LeaseAssumption DEF LeaseInv, TypeOK, NoneInv, SoleHolder, HolderInv,
      StealInv, ResultInv, CallerInv, AnsweredWithOwnRequest, Statuses, PCs,
      Holding, Matched
<1>1. ASSUME NEW c \in Callers, Start(c) PROVE LeaseInv'
  BY <1>1 DEF Start, Step, Goto
<1>2. ASSUME NEW c \in Callers, ReplayCompleted(c) PROVE LeaseInv'
  BY <1>2 DEF ReplayCompleted, Step, Refuse, Replay, Goto
<1>3. ASSUME NEW c \in Callers, Policy(c) PROVE LeaseInv'
  BY <1>3 DEF Policy, Step, Refuse, Goto
<1>4. ASSUME NEW c \in Callers, Acquire(c) PROVE LeaseInv'
  <2>1. CASE lease.status # "none"
    BY <1>4, <2>1 DEF Acquire, Step, Goto
  <2>2. CASE lease.status = "none"
    <3>1. /\ lease' = [status |-> "pending", request |-> request[c],
                       expired |-> FALSE, result |-> NoCaller]
          /\ pc' = [pc EXCEPT ![c] = "execute"]
          /\ UNCHANGED <<target, request, passes, polls, answered, committed>>
      BY <1>4, <2>2 DEF Acquire, Goto
    <3>2. TypeOK'
      BY <3>1
    <3>3. SoleHolder' /\ HolderInv' /\ NoneInv' /\ StealInv'
      BY <2>2, <3>1
    <3>4. ResultInv' /\ CallerInv' /\ AnsweredWithOwnRequest'
      BY <1>4, <2>2, <3>1 DEF Acquire
    <3> QED
      BY <3>2, <3>3, <3>4
  <2> QED
    BY <2>1, <2>2
<1>5. ASSUME NEW c \in Callers, Resolve(c) PROVE LeaseInv'
  BY <1>5 DEF Resolve, PendingBranch, Refuse, Replay, Goto
<1>6. ASSUME NEW c \in Callers, ReacquireFailed(c) PROVE LeaseInv'
  <2>1. CASE lease.status = "failed"
    BY <1>6, <2>1, TakeLeaseInv DEF ReacquireFailed
  <2>2. CASE lease.status # "failed"
    BY <1>6, <2>2 DEF ReacquireFailed, Step, Goto
  <2> QED
    BY <2>1, <2>2
<1>7. ASSUME NEW c \in Callers, StealExpired(c) PROVE LeaseInv'
  <2>1. CASE lease.expired
    BY <1>7, <2>1, TakeLeaseInv DEF StealExpired
  <2>2. CASE ~lease.expired
    BY <1>7, <2>2 DEF StealExpired, Step, Goto
  <2> QED
    BY <2>1, <2>2
<1>8. ASSUME NEW c \in Callers, Poll(c) PROVE LeaseInv'
  BY <1>8 DEF Poll, Step, Refuse, Replay, Goto
<1>9. ASSUME NEW c \in Callers, Commit(c) PROVE LeaseInv'
  <2>1. /\ pc[c] = "execute" /\ lease.status = "pending"
        /\ lease.request = request[c] /\ committed = {}
    BY <1>9 DEF Commit
  <2>2. /\ lease'.status = "completed" /\ lease'.result = c
        /\ lease'.request = request[c] /\ lease'.expired = lease.expired
        /\ lease' \in [status : Statuses, request : Requests \cup {NoRequest},
                       expired : BOOLEAN, result : Callers \cup {NoCaller}]
        /\ committed' = {c} /\ pc' = [pc EXCEPT ![c] = "respond"]
        /\ UNCHANGED <<request, passes, polls, answered>>
    BY <1>9, <2>1 DEF Commit, Goto
  <2>3. target' \in {"asRead", "changed", "gone"}
    BY <1>9 DEF Commit, TargetAfter, Kinds
  <2>4. TypeOK'
    BY <2>2, <2>3
  <2>5. \A d \in Callers : pc'[d] \notin Holding
    BY <2>1, <2>2
  <2>6. SoleHolder' /\ HolderInv' /\ NoneInv' /\ StealInv'
    BY <2>1, <2>2, <2>5
  <2>7. ResultInv'
    BY <2>2
  <2>8. CallerInv' /\ AnsweredWithOwnRequest'
    BY <2>1, <2>2
  <2> QED
    BY <2>4, <2>6, <2>7, <2>8
<1>10. ASSUME NEW c \in Callers, Rollback(c) PROVE LeaseInv'
  BY <1>10 DEF Rollback, Step, Goto
<1>11. ASSUME NEW c \in Callers, Fail(c) PROVE LeaseInv'
  BY <1>11 DEF Fail, Goto
<1>12. ASSUME NEW c \in Callers, Respond(c) PROVE LeaseInv'
  BY <1>12 DEF Respond, Goto
<1>13. ASSUME NEW c \in Callers, Crash(c) PROVE LeaseInv'
  BY <1>13 DEF Crash, Step, Goto
<1>14. ASSUME Expire PROVE LeaseInv'
  BY <1>14 DEF Expire
<1>15. ASSUME ForeignChange PROVE LeaseInv'
  BY <1>15 DEF ForeignChange
<1>16. ASSUME UNCHANGED vars PROVE LeaseInv'
  BY <1>16 DEF vars
<1> QED
  BY <1>1, <1>2, <1>3, <1>4, <1>5, <1>6, <1>7, <1>8, <1>9, <1>10, <1>11,
     <1>12, <1>13, <1>14, <1>15, <1>16 DEF Next, Progress

----------------------------------------------------------------------------
(* Theorems                                                                *)

\* Every variable keeps its type, whether or not holders are prompt: in
\* particular _resolve_conflict and _poll never run past their bounds.
THEOREM TypeCorrect == Spec => []TypeOK
<1>1. Init => TypeOK
  BY LeaseAssumption DEF Init, TypeOK, NoLease, Statuses, PCs, Holding
<1>2. TypeOK /\ [Next]_vars => TypeOK'
  <2> SUFFICES ASSUME TypeOK, [Next]_vars PROVE TypeOK'
    OBVIOUS
  <2> USE LeaseAssumption DEF TypeOK, Statuses, PCs, Holding, Step, Refuse,
        Replay, Take, Goto
  <2>1. ASSUME NEW c \in Callers, Start(c) \/ Crash(c) PROVE TypeOK'
    BY <2>1 DEF Start, Crash
  <2>2. ASSUME NEW c \in Callers, ReplayCompleted(c) \/ Policy(c)
        PROVE  TypeOK'
    BY <2>2 DEF ReplayCompleted, Policy
  <2>3. ASSUME NEW c \in Callers, Acquire(c) PROVE TypeOK'
    <3>1. CASE lease.status = "none"
      <4>1. /\ lease' = [status |-> "pending", request |-> request[c],
                         expired |-> FALSE, result |-> NoCaller]
            /\ pc' = [pc EXCEPT ![c] = "execute"]
            /\ UNCHANGED <<target, request, passes, polls, answered, committed>>
        BY <2>3, <3>1 DEF Acquire
      <4> QED
        BY <4>1
    <3>2. CASE lease.status # "none"
      BY <2>3, <3>2 DEF Acquire
    <3> QED
      BY <3>1, <3>2
  <2>4. ASSUME NEW c \in Callers, Resolve(c) PROVE TypeOK'
    BY <2>4 DEF Resolve, PendingBranch
  <2>5. ASSUME NEW c \in Callers, ReacquireFailed(c) \/ StealExpired(c)
        PROVE  TypeOK'
    <3>1. CASE Take(c)
      <4>1. lease' \in [status : Statuses, request : Requests \cup {NoRequest},
                        expired : BOOLEAN, result : Callers \cup {NoCaller}]
        BY <3>1
      <4> QED
        BY <3>1, <4>1
    <3>2. CASE ~Take(c)
      BY <2>5, <3>2 DEF ReacquireFailed, StealExpired
    <3> QED
      BY <3>1, <3>2
  <2>6. ASSUME NEW c \in Callers, Poll(c) PROVE TypeOK'
    BY <2>6 DEF Poll
  <2>7. ASSUME NEW c \in Callers, Commit(c) PROVE TypeOK'
    <3>1. target' \in {"asRead", "changed", "gone"}
      BY <2>7 DEF Commit, TargetAfter, Kinds
    <3> QED
      BY <2>7, <3>1 DEF Commit
  <2>8. ASSUME NEW c \in Callers, Rollback(c) \/ Fail(c) \/ Respond(c)
        PROVE  TypeOK'
    BY <2>8 DEF Rollback, Fail, Respond
  <2>9. ASSUME Expire \/ ForeignChange PROVE TypeOK'
    BY <2>9 DEF Expire, ForeignChange
  <2>10. ASSUME UNCHANGED vars PROVE TypeOK'
    BY <2>10 DEF vars
  <2> QED
    BY <2>1, <2>2, <2>3, <2>4, <2>5, <2>6, <2>7, <2>8, <2>9, <2>10
    DEF Next, Progress
<1> QED
  BY <1>1, <1>2, PTL DEF Spec

\* LeaseInv is invariant when holders are prompt.
THEOREM LeaseInvariant == HolderPrompt => (Spec => []LeaseInv)
<1> SUFFICES ASSUME HolderPrompt PROVE Spec => []LeaseInv
  OBVIOUS
<1>1. LeaseInv /\ [Next]_vars => LeaseInv'
  BY NextLeaseInv
<1> QED
  BY <1>1, InitLeaseInv, PTL DEF Spec

\* invoke_mutating: however many callers retry one tool call, its mutation
\* commits at most once.
THEOREM CommitsOnce == HolderPrompt => (Spec => []AtMostOnce)
<1>1. LeaseInv => AtMostOnce
  BY DEF LeaseInv, ResultInv, AtMostOnce
<1> QED
  BY <1>1, LeaseInvariant, PTL

\* The result is stored in the mutation's own transaction: the row says
\* completed exactly when the mutation committed.
THEOREM CompletedMeansCommitted ==
  HolderPrompt => (Spec => []CompletedIffCommitted)
<1>1. LeaseInv => CompletedIffCommitted
  BY DEF LeaseInv, ResultInv, CompletedIffCommitted
<1> QED
  BY <1>1, LeaseInvariant, PTL

\* The guarded UPDATEs of the takeover: at most one caller is inside the tool
\* body's transaction, on a pending row that carries its own request.
THEOREM OneHolder == HolderPrompt => (Spec => []SoleHolder)
<1>1. LeaseInv => SoleHolder
  BY DEF LeaseInv
<1> QED
  BY <1>1, LeaseInvariant, PTL

\* The replays of every branch: no caller is ever handed a result of another
\* request or of an execution that did not commit.
THEOREM AnswersAreOwn == HolderPrompt => (Spec => []AnsweredWithOwnRequest)
<1>1. LeaseInv => AnsweredWithOwnRequest
  BY DEF LeaseInv
<1> QED
  BY <1>1, LeaseInvariant, PTL

\* What a completed row keeps.
SameResult == /\ lease'.status = lease.status
              /\ lease'.result = lease.result
              /\ lease'.request = lease.request

\* No statement of any caller moves a completed row; only its clock runs on.
LEMMA CompletedStep ==
  ASSUME LeaseInv, [Next]_vars, lease.status = "completed"
  PROVE  SameResult
<1> USE DEF LeaseInv, TypeOK, SoleHolder, StealInv, Holding, Step, Refuse,
      Replay, Goto, SameResult
<1>1. ASSUME NEW c \in Callers,
             Start(c) \/ Crash(c) \/ ReplayCompleted(c) \/ Policy(c)
      PROVE  SameResult
  BY <1>1 DEF Start, Crash, ReplayCompleted, Policy
<1>2. ASSUME NEW c \in Callers,
             Acquire(c) \/ Resolve(c) \/ ReacquireFailed(c) \/ Poll(c)
      PROVE  SameResult
  BY <1>2 DEF Acquire, Resolve, ReacquireFailed, Poll
<1>3. ASSUME NEW c \in Callers, StealExpired(c) PROVE SameResult
  BY <1>3 DEF StealExpired
<1>4. ASSUME NEW c \in Callers,
             Commit(c) \/ Rollback(c) \/ Fail(c) \/ Respond(c)
      PROVE  SameResult
  BY <1>4 DEF Commit, Rollback, Fail, Respond
<1>5. CASE Expire
  BY <1>5 DEF Expire
<1>6. CASE ForeignChange \/ UNCHANGED vars
  BY <1>6 DEF ForeignChange, vars
<1> QED
  BY <1>1, <1>2, <1>3, <1>4, <1>5, <1>6 DEF Next, Progress

\* A stored result is final: neither a late failure handler nor a thief ever
\* moves a completed row.
THEOREM CompletedFinal == HolderPrompt => (Spec => CompletedIsFinal)
<1>1. LeaseInv /\ [Next]_vars =>
        [lease.status = "completed" =>
           /\ lease'.status = "completed"
           /\ lease'.result = lease.result
           /\ lease'.request = lease.request]_vars
  BY CompletedStep DEF SameResult
<1> QED
  BY <1>1, LeaseInvariant, PTL DEF Spec, CompletedIsFinal

----------------------------------------------------------------------------
(* Refinement of ToolCall                                                  *)

\* The outcome ToolCall sees, as substituted in the instance Call.
Outcome == IF lease.status = "completed" THEN lease.result ELSE NoCaller

\* Returning a stored result is ToolCall's Answer.
LEMMA ReplayIsAnswer ==
  ASSUME LeaseInv, NEW c \in Callers, Replay(c), pc[c] # "done",
         lease.status = "completed", lease.request = request[c]
  PROVE  Call!Answer(c)
BY LeaseAssumption
   DEF LeaseInv, TypeOK, ResultInv, CallerInv, Replay, Call!Answer

\* Every step of the lease protocol is a step of ToolCall or invisible to it.
LEMMA StepRefines ==
  ASSUME LeaseInv, [Next]_vars, HolderPrompt
  PROVE  [Call!Next]_(Call!vars)
<1> DEFINE Hidden == UNCHANGED <<request, Outcome, answered>>
<1> USE LeaseAssumption DEF Step, Refuse, Goto, Outcome
<1>0. Hidden => [Call!Next]_(Call!vars)
  BY DEF Call!vars
<1>1. ASSUME NEW c \in Callers, Call!Execute(c) \/ Call!Answer(c)
      PROVE  [Call!Next]_(Call!vars)
  BY <1>1 DEF Call!Next
<1>2. ASSUME NEW c \in Callers, Start(c) \/ Crash(c) \/ Policy(c) \/ Rollback(c)
      PROVE  [Call!Next]_(Call!vars)
  BY <1>0, <1>2 DEF Start, Crash, Policy, Rollback
<1>3. ASSUME NEW c \in Callers, ReplayCompleted(c)
      PROVE  [Call!Next]_(Call!vars)
  BY <1>0, <1>1, <1>3, ReplayIsAnswer DEF ReplayCompleted
<1>4. ASSUME NEW c \in Callers, Acquire(c)
      PROVE  [Call!Next]_(Call!vars)
  BY <1>0, <1>4 DEF Acquire
<1>5. ASSUME NEW c \in Callers, Resolve(c)
      PROVE  [Call!Next]_(Call!vars)
  BY <1>0, <1>1, <1>5, ReplayIsAnswer DEF Resolve
<1>6. ASSUME NEW c \in Callers, ReacquireFailed(c) \/ StealExpired(c)
      PROVE  [Call!Next]_(Call!vars)
  <2>1. CASE lease.status # "completed" /\ Take(c)
    BY <1>0, <2>1 DEF Take, LeaseInv, TypeOK
  <2>2. CASE \E l \in {"resolve", "poll"} : Step(c, l)
    BY <1>0, <2>2
  <2> QED
    BY <1>6, <2>1, <2>2 DEF ReacquireFailed, StealExpired, LeaseInv, StealInv
<1>7. ASSUME NEW c \in Callers, Poll(c)
      PROVE  [Call!Next]_(Call!vars)
  BY <1>0, <1>1, <1>7, ReplayIsAnswer DEF Poll, LeaseInv, CallerInv, Matched
<1>8. ASSUME NEW c \in Callers, Commit(c)
      PROVE  [Call!Next]_(Call!vars)
  <2>1. lease.status = "pending"
    BY <1>8 DEF Commit, LeaseInv, SoleHolder, Holding
  <2>2. Call!Execute(c)
    BY <1>8, <2>1 DEF Commit, Call!Execute, LeaseInv, TypeOK
  <2> QED
    BY <1>1, <2>2
<1>9. ASSUME NEW c \in Callers, Fail(c)
      PROVE  [Call!Next]_(Call!vars)
  BY <1>0, <1>9 DEF Fail, LeaseInv, SoleHolder, Holding, TypeOK
<1>10. ASSUME NEW c \in Callers, Respond(c)
       PROVE  [Call!Next]_(Call!vars)
  <2>1. committed = {lease.result} /\ lease.status = "completed" /\ c \in committed
    BY <1>10 DEF Respond, LeaseInv, ResultInv, CallerInv
  <2>2. Call!Answer(c)
    BY <1>10, <2>1 DEF Respond, Call!Answer, LeaseInv, TypeOK, CallerInv
  <2> QED
    BY <1>1, <2>2
<1>11. CASE Expire
  BY <1>0, <1>11 DEF Expire, LeaseInv, TypeOK
<1>12. CASE ForeignChange \/ UNCHANGED vars
  BY <1>0, <1>12 DEF ForeignChange, vars
<1> QED
  BY <1>2, <1>3, <1>4, <1>5, <1>6, <1>7, <1>8, <1>9, <1>10, <1>11, <1>12
  DEF Next, Progress

\* The lease protocol implements the abstract tool call.
THEOREM LeaseImplementsToolCall == HolderPrompt => (Spec => ImplementsToolCall)
<1> SUFFICES ASSUME HolderPrompt PROVE Spec => Call!Spec
  BY DEF ImplementsToolCall
<1>1. Init => Call!Init
  BY DEF Init, Call!Init, NoLease
<1>2. LeaseInv /\ [Next]_vars => [Call!Next]_(Call!vars)
  BY StepRefines
<1> QED
  BY <1>1, <1>2, LeaseInvariant, PTL DEF Spec, Call!Spec
=============================================================================
