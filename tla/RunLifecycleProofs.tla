------------------------- MODULE RunLifecycleProofs -------------------------
(***************************************************************************)
(* What RunLifecycle guarantees for every number of invocations, gated     *)
(* calls and decision requests, provided a resume payload reaches the      *)
(* server once and from the client whose decision was recorded             *)
(* (ResumeOnce): D-56's single pending card, the lifecycle that is never   *)
(* rewritten, the decision that is never overwritten, and an undo that     *)
(* covers the whole run.                                                   *)
(*                                                                         *)
(* The strengthening, RunInv, says who holds the turn: one live invocation *)
(* with no card and no recorded decision waiting, or one card, or one      *)
(* decision whose resume is owed; and what each of them knows of the       *)
(* stored history.                                                         *)
(***************************************************************************)
EXTENDS RunLifecycle, TLAPS

\* One invocation runs at a time, on a run that is not over.
OneLive == \A i, j \in Live : i = j
LiveInv == Live # {} => status \notin Terminal

\* A card or an owed resume is about the call the history ends in.
CardInv == \A k \in Pending \cup owed :
  outstanding = k /\ status = "awaiting_approval" /\ Live = {}
OwedInv == \A k \in owed :
  /\ decision[k] \in Decisions
  /\ \A i \in Invocations : resumed[i] # k

\* A waiting run has someone to move it on, or is stranded in a known way.
SomeoneActs == status = "awaiting_approval" =>
  \/ Pending # {} \/ owed # {} \/ Live # {}
  \/ LostResume \/ Vanished

DeciderInv == \A d \in Deciders : dpc[d] = "decide" => dcall[d] \in Calls

\* Where each invocation stands.
InvocationInv == \A i \in Invocations :
  /\ resumed[i] \in Calls => decision[resumed[i]] \in Decisions
  /\ status = "awaiting_approval" /\ pc[i] \in {"stream", "save"} =>
       outstanding = resumed[i]
  /\ status = "awaiting_approval" /\ pc[i] = "fail" =>
       outstanding \in {resumed[i], deferred[i]}
  /\ pc[i] \in {"load", "authorize", "execute"} =>
       resumed[i] \in Calls /\ decision[resumed[i]] \in Decisions
  /\ pc[i] = "execute" => decision[resumed[i]] = "approved"
  /\ pc[i] \in {"idle", "load", "authorize", "execute", "stream"} =>
       deferred[i] = NoCall
  /\ pc[i] \in {"save", "settle"} /\ deferred[i] # NoCall =>
       decision[deferred[i]] = "none"
  /\ pc[i] = "settle" => outstanding = deferred[i]

UndoInv == effect = "compensated" => status \in Terminal

RunInv == /\ TypeOK
          /\ OneLive
          /\ LiveInv
          /\ CardInv
          /\ OwedInv
          /\ SomeoneActs
          /\ DeciderInv
          /\ InvocationInv
          /\ ResumesItsOwnCall
          /\ ExecutedWereApproved
          /\ UndoInv

----------------------------------------------------------------------------

LEMMA InitRunInv == Init => RunInv
BY RunAssumption
   DEF Init, RunInv, TypeOK, OneLive, LiveInv, CardInv, OwedInv, SomeoneActs,
       DeciderInv, InvocationInv, ResumesItsOwnCall, ExecutedWereApproved,
       UndoInv, Live, Pending, PCs, Ended, Decisions, Terminal

\* An invocation that goes on leaves the turn where it is, one that ends
\* leaves nobody live.
LEMMA LiveGoesOn ==
  ASSUME TypeOK, NEW i \in Invocations, NEW l \in PCs, Goto(i, l),
         pc[i] \notin Ended, l \notin Ended
  PROVE  Live' = Live
BY DEF TypeOK, Goto, Live

LEMMA LiveEnds ==
  ASSUME TypeOK, OneLive, NEW i \in Invocations, NEW l \in Ended, Goto(i, l),
         pc[i] \notin Ended
  PROVE  Live' = {}
BY DEF TypeOK, OneLive, Goto, Live, Ended, PCs

\* While an invocation is live no card is pending and no resume is owed.
LEMMA LiveAlone ==
  ASSUME RunInv, NEW i \in Invocations, pc[i] \notin Ended
  PROVE  Pending = {} /\ owed = {} /\ status \notin Terminal
BY DEF RunInv, LiveInv, CardInv, Live

\* What a continuation is about, wherever it vanishes.
LEMMA LiveKnowsTheCall ==
  ASSUME RunInv, NEW i \in Invocations, pc[i] \notin Ended,
         status = "awaiting_approval"
  PROVE  outstanding \in {resumed[i], deferred[i]}
BY DEF RunInv, TypeOK, InvocationInv, ResumesItsOwnCall, PCs, Ended

\* A step that moves one live invocation along and touches nothing else.
LEMMA StepKeeps ==
  ASSUME RunInv, NEW i \in Invocations, NEW l \in PCs, Step(i, l),
         pc[i] \notin Ended,
         l \in {"load", "authorize", "execute"} =>
           /\ pc[i] \in {"load", "authorize", "execute"}
           /\ l = "execute" => decision[resumed[i]] = "approved",
         l = "stream" =>
           pc[i] \in {"load", "authorize", "execute", "stream"},
         l = "save" => pc[i] = "stream" /\ deferred[i] = NoCall,
         l \notin {"settle", "idle", "done"}
  PROVE  RunInv'
<1> USE DEF RunInv
<1>1. UNCHANGED <<status, outstanding, decision, expired, effect, executed,
                  resumed, deferred, dpc, dcall, owed>>
      /\ Goto(i, l)
  BY DEF Step, run
<1>2. TypeOK'
  BY <1>1 DEF TypeOK, Goto
<1>3. Pending' = Pending /\ Pending = {} /\ owed' = {} /\ status \notin Terminal
  BY <1>1, LiveAlone DEF Pending
<1>4. Live' = Live \/ (Live' = {} /\ l = "dead")
  BY <1>1, LiveGoesOn, LiveEnds DEF Ended
<1>5. OneLive' /\ LiveInv' /\ CardInv' /\ OwedInv'
  BY <1>1, <1>3, <1>4 DEF OneLive, LiveInv, CardInv, OwedInv
<1>6. SomeoneActs'
  <2>1. CASE l = "dead"
    <3>1. pc'[i] = "dead"
      BY <1>1, <2>1 DEF TypeOK, Goto
    <3> QED BY <1>1, <3>1, LiveKnowsTheCall DEF SomeoneActs, Vanished
  <2>2. CASE l # "dead"
    BY <1>1, <1>4, <2>2 DEF SomeoneActs, Live
  <2> QED BY <2>1, <2>2
<1>7. InvocationInv' /\ ResumesItsOwnCall'
  BY <1>1, LiveKnowsTheCall
     DEF InvocationInv, ResumesItsOwnCall, TypeOK, Goto, PCs, Ended
<1>8. DeciderInv' /\ ExecutedWereApproved' /\ UndoInv'
  BY <1>1 DEF DeciderInv, ExecutedWereApproved, UndoInv
<1> QED BY <1>2, <1>5, <1>6, <1>7, <1>8

\* Every step keeps the turn with one holder.
LEMMA NextRunInv ==
  ASSUME ResumeOnce, RunInv, [Next]_vars
  PROVE  RunInv'
<1> USE DEF RunInv
<1>1. ASSUME NEW d \in Deciders, Decide(d) PROVE RunInv'
  <2>1. CASE decision[dcall[d]] = "pending"
    <3>1. dcall[d] \in Calls
      BY <1>1 DEF Decide, DeciderInv
    <3>2. PICK answer \in Decisions :
            decision' = [decision EXCEPT ![dcall[d]] = answer]
      BY <1>1, <2>1 DEF Decide
    <3>3. /\ owed' = owed \cup {dcall[d]}
          /\ dpc' = [dpc EXCEPT ![d] = "done"]
          /\ UNCHANGED <<status, outstanding, expired, effect, executed, pc,
                         resumed, deferred, dcall>>
      BY <1>1, <2>1 DEF Decide
    <3>4. dcall[d] \in Pending /\ Live = {} /\ outstanding = dcall[d]
          /\ status = "awaiting_approval"
      BY <2>1, <3>1 DEF Pending, CardInv
    <3>5. TypeOK'
      BY <3>1, <3>2, <3>3 DEF TypeOK, Decisions
    <3>6. Live' = {} /\ Pending' \subseteq Pending
      BY <3>1, <3>2, <3>3, <3>4 DEF Live, Pending, TypeOK, Decisions
    <3>7. OneLive' /\ LiveInv' /\ CardInv' /\ SomeoneActs'
      BY <3>3, <3>4, <3>6 DEF OneLive, LiveInv, CardInv, SomeoneActs
    <3>8. OwedInv' /\ DeciderInv'
      BY <2>1, <3>1, <3>2, <3>3
         DEF OwedInv, DeciderInv, TypeOK, InvocationInv, Decisions
    <3>9. InvocationInv' /\ ResumesItsOwnCall'
      BY <3>2, <3>3, <3>4
         DEF InvocationInv, ResumesItsOwnCall, Live, Ended, TypeOK
    <3>10. ExecutedWereApproved' /\ UndoInv'
      BY <2>1, <3>1, <3>2, <3>3 DEF ExecutedWereApproved, UndoInv, TypeOK
    <3> QED BY <3>5, <3>7, <3>8, <3>9, <3>10
  <2>2. CASE decision[dcall[d]] # "pending"
    <3>1. /\ dpc' = [dpc EXCEPT ![d] = "done"]
          /\ UNCHANGED <<status, outstanding, decision, expired, effect,
                         executed, pc, resumed, deferred, dcall, owed>>
      BY <1>1, <2>2 DEF Decide
    <3>2. TypeOK' /\ DeciderInv'
      BY <3>1 DEF TypeOK, DeciderInv
    <3>3. Live' = Live /\ Pending' = Pending
      BY <3>1 DEF Live, Pending
    <3> QED BY <3>1, <3>2, <3>3
            DEF OneLive, LiveInv, CardInv, OwedInv, SomeoneActs, LostResume,
                Vanished, InvocationInv, ResumesItsOwnCall, ExecutedWereApproved, UndoInv
  <2> QED BY <2>1, <2>2
<1>2. ASSUME NEW d \in Deciders, NEW k \in Calls, CheckDecision(d, k)
      PROVE  RunInv'
  <2>1. /\ dpc' = [dpc EXCEPT ![d] = "decide"]
        /\ dcall' = [dcall EXCEPT ![d] = k]
        /\ UNCHANGED <<status, outstanding, decision, expired, effect,
                       executed, pc, resumed, deferred, owed>>
    BY <1>2 DEF CheckDecision, run
  <2>2. TypeOK' /\ DeciderInv'
    BY <2>1 DEF TypeOK, DeciderInv
  <2>3. Live' = Live /\ Pending' = Pending
    BY <2>1 DEF Live, Pending
  <2> QED BY <2>1, <2>2, <2>3
          DEF OneLive, LiveInv, CardInv, OwedInv, SomeoneActs, LostResume,
              Vanished, InvocationInv, ResumesItsOwnCall, ExecutedWereApproved, UndoInv
<1>3. ASSUME NEW i \in Invocations, NEW k \in Calls, Resume(i, k)
      PROVE  RunInv'
  <2>1. /\ pc[i] = "idle" /\ k \in owed
        /\ pc' = [pc EXCEPT ![i] = "load"]
        /\ resumed' = [resumed EXCEPT ![i] = k]
        /\ owed' = owed \ {k}
        /\ UNCHANGED <<status, outstanding, decision, expired, effect,
                       executed, deferred, dpc, dcall>>
    BY <1>3 DEF Resume, Goto, run
  <2>2. Live = {} /\ status = "awaiting_approval" /\ outstanding = k
    BY <2>1 DEF CardInv
  <2>3. Pending = {} /\ owed' = {}
    BY <2>1, <2>2 DEF CardInv, OwedInv, Pending, Decisions
  <2>4. TypeOK'
    BY <2>1 DEF TypeOK, PCs
  <2>5. Live' = {i} /\ Pending' = {}
    BY <2>1, <2>2, <2>3 DEF Live, Pending, TypeOK, Ended
  <2>6. OneLive' /\ LiveInv' /\ CardInv' /\ OwedInv' /\ SomeoneActs'
    BY <2>1, <2>2, <2>3, <2>5
       DEF OneLive, LiveInv, CardInv, OwedInv, SomeoneActs, Terminal
  <2>7. InvocationInv' /\ ResumesItsOwnCall'
    BY <2>1, <2>2
       DEF InvocationInv, ResumesItsOwnCall, TypeOK, OwedInv
  <2>8. DeciderInv' /\ ExecutedWereApproved' /\ UndoInv'
    BY <2>1 DEF DeciderInv, ExecutedWereApproved, UndoInv
  <2> QED BY <2>4, <2>6, <2>7, <2>8
<1>4. ASSUME NEW i \in Invocations, LoadHistory(i) PROVE RunInv'
  <2>1. ASSUME NEW l \in {"authorize", "stream", "fail"}, Step(i, l)
        PROVE  RunInv'
    BY <1>4, <2>1, StepKeeps DEF LoadHistory, PCs, Ended
  <2> QED BY <1>4, <2>1 DEF LoadHistory
<1>5. ASSUME NEW i \in Invocations, Authorize(i) PROVE RunInv'
  <2>1. ASSUME NEW l \in {"stream", "fail"}, Step(i, l) PROVE RunInv'
    BY <1>5, <2>1, StepKeeps DEF Authorize, PCs, Ended
  <2>2. ASSUME decision[resumed[i]] = "approved", Step(i, "execute")
        PROVE  RunInv'
    BY <1>5, <2>2, StepKeeps DEF Authorize, PCs, Ended
  <2> QED BY <1>5, <2>1, <2>2 DEF Authorize
<1>6. ASSUME NEW i \in Invocations, ExecuteGated(i) PROVE RunInv'
  <2>1. /\ pc[i] = "execute" /\ Goto(i, "stream")
        /\ executed' = executed \cup {resumed[i]}
        /\ effect' \in {effect, "live"}
        /\ UNCHANGED <<status, outstanding, decision, expired, resumed,
                       deferred, dpc, dcall, owed>>
    BY <1>6 DEF ExecuteGated
  <2>2. resumed[i] \in Calls /\ decision[resumed[i]] = "approved"
    BY <2>1 DEF InvocationInv
  <2>3. TypeOK'
    BY <2>1, <2>2 DEF TypeOK, Goto, PCs
  <2>4. Live' = Live /\ Pending' = Pending
    BY <2>1, LiveGoesOn DEF PCs, Ended, Pending
  <2>5. OneLive' /\ LiveInv' /\ CardInv' /\ OwedInv'
    BY <2>1, <2>4 DEF OneLive, LiveInv, CardInv, OwedInv
  <2>6. SomeoneActs'
    BY <2>1, <2>4 DEF SomeoneActs, Live, Ended
  <2>7. InvocationInv' /\ ResumesItsOwnCall'
    BY <2>1 DEF InvocationInv, ResumesItsOwnCall, TypeOK, Goto
  <2>8. DeciderInv' /\ ExecutedWereApproved' /\ UndoInv'
    BY <2>1, <2>2 DEF DeciderInv, ExecutedWereApproved, UndoInv
  <2> QED BY <2>3, <2>5, <2>6, <2>7, <2>8
<1>7. ASSUME NEW i \in Invocations, RefuseGated(i) PROVE RunInv'
  <2>1. ASSUME NEW l \in {"stream", "fail"}, Step(i, l) PROVE RunInv'
    BY <1>7, <2>1, StepKeeps DEF RefuseGated, PCs, Ended
  <2> QED BY <1>7, <2>1 DEF RefuseGated
<1>8. ASSUME NEW i \in Invocations, Mutate(i) PROVE RunInv'
  <2>1. /\ pc[i] = "stream" /\ effect' = "live"
        /\ UNCHANGED <<status, outstanding, decision, expired, executed, pc,
                       resumed, deferred, dpc, dcall, owed>>
    BY <1>8 DEF Mutate
  <2>2. Live' = Live /\ Pending' = Pending
    BY <2>1 DEF Live, Pending
  <2> QED BY <2>1, <2>2
          DEF TypeOK, OneLive, LiveInv, CardInv, OwedInv, SomeoneActs,
              LostResume, Vanished, InvocationInv, DeciderInv, ResumesItsOwnCall,
              ExecutedWereApproved, UndoInv
<1>9. ASSUME NEW i \in Invocations, NEW k \in Calls, Defer(i, k) PROVE RunInv'
  <2>1. /\ pc[i] = "stream" /\ Goto(i, "save") /\ decision[k] = "none"
        /\ deferred' = [deferred EXCEPT ![i] = k]
        /\ UNCHANGED <<status, outstanding, decision, expired, effect,
                       executed, resumed, dpc, dcall, owed>>
    BY <1>9 DEF Defer, Fresh, run
  <2>2. TypeOK'
    BY <2>1 DEF TypeOK, Goto, PCs
  <2>3. Live' = Live /\ Pending' = Pending
    BY <2>1, LiveGoesOn DEF PCs, Ended, Pending
  <2>4. OneLive' /\ LiveInv' /\ CardInv' /\ OwedInv'
    BY <2>1, <2>3 DEF OneLive, LiveInv, CardInv, OwedInv
  <2>5. SomeoneActs'
    BY <2>1, <2>3 DEF SomeoneActs, Live, Ended
  <2>6. InvocationInv' /\ ResumesItsOwnCall'
    BY <2>1 DEF InvocationInv, ResumesItsOwnCall, TypeOK, Goto
  <2>7. DeciderInv' /\ ExecutedWereApproved' /\ UndoInv'
    BY <2>1 DEF DeciderInv, ExecutedWereApproved, UndoInv
  <2> QED BY <2>2, <2>4, <2>5, <2>6, <2>7
<1>10. ASSUME NEW i \in Invocations, Finish(i) PROVE RunInv'
  BY <1>10, StepKeeps DEF Finish, PCs, Ended, InvocationInv
<1>11. ASSUME NEW i \in Invocations, Raise(i) PROVE RunInv'
  BY <1>11, StepKeeps DEF Raise, PCs, Ended
<1>12. ASSUME NEW i \in Invocations, SaveHistory(i) PROVE RunInv'
  <2>1. /\ pc[i] = "save" /\ Goto(i, "settle") /\ outstanding' = deferred[i]
        /\ UNCHANGED <<status, decision, expired, effect, executed, resumed,
                       deferred, dpc, dcall, owed>>
    BY <1>12 DEF SaveHistory
  <2>2. TypeOK'
    BY <2>1 DEF TypeOK, Goto, PCs
  <2>3. Live' = Live /\ Pending' = {} /\ owed' = {}
    BY <2>1, LiveGoesOn, LiveAlone DEF PCs, Ended, Pending
  <2>4. OneLive' /\ LiveInv' /\ CardInv' /\ OwedInv'
    BY <2>1, <2>3 DEF OneLive, LiveInv, CardInv, OwedInv
  <2>5. SomeoneActs'
    BY <2>1, <2>3 DEF SomeoneActs, Live, Ended
  <2>6. \A j \in Invocations \ {i} : pc[j] \in Ended
    BY <2>1 DEF OneLive, Live, Ended
  <2>7. InvocationInv' /\ ResumesItsOwnCall'
    BY <2>1, <2>6 DEF InvocationInv, ResumesItsOwnCall, TypeOK, Goto, Ended
  <2>8. DeciderInv' /\ ExecutedWereApproved' /\ UndoInv'
    BY <2>1 DEF DeciderInv, ExecutedWereApproved, UndoInv
  <2> QED BY <2>2, <2>4, <2>5, <2>7, <2>8
<1>13. ASSUME NEW i \in Invocations, OpenApproval(i) PROVE RunInv'
  <2>1. CASE Step(i, "fail")
    BY <1>13, <2>1, StepKeeps DEF OpenApproval, OpenRow, PCs, Ended
  <2>2. CASE /\ decision' = [decision EXCEPT ![deferred[i]] = "pending"]
             /\ status' = "awaiting_approval"
             /\ Goto(i, "done")
             /\ UNCHANGED <<outstanding, expired, effect, executed, resumed,
                            deferred, dpc, dcall, owed>>
    <3>1. /\ pc[i] = "settle" /\ deferred[i] \in Calls
          /\ outstanding = deferred[i] /\ decision[deferred[i]] = "none"
      BY <1>13 DEF OpenApproval, OpenRow, InvocationInv, TypeOK
    <3>2. TypeOK'
      BY <2>2, <3>1 DEF TypeOK, Goto, PCs
    <3>3. Live' = {} /\ Pending = {} /\ owed' = {} /\ status \notin Terminal
      BY <2>2, <3>1, LiveEnds, LiveAlone DEF Ended
    <3>4. Pending' = {deferred[i]}
      BY <2>2, <3>1, <3>3 DEF Pending, TypeOK
    <3>5. OneLive' /\ LiveInv' /\ CardInv' /\ OwedInv' /\ SomeoneActs'
      BY <2>2, <3>1, <3>3, <3>4
         DEF OneLive, LiveInv, CardInv, OwedInv, SomeoneActs
    <3>6. \A j \in Invocations : pc'[j] \in Ended
      BY <3>3 DEF Live
    <3>7. InvocationInv' /\ ResumesItsOwnCall'
      BY <2>2, <3>6, <3>1
         DEF InvocationInv, ResumesItsOwnCall, TypeOK, Goto, Ended, Decisions
    <3>8. DeciderInv' /\ ExecutedWereApproved' /\ UndoInv'
      BY <2>2, <3>1, <3>3
         DEF DeciderInv, ExecutedWereApproved, UndoInv, TypeOK
    <3> QED BY <3>2, <3>5, <3>7, <3>8
  <2> QED BY <1>13, <2>1, <2>2 DEF OpenApproval, OpenRow
<1>14. ASSUME NEW i \in Invocations, Complete(i) \/ Fail(i) PROVE RunInv'
  <2>1. /\ pc[i] \in {"settle", "fail"} /\ Goto(i, "done")
        /\ status' \in Terminal
        /\ UNCHANGED <<outstanding, decision, expired, effect, executed,
                       resumed, deferred, dpc, dcall, owed>>
    BY <1>14 DEF Complete, Fail, Terminal
  <2>2. TypeOK'
    BY <2>1 DEF TypeOK, Goto, PCs
  <2>3. Live' = {} /\ Pending' = {} /\ owed' = {}
    BY <2>1, LiveEnds, LiveAlone DEF Ended, Pending
  <2>4. OneLive' /\ LiveInv' /\ CardInv' /\ OwedInv' /\ SomeoneActs'
    BY <2>1, <2>3
       DEF OneLive, LiveInv, CardInv, OwedInv, SomeoneActs, Terminal
  <2>5. InvocationInv' /\ ResumesItsOwnCall'
    BY <2>1 DEF InvocationInv, ResumesItsOwnCall, TypeOK, Goto, Terminal
  <2>6. DeciderInv' /\ ExecutedWereApproved' /\ UndoInv'
    BY <2>1 DEF DeciderInv, ExecutedWereApproved, UndoInv
  <2> QED BY <2>2, <2>4, <2>5, <2>6
<1>15. ASSUME NEW i \in Invocations, Vanish(i) PROVE RunInv'
  BY <1>15, StepKeeps DEF Vanish, PCs
<1>16. ASSUME NEW k \in Calls, ExpireApproval(k) PROVE RunInv'
  <2>1. /\ expired' = expired \cup {k}
        /\ UNCHANGED <<status, outstanding, decision, effect, executed, pc,
                       resumed, deferred, dpc, dcall, owed>>
    BY <1>16 DEF ExpireApproval
  <2>2. Live' = Live /\ Pending' = Pending
    BY <2>1 DEF Live, Pending
  <2> QED BY <2>1, <2>2
          DEF TypeOK, OneLive, LiveInv, CardInv, OwedInv, SomeoneActs,
              LostResume, Vanished, InvocationInv, DeciderInv, ResumesItsOwnCall,
              ExecutedWereApproved, UndoInv
<1>17. ASSUME NEW k \in Calls, LoseResume(k) PROVE RunInv'
  <2>1. /\ k \in owed /\ owed' = owed \ {k}
        /\ UNCHANGED <<status, outstanding, decision, expired, effect,
                       executed, pc, resumed, deferred, dpc, dcall>>
    BY <1>17 DEF LoseResume, run
  <2>2. Live' = Live /\ Pending' = Pending
    BY <2>1 DEF Live, Pending
  <2>3. LostResume'
    BY <2>1 DEF LostResume, OwedInv, CardInv
  <2> QED BY <2>1, <2>2, <2>3
          DEF TypeOK, OneLive, LiveInv, CardInv, OwedInv, SomeoneActs,
              LostResume, Vanished, InvocationInv, DeciderInv, ResumesItsOwnCall,
              ExecutedWereApproved, UndoInv
<1>18. CASE Undo
  <2>1. /\ effect' = "compensated" /\ status \in Terminal
        /\ UNCHANGED <<status, outstanding, decision, expired, executed, pc,
                       resumed, deferred, dpc, dcall, owed>>
    BY <1>18 DEF Undo
  <2>2. Live' = Live /\ Pending' = Pending
    BY <2>1 DEF Live, Pending
  <2> QED BY <2>1, <2>2
          DEF TypeOK, OneLive, LiveInv, CardInv, OwedInv, SomeoneActs,
              LostResume, Vanished, InvocationInv, DeciderInv, ResumesItsOwnCall,
              ExecutedWereApproved, UndoInv
<1>19. CASE UNCHANGED vars
  <2>1. Live' = Live /\ Pending' = Pending
    BY <1>19 DEF vars, Live, Pending
  <2> QED BY <1>19, <2>1
          DEF vars, TypeOK, OneLive, LiveInv, CardInv, OwedInv, SomeoneActs,
              LostResume, Vanished, InvocationInv, DeciderInv, ResumesItsOwnCall,
              ExecutedWereApproved, UndoInv
<1> QED
  BY <1>1, <1>2, <1>3, <1>4, <1>5, <1>6, <1>7, <1>8, <1>9, <1>10, <1>11,
     <1>12, <1>13, <1>14, <1>15, <1>16, <1>17, <1>18,
     <1>19 DEF Next, Turn, Progress

----------------------------------------------------------------------------

\* The invariant of every behaviour.
THEOREM RunInvariant == ResumeOnce => (Spec => []RunInv)
<1> SUFFICES ASSUME ResumeOnce PROVE Spec => []RunInv
  OBVIOUS
<1>1. RunInv /\ [Next]_vars => RunInv'
  BY NextRunInv
<1> QED BY <1>1, InitRunInv, PTL DEF Spec

\* Type correctness of the run, its approvals and its invocations.
THEOREM RunTypeCorrect == ResumeOnce => (Spec => []TypeOK)
<1>1. RunInv => TypeOK
  BY DEF RunInv
<1> QED BY <1>1, RunInvariant, PTL

\* D-56: a run has one pending card at most.
THEOREM OneCard == ResumeOnce => (Spec => []AtMostOnePending)
<1>1. RunInv => AtMostOnePending
  BY DEF RunInv, AtMostOnePending, CardInv
<1> QED BY <1>1, RunInvariant, PTL

\* open_approval and the status in one transaction: a run that waits is waiting
\* for that card or for someone who can move it on, unless its card expired, its
\* resume was lost or its continuation vanished.
THEOREM SomeoneIsWaitedFor == ResumeOnce => (Spec => []WaitsForItsCard)
<1>1. RunInv => WaitsForItsCard
  BY DEF RunInv, WaitsForItsCard, CardInv, SomeoneActs, Actionable, ExpiredCard
<1> QED BY <1>1, RunInvariant, PTL

\* policy.check before the tool body: whatever gated call ran had been approved.
THEOREM GatedCallsApproved == ResumeOnce => (Spec => []ExecutedWereApproved)
<1>1. RunInv => ExecutedWereApproved
  BY DEF RunInv
<1> QED BY <1>1, RunInvariant, PTL

\* The continuation resumes the call its stored history ends in.
THEOREM ResumesOwnCall == ResumeOnce => (Spec => []ResumesItsOwnCall)
<1>1. RunInv => ResumesItsOwnCall
  BY DEF RunInv
<1> QED BY <1>1, RunInvariant, PTL

\* The steps that write the status leave a run that is over alone.
LEMMA TerminalStep ==
  ASSUME ResumeOnce, RunInv, [Next]_vars, status \in Terminal
  PROVE  status' = status /\ (effect = "compensated" => effect' = effect)
<1>1. Live = {} /\ owed = {}
  BY DEF RunInv, LiveInv, CardInv, Terminal
<1>2. \A i \in Invocations : pc[i] \in Ended
  BY <1>1 DEF Live
<1>3. ASSUME NEW i \in Invocations, Progress(i) \/ Mutate(i) PROVE FALSE
  BY <1>2, <1>3
     DEF Progress, Mutate, LoadHistory, Authorize, ExecuteGated, RefuseGated,
         Defer, Finish, Raise, SaveHistory, OpenApproval, OpenRow, Complete,
         Fail, Ended
<1> QED
  BY <1>3
     DEF Next, Turn, CheckDecision, Decide, Resume, LoseResume, Vanish, Step,
         ExpireApproval, Undo, vars, run

\* "nothing may rewrite a terminal one": the lifecycle has one end.
THEOREM TerminalFinal == ResumeOnce => (Spec => TerminalIsFinal)
<1> SUFFICES ASSUME ResumeOnce PROVE Spec => TerminalIsFinal
  OBVIOUS
<1>1. RunInv /\ [Next]_vars =>
        [(status \in Terminal) => status' = status]_vars
  BY TerminalStep
<1> QED BY <1>1, RunInvariant, PTL DEF Spec, TerminalIsFinal

\* attempt_run_undo: an undone run has no later effect.
THEOREM UndoCovers == ResumeOnce => (Spec => UndoCoversTheRun)
<1> SUFFICES ASSUME ResumeOnce PROVE Spec => UndoCoversTheRun
  OBVIOUS
<1>1. RunInv /\ [Next]_vars =>
        [effect = "compensated" => effect' = effect]_vars
  BY TerminalStep DEF RunInv, UndoInv
<1> QED BY <1>1, RunInvariant, PTL DEF Spec, UndoCoversTheRun

\* decide_approval: the first recorded answer stands, because the update is
\* guarded and a new approval row is only ever opened for a fresh call.
THEOREM DecisionFinal == ResumeOnce => (Spec => DecisionIsFinal)
<1>1. ASSUME RunInv, [Next]_vars, NEW k \in Calls, decision[k] \in Decisions
      PROVE  decision'[k] = decision[k]
  <2> USE <1>1 DEF RunInv, TypeOK, Decisions
  <2>1. ASSUME NEW d \in Deciders, Decide(d) PROVE decision'[k] = decision[k]
    BY <2>1 DEF Decide, DeciderInv
  <2>2. ASSUME NEW i \in Invocations, OpenApproval(i)
        PROVE  decision'[k] = decision[k]
    BY <2>2 DEF OpenApproval, OpenRow, InvocationInv, Step, run
  <2>3. ASSUME NEW i \in Invocations, Progress(i), ~OpenApproval(i)
        PROVE  decision' = decision
    BY <2>3
       DEF Progress, LoadHistory, Authorize, ExecuteGated, RefuseGated, Defer,
           Finish, Raise, SaveHistory, Complete, Fail, Step, run
  <2> QED
    BY <2>1, <2>2, <2>3
       DEF Next, Turn, CheckDecision, Resume, LoseResume, Mutate, Vanish, Step,
           ExpireApproval, Undo, vars, run
<1>2. RunInv /\ [Next]_vars =>
        [\A k \in Calls :
           decision[k] \in Decisions => decision'[k] = decision[k]]_vars
  BY <1>1
<1> QED BY <1>2, RunInvariant, PTL DEF Spec, DecisionIsFinal
=============================================================================
