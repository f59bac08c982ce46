-------------------------- MODULE ControlTurnProofs --------------------------
(***************************************************************************)
(* The control turn for every number of racing undos of one run: beside    *)
(* its control turns a run behaves as RunLifecycle says, and no control    *)
(* turn ever tells the user something untrue of the run it undid.          *)
(*                                                                         *)
(* The argument rests on RunLifecycle's invariant: a run that is over has  *)
(* no live invocation, so its effect changes only by the one compensation. *)
(***************************************************************************)
EXTENDS ControlTurn, RunLifecycleProofs

\* What each place of a control turn knows.
PlaceInv == \A u \in Undoers :
  /\ cpc[u] = "idle" => cstatus[u] = "none"
  /\ cpc[u] \in {"attempt", "complete"} => cstatus[u] = "running"
  /\ cpc[u] \in {"idle", "attempt"} => answer[u] = "none"
  /\ cpc[u] = "finished" => cstatus[u] = "completed"
  /\ cpc[u] = "stopped" => cstatus[u] \in {"running", "failed"}

\* What an answer says of the target, whether or not it was ever stored.
AnswerInv == \A u \in Undoers :
  /\ answer[u] \in {"applied", "already"} => effect = "compensated"
  /\ answer[u] = "no_effects" => status \in Terminal /\ effect = "none"

ControlInv == ControlTypeOK /\ PlaceInv /\ AnswerInv /\ ControlTellsTheTruth

----------------------------------------------------------------------------

\* The composition changes nothing of the run: a control turn's step is the
\* undo RunLifecycle has, or a stutter.
LEMMA ControlStep == [ControlNext]_controlVars => [Next]_vars
<1> SUFFICES ASSUME [ControlNext]_controlVars PROVE [Next]_vars
  OBVIOUS
<1>1. CASE Turn
  BY <1>1 DEF Next
<1>2. ASSUME NEW u \in Undoers, AttemptUndo(u) PROVE [Next]_vars
  BY <1>2 DEF AttemptUndo, Next
<1>3. ASSUME NEW u \in Undoers,
             \/ StartControl(u) \/ CompleteControl(u)
             \/ FailControl(u) \/ AbandonControl(u)
      PROVE  UNCHANGED vars
  BY <1>3 DEF StartControl, CompleteControl, FailControl, AbandonControl
<1>4. CASE UNCHANGED controlVars
  BY <1>4 DEF controlVars
<1> QED BY <1>1, <1>2, <1>3, <1>4 DEF ControlNext, UndoPrevious

\* The run and its control turns together implement the run.
THEOREM ControlImplementsRun == ControlSpec => Spec
<1>1. ControlInit => Init
  BY DEF ControlInit
<1> QED BY <1>1, ControlStep, PTL DEF ControlSpec, Spec

----------------------------------------------------------------------------

\* A run that is over does nothing; before that it only ever becomes live.
LEMMA TurnEffect ==
  ASSUME RunInv, Turn
  PROVE  /\ status \in Terminal => status' = status /\ effect' = effect
         /\ effect' \in {effect, "live"}
<1> USE DEF RunInv
<1>1. ASSUME status \in Terminal,
             NEW i \in Invocations, Progress(i) \/ Mutate(i)
      PROVE  FALSE
  <2>1. pc[i] \in Ended
    BY <1>1 DEF LiveInv, Live
  <2> QED
    BY <1>1, <2>1
       DEF Progress, Mutate, LoadHistory, Authorize, ExecuteGated, RefuseGated,
           Defer, Finish, Raise, SaveHistory, OpenApproval, OpenRow, Complete,
           Fail, Ended
<1>2. ASSUME NEW i \in Invocations, Progress(i) \/ Mutate(i)
      PROVE  effect' \in {effect, "live"}
  BY <1>2
     DEF Progress, Mutate, LoadHistory, Authorize, ExecuteGated, RefuseGated,
         Defer, Finish, Raise, SaveHistory, OpenApproval, OpenRow, Complete,
         Fail, Step, run
<1>3. ASSUME NEW i \in Invocations,
             Vanish(i) \/ \E k \in Calls : Resume(i, k)
      PROVE  status' = status /\ effect' = effect
  BY <1>3 DEF Vanish, Resume, Step, run
<1>4. ASSUME \/ \E d \in Deciders : Decide(d) \/ \E k \in Calls : CheckDecision(d, k)
             \/ \E k \in Calls : LoseResume(k) \/ ExpireApproval(k)
      PROVE  status' = status /\ effect' = effect
  BY <1>4 DEF Decide, CheckDecision, LoseResume, ExpireApproval, run
<1> QED BY <1>1, <1>2, <1>3, <1>4 DEF Turn

LEMMA InitControlInv == ControlInit => ControlInv
BY DEF ControlInit, Init, ControlInv, ControlTypeOK, PlaceInv, AnswerInv,
       ControlTellsTheTruth, AnswersStayTrue, FailureTellsTheUndo, Appliers,
       Answers

LEMMA NextControlInv ==
  ASSUME RunInv, ControlInv, [ControlNext]_controlVars
  PROVE  ControlInv'
<1> USE DEF ControlInv, ControlTellsTheTruth
<1>1. CASE Turn /\ UNCHANGED control
  <2>1. /\ status \in Terminal => status' = status /\ effect' = effect
        /\ effect' \in {effect, "live"}
    BY <1>1, TurnEffect
  <2>2. effect = "compensated" => effect' = effect
    BY <2>1 DEF RunInv, UndoInv
  <2>3. UNCHANGED <<cpc, cstatus, inherits, answer, story, cerror>>
    BY <1>1 DEF control
  <2>4. ControlTypeOK' /\ PlaceInv'
    BY <2>3 DEF ControlTypeOK, PlaceInv
  <2>5. AnswerInv'
    BY <2>1, <2>2, <2>3 DEF AnswerInv
  <2>6. AnswersStayTrue'
    BY <2>1, <2>2, <2>3, <2>5
       DEF AnswersStayTrue, FailureTellsTheUndo, Appliers, AnswerInv
  <2>7. FailureTellsTheUndo'
    BY <2>1, <2>3 DEF FailureTellsTheUndo, Terminal
  <2> QED BY <2>4, <2>5, <2>6, <2>7
<1>2. ASSUME NEW u \in Undoers, StartControl(u) PROVE ControlInv'
  BY <1>2
     DEF StartControl, InheritsTarget, vars, ControlTypeOK, PlaceInv, AnswerInv,
         AnswersStayTrue, FailureTellsTheUndo, Appliers, Answers
<1>3. ASSUME NEW u \in Undoers, AttemptUndo(u) PROVE ControlInv'
  <2>1. CASE Told(u, "applied") /\ Undo
    <3>1. effect = "live" /\ status \in Terminal
      BY <2>1 DEF Undo
    <3>2. effect' = "compensated" /\ status' = status
      BY <2>1 DEF Undo
    <3>3. Appliers = {}
      BY <3>1 DEF AnswersStayTrue
    <3>4. Appliers' = {u}
      BY <2>1, <3>3 DEF Told, Appliers, ControlTypeOK
    <3>5. ControlTypeOK' /\ PlaceInv'
      BY <2>1 DEF Told, ControlTypeOK, PlaceInv, Answers
    <3>6. \A w \in Undoers : answer[w] # "no_effects"
      BY <3>1 DEF AnswerInv
    <3>7. AnswerInv'
      BY <2>1, <3>1, <3>2, <3>6 DEF Told, AnswerInv, ControlTypeOK
    <3>8. FailureTellsTheUndo'
      BY <2>1, <3>2 DEF Told, FailureTellsTheUndo, ControlTypeOK, PlaceInv
    <3>9. AnswersStayTrue'
      <4>1. \A w \in Undoers : story'[w] # "no_effects"
        BY <2>1, <3>6 DEF Told, FailureTellsTheUndo
      <4> QED BY <3>2, <3>4, <4>1 DEF AnswersStayTrue
    <3> QED BY <3>5, <3>7, <3>8, <3>9
  <2>2. ASSUME NEW text \in Answers \ {"applied"}, Told(u, text), UNCHANGED vars,
               text \in {"already"} => effect = "compensated",
               text = "no_effects" => status \in Terminal /\ effect = "none"
        PROVE  ControlInv'
    <3>1. effect' = effect /\ status' = status
      BY <2>2 DEF vars
    <3>2. Appliers' = Appliers
      BY <2>2 DEF Told, Appliers, ControlTypeOK, PlaceInv
    <3>3. ControlTypeOK' /\ PlaceInv'
      BY <2>2 DEF Told, ControlTypeOK, PlaceInv
    <3>4. AnswerInv'
      BY <2>2, <3>1 DEF Told, AnswerInv, ControlTypeOK
    <3>5. FailureTellsTheUndo'
      BY <2>2, <3>1 DEF Told, FailureTellsTheUndo, ControlTypeOK, PlaceInv
    <3>6. AnswersStayTrue'
      BY <2>2, <3>1, <3>2 DEF Told, AnswersStayTrue
    <3> QED BY <3>3, <3>4, <3>5, <3>6
  <2>3. /\ Ineligible \in {"none", "active", "no_effects", "already"}
        /\ Ineligible = "already" => effect = "compensated"
        /\ Ineligible = "no_effects" => status \in Terminal /\ effect = "none"
    BY DEF Ineligible, Terminal
  <2>4. CASE Ineligible # "none" /\ Told(u, Ineligible) /\ UNCHANGED vars
    BY <2>2, <2>3, <2>4 DEF Answers
  <2>5. CASE Told(u, "refused") /\ UNCHANGED vars
    BY <2>2, <2>5 DEF Answers
  <2> QED BY <1>3, <2>1, <2>4, <2>5 DEF AttemptUndo
<1>4. ASSUME NEW u \in Undoers, CompleteControl(u) PROVE ControlInv'
  BY <1>4
     DEF CompleteControl, StillRunning, Exchange, vars, ControlTypeOK, PlaceInv, AnswerInv,
         AnswersStayTrue, FailureTellsTheUndo, Appliers, Answers
<1>5. ASSUME NEW u \in Undoers, FailControl(u) PROVE ControlInv'
  BY <1>5
     DEF FailControl, StillRunning, vars, ControlTypeOK, PlaceInv, AnswerInv,
         AnswersStayTrue, FailureTellsTheUndo, Appliers, Answers
<1>6. ASSUME NEW u \in Undoers, AbandonControl(u) PROVE ControlInv'
  BY <1>6
     DEF AbandonControl, vars, ControlTypeOK, PlaceInv, AnswerInv,
         AnswersStayTrue, FailureTellsTheUndo, Appliers, Answers
<1>7. CASE UNCHANGED controlVars
  BY <1>7
     DEF controlVars, control, vars, ControlTypeOK, PlaceInv, AnswerInv,
         AnswersStayTrue, FailureTellsTheUndo, Appliers, Answers
<1> QED BY <1>1, <1>2, <1>3, <1>4, <1>5, <1>6, <1>7 DEF ControlNext, UndoPrevious

\* What a control turn says of the run it undid is true and stays true, however
\* many race, fail or die, and a failed one whose undo was committed says so.
THEOREM ControlTruth ==
  ResumeOnce => (ControlSpec => []ControlTellsTheTruth)
<1> SUFFICES ASSUME ResumeOnce PROVE ControlSpec => []ControlTellsTheTruth
  OBVIOUS
<1>1. ControlSpec => []RunInv
  BY ControlImplementsRun, RunInvariant, PTL
<1>2. RunInv /\ ControlInv /\ [ControlNext]_controlVars => ControlInv'
  BY NextControlInv
<1>3. ControlInv => ControlTellsTheTruth
  BY DEF ControlInv
<1> QED BY <1>1, <1>2, <1>3, InitControlInv, PTL DEF ControlSpec
=============================================================================
