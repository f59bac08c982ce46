----------------------------- MODULE ControlTurn -----------------------------
(***************************************************************************)
(* "Undo the last thing" as a turn of its own (D-76): a control run that   *)
(* compensates the run RunLifecycle models, records what it answered and   *)
(* completes, with no model in the loop.  Several may name one target.     *)
(*                                                                         *)
(* Source: app/agent.py (_handle_undo_previous, _control_events,           *)
(* _run_control_turn, _undo_previous_outcome, _record_control_failure),    *)
(* app/runs.py (create_control_turn, attempt_run_undo,                     *)
(* complete_control_turn, fail_run_if_running).                            *)
(*                                                                         *)
(* The compensation is one transaction, the control run's history and      *)
(* status another.  A commit's acknowledgement is taken to arrive.         *)
(***************************************************************************)
EXTENDS RunLifecycle

CONSTANT Undoers   \* control turns that name the run as their target

VARIABLES
  cpc,       \* where _control_events and _run_control_turn stand
  cstatus,   \* the control run's agent_runs.status, "none" before its row
  inherits,  \* the control runs born with the target's history
  answer,    \* the _ControlOutcome in memory
  story,     \* the control exchange in the run's message_history
  cerror     \* the run's error: nothing, the cause, or mutation_committed=true

control == <<cpc, cstatus, inherits, answer, story, cerror>>
controlVars == <<vars, control>>

Answers == {"applied", "active", "no_effects", "already", "refused"}

ControlTypeOK ==
  /\ cpc \in [Undoers -> {"idle", "attempt", "complete", "finished", "stopped"}]
  /\ cstatus \in [Undoers -> {"none", "running", "completed", "failed"}]
  /\ inherits \subseteq Undoers
  /\ answer \in [Undoers -> {"none"} \cup Answers]
  /\ story \in [Undoers -> {"none"} \cup Answers]
  /\ cerror \in [Undoers -> {"none", "cause", "mutation_committed"}]

ControlInit ==
  /\ Init
  /\ cpc = [u \in Undoers |-> "idle"]
  /\ cstatus = [u \in Undoers |-> "none"]
  /\ inherits = {}
  /\ answer = [u \in Undoers |-> "none"]
  /\ story = [u \in Undoers |-> "none"]
  /\ cerror = [u \in Undoers |-> "none"]

----------------------------------------------------------------------------

\* _control_history_predecessor: the target, when it is completed.  Otherwise
\* another completed run of the conversation, or none.
InheritsTarget == status = "completed"

\* create_control_turn.
StartControl(u) ==
  /\ cpc[u] = "idle"
  /\ cpc' = [cpc EXCEPT ![u] = "attempt"]
  /\ cstatus' = [cstatus EXCEPT ![u] = "running"]
  /\ inherits' = IF InheritsTarget THEN inherits \cup {u} ELSE inherits
  /\ UNCHANGED <<vars, answer, story, cerror>>

Told(u, text) ==
  /\ cpc[u] = "attempt"
  /\ cpc' = [cpc EXCEPT ![u] = "complete"]
  /\ answer' = [answer EXCEPT ![u] = text]
  /\ UNCHANGED <<cstatus, inherits, story, cerror>>

\* _undo_eligibility, under the row lock of the target.
Ineligible ==
  IF status \notin Terminal THEN "active"
  ELSE IF effect = "none" THEN "no_effects"
       ELSE IF effect = "compensated" THEN "already" ELSE "none"

\* _undo_previous_outcome: refused for the run's state, refused by the kernel
\* (the tasks have moved on: TaskUndo), or applied.
AttemptUndo(u) ==
  \/ Ineligible # "none" /\ Told(u, Ineligible) /\ UNCHANGED vars
  \/ Ineligible = "none" /\ Told(u, "refused") /\ UNCHANGED vars
  \/ Undo /\ Told(u, "applied")

\* The guard of COMPLETE_CONTROL_TURN and FAIL_RUN_IF_RUNNING.
StillRunning(u) == cstatus[u] = "running"

\* _control_history: what was said is appended to the inherited messages.
Exchange(u) == answer[u]

\* complete_control_turn: history and status in one guarded statement, then
\* the text and RUN_FINISHED.
CompleteControl_HistoryFirst(u) ==
  /\ cpc[u] = "complete" /\ StillRunning(u)
  /\ story' = [story EXCEPT ![u] = Exchange(u)]
  /\ \/ /\ story[u] = "none"
        /\ UNCHANGED <<cpc, cstatus>>
     \/ /\ story[u] # "none"
        /\ cpc' = [cpc EXCEPT ![u] = "finished"]
        /\ cstatus' = [cstatus EXCEPT ![u] = "completed"]
  /\ UNCHANGED <<vars, inherits, answer, cerror>>

CompleteControl(u) ==
  /\ cpc[u] = "complete" /\ StillRunning(u)
  /\ cpc' = [cpc EXCEPT ![u] = "finished"]
  /\ cstatus' = [cstatus EXCEPT ![u] = "completed"]
  /\ story' = [story EXCEPT ![u] = Exchange(u)]
  /\ UNCHANGED <<vars, inherits, answer, cerror>>

\* An exception of the attempt rolls it back, one of the completion does not.
\* _record_control_failure, then RUN_ERROR: the error is the cause, or after the
\* compensation the committed fact.
FailControl(u) ==
  /\ cpc[u] \in {"attempt", "complete"} /\ StillRunning(u)
  /\ cpc' = [cpc EXCEPT ![u] = "stopped"]
  /\ cstatus' = [cstatus EXCEPT ![u] = "failed"]
  /\ cerror' = [cerror EXCEPT
       ![u] = IF answer[u] = "applied" THEN "mutation_committed" ELSE "cause"]
  /\ UNCHANGED <<vars, inherits, answer, story>>

\* The process dies, or even the failure cannot be written: the row stays
\* running.  A disconnect alone does not stop the worker thread.
AbandonControl(u) ==
  /\ cpc[u] \in {"attempt", "complete"}
  /\ cpc' = [cpc EXCEPT ![u] = "stopped"]
  /\ UNCHANGED <<vars, cstatus, inherits, answer, story, cerror>>

\* _run_control_turn in the stream of _control_events.
UndoPrevious(u) == \/ StartControl(u) \/ AttemptUndo(u) \/ CompleteControl(u)
                   \/ FailControl(u) \/ AbandonControl(u)

ControlNext == \/ Turn /\ UNCHANGED control
               \/ \E u \in Undoers : UndoPrevious(u)

ControlSpec == ControlInit /\ [][ControlNext]_controlVars

\* RunLifecycle's fairness: nothing is asked of a control turn.
ControlFairSpec ==
  ControlSpec /\ \A i \in Invocations : WF_vars(Progress(i))

----------------------------------------------------------------------------
(* Properties                                                              *)

Appliers == {u \in Undoers : answer[u] = "applied"}

\* attempt_run_undo: racing undos of one run apply one compensation, and every
\* loser "observes the authoritative post-compensation state".  What a completed
\* turn told the user stays true: a run said to be undone, or to have changed
\* nothing, is so for good.
AnswersStayTrue ==
  /\ \A u, w \in Appliers : u = w
  /\ effect = "compensated" <=> Appliers # {}
  /\ \A u \in Undoers :
       /\ story[u] \in {"applied", "already"} => effect = "compensated"
       /\ story[u] = "no_effects" => effect = "none"

\* complete_control_turn: "What must never appear is a partial control
\* exchange", so the exchange is there exactly in a completed turn, RUN_FINISHED
\* names one, and history comes from a completed predecessor (D-67).
\* _run_control_turn: an undo behind a failed turn is in the run's error.
FailureTellsTheUndo ==
  \A u \in Undoers :
    /\ story[u] = IF cstatus[u] = "completed" THEN answer[u] ELSE "none"
    /\ cpc[u] = "finished" => cstatus[u] = "completed"
    /\ u \in inherits => status = "completed"
    /\ cstatus[u] = "failed" =>
         (cerror[u] = "mutation_committed" <=> answer[u] = "applied")

ControlTellsTheTruth == AnswersStayTrue /\ FailureTellsTheUndo
=============================================================================
