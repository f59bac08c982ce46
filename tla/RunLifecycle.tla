---------------------------- MODULE RunLifecycle ----------------------------
(***************************************************************************)
(* One application run (a row of agent_runs) on the AG-UI path: the first  *)
(* framework invocation, the approval bridge that pauses it, the human     *)
(* decision, the continuations that resume it, and the undo of the run.    *)
(*                                                                         *)
(* Source: app/agent.py (handle_agui_request, _handle_continuation,        *)
(* _record_failure, _completion_recorder, _open_approval), app/runs.py,    *)
(* app/policy.py (check), app/main.py (post_approval_decision) and the     *)
(* browser's decide() in frontend/lib/useRun.ts.                           *)
(*                                                                         *)
(* An invocation is one framework run inside the application run.  Each    *)
(* action is one database transaction, or one event of the native stream.  *)
(* The lease of a gated call is the atomic object ToolCall specifies: a    *)
(* call already executed is replayed.                                      *)
(***************************************************************************)
EXTENDS Naturals, FiniteSets

CONSTANTS Invocations, First,
          Calls,        \* gated tool call ids the model may produce
          NoCall,
          Deciders,     \* POST .../approvals/{tool_call_id} requests
          ResumeOnce    \* TRUE: a resume payload reaches the server only from
                        \* the client whose decision was recorded, and once

ASSUME RunAssumption ==
  /\ First \in Invocations
  /\ NoCall \notin Calls
  /\ ResumeOnce \in BOOLEAN

VARIABLES
  status,       \* agent_runs.status
  outstanding,  \* the unanswered gated call that ends message_history
  decision,     \* approvals.decision of each call, "none" without a row
  expired,      \* the calls whose approval is past expires_at
  effect,       \* the run's committed mutations, and whether undo reverted them
  executed,     \* the gated calls whose lease is completed
  pc, resumed, deferred,   \* the invocations
  dpc, dcall,   \* the decision requests
  owed          \* recorded decisions whose client has yet to send the resume

run == <<status, outstanding, decision, expired, effect, executed>>
vars == <<status, outstanding, decision, expired, effect, executed,
          pc, resumed, deferred, dpc, dcall, owed>>

Terminal == {"completed", "failed"}
Decisions == {"approved", "denied"}
PCs == {"idle", "load", "authorize", "execute", "stream", "save", "settle",
        "fail", "done", "dead"}
Ended == {"idle", "done", "dead"}

TypeOK ==
  /\ status \in {"running", "awaiting_approval"} \cup Terminal
  /\ outstanding \in Calls \cup {NoCall}
  /\ decision \in [Calls -> {"none", "pending"} \cup Decisions]
  /\ expired \subseteq Calls
  /\ effect \in {"none", "live", "compensated"}
  /\ executed \subseteq Calls
  /\ pc \in [Invocations -> PCs]
  /\ resumed \in [Invocations -> Calls \cup {NoCall}]
  /\ deferred \in [Invocations -> Calls \cup {NoCall}]
  /\ dpc \in [Deciders -> {"idle", "decide", "done"}]
  /\ dcall \in [Deciders -> Calls \cup {NoCall}]
  /\ owed \subseteq Calls

\* create_turn has opened the run and the first invocation is streaming.
Init ==
  /\ status = "running"
  /\ outstanding = NoCall
  /\ decision = [k \in Calls |-> "none"]
  /\ expired = {}
  /\ effect = "none"
  /\ executed = {}
  /\ pc = [i \in Invocations |-> IF i = First THEN "stream" ELSE "idle"]
  /\ resumed = [i \in Invocations |-> NoCall]
  /\ deferred = [i \in Invocations |-> NoCall]
  /\ dpc = [d \in Deciders |-> "idle"]
  /\ dcall = [d \in Deciders |-> NoCall]
  /\ owed = {}

----------------------------------------------------------------------------
(* Helpers                                                                 *)

Goto(i, l) == pc' = [pc EXCEPT ![i] = l]

Step(i, l) == /\ Goto(i, l)
              /\ UNCHANGED <<run, resumed, deferred, dpc, dcall, owed>>

Pending == {k \in Calls : decision[k] = "pending"}

\* load_pending_approval: what the user can still act on.
Actionable == Pending \ expired
Live == {i \in Invocations : pc[i] \notin Ended}

\* Provider-generated ids are fresh within a run.
Fresh(k) == decision[k] = "none" /\ \A j \in Invocations : deferred[j] # k

----------------------------------------------------------------------------
(* The decision route                                                      *)

\* post_approval_decision, its reads: the run awaits, the row exists, is
\* unexpired and pending.  Anything else refuses and changes nothing.
CheckDecision(d, k) ==
  /\ dpc[d] = "idle"
  /\ status = "awaiting_approval"
  /\ k \in Actionable
  /\ dpc' = [dpc EXCEPT ![d] = "decide"]
  /\ dcall' = [dcall EXCEPT ![d] = k]
  /\ UNCHANGED <<run, pc, resumed, deferred, owed>>

\* decide_approval: DECIDE_APPROVAL is guarded by decision = 'pending' alone;
\* neither the run's status nor the expiry is read again.  A request that lost
\* gets APPROVAL_ALREADY_DECIDED, and useRun.decide sends no continuation.
Decide_Unguarded(d) ==
  /\ dpc[d] = "decide"
  /\ dpc' = [dpc EXCEPT ![d] = "done"]
  /\ \E answer \in Decisions :
       decision' = [decision EXCEPT ![dcall[d]] = answer]
  /\ owed' = owed \cup {dcall[d]}
  /\ UNCHANGED <<status, outstanding, expired, effect, executed, pc, resumed,
                 deferred, dcall>>

Decide(d) ==
  /\ dpc[d] = "decide"
  /\ dpc' = [dpc EXCEPT ![d] = "done"]
  /\ \/ /\ decision[dcall[d]] = "pending"
        /\ \E answer \in Decisions :
             decision' = [decision EXCEPT ![dcall[d]] = answer]
        /\ owed' = owed \cup {dcall[d]}
     \/ /\ decision[dcall[d]] # "pending"
        /\ UNCHANGED <<decision, owed>>
  /\ UNCHANGED <<status, outstanding, expired, effect, executed, pc, resumed,
                 deferred, dcall>>

\* The tab closes between useRun.decide's two requests, or the second is lost.
\* Trying again does not help: the first is refused as already decided and
\* throws before the resume is sent.
LoseResume(k) ==
  /\ k \in owed
  /\ owed' = owed \ {k}
  /\ UNCHANGED <<run, pc, resumed, deferred, dpc, dcall>>

----------------------------------------------------------------------------
(* An invocation                                                           *)

\* resolve_continuation: the row is decided and the run awaits.  It leaves the
\* status alone (D-57), so nothing marks the decision as taken up.
Resume_AnyDecision(i, k) ==
  /\ pc[i] = "idle"
  /\ decision[k] \in Decisions \cup {"pending"}
  /\ status = "awaiting_approval"
  /\ Goto(i, "load")
  /\ resumed' = [resumed EXCEPT ![i] = k]
  /\ owed' = owed \ {k}
  /\ UNCHANGED <<run, deferred, dpc, dcall>>

Resume(i, k) ==
  /\ pc[i] = "idle"
  /\ ResumeOnce => k \in owed
  /\ decision[k] \in Decisions
  /\ status = "awaiting_approval"
  /\ Goto(i, "load")
  /\ resumed' = [resumed EXCEPT ![i] = k]
  /\ owed' = owed \ {k}
  /\ UNCHANGED <<run, deferred, dpc, dcall>>

\* load_history, then the framework pairs the stored decision with the call it
\* answers: an approved call runs its body, a denied one is told to the model,
\* and a history that does not end in that call is an error.
LoadHistory(i) ==
  /\ pc[i] = "load"
  /\ \/ /\ outstanding = resumed[i] /\ decision[resumed[i]] = "approved"
        /\ Step(i, "authorize")
     \/ /\ outstanding = resumed[i] /\ decision[resumed[i]] # "approved"
        /\ Step(i, "stream")
     \/ outstanding # resumed[i] /\ Step(i, "fail")

\* The body of the gated tool up to the lease: replay_completed, resolve_scope
\* and policy.check.  Out of scope and divergence go back to the model; an
\* approval that is expired or not approved ends the run.
Authorize(i) ==
  /\ pc[i] = "authorize"
  /\ \/ resumed[i] \in executed /\ Step(i, "stream")
     \/ Step(i, "stream")
     \/ /\ resumed[i] \notin expired /\ decision[resumed[i]] = "approved"
        /\ Step(i, "execute")
     \/ /\ \/ resumed[i] \in expired
           \/ decision[resumed[i]] # "approved"
        /\ Step(i, "fail")

\* acquire ... commit, or the replay of a result another caller committed.
ExecuteGated(i) ==
  /\ pc[i] = "execute"
  /\ executed' = executed \cup {resumed[i]}
  /\ effect' = IF resumed[i] \in executed THEN effect ELSE "live"
  /\ Goto(i, "stream")
  /\ UNCHANGED <<status, outstanding, decision, expired, resumed, deferred,
                 dpc, dcall, owed>>

\* The transaction refused (a conflict the model is told of, or an error).
RefuseGated(i) ==
  /\ pc[i] = "execute"
  /\ \E l \in {"stream", "fail"} : Step(i, l)

\* A tool that needs no approval commits a mutation.
Mutate(i) ==
  /\ pc[i] = "stream"
  /\ effect' = "live"
  /\ UNCHANGED <<status, outstanding, decision, expired, executed, pc, resumed,
                 deferred, dpc, dcall, owed>>

\* The model's output: a gated call the framework defers, or the final answer.
Defer(i, k) ==
  /\ pc[i] = "stream"
  /\ Fresh(k)
  /\ deferred' = [deferred EXCEPT ![i] = k]
  /\ Goto(i, "save")
  /\ UNCHANGED <<run, resumed, dpc, dcall, owed>>

Finish(i) == pc[i] = "stream" /\ Step(i, "save")

\* The native stream raised: provider error, tool bug, budget or retry limit.
Raise(i) == pc[i] = "stream" /\ Step(i, "fail")

\* record(): save_history replaces the run's history with this invocation's;
\* then the usage is added.
SaveHistory_Skipped(i) ==
  /\ pc[i] = "save"
  /\ Goto(i, "settle")
  /\ UNCHANGED <<run, resumed, deferred, dpc, dcall, owed>>

SaveHistory_CompletesFirst(i) ==
  /\ pc[i] = "save"
  /\ outstanding' = deferred[i]
  /\ status' = "completed"
  /\ Goto(i, "settle")
  /\ UNCHANGED <<decision, expired, effect, executed, resumed, deferred,
                 dpc, dcall, owed>>

SaveHistory(i) ==
  /\ pc[i] = "save"
  /\ outstanding' = deferred[i]
  /\ Goto(i, "settle")
  /\ UNCHANGED <<status, decision, expired, effect, executed, resumed, deferred,
                 dpc, dcall, owed>>

\* open_approval: the approval row and awaiting_approval in one transaction.
OpenRow(k) ==
  /\ decision' = [decision EXCEPT ![k] = "pending"]
  /\ status' = "awaiting_approval"

\* record(): the card opens, or a refusal (several approvals at once, scope,
\* classification) fails the run.
OpenApproval_RefusalUnrecorded(i) ==
  /\ pc[i] = "settle" /\ deferred[i] # NoCall
  /\ \/ /\ OpenRow(deferred[i])
        /\ Goto(i, "done")
        /\ UNCHANGED <<outstanding, expired, effect, executed, resumed,
                       deferred, dpc, dcall, owed>>
     \/ Step(i, "done")

OpenApproval(i) ==
  /\ pc[i] = "settle" /\ deferred[i] # NoCall
  /\ \/ /\ OpenRow(deferred[i])
        /\ Goto(i, "done")
        /\ UNCHANGED <<outstanding, expired, effect, executed, resumed,
                       deferred, dpc, dcall, owed>>
     \/ Step(i, "fail")

\* record(): set_status(COMPLETED), which reads no status.
Complete(i) ==
  /\ pc[i] = "settle" /\ deferred[i] = NoCall
  /\ status' = "completed"
  /\ Goto(i, "done")
  /\ UNCHANGED <<outstanding, decision, expired, effect, executed, resumed,
                 deferred, dpc, dcall, owed>>

\* _record_failure, and the handler around _open_approval: set_status(FAILED),
\* which reads no status either.
Fail_AsInterrupted(i) ==
  /\ pc[i] = "fail"
  /\ status' = "interrupted"
  /\ Goto(i, "done")
  /\ UNCHANGED <<outstanding, decision, expired, effect, executed, resumed,
                 deferred, dpc, dcall, owed>>

Fail(i) ==
  /\ pc[i] = "fail"
  /\ status' = "failed"
  /\ Goto(i, "done")
  /\ UNCHANGED <<outstanding, decision, expired, effect, executed, resumed,
                 deferred, dpc, dcall, owed>>

\* The client disconnects (the stream is cancelled, which _record_failure does
\* not catch), the process dies, or record() raises: the status stays.
Vanish(i) == pc[i] \notin Ended /\ Step(i, "dead")

----------------------------------------------------------------------------
(* The rest                                                                *)

\* expires_at passes.
ExpireApproval(k) ==
  /\ decision[k] # "none" /\ k \notin expired
  /\ expired' = expired \cup {k}
  /\ UNCHANGED <<status, outstanding, decision, effect, executed, pc, resumed,
                 deferred, dpc, dcall, owed>>

\* attempt_run_undo from a control turn, which is a run of its own: eligible
\* under the row lock when the run is terminal, has events and no compensation.
Undo_AnyStatus ==
  /\ effect = "live"
  /\ effect' = "compensated"
  /\ UNCHANGED <<status, outstanding, decision, expired, executed, pc, resumed,
                 deferred, dpc, dcall, owed>>

Undo ==
  /\ status \in Terminal
  /\ effect = "live"
  /\ effect' = "compensated"
  /\ UNCHANGED <<status, outstanding, decision, expired, executed, pc, resumed,
                 deferred, dpc, dcall, owed>>

\* What the event loop owes a started invocation.
Progress(i) ==
  \/ LoadHistory(i) \/ Authorize(i) \/ ExecuteGated(i) \/ RefuseGated(i)
  \/ (\E k \in Calls : Defer(i, k)) \/ Finish(i) \/ Raise(i)
  \/ SaveHistory(i) \/ OpenApproval(i) \/ Complete(i) \/ Fail(i)

\* Everything but the undo: decisions, invocations and the passage of time.
Turn ==
  \/ \E d \in Deciders : Decide(d) \/ \E k \in Calls : CheckDecision(d, k)
  \/ \E i \in Invocations :
       \/ \E k \in Calls : Resume(i, k)
       \/ Progress(i) \/ Mutate(i) \/ Vanish(i)
  \/ \E k \in Calls : LoseResume(k) \/ ExpireApproval(k)

Next == Turn \/ Undo

Spec == Init /\ [][Next]_vars

\* request_limit and tool_calls_limit end every invocation: a stream that only
\* ever mutates is cut by the run budget, so Mutate is not progress.
FairSpec == Spec /\ \A i \in Invocations : WF_vars(Progress(i))

----------------------------------------------------------------------------
(* Properties                                                              *)

\* D-56 and load_pending_approval: at most one approval of a run is pending,
\* so the card a user sees is never one of two.
AtMostOnePending == \A k, m \in Pending : k = m

\* Where a run is left waiting for nobody.  A card that expired undecided: the
\* decision route refuses it and nothing fails the run.
ExpiredCard == Pending \cap expired # {}

\* A recorded answer to the call the history ends in, never taken up and with
\* no resume to come.
LostResume == \E k \in Calls \ owed :
  /\ decision[k] \in Decisions /\ outstanding = k
  /\ \A i \in Invocations : resumed[i] # k

\* The invocation that took the answer up has vanished.
Vanished == \E i \in Invocations :
  pc[i] = "dead" /\ outstanding \in {resumed[i], deferred[i]}

\* open_approval: "A run left in awaiting_approval with no row, or carrying a
\* row while still running, would be a state no reader of RunDetail could
\* interpret."  A pending row means the run waits for exactly that call and
\* nothing else is going on.  A waiting run has somebody who can move it on: the
\* human before an unexpired card, the client that is about to resume, or an
\* invocation.  Otherwise it is stranded in one of three ways, each an accident
\* outside the handlers: no refusal, failure or race of theirs leaves a run
\* waiting.
WaitsForItsCard ==
  /\ Pending # {} => /\ status = "awaiting_approval"
                     /\ outstanding \in Pending
                     /\ Live = {}
  /\ status = "awaiting_approval" =>
       \/ Actionable # {} \/ owed # {} \/ Live # {}
       \/ ExpiredCard \/ LostResume \/ Vanished

\* policy.check: no gated call is executed unless its own row was approved, in
\* whatever order decisions, expiry, retries and continuations arrive.
ExecutedWereApproved == \A k \in executed : decision[k] = "approved"

\* decide_approval: a racing decision never overwrites the first human answer.
DecisionIsFinal ==
  [][\A k \in Calls : decision[k] \in Decisions => decision'[k] = decision[k]]_vars

\* "nothing may rewrite a terminal one" (sql.py on COMPLETE_CONTROL_TURN): no
\* late invocation moves a run that already ended.
TerminalIsFinal == [][(status \in Terminal) => status' = status]_vars

\* A continuation resumes the call its stored history ends in, so it is never
\* refused by the framework for results nobody asked for.
ResumesItsOwnCall ==
  \A i \in Invocations :
    pc[i] \in {"load", "authorize", "execute"} => outstanding = resumed[i]

\* STILL_ACTIVE: once a run is undone it has no later effect, so the undo
\* covered all the run ever did.
UndoCoversTheRun == [][effect = "compensated" => effect' = effect]_vars

\* The owner of the lifecycle ends it: a run is not left running, nor waiting
\* on a decision already taken up, unless an invocation vanished.
RunSettles ==
  \A i \in Invocations :
    pc[i] \notin Ended ~> \/ pc[i] = "dead"
                          \/ status \in Terminal
                          \/ \E k \in Calls : decision[k] = "pending"
=============================================================================
