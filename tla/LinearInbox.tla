----------------------------- MODULE LinearInbox -----------------------------
(***************************************************************************)
(* The durable inbox of Linear agent-session events and the workers that   *)
(* drain it: claim, turn, retry, crash, finalization, and the continuity   *)
(* cursor of each session.                                                 *)
(*                                                                         *)
(* Source: app/linear_agent.py (accept_agent_session_event,                *)
(* claim_next_linear_inbox), app/linear_agent_worker.py, the inbox         *)
(* statements of app/sql.py and runs.create_turn.  Each action is one      *)
(* committed transaction of the code, so a crash may fall between any two. *)
(*                                                                         *)
(* Rows are numbered in the order of (received_at, id).  A claim raises    *)
(* attempt_count and makes at most one run, so the pair names the run.     *)
(***************************************************************************)
EXTENDS Naturals, FiniteSets, FiniteSetsExt

CONSTANTS Rows,           \* 1 .. N
          Sessions, SessionOf,
          Workers, NoRun,
          Signals,        \* the rows whose event is a control signal (stop)
          MaxAttempts,    \* linear_inbox_max_attempts
          MaxAborts,      \* bound on crashes and unexpected exceptions
          LeaseCoversTurn, \* TRUE: no turn outlasts its lease (see Elapse)
          CommitInOrder    \* TRUE: rows appear in received_at order (Accept)

ASSUME InboxAssumption ==
  /\ Rows \subseteq Nat \ {0} /\ IsFiniteSet(Rows)
  /\ SessionOf \in [Rows -> Sessions]
  /\ Signals \subseteq Rows
  /\ NoRun \notin Rows \X Nat
  /\ MaxAttempts \in Nat \ {0}
  /\ MaxAborts \in Nat
  /\ LeaseCoversTurn \in BOOLEAN
  /\ CommitInOrder \in BOOLEAN

VARIABLES
  status,     \* linear_agent_inbox.status, "none" before the row exists
  link,       \* linear_agent_inbox.run_id
  attempts,   \* attempt_count; it stops counting once over the budget
  lease,      \* "held" until claimed_until, "backoff" until not_before
  cursor,     \* linear_agent_sessions.last_completed_run_id
  runs,       \* agent_runs.status
  inherits,   \* the run whose message_history each run started from
  committed,  \* history: the runs that committed a task mutation
  pc, job,    \* the workers
  aborts

inbox == <<status, link, attempts, lease>>
vars == <<status, link, attempts, lease, cursor, runs, inherits, committed,
          pc, job, aborts>>

Runs == Rows \X (1 .. MaxAttempts)
RunOf(r, n) == <<r, n>>
RowOf(p) == p[1]

Settled == {"refused", "completed", "failed"}
PCs == {"idle", "claimed", "prepare", "continuity", "create", "link", "model",
        "complete", "finish", "spoiled", "retry", "fail", "release"}

Jobs == [row : Rows \cup {0}, attempt : 0 .. MaxAttempts + 1,
         run : Runs \cup {NoRun}, pred : Runs \cup {NoRun}]
NoJob == [row |-> 0, attempt |-> 0, run |-> NoRun, pred |-> NoRun]

TypeOK ==
  /\ status \in [Rows -> {"none", "pending"} \cup Settled]
  /\ link \in [Rows -> Runs \cup {NoRun}]
  /\ attempts \in [Rows -> 0 .. MaxAttempts + 1]
  /\ lease \in [Rows -> {"free", "held", "backoff"}]
  /\ cursor \in [Sessions -> Runs \cup {NoRun}]
  /\ runs \in [Runs -> {"none", "running", "completed", "failed"}]
  /\ inherits \in [Runs -> Runs \cup {NoRun}]
  /\ committed \subseteq Runs
  /\ pc \in [Workers -> PCs]
  /\ job \in [Workers -> Jobs]
  /\ aborts \in 0 .. MaxAborts

Init ==
  /\ status = [r \in Rows |-> "none"]
  /\ link = [r \in Rows |-> NoRun]
  /\ attempts = [r \in Rows |-> 0]
  /\ lease = [r \in Rows |-> "free"]
  /\ cursor = [s \in Sessions |-> NoRun]
  /\ runs = [p \in Runs |-> "none"]
  /\ inherits = [p \in Runs |-> NoRun]
  /\ committed = {}
  /\ pc = [w \in Workers |-> "idle"]
  /\ job = [w \in Workers |-> NoJob]
  /\ aborts = 0

----------------------------------------------------------------------------
(* Helpers                                                                 *)

Goto(w, l) == pc' = [pc EXCEPT ![w] = l]

\* Nothing but the worker moves.
Step(w, l) == /\ Goto(w, l)
              /\ UNCHANGED <<inbox, cursor, runs, inherits, committed, job, aborts>>

Rest(w) == Goto(w, "idle") /\ job' = [job EXCEPT ![w] = NoJob]

Before(r) == {e \in Rows : e < r /\ SessionOf[e] = SessionOf[r]}

Busy(r) == {w \in Workers : pc[w] # "idle" /\ job[w].row = r}

----------------------------------------------------------------------------
(* Ingress                                                                 *)

\* accept_agent_session_event: pending or refused, committed before the 200.
\* A redelivery conflicts with the row and adds none (LinearIngress).
\* received_at is the start of the transaction: of two that overlap the later
\* one may commit first.
Accept(r) ==
  /\ status[r] = "none"
  /\ CommitInOrder => \A e \in Rows : e < r => status[e] # "none"
  /\ \E s \in {"pending", "refused"} : status' = [status EXCEPT ![r] = s]
  /\ UNCHANGED <<link, attempts, lease, cursor, runs, inherits, committed, pc,
                 job, aborts>>

----------------------------------------------------------------------------
(* The worker                                                              *)

\* The WHERE clause of CLAIM_LINEAR_INBOX.
Eligible_AnyDue(r) == status[r] = "pending" /\ lease[r] = "free"

Eligible_AnyStatus(r) == /\ status[r] # "none" /\ lease[r] = "free"
                         /\ \A e \in Before(r) : status[e] # "pending"

Eligible(r) == /\ status[r] = "pending" /\ lease[r] = "free"
               /\ \A e \in Before(r) : status[e] # "pending"

\* CLAIM_LINEAR_INBOX: the oldest eligible row, leased and counted, and the row
\* as it then is.
Claim(w) ==
  \E r \in Rows :
    /\ pc[w] = "idle"
    /\ Eligible(r) /\ \A e \in Rows : e < r => ~Eligible(e)
    /\ lease' = [lease EXCEPT ![r] = "held"]
    /\ attempts' = [attempts EXCEPT
                      ![r] = IF @ <= MaxAttempts THEN @ + 1 ELSE @]
    /\ Goto(w, "claimed")
    /\ job' = [job EXCEPT ![w] = [row |-> r, attempt |-> attempts'[r],
                                  run |-> link[r], pred |-> NoRun]]
    /\ UNCHANGED <<status, link, cursor, runs, inherits, committed, aborts>>

\* _finalize_ambiguous: a claimed row that names a run is finalized from the
\* run's status and never executed again.
FinalizeAmbiguous(w) ==
  /\ pc[w] = "claimed" /\ job[w].run # NoRun
  /\ Step(w, IF runs[job[w].run] = "completed" THEN "finish" ELSE "fail")

\* process_row: an exhausted row fails, any other is executed.
Dispatch(w) ==
  /\ pc[w] = "claimed" /\ job[w].run = NoRun
  /\ Step(w, IF job[w].attempt > MaxAttempts THEN "fail" ELSE "prepare")

\* _handle_signal: with a credential or without one, the row ends here.
HandleSignal(w) ==
  /\ pc[w] = "prepare" /\ job[w].row \in Signals
  /\ Step(w, "fail")

\* _Terminal before the turn: no installation, no prompt, an oversized one.
RefusePrompt(w) ==
  /\ pc[w] = "prepare" /\ job[w].row \notin Signals
  /\ Step(w, "fail")

\* _Transient before the turn: the token could not be refreshed for now.
AwaitToken(w) ==
  /\ pc[w] = "prepare" /\ job[w].row \notin Signals
  /\ Step(w, "release")

\* The prompt and the token are there; one acknowledgement is sent.
Acknowledge(w) ==
  /\ pc[w] = "prepare" /\ job[w].row \notin Signals
  /\ Step(w, "continuity")

\* _continuity_run_id.
ReadCursor(w) ==
  /\ pc[w] = "continuity"
  /\ Goto(w, "create")
  /\ job' = [job EXCEPT ![w].pred = cursor[SessionOf[job[w].row]]]
  /\ UNCHANGED <<inbox, cursor, runs, inherits, committed, aborts>>

\* runs.create_turn: a fresh running run with its predecessor's history, or,
\* when the predecessor is not completed, an exception that leaves the lease.
CreateTurn(w) ==
  LET p == RunOf(job[w].row, job[w].attempt)
      q == job[w].pred
  IN /\ pc[w] = "create"
     /\ IF q = NoRun \/ runs[q] = "completed"
          THEN /\ runs' = [runs EXCEPT ![p] = "running"]
               /\ inherits' = [inherits EXCEPT ![p] = q]
               /\ Goto(w, "link")
               /\ job' = [job EXCEPT ![w].run = p]
          ELSE Rest(w) /\ UNCHANGED <<runs, inherits>>
     /\ UNCHANGED <<inbox, cursor, committed, aborts>>

\* SET_LINEAR_INBOX_RUN, before the model.
LinkRun(w) ==
  /\ pc[w] = "link"
  /\ link' = [link EXCEPT ![job[w].row] = job[w].run]
  /\ Goto(w, "model")
  /\ UNCHANGED <<status, attempts, lease, cursor, runs, inherits, committed,
                 job, aborts>>

\* A tool of the turn commits, and RunEffects says so from then on.
Mutate(w) ==
  /\ pc[w] = "model"
  /\ committed' = committed \cup {job[w].run}
  /\ UNCHANGED <<inbox, cursor, runs, inherits, pc, job, aborts>>

\* The model answered; history and usage are saved.
ModelAnswers(w) == pc[w] = "model" /\ Step(w, "complete")

\* _handle_unsupported_capability: a deferred request is refused.
RefuseDeferred(w) == pc[w] = "model" /\ Step(w, "spoiled")

\* _handle_execution_failure: what was committed decides.
ModelFails_AlwaysRetry(w) == pc[w] = "model" /\ Step(w, "retry")

ModelFails(w) ==
  /\ pc[w] = "model"
  /\ Step(w, IF job[w].run \in committed THEN "spoiled" ELSE "retry")

\* set_status on the run, then the one delivery attempt.
SetRunStatus_Awaits(w) ==
  /\ pc[w] \in {"complete", "spoiled", "retry"}
  /\ runs' = [runs EXCEPT ![job[w].run] =
                CASE pc[w] = "complete" -> "completed"
                  [] pc[w] = "spoiled" -> "awaiting_approval"
                  [] pc[w] = "retry" -> "failed"]
  /\ Goto(w, CASE pc[w] = "complete" -> "finish"
               [] pc[w] = "spoiled" -> "fail"
               [] pc[w] = "retry" -> "release")
  /\ UNCHANGED <<inbox, cursor, inherits, committed, job, aborts>>

SetRunStatus(w) ==
  /\ pc[w] \in {"complete", "spoiled", "retry"}
  /\ runs' = [runs EXCEPT ![job[w].run] =
                IF pc[w] = "complete" THEN "completed" ELSE "failed"]
  /\ Goto(w, CASE pc[w] = "complete" -> "finish"
               [] pc[w] = "spoiled" -> "fail"
               [] pc[w] = "retry" -> "release")
  /\ UNCHANGED <<inbox, cursor, inherits, committed, job, aborts>>

\* _complete_and_advance: one transaction.
Finish_CursorLeft(w) ==
  /\ pc[w] = "finish"
  /\ status' = [status EXCEPT ![job[w].row] = "completed"]
  /\ link' = [link EXCEPT ![job[w].row] = job[w].run]
  /\ lease' = [lease EXCEPT ![job[w].row] = "free"]
  /\ Rest(w)
  /\ UNCHANGED <<cursor, attempts, runs, inherits, committed, aborts>>

Finish(w) ==
  /\ pc[w] = "finish"
  /\ status' = [status EXCEPT ![job[w].row] = "completed"]
  /\ link' = [link EXCEPT ![job[w].row] = job[w].run]
  /\ lease' = [lease EXCEPT ![job[w].row] = "free"]
  /\ cursor' = [cursor EXCEPT ![SessionOf[job[w].row]] = job[w].run]
  /\ Rest(w)
  /\ UNCHANGED <<attempts, runs, inherits, committed, aborts>>

\* FAIL_LINEAR_INBOX, by id alone.
FailRow_Unlinked(w) ==
  /\ pc[w] = "fail"
  /\ status' = [status EXCEPT ![job[w].row] = "failed"]
  /\ link' = [link EXCEPT ![job[w].row] = NoRun]
  /\ lease' = [lease EXCEPT ![job[w].row] = "free"]
  /\ Rest(w)
  /\ UNCHANGED <<cursor, attempts, runs, inherits, committed, aborts>>

FailRow(w) ==
  /\ pc[w] = "fail"
  /\ status' = [status EXCEPT ![job[w].row] = "failed"]
  /\ link' = [link EXCEPT ![job[w].row] = job[w].run]
  /\ lease' = [lease EXCEPT ![job[w].row] = "free"]
  /\ Rest(w)
  /\ UNCHANGED <<cursor, attempts, runs, inherits, committed, aborts>>

\* RELEASE_LINEAR_INBOX, by id alone; whatever the status, it stays.
ReleaseRow(w) ==
  /\ pc[w] = "release"
  /\ lease' = [lease EXCEPT ![job[w].row] = "backoff"]
  /\ link' = [link EXCEPT ![job[w].row] = NoRun]
  /\ Rest(w)
  /\ UNCHANGED <<status, cursor, attempts, runs, inherits, committed, aborts>>

----------------------------------------------------------------------------
(* The environment                                                         *)

\* The process dies, or an exception escapes process_next and the loop goes
\* on (_drain_until_stopped): what is committed stays, the lease included.
Abort(w) ==
  /\ pc[w] # "idle" /\ aborts < MaxAborts
  /\ aborts' = aborts + 1
  /\ Rest(w)
  /\ UNCHANGED <<inbox, cursor, runs, inherits, committed>>

\* claimed_until or not_before passes.  The lease is never renewed; a turn is
\* not bounded by it, only the single-instance lock keeps a live worker's row
\* from being claimed again.
Elapse_BackoffOnly(r) ==
  /\ lease[r] = "backoff"
  /\ lease' = [lease EXCEPT ![r] = "free"]
  /\ UNCHANGED <<status, link, attempts, cursor, runs, inherits, committed, pc,
                 job, aborts>>

Elapse(r) ==
  /\ lease[r] # "free"
  /\ LeaseCoversTurn => Busy(r) = {}
  /\ lease' = [lease EXCEPT ![r] = "free"]
  /\ UNCHANGED <<status, link, attempts, cursor, runs, inherits, committed, pc,
                 job, aborts>>

Work(w) ==
  \/ Claim(w) \/ FinalizeAmbiguous(w) \/ Dispatch(w) \/ HandleSignal(w)
  \/ RefusePrompt(w) \/ AwaitToken(w) \/ Acknowledge(w) \/ ReadCursor(w)
  \/ CreateTurn(w) \/ LinkRun(w) \/ ModelAnswers(w) \/ RefuseDeferred(w)
  \/ ModelFails(w) \/ SetRunStatus(w) \/ Finish(w) \/ FailRow(w) \/ ReleaseRow(w)

Next == \/ \E r \in Rows : Accept(r) \/ Elapse(r)
        \/ \E w \in Workers : Work(w) \/ Mutate(w) \/ Abort(w)

Spec == Init /\ [][Next]_vars

\* systemd restarts a worker, its loop polls, the model's request budget ends
\* a turn, and time passes.
FairSpec == /\ Spec
            /\ \A w \in Workers : WF_vars(Work(w))
            /\ \A r \in Rows : WF_vars(Elapse(r))

----------------------------------------------------------------------------
(* Properties                                                              *)

\* Module docstring of the worker: "The turn executes at most once per inbox
\* row".  Whatever crashes between the link, the model and the finalization,
\* two attempts at a row never both change tasks.
TurnOnce == \A p, q \in committed : RowOf(p) = RowOf(q) => p = q

\* acquire_single_instance_lock: "two workers cannot take the same row and
\* cannot reorder one session's turns".  One turn of a session at a time, and
\* only when every earlier prompt is settled.
SessionSerialized ==
  \A w \in Workers : pc[w] # "idle" =>
    /\ \A e \in Before(job[w].row) : status[e] \in Settled
    /\ \A v \in Workers \ {w} :
         pc[v] # "idle" => SessionOf[job[v].row] # SessionOf[job[w].row]

\* CLAIM_LINEAR_INBOX: "therefore prompt N+1 cannot overtake prompt N".  While
\* a prompt waits, no later one of its session has started a turn.
NoOvertaking ==
  \A r \in Rows : \A e \in Before(r) : status[e] = "pending" =>
    \A p \in Runs : RowOf(p) = r => runs[p] = "none"

\* The newest completed run among some rows of a session.
LatestOf(S) == LET done == {r \in S : status[r] = "completed"}
               IN IF done = {} THEN NoRun ELSE link[Max(done)]

\* _complete_and_advance: no crash leaves "a completed turn whose history the
\* next turn cannot inherit".  The cursor names the newest completed turn and
\* each completed turn began from the history of the completed one before it.
ConversationIsOneChain ==
  /\ \A s \in Sessions : cursor[s] = LatestOf({r \in Rows : SessionOf[r] = s})
  /\ \A r \in Rows : status[r] = "completed" =>
       inherits[link[r]] = LatestOf(Before(r))

\* "the run record is the durable fact and the inbox row is bookkeeping about
\* it": a settled row agrees with its runs.  A completed row names a completed
\* run, a failed row has none, and a turn that changed tasks can be found from
\* its row, so that an operator can undo it.
RowTellsTheRun ==
  \A r \in Rows :
    /\ status[r] = "completed" => link[r] # NoRun /\ runs[link[r]] = "completed"
    /\ status[r] = "failed" =>
         \A p \in Runs : RowOf(p) = r => runs[p] # "completed"
    /\ status[r] \in Settled => \A p \in committed : RowOf(p) = r => link[r] = p

\* Every write of a row goes by id alone, yet no late worker moves a row that
\* is settled, nor a run that ended.
SettledIsFinal ==
  [][/\ \A r \in Rows : status[r] \in Settled =>
          status'[r] = status[r] /\ link'[r] = link[r]
     /\ \A p \in Runs : runs[p] \in {"completed", "failed"} =>
          runs'[p] = runs[p]]_vars

\* The lease and the attempt budget: every accepted prompt is answered or
\* failed in the end, so no session is blocked behind one for ever.
EveryRowSettles == \A r \in Rows : (status[r] = "pending") ~> (status[r] \in Settled)
=============================================================================
