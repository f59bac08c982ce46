# Trellis: a TLA+ model of the task-managing chatbot

Trellis is a Python service (`src/backend/app`) in which a language model changes
a board of tasks through tools, under policy and human approval, with an audit
log from which every run can be undone. A browser (`src/frontend`) and Linear (a
webhook plus a worker) drive it. PostgreSQL is the only shared memory between
requests, workers and restarts: what can go wrong lies between its transactions.

The modules model those transactions. TLC checks them on small instances, TLAPS
proves what matters most for every instance. `PROJECT.json` maps each definition
to the lines it translates, each property to a mutant of the code that breaks
it, and each hazard of the code to the properties that would catch it.

## 1. The system

| Component | State | Operations | Hard behaviour | What makes it correct |
|---|---|---|---|---|
| Idempotency lease (`idempotency.py`, `sql.py`) | one `tool_invocations` row per (run, tool call) | acquire, replay, reacquire a failed lease, steal an expired one, poll, complete, fail | retries racing at guarded updates, two clocks, a crash holding the lease, a holder slower than its lease | one execution, one answer, every caller returns |
| Mutating tools (`tools.py`) | none of their own | replay, scope and policy, lease, one transaction with the mutation and the completion | rollback against lost commit, retry of a committed delete | mutation and lease commit together |
| Policy (`policy.py`) | none | `resolve_scope`, `check` | approval read long after it was given | no gated call runs unless its own row was approved |
| Runs, AG-UI stream (`agent.py`, `runs.py`, `main.py`) | `agent_runs.status`, `message_history` | create turn, stream, save history, complete, fail | several commits per outcome, cancelled streams, dead processes | terminal runs stay terminal; a waiting run has someone to move it on, or was stranded by an accident outside the handlers |
| Approval bridge (`agent.py`, `runs.py`, `useRun.ts`) | `approvals` | open, decide, expire, continue | racing decisions, repeated resumes, lost resumes | one card, the first decision stands, a resume answers the call the history ends in |
| Tasks and audit log (`domain.py`, migration 001) | `tasks`, `task_events` | create, update, bulk update, delete, restore, guarded delete | `ON DELETE SET NULL` rewrites rows nobody named | the log explains the rows; a version names the fields it was read with |
| Undo (`undo.py`, `runs.py`) | events relabelled `restored` | eligibility, precheck, reverse application | other runs came in between, foreign keys, order | all or nothing, exact inverse, spares others, at most once |
| Undo control turn (`agent.py`, `runs.py`) | a run of its own | create, undo, complete | two transactions | its status tells whether the undo happened |
| Linear ingress (`linear_agent.py`, `main.py`) | `linear_agent_inbox` row | verify, classify, authorize, accept | redelivery, concurrent deliveries | one decision per delivery id and per signed body |
| Linear worker (`linear_agent_worker.py`) | lease, attempts and link of the row, the session's cursor | claim, dispatch, signal, turn, settle, release | crash between any two commits, retry after partial effects | at most one effective turn per prompt, turns of a session in order, one chain of histories |
| Linear installation (`linear_install.py`) | OAuth state, installation, tokens | install, revoke, rotate | single-use state, revocation against reinstall, two refreshes of a rotating token | one active installation, never an older credential over a newer, no credential lost to a race |
| Linear HTTP client (`linear_agent_api.py`) | none | GraphQL calls | pure I/O | - |
| Linear outbox (migration 002) | `linear_projections` | trigger on `task_events` | nothing reads it yet | one projection per event |
| Browser continuity (`continuity.ts`, `TrellisHttpAgent.ts`) | the run the next turn names | advance, reconcile, reset | a lost stream reconciled while the user sends | the cursor names a completed run and never goes back |
| Browser board (`useBoard.ts`) | last fetched board | refetch | overlapping answers | latest wins |
| Demo reset (`seed.py`, `main.py`) | everything | truncate with cascade and re-seed | foreign keys that reach further than the board, invocations in flight | accepted Linear work survives it |
| Row locks (`sql.py`, `domain.py`, `undo.py`) | PostgreSQL locks | lock, cascade | lock order | no cycle |
| Limits, configuration, pool; models, prompts, errors; widgets; scripts, CI, tests | - | - | sequential or declarative | - |

How they meet. The browser posts a turn; `create_turn` opens a run and the model
streams. A tool takes the lease of its call and, in one transaction, changes
tasks, writes events and completes the lease. A gated call instead ends the
stream: the history is saved, an approval row opens and the run awaits. The human
decides over one route; the browser then sends a continuation, which loads the
history and runs the approved tool under the same policy and lease. Undo walks a
terminal run's events backwards. The Linear worker drives the same runs and tools
from an inbox, without approvals: a deferred call fails the run there. The webhook
fills that inbox in one transaction per delivery, and the worker speaks to Linear
with the one credential the OAuth callback stored and every refresh rotates. "Undo
the last thing" is a run of its own, without a model, that undoes another.

## 2. The modules

`X.tla` models, `MCX.tla` instantiates it for TLC, `XProofs.tla` holds theorems;
`NumberSets.tla` has the facts about sets of numbers that several of them need.
A definition with a suffix (`Resolve_Unbounded`, `Finish_CursorLeft`) stands before
the definition it alters: it is the mutated form `PROJECT.json` lists, and is used
nowhere else.

**ToolCall** is what the rest of the system sees of a tool call: one execution per
id, and answers that are the result of that execution, for the caller's own
request.

**ToolLease** is the protocol. One action per statement that commits, so two
callers interleave at every statement boundary: `ReplayCompleted`, `Policy`,
`Acquire` (`INSERT_LEASE`), `Resolve` (`SELECT_LEASE` and the switch of
`_resolve_conflict`), `ReacquireFailed`, `StealExpired`, `Poll`, then `Commit`
(mutation, events and `COMPLETE_LEASE`) or `Rollback` and `Fail`. The environment
crashes callers, expires leases and lets other runs change the target. Arguments
are abstracted to a request: equal argument hashes are equal requests. A request's
kind says what a second execution would meet: an insert that works again, a row
that is gone, or a version that moved on. `ImplementsToolCall` is the refinement.

**RunLifecycle** is one run. `status`, `outstanding` (the unanswered call that ends
the stored history), `decision` and `expired` are columns; `effect` is the state of
its events. An invocation is one framework run, with a program counter over the
commits of `_handle_continuation` and `_completion_recorder`: load, authorize,
execute, stream, save, settle or fail. A decision request has its read
(`CheckDecision`) and its guarded update (`Decide`) apart. `Vanish` is a disconnect,
a process death or an exception of the recorder; it may fall anywhere and leaves
the row as it is, because a cancellation is not an `Exception` and nothing sweeps
runs. `LoseResume` is the browser that never sends the second of its two requests; its
first one cannot be repeated, for the decision is recorded. `Actionable` are the cards a
decision request accepts. The lease of a gated call is taken as the atomic object `ToolCall` specifies
(a call already executed is replayed), which ToolLease is shown to implement.

**ControlTurn** EXTENDS RunLifecycle with the control turns that name its run as their
target. `StartControl` is `create_control_turn`; `AttemptUndo` the transaction under the
target's row lock, refused for the run's state, refused by the undo kernel (TaskUndo
says when), or applied; `CompleteControl` and `FailControl` the guarded statements that
write history, status and error; `AbandonControl` a death, or a failure that could not be
recorded either. The two transactions are apart, so everything may happen between them.
A control turn is the only one who undoes: `Undo` of RunLifecycle is taken inside
`AttemptUndo`. That the predecessor whose history is inherited is refused cannot happen
here, because a completed run stays completed (`TerminalIsFinal`). `ControlImplementsRun`
proves that the whole is still a RunLifecycle.

**TaskUndo** holds tasks, the log and undo. A row is a value, the `blocked_by`
pointer and the version. Each domain call and each undo is one transaction on
locked rows and so one action. `Deleted` and `CascadeEvents` are the foreign key's
action and its logging; `Precheck` is the backward walk; `Applied` is a recursive
function, the transaction after the last k events of the log, which takes `Compensate`
for each event of the wave, newest first, and refuses where the code rolls back; `Apply`
is its end. A call with a
stale `expected_version` changes nothing and is left out. The refusal for diverged
tasks is left out: no statement in the repository marks a task diverged.

**DecisionLog** is what ingress promises of one identity of a delivery: one decision, once.

**LinearIngress** is the webhook route: overlapping deliveries, each through freshness
(`Verify`), the installation and the authorization (`SelectInstallation`, whose outcome
`Decision` computes in the order of the code), the insert that waits for an uncommitted
row of the same identity (`InsertInbox`), `ClassifyConflict` or `Commit`, and the answer.
A body is signed and therefore fixes its event; an event keeps its delivery id across
retries while each retry is a new body, and an id may come again for another event. The
delivery id is a header the signature does not cover: `Replay` is any body under any id,
whether it is on record, was answered as a duplicate, or was never recorded because its
attempt failed. A death, a database error or an answer that is lost is `Fail`. The
installation comes and goes at any time. Its rows are the rows of LinearInbox, and
implement DecisionLog twice: as the rows of each delivery id and as those of each body.
They do not implement one decision per event (section 5, item 6).

**LinearInbox** holds the inbox, the worker and the sessions' cursors. Actions are
the transactions of `process_next` in order: `Claim`, `FinalizeAmbiguous` (a row that
already names a run) or `Dispatch`; `HandleSignal`, `RefusePrompt`, `AwaitToken` or
`Acknowledge`; `ReadCursor`, `CreateTurn`, `LinkRun`, `Mutate`; `ModelAnswers`,
`RefuseDeferred` or `ModelFails`; `SetRunStatus`, then `Finish`, `FailRow` or
`ReleaseRow`. `Abort` is a death or an exception the loop swallows, between any two. A
run is a (row, attempt) pair since a claim raises `attempt_count` and makes at most one
run. `committed` is the database's fact; the worker's own `RunEffects` flag equals it,
for synchronous tools finish before the turn's event loop returns. Rows are numbered in
the order of `received_at`, the start of the ingress transaction; `CommitInOrder` says
whether they also become visible in that order. A redelivery adds no row (LinearIngress)
and is a step that changes nothing.

**LinearInstall** holds the OAuth states, the installations and the credential. A
callback is `ConsumeState` (transaction A), `ExchangeCode` and `Validate` (the provider,
no transaction open), `InsertInstallation` (transaction B) or the clean-up,
`RevokeToken`, one token at a time. A worker is `Resolve`, `ReadInstallation`,
`RefreshTokens` (the provider), `RotateTokens` (the compare-and-swap), `Reread` for the
loser, `Emit`. The provider is `live`, `issued` and `replayable`: which tokens it would
accept, the newest generation of a grant's refresh token, and whether the one before it is
still in its grace period. `Answers` is its rotation as the code relies on it: the newest
token rotates or is answered without a successor, the one before it is replayed within 30
minutes, nothing older is accepted; `EndGrace` ends those minutes at any time. `unheard`
remembers the grants whose newest token was on its way here and lost. `Uninstall` and
`ApplyRevocation` are the workspace's removal of the app and the webhook that tells
of it, delivered in any order and any number of times.

## 3. The runs

| Run | Shows |
|---|---|
| `ToolLease` | three callers, all assignments of a create, an update and a delete under one id, disagreeing clocks: at most one commit, a completed row exactly when it happened, one holder, own answers, a final result, the refinement, and every started caller returns or dies |
| `ToolLeaseOverrun` (violation) | when a holder may outlive its lease, two callers commit |
| `RunLifecycle` | two gated calls in sequence, three invocations, two decision requests, two control turns: one card, a waiting run that somebody can move on unless its card expired, its resume was lost or its invocation vanished, only approved calls executed, resumes paired with the history, final statuses, undo that covers the run, control turns that tell the truth about it, and a settled end |
| `RunDoubleResume` (violation) | the server accepts a decision's resume twice, and two cards open |
| `TaskUndo` | two runs over two tasks that may block each other: the log explains the rows, versions name rows, undo is an exact inverse that spares others and is refused only on account of others |
| `TaskUndoOrder` (violation) | a delete that names a blocker before the task it blocks cannot be undone |
| `LinearIngress` | two overlapping requests, two events (one signed twice, one by somebody else), each body under either id, a failure: one decision per delivery id and per body (DecisionLog), answers that are true, and every event decided in the end |
| `LinearBodyReplay` (violation) | a copy of a retry's body under another delivery id is a second unit of work of its event |
| `LinearInbox` | a session with two prompts, another with a stop signal between them, two workers, two crashes, two attempts: one effective turn per prompt, serial sessions, one chain of histories, rows that agree with their runs, settled rows that stay, and every row settled in the end |
| `LinearLeaseLapse` (violation) | without the single-instance lock, a turn longer than its lease is claimed again while it runs |
| `LinearOvertake` (violation) | when a later ingress transaction commits first, its prompt is claimed and run before the earlier one is visible |
| `LinearInstall` | two callbacks over two states, two workers, two rotations, a grace period that ends at any time: every live token accounted for, a revocation that takes down what it was about and nothing newer, a credential that no race costs the row, and a revoked row that stays so |

### Bounds, and why they suffice

Every invariant and action property of the passing runs, and the refinements, are also
theorems (section 4), so that for safety the bounds only have to make the interesting
cases happen. Liveness rests on the bounds alone.

- ToolLease: three callers are a holder, a thief and one more that races both;
  `ResolveAttempts` 2 and `PollAttempts` 1 reach each loop's second pass and its
  exhaustion.
- RunLifecycle: three invocations are the first, its continuation, and a second
  continuation or one spare; two decision requests race on a call or serve one each; two
  control turns race to undo. Mutations in a stream are unbounded in number (only the
  effect is kept). `RunDoubleResume` has a third call, so that both
  continuations can defer, and a third request, and no control turn.
- TaskUndo: no domain call starts with `MaxEvents` = 3 events in the log; the last
  one may log two, and the undos log without bound. Three suffice for "own change,
  foreign change, own change", the shortest wave a check of the newest event alone
  gets wrong, and for create, link, delete. Two tasks give each blocker shape,
  mutual and self included.
- LinearInbox: three rows give a session with a successor and a foreign row between
  them, which is the stop signal; `MaxAttempts` 2 has a retry and exhaustion; attempts
  saturate past the budget. `MaxAborts` bounds crashes and swallowed exceptions at two.
  There is no symmetry, which is unsound for liveness.
- LinearIngress: two requests are one that waits and one it waits for; three bodies over
  two events and two delivery ids make each outcome of the classification arise, a reused
  id included (the body of one event under the id of the other), together with each way
  two of them can overlap. `MaxFailures` 1 is below the three
  retries Linear documents: it gives up on an event that fails more often.
- LinearInstall: two callbacks are a reinstall, or a race for the one active row; two
  states leave one to be presented twice; two rotations (`MaxGen` 2) let the write back of
  the first come after the second, when the token it spent is no longer replayable. A revocation is named by the rows created before it.

`CHECK_DEADLOCK FALSE` is in every configuration but the two of LinearIngress, because the other
systems really end: callers have returned, runs are over, prompts are settled.

### Assumptions

- `HolderPrompt`: no holder outlives its lease. `lease_ttl_seconds` is 120 and a tool
  body is a short transaction, but nothing enforces it: `tool_timeout` does not
  fire for synchronous tools. `ToolLeaseOverrun` is the run without it.
- `ClocksAgree` FALSE lets the application's and the database's judgement of expiry
  differ; the passing run does not need agreement.
- `ResumeOnce`: `useRun.decide` posts the decision first and sends the resume only
  when that succeeded, once, behind an in-flight flag. The server does not enforce
  it: `RunDoubleResume`.
- `BlockersLast`: a delete request never names a blocker before a task it blocks;
  `TaskUndoOrder` drops it.
- `LeaseCoversTurn`: two workers whose turns end within their lease. Production runs
  one worker behind an advisory lock, and one that claims nothing while it executes a
  turn, so there the separation needs no assumption about time. `LinearLeaseLapse` drops it.
- `CommitInOrder`: the ingress transactions of a session commit in the order in which
  they began. Linear sends a session's events some time apart, but each delivery runs in
  its own thread and nothing orders them: `LinearOvertake`.
- Tasks are finitely many, and the absence of a row is no row (`UndoAssumption`): an
  uncommitted undo writes finitely many events. Rows of the inbox are finitely many too
  (`InboxAssumption`), so that the latest of them exists.
- A commit's acknowledgement arrives, in every module: the caller of a transaction knows
  whether it happened. Answers of Linear may be lost anywhere (LinearInstall,
  LinearIngress).
- Linear as the code uses it: an event's delivery id is stable across its retries, a
  revocation is sent for a removal by the workspace and not for a token the service hands
  back, a refresh token spent a second time is answered with the same successor for 30
  minutes. The model has no clock: that window may end at any moment, and a token two
  generations old is past it. There is one workspace.

### Fairness

- `ToolLease`: weak fairness of each started caller's own steps: threads run and
  database calls return. Nothing is assumed of expiry, nor of crashes.
- `RunLifecycle`: weak fairness of an invocation's progress. Mutating is not progress:
  `request_limit` and `tool_calls_limit` end a stream that only calls tools. Nothing
  is owed by humans, browsers or clocks, so `RunSettles` stops at a pending card, and
  an invocation that vanished settles nothing.
- `LinearInbox`: weak fairness of each worker (the service manager restarts it and
  its loop polls) and of time passing on a lease or backoff. Crashes are finite.
- `LinearIngress`: weak fairness of a handler, strong fairness of each event's attempts:
  Linear retries, and a server that is busy again and again is still tried. Nothing is
  owed by replays, late deliveries or reinstalls.
- `LinearInstall`: weak fairness of the delivery of a revocation, which Linear retries.
  Nothing is owed by operators, callbacks or workers.

## 4. What is proved

Every invariant and action property that a passing run checks, the refinements, and
`NoOvertaking` where its assumption holds, are theorems for every value of the constants:
any number of callers, tasks, rows, workers, attempts, rotations, and logs of any length.
The assumptions beyond each module's own on its constants are named below.

`ToolLeaseProofs`. `TypeCorrect` needs nothing more. Under `HolderPrompt`,
`LeaseInvariant` proves the inductive `LeaseInv`, and from it `CommitsOnce`,
`CompletedMeansCommitted`, `OneHolder`, `AnswersAreOwn`, `CompletedFinal` and
`LeaseImplementsToolCall`. At-most-once is not inductive alone: a second commit needs a
second holder, a second holder needs a thief that saw an expired row, and its guarded
update looks at the expiry only. `LeaseInv` therefore says what a caller at each guarded
statement may rely on: a holder's row is pending and unexpired and it is the only holder
(`SoleHolder`, `HolderInv`); a thief that would succeed still sees a pending row
(`StealInv`), for expiry cannot strike between its read and its update; nothing committed
unless the row is completed by the one that did (`ResultInv`); a caller past the hash
comparison presents the row's request (`CallerInv`).

`RunLifecycleProofs`, under `ResumeOnce`. `RunInv` says who holds the turn: one live
invocation with neither card nor recorded decision outstanding, or one card, or one
recorded decision whose resume is owed; and what each knows of the stored history.
It yields `RunTypeCorrect`, `OneCard`, `SomeoneIsWaitedFor`, `GatedCallsApproved`,
`ResumesOwnCall`, `TerminalFinal`, `DecisionFinal` and `UndoCovers`. A second card is
impossible because a card needs a live invocation, and that was started by using up the
only owed decision. For `SomeoneIsWaitedFor` the invariant follows the call the history
ends in: while the run waits, somebody has it in hand, or the one who had is among the
accidents the property names. What it excludes is the rest: a refusal, a failure or a
race of the handlers that would leave the run waiting.

`ControlTurnProofs`. `ControlImplementsRun`: every step of a run with control turns is a
step of RunLifecycle or changes nothing of it, so all the theorems above hold beside any
number of control turns. `ControlTruth`, under `ResumeOnce` (it rests on `RunInv`):
the inductive invariant ties the target's `effect` to the one control turn that was told
"applied", and a turn's answer to what the target had become when it was given; a
"no effects" or "already" stays true because a run that ended gains no effect and a
compensation is not compensated again.

`TaskUndoProofs`. The log is the history of the table. `Extends` says what one statement
does to both: one event for each row that changed, from what it was to what it is, with a
greater version or a cleared pointer. That is shown of every domain call, of the foreign
key's cascade and of each compensation; `LogInv` is what a table and a log that grew like
this have in common: the events of a task form one chain that ends in its row
(`ChainInv`), versions grow along it and across a deletion (`VersionInv`), pointers name
rows that stand (`PointerInv`) or that the log knows (`NamedInv`), and nothing is known of a task
before its creation (`CreationInv`). Both are stated of any table and log, because an undo
has to keep them between two of its compensations. `AuditInvariant` adds that no run in
progress was compensated and that a row deleted by a run that was not compensated stays
gone (`GoneInv`), since task ids are not used again. `AuditTypes`, `LogExplainsRows` and
`VersionsNameRows` follow.

`UndoInvertsTheRun`, for a wave of any length, is an induction over the steps of the walk
(`Walk`): after k events the transaction continues its own log (`Continues`), every row the
wave has passed is back to the fields the run first found (`Inverted`), a row that was
gone comes back only where one of its events is undone (`StaysGone`), and a restored row's
version is beyond all it had (`Versioned`).
The induction is over the set of those k for which `Walk` holds (`UpTo` of NumberSets), as
the library's induction theorem cannot be instantiated. `UndoLeavesOthersAlone` is
arithmetic of versions: `Precheck` compares a row's version with the wave's newest, and a
foreign change would have raised it; only a cleared pointer does not, which is why a
deleted blocker is the exception. `RefusalsBlameOthers` needs `BlockersLast`: with it, a
row is logged no later than the deletion of its blocker, so that a blocker stood whenever
an event found a row pointing at it (`BlockerInv`). Walking backwards the blocker is then
restored first, and a restored row whose blocker is missing misses it through somebody
else.

`LinearInboxProofs`, all but `InboxTypes` under `LeaseCoversTurn` and `CommitInOrder`.
`InboxInvariant` proves `InboxInv`: what the owner of a lease may rely on between its
transactions (`HoldInv`), and what is known where it stands in the turn (`PlaceInv`); a
row's link names a run of that row (`LinkInv`), and only the run it names has changed tasks
or is completed (`OnlyLinked`); a settled row agrees with its link, and all before it in
its session are settled (`SettledInv`); rows appear in order (`AppearInv`); the cursor is
at the latest completed run of its session (`CursorInv`). `TurnsChangeOnce` needs
`OnlyLinked`: a
retry claims only a row whose earlier attempt was never linked, or finalizes it. It yields
also `SessionsInTurn`, `NobodyOvertakes`, `HistoriesChain`, `RowsTellTheirRuns` and
`SettledRowsStay`. The cursor does not follow from the chain: it needs that no earlier
prompt can complete after a later one, which is `AppearInv` with `SettledInv`.

`LinearInstallProofs` needs no further assumption. `InstallInv`: a callback with a state has
consumed it (`SpentInv`); what it holds at each step (`HandInv`); a revocation is about rows
that existed and tokens that were dead when it was sent (`RevocationInv`), and a dead grant never
revives; the stored generation is the newest issued or the one before (`GenerationInv`), for
a refresh spends at most the stored one and its answer is one beyond (`RefreshInv`). This
gives `GrantsAccounted`, `ReinstallsSpared` and `RevocationsLast`. `RacesSpareCredentials`
follows the newest token itself: when the stored one is behind it and no longer
replayable, a worker carries the newest to a compare-and-swap that will succeed, or it is
`unheard` (`CarrierInv`); a second worker cannot make that write fail without storing the
same successor, however the refreshes of any number of workers overlap.

`LinearIngressProofs` needs no further assumption, and none on what comes under which id.
`IngressInv`: no two rows collide on an identity (`RecordInv`), a request that is about to
commit collides with no row and no other that is, and one to classify with some row
(`InsertInv`), and an answer is what is on record (`AnswerInv`). `AnswersAreTrue` and
`IngressImplementsDecisionLog` follow: the commit of an insert is the decision of its id
and of its body, and every other step is a stutter of DecisionLog. That an event is
decided once is not proved because it is not so (`LinearBodyReplay`).

Only model-checked: `CallsReturn`, `RunSettles`, `EveryRowSettles`, `EveryEventDecided` and
`RevocationLands`, because liveness under fairness is out of the prover's reach. The
violation runs are TLC's by nature; where a theorem has an assumption, they show that it is
needed.

## 5. Where the code and its words part

1. `ToolLeaseOverrun`: `COMPLETE_LEASE` and `FAIL_LEASE` go by key alone and
   `STEAL_EXPIRED_LEASE` by expiry alone, so a slow holder and its thief both commit.
   Guarding the completion by the attempt and the steal by `status = 'pending'`
   would close it.
2. `RunDoubleResume`: `runs.py` says a second pending approval can only come from
   outside the application; `open_approval` does not look, and a resume is not
   consumed. A browser that sends one resume keeps it from happening.
3. `TaskUndoOrder`: `undo.py` takes a foreign key failure as proof of someone else's
   deletion; a request in the other order does it alone.
4. `LinearLeaseLapse`: the worker says competing workers "would be correct and merely
   wasteful"; the lease is not renewed, so it is the lock that keeps order.
5. `LinearOvertake`: `sql.py` and migration 003 say that the claim predicate keeps prompt
   N+1 from overtaking prompt N. The predicate sees committed rows; `received_at` is taken
   before the commit.
6. `LinearBodyReplay`: `linear_agent.py` and migration 003 say that an identical signed
   body under a fresh delivery id cannot buy a second unit of work. True of a body on
   record; a retry's body is answered as a duplicate of its delivery id and its digest is
   stored nowhere, so that a copy under another id, within the freshness window, becomes a
   second row of the event. Recording the digests of duplicates, or a unique key on the
   event's own identity, would close it.

Met on the way, without a run of their own:

- A revocation that arrives between the exchange of the code and transaction B finds no
  row; the row inserted afterwards is active with dead tokens, and blocks a reinstall until
  somebody revokes it (`RevocationLands` is about rows that existed). The same block follows
  when the answer of a refresh is lost and no turn asks for it again within 30 minutes: the
  row stays active with a token Linear no longer takes (`CredentialSurvivesRaces` is about
  everything else).
- A run whose card expired, or whose resume was lost, waits for good: nothing fails it, its
  decision cannot be made again, and a run that awaits cannot be undone.
  `docs/BUILD_SPEC.md:838` and decision D-57 accept it of the resume that is never sent.
- `TRUNCATE_ALL_STATE` truncates `agent_runs` with `CASCADE`, which by the foreign keys of
  migration 003 (`linear_agent_inbox.run_id`, `linear_agent_sessions.last_completed_run_id`)
  empties the inbox and the sessions too, while `sql.py:889-892` says that a reset must
  never discard accepted webhook work.
- `GrantAccounted` names what else the code accepts losing: an exchange whose answer never
  arrives, a death in a callback, a clean-up Linear refuses.
- `SWEEP_ORPHAN_RUNS` is a statement of `sql.py` that only tests execute.

## 6. Not modelled

- The wire format, usage counters, projections of reasoning and history, prompts and the
  shapes of requests to Linear carry no protocol state. Models, errors, configuration,
  limits and the pool are declarations or library code; scripts, CI and tests are no part
  of the running system.
- Row locks are abstracted by atomic transactions; nothing is said of deadlock. PostgreSQL
  aborts one side of a cycle, and that transaction changes nothing.
- A lost acknowledgement of a commit (see the assumptions): in ToolLease, `fail` would then
  rewrite a completed row as failed, through the same unguarded statement as in
  `ToolLeaseOverrun`.
- The browser's continuity cursor and board: their steps are the browser's, and the server
  checks the predecessor it is given (`CreateTurn`).
- The demo reset: one statement, whose reach is read off the foreign keys (section 5), and
  what a stream or a worker does whose run it has removed.
- The skew between Linear's clock and the database's in the comparison that decides which
  rows a revocation is about.
- The approved card against the tasks as they have become since it was shown: no module
  has approvals and tasks together.
- Note merging, the board's refetch, reference resolution, pagination, the policy's hash: sequential functions
  that unit tests reach.
- The history that a continuation loses when it dies (decision D-57) is accepted by the
  code: the model has it as `Vanish`.

## 7. Plan

Done, in order: ToolCall and ToolLease, RunLifecycle, TaskUndo, LinearInbox, LinearInstall,
DecisionLog and LinearIngress, ControlTurn; then the proofs of each, ending with
those of the Linear modules and of TaskUndo. Next, in order of what each would add:

1. ToolLease with a commit whose acknowledgement is lost: the one assumption all modules
   share, and the unguarded `FAIL_LEASE` that would then meet a completed row.
2. RunLifecycle composed with TaskUndo: a card that was shown for rows that changed since.
3. BrowserContinuity: the cursor against a stream that was lost.

A run is added only for a question that none of the present ones can carry.
