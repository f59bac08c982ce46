------------------------------ MODULE ToolLease ------------------------------
(***************************************************************************)
(* The idempotency lease of one tool call (run_id, tool_call_id) and the   *)
(* five-step body every mutating tool runs around it.                      *)
(*                                                                         *)
(* Source: app/idempotency.py (acquire, replay_completed, complete, fail), *)
(* the lease statements of app/sql.py, and the tool bodies of app/tools.py.*)
(* Each action is one database statement with the commit that follows it,  *)
(* so every interleaving of two callers at a statement boundary is here.   *)
(*                                                                         *)
(* A caller is one invocation of the tool body: the first attempt, a       *)
(* retry, or a second continuation of the same run.  Requests with equal   *)
(* argument hashes are equal: a request stands for the pair tool name and  *)
(* arguments hash.                                                         *)
(***************************************************************************)
EXTENDS Naturals, FiniteSets

CONSTANTS Callers, Requests, NoCaller, NoRequest,
          ResolveAttempts,  \* RESOLVE_ATTEMPTS: passes of _resolve_conflict
          PollAttempts,     \* POLL_ATTEMPTS: re-reads of _poll
          KindOf,           \* [Requests -> Kinds]: what the mutation depends on
          HolderPrompt,     \* TRUE: no caller outlives its lease (see Expire)
          ClocksAgree       \* TRUE: application and database clocks agree

\* What a second execution of the same request would find.
\*   "create": nothing to find, it inserts again (create_task, bulk append)
\*   "update": the expected version, which the first execution moved
\*   "delete": the row, which the first execution removed
Kinds == {"create", "update", "delete"}

ASSUME LeaseAssumption ==
  /\ NoCaller \notin Callers
  /\ NoRequest \notin Requests
  /\ ResolveAttempts \in Nat \ {0}
  /\ PollAttempts \in Nat \ {0}
  /\ KindOf \in [Requests -> Kinds]
  /\ HolderPrompt \in BOOLEAN
  /\ ClocksAgree \in BOOLEAN

VARIABLES
  lease,      \* the tool_invocations row
  target,     \* the task the requests are about
  request,    \* what each caller presents
  pc,         \* where each caller is in the tool body
  passes,     \* passes of _resolve_conflict left to each caller
  polls,      \* re-reads left in the current _poll
  answered,   \* the caller whose result a caller returned, or NoCaller
  committed   \* history: the callers whose mutation committed

vars == <<lease, target, request, pc, passes, polls, answered, committed>>

\* Statements of the body that write the domain or the lease on the strength
\* of a lease the caller believes it holds.
Holding == {"execute", "fail"}

PCs == {"idle", "preflight", "policy", "recheck", "acquire", "resolve",
        "reacquire", "steal", "poll", "respond", "done", "dead"} \cup Holding

Statuses == {"none", "pending", "completed", "failed"}

NoLease == [status |-> "none", request |-> NoRequest,
            expired |-> FALSE, result |-> NoCaller]

TypeOK ==
  /\ lease \in [status : Statuses, request : Requests \cup {NoRequest},
                expired : BOOLEAN, result : Callers \cup {NoCaller}]
  /\ target \in {"asRead", "changed", "gone"}
  /\ request \in [Callers -> Requests]
  /\ pc \in [Callers -> PCs]
  /\ passes \in [Callers -> 0 .. ResolveAttempts]
  /\ polls \in [Callers -> 0 .. PollAttempts]
  /\ answered \in [Callers -> Callers \cup {NoCaller}]
  /\ committed \subseteq Callers

Init ==
  /\ lease = NoLease
  /\ target = "asRead"
  /\ request \in [Callers -> Requests]
  /\ pc = [c \in Callers |-> "idle"]
  /\ passes = [c \in Callers |-> ResolveAttempts]
  /\ polls = [c \in Callers |-> PollAttempts]
  /\ answered = [c \in Callers |-> NoCaller]
  /\ committed = {}

----------------------------------------------------------------------------
(* Helpers                                                                 *)

Goto(c, l) == pc' = [pc EXCEPT ![c] = l]

\* The caller raises: a conflict, an in-flight lease or a refusal.
Refuse(c) == /\ Goto(c, "done")
             /\ UNCHANGED <<lease, target, request, passes, polls, answered,
                            committed>>

\* The caller returns the stored result.
Replay(c) == /\ Goto(c, "done")
             /\ answered' = [answered EXCEPT ![c] = lease.result]
             /\ UNCHANGED <<lease, target, request, passes, polls, committed>>

\* Local control flow: nothing but the program counter moves.
Step(c, l) == /\ Goto(c, l)
              /\ UNCHANGED <<lease, target, request, passes, polls, answered,
                             committed>>

\* The policy scope load finds every target row of the request.
InScope(r) == KindOf[r] = "create" \/ target # "gone"

\* The domain write finds what it expects: any version for a delete, the
\* expected version for an update, nothing for a create.
Applies(r) == \/ KindOf[r] = "create"
              \/ KindOf[r] = "update" /\ target = "asRead"
              \/ KindOf[r] = "delete" /\ target # "gone"

TargetAfter(r) == CASE KindOf[r] = "create" -> target
                    [] KindOf[r] = "update" -> "changed"
                    [] KindOf[r] = "delete" -> "gone"

----------------------------------------------------------------------------
(* The tool body                                                           *)

\* The model, a retry or a continuation presents the call.
Start(c) == pc[c] = "idle" /\ Step(c, "preflight")

\* replay_completed: a read-only look for a committed result.  It runs before
\* policy, and once more after policy refused the scope.
ReplayCompleted_IgnoresHash(c) ==
  /\ pc[c] \in {"preflight", "recheck"}
  /\ IF lease.status = "completed"
       THEN Replay(c)
       ELSE IF pc[c] = "preflight" THEN Step(c, "policy") ELSE Refuse(c)

ReplayCompleted(c) ==
  /\ pc[c] \in {"preflight", "recheck"}
  /\ \/ lease.status # "none" /\ lease.request # request[c] /\ Refuse(c)
     \/ /\ lease.status = "completed" /\ lease.request = request[c]
        /\ Replay(c)
     \/ /\ \/ lease.status = "none"
           \/ lease.status # "completed" /\ lease.request = request[c]
        /\ IF pc[c] = "preflight" THEN Step(c, "policy") ELSE Refuse(c)

\* policy.resolve_scope and policy.check.  A missing target sends the caller
\* back to the preflight; any other refusal (approval missing, expired,
\* rejected) ends the call without a lease.
Policy(c) ==
  /\ pc[c] = "policy"
  /\ \/ InScope(request[c]) /\ Step(c, "acquire")
     \/ ~InScope(request[c]) /\ Step(c, "recheck")
     \/ InScope(request[c]) /\ Refuse(c)

\* INSERT_LEASE ... ON CONFLICT DO NOTHING, committed on its own.
Acquire(c) ==
  /\ pc[c] = "acquire"
  /\ \/ /\ lease.status = "none"
        /\ lease' = [status |-> "pending", request |-> request[c],
                     expired |-> FALSE, result |-> NoCaller]
        /\ Goto(c, "execute")
        /\ UNCHANGED <<target, request, passes, polls, answered, committed>>
     \/ lease.status # "none" /\ Step(c, "resolve")

\* What a caller does about a pending row.  Whether the lease looks expired
\* is decided here by the application clock (_now()), the guard of the steal
\* by the database clock (now()): unless they agree, either may be ahead.
PendingBranch == IF ClocksAgree
                   THEN IF lease.expired THEN {"steal"} ELSE {"poll"}
                   ELSE {"steal", "poll"}

\* One pass of _resolve_conflict: SELECT_LEASE and the switch on what it saw.
Resolve_Unbounded(c) ==
  /\ pc[c] = "resolve"
  /\ \/ lease.request # request[c] /\ Refuse(c)
     \/ /\ lease.request = request[c] /\ lease.status = "completed"
        /\ Replay(c)
     \/ /\ lease.request = request[c]
        /\ passes' = [passes EXCEPT ![c] = @ - 1]
        /\ \/ lease.status = "failed" /\ Goto(c, "reacquire")
           \/ lease.status = "pending" /\ \E l \in PendingBranch : Goto(c, l)
        /\ polls' = [polls EXCEPT ![c] = PollAttempts]
        /\ UNCHANGED <<lease, target, request, answered, committed>>

Resolve(c) ==
  /\ pc[c] = "resolve"
  /\ \/ passes[c] = 0 /\ Refuse(c)
     \/ passes[c] > 0 /\ lease.request # request[c] /\ Refuse(c)
     \/ /\ passes[c] > 0 /\ lease.request = request[c]
        /\ lease.status = "completed"
        /\ Replay(c)
     \/ /\ passes[c] > 0 /\ lease.request = request[c]
        /\ passes' = [passes EXCEPT ![c] = @ - 1]
        /\ \/ lease.status = "failed" /\ Goto(c, "reacquire")
           \/ lease.status = "pending" /\ \E l \in PendingBranch : Goto(c, l)
        /\ polls' = [polls EXCEPT ![c] = PollAttempts]
        /\ UNCHANGED <<lease, target, request, answered, committed>>

\* A guarded UPDATE handed the row to this caller: the lease is pending again
\* with a fresh expiry.  A previous result, if any, is left in place.
Take(c) == /\ lease' = [lease EXCEPT !.status = "pending", !.expired = FALSE]
           /\ Goto(c, "execute")
           /\ UNCHANGED <<target, request, passes, polls, answered, committed>>

\* REACQUIRE_FAILED_LEASE: guarded by status = 'failed'.
ReacquireFailed_NoGuard(c) == pc[c] = "reacquire" /\ Take(c)

ReacquireFailed(c) ==
  /\ pc[c] = "reacquire"
  /\ \/ lease.status = "failed" /\ Take(c)
     \/ lease.status # "failed" /\ Step(c, "resolve")

\* STEAL_EXPIRED_LEASE: guarded by lease_expires_at < now() and by nothing
\* else; in particular not by the status.
StealExpired_NoGuard(c) == pc[c] = "steal" /\ Take(c)

StealExpired(c) ==
  /\ pc[c] = "steal"
  /\ \/ lease.expired /\ Take(c)
     \/ ~lease.expired /\ Step(c, "poll")

\* _poll: one sleep and one re-read.
Poll_Forever(c) ==
  /\ pc[c] = "poll"
  /\ \/ lease.status = "completed" /\ Replay(c)
     \/ lease.status = "failed" /\ Step(c, "resolve")

Poll(c) ==
  /\ pc[c] = "poll"
  /\ \/ polls[c] = 0 /\ Refuse(c)
     \/ polls[c] > 0 /\ lease.status = "completed" /\ Replay(c)
     \/ polls[c] > 0 /\ lease.status = "failed" /\ Step(c, "resolve")
     \/ /\ polls[c] > 0 /\ lease.status = "pending"
        /\ polls' = [polls EXCEPT ![c] = @ - 1]
        /\ UNCHANGED <<lease, target, request, pc, passes, answered, committed>>

\* The one transaction: domain mutation, task_events, COMPLETE_LEASE, commit.
\* COMPLETE_LEASE is unconditional: it checks neither status nor attempt.
Commit_SeparateComplete(c) ==
  /\ pc[c] = "execute"
  /\ Applies(request[c])
  /\ target' = TargetAfter(request[c])
  /\ committed' = committed \cup {c}
  /\ Goto(c, "respond")
  /\ UNCHANGED <<lease, request, passes, polls, answered>>

Commit(c) ==
  /\ pc[c] = "execute"
  /\ Applies(request[c])
  /\ target' = TargetAfter(request[c])
  /\ lease' = [lease EXCEPT !.status = "completed", !.result = c]
  /\ committed' = committed \cup {c}
  /\ Goto(c, "respond")
  /\ UNCHANGED <<request, passes, polls, answered>>

\* The transaction rolled back: the domain refused (version conflict, missing
\* row) or the database failed.
Rollback(c) == pc[c] = "execute" /\ Step(c, "fail")

\* FAIL_LEASE on a connection of its own, after the rollback; unconditional.
\* Then the error propagates.
Fail(c) ==
  /\ pc[c] = "fail"
  /\ lease' = [lease EXCEPT !.status = "failed"]
  /\ Goto(c, "done")
  /\ UNCHANGED <<target, request, passes, polls, answered, committed>>

\* The caller that executed returns its own result.
Respond(c) ==
  /\ pc[c] = "respond"
  /\ answered' = [answered EXCEPT ![c] = c]
  /\ Goto(c, "done")
  /\ UNCHANGED <<lease, target, request, passes, polls, committed>>

----------------------------------------------------------------------------
(* The environment                                                         *)

\* The process or the worker thread dies.  Nothing uncommitted survives.
Crash(c) == pc[c] \notin {"idle", "done", "dead"} /\ Step(c, "dead")

\* lease_expires_at passes.  Under HolderPrompt no caller takes longer than
\* the lease between taking it and its last lease write, nor between reading
\* the row as expired and the guarded steal (lease_ttl_seconds is 120, a tool
\* is given tool_timeout_seconds = 20, but a synchronous tool body runs on a
\* thread that the timeout cannot stop).
Expire ==
  /\ lease.status # "none" /\ ~lease.expired
  /\ HolderPrompt => \A c \in Callers : pc[c] \notin Holding \cup {"steal"}
  /\ lease' = [lease EXCEPT !.expired = TRUE]
  /\ UNCHANGED <<target, request, pc, passes, polls, answered, committed>>

\* Another run of the same user updates or deletes the task.
ForeignChange ==
  /\ \/ target = "asRead" /\ target' \in {"changed", "gone"}
     \/ target = "changed" /\ target' = "gone"
  /\ UNCHANGED <<lease, request, pc, passes, polls, answered, committed>>

\* What the scheduler owes a started caller.
Progress(c) ==
  \/ ReplayCompleted(c) \/ Policy(c) \/ Acquire(c) \/ Resolve(c)
  \/ ReacquireFailed(c) \/ StealExpired(c) \/ Poll(c)
  \/ Commit(c) \/ Rollback(c) \/ Fail(c) \/ Respond(c)

Next == \/ \E c \in Callers : Start(c) \/ Progress(c) \/ Crash(c)
        \/ Expire
        \/ ForeignChange

Spec == Init /\ [][Next]_vars

FairSpec == Spec /\ \A c \in Callers : WF_vars(Progress(c))

----------------------------------------------------------------------------
(* Properties                                                              *)

\* idempotency.py: "only the caller whose guarded UPDATE touches a row may
\* execute".  However many retries race, steal and reacquire, the mutation of
\* one tool call id commits at most once.
AtMostOnce == \A c, d \in committed : c = d

\* complete(): "There is no window where the mutation committed and the lease
\* did not", and tools.py: "a pending row is proof that nothing happened".
CompletedIffCommitted == (lease.status = "completed") <=> (committed # {})

\* A result, once stored, is what every later retry replays: no late failure
\* handler and no thief ever moves a completed row again.
CompletedIsFinal ==
  [][lease.status = "completed" =>
       /\ lease'.status = "completed"
       /\ lease'.result = lease.result
       /\ lease'.request = lease.request]_vars

\* "a null result is never returned for a pending row, and a hash mismatch is
\* never treated as a replay": a caller that is answered is answered with the
\* result of a committed execution of the very request it presented.
AnsweredWithOwnRequest ==
  \A c \in Callers : answered[c] # NoCaller =>
     answered[c] \in committed /\ request[answered[c]] = request[c]

\* Between a taken lease and its last write, the row is still pending and no
\* second caller believes it holds the lease: what makes stealing safe.
SoleHolder ==
  \A c \in Callers : pc[c] \in Holding =>
     /\ lease.status = "pending" /\ lease.request = request[c]
     /\ \A d \in Callers \ {c} : pc[d] \notin Holding

\* Every started caller is answered, refused or dead in the end: two retries
\* cannot bounce each other between the guarded statements for ever.
CallsReturn == \A c \in Callers : (pc[c] # "idle") ~> (pc[c] \in {"done", "dead"})

\* The tool call the rest of the system sees.
Call == INSTANCE ToolCall WITH
          outcome <- (IF lease.status = "completed" THEN lease.result
                      ELSE NoCaller)
ImplementsToolCall == Call!Spec
=============================================================================
