------------------------------ MODULE TaskUndo ------------------------------
(***************************************************************************)
(* The task table, its append-only audit log, and the undo of a run.       *)
(*                                                                         *)
(* Source: app/domain.py (the five mutations, restore_task,                *)
(* delete_task_guarded, write_events), app/undo.py, the eligibility check  *)
(* of app/runs.py (attempt_run_undo) and the schema of                     *)
(* migrations/001_init.sql.                                                *)
(*                                                                         *)
(* A mutation and its events are one transaction holding the row locks of  *)
(* what it touches, so each is one action.  A row is its six restorable    *)
(* fields, abstracted to a value and the blocked_by pointer, and its       *)
(* version.  A stale expected_version changes nothing and is left out.     *)
(***************************************************************************)
EXTENDS Naturals, Sequences, FiniteSets, FiniteSetsExt, SequencesExt

CONSTANTS Tasks, Values, Runs,
          NoTask,        \* a null blocked_by
          Absent,        \* no row; a null snapshot
          MaxEvents,     \* bound on the log before the undos
          BlockersLast   \* TRUE: a delete of several tasks never names a
                         \* blocker before a task it blocks

Rows == [value : Values, blocker : Tasks \cup {NoTask}, version : Nat \ {0}]

ASSUME UndoAssumption ==
  /\ IsFiniteSet(Tasks) /\ NoTask \notin Tasks
  /\ Absent \notin [value : Values, blocker : Tasks \cup {NoTask}, version : Nat]
  /\ MaxEvents \in Nat
  /\ BlockersLast \in BOOLEAN

VARIABLES
  tasks,    \* the tasks table
  log,      \* task_events, in id order
  active,   \* runs whose status is not undoable yet
  result    \* what the last undo attempt of each run answered

vars == <<tasks, log, active, result>>

Operations == {"created", "updated", "deleted", "restored"}
Refusals == {"ROW_RECREATED", "ROW_DISAPPEARED", "VERSION_CONFLICT"}

TypeOK ==
  /\ \A t \in Tasks : tasks[t] = Absent \/ tasks[t] \in Rows
  /\ \A i \in DOMAIN log :
       /\ log[i].run \in Runs /\ log[i].task \in Tasks
       /\ log[i].op \in Operations
       /\ log[i].before # log[i].after
  /\ active \subseteq Runs
  /\ result \in [Runs -> {"none", "applied"} \cup Refusals]

Seeds == {[value |-> v, blocker |-> NoTask, version |-> 1] : v \in Values}

\* Tasks of earlier work, whose events are not of these runs.
Init ==
  /\ tasks \in [Tasks -> Seeds \cup {Absent}]
  /\ log = <<>>
  /\ active = Runs
  /\ result = [r \in Runs |-> "none"]

----------------------------------------------------------------------------
(* The domain                                                              *)

Exists(ts, t) == t # NoTask /\ ts[t] # Absent

\* blocked_by REFERENCES tasks(id), checked at the end of each statement.
ValidBlocker(ts, b) == b = NoTask \/ Exists(ts, b)

Event(r, t, op, before, after) ==
  [run |-> r, task |-> t, op |-> op, before |-> before, after |-> after]

\* The surviving rows ON DELETE SET NULL rewrites when the rows of S go.
Referencers(ts, S) ==
  {u \in Tasks \ S : ts[u] # Absent /\ ts[u].blocker \in S}

\* The table after a DELETE of S.  The foreign key action moves no version.
Deleted(ts, S) ==
  [t \in Tasks |-> IF t \in S THEN Absent
                   ELSE IF t \in Referencers(ts, S)
                          THEN [ts[t] EXCEPT !.blocker = NoTask]
                          ELSE ts[t]]

CascadeEvents(r, ts, S) ==
  LET cleared == SetToSeq(Referencers(ts, S))
  IN [i \in 1 .. Len(cleared) |->
        Event(r, cleared[i], "updated", ts[cleared[i]],
              Deleted(ts, S)[cleared[i]])]

DeletedEvents(r, ts, targets) ==
  [i \in 1 .. Len(targets) |->
     Event(r, targets[i], "deleted", ts[targets[i]], Absent)]

Room == Len(log) < MaxEvents

\* create_task: a fresh id.
Create_VersionZero(r, t, v, b) ==
  LET row == [value |-> v, blocker |-> b, version |-> 0]
  IN /\ r \in active /\ Room
     /\ tasks[t] = Absent /\ \A i \in DOMAIN log : log[i].task # t
     /\ ValidBlocker(tasks, b)
     /\ tasks' = [tasks EXCEPT ![t] = row]
     /\ log' = Append(log, Event(r, t, "created", Absent, row))
     /\ UNCHANGED <<active, result>>

Create(r, t, v, b) ==
  LET row == [value |-> v, blocker |-> b, version |-> 1]
  IN /\ r \in active /\ Room
     /\ tasks[t] = Absent /\ \A i \in DOMAIN log : log[i].task # t
     /\ ValidBlocker(tasks, b)
     /\ tasks' = [tasks EXCEPT ![t] = row]
     /\ log' = Append(log, Event(r, t, "created", Absent, row))
     /\ UNCHANGED <<active, result>>

\* update_task, and bulk_update_tasks one target at a time: both lock the row,
\* guard on its version, and raise it by one.
Update_KeepVersion(r, t, v, b) ==
  LET row == [tasks[t] EXCEPT !.value = v, !.blocker = b]
  IN /\ r \in active /\ Room
     /\ Exists(tasks, t) /\ ValidBlocker(tasks, b)
     /\ row # tasks[t]
     /\ tasks' = [tasks EXCEPT ![t] = row]
     /\ log' = Append(log, Event(r, t, "updated", tasks[t], row))
     /\ UNCHANGED <<active, result>>

Update(r, t, v, b) ==
  LET row == [value |-> v, blocker |-> b, version |-> tasks[t].version + 1]
  IN /\ r \in active /\ Room
     /\ Exists(tasks, t) /\ ValidBlocker(tasks, b)
     /\ tasks' = [tasks EXCEPT ![t] = row]
     /\ log' = Append(log, Event(r, t, "updated", tasks[t], row))
     /\ UNCHANGED <<active, result>>

\* The order of a delete request, as the model chose it.
BlockedFirst(targets) ==
  \A i, j \in 1 .. Len(targets) :
    tasks[targets[i]].blocker = targets[j] => i <= j

\* delete_tasks: one DELETE of all targets; cleared pointers are logged first,
\* then the deletions in request order.
Delete_CascadeUnlogged(r, targets) ==
  LET S == Range(targets)
  IN /\ r \in active /\ Room
     /\ \A t \in S : Exists(tasks, t)
     /\ BlockersLast => BlockedFirst(targets)
     /\ tasks' = Deleted(tasks, S)
     /\ log' = log \o DeletedEvents(r, tasks, targets)
     /\ UNCHANGED <<active, result>>

Delete_CascadeLast(r, targets) ==
  LET S == Range(targets)
  IN /\ r \in active /\ Room
     /\ \A t \in S : Exists(tasks, t)
     /\ BlockersLast => BlockedFirst(targets)
     /\ tasks' = Deleted(tasks, S)
     /\ log' = log \o DeletedEvents(r, tasks, targets)
                   \o CascadeEvents(r, tasks, S)
     /\ UNCHANGED <<active, result>>

Delete(r, targets) ==
  LET S == Range(targets)
  IN /\ r \in active /\ Room
     /\ \A t \in S : Exists(tasks, t)
     /\ BlockersLast => BlockedFirst(targets)
     /\ tasks' = Deleted(tasks, S)
     /\ log' = log \o CascadeEvents(r, tasks, S)
                   \o DeletedEvents(r, tasks, targets)
     /\ UNCHANGED <<active, result>>

\* The run reaches a status in UNDOABLE_STATUSES.
End(r) ==
  /\ r \in active
  /\ active' = active \ {r}
  /\ UNCHANGED <<tasks, log, result>>

----------------------------------------------------------------------------
(* The undo kernel                                                         *)

Wave(r) == {i \in DOMAIN log : log[i].run = r}
Compensated(r) == \E i \in Wave(r) : log[i].op = "restored"

\* The state the reverse walk of _precheck stands in when it reaches event i:
\* the locked row, or what the run's next event on the task found.
Projected(r, i) ==
  LET later == {j \in Wave(r) : j > i /\ log[j].task = log[i].task}
  IN IF later = {} THEN tasks[log[i].task] ELSE log[Min(later)].before

Conflict(r, i) ==
  LET found == Projected(r, i)
  IN IF log[i].after = Absent
       THEN IF found # Absent THEN "ROW_RECREATED" ELSE "none"
       ELSE IF found = Absent THEN "ROW_DISAPPEARED"
            ELSE IF found.version # log[i].after.version
                   THEN "VERSION_CONFLICT" ELSE "none"

\* _precheck: the reason the newest conflicting event gives, or none.
Precheck_NewestOnly(r) == Conflict(r, Max(Wave(r)))

Precheck(r) ==
  LET conflicts == {i \in Wave(r) : Conflict(r, i) # "none"}
  IN IF conflicts = {} THEN "none" ELSE Conflict(r, Max(conflicts))

\* The transaction so far, and why it must be rolled back, if it must.
Refuse(s, reason) == [s EXCEPT !.refused = reason]

\* delete_task_guarded: undo of a creation.  Its direct event is relabelled
\* "restored"; the cleared pointers stay "updated" (_compensation_events).
RemoveRow(r, s, t) ==
  [s EXCEPT !.tasks = Deleted(s.tasks, {t}),
            !.log = s.log \o CascadeEvents(r, s.tasks, {t})
                          \o <<Event(r, t, "restored", s.tasks[t], Absent)>>]

\* restore_task (a row that is gone) and the guarded update of one that is not:
\* the old fields under a version no reader has seen.
PutRow(r, s, e, version) ==
  LET new == [e.before EXCEPT !.version = version]
  IN [s EXCEPT !.tasks = [s.tasks EXCEPT ![e.task] = new],
               !.log = Append(s.log, Event(r, e.task, "restored",
                                           s.tasks[e.task], new))]

\* The ForeignKeyViolation of a restored pointer.  A row may name itself.
Dangling(s, e) == /\ e.before.blocker # e.task
                  /\ ~ValidBlocker(s.tasks, e.before.blocker)

\* One inverse of _apply.
Compensate(r, s, e) ==
  LET row == s.tasks[e.task]
  IN CASE s.refused # "none" -> s
       [] s.refused = "none" /\ e.before = Absent ->
            IF row = Absent THEN Refuse(s, "VERSION_CONFLICT")
            ELSE RemoveRow(r, s, e.task)
       [] s.refused = "none" /\ e.before # Absent /\ e.after = Absent ->
            IF row # Absent THEN Refuse(s, "ROW_RECREATED")
            ELSE IF Dangling(s, e) THEN Refuse(s, "ROW_DISAPPEARED")
                 ELSE PutRow(r, s, e, e.before.version + 1)
       [] OTHER ->
            IF row = Absent THEN Refuse(s, "VERSION_CONFLICT")
            ELSE IF Dangling(s, e) THEN Refuse(s, "ROW_DISAPPEARED")
                 ELSE PutRow(r, s, e, row.version + 1)

\* _apply: the transaction after the last k events of the log, those of the
\* wave compensated newest first.
Applied_OldestFirst(r) ==
  LET applied[k \in 0 .. Len(log)] ==
        IF k = 0 THEN [tasks |-> tasks, log |-> log, refused |-> "none"]
        ELSE IF k \in Wave(r)
               THEN Compensate(r, applied[k - 1], log[k])
               ELSE applied[k - 1]
  IN applied

Applied(r) ==
  LET applied[k \in 0 .. Len(log)] ==
        IF k = 0 THEN [tasks |-> tasks, log |-> log, refused |-> "none"]
        ELSE IF Len(log) - k + 1 \in Wave(r)
               THEN Compensate(r, applied[k - 1], log[Len(log) - k + 1])
               ELSE applied[k - 1]
  IN applied

Apply(r) == Applied(r)[Len(log)]

Answer(r, reason) == result' = [result EXCEPT ![r] = reason]

Eligible(r) == r \notin active /\ Wave(r) # {} /\ ~Compensated(r)

\* attempt_run_undo under the run's row lock, and undo_run_on_conn: refused
\* whole or applied whole.
Undo(r) ==
  /\ Eligible(r)
  /\ \/ /\ Precheck(r) # "none"
        /\ Answer(r, Precheck(r))
        /\ UNCHANGED <<tasks, log, active>>
     \/ /\ Precheck(r) = "none" /\ Apply(r).refused # "none"
        /\ Answer(r, Apply(r).refused)
        /\ UNCHANGED <<tasks, log, active>>
     \/ /\ Precheck(r) = "none" /\ Apply(r).refused = "none"
        /\ Answer(r, "applied")
        /\ tasks' = Apply(r).tasks
        /\ log' = Apply(r).log
        /\ UNCHANGED active

\* At most two targets; _unique_ids has dropped repetitions.
Requests == {<<t>> : t \in Tasks}
            \cup {q \in Tasks \X Tasks : q[1] # q[2]}

Next ==
  \E r \in Runs :
    \/ \E t \in Tasks, v \in Values, b \in Tasks \cup {NoTask} :
         Create(r, t, v, b) \/ Update(r, t, v, b)
    \/ \E targets \in Requests : Delete(r, targets)
    \/ End(r)
    \/ Undo(r)

Spec == Init /\ [][Next]_vars

----------------------------------------------------------------------------
(* Properties                                                              *)

EventsOf(t) == {i \in DOMAIN log : log[i].task = t}

\* "an unrecorded mutation is one the audit log cannot explain and undo cannot
\* reverse" (delete_tasks): the events of a task form one chain, each finding
\* what the one before left, that ends in the row as it is now.
AuditExplainsState ==
  \A t \in Tasks : \A i \in EventsOf(t) :
    LET later == {j \in EventsOf(t) : j > i}
    IN log[i].after = IF later = {} THEN tasks[t] ELSE log[Min(later)].before

\* The version a caller read names the fields it read: it never goes back, a
\* restored row continues past every version it had, and while it stands still
\* nothing changes but a pointer whose target was deleted.
VersionNamesRow ==
  [][\A t \in Tasks :
       /\ tasks[t] # Absent /\ tasks'[t] # Absent =>
            \/ tasks'[t].version > tasks[t].version
            \/ tasks'[t] = tasks[t]
            \/ /\ tasks'[t] = [tasks[t] EXCEPT !.blocker = NoTask]
               /\ tasks'[tasks[t].blocker] = Absent
       /\ tasks[t] = Absent /\ tasks'[t] # Absent =>
            \A i \in EventsOf(t) :
              log[i].before # Absent =>
                tasks'[t].version > log[i].before.version]_vars

Touched(r) == {log[i].task : i \in Wave(r)}
FirstBefore(r, t) == log[Min(Wave(r) \cap EventsOf(t))].before
CreatedBy(r) == {t \in Touched(r) : FirstBefore(r, t) = Absent}

\* The row without its version, and without a pointer into S.
Fields(row, S) ==
  IF row = Absent THEN Absent
  ELSE [value |-> row.value,
        blocker |-> IF row.blocker \in S THEN NoTask ELSE row.blocker]

\* undo_run: all or nothing.  An applied undo puts every task the run touched
\* back to the fields the run first found, whatever happened in between, and
\* changes no other task except to clear pointers to what it removes.  A
\* refused one leaves both surfaces alone.
UndoIsInverse ==
  [][\A r \in Runs :
       /\ ~Compensated(r) /\ Compensated(r)' =>
            \A t \in Tasks :
              Fields(tasks'[t], {}) =
                Fields(IF t \in Touched(r) THEN FirstBefore(r, t) ELSE tasks[t],
                       CreatedBy(r))
       /\ result[r] # result'[r] /\ result'[r] \in Refusals =>
            UNCHANGED <<tasks, log>>]_vars

\* _precheck: an undo is applied only where nobody else came in between.  Since
\* the run first touched a task, no other run changed it, except by deleting
\* the task its pointer named: "undoing the earlier one would destroy a change
\* this run never made".
UndoSparesOthers ==
  [][\A r \in Runs :
       ~Compensated(r) /\ Compensated(r)' =>
         \A i \in DOMAIN log :
           log[i].run # r /\ (\E j \in Wave(r) : j < i /\ log[j].task = log[i].task)
             => /\ log[i].before # Absent /\ log[i].after # Absent
                /\ log[i].after = [log[i].before EXCEPT !.blocker = NoTask]]_vars

\* undo.py on ForeignKeyViolation: "Reverse order restores a blocker this run
\* deleted before any pointer to it, so this means the blocker was removed by
\* someone else."  A refusal is always about another run: one that touched a
\* task of the wave, or a blocker the wave points at, after the wave began.
RefusedOnlyForOthers ==
  \A r \in Runs : result[r] \in Refusals =>
    LET blockers == {log[i].before.blocker :
                       i \in {j \in Wave(r) : log[j].before # Absent}}
    IN \E i \in DOMAIN log : /\ log[i].run # r /\ i > Min(Wave(r))
                             /\ log[i].task \in Touched(r) \cup blockers
=============================================================================
