-------------------------- MODULE LinearInboxProofs --------------------------
(***************************************************************************)
(* What LinearInbox guarantees for every number of rows, sessions, workers,*)
(* attempts and crashes: a turn that changes tasks at most once per row,   *)
(* one turn of a session at a time and in order, one chain of histories,   *)
(* and rows that agree with their runs.                                    *)
(*                                                                         *)
(* All but the types rest on the two assumptions that the configurations   *)
(* LinearLeaseLapse and LinearOvertake drop: a turn ends within its lease, *)
(* and a session's rows become visible in the order of received_at.        *)
(***************************************************************************)
EXTENDS LinearInbox, NumberSets, TLAPS

----------------------------------------------------------------------------
(* The inductive invariant                                                 *)

InSession(s) == {r \in Rows : SessionOf[r] = s}

\* What the fields of a job hold, where they are used.
JobHolds(w) ==
  /\ job[w].row \in Rows
  /\ job[w].attempt \in 1 .. MaxAttempts + 1
  /\ pc[w] \in {"prepare", "continuity", "create"} =>
       job[w].attempt <= MaxAttempts
  /\ pc[w] \in {"link", "model", "complete", "spoiled", "retry", "finish"} =>
       job[w].run \in Runs

JobInv == \A w \in Workers : pc[w] # "idle" => JobHolds(w)

TypeInv == TypeOK /\ JobInv

\* A worker's row waits for it alone, at the attempt it was claimed for.
Holds(w) ==
  /\ status[job[w].row] = "pending"
  /\ lease[job[w].row] = "held"
  /\ attempts[job[w].row] = job[w].attempt

HoldInv == \A w \in Workers : pc[w] # "idle" => Holds(w)

\* Where a worker stands between the row, its link and the run: its attempt's
\* run is new until it creates it, running until it ends it, and a row is given
\* back only when its run changed nothing.
Placed(w) ==
  LET r == job[w].row
      p == job[w].run
      own == RunOf(r, job[w].attempt)
  IN /\ link[r] = IF pc[w] = "link" THEN NoRun ELSE p
     /\ pc[w] \in {"prepare", "continuity", "create"} => p = NoRun
     /\ pc[w] \in {"claimed", "prepare", "continuity", "create"}
          /\ job[w].attempt <= MaxAttempts => runs[own] = "none"
     /\ pc[w] = "create" => job[w].pred = cursor[SessionOf[r]]
     /\ pc[w] \in {"link", "model", "complete", "spoiled", "retry"} =>
          p = own /\ runs[p] = "running"
     /\ pc[w] = "finish" => runs[p] = "completed"
     /\ pc[w] \in {"fail", "release"} /\ p # NoRun => runs[p] # "completed"
     /\ pc[w] \in {"retry", "release"} => p \notin committed

PlaceInv == \A w \in Workers : pc[w] # "idle" => Placed(w)

\* A row names a run of its own that was begun.
LinkInv == \A r \in Rows : link[r] # NoRun =>
  link[r] \in Runs /\ RowOf(link[r]) = r /\ runs[link[r]] # "none"

\* Only the run a row names completed or changed tasks.
OnlyLinked == \A p \in Runs :
  p \in committed \/ runs[p] = "completed" => link[RowOf(p)] = p

\* A run was begun by a claim of its row, after everything before it was
\* settled, from the newest completed history of that time.
Begun(p) ==
  /\ p[2] <= attempts[RowOf(p)]
  /\ \A e \in Before(RowOf(p)) : status[e] \in Settled
  /\ inherits[p] = LatestOf(Before(RowOf(p)))

BegunInv == \A p \in Runs : runs[p] # "none" => Begun(p)

\* A settled row names how its run ended, and everything before it is settled.
SettledInv == \A r \in Rows :
  /\ status[r] = "completed" => link[r] # NoRun /\ runs[link[r]] = "completed"
  /\ status[r] = "failed" /\ link[r] # NoRun => runs[link[r]] # "completed"
  /\ status[r] \in {"completed", "failed"} =>
       \A e \in Before(r) : status[e] \in Settled

\* Rows appear in their order.
AppearInv == \A r, e \in Rows : e < r /\ status[r] # "none" => status[e] # "none"

CursorInv == \A s \in Sessions : cursor[s] = LatestOf(InSession(s))

InboxInv == /\ TypeInv
            /\ HoldInv
            /\ SessionSerialized
            /\ PlaceInv
            /\ LinkInv
            /\ OnlyLinked
            /\ BegunInv
            /\ SettledInv
            /\ AppearInv
            /\ CursorInv

----------------------------------------------------------------------------
(* Types: with any lease and any order of arrival                          *)

LEMMA InitTypeInv ==
  Init => TypeInv
BY InboxAssumption DEF Init, TypeInv, TypeOK, JobInv, Jobs, NoJob, PCs

\* A worker that only moves on keeps the types, if its job fits the next place.
LEMMA StepTypeInv ==
  ASSUME TypeInv, NEW w \in Workers, NEW l \in PCs, Step(w, l), JobHolds(w)'
  PROVE  TypeInv'
BY DEF TypeInv, TypeOK, JobInv, JobHolds, Step, Goto, inbox

\* A worker that lets its job go, whatever became of the rest.
LEMMA RestJobInv ==
  ASSUME TypeInv, NEW w \in Workers, Rest(w)
  PROVE  /\ pc' \in [Workers -> PCs] /\ job' \in [Workers -> Jobs]
         /\ JobInv'
<1>1. NoJob \in Jobs
  BY InboxAssumption DEF NoJob, Jobs
<1> QED BY <1>1 DEF TypeInv, TypeOK, JobInv, JobHolds, Rest, Goto, PCs

LEMMA NextTypeInv ==
  TypeInv /\ [Next]_vars => TypeInv'
<1> SUFFICES ASSUME TypeInv, [Next]_vars PROVE TypeInv'
  OBVIOUS
<1> USE InboxAssumption
<1>1. ASSUME NEW r \in Rows, Accept(r) PROVE TypeInv'
  BY <1>1 DEF TypeInv, TypeOK, JobInv, JobHolds, Accept, Settled
<1>2. ASSUME NEW r \in Rows, Elapse(r) PROVE TypeInv'
  BY <1>2 DEF TypeInv, TypeOK, JobInv, JobHolds, Elapse
<1> SUFFICES ASSUME NEW w \in Workers, Work(w) \/ Mutate(w) \/ Abort(w)
             PROVE  TypeInv'
  <2>1. CASE UNCHANGED vars
    BY <2>1 DEF TypeInv, TypeOK, JobInv, JobHolds, vars
  <2> QED BY <1>1, <1>2, <2>1 DEF Next
<1>3. CASE Claim(w)
  <2>1. PICK r \in Rows :
          /\ lease' = [lease EXCEPT ![r] = "held"]
          /\ attempts' = [attempts EXCEPT
                            ![r] = IF @ <= MaxAttempts THEN @ + 1 ELSE @]
          /\ pc' = [pc EXCEPT ![w] = "claimed"]
          /\ job' = [job EXCEPT ![w] = [row |-> r, attempt |-> attempts'[r],
                                        run |-> link[r], pred |-> NoRun]]
          /\ UNCHANGED <<status, link, cursor, runs, inherits, committed, aborts>>
    BY <1>3 DEF Claim, Goto
  <2>2. /\ attempts' \in [Rows -> 0 .. MaxAttempts + 1]
        /\ attempts'[r] \in 1 .. MaxAttempts + 1
    BY <2>1 DEF TypeInv, TypeOK
  <2>3. [row |-> r, attempt |-> attempts'[r], run |-> link[r],
         pred |-> NoRun] \in Jobs
    BY <2>2 DEF Jobs, TypeInv, TypeOK
  <2>4. TypeOK'
    BY <2>1, <2>2, <2>3 DEF TypeInv, TypeOK, PCs
  <2>5. JobInv'
    BY <2>1, <2>2, <2>3 DEF TypeInv, TypeOK, JobInv, JobHolds
  <2> QED BY <2>4, <2>5 DEF TypeInv
<1>4. CASE \/ FinalizeAmbiguous(w) \/ Dispatch(w) \/ HandleSignal(w)
           \/ RefusePrompt(w) \/ AwaitToken(w) \/ Acknowledge(w)
           \/ ModelAnswers(w) \/ RefuseDeferred(w) \/ ModelFails(w)
  <2>1. PICK l \in {"finish", "fail", "prepare", "release", "continuity",
                     "complete", "spoiled", "retry"} :
          /\ Step(w, l) /\ pc[w] # "idle"
          /\ l = "finish" => job[w].run # NoRun
          /\ l = "prepare" => ~(job[w].attempt > MaxAttempts)
          /\ l = "continuity" => pc[w] = "prepare"
          /\ l \in {"complete", "spoiled", "retry"} => pc[w] = "model"
    BY <1>4 DEF FinalizeAmbiguous, Dispatch, HandleSignal, RefusePrompt,
                AwaitToken, Acknowledge, ModelAnswers, RefuseDeferred, ModelFails
  <2>2. JobHolds(w)'
    BY <2>1 DEF TypeInv, TypeOK, JobInv, JobHolds, Step, Goto, Jobs
  <2> QED BY <2>1, <2>2, StepTypeInv DEF PCs
<1>5. CASE ReadCursor(w)
  <2>1. job' \in [Workers -> Jobs]
    BY <1>5 DEF ReadCursor, TypeInv, TypeOK, JobInv, JobHolds, Jobs
  <2> QED
    BY <1>5, <2>1
    DEF ReadCursor, Goto, TypeInv, TypeOK, JobInv, JobHolds, PCs, inbox, Jobs
<1>6. CASE CreateTurn(w)
  <2> DEFINE p == RunOf(job[w].row, job[w].attempt)
  <2>1. p \in Runs
    BY <1>6 DEF CreateTurn, RunOf, Runs, TypeInv, JobInv, JobHolds
  <2>2. CASE /\ runs' = [runs EXCEPT ![p] = "running"]
             /\ inherits' = [inherits EXCEPT ![p] = job[w].pred]
             /\ Goto(w, "link")
             /\ job' = [job EXCEPT ![w].run = p]
    <3> HIDE DEF p
    <3>1. job' \in [Workers -> Jobs]
      BY <2>1, <2>2 DEF TypeInv, TypeOK, Jobs
    <3> QED
      BY <1>6, <2>1, <2>2, <3>1
      DEF CreateTurn, Goto, TypeInv, TypeOK, JobInv, JobHolds, PCs, inbox, Jobs
  <2>3. CASE Rest(w) /\ UNCHANGED <<runs, inherits>>
    BY <1>6, <2>3, RestJobInv DEF CreateTurn, TypeInv, TypeOK, inbox
  <2> QED BY <1>6, <2>2, <2>3 DEF CreateTurn
<1>7. CASE LinkRun(w)
  BY <1>7 DEF LinkRun, Goto, TypeInv, TypeOK, JobInv, JobHolds, PCs
<1>8. CASE Mutate(w)
  BY <1>8 DEF Mutate, TypeInv, TypeOK, JobInv, JobHolds, inbox
<1>9. CASE SetRunStatus(w)
  BY <1>9 DEF SetRunStatus, Goto, TypeInv, TypeOK, JobInv, JobHolds, PCs, inbox
<1>10. CASE Finish(w)
  <2>1. status' \in [Rows -> {"none", "pending"} \cup Settled]
    BY <1>10 DEF Finish, TypeInv, TypeOK, Settled
  <2>2. job[w].run \in Runs
    BY <1>10 DEF Finish, TypeInv, JobInv, JobHolds
  <2> QED BY <1>10, <2>1, <2>2, RestJobInv DEF Finish, TypeInv, TypeOK
<1>11. CASE FailRow(w)
  <2>1. status' \in [Rows -> {"none", "pending"} \cup Settled]
    BY <1>11 DEF FailRow, TypeInv, TypeOK, Settled
  <2>2. job[w].run \in Runs \cup {NoRun}
    BY DEF TypeInv, TypeOK, Jobs
  <2> QED BY <1>11, <2>1, <2>2, RestJobInv DEF FailRow, TypeInv, TypeOK
<1>12. CASE ReleaseRow(w)
  BY <1>12, RestJobInv DEF ReleaseRow, TypeInv, TypeOK
<1>13. CASE Abort(w)
  BY <1>13, RestJobInv DEF Abort, TypeInv, TypeOK, inbox
<1> QED
  BY <1>3, <1>4, <1>5, <1>6, <1>7, <1>8, <1>9, <1>10, <1>11, <1>12, <1>13
  DEF Work

----------------------------------------------------------------------------
(* What a step keeps                                                       *)

\* No step moves a settled row.
SettledStays == \A e \in Rows : status[e] \in Settled =>
                  status'[e] = status[e] /\ link'[e] = link[e]

\* The step is worker w's and concerns row r: nothing of another row, of its
\* runs, of another session's cursor or of another worker changes.
Touches(w, r) ==
  /\ \A v \in Workers \ {w} : pc'[v] = pc[v] /\ job'[v] = job[v]
  /\ \A e \in Rows \ {r} : /\ status'[e] = status[e] /\ link'[e] = link[e]
                           /\ lease'[e] = lease[e] /\ attempts'[e] = attempts[e]
  /\ \A s \in Sessions \ {SessionOf[r]} : cursor'[s] = cursor[s]
  /\ \A p \in Runs : RowOf(p) # r =>
       runs'[p] = runs[p] /\ (p \in committed' <=> p \in committed)

\* The greatest element of a finite set of numbers is its maximum.
LEMMA MaxIs ==
  ASSUME NEW S \in SUBSET Nat, IsFiniteSet(S), NEW x \in S, \A y \in S : x >= y
  PROVE  Max(S) = x
<1>1. Max(S) \in S /\ \A y \in S : Max(S) >= y
  BY MaxIsIn
<1>2. Max(S) \in Nat /\ x \in Nat
  BY <1>1
<1>3. Max(S) >= x /\ x >= Max(S)
  BY <1>1
<1> QED BY <1>2, <1>3

\* The newest completed run of some rows stays when none of them completes.
LEMMA LatestKept ==
  ASSUME NEW S \in SUBSET Rows, SettledStays,
         \A e \in S : status'[e] = "completed" => status[e] = "completed"
  PROVE  LatestOf(S)' = LatestOf(S)
<1> DEFINE D == {e \in S : status[e] = "completed"}
<1>1. {e \in S : status'[e] = "completed"} = D
  BY DEF SettledStays, Settled
<1>2. CASE D = {}
  BY <1>1, <1>2 DEF LatestOf
<1>3. CASE D # {}
  <2>1. D \in SUBSET Nat /\ IsFiniteSet(D)
    BY InboxAssumption, FS_Subset
  <2>2. Max(D) \in D
    <3> HIDE DEF D
    <3> QED BY <1>3, <2>1, MaxIsIn
  <2>3. link'[Max(D)] = link[Max(D)]
    BY <2>2 DEF SettledStays, Settled
  <2>4. LatestOf(S) = link[Max(D)] /\ LatestOf(S)' = link'[Max(D)]
    BY <1>1, <1>3 DEF LatestOf
  <2> QED BY <2>3, <2>4
<1> QED BY <1>2, <1>3

\* A run that was begun stays explained by the rows before its own.
LEMMA BegunKept ==
  ASSUME SettledStays, NEW p \in Runs, Begun(p), inherits'[p] = inherits[p],
         p[2] <= attempts'[RowOf(p)]
  PROVE  Begun(p)'
<1>1. \A e \in Before(RowOf(p)) : e \in Rows /\ status'[e] = status[e]
  BY DEF Begun, Before, SettledStays
<1>2. Before(RowOf(p)) \in SUBSET Rows
  BY DEF Before
<1>3. LatestOf(Before(RowOf(p)))' = LatestOf(Before(RowOf(p)))
  BY <1>1, <1>2, LatestKept
<1>4. (Before(RowOf(p)))' = Before(RowOf(p))
  BY DEF Before, RowOf
<1> QED BY <1>1, <1>3, <1>4 DEF Begun, RowOf

\* The run a row names is one of that row's.
LEMMA LinkedRun ==
  ASSUME TypeInv, LinkInv, NEW r \in Rows, link[r] # NoRun
  PROVE  link[r] \in Runs /\ RowOf(link[r]) = r
BY DEF LinkInv

\* A worker keeps its place while a step concerns another session's row.
LEMMA OthersKeep ==
  ASSUME InboxInv, TypeInv', NEW w \in Workers, NEW r \in Rows, Touches(w, r),
         NEW v \in Workers \ {w}, pc[v] # "idle",
         SessionOf[job[v].row] # SessionOf[r]
  PROVE  Holds(v)' /\ Placed(v)'
<1> DEFINE e == job[v].row
           p == job[v].run
           own == RunOf(e, job[v].attempt)
<1>1. /\ e \in Rows \ {r} /\ SessionOf[e] \in Sessions \ {SessionOf[r]}
      /\ job[v].attempt \in 1 .. MaxAttempts + 1
      /\ pc'[v] = pc[v] /\ job'[v] = job[v]
  BY InboxAssumption DEF InboxInv, TypeInv, JobInv, JobHolds, Touches
<1>2. /\ status'[e] = status[e] /\ link'[e] = link[e] /\ lease'[e] = lease[e]
      /\ attempts'[e] = attempts[e]
      /\ cursor'[SessionOf[e]] = cursor[SessionOf[e]]
  BY <1>1 DEF Touches
<1>3. Holds(v) /\ Placed(v)
  BY DEF InboxInv, HoldInv, PlaceInv
<1>4. Holds(v)'
  BY <1>1, <1>2, <1>3 DEF Holds
<1>5. job[v].attempt <= MaxAttempts =>
        own \in Runs /\ runs'[own] = runs[own]
                     /\ (own \in committed' <=> own \in committed)
  BY <1>1, InboxAssumption DEF Touches, RunOf, RowOf, Runs
<1>6. p # NoRun => p \in Runs /\ RowOf(p) = e
  <2>1. CASE pc[v] = "link"
    BY <1>1, <1>3, <2>1 DEF Placed, RunOf, RowOf, InboxInv, TypeInv, JobInv, JobHolds
  <2>2. CASE pc[v] # "link"
    BY <1>1, <1>3, <2>2, LinkedRun DEF Placed, InboxInv
  <2> QED BY <2>1, <2>2
<1>7. p # NoRun => runs'[p] = runs[p] /\ (p \in committed' <=> p \in committed)
  BY <1>1, <1>6 DEF Touches
<1>8. NoRun \notin committed'
  BY InboxAssumption DEF TypeInv, TypeOK, Runs
<1>9. pc[v] \in {"link", "model", "complete", "spoiled", "retry", "finish"}
        => p # NoRun
  BY InboxAssumption DEF InboxInv, TypeInv, JobInv, JobHolds, Runs
<1>10. Placed(v)'
  <2> HIDE DEF own
  <2>1. own = RunOf(job[v].row, job[v].attempt)
    BY DEF own
  <2>2. (RunOf(job[v].row, job[v].attempt))' = own
    BY <1>1, <2>1 DEF RunOf
  <2> QED
    BY <1>1, <1>2, <1>3, <1>5, <1>7, <1>8, <1>9, <2>1, <2>2 DEF Placed
<1> QED BY <1>4, <1>10

\* One turn of a session at a time, while no worker begins and no row reopens.
LEMMA SerializedKept ==
  ASSUME TypeInv, SessionSerialized,
         \A v \in Workers : pc'[v] # "idle" =>
           pc[v] # "idle" /\ job'[v].row = job[v].row,
         SettledStays
  PROVE  SessionSerialized'
<1> SUFFICES ASSUME NEW w \in Workers, pc'[w] # "idle"
             PROVE  /\ \A e \in Before(job[w].row) : status'[e] \in Settled
                    /\ \A v \in Workers \ {w} : pc'[v] # "idle" =>
                         SessionOf[job'[v].row] # SessionOf[job'[w].row]
  BY DEF SessionSerialized, Before
<1> QED BY DEF SessionSerialized, SettledStays, Before

\* What a busy worker's step must show of itself, for the workers' side of the
\* invariant.
LEMMA WorkersKeep ==
  ASSUME InboxInv, TypeInv', NEW w \in Workers, pc[w] # "idle",
         Touches(w, job[w].row), SettledStays,
         pc'[w] # "idle" =>
           job'[w].row = job[w].row /\ Holds(w)' /\ Placed(w)'
  PROVE  HoldInv' /\ SessionSerialized' /\ PlaceInv'
<1>1. job[w].row \in Rows
  BY DEF InboxInv, TypeInv, JobInv, JobHolds
<1>2. ASSUME NEW v \in Workers, pc'[v] # "idle"
      PROVE  /\ pc[v] # "idle" /\ job'[v].row = job[v].row
             /\ Holds(v)' /\ Placed(v)'
  <2>1. CASE v = w
    BY <1>2, <2>1
  <2>2. CASE v # w
    <3>1. pc[v] # "idle" /\ job'[v] = job[v]
      BY <1>2, <2>2 DEF Touches
    <3>2. SessionOf[job[v].row] # SessionOf[job[w].row]
      BY <2>2, <3>1 DEF InboxInv, SessionSerialized
    <3> QED BY <1>1, <2>2, <3>1, <3>2, OthersKeep
  <2> QED BY <2>1, <2>2
<1>3. SessionSerialized'
  BY <1>2, SerializedKept DEF InboxInv
<1> QED BY <1>2, <1>3 DEF HoldInv, PlaceInv

\* Runs that were begun stay explained, while no row forgets an attempt.
LEMMA BegunInvKept ==
  ASSUME TypeInv, BegunInv, SettledStays, UNCHANGED inherits,
         \A r \in Rows : attempts'[r] \in Nat /\ attempts[r] <= attempts'[r],
         NEW p \in Runs, runs[p] # "none"
  PROVE  Begun(p)'
<1>1. Begun(p) /\ RowOf(p) \in Rows /\ p[2] \in Nat
  BY InboxAssumption DEF BegunInv, Runs, RowOf
<1>2. attempts[RowOf(p)] \in Nat
  <2>1. attempts \in [Rows -> 0 .. MaxAttempts + 1] /\ MaxAttempts \in Nat
    BY InboxAssumption DEF TypeInv, TypeOK
  <2> QED BY <1>1, <2>1
<1>3. p[2] <= attempts'[RowOf(p)]
  BY <1>1, <1>2 DEF Begun
<1> QED BY <1>1, <1>3, BegunKept

\* A cursor stays the newest completed run while no row completes.
LEMMA CursorKept ==
  ASSUME CursorInv, SettledStays, UNCHANGED cursor,
         \A e \in Rows : status'[e] = "completed" => status[e] = "completed"
  PROVE  CursorInv'
<1> SUFFICES ASSUME NEW s \in Sessions
             PROVE  cursor'[s] = LatestOf(InSession(s))'
  BY DEF CursorInv
<1>1. InSession(s) \in SUBSET Rows
  BY DEF InSession
<1>2. LatestOf(InSession(s))' = LatestOf(InSession(s))
  BY <1>1, LatestKept
<1> QED BY <1>2 DEF CursorInv

\* The records keep their invariants when none of them changes.
LEMMA RecordsKept ==
  ASSUME InboxInv,
         UNCHANGED <<status, link, attempts, cursor, runs, inherits, committed>>
  PROVE  /\ SettledStays /\ LinkInv' /\ OnlyLinked' /\ BegunInv' /\ SettledInv'
         /\ AppearInv' /\ CursorInv'
<1>1. SettledStays
  BY DEF SettledStays
<1>2. LinkInv' /\ OnlyLinked' /\ SettledInv' /\ AppearInv'
  BY DEF InboxInv, LinkInv, OnlyLinked, SettledInv, AppearInv, RowOf, Before
<1>3. BegunInv'
  <2>1. \A r \in Rows : attempts'[r] \in Nat /\ attempts[r] <= attempts'[r]
    BY InboxAssumption DEF InboxInv, TypeInv, TypeOK
  <2> QED BY <1>1, <2>1, BegunInvKept DEF InboxInv, BegunInv
<1>4. CursorInv'
  BY <1>1, CursorKept DEF InboxInv
<1> QED BY <1>1, <1>2, <1>3, <1>4

----------------------------------------------------------------------------
(* Every step, a turn ending within its lease and rows appearing in order  *)

LEMMA InitInboxInv ==
  Init => InboxInv
<1> SUFFICES ASSUME Init PROVE InboxInv
  OBVIOUS
<1>1. TypeInv
  BY InitTypeInv
<1>2. HoldInv /\ SessionSerialized /\ PlaceInv
  BY DEF Init, HoldInv, SessionSerialized, PlaceInv
<1>3. LinkInv /\ OnlyLinked /\ BegunInv /\ SettledInv /\ AppearInv
  BY DEF Init, LinkInv, OnlyLinked, BegunInv, SettledInv, AppearInv
<1>4. CursorInv
  BY DEF Init, CursorInv, LatestOf, InSession
<1> QED BY <1>1, <1>2, <1>3, <1>4 DEF InboxInv

\* An event is accepted.
LEMMA AcceptKeeps ==
  ASSUME InboxInv, TypeInv', CommitInOrder, NEW r \in Rows, Accept(r)
  PROVE  InboxInv' /\ SettledStays
<1>1. SettledStays
  BY DEF Accept, SettledStays, Settled, InboxInv, TypeInv, TypeOK
<1>2. HoldInv' /\ PlaceInv'
  BY DEF Accept, InboxInv, HoldInv, Holds, PlaceInv, Placed, RunOf
<1>3. SessionSerialized'
  BY <1>1, SerializedKept DEF Accept, InboxInv
<1>4. LinkInv' /\ OnlyLinked'
  BY DEF Accept, InboxInv, LinkInv, OnlyLinked, RowOf
<1>5. SettledInv'
  <2>1. status' \in [Rows -> {"none", "pending"} \cup Settled]
    BY DEF TypeInv, TypeOK
  <2>2. \A e \in Rows : status'[e] \in {"completed", "failed"} =>
          status[e] = status'[e]
    BY DEF Accept, InboxInv, TypeInv, TypeOK
  <2> QED
    BY <1>1, <2>2 DEF Accept, InboxInv, SettledInv, SettledStays, Before
<1>6. BegunInv'
  <2>1. \A e \in Rows : attempts'[e] \in Nat /\ attempts[e] <= attempts'[e]
    BY InboxAssumption DEF Accept, InboxInv, TypeInv, TypeOK
  <2> QED BY <1>1, <2>1, BegunInvKept DEF Accept, InboxInv, BegunInv
<1>7. AppearInv'
  BY InboxAssumption DEF Accept, InboxInv, AppearInv, TypeInv, TypeOK, Settled
<1>8. CursorInv'
  BY <1>1, CursorKept DEF Accept, InboxInv, TypeInv, TypeOK
<1> QED
  BY <1>1, <1>2, <1>3, <1>4, <1>5, <1>6, <1>7, <1>8 DEF InboxInv

\* A lease or a backoff ends; no worker is at the row.
LEMMA ElapseKeeps ==
  ASSUME InboxInv, TypeInv', LeaseCoversTurn, NEW r \in Rows, Elapse(r)
  PROVE  InboxInv' /\ SettledStays
<1>1. /\ SettledStays /\ LinkInv' /\ OnlyLinked' /\ BegunInv' /\ SettledInv'
      /\ AppearInv' /\ CursorInv'
  BY RecordsKept DEF Elapse
<1>2. \A w \in Workers : pc[w] # "idle" => job[w].row # r
  BY DEF Elapse, Busy
<1>3. HoldInv'
  BY <1>2 DEF Elapse, InboxInv, HoldInv, Holds, TypeInv, JobInv, JobHolds,
              TypeOK
<1>4. PlaceInv'
  BY DEF Elapse, InboxInv, PlaceInv, Placed, RunOf
<1>5. SessionSerialized'
  BY <1>1, SerializedKept DEF Elapse, InboxInv
<1> QED BY <1>1, <1>3, <1>4, <1>5 DEF InboxInv

\* A claim: nothing earlier of the session waits, so no worker is there.
LEMMA ClaimKeeps ==
  ASSUME InboxInv, TypeInv', NEW w \in Workers, Claim(w)
  PROVE  InboxInv' /\ SettledStays
<1> USE InboxAssumption
<1>1. PICK r \in Rows :
        /\ pc[w] = "idle" /\ Eligible(r)
        /\ lease' = [lease EXCEPT ![r] = "held"]
        /\ attempts' = [attempts EXCEPT
                          ![r] = IF @ <= MaxAttempts THEN @ + 1 ELSE @]
        /\ pc' = [pc EXCEPT ![w] = "claimed"]
        /\ job' = [job EXCEPT ![w] = [row |-> r, attempt |-> attempts'[r],
                                      run |-> link[r], pred |-> NoRun]]
        /\ UNCHANGED <<status, link, cursor, runs, inherits, committed, aborts>>
  BY DEF Claim, Goto
<1>2. /\ TypeOK /\ attempts[r] \in Nat
      /\ pc'[w] = "claimed" /\ job'[w].row = r
      /\ job'[w].attempt = attempts'[r] /\ job'[w].run = link[r]
      /\ attempts'[r] = IF attempts[r] <= MaxAttempts
                          THEN attempts[r] + 1 ELSE attempts[r]
  BY <1>1 DEF InboxInv, TypeInv, TypeOK
<1>3. SettledStays
  BY <1>1 DEF SettledStays
<1>4. \A e \in Before(r) : e \in Rows /\ status[e] \in Settled
  <2>1. status[r] = "pending" /\ \A e \in Before(r) : status[e] # "pending"
    BY <1>1 DEF Eligible
  <2>2. \A e \in Before(r) : e \in Rows /\ e < r
    BY DEF Before
  <2>3. \A e \in Before(r) : status[e] # "none"
    BY <2>1, <2>2 DEF InboxInv, AppearInv
  <2> QED BY <1>2, <2>1, <2>2, <2>3 DEF TypeOK
<1>5. ASSUME NEW v \in Workers, pc[v] # "idle"
      PROVE  SessionOf[job[v].row] # SessionOf[r]
  <2> DEFINE e == job[v].row
  <2>1. /\ e \in Rows /\ status[e] = "pending" /\ lease[e] = "held"
        /\ \A d \in Before(e) : status[d] \in Settled
    BY <1>5 DEF InboxInv, TypeInv, JobInv, JobHolds, HoldInv, Holds,
                SessionSerialized
  <2>2. status[r] = "pending" /\ lease[r] = "free"
    BY <1>1 DEF Eligible
  <2>3. e # r
    BY <2>1, <2>2
  <2>4. e \notin Before(r) /\ r \notin Before(e)
    BY <1>4, <2>1, <2>2 DEF Settled
  <2>5. e \in Nat /\ r \in Nat
    BY <2>1
  <2> QED BY <2>1, <2>3, <2>4, <2>5 DEF Before
<1>6. Touches(w, r)
  BY <1>1, <1>2 DEF Touches, TypeOK
<1>7. \A v \in Workers \ {w} : pc'[v] # "idle" =>
        Holds(v)' /\ Placed(v)'
  BY <1>5, <1>6, OthersKeep DEF Touches
<1>8. Holds(w)'
  BY <1>1, <1>2 DEF Holds, Eligible, TypeOK
<1>9. Placed(w)'
  <2>1. ASSUME attempts'[r] <= MaxAttempts
        PROVE  runs[RunOf(r, attempts'[r])] = "none"
    <3> DEFINE p == RunOf(r, attempts'[r])
    <3>1. attempts'[r] = attempts[r] + 1 /\ p \in Runs /\ p[2] = attempts'[r]
      BY <1>2, <2>1 DEF Runs, RunOf
    <3>2. RowOf(p) = r
      BY DEF RunOf, RowOf
    <3>3. ~(p[2] <= attempts[r])
      BY <1>2, <3>1
    <3> QED BY <3>1, <3>2, <3>3 DEF InboxInv, BegunInv, Begun
  <2>2. (RunOf(job[w].row, job[w].attempt))' = RunOf(r, attempts'[r])
    BY <1>2 DEF RunOf
  <2> QED BY <1>1, <1>2, <2>1, <2>2 DEF Placed
<1>10. SessionSerialized'
  <2> SUFFICES ASSUME NEW u \in Workers, pc'[u] # "idle"
               PROVE  /\ \A e \in Before(job'[u].row) : status[e] \in Settled
                      /\ \A v \in Workers \ {u} : pc'[v] # "idle" =>
                           SessionOf[job'[v].row] # SessionOf[job'[u].row]
    BY <1>1 DEF SessionSerialized, Before
  <2>1. \A v \in Workers \ {w} : pc'[v] = pc[v] /\ job'[v] = job[v]
    BY <1>6 DEF Touches
  <2> QED BY <1>2, <1>4, <1>5, <2>1 DEF InboxInv, SessionSerialized
<1>11. HoldInv' /\ PlaceInv'
  BY <1>7, <1>8, <1>9 DEF HoldInv, PlaceInv
<1>12. LinkInv' /\ OnlyLinked' /\ SettledInv' /\ AppearInv'
  BY <1>1 DEF InboxInv, LinkInv, OnlyLinked, SettledInv, AppearInv, RowOf, Before
<1>13. BegunInv'
  <2>1. \A e \in Rows : attempts'[e] \in Nat /\ attempts[e] <= attempts'[e]
    BY <1>1, <1>2 DEF TypeOK
  <2> QED
    BY <1>1, <1>3, <2>1, BegunInvKept DEF InboxInv, TypeInv, BegunInv
<1>14. CursorInv'
  BY <1>1, <1>3, CursorKept DEF InboxInv
<1> QED
  BY <1>3, <1>10, <1>11, <1>12, <1>13, <1>14 DEF InboxInv

\* A worker moves on without writing anything.
LEMMA StepKeeps ==
  ASSUME InboxInv, TypeInv', NEW w \in Workers, NEW l \in PCs \ {"idle"},
         pc[w] # "idle", Step(w, l), Placed(w)'
  PROVE  InboxInv' /\ SettledStays
<1>1. /\ SettledStays /\ LinkInv' /\ OnlyLinked' /\ BegunInv' /\ SettledInv'
      /\ AppearInv' /\ CursorInv'
  BY RecordsKept DEF Step, inbox
<1>2. Touches(w, job[w].row)
  BY DEF Step, inbox, Goto, Touches, InboxInv, TypeInv, TypeOK
<1>3. job'[w].row = job[w].row /\ Holds(w)'
  BY DEF Step, inbox, InboxInv, HoldInv, Holds
<1> QED BY <1>1, <1>2, <1>3, WorkersKeep DEF InboxInv

\* A worker lets its row go and writes nothing.
LEMMA RestKeeps ==
  ASSUME InboxInv, TypeInv', NEW w \in Workers, pc[w] # "idle", Rest(w),
         UNCHANGED <<inbox, cursor, runs, inherits, committed>>
  PROVE  InboxInv' /\ SettledStays
<1>1. /\ SettledStays /\ LinkInv' /\ OnlyLinked' /\ BegunInv' /\ SettledInv'
      /\ AppearInv' /\ CursorInv'
  BY RecordsKept DEF inbox
<1>2. Touches(w, job[w].row) /\ pc'[w] = "idle"
  BY DEF Rest, inbox, Goto, Touches, InboxInv, TypeInv, TypeOK
<1> QED BY <1>1, <1>2, WorkersKeep DEF InboxInv

\* The worker reads its session's cursor.
LEMMA ReadCursorKeeps ==
  ASSUME InboxInv, TypeInv', NEW w \in Workers, ReadCursor(w)
  PROVE  InboxInv' /\ SettledStays
<1>1. /\ SettledStays /\ LinkInv' /\ OnlyLinked' /\ BegunInv' /\ SettledInv'
      /\ AppearInv' /\ CursorInv'
  BY RecordsKept DEF ReadCursor, inbox
<1>2. /\ pc[w] = "continuity" /\ pc'[w] = "create"
      /\ job'[w].row = job[w].row /\ job'[w].run = job[w].run
      /\ job'[w].attempt = job[w].attempt
      /\ job'[w].pred = cursor[SessionOf[job[w].row]]
      /\ \A v \in Workers \ {w} : pc'[v] = pc[v] /\ job'[v] = job[v]
  <2>1. pc \in [Workers -> PCs] /\ job \in [Workers -> Jobs]
    BY DEF InboxInv, TypeInv, TypeOK
  <2> QED BY <2>1 DEF ReadCursor, Goto, Jobs
<1>3. Touches(w, job[w].row)
  BY <1>2 DEF ReadCursor, inbox, Touches
<1>4. Holds(w) /\ Placed(w)
  BY <1>2 DEF InboxInv, HoldInv, PlaceInv
<1>5. Holds(w)'
  BY <1>2, <1>4 DEF ReadCursor, inbox, Holds
<1>6. Placed(w)'
  BY <1>2, <1>4 DEF ReadCursor, inbox, Placed, RunOf
<1> QED BY <1>1, <1>2, <1>3, <1>5, <1>6, WorkersKeep DEF InboxInv

\* The run of a busy worker, once it has one, is of its row and linked there.
LEMMA OwnRun ==
  ASSUME InboxInv, NEW w \in Workers,
         pc[w] \in {"model", "complete", "spoiled", "retry", "finish"}
  PROVE  /\ job[w].row \in Rows /\ job[w].run \in Runs
         /\ job[w].run # NoRun
         /\ link[job[w].row] = job[w].run /\ RowOf(job[w].run) = job[w].row
         /\ status[job[w].row] = "pending"
<1>1. job[w].row \in Rows /\ job[w].run \in Runs
  BY DEF InboxInv, TypeInv, JobInv, JobHolds
<1>2. job[w].run # NoRun
  BY <1>1, InboxAssumption DEF Runs
<1>3. link[job[w].row] = job[w].run
  BY DEF InboxInv, PlaceInv, Placed
<1>4. RowOf(job[w].run) = job[w].row
  BY <1>1, <1>2, <1>3, LinkedRun DEF InboxInv
<1> QED BY <1>1, <1>2, <1>3, <1>4 DEF InboxInv, HoldInv, Holds

\* A fresh run begins from the history the cursor names, which is that of the
\* newest completed row before its own.
LEMMA CreateTurnKeeps ==
  ASSUME InboxInv, TypeInv', NEW w \in Workers, CreateTurn(w)
  PROVE  InboxInv' /\ SettledStays
<1> USE InboxAssumption
<1> DEFINE r == job[w].row
           p == RunOf(r, job[w].attempt)
           q == job[w].pred
<1>1. CASE Rest(w) /\ UNCHANGED <<runs, inherits>>
  BY <1>1, RestKeeps DEF CreateTurn
<1>2. CASE /\ runs' = [runs EXCEPT ![p] = "running"]
           /\ inherits' = [inherits EXCEPT ![p] = q]
           /\ Goto(w, "link")
           /\ job' = [job EXCEPT ![w].run = p]
  <2>1. /\ pc[w] = "create" /\ UNCHANGED <<inbox, cursor, committed, aborts>>
        /\ UNCHANGED <<status, link, attempts, lease>>
    BY DEF CreateTurn, inbox
  <2>2. /\ r \in Rows /\ job[w].attempt \in 1 .. MaxAttempts
        /\ p \in Runs /\ RowOf(p) = r /\ p[2] = job[w].attempt
        /\ p # NoRun
    BY <2>1 DEF InboxInv, TypeInv, JobInv, JobHolds, RunOf, RowOf, Runs
  <2> TypeOK
    BY DEF InboxInv, TypeInv
  <2>3. Holds(w) /\ Placed(w)
    BY <2>1 DEF InboxInv, HoldInv, PlaceInv
  <2>4. /\ runs[p] = "none" /\ link[r] = NoRun /\ attempts[r] = p[2]
        /\ q = cursor[SessionOf[r]] /\ status[r] = "pending"
    BY <2>1, <2>2, <2>3 DEF Holds, Placed
  <2>5. /\ pc'[w] = "link" /\ job'[w].row = r /\ job'[w].run = p
        /\ job'[w].attempt = job[w].attempt
        /\ \A v \in Workers \ {w} : pc'[v] = pc[v] /\ job'[v] = job[v]
    <3> HIDE DEF p
    <3> QED BY <1>2 DEF Goto, TypeOK, Jobs
  <2> HIDE DEF p, q
  <2>6. /\ runs'[p] = "running" /\ inherits'[p] = q
        /\ \A o \in Runs \ {p} : runs'[o] = runs[o] /\ inherits'[o] = inherits[o]
    BY <1>2, <2>2 DEF TypeOK
  <2>7. SettledStays
    BY <2>1 DEF SettledStays
  <2>8. HoldInv' /\ SessionSerialized' /\ PlaceInv'
    <3>1. Touches(w, r)
      BY <2>1, <2>2, <2>5, <2>6 DEF Touches
    <3>2. Holds(w)'
      BY <2>1, <2>3, <2>5 DEF Holds
    <3>3. (RunOf(job[w].row, job[w].attempt))' = p
      BY <2>5 DEF RunOf, p
    <3>4. Placed(w)'
      BY <2>1, <2>4, <2>5, <2>6, <3>3 DEF Placed
    <3> QED BY <2>1, <2>5, <2>7, <3>1, <3>2, <3>4, WorkersKeep
  <2>9. \A e \in Rows : link[e] # p
    BY <2>2, <2>4 DEF InboxInv, LinkInv
  <2>10. LinkInv'
    BY <2>1, <2>6, <2>9 DEF InboxInv, LinkInv
  <2>11. OnlyLinked'
    BY <2>1, <2>4, <2>6 DEF InboxInv, OnlyLinked, RowOf
  <2>12. SettledInv'
    <3>1. \A e \in Rows : link[e] # NoRun => runs'[link[e]] = runs[link[e]]
      BY <2>6, <2>9 DEF TypeOK
    <3> QED BY <2>1, <3>1 DEF InboxInv, SettledInv, Before
  <2>13. AppearInv' /\ CursorInv'
    BY <2>1, <2>7, CursorKept DEF InboxInv, AppearInv
  <2>14. BegunInv'
    <3>1. \A e \in Rows : attempts'[e] \in Nat /\ attempts[e] <= attempts'[e]
      BY <2>1 DEF TypeOK
    <3>2. ASSUME NEW o \in Runs \ {p}, runs'[o] # "none" PROVE Begun(o)'
      <4>1. Begun(o) /\ inherits'[o] = inherits[o]
        BY <2>6, <3>2 DEF InboxInv, BegunInv
      <4>2. attempts' = attempts
        BY <2>1
      <4>3. o[2] <= attempts'[RowOf(o)]
        BY <4>1, <4>2 DEF Begun
      <4> QED BY <2>7, <4>1, <4>3, BegunKept
    <3>3. \A e \in Before(r) : status[e] \in Settled
      BY <2>1 DEF InboxInv, SessionSerialized
    <3>4. LatestOf(InSession(SessionOf[r])) = LatestOf(Before(r))
      <4>1. \A e \in InSession(SessionOf[r]) : status[e] = "completed" => e < r
        <5> SUFFICES ASSUME NEW e \in Rows, SessionOf[e] = SessionOf[r],
                            status[e] = "completed", ~(e < r)
                     PROVE  FALSE
          BY DEF InSession
        <5>1. e # r /\ e \in Nat /\ r \in Nat
          BY <2>2, <2>4
        <5>2. r \in Before(e)
          BY <2>2, <5>1 DEF Before
        <5> QED BY <2>4, <5>2 DEF InboxInv, SettledInv, Settled
      <4>2. {e \in InSession(SessionOf[r]) : status[e] = "completed"}
              = {e \in Before(r) : status[e] = "completed"}
        BY <4>1 DEF InSession, Before
      <4> QED BY <4>2 DEF LatestOf
    <3>5. PICK a \in Runs, b \in Rows, h \in Runs \cup {NoRun} :
            a = p /\ b = r /\ h = q
      BY <2>1, <2>2 DEF TypeOK, Jobs, q
    <3>6. h = LatestOf(Before(b))
      BY <2>2, <2>4, <3>4, <3>5 DEF InboxInv, CursorInv
    <3>7. Begun(a)'
      <4>1. /\ RowOf(a) = b /\ a[2] <= attempts'[b] /\ inherits'[a] = h
            /\ \A e \in Before(b) : status'[e] \in Settled
        BY <2>1, <2>2, <2>4, <2>6, <3>1, <3>3, <3>5
      <4>2. LatestOf(Before(b))' = LatestOf(Before(b))
        BY <2>1 DEF LatestOf
      <4>3. RowOf(a)' = b
        BY <4>1 DEF RowOf
      <4> QED BY <3>6, <4>1, <4>2, <4>3 DEF Begun
    <3>8. \A o \in Runs : runs'[o] # "none" => Begun(o)'
      BY <3>2, <3>5, <3>7
    <3> QED BY <3>8 DEF BegunInv
  <2> QED
    BY <2>7, <2>8, <2>10, <2>11, <2>12, <2>13, <2>14 DEF InboxInv
<1> QED BY <1>1, <1>2 DEF CreateTurn

\* The row is linked to its run before the model runs.
LEMMA LinkRunKeeps ==
  ASSUME InboxInv, TypeInv', NEW w \in Workers, LinkRun(w)
  PROVE  InboxInv' /\ SettledStays
<1> USE InboxAssumption
<1>1. PICK r \in Rows, p \in Runs : r = job[w].row /\ p = job[w].run
  BY DEF LinkRun, InboxInv, TypeInv, JobInv, JobHolds
<1>2. /\ pc[w] = "link" /\ link' = [link EXCEPT ![r] = p]
      /\ UNCHANGED <<status, attempts, lease, cursor, runs, inherits,
                     committed, job>>
      /\ TypeOK
  BY <1>1 DEF LinkRun, InboxInv, TypeInv
<1>3. /\ link'[r] = p /\ \A e \in Rows \ {r} : link'[e] = link[e]
      /\ pc'[w] = "model" /\ \A v \in Workers \ {w} : pc'[v] = pc[v]
  BY <1>2 DEF LinkRun, Goto, TypeOK
<1>4. Holds(w) /\ Placed(w)
  BY <1>2 DEF InboxInv, HoldInv, PlaceInv
<1>5. /\ status[r] = "pending" /\ link[r] = NoRun /\ RowOf(p) = r
      /\ runs[p] = "running" /\ p = RunOf(r, job[w].attempt)
  BY <1>1, <1>2, <1>4 DEF Holds, Placed, RunOf, RowOf
<1>6. SettledStays
  BY <1>2, <1>3, <1>5 DEF SettledStays, Settled
<1>7. HoldInv' /\ SessionSerialized' /\ PlaceInv'
  <2>1. Touches(w, job[w].row)
    BY <1>1, <1>2, <1>3 DEF Touches
  <2>2. Holds(w)'
    BY <1>2, <1>4 DEF Holds
  <2>3. p \in Runs /\ p # NoRun
    BY DEF Runs
  <2>4. Placed(w)'
    BY <1>1, <1>2, <1>3, <1>5, <2>3 DEF Placed, RunOf
  <2> QED BY <1>1, <1>2, <1>6, <2>1, <2>2, <2>4, WorkersKeep
<1>8. LinkInv' /\ AppearInv'
  BY <1>2, <1>3, <1>5 DEF InboxInv, LinkInv, AppearInv, RowOf
<1>9. OnlyLinked'
  <2>1. \A o \in Runs : o \in committed \/ runs[o] = "completed" =>
          RowOf(o) \in Rows \ {r} /\ link[RowOf(o)] = o
    BY <1>5 DEF InboxInv, OnlyLinked, RowOf, Runs
  <2> QED BY <1>2, <1>3, <2>1 DEF OnlyLinked, RowOf
<1>10. SettledInv'
  BY <1>2, <1>3, <1>5 DEF InboxInv, SettledInv, Before
<1>11. BegunInv'
  <2>1. \A e \in Rows : attempts'[e] \in Nat /\ attempts[e] <= attempts'[e]
    BY <1>2 DEF TypeOK
  <2> QED BY <1>2, <1>6, <2>1, BegunInvKept DEF InboxInv, BegunInv
<1>12. CursorInv'
  BY <1>2, <1>6, CursorKept DEF InboxInv
<1> QED
  BY <1>6, <1>7, <1>8, <1>9, <1>10, <1>11, <1>12 DEF InboxInv

\* A tool of the turn commits.
LEMMA MutateKeeps ==
  ASSUME InboxInv, TypeInv', NEW w \in Workers, Mutate(w)
  PROVE  InboxInv' /\ SettledStays
<1>1. /\ pc[w] = "model" /\ committed' = committed \cup {job[w].run}
      /\ UNCHANGED <<status, link, attempts, lease, cursor, runs, inherits, pc, job>>
  BY DEF Mutate, inbox
<1>2. /\ job[w].run \in Runs /\ link[job[w].row] = job[w].run
      /\ RowOf(job[w].run) = job[w].row
  BY <1>1, OwnRun
<1>3. Holds(w) /\ Placed(w)
  BY <1>1 DEF InboxInv, HoldInv, PlaceInv
<1>4. SettledStays
  BY <1>1 DEF SettledStays
<1>5. HoldInv' /\ SessionSerialized' /\ PlaceInv'
  <2>1. Touches(w, job[w].row)
    BY <1>1, <1>2 DEF Touches
  <2>2. Holds(w)' /\ Placed(w)'
    BY <1>1, <1>3 DEF Holds, Placed, RunOf
  <2> QED BY <1>1, <1>4, <2>1, <2>2, WorkersKeep
<1>6. LinkInv' /\ AppearInv' /\ SettledInv'
  BY <1>1 DEF InboxInv, LinkInv, AppearInv, SettledInv, Before, RowOf
<1>7. OnlyLinked'
  BY <1>1, <1>2 DEF InboxInv, OnlyLinked, RowOf
<1>8. BegunInv'
  <2>1. \A e \in Rows : attempts'[e] \in Nat /\ attempts[e] <= attempts'[e]
    BY <1>1, InboxAssumption DEF InboxInv, TypeInv, TypeOK
  <2> QED BY <1>1, <1>4, <2>1, BegunInvKept DEF InboxInv, BegunInv
<1>9. CursorInv'
  BY <1>1, <1>4, CursorKept DEF InboxInv
<1> QED BY <1>4, <1>5, <1>6, <1>7, <1>8, <1>9 DEF InboxInv

\* The run of a turn ends: completed, or failed when it has to be given up.
LEMMA SetRunStatusKeeps ==
  ASSUME InboxInv, TypeInv', NEW w \in Workers, SetRunStatus(w)
  PROVE  InboxInv' /\ SettledStays
<1>1. PICK r \in Rows, p \in Runs : r = job[w].row /\ p = job[w].run
  BY OwnRun DEF SetRunStatus
<1>2. /\ pc[w] \in {"complete", "spoiled", "retry"}
      /\ UNCHANGED <<status, link, attempts, lease, cursor, inherits, committed, job>>
      /\ TypeOK
  BY DEF SetRunStatus, inbox, InboxInv, TypeInv
<1>3. /\ runs'[p] = IF pc[w] = "complete" THEN "completed" ELSE "failed"
      /\ \A o \in Runs \ {p} : runs'[o] = runs[o]
      /\ pc[w] = "complete" => pc'[w] = "finish"
      /\ pc[w] = "spoiled" => pc'[w] = "fail"
      /\ pc[w] = "retry" => pc'[w] = "release"
      /\ \A v \in Workers \ {w} : pc'[v] = pc[v]
  BY <1>1, <1>2 DEF SetRunStatus, Goto, TypeOK
<1>4. /\ link[r] = p /\ RowOf(p) = r /\ status[r] = "pending" /\ p # NoRun
      /\ runs[p] = "running"
  BY <1>1, <1>2, OwnRun DEF InboxInv, PlaceInv, Placed
<1>5. Holds(w) /\ Placed(w)
  BY <1>2 DEF InboxInv, HoldInv, PlaceInv
<1>6. SettledStays
  BY <1>2 DEF SettledStays
<1>7. HoldInv' /\ SessionSerialized' /\ PlaceInv'
  <2>1. Touches(w, r)
    BY <1>2, <1>3, <1>4 DEF Touches
  <2>2. Holds(w)'
    BY <1>2, <1>5 DEF Holds
  <2>3. Placed(w)'
    BY <1>1, <1>2, <1>3, <1>4, <1>5 DEF Placed, RunOf
  <2> QED BY <1>1, <1>2, <1>6, <2>1, <2>2, <2>3, WorkersKeep
<1>8. LinkInv' /\ AppearInv'
  BY <1>2, <1>3 DEF InboxInv, LinkInv, AppearInv, RowOf
<1>9. OnlyLinked'
  BY <1>2, <1>3, <1>4 DEF InboxInv, OnlyLinked, RowOf
<1>10. SettledInv'
  <2>1. \A e \in Rows \ {r} : link[e] # NoRun => runs'[link[e]] = runs[link[e]]
    BY <1>3, <1>4 DEF InboxInv, LinkInv
  <2> QED BY <1>2, <1>4, <2>1 DEF InboxInv, SettledInv, Before
<1>11. BegunInv'
  <2>1. \A e \in Rows : attempts'[e] \in Nat /\ attempts[e] <= attempts'[e]
    BY <1>2, InboxAssumption DEF TypeOK
  <2>2. \A o \in Runs : runs'[o] # "none" => runs[o] # "none"
    BY <1>3, <1>4
  <2> QED BY <1>2, <1>6, <2>1, <2>2, BegunInvKept DEF InboxInv, BegunInv
<1>12. CursorInv'
  BY <1>2, <1>6, CursorKept DEF InboxInv
<1> QED
  BY <1>6, <1>7, <1>8, <1>9, <1>10, <1>11, <1>12 DEF InboxInv

\* A row is settled by its worker: the link stays, everything before the row is
\* settled already.
LEMMA SettleKeeps ==
  ASSUME InboxInv, TypeInv', NEW w \in Workers, NEW r \in Rows, r = job[w].row,
         pc[w] \in {"finish", "fail"}, Rest(w),
         NEW u \in {"completed", "failed"}, u = "completed" <=> pc[w] = "finish",
         status' = [status EXCEPT ![r] = u],
         link' = [link EXCEPT ![r] = job[w].run],
         lease' = [lease EXCEPT ![r] = "free"],
         \A s \in Sessions \ {SessionOf[r]} : cursor'[s] = cursor[s],
         UNCHANGED <<attempts, runs, inherits, committed>>
  PROVE  /\ SettledStays /\ UNCHANGED link
         /\ HoldInv' /\ SessionSerialized' /\ PlaceInv' /\ LinkInv'
         /\ OnlyLinked' /\ BegunInv' /\ SettledInv' /\ AppearInv'
<1>1. TypeOK /\ Holds(w) /\ Placed(w)
  BY DEF InboxInv, TypeInv, HoldInv, PlaceInv
<1>2. /\ status[r] = "pending" /\ link[r] = job[w].run
      /\ \A e \in Before(r) : status[e] \in Settled
  BY <1>1 DEF Holds, Placed, InboxInv, SessionSerialized
<1>3. /\ link' = link /\ status'[r] = u
      /\ \A e \in Rows \ {r} : status'[e] = status[e]
  BY <1>1, <1>2 DEF TypeOK
<1>4. SettledStays
  BY <1>2, <1>3 DEF SettledStays, Settled
<1>5. HoldInv' /\ SessionSerialized' /\ PlaceInv'
  <2>1. Touches(w, r) /\ pc'[w] = "idle"
    BY <1>1 DEF Touches, Rest, Goto, TypeOK
  <2> QED BY <1>4, <2>1, WorkersKeep
<1>6. LinkInv' /\ OnlyLinked'
  BY <1>3 DEF InboxInv, LinkInv, OnlyLinked, RowOf
<1>7. AppearInv'
  BY <1>2, <1>3 DEF InboxInv, AppearInv
<1>8. SettledInv'
  <2>1. /\ u = "completed" => link[r] # NoRun /\ runs[link[r]] = "completed"
        /\ u = "failed" /\ link[r] # NoRun => runs[link[r]] # "completed"
    <3>1. u = "completed" => pc[w] = "finish" /\ link[r] # NoRun
      BY <1>2, OwnRun
    <3> QED BY <1>1, <1>2, <3>1 DEF Placed
  <2>2. \A e \in Before(r) : e \in Rows
    BY DEF Before
  <2>3. ASSUME NEW e \in Rows \ {r}, status[e] \in {"completed", "failed"}
        PROVE  \A d \in Before(e) : status'[d] \in Settled
    <3>1. \A d \in Before(e) : d \in Rows /\ status[d] \in Settled
      BY <2>3 DEF InboxInv, SettledInv, Before
    <3> QED BY <1>4, <3>1 DEF SettledStays
  <2>4. \A d \in Before(r) : status'[d] \in Settled
    BY <1>2, <1>4, <2>2 DEF SettledStays
  <2>5. \A e \in Rows : (Before(e))' = Before(e)
    BY DEF Before
  <2> QED
    BY <1>3, <2>1, <2>3, <2>4, <2>5 DEF InboxInv, SettledInv
<1>9. BegunInv'
  <2>1. \A e \in Rows : attempts'[e] \in Nat /\ attempts[e] <= attempts'[e]
    BY <1>1, InboxAssumption DEF TypeOK
  <2> QED BY <1>4, <2>1, BegunInvKept DEF InboxInv, TypeInv, BegunInv
<1> QED BY <1>3, <1>4, <1>5, <1>6, <1>7, <1>8, <1>9

\* The row completes and the cursor of its session moves to its run, which is
\* the newest: nothing after a waiting row completed.
LEMMA FinishKeeps ==
  ASSUME InboxInv, TypeInv', NEW w \in Workers, Finish(w)
  PROVE  InboxInv' /\ SettledStays
<1>1. PICK r \in Rows, p \in Runs : r = job[w].row /\ p = job[w].run
  BY OwnRun DEF Finish
<1>2. /\ pc[w] = "finish" /\ Rest(w)
      /\ status' = [status EXCEPT ![r] = "completed"]
      /\ link' = [link EXCEPT ![r] = job[w].run]
      /\ lease' = [lease EXCEPT ![r] = "free"]
      /\ cursor' = [cursor EXCEPT ![SessionOf[r]] = p]
      /\ UNCHANGED <<attempts, runs, inherits, committed>>
      /\ TypeOK /\ SessionOf[r] \in Sessions
  BY <1>1, InboxAssumption DEF Finish, InboxInv, TypeInv
<1>3. \A s \in Sessions \ {SessionOf[r]} : cursor'[s] = cursor[s]
  BY <1>2 DEF TypeOK
<1>4. /\ SettledStays /\ UNCHANGED link
      /\ HoldInv' /\ SessionSerialized' /\ PlaceInv' /\ LinkInv'
      /\ OnlyLinked' /\ BegunInv' /\ SettledInv' /\ AppearInv'
  BY <1>1, <1>2, <1>3, SettleKeeps
<1>5. /\ link[r] = p /\ status[r] = "pending" /\ cursor'[SessionOf[r]] = p
      /\ status'[r] = "completed"
      /\ \A e \in Rows \ {r} : status'[e] = status[e]
  BY <1>1, <1>2, OwnRun DEF TypeOK
<1>6. CursorInv'
  <2> SUFFICES ASSUME NEW s \in Sessions
               PROVE  cursor'[s] = LatestOf(InSession(s))'
    BY DEF CursorInv
  <2>1. CASE s = SessionOf[r]
    <3> DEFINE D == {e \in InSession(s) : status'[e] = "completed"}
    <3>1. D \in SUBSET Nat /\ IsFiniteSet(D) /\ r \in D
      BY <1>5, <2>1, InboxAssumption, FS_Subset DEF InSession
    <3>2. \A e \in D : r >= e
      <4> SUFFICES ASSUME NEW e \in Rows, SessionOf[e] = s, e # r,
                          status[e] = "completed", ~(r >= e)
                   PROVE  FALSE
        BY <1>5, <3>1 DEF InSession
      <4>1. r \in Before(e)
        BY <2>1, InboxAssumption DEF Before
      <4> QED BY <1>5, <4>1 DEF InboxInv, SettledInv, Settled
    <3>3. Max(D) = r
      <4> HIDE DEF D
      <4> QED BY <3>1, <3>2, MaxIs
    <3>4. LatestOf(InSession(s))' = link'[Max(D)]
      BY <3>1 DEF LatestOf, InSession
    <3> QED BY <1>4, <1>5, <2>1, <3>3, <3>4
  <2>2. CASE s # SessionOf[r]
    <3>1. /\ InSession(s) \in SUBSET Rows
          /\ \A e \in InSession(s) : e \in Rows \ {r}
      BY <2>2 DEF InSession
    <3>2. LatestOf(InSession(s))' = LatestOf(InSession(s))
      BY <1>4, <1>5, <3>1, LatestKept
    <3> QED BY <1>3, <2>2, <3>2 DEF InboxInv, CursorInv
  <2> QED BY <2>1, <2>2
<1> QED BY <1>4, <1>6 DEF InboxInv

\* The row fails; its link and the cursor stay.
LEMMA FailRowKeeps ==
  ASSUME InboxInv, TypeInv', NEW w \in Workers, FailRow(w)
  PROVE  InboxInv' /\ SettledStays
<1>1. PICK r \in Rows : r = job[w].row
  BY DEF FailRow, InboxInv, TypeInv, JobInv, JobHolds
<1>2. /\ pc[w] = "fail" /\ Rest(w)
      /\ status' = [status EXCEPT ![r] = "failed"]
      /\ link' = [link EXCEPT ![r] = job[w].run]
      /\ lease' = [lease EXCEPT ![r] = "free"]
      /\ UNCHANGED <<cursor, attempts, runs, inherits, committed>>
      /\ TypeOK
  BY <1>1 DEF FailRow, InboxInv, TypeInv
<1>3. /\ SettledStays
      /\ HoldInv' /\ SessionSerialized' /\ PlaceInv' /\ LinkInv'
      /\ OnlyLinked' /\ BegunInv' /\ SettledInv' /\ AppearInv'
  BY <1>1, <1>2, SettleKeeps
<1>4. \A e \in Rows : status'[e] = "completed" => status[e] = "completed"
  BY <1>2 DEF TypeOK
<1>5. CursorInv'
  BY <1>2, <1>3, <1>4, CursorKept DEF InboxInv
<1> QED BY <1>3, <1>5 DEF InboxInv

\* The row is given back; the run it named changed nothing.
LEMMA ReleaseRowKeeps ==
  ASSUME InboxInv, TypeInv', NEW w \in Workers, ReleaseRow(w)
  PROVE  InboxInv' /\ SettledStays
<1>1. PICK r \in Rows : r = job[w].row
  BY DEF ReleaseRow, InboxInv, TypeInv, JobInv, JobHolds
<1>2. /\ pc[w] = "release" /\ Rest(w)
      /\ lease' = [lease EXCEPT ![r] = "backoff"]
      /\ link' = [link EXCEPT ![r] = NoRun]
      /\ UNCHANGED <<status, cursor, attempts, runs, inherits, committed>>
      /\ TypeOK
  BY <1>1 DEF ReleaseRow, InboxInv, TypeInv
<1>3. /\ link'[r] = NoRun /\ pc'[w] = "idle"
      /\ \A e \in Rows \ {r} : link'[e] = link[e] /\ lease'[e] = lease[e]
      /\ \A v \in Workers \ {w} : pc'[v] = pc[v] /\ job'[v] = job[v]
  BY <1>2 DEF Rest, Goto, TypeOK
<1>4. /\ status[r] = "pending" /\ link[r] \notin committed
      /\ link[r] # NoRun => runs[link[r]] # "completed"
  BY <1>1, <1>2 DEF InboxInv, HoldInv, Holds, PlaceInv, Placed
<1>5. SettledStays
  BY <1>2, <1>3, <1>4 DEF SettledStays, Settled
<1>6. HoldInv' /\ SessionSerialized' /\ PlaceInv'
  <2>1. Touches(w, r)
    BY <1>2, <1>3 DEF Touches
  <2> QED BY <1>1, <1>2, <1>3, <1>5, <2>1, WorkersKeep
<1>7. LinkInv' /\ AppearInv'
  BY <1>2, <1>3 DEF InboxInv, LinkInv, AppearInv, RowOf
<1>8. OnlyLinked'
  <2>1. \A o \in Runs : o \in committed \/ runs[o] = "completed" =>
          RowOf(o) \in Rows \ {r} /\ link[RowOf(o)] = o
    BY <1>4, InboxAssumption DEF InboxInv, OnlyLinked, RowOf, Runs
  <2> QED BY <1>2, <1>3, <2>1 DEF OnlyLinked, RowOf
<1>9. SettledInv'
  BY <1>2, <1>3, <1>4 DEF InboxInv, SettledInv, Before
<1>10. BegunInv'
  <2>1. \A e \in Rows : attempts'[e] \in Nat /\ attempts[e] <= attempts'[e]
    BY <1>2, InboxAssumption DEF TypeOK
  <2> QED BY <1>2, <1>5, <2>1, BegunInvKept DEF InboxInv, BegunInv
<1>11. CursorInv'
  BY <1>2, <1>5, CursorKept DEF InboxInv
<1> QED
  BY <1>5, <1>6, <1>7, <1>8, <1>9, <1>10, <1>11 DEF InboxInv

LEMMA NextInboxInv ==
  ASSUME LeaseCoversTurn, CommitInOrder, InboxInv, [Next]_vars
  PROVE  InboxInv' /\ SettledStays
<1>1. TypeInv'
  BY NextTypeInv DEF InboxInv
<1>2. CASE UNCHANGED vars
  <2>1. /\ SettledStays /\ LinkInv' /\ OnlyLinked' /\ BegunInv' /\ SettledInv'
        /\ AppearInv' /\ CursorInv'
    BY <1>2, RecordsKept DEF vars
  <2>2. HoldInv' /\ SessionSerialized' /\ PlaceInv'
    BY <1>2 DEF vars, InboxInv, HoldInv, Holds, SessionSerialized, Before,
                PlaceInv, Placed, RunOf
  <2> QED BY <1>1, <2>1, <2>2 DEF InboxInv
<1>3. ASSUME NEW r \in Rows, Accept(r) \/ Elapse(r)
      PROVE  InboxInv' /\ SettledStays
  BY <1>1, <1>3, AcceptKeeps, ElapseKeeps
<1>4. ASSUME NEW w \in Workers, Work(w) \/ Mutate(w) \/ Abort(w)
      PROVE  InboxInv' /\ SettledStays
  <2>1. CASE Claim(w)
    BY <1>1, <2>1, ClaimKeeps
  <2>2. CASE \/ FinalizeAmbiguous(w) \/ Dispatch(w) \/ HandleSignal(w)
             \/ RefusePrompt(w) \/ AwaitToken(w) \/ Acknowledge(w)
             \/ ModelAnswers(w) \/ RefuseDeferred(w) \/ ModelFails(w)
    <3>1. PICK l \in {"finish", "fail", "prepare", "release", "continuity",
                      "complete", "spoiled", "retry"} :
            /\ Step(w, l) /\ pc[w] # "idle"
            /\ \/ /\ pc[w] = "claimed" /\ l \in {"finish", "fail"}
                  /\ job[w].run # NoRun
                  /\ l = IF runs[job[w].run] = "completed" THEN "finish" ELSE "fail"
               \/ /\ pc[w] = "claimed" /\ l \in {"fail", "prepare"}
                  /\ job[w].run = NoRun
               \/ pc[w] = "prepare" /\ l \in {"fail", "release", "continuity"}
               \/ pc[w] = "model" /\ l \in {"complete", "spoiled"}
               \/ /\ pc[w] = "model" /\ l = "retry" /\ job[w].run \notin committed
      BY <2>2 DEF FinalizeAmbiguous, Dispatch, HandleSignal, RefusePrompt,
                  AwaitToken, Acknowledge, ModelAnswers, RefuseDeferred, ModelFails
    <3>2. /\ TypeOK /\ Placed(w) /\ NoRun \notin committed
      BY <3>1, InboxAssumption
      DEF InboxInv, TypeInv, TypeOK, PlaceInv, Runs
    <3>3. /\ pc'[w] = l
          /\ UNCHANGED <<status, link, attempts, lease, cursor, runs, inherits,
                         committed, job>>
      BY <3>1, <3>2 DEF Step, Goto, inbox, TypeOK
    <3>4. Placed(w)'
      BY <3>1, <3>2, <3>3 DEF Placed, RunOf
    <3> QED BY <1>1, <3>1, <3>4, StepKeeps DEF PCs
  <2>3. CASE ReadCursor(w) \/ CreateTurn(w) \/ LinkRun(w)
    BY <1>1, <2>3, ReadCursorKeeps, CreateTurnKeeps, LinkRunKeeps
  <2>4. CASE Mutate(w) \/ SetRunStatus(w)
    BY <1>1, <2>4, MutateKeeps, SetRunStatusKeeps
  <2>5. CASE Finish(w) \/ FailRow(w) \/ ReleaseRow(w)
    BY <1>1, <2>5, FinishKeeps, FailRowKeeps, ReleaseRowKeeps
  <2>6. CASE Abort(w)
    BY <1>1, <2>6, RestKeeps DEF Abort
  <2> QED BY <1>4, <2>1, <2>2, <2>3, <2>4, <2>5, <2>6 DEF Work
<1> QED BY <1>2, <1>3, <1>4 DEF Next

\* A run that ended stays as it ended: only a running run of a worker changes.
LEMMA EndedRunsStay ==
  ASSUME InboxInv, [Next]_vars, NEW p \in Runs,
         runs[p] \in {"completed", "failed"}
  PROVE  runs'[p] = runs[p]
<1>1. ASSUME NEW w \in Workers, CreateTurn(w) PROVE runs'[p] = runs[p]
  <2>1. RunOf(job[w].row, job[w].attempt) # p
    BY <1>1 DEF CreateTurn, InboxInv, TypeInv, JobInv, JobHolds, PlaceInv, Placed
  <2> QED BY <1>1, <2>1 DEF CreateTurn, InboxInv, TypeInv, TypeOK
<1>2. ASSUME NEW w \in Workers, SetRunStatus(w) PROVE runs'[p] = runs[p]
  <2>1. job[w].run # p
    BY <1>2 DEF SetRunStatus, InboxInv, PlaceInv, Placed
  <2> QED BY <1>2, <2>1 DEF SetRunStatus, InboxInv, TypeInv, TypeOK
<1>3. ASSUME NEW w \in Workers, Work(w) \/ Mutate(w) \/ Abort(w)
      PROVE  CreateTurn(w) \/ SetRunStatus(w) \/ runs' = runs
  BY <1>3
  DEF Work, Claim, FinalizeAmbiguous, Dispatch, HandleSignal, RefusePrompt,
      AwaitToken, Acknowledge, ReadCursor, LinkRun, ModelAnswers,
      RefuseDeferred, ModelFails, Finish, FailRow, ReleaseRow, Mutate, Abort, Step
<1>4. ASSUME NEW r \in Rows, Accept(r) \/ Elapse(r) PROVE runs' = runs
  BY <1>4 DEF Accept, Elapse
<1> QED BY <1>1, <1>2, <1>3, <1>4 DEF Next, vars

----------------------------------------------------------------------------
(* Theorems                                                                *)

\* The rows, the runs and the workers keep their types whatever the leases do
\* and in whatever order rows appear.
THEOREM InboxTypes == Spec => []TypeOK
<1>1. TypeInv => TypeOK
  BY DEF TypeInv
<1> QED BY InitTypeInv, NextTypeInv, <1>1, PTL DEF Spec

\* The inductive invariant of the worker.
THEOREM InboxInvariant ==
  ASSUME LeaseCoversTurn, CommitInOrder
  PROVE  Spec => []InboxInv
<1>1. InboxInv /\ [Next]_vars => InboxInv'
  BY NextInboxInv
<1> QED BY InitInboxInv, <1>1, PTL DEF Spec

\* _finalize_ambiguous and SET_LINEAR_INBOX_RUN: two attempts at a row never both
\* change tasks, because only the run the row names ever did.
THEOREM TurnsChangeOnce ==
  ASSUME LeaseCoversTurn, CommitInOrder
  PROVE  Spec => []TurnOnce
<1>1. InboxInv => TurnOnce
  BY DEF InboxInv, TypeInv, TypeOK, OnlyLinked, TurnOnce
<1> QED BY InboxInvariant, <1>1, PTL

\* CLAIM_LINEAR_INBOX: one turn of a session at a time, and only when every
\* earlier prompt of it is settled.
THEOREM SessionsInTurn ==
  ASSUME LeaseCoversTurn, CommitInOrder
  PROVE  Spec => []SessionSerialized
<1>1. InboxInv => SessionSerialized
  BY DEF InboxInv
<1> QED BY InboxInvariant, <1>1, PTL

\* The claim's NOT EXISTS: while a prompt waits, no later one of its session
\* has started a turn.
THEOREM NobodyOvertakes ==
  ASSUME LeaseCoversTurn, CommitInOrder
  PROVE  Spec => []NoOvertaking
<1>1. InboxInv => NoOvertaking
  BY DEF InboxInv, BegunInv, Begun, Settled, NoOvertaking
<1> QED BY InboxInvariant, <1>1, PTL

\* _complete_and_advance and _continuity_run_id: the cursor names the newest
\* completed turn and every completed turn began from the one before it.
THEOREM HistoriesChain ==
  ASSUME LeaseCoversTurn, CommitInOrder
  PROVE  Spec => []ConversationIsOneChain
<1>1. InboxInv => ConversationIsOneChain
  <2> SUFFICES ASSUME InboxInv PROVE ConversationIsOneChain
    OBVIOUS
  <2>1. \A s \in Sessions : cursor[s] = LatestOf({r \in Rows : SessionOf[r] = s})
    BY DEF InboxInv, CursorInv, InSession
  <2>2. ASSUME NEW r \in Rows, status[r] = "completed"
        PROVE  inherits[link[r]] = LatestOf(Before(r))
    BY <2>2 DEF InboxInv, SettledInv, LinkInv, BegunInv, Begun
  <2> QED BY <2>1, <2>2 DEF ConversationIsOneChain
<1> QED BY InboxInvariant, <1>1, PTL

\* A settled row agrees with its runs, and a turn that changed tasks is found
\* from its row.
THEOREM RowsTellTheirRuns ==
  ASSUME LeaseCoversTurn, CommitInOrder
  PROVE  Spec => []RowTellsTheRun
<1>1. InboxInv => RowTellsTheRun
  <2> SUFFICES ASSUME InboxInv, NEW r \in Rows
               PROVE  /\ status[r] = "completed" =>
                           link[r] # NoRun /\ runs[link[r]] = "completed"
                      /\ status[r] = "failed" =>
                           \A p \in Runs : RowOf(p) = r => runs[p] # "completed"
                      /\ status[r] \in Settled =>
                           \A p \in committed : RowOf(p) = r => link[r] = p
    BY DEF RowTellsTheRun
  <2>1. \A p \in Runs : RowOf(p) = r /\ (p \in committed \/ runs[p] = "completed")
          => link[r] = p /\ p # NoRun
    BY InboxAssumption DEF InboxInv, OnlyLinked, Runs
  <2> QED BY <2>1 DEF InboxInv, SettledInv, TypeInv, TypeOK
<1> QED BY InboxInvariant, <1>1, PTL

\* COMPLETE, FAIL and RELEASE_LINEAR_INBOX go by id alone, yet no late worker
\* moves a settled row, nor a run that ended.
THEOREM SettledRowsStay ==
  ASSUME LeaseCoversTurn, CommitInOrder
  PROVE  Spec => SettledIsFinal
<1> DEFINE Stays ==
      /\ \A r \in Rows : status[r] \in Settled =>
           status'[r] = status[r] /\ link'[r] = link[r]
      /\ \A p \in Runs : runs[p] \in {"completed", "failed"} =>
           runs'[p] = runs[p]
<1>1. InboxInv /\ [Next]_vars => Stays
  BY NextInboxInv, EndedRunsStay DEF SettledStays
<1>2. SettledIsFinal <=> [][Stays]_vars
  BY DEF SettledIsFinal
<1> HIDE DEF Stays
<1>3. Spec => [][Stays]_vars
  BY <1>1, InboxInvariant, PTL DEF Spec
<1> QED BY <1>2, <1>3, PTL
=============================================================================
