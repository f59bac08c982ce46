---------------------------- MODULE TaskUndoProofs ----------------------------
(***************************************************************************)
(* What TaskUndo guarantees for every set of tasks, values and runs and    *)
(* every length of the log: the audit log explains every row, a version    *)
(* names the row it was read with, an applied undo is the inverse of its   *)
(* run and destroys no change of another, whatever order a delete names    *)
(* its targets in; and, where no delete names a blocker before a task it   *)
(* blocks, an undo is refused only for what another run did.               *)
(*                                                                         *)
(* A mutation, and each compensation inside an undo, extends the log by    *)
(* events that say what became of each row (Extends).  LogInv says what a  *)
(* table and a log that grew like this have in common; it is stated of any *)
(* table and log, so that it holds of the transaction of an undo between   *)
(* two of its compensations as well as between two steps.                  *)
(***************************************************************************)
EXTENDS TaskUndo, NumberSets, SequenceTheorems, TLAPS

Snapshot == Rows \cup {Absent}
Table == [Tasks -> Snapshot]
Entry == {e \in [run : Runs, task : Tasks, op : Operations,
                 before : Snapshot, after : Snapshot] : e.before # e.after}

\* The event of create_task; a compensation that brings a row back is labelled
\* "restored".
Creation(e) == e.before = Absent /\ e.op # "restored"

\* An event raises the version of a row that stays, or clears its pointer.
Grows(e) == e.before # Absent /\ e.after # Absent =>
  \/ e.after.version > e.before.version
  \/ e.after = [e.before EXCEPT !.blocker = NoTask]

\* The row is a later state of the one event e found: its version is no
\* smaller, and greater if the row was gone in between.
Precedes(e, row) == e.before # Absent /\ row # Absent =>
  /\ e.before.version =< row.version
  /\ e.after = Absent => e.before.version < row.version

TypeInv(ts, lg) == ts \in Table /\ lg \in Seq(Entry)

\* The events of a task form one chain that ends in its row.
ChainInv(ts, lg) == \A i \in 1 .. Len(lg) :
  /\ (\A j \in i + 1 .. Len(lg) : lg[j].task # lg[i].task) =>
       lg[i].after = ts[lg[i].task]
  /\ \A j \in i + 1 .. Len(lg) :
       lg[j].task = lg[i].task /\ (\A k \in i + 1 .. j - 1 : lg[k].task # lg[i].task)
         => lg[i].after = lg[j].before

VersionInv(ts, lg) == \A i \in 1 .. Len(lg) :
  /\ Grows(lg[i])
  /\ Precedes(lg[i], ts[lg[i].task])
  /\ \A j \in i + 1 .. Len(lg) :
       lg[j].task = lg[i].task => Precedes(lg[i], lg[j].before)

\* Pointers name rows that stand, and a snapshot points at a task that stands
\* or that the log knows.
PointerInv(ts) ==
  \A t \in Tasks : ts[t] # Absent => ValidBlocker(ts, ts[t].blocker)
NamedInv(ts, lg) == \A i \in 1 .. Len(lg) :
  lg[i].before # Absent /\ lg[i].before.blocker # NoTask =>
    \/ ts[lg[i].before.blocker] # Absent
    \/ \E k \in 1 .. Len(lg) : lg[k].task = lg[i].before.blocker

\* Nothing is known of a task before its creation.
CreationInv(lg) == \A j \in 1 .. Len(lg) : Creation(lg[j]) =>
  /\ \A i \in 1 .. j - 1 : lg[i].task # lg[j].task
  /\ \A i \in 1 .. j - 1 :
       lg[i].before # Absent => lg[i].before.blocker # lg[j].task

\* A task stood when an event found a row that points at it, unless a delete of
\* several named the blocker first.
BlockerInv(ts, lg) == BlockersLast =>
  \A i \in 1 .. Len(lg) : lg[i].before # Absent =>
    \A b \in Tasks \ {lg[i].task} : lg[i].before.blocker = b =>
      /\ (\A j \in i + 1 .. Len(lg) : lg[j].task # b) => ts[b] # Absent
      /\ \A j \in i + 1 .. Len(lg) :
           lg[j].task = b /\ (\A k \in i + 1 .. j - 1 : lg[k].task # b)
             => lg[j].before # Absent

LogInv(ts, lg) == /\ TypeInv(ts, lg)
                  /\ ChainInv(ts, lg)
                  /\ VersionInv(ts, lg)
                  /\ PointerInv(ts)
                  /\ NamedInv(ts, lg)
                  /\ CreationInv(lg)
                  /\ BlockerInv(ts, lg)

\* The log lg2 of table ts2 is lg of table ts with the events of one statement
\* of run r: one for each row that changed, from what it was to what it is.
Added(lg, lg2) == Len(lg) + 1 .. Len(lg2)

\* A row is logged no later than the deletion of its blocker.
BlockedLogged(lg, lg2) == BlockersLast =>
  \A k, j \in Added(lg, lg2) :
    lg2[k].before # Absent /\ lg2[k].before.blocker = lg2[j].task
      /\ lg2[j].after = Absent => k =< j

Extends(r, ts, lg, ts2, lg2) ==
  /\ TypeInv(ts2, lg2)
  /\ Len(lg) =< Len(lg2) /\ \A i \in 1 .. Len(lg) : lg2[i] = lg[i]
  /\ \A k \in Added(lg, lg2) :
       /\ lg2[k].run = r
       /\ lg2[k].before = ts[lg2[k].task]
       /\ lg2[k].after = ts2[lg2[k].task]
       /\ \A j \in Added(lg, lg2) : lg2[j].task = lg2[k].task => j = k
       /\ Grows(lg2[k])
       /\ \A i \in 1 .. Len(lg) :
            lg[i].task = lg2[k].task /\ lg2[k].before = Absent =>
              /\ Precedes(lg[i], lg2[k].after)
              /\ lg2[k].op = "restored"
       /\ Creation(lg2[k]) => Len(lg2) = Len(lg) + 1
  /\ \A t \in Tasks : (\A k \in Added(lg, lg2) : lg2[k].task # t) =>
       ts2[t] = ts[t]
  /\ PointerInv(ts2)
  /\ BlockedLogged(lg, lg2)

----------------------------------------------------------------------------
(* What one statement keeps                                                *)

LEMMA ChainKept ==
  ASSUME NEW r, NEW ts, NEW lg, NEW ts2, NEW lg2,
         LogInv(ts, lg), Extends(r, ts, lg, ts2, lg2)
  PROVE  ChainInv(ts2, lg2)
<1> USE DEF LogInv, TypeInv, Added
<1>0. Len(lg) \in Nat /\ Len(lg2) \in Nat /\ Len(lg) =< Len(lg2)
      /\ \A i \in 1 .. Len(lg2) : lg2[i].task \in Tasks
  BY LenProperties, ElementOfSeq DEF Extends, Entry
<1> SUFFICES ASSUME NEW i \in 1 .. Len(lg2)
             PROVE  /\ (\A j \in i + 1 .. Len(lg2) : lg2[j].task # lg2[i].task)
                         => lg2[i].after = ts2[lg2[i].task]
                    /\ \A j \in i + 1 .. Len(lg2) :
                         lg2[j].task = lg2[i].task
                           /\ (\A k \in i + 1 .. j - 1 : lg2[k].task # lg2[i].task)
                         => lg2[i].after = lg2[j].before
  BY DEF ChainInv
<1>1. CASE i > Len(lg)
  BY <1>0, <1>1 DEF Extends
<1>2. CASE i =< Len(lg)
  <2>1. lg2[i] = lg[i] /\ i \in 1 .. Len(lg)
    BY <1>0, <1>2 DEF Extends
  <2>2. ASSUME \A j \in i + 1 .. Len(lg) : lg[j].task # lg[i].task
        PROVE  lg[i].after = ts[lg[i].task]
    BY <2>1, <2>2 DEF ChainInv
  <2>3. ASSUME \A j \in i + 1 .. Len(lg2) : lg2[j].task # lg2[i].task
        PROVE  lg2[i].after = ts2[lg2[i].task]
    <3>1. \A j \in i + 1 .. Len(lg) : lg[j].task # lg[i].task
      BY <1>0, <2>1, <2>3 DEF Extends
    <3>2. ts2[lg[i].task] = ts[lg[i].task]
      BY <1>0, <2>1, <2>3 DEF Extends
    <3> QED BY <2>1, <2>2, <3>1, <3>2
  <2>4. ASSUME NEW j \in i + 1 .. Len(lg2), lg2[j].task = lg2[i].task,
               \A k \in i + 1 .. j - 1 : lg2[k].task # lg2[i].task
        PROVE  lg2[i].after = lg2[j].before
    <3>1. CASE j =< Len(lg)
      <4>1. j \in i + 1 .. Len(lg) /\ lg2[j] = lg[j]
            /\ \A k \in i + 1 .. j - 1 : lg[k].task # lg[i].task
        BY <1>0, <2>1, <2>4, <3>1 DEF Extends
      <4> QED BY <2>1, <2>4, <4>1 DEF ChainInv
    <3>2. CASE j > Len(lg)
      <4>1. \A k \in i + 1 .. Len(lg) : lg[k].task # lg[i].task
        BY <1>0, <2>1, <2>4, <3>2 DEF Extends
      <4>2. lg2[j].before = ts[lg[i].task]
        BY <1>0, <2>1, <2>4, <3>2 DEF Extends
      <4> QED BY <2>1, <2>2, <4>1, <4>2
    <3> QED BY <1>0, <3>1, <3>2
  <2> QED BY <2>3, <2>4
<1> QED BY <1>0, <1>1, <1>2

LEMMA VersionsKept ==
  ASSUME NEW r, NEW ts, NEW lg, NEW ts2, NEW lg2,
         LogInv(ts, lg), Extends(r, ts, lg, ts2, lg2)
  PROVE  VersionInv(ts2, lg2)
<1> USE DEF LogInv, TypeInv, Added
<1>0. /\ Len(lg) \in Nat /\ Len(lg2) \in Nat /\ Len(lg) =< Len(lg2)
      /\ \A i \in 1 .. Len(lg2) : lg2[i] \in Entry
      /\ \A i \in 1 .. Len(lg) : lg2[i] = lg[i]
      /\ ts \in Table /\ ts2 \in Table
  BY LenProperties, ElementOfSeq DEF Extends
<1>1. ASSUME NEW k \in Added(lg, lg2)
      PROVE  Grows(lg2[k]) /\ Precedes(lg2[k], ts2[lg2[k].task])
  <2>1. Grows(lg2[k]) /\ lg2[k].after = ts2[lg2[k].task] /\ lg2[k] \in Entry
    BY <1>0, <1>1 DEF Extends
  <2> QED BY <2>1 DEF Grows, Precedes, Entry, Snapshot, Rows
<1>2. ASSUME NEW i \in 1 .. Len(lg)
      PROVE  Precedes(lg[i], ts2[lg[i].task])
  <2>1. lg[i] \in Entry /\ Precedes(lg[i], ts[lg[i].task])
    BY <1>0, <1>2 DEF VersionInv
  <2>2. CASE \E k \in Added(lg, lg2) : lg2[k].task = lg[i].task
    <3>1. PICK k \in Added(lg, lg2) : lg2[k].task = lg[i].task
      BY <2>2
    <3>2. /\ Grows(lg2[k]) /\ lg2[k] \in Entry
          /\ lg2[k].before = ts[lg[i].task] /\ lg2[k].after = ts2[lg[i].task]
          /\ lg2[k].before = Absent => Precedes(lg[i], lg2[k].after)
      BY <1>0, <3>1 DEF Extends
    <3> QED BY <2>1, <3>2 DEF Grows, Precedes, Entry, Snapshot, Rows
  <2>3. CASE ~ \E k \in Added(lg, lg2) : lg2[k].task = lg[i].task
    <3>1. ts2[lg[i].task] = ts[lg[i].task]
      BY <2>1, <2>3 DEF Extends, Entry
    <3> QED BY <2>1, <3>1
  <2> QED BY <2>2, <2>3
<1>3. ASSUME NEW i \in 1 .. Len(lg2), NEW j \in i + 1 .. Len(lg2),
             lg2[j].task = lg2[i].task
      PROVE  Precedes(lg2[i], lg2[j].before)
  <2>1. CASE j =< Len(lg)
    BY <1>0, <1>3, <2>1 DEF VersionInv
  <2>2. CASE j > Len(lg) /\ i =< Len(lg)
    <3>1. lg2[j].before = ts[lg[i].task]
      BY <1>0, <1>3, <2>2 DEF Extends
    <3>2. Precedes(lg[i], ts[lg[i].task])
      BY <1>0, <1>3, <2>2 DEF VersionInv
    <3> QED BY <1>0, <1>3, <2>2, <3>1, <3>2
  <2>3. CASE j > Len(lg) /\ i > Len(lg)
    BY <1>0, <1>3, <2>3 DEF Extends
  <2> QED BY <1>0, <1>3, <2>1, <2>2, <2>3
<1>4. \A i \in 1 .. Len(lg) : Grows(lg2[i])
  BY <1>0 DEF VersionInv
<1>5. \A i \in 1 .. Len(lg2) : Grows(lg2[i]) /\ Precedes(lg2[i], ts2[lg2[i].task])
  <2> TAKE i \in 1 .. Len(lg2)
  <2>1. CASE i =< Len(lg)
    BY <1>0, <1>2, <1>4, <2>1
  <2>2. CASE i > Len(lg)
    BY <1>0, <1>1, <2>2
  <2> QED BY <1>0, <2>1, <2>2
<1> QED BY <1>3, <1>5 DEF VersionInv

LEMMA NamesKept ==
  ASSUME NEW r, NEW ts, NEW lg, NEW ts2, NEW lg2,
         LogInv(ts, lg), Extends(r, ts, lg, ts2, lg2)
  PROVE  NamedInv(ts2, lg2)
<1> USE DEF LogInv, TypeInv, Added
<1>0. /\ Len(lg) \in Nat /\ Len(lg2) \in Nat /\ Len(lg) =< Len(lg2)
      /\ \A i \in 1 .. Len(lg2) : lg2[i] \in Entry
      /\ \A i \in 1 .. Len(lg) : lg2[i] = lg[i]
  BY LenProperties, ElementOfSeq DEF Extends
<1> SUFFICES ASSUME NEW i \in 1 .. Len(lg2), lg2[i].before # Absent,
                    lg2[i].before.blocker # NoTask
             PROVE  \/ ts2[lg2[i].before.blocker] # Absent
                    \/ \E k \in 1 .. Len(lg2) :
                         lg2[k].task = lg2[i].before.blocker
  BY DEF NamedInv
<1> DEFINE b == lg2[i].before.blocker
<1>1. b \in Tasks
  BY <1>0 DEF Entry, Snapshot, Rows
<1>2. ts[b] # Absent \/ \E k \in 1 .. Len(lg) : lg[k].task = b
  <2>1. CASE i =< Len(lg)
    BY <1>0, <2>1 DEF NamedInv
  <2>2. CASE i > Len(lg)
    <3>1. lg2[i].before = ts[lg2[i].task] /\ lg2[i].task \in Tasks
      BY <1>0, <2>2 DEF Extends, Entry
    <3> QED BY <3>1 DEF PointerInv, ValidBlocker, Exists
  <2> QED BY <1>0, <2>1, <2>2
<1>3. CASE \E k \in 1 .. Len(lg) : lg[k].task = b
  BY <1>0, <1>3
<1>4. CASE ts[b] # Absent
  <2>1. ts2[b] = ts[b] \/ \E k \in Added(lg, lg2) : lg2[k].task = b
    BY <1>1 DEF Extends
  <2> QED BY <1>0, <1>4, <2>1
<1> QED BY <1>2, <1>3, <1>4

LEMMA CreationsKept ==
  ASSUME NEW r, NEW ts, NEW lg, NEW ts2, NEW lg2,
         LogInv(ts, lg), Extends(r, ts, lg, ts2, lg2)
  PROVE  CreationInv(lg2)
<1> USE DEF LogInv, TypeInv, Added
<1>0. /\ Len(lg) \in Nat /\ Len(lg2) \in Nat /\ Len(lg) =< Len(lg2)
      /\ \A i \in 1 .. Len(lg2) : lg2[i] \in Entry
      /\ \A i \in 1 .. Len(lg) : lg2[i] = lg[i]
  BY LenProperties, ElementOfSeq DEF Extends
<1> SUFFICES ASSUME NEW j \in 1 .. Len(lg2), Creation(lg2[j]),
                    NEW i \in 1 .. j - 1
             PROVE  /\ lg2[i].task # lg2[j].task
                    /\ lg2[i].before # Absent =>
                         lg2[i].before.blocker # lg2[j].task
  BY DEF CreationInv
<1>1. CASE j =< Len(lg)
  <2>1. i \in 1 .. Len(lg) /\ j \in 1 .. Len(lg)
    BY <1>0, <1>1
  <2> QED BY <1>0, <2>1 DEF CreationInv
<1>2. CASE j > Len(lg)
  <2>1. i \in 1 .. Len(lg) /\ j = Len(lg) + 1
    BY <1>0, <1>2 DEF Extends
  <2>2. j \in Added(lg, lg2)
    BY <1>0, <1>2
  <2>3. lg2[j].before = ts[lg2[j].task] /\ ts[lg2[j].task] = Absent
    BY <2>2 DEF Extends, Creation
  <2>4. \A k \in 1 .. Len(lg) : lg[k].task # lg2[j].task
    BY <2>2 DEF Extends, Creation
  <2>5. lg2[j].task # NoTask
    BY <1>0, UndoAssumption DEF Entry
  <2>6. ASSUME lg[i].before # Absent, lg[i].before.blocker = lg2[j].task
        PROVE  FALSE
    BY <2>1, <2>3, <2>4, <2>5, <2>6 DEF NamedInv
  <2> QED BY <1>0, <2>1, <2>4, <2>6
<1> QED BY <1>0, <1>1, <1>2

LEMMA BlockersKept ==
  ASSUME NEW r, NEW ts, NEW lg, NEW ts2, NEW lg2,
         LogInv(ts, lg), Extends(r, ts, lg, ts2, lg2)
  PROVE  BlockerInv(ts2, lg2)
<1> USE DEF LogInv, TypeInv, Added
<1>0. /\ Len(lg) \in Nat /\ Len(lg2) \in Nat /\ Len(lg) =< Len(lg2)
      /\ \A i \in 1 .. Len(lg2) : lg2[i] \in Entry
      /\ \A i \in 1 .. Len(lg) : lg2[i] = lg[i]
  BY LenProperties, ElementOfSeq DEF Extends
<1> SUFFICES ASSUME BlockersLast, NEW i \in 1 .. Len(lg2), lg2[i].before # Absent,
                    NEW b \in Tasks \ {lg2[i].task}, lg2[i].before.blocker = b
             PROVE  /\ (\A j \in i + 1 .. Len(lg2) : lg2[j].task # b)
                         => ts2[b] # Absent
                    /\ \A j \in i + 1 .. Len(lg2) :
                         lg2[j].task = b
                           /\ (\A k \in i + 1 .. j - 1 : lg2[k].task # b)
                         => lg2[j].before # Absent
  BY DEF BlockerInv
<1>1. CASE i =< Len(lg)
  <2>1. i \in 1 .. Len(lg) /\ lg2[i] = lg[i]
    BY <1>0, <1>1
  <2>2. /\ (\A j \in i + 1 .. Len(lg) : lg[j].task # b) => ts[b] # Absent
        /\ \A j \in i + 1 .. Len(lg) :
             lg[j].task = b /\ (\A k \in i + 1 .. j - 1 : lg[k].task # b)
               => lg[j].before # Absent
    BY <2>1 DEF BlockerInv
  <2>3. ASSUME \A j \in i + 1 .. Len(lg2) : lg2[j].task # b
        PROVE  ts2[b] # Absent
    <3>1. \A j \in i + 1 .. Len(lg) : lg[j].task # b
      BY <1>0, <2>1, <2>3
    <3>2. ts2[b] = ts[b]
      BY <1>0, <2>1, <2>3 DEF Extends
    <3> QED BY <2>2, <3>1, <3>2
  <2>4. ASSUME NEW j \in i + 1 .. Len(lg2), lg2[j].task = b,
               \A k \in i + 1 .. j - 1 : lg2[k].task # b
        PROVE  lg2[j].before # Absent
    <3>1. CASE j =< Len(lg)
      <4>1. j \in i + 1 .. Len(lg) /\ lg2[j] = lg[j]
            /\ \A k \in i + 1 .. j - 1 : lg[k].task # b
        BY <1>0, <2>1, <2>4, <3>1
      <4> QED BY <2>2, <2>4, <4>1
    <3>2. CASE j > Len(lg)
      <4>1. \A k \in i + 1 .. Len(lg) : lg[k].task # b
        BY <1>0, <2>1, <2>4, <3>2
      <4>2. lg2[j].before = ts[b]
        BY <1>0, <2>1, <2>4, <3>2 DEF Extends
      <4> QED BY <2>2, <4>1, <4>2
    <3> QED BY <1>0, <3>1, <3>2
  <2> QED BY <2>3, <2>4
<1>2. CASE i > Len(lg)
  <2>1. i \in Added(lg, lg2) /\ lg2[i].before = ts[lg2[i].task]
        /\ lg2[i].task \in Tasks
    BY <1>0, <1>2 DEF Extends, Entry
  <2>2. ts[b] # Absent
    BY <2>1, UndoAssumption DEF PointerInv, ValidBlocker, Exists
  <2>3. ASSUME NEW j \in i + 1 .. Len(lg2), lg2[j].task = b
        PROVE  lg2[j].before # Absent
    BY <1>0, <1>2, <2>2, <2>3 DEF Extends
  <2>4. ASSUME \A j \in i + 1 .. Len(lg2) : lg2[j].task # b, ts2[b] = Absent
        PROVE  FALSE
    <3>1. PICK j \in Added(lg, lg2) : lg2[j].task = b
      BY <2>2, <2>4 DEF Extends
    <3>2. lg2[j].after = Absent
      BY <2>4, <3>1 DEF Extends
    <3>3. i =< j
      BY <2>1, <3>1, <3>2 DEF Extends, BlockedLogged
    <3>4. j # i
      BY <3>1
    <3> QED BY <1>0, <1>2, <2>4, <3>1, <3>3, <3>4
  <2> QED BY <2>3, <2>4
<1> QED BY <1>0, <1>1, <1>2

\* A statement keeps the log true.
LEMMA LogKept ==
  ASSUME NEW r, NEW ts, NEW lg, NEW ts2, NEW lg2,
         LogInv(ts, lg), Extends(r, ts, lg, ts2, lg2)
  PROVE  LogInv(ts2, lg2)
<1>1. ChainInv(ts2, lg2) /\ VersionInv(ts2, lg2)
  BY ChainKept, VersionsKept
<1>2. NamedInv(ts2, lg2) /\ CreationInv(lg2)
  BY NamesKept, CreationsKept
<1>3. BlockerInv(ts2, lg2)
  BY BlockersKept
<1> QED BY <1>1, <1>2, <1>3 DEF LogInv, Extends

----------------------------------------------------------------------------
(* Each statement extends the log                                          *)

LEMMA AbsentIsNoRow == Absent \notin Rows
BY UndoAssumption DEF Rows

LEMMA EventIsEntry ==
  ASSUME NEW r \in Runs, NEW t \in Tasks, NEW op \in Operations,
         NEW before \in Snapshot, NEW after \in Snapshot, before # after,
         NEW e, e = Event(r, t, op, before, after)
  PROVE  /\ e \in Entry /\ e.run = r /\ e.task = t /\ e.op = op
         /\ e.before = before /\ e.after = after
BY DEF Event, Entry

\* A statement of run r may write row over that of t, with event op: a row that
\* stays gets a new version, one that returns is restored past every version it
\* had, and one that is new is new to the log.
MayWrite(ts, lg, r, t, op, row) ==
  /\ r \in Runs /\ t \in Tasks /\ op \in Operations /\ row \in Rows
  /\ row # ts[t]
  /\ ts[t] # Absent => row.version > ts[t].version
  /\ ts[t] = Absent => \A i \in 1 .. Len(lg) : lg[i].task = t =>
                         Precedes(lg[i], row) /\ op = "restored"
  /\ row.blocker = t \/ ValidBlocker(ts, row.blocker)

OneAdded(ts, lg, r, t, op, row, lg2) ==
  /\ Extends(r, ts, lg, [ts EXCEPT ![t] = row], lg2)
  /\ Added(lg, lg2) = {Len(lg) + 1}
  /\ lg2[Len(lg) + 1].op = op /\ lg2[Len(lg) + 1].task = t

LEMMA OneEvent ==
  ASSUME NEW ts, NEW lg, NEW r, NEW t, NEW op, NEW row,
         LogInv(ts, lg), MayWrite(ts, lg, r, t, op, row)
  PROVE  OneAdded(ts, lg, r, t, op, row,
                  Append(lg, Event(r, t, op, ts[t], row)))
<1>0. PICK lg2 : lg2 = Append(lg, Event(r, t, op, ts[t], row))
  OBVIOUS
<1> DEFINE e == Event(r, t, op, ts[t], row)
           ts2 == [ts EXCEPT ![t] = row]
<1>1. ts \in Table /\ lg \in Seq(Entry) /\ Len(lg) \in Nat /\ row # Absent
  BY AbsentIsNoRow DEF LogInv, TypeInv, MayWrite
<1>2. /\ e \in Entry /\ e.run = r /\ e.task = t /\ e.op = op
      /\ e.before = ts[t] /\ e.after = row
  BY <1>1 DEF Event, Entry, Table, Snapshot, MayWrite
<1>3. ts2 \in Table /\ ts2[t] = row /\ \A u \in Tasks \ {t} : ts2[u] = ts[u]
  BY <1>1 DEF Table, Snapshot, MayWrite
<1>4. /\ lg2 \in Seq(Entry) /\ Len(lg2) = Len(lg) + 1
      /\ \A i \in 1 .. Len(lg) : lg2[i] = lg[i]
      /\ lg2[Len(lg) + 1] = e
  <2>1. lg2 = Append(lg, e)
    BY <1>0
  <2> HIDE DEF e
  <2> QED BY <1>1, <1>2, <2>1, AppendProperties
<1>5. PointerInv(ts2)
  <2> HIDE DEF ts2
  <2>1. \A b : ValidBlocker(ts, b) /\ b \in Tasks \cup {NoTask} =>
                ValidBlocker(ts2, b)
    BY <1>1, <1>3 DEF ValidBlocker, Exists
  <2>2. ValidBlocker(ts2, row.blocker)
    <3>1. row.blocker \in Tasks \cup {NoTask}
      BY DEF Rows, MayWrite
    <3> QED BY <1>1, <1>3, <2>1, <3>1 DEF ValidBlocker, Exists, MayWrite
  <2>3. ASSUME NEW u \in Tasks \ {t}, ts[u] # Absent
        PROVE  ValidBlocker(ts2, ts[u].blocker)
    <3>1. ts[u].blocker \in Tasks \cup {NoTask}
      BY <1>1, <2>3 DEF Table, Snapshot, Rows
    <3> QED BY <2>1, <2>3, <3>1 DEF LogInv, PointerInv
  <2> QED BY <1>3, <2>2, <2>3 DEF PointerInv, MayWrite
<1>6. Grows(e)
  <2> HIDE DEF e
  <2> QED BY <1>2 DEF Grows, MayWrite
<1>7. Added(lg, lg2) = {Len(lg) + 1}
  BY <1>1, <1>4 DEF Added
<1>8. \A i \in 1 .. Len(lg) : lg[i].task = t /\ ts[t] = Absent =>
        Precedes(lg[i], row) /\ op = "restored"
  BY DEF MayWrite
<1> HIDE DEF e, ts2
<1>9. Extends(r, ts, lg, ts2, lg2)
  BY <1>1, <1>2, <1>3, <1>4, <1>5, <1>6, <1>7, <1>8 DEF Extends, BlockedLogged, TypeInv
<1> QED BY <1>0, <1>2, <1>4, <1>7, <1>9 DEF ts2, OneAdded

\* SetToSeq lists every element of a finite set once.
LEMMA Listing ==
  ASSUME NEW S, IsFiniteSet(S)
  PROVE  /\ SetToSeq(S) \in Seq(S)
         /\ \A i, j \in 1 .. Len(SetToSeq(S)) :
              SetToSeq(S)[i] = SetToSeq(S)[j] => i = j
         /\ \A x \in S : \E i \in 1 .. Len(SetToSeq(S)) : SetToSeq(S)[i] = x
<1> DEFINE n == Cardinality(S)
           f == SetToSeq(S)
<1>1. n \in Nat /\ ExistsBijection(1 .. n, S)
  BY FS_CardinalityType
<1>2. \E g \in [1 .. n -> S] : IsInjective(g)
  BY <1>1 DEF ExistsBijection, Bijection, Injection
<1>3. f \in [1 .. n -> S] /\ IsInjective(f)
  BY <1>2 DEF SetToSeq
<1>4. IsFiniteSet(1 .. n) /\ Cardinality(1 .. n) = n
  BY <1>1, FS_Interval
<1>5. f \in Surjection(1 .. n, S)
  <2>1. f \in Injection(1 .. n, S)
    BY <1>3 DEF Injection
  <2> HIDE DEF f
  <2> QED BY <1>4, <2>1, FS_Injection
<1>6. f \in Seq(S) /\ Len(f) = n
  <2> HIDE DEF f, n
  <2>1. f \in Seq(S)
    BY <1>1, <1>3, SeqDef
  <2> QED BY <1>1, <1>3, <2>1, LenProperties
<1> HIDE DEF f, n
<1>7. /\ \A i, j \in 1 .. Len(f) : f[i] = f[j] => i = j
      /\ \A x \in S : \E i \in 1 .. Len(f) : f[i] = x
  BY <1>3, <1>5, <1>6 DEF IsInjective, Surjection
<1> QED BY <1>6, <1>7 DEF f

\* What a DELETE of S leaves of each row.
LEMMA AfterDelete ==
  ASSUME NEW ts \in Table, PointerInv(ts), NEW S \in SUBSET Tasks
  PROVE  /\ Deleted(ts, S) \in Table
         /\ PointerInv(Deleted(ts, S))
         /\ \A t \in S : Deleted(ts, S)[t] = Absent
         /\ \A t \in Tasks \ S : t \notin Referencers(ts, S) =>
              Deleted(ts, S)[t] = ts[t]
         /\ Referencers(ts, S) \subseteq Tasks \ S
         /\ \A t \in Referencers(ts, S) :
              /\ ts[t] \in Rows /\ ts[t].blocker \in S
              /\ Deleted(ts, S)[t] \in Rows
              /\ Deleted(ts, S)[t] = [ts[t] EXCEPT !.blocker = NoTask]
              /\ Deleted(ts, S)[t] # ts[t]
<1> DEFINE D == Deleted(ts, S)
<1>1. /\ DOMAIN D = Tasks
      /\ \A t \in S : D[t] = Absent
      /\ \A t \in Tasks \ S : t \notin Referencers(ts, S) => D[t] = ts[t]
      /\ \A t \in Referencers(ts, S) : D[t] = [ts[t] EXCEPT !.blocker = NoTask]
      /\ D = [t \in Tasks |-> D[t]]
  BY DEF Deleted, Referencers
<1>2. \A t \in Referencers(ts, S) : ts[t] \in Rows /\ ts[t].blocker \in S
  BY DEF Referencers, Table, Snapshot
<1>3. Referencers(ts, S) \subseteq Tasks \ S
  BY DEF Referencers
<1> HIDE DEF D
<1>4. \A t \in Referencers(ts, S) :
        D[t] \in Rows /\ D[t].blocker = NoTask /\ D[t] # ts[t]
  <2> TAKE t \in Referencers(ts, S)
  <2>1. D[t] = [ts[t] EXCEPT !.blocker = NoTask] /\ ts[t] \in Rows
        /\ ts[t].blocker # NoTask
    BY <1>1, <1>2, UndoAssumption
  <2> QED BY <2>1 DEF Rows
<1>5. \A t \in Tasks : D[t] \in Snapshot
  BY <1>1, <1>4 DEF Table, Snapshot
<1>6. D \in Table
  BY <1>1, <1>5 DEF Table
<1>7. PointerInv(D)
  <2> SUFFICES ASSUME NEW t \in Tasks, D[t] # Absent
               PROVE  ValidBlocker(D, D[t].blocker)
    BY DEF PointerInv
  <2>1. CASE t \in Referencers(ts, S)
    BY <1>4, <2>1 DEF ValidBlocker
  <2>2. CASE t \notin Referencers(ts, S)
    <3>1. t \notin S /\ D[t] = ts[t]
      BY <1>1, <2>2
    <3>2. ts[t] \in Rows /\ ts[t].blocker \notin S /\ ValidBlocker(ts, ts[t].blocker)
      BY <2>2, <3>1 DEF Referencers, PointerInv, Table, Snapshot
    <3>3. CASE ts[t].blocker = NoTask
      BY <3>1, <3>3 DEF ValidBlocker
    <3>4. CASE ts[t].blocker # NoTask
      <4> DEFINE b == ts[t].blocker
      <4>1. b \in Tasks \ S /\ ts[b] # Absent
        BY <3>2, <3>4 DEF ValidBlocker, Exists, Rows
      <4>2. D[b] # Absent
        BY <1>1, <1>4, <4>1, AbsentIsNoRow
      <4> QED BY <3>1, <3>4, <4>1, <4>2 DEF ValidBlocker, Exists
    <3> QED BY <3>3, <3>4
  <2> QED BY <2>1, <2>2
<1> QED BY <1>1, <1>2, <1>3, <1>4, <1>6, <1>7 DEF D

\* C logs the pointers a DELETE of S clears, once each.
CascadeOf(C, r, ts, S) ==
  /\ C \in Seq(Entry)
  /\ \A k \in 1 .. Len(C) :
       /\ C[k].run = r /\ C[k].op = "updated"
       /\ C[k].task \in Referencers(ts, S)
       /\ C[k].before = ts[C[k].task]
       /\ C[k].after = Deleted(ts, S)[C[k].task]
       /\ \A j \in 1 .. Len(C) : C[j].task = C[k].task => j = k
  /\ \A t \in Referencers(ts, S) : \E k \in 1 .. Len(C) : C[k].task = t

LEMMA CascadeLogged ==
  ASSUME NEW ts \in Table, PointerInv(ts), NEW S \in SUBSET Tasks, NEW r \in Runs
  PROVE  CascadeOf(CascadeEvents(r, ts, S), r, ts, S)
<1> DEFINE R == Referencers(ts, S)
           D == Deleted(ts, S)
           c == SetToSeq(R)
           C == CascadeEvents(r, ts, S)
<1>1. /\ R \subseteq Tasks
      /\ \A t \in R : ts[t] \in Snapshot /\ D[t] \in Snapshot /\ D[t] # ts[t]
  <2>1. R \subseteq Tasks /\ D \in Table
    BY AfterDelete DEF Referencers
  <2>2. \A t \in R :
          /\ ts[t] \in Rows /\ ts[t].blocker \in S /\ D[t] \in Rows
          /\ D[t] = [ts[t] EXCEPT !.blocker = NoTask] /\ D[t] # ts[t]
    BY AfterDelete
  <2> QED BY <2>1, <2>2 DEF Table
<1>2. IsFiniteSet(R)
  BY <1>1, UndoAssumption, FS_Subset
<1>3. /\ c \in Seq(R)
      /\ \A i, j \in 1 .. Len(c) : c[i] = c[j] => i = j
      /\ \A x \in R : \E i \in 1 .. Len(c) : c[i] = x
  <2> HIDE DEF R
  <2> QED BY <1>2, Listing
<1>4. Len(c) \in Nat /\ \A i \in 1 .. Len(c) : c[i] \in R
  <2> HIDE DEF c, R
  <2> QED BY <1>3, LenProperties, ElementOfSeq
<1>5. C = [i \in 1 .. Len(c) |-> Event(r, c[i], "updated", ts[c[i]], D[c[i]])]
  BY DEF CascadeEvents
<1> HIDE DEF c, R, D, C
<1>6. ASSUME NEW i \in 1 .. Len(c)
      PROVE  /\ C[i] \in Entry
             /\ C[i].run = r /\ C[i].task = c[i] /\ C[i].op = "updated"
             /\ C[i].before = ts[c[i]] /\ C[i].after = D[c[i]]
  <2>1. C[i] = Event(r, c[i], "updated", ts[c[i]], D[c[i]])
    BY <1>5
  <2>2. /\ c[i] \in Tasks /\ ts[c[i]] \in Snapshot
        /\ D[c[i]] \in Snapshot /\ ts[c[i]] # D[c[i]]
    BY <1>1, <1>4
  <2>3. "updated" \in Operations
    BY DEF Operations
  <2> QED BY <2>1, <2>2, <2>3, EventIsEntry
<1>7. C \in Seq(Entry) /\ Len(C) = Len(c)
  <2>1. C \in [1 .. Len(c) -> Entry]
    BY <1>5, <1>6
  <2>2. C \in Seq(Entry)
    BY <1>4, <2>1, SeqDef
  <2> QED BY <1>4, <2>1, <2>2, LenProperties
<1>8. ASSUME NEW k \in 1 .. Len(C)
      PROVE  /\ C[k].run = r /\ C[k].op = "updated" /\ C[k].task \in R
             /\ C[k].before = ts[C[k].task] /\ C[k].after = D[C[k].task]
             /\ \A j \in 1 .. Len(C) : C[j].task = C[k].task => j = k
  <2>1. k \in 1 .. Len(c) /\ C[k].task = c[k]
    BY <1>6, <1>7
  <2>2. \A j \in 1 .. Len(C) : C[j].task = c[j]
    BY <1>6, <1>7
  <2>3. \A j \in 1 .. Len(C) : C[j].task = C[k].task => j = k
    BY <1>3, <1>7, <2>1, <2>2
  <2> QED BY <1>4, <1>6, <2>1, <2>3
<1>9. ASSUME NEW t \in R PROVE \E k \in 1 .. Len(C) : C[k].task = t
  <2>1. PICK i \in 1 .. Len(c) : c[i] = t
    BY <1>3
  <2> QED BY <1>6, <1>7, <2>1
<1> QED BY <1>7, <1>8, <1>9 DEF R, D, C, CascadeOf

\* The elements of three sequences joined.
LEMMA Joined ==
  ASSUME NEW S, NEW a \in Seq(S), NEW b \in Seq(S), NEW c \in Seq(S),
         NEW w, w = a \o b \o c
  PROVE  /\ w \in Seq(S)
         /\ Len(a) \in Nat /\ Len(b) \in Nat /\ Len(c) \in Nat
         /\ Len(w) = Len(a) + Len(b) + Len(c)
         /\ \A i \in 1 .. Len(a) : w[i] = a[i]
         /\ \A i \in 1 .. Len(b) : w[Len(a) + i] = b[i]
         /\ \A i \in 1 .. Len(c) : w[Len(a) + Len(b) + i] = c[i]
<1>1. Len(a) \in Nat /\ Len(b) \in Nat /\ Len(c) \in Nat
  BY LenProperties
<1>2. PICK v : v = a \o b
  OBVIOUS
<1>3. w = v \o c
  BY <1>2
<1>4. /\ v \in Seq(S) /\ Len(v) = Len(a) + Len(b)
      /\ \A i \in 1 .. Len(a) + Len(b) :
           v[i] = IF i <= Len(a) THEN a[i] ELSE b[i - Len(a)]
  BY <1>2, ConcatProperties
<1>5. /\ w \in Seq(S) /\ Len(w) = Len(v) + Len(c)
      /\ \A i \in 1 .. Len(v) + Len(c) :
           w[i] = IF i <= Len(v) THEN v[i] ELSE c[i - Len(v)]
  BY <1>2, <1>3, ConcatProperties
<1>6. ASSUME NEW i \in 1 .. Len(a) PROVE w[i] = a[i]
  BY <1>1, <1>4, <1>5
<1>7. ASSUME NEW i \in 1 .. Len(b) PROVE w[Len(a) + i] = b[i]
  BY <1>1, <1>4, <1>5
<1>8. ASSUME NEW i \in 1 .. Len(c) PROVE w[Len(a) + Len(b) + i] = c[i]
  BY <1>1, <1>4, <1>5
<1> QED BY <1>1, <1>4, <1>5, <1>6, <1>7, <1>8

\* tail logs the deletion of each row of S, once, as op.
DeletionsOf(tail, r, ts, S, op) ==
  /\ tail \in Seq(Entry)
  /\ \A k \in 1 .. Len(tail) :
       /\ tail[k].run = r /\ tail[k].task \in S /\ tail[k].op = op
       /\ tail[k].before = ts[tail[k].task] /\ tail[k].after = Absent
       /\ \A j \in 1 .. Len(tail) : tail[j].task = tail[k].task => j = k
  /\ \A t \in S : \E k \in 1 .. Len(tail) : tail[k].task = t
  /\ BlockersLast => \A k, j \in 1 .. Len(tail) :
       tail[k].before.blocker = tail[j].task => k =< j

RowsGone(ts, lg, r, S, op, lg2) ==
  /\ Extends(r, ts, lg, Deleted(ts, S), lg2)
  /\ \A k \in Added(lg, lg2) :
       \/ /\ lg2[k].op = "updated" /\ lg2[k].task \notin S
          /\ lg2[k].before # Absent /\ lg2[k].after # Absent
       \/ lg2[k].op = op /\ lg2[k].task \in S
  /\ \A t \in S : \E k \in Added(lg, lg2) : lg2[k].task = t /\ lg2[k].op = op

\* A DELETE of S, its cascade logged first, extends the log.
LEMMA RowsGo ==
  ASSUME NEW ts, NEW lg, LogInv(ts, lg), NEW r \in Runs,
         NEW S \in SUBSET Tasks, \A t \in S : ts[t] # Absent,
         NEW tail, NEW op, DeletionsOf(tail, r, ts, S, op)
  PROVE  RowsGone(ts, lg, r, S, op, lg \o CascadeEvents(r, ts, S) \o tail)
<1>0. PICK lg2 : lg2 = lg \o CascadeEvents(r, ts, S) \o tail
  OBVIOUS
<1> DEFINE D == Deleted(ts, S)
           R == Referencers(ts, S)
           C == CascadeEvents(r, ts, S)
<1>1. ts \in Table /\ lg \in Seq(Entry) /\ PointerInv(ts)
  BY DEF LogInv, TypeInv
<1>2. /\ D \in Table /\ PointerInv(D)
      /\ \A t \in S : D[t] = Absent
      /\ \A t \in Tasks \ S : t \notin R => D[t] = ts[t]
      /\ R \subseteq Tasks \ S
      /\ \A t \in R :
           /\ ts[t] \in Rows /\ ts[t].blocker \in S
           /\ D[t] \in Rows
           /\ D[t] = [ts[t] EXCEPT !.blocker = NoTask]
           /\ D[t] # ts[t]
  BY <1>1, AfterDelete
<1>3. /\ C \in Seq(Entry)
      /\ \A k \in 1 .. Len(C) :
           /\ C[k].run = r /\ C[k].op = "updated" /\ C[k].task \in R
           /\ C[k].before = ts[C[k].task] /\ C[k].after = D[C[k].task]
           /\ \A j \in 1 .. Len(C) : C[j].task = C[k].task => j = k
      /\ \A t \in R : \E k \in 1 .. Len(C) : C[k].task = t
  <2>1. CascadeOf(CascadeEvents(r, ts, S), r, ts, S)
    BY <1>1, CascadeLogged
  <2> QED BY <2>1 DEF CascadeOf
<1>4. /\ lg2 \in Seq(Entry)
      /\ Len(lg) \in Nat /\ Len(C) \in Nat /\ Len(tail) \in Nat
      /\ Len(lg2) = Len(lg) + Len(C) + Len(tail)
      /\ \A i \in 1 .. Len(lg) : lg2[i] = lg[i]
      /\ \A i \in 1 .. Len(C) : lg2[Len(lg) + i] = C[i]
      /\ \A i \in 1 .. Len(tail) : lg2[Len(lg) + Len(C) + i] = tail[i]
  <2>1. lg2 = lg \o C \o tail
    BY <1>0
  <2> HIDE DEF C
  <2>2. tail \in Seq(Entry)
    BY DEF DeletionsOf
  <2> QED BY <1>1, <1>3, <2>1, <2>2, Joined
<1> HIDE DEF D, C, R
<1> DEFINE Cleared(k) == k - Len(lg) \in 1 .. Len(C) /\ lg2[k] = C[k - Len(lg)]
           n == Len(lg) + Len(C)
           Direct(k) == k - n \in 1 .. Len(tail) /\ lg2[k] = tail[k - n]
<1>5. ASSUME NEW k \in Added(lg, lg2) PROVE Cleared(k) \/ Direct(k)
  <2>1. k \in Len(lg) + 1 .. Len(lg) + Len(C) + Len(tail)
    BY <1>4, <1>5 DEF Added
  <2>2. CASE k =< Len(lg) + Len(C)
    <3>1. k - Len(lg) \in 1 .. Len(C) /\ k = Len(lg) + (k - Len(lg))
      BY <1>4, <2>1, <2>2
    <3> QED BY <1>4, <3>1
  <2>3. CASE k > Len(lg) + Len(C)
    <3>1. k - n \in 1 .. Len(tail) /\ k = Len(lg) + Len(C) + (k - n)
      BY <1>4, <2>1, <2>3
    <3> QED BY <1>4, <3>1
  <2> QED BY <1>4, <2>1, <2>2, <2>3
<1>6. /\ \A k \in 1 .. Len(C) : Len(lg) + k \in Added(lg, lg2)
      /\ \A k \in 1 .. Len(tail) : Len(lg) + Len(C) + k \in Added(lg, lg2)
  BY <1>4 DEF Added
<1>7. ASSUME NEW k \in Added(lg, lg2), Cleared(k)
      PROVE  /\ lg2[k].run = r /\ lg2[k].before = ts[lg2[k].task]
             /\ lg2[k].after = D[lg2[k].task] /\ lg2[k].task \in R
             /\ lg2[k].op = "updated" /\ lg2[k].before \in Rows /\ Grows(lg2[k])
  <2>1. /\ lg2[k].run = r /\ lg2[k].before = ts[lg2[k].task]
        /\ lg2[k].after = D[lg2[k].task] /\ lg2[k].task \in R
        /\ lg2[k].op = "updated"
    BY <1>3, <1>7
  <2> QED BY <1>2, <2>1 DEF Grows
<1>8. ASSUME NEW k \in Added(lg, lg2), Direct(k)
      PROVE  /\ lg2[k].run = r /\ lg2[k].before = ts[lg2[k].task]
             /\ lg2[k].after = D[lg2[k].task] /\ lg2[k].task \in S
             /\ lg2[k].op = op /\ lg2[k].before \in Rows /\ Grows(lg2[k])
  <2>1. /\ lg2[k].run = r /\ lg2[k].before = ts[lg2[k].task]
        /\ lg2[k].after = Absent /\ lg2[k].task \in S
        /\ lg2[k].op = op
    BY <1>8 DEF DeletionsOf
  <2> QED BY <1>1, <1>2, <2>1 DEF Grows, Table, Snapshot
<1>9. ASSUME NEW k \in Added(lg, lg2), NEW j \in Added(lg, lg2),
             lg2[j].task = lg2[k].task
      PROVE  j = k
  <2>1. R \cap S = {}
    BY <1>2
  <2>2. j \in Int /\ k \in Int /\ n \in Int
    BY <1>4 DEF Added
  <2>3. CASE Cleared(k)
    <3>1. Cleared(j)
      BY <1>5, <1>7, <1>8, <1>9, <2>1, <2>3
    <3>2. C[j - Len(lg)].task = C[k - Len(lg)].task
      BY <1>9, <2>3, <3>1
    <3>3. j - Len(lg) = k - Len(lg)
      BY <1>3, <2>3, <3>1, <3>2
    <3> QED BY <1>4, <2>2, <3>3
  <2>4. CASE Direct(k)
    <3>1. Direct(j)
      BY <1>5, <1>7, <1>8, <1>9, <2>1, <2>4
    <3>2. tail[j - n].task = tail[k - n].task
      BY <1>9, <2>4, <3>1
    <3>3. j - n = k - n
      BY <2>4, <3>1, <3>2 DEF DeletionsOf
    <3> QED BY <2>2, <3>3
  <2> QED BY <1>5, <2>3, <2>4
<1>10. ASSUME NEW t \in Tasks, \A k \in Added(lg, lg2) : lg2[k].task # t
       PROVE  D[t] = ts[t]
  <2>1. ASSUME t \in S PROVE FALSE
    <3>1. PICK k \in 1 .. Len(tail) : tail[k].task = t
      BY <2>1 DEF DeletionsOf
    <3> QED BY <1>4, <1>6, <1>10, <3>1
  <2>2. ASSUME t \in R PROVE FALSE
    <3>1. PICK k \in 1 .. Len(C) : C[k].task = t
      BY <1>3, <2>2
    <3> QED BY <1>4, <1>6, <1>10, <3>1
  <2> QED BY <1>2, <2>1, <2>2
<1>11. \A k \in Added(lg, lg2) :
         /\ lg2[k].run = r /\ lg2[k].before = ts[lg2[k].task]
         /\ lg2[k].after = D[lg2[k].task] /\ Grows(lg2[k])
         /\ lg2[k].before # Absent
         /\ \A j \in Added(lg, lg2) : lg2[j].task = lg2[k].task => j = k
  <2> HIDE DEF Cleared, Direct
  <2> QED BY <1>5, <1>7, <1>8, <1>9, AbsentIsNoRow
<1>12. \A k \in Added(lg, lg2) : ~Creation(lg2[k])
  BY <1>11 DEF Creation
<1>13. Len(lg) =< Len(lg2)
  BY <1>4
<1>14. BlockedLogged(lg, lg2)
  <2> SUFFICES ASSUME BlockersLast, NEW k \in Added(lg, lg2),
                      NEW j \in Added(lg, lg2),
                      lg2[k].before.blocker = lg2[j].task, lg2[j].after = Absent
               PROVE  k =< j
    BY DEF BlockedLogged
  <2>1. j \in Int /\ k \in Int /\ n \in Int
    BY <1>4 DEF Added
  <2>2. Direct(j)
    BY <1>2, <1>5, <1>7, AbsentIsNoRow
  <2>3. CASE Cleared(k)
    BY <1>4, <2>1, <2>2, <2>3
  <2>4. CASE Direct(k)
    <3>1. k - n =< j - n
      BY <2>2, <2>4 DEF DeletionsOf
    <3> QED BY <2>1, <3>1
  <2> QED BY <1>5, <2>3, <2>4
<1>15. Extends(r, ts, lg, D, lg2)
  BY <1>2, <1>4, <1>10, <1>11, <1>12, <1>13, <1>14 DEF Extends, TypeInv
<1>16. \A k \in Added(lg, lg2) :
         \/ /\ lg2[k].op = "updated" /\ lg2[k].task \notin S
            /\ lg2[k].before # Absent /\ lg2[k].after # Absent
         \/ lg2[k].op = op /\ lg2[k].task \in S
  <2>1. R \cap S = {}
    BY <1>2
  <2>2. \A k \in Added(lg, lg2) : Cleared(k) => lg2[k].after \in Rows
    <3> HIDE DEF Cleared
    <3> QED BY <1>2, <1>7
  <2> HIDE DEF Cleared, Direct
  <2> QED BY <1>5, <1>7, <1>8, <2>1, <2>2, AbsentIsNoRow
<1>17. ASSUME NEW t \in S
       PROVE  \E k \in Added(lg, lg2) : lg2[k].task = t /\ lg2[k].op = op
  <2>1. PICK k \in 1 .. Len(tail) : tail[k].task = t /\ tail[k].op = op
    BY DEF DeletionsOf
  <2> QED BY <1>4, <1>6, <2>1
<1> QED BY <1>0, <1>15, <1>16, <1>17 DEF D, RowsGone

----------------------------------------------------------------------------
(* The mutations                                                           *)

\* A run that may still mutate was never compensated, and a row deleted by a
\* run that was never compensated is still gone: only its undo brings it back.
ActiveInv == active \subseteq Runs /\ \A r \in active : ~Compensated(r)
GoneInv == \A i \in 1 .. Len(log) :
  log[i].after = Absent /\ ~Compensated(log[i].run) =>
    \A j \in i + 1 .. Len(log) : log[j].task # log[i].task

AuditInv == LogInv(tasks, log) /\ ActiveInv /\ GoneInv

LEMMA InitAuditInv == Init => AuditInv
<1> SUFFICES ASSUME Init PROVE AuditInv
  OBVIOUS
<1>1. tasks \in Table /\ \A t \in Tasks : tasks[t] # Absent => tasks[t].blocker = NoTask
  BY DEF Init, Seeds, Table, Snapshot, Rows
<1>2. log \in Seq(Entry) /\ Len(log) = 0
  BY EmptySeq DEF Init
<1>3. LogInv(tasks, log)
  BY <1>1, <1>2 DEF LogInv, TypeInv, ChainInv, VersionInv, PointerInv,
     ValidBlocker, NamedInv, CreationInv, BlockerInv
<1>4. ActiveInv /\ GoneInv
  BY <1>2 DEF Init, ActiveInv, GoneInv, Compensated, Wave
<1> QED BY <1>3, <1>4 DEF AuditInv

\* Who was compensated, over positions.
LEMMA CompensatedIs ==
  ASSUME log \in Seq(Entry), NEW r
  PROVE  Compensated(r) <=>
           \E i \in 1 .. Len(log) : log[i].run = r /\ log[i].op = "restored"
<1>1. DOMAIN log = 1 .. Len(log)
  BY LenProperties
<1> QED BY <1>1 DEF Compensated, Wave

\* A mutation of a run that is not over keeps the invariant.
LEMMA MutationKeeps ==
  ASSUME AuditInv, NEW r \in active, active' = active,
         Extends(r, tasks, log, tasks', log'),
         \A k \in Added(log, log') : log'[k].op # "restored"
  PROVE  AuditInv'
<1>1. /\ log \in Seq(Entry) /\ log' \in Seq(Entry)
      /\ Len(log) \in Nat /\ Len(log') \in Nat /\ Len(log) =< Len(log')
      /\ \A i \in 1 .. Len(log) : log'[i] = log[i]
  BY LenProperties DEF AuditInv, LogInv, TypeInv, Extends
<1>2. LogInv(tasks, log)'
  BY LogKept DEF AuditInv
<1>3. \A q : Compensated(q)' <=> Compensated(q)
  <2> TAKE q
  <2>1. Compensated(q)' <=>
          \E i \in 1 .. Len(log') : log'[i].run = q /\ log'[i].op = "restored"
    <3>1. (DOMAIN log)' = 1 .. Len(log')
      BY <1>1, LenProperties
    <3> QED BY <3>1 DEF Compensated, Wave
  <2>2. \A i \in 1 .. Len(log') : i \in 1 .. Len(log) \/ i \in Added(log, log')
    BY <1>1 DEF Added
  <2> QED BY <1>1, <2>1, <2>2, CompensatedIs
<1>4. ActiveInv'
  BY <1>3 DEF AuditInv, ActiveInv
<1>5. GoneInv'
  <2> SUFFICES ASSUME NEW i \in 1 .. Len(log'), log'[i].after = Absent,
                      ~Compensated(log'[i].run), NEW j \in i + 1 .. Len(log'),
                      log'[j].task = log'[i].task
               PROVE  FALSE
    BY <1>3 DEF GoneInv
  <2>1. CASE i > Len(log)
    BY <1>1, <2>1 DEF Extends, Added
  <2>2. CASE j =< Len(log)
    BY <1>1, <2>2 DEF AuditInv, GoneInv
  <2>3. CASE i =< Len(log) /\ j > Len(log)
    <3>1. i \in 1 .. Len(log) /\ log'[i] = log[i]
      BY <1>1, <2>3
    <3>2. \A k \in i + 1 .. Len(log) : log[k].task # log[i].task
      BY <3>1 DEF AuditInv, GoneInv
    <3>3. tasks[log[i].task] = Absent
      BY <3>1, <3>2 DEF AuditInv, LogInv, ChainInv
    <3>4. j \in Added(log, log')
      BY <1>1, <2>3 DEF Added
    <3>5. log'[j].before = Absent
      BY <3>1, <3>3, <3>4 DEF Extends
    <3>6. log'[j].op = "restored"
      BY <3>1, <3>4, <3>5 DEF Extends
    <3> QED BY <3>4, <3>6
  <2> QED BY <1>1, <2>1, <2>2, <2>3
<1> QED BY <1>2, <1>4, <1>5 DEF AuditInv

\* create_task.
LEMMA CreateExtends ==
  ASSUME AuditInv, NEW r \in Runs, NEW t \in Tasks, NEW v \in Values,
         NEW b \in Tasks \cup {NoTask}, Create(r, t, v, b)
  PROVE  /\ Extends(r, tasks, log, tasks', log')
         /\ \A k \in Added(log, log') : log'[k].op = "created"
<1> DEFINE row == [value |-> v, blocker |-> b, version |-> 1]
<1>1. /\ tasks[t] = Absent /\ \A i \in 1 .. Len(log) : log[i].task # t
      /\ ValidBlocker(tasks, b) /\ tasks' = [tasks EXCEPT ![t] = row]
      /\ log' = Append(log, Event(r, t, "created", tasks[t], row))
  <2>1. DOMAIN log = 1 .. Len(log)
    BY LenProperties DEF AuditInv, LogInv, TypeInv
  <2> QED BY <2>1 DEF Create
<1>2. row \in Rows /\ row.blocker = b
  BY DEF Rows
<1>3. MayWrite(tasks, log, r, t, "created", row)
  BY <1>1, <1>2, AbsentIsNoRow DEF MayWrite, Operations
<1> HIDE DEF row
<1>4. OneAdded(tasks, log, r, t, "created", row, log')
  BY <1>1, <1>3, OneEvent DEF AuditInv
<1> QED BY <1>1, <1>4 DEF OneAdded

\* update_task, and each target of bulk_update_tasks.
LEMMA UpdateExtends ==
  ASSUME AuditInv, NEW r \in Runs, NEW t \in Tasks, NEW v \in Values,
         NEW b \in Tasks \cup {NoTask}, Update(r, t, v, b)
  PROVE  /\ Extends(r, tasks, log, tasks', log')
         /\ \A k \in Added(log, log') : log'[k].op = "updated"
<1> DEFINE row == [value |-> v, blocker |-> b, version |-> tasks[t].version + 1]
<1>1. /\ tasks[t] # Absent /\ ValidBlocker(tasks, b)
      /\ tasks' = [tasks EXCEPT ![t] = row]
      /\ log' = Append(log, Event(r, t, "updated", tasks[t], row))
  BY DEF Update, Exists
<1>2. tasks[t] \in Rows
  BY <1>1 DEF AuditInv, LogInv, TypeInv, Table, Snapshot
<1>3. row \in Rows /\ row.blocker = b /\ row.version > tasks[t].version
  BY <1>2 DEF Rows
<1>4. MayWrite(tasks, log, r, t, "updated", row)
  <2> HIDE DEF row
  <2> QED BY <1>1, <1>2, <1>3 DEF MayWrite, Operations, Rows
<1> HIDE DEF row
<1>5. OneAdded(tasks, log, r, t, "updated", row, log')
  BY <1>1, <1>4, OneEvent DEF AuditInv
<1> QED BY <1>1, <1>5 DEF OneAdded

\* delete_tasks: the deletions of the targets, in request order.
LEMMA DeletionsLogged ==
  ASSUME tasks \in Table, NEW r \in Runs, NEW targets \in Requests,
         \A t \in Range(targets) : Exists(tasks, t),
         BlockersLast => BlockedFirst(targets)
  PROVE  /\ Range(targets) \in SUBSET Tasks
         /\ DeletionsOf(DeletedEvents(r, tasks, targets), r, tasks,
                        Range(targets), "deleted")
<1> DEFINE n == Len(targets)
           S == Range(targets)
           e == DeletedEvents(r, tasks, targets)
<1>1. /\ targets \in Seq(Tasks) /\ n \in Nat /\ S = {targets[i] : i \in 1 .. n}
      /\ \A i, j \in 1 .. n : targets[i] = targets[j] => i = j
  <2>1. CASE \E t \in Tasks : targets = <<t>>
    BY <2>1 DEF Range
  <2>2. CASE targets \in Tasks \X Tasks /\ targets[1] # targets[2]
    <3>1. PICK t \in Tasks, u \in Tasks : targets = <<t, u>>
      BY <2>2
    <3> QED BY <2>2, <3>1 DEF Range
  <2> QED BY <2>1, <2>2 DEF Requests
<1>2. \A i \in 1 .. n : targets[i] \in Tasks /\ tasks[targets[i]] \in Rows
  <2>1. \A i \in 1 .. n : targets[i] \in S
    BY <1>1
  <2> QED BY <1>1, <2>1 DEF Exists, Table, Snapshot
<1>3. e = [i \in 1 .. n |->
             Event(r, targets[i], "deleted", tasks[targets[i]], Absent)]
  BY DEF DeletedEvents
<1> HIDE DEF n, S, e
<1>4. ASSUME NEW i \in 1 .. n
      PROVE  /\ e[i] \in Entry
             /\ e[i].run = r /\ e[i].task = targets[i] /\ e[i].op = "deleted"
             /\ e[i].before = tasks[targets[i]] /\ e[i].after = Absent
  <2>1. e[i] = Event(r, targets[i], "deleted", tasks[targets[i]], Absent)
    BY <1>3
  <2>2. /\ targets[i] \in Tasks /\ tasks[targets[i]] \in Snapshot
        /\ Absent \in Snapshot /\ tasks[targets[i]] # Absent
    BY <1>2, AbsentIsNoRow DEF Snapshot
  <2>3. "deleted" \in Operations
    BY DEF Operations
  <2> QED BY <2>1, <2>2, <2>3, EventIsEntry
<1>5. e \in Seq(Entry) /\ Len(e) = n
  <2>1. e \in [1 .. n -> Entry]
    BY <1>3, <1>4
  <2>2. e \in Seq(Entry)
    BY <1>1, <2>1, SeqDef
  <2> QED BY <1>1, <2>1, <2>2, LenProperties
<1>6. S \in SUBSET Tasks
  BY <1>1, <1>2
<1>7. ASSUME NEW k \in 1 .. n
      PROVE  /\ e[k].run = r /\ e[k].task \in S /\ e[k].op = "deleted"
             /\ e[k].before = tasks[e[k].task] /\ e[k].after = Absent
             /\ \A j \in 1 .. n : e[j].task = e[k].task => j = k
  BY <1>1, <1>4, <1>7
<1>8. ASSUME NEW t \in S PROVE \E k \in 1 .. n : e[k].task = t
  BY <1>1, <1>4, <1>8
<1>9. ASSUME BlockersLast, NEW k \in 1 .. n, NEW j \in 1 .. n,
             e[k].before.blocker = e[j].task
      PROVE  k =< j
  BY <1>4, <1>9 DEF BlockedFirst, n
<1>10. DeletionsOf(e, r, tasks, S, "deleted")
  BY <1>5, <1>7, <1>8, <1>9 DEF DeletionsOf
<1> QED BY <1>6, <1>10 DEF S, e

LEMMA DeleteExtends ==
  ASSUME AuditInv, NEW r \in Runs, NEW targets \in Requests, Delete(r, targets)
  PROVE  /\ Extends(r, tasks, log, tasks', log')
         /\ \A k \in Added(log, log') : log'[k].op \in {"updated", "deleted"}
<1> DEFINE S == Range(targets)
           tail == DeletedEvents(r, tasks, targets)
<1>1. /\ \A t \in S : Exists(tasks, t)
      /\ BlockersLast => BlockedFirst(targets)
      /\ tasks' = Deleted(tasks, S)
      /\ log' = log \o CascadeEvents(r, tasks, S) \o tail
  BY DEF Delete
<1>2. tasks \in Table /\ LogInv(tasks, log)
  BY DEF AuditInv, LogInv, TypeInv
<1>3. S \in SUBSET Tasks /\ DeletionsOf(tail, r, tasks, S, "deleted")
  BY <1>1, <1>2, DeletionsLogged
<1> HIDE DEF S, tail
<1>4. \A t \in S : tasks[t] # Absent
  BY <1>1 DEF Exists
<1>5. RowsGone(tasks, log, r, S, "deleted", log')
  BY <1>1, <1>2, <1>3, <1>4, RowsGo
<1> QED BY <1>1, <1>5 DEF RowsGone

----------------------------------------------------------------------------
(* One compensation                                                        *)

\* Refusals are reasons, never "none".
Tx == [tasks : Table, log : Seq(Entry), refused : {"none"} \cup Refusals]

Removes(r, s, e, s2) ==
  /\ e.before = Absent /\ s.tasks[e.task] # Absent
  /\ s2 = RemoveRow(r, s, e.task)

Puts(r, s, e, s2) ==
  /\ e.before # Absent /\ ~Dangling(s, e)
  /\ \/ /\ s.tasks[e.task] = Absent /\ e.after = Absent
        /\ s2 = PutRow(r, s, e, e.before.version + 1)
     \/ /\ s.tasks[e.task] # Absent
        /\ s2 = PutRow(r, s, e, s.tasks[e.task].version + 1)

\* A compensation refuses, or removes the row of an undone creation, or puts
\* the row of another event back.
LEMMA CompensateIs ==
  ASSUME NEW r, NEW s \in Tx, NEW e \in Entry, s.refused = "none"
  PROVE  \/ /\ Compensate(r, s, e) \in Tx
            /\ Compensate(r, s, e).refused # "none"
         \/ Removes(r, s, e, Compensate(r, s, e))
         \/ Puts(r, s, e, Compensate(r, s, e))
<1> DEFINE row == s.tasks[e.task]
           s2 == Compensate(r, s, e)
<1>1. ASSUME NEW reason \in Refusals
      PROVE  Refuse(s, reason) \in Tx /\ Refuse(s, reason).refused # "none"
  BY <1>1 DEF Refuse, Tx, Refusals
<1>2. {"VERSION_CONFLICT", "ROW_RECREATED", "ROW_DISAPPEARED"} \subseteq Refusals
  BY DEF Refusals
<1>3. CASE e.before = Absent
  <2>1. s2 = IF row = Absent THEN Refuse(s, "VERSION_CONFLICT")
             ELSE RemoveRow(r, s, e.task)
    BY <1>3 DEF Compensate
  <2> QED BY <1>1, <1>2, <1>3, <2>1 DEF Removes
<1>4. CASE e.before # Absent /\ e.after = Absent
  <2>1. s2 = IF row # Absent THEN Refuse(s, "ROW_RECREATED")
             ELSE IF Dangling(s, e) THEN Refuse(s, "ROW_DISAPPEARED")
                  ELSE PutRow(r, s, e, e.before.version + 1)
    BY <1>4 DEF Compensate
  <2> QED BY <1>1, <1>2, <1>4, <2>1 DEF Puts
<1>5. CASE e.before # Absent /\ e.after # Absent
  <2>1. s2 = IF row = Absent THEN Refuse(s, "VERSION_CONFLICT")
             ELSE IF Dangling(s, e) THEN Refuse(s, "ROW_DISAPPEARED")
                  ELSE PutRow(r, s, e, row.version + 1)
    BY <1>5 DEF Compensate
  <2> QED BY <1>1, <1>2, <1>5, <2>1 DEF Puts
<1> QED BY <1>3, <1>4, <1>5

\* What the events of one compensation of task t are.
Compensates(r, s, t, s2) ==
  /\ s2 \in Tx /\ s2.refused = "none"
  /\ Extends(r, s.tasks, s.log, s2.tasks, s2.log)
  /\ \A k \in Added(s.log, s2.log) :
       \/ s2.log[k].op = "restored" /\ s2.log[k].task = t
       \/ /\ s2.log[k].op = "updated" /\ s2.log[k].task # t
          /\ s2.log[k].before # Absent /\ s2.log[k].after # Absent
  /\ \E k \in Added(s.log, s2.log) : s2.log[k].op = "restored"

LEMMA RemovalCompensates ==
  ASSUME NEW r \in Runs, NEW s \in Tx, NEW e \in Entry, NEW s2,
         s.refused = "none", LogInv(s.tasks, s.log), Removes(r, s, e, s2)
  PROVE  /\ Compensates(r, s, e.task, s2)
         /\ s2.tasks = Deleted(s.tasks, {e.task})
<1> DEFINE t == e.task
           event == Event(r, t, "restored", s.tasks[t], Absent)
           tail == <<event>>
<1>1. t \in Tasks /\ s.tasks[t] \in Snapshot /\ s.tasks[t] # Absent
      /\ Absent \in Snapshot /\ "restored" \in Operations
  BY DEF Removes, Tx, Table, Entry, Snapshot, Operations
<1>2. /\ event \in Entry /\ event.run = r /\ event.task = t
      /\ event.op = "restored" /\ event.before = s.tasks[t]
      /\ event.after = Absent
  BY <1>1, EventIsEntry
<1>3. DeletionsOf(tail, r, s.tasks, {t}, "restored")
  <2> HIDE DEF event, t
  <2>1. tail \in Seq(Entry) /\ Len(tail) = 1 /\ tail[1] = event
    BY <1>2
  <2> QED BY <1>2, <2>1 DEF DeletionsOf
<1>4. s2 = [s EXCEPT !.tasks = Deleted(s.tasks, {t}),
                     !.log = s.log \o CascadeEvents(r, s.tasks, {t}) \o tail]
  BY DEF Removes, RemoveRow
<1> HIDE DEF tail, t
<1>5. /\ s2.tasks = Deleted(s.tasks, {t}) /\ s2.refused = "none"
      /\ s2.log = s.log \o CascadeEvents(r, s.tasks, {t}) \o tail
      /\ s2 = [tasks |-> s2.tasks, log |-> s2.log, refused |-> s2.refused]
  BY <1>4 DEF Tx
<1>6. {t} \in SUBSET Tasks /\ \A u \in {t} : s.tasks[u] # Absent
  BY <1>1
<1>7. RowsGone(s.tasks, s.log, r, {t}, "restored", s2.log)
  BY <1>3, <1>5, <1>6, RowsGo
<1>8. s2 \in Tx
  <2>1. s2.tasks \in Table /\ s2.log \in Seq(Entry)
    BY <1>5, <1>7 DEF RowsGone, Extends, TypeInv
  <2> QED BY <1>5, <2>1 DEF Tx
<1> QED BY <1>5, <1>7, <1>8 DEF RowsGone, Compensates, t

\* The snapshot a gone row is restored from carries its latest version.
IsLatest(s, e) == s.tasks[e.task] = Absent /\ e.after = Absent =>
  \A i \in 1 .. Len(s.log) :
    s.log[i].task = e.task /\ s.log[i].before # Absent =>
      s.log[i].before.version =< e.before.version

PutBack(s, e, s2) == \E version \in Nat \ {0} :
  /\ s2.tasks = [s.tasks EXCEPT ![e.task] = [e.before EXCEPT !.version = version]]
  /\ s.tasks[e.task] # Absent => version > s.tasks[e.task].version
  /\ s.tasks[e.task] = Absent =>
       e.after = Absent /\ version = e.before.version + 1

LEMMA PutCompensates ==
  ASSUME NEW r \in Runs, NEW s \in Tx, NEW e \in Entry, NEW s2,
         s.refused = "none", LogInv(s.tasks, s.log), IsLatest(s, e),
         Puts(r, s, e, s2)
  PROVE  /\ Compensates(r, s, e.task, s2)
         /\ PutBack(s, e, s2)
<1> DEFINE t == e.task
<1>1. t \in Tasks /\ s.tasks[t] \in Snapshot /\ e.before \in Rows
  BY DEF Puts, Tx, Table, Entry, Snapshot
<1>2. PICK version \in Nat \ {0} :
        /\ \/ /\ s.tasks[t] = Absent /\ e.after = Absent
              /\ version = e.before.version + 1
           \/ s.tasks[t] # Absent /\ version = s.tasks[t].version + 1
        /\ s2 = PutRow(r, s, e, version)
  BY <1>1 DEF Puts, Snapshot, Rows
<1> DEFINE new == [e.before EXCEPT !.version = version]
<1>3. /\ new \in Rows /\ new.version = version /\ new.blocker = e.before.blocker
      /\ new # Absent
  BY <1>1, AbsentIsNoRow DEF Rows
<1>4. s2 = [s EXCEPT !.tasks = [s.tasks EXCEPT ![t] = new],
                     !.log = Append(s.log, Event(r, t, "restored",
                                                 s.tasks[t], new))]
  BY <1>2 DEF PutRow
<1> HIDE DEF t, new
<1>5. /\ s2.tasks = [s.tasks EXCEPT ![t] = new] /\ s2.refused = "none"
      /\ s2.log = Append(s.log, Event(r, t, "restored", s.tasks[t], new))
      /\ s2 = [tasks |-> s2.tasks, log |-> s2.log, refused |-> s2.refused]
  BY <1>4 DEF Tx
<1>6. s.tasks[t] # Absent => s.tasks[t] \in Rows /\ version > s.tasks[t].version
  BY <1>1, <1>2 DEF Snapshot, Rows
<1>7. ASSUME s.tasks[t] = Absent, NEW i \in 1 .. Len(s.log), s.log[i].task = t
      PROVE  Precedes(s.log[i], new)
  <2>1. s.log[i] \in Entry
    BY ElementOfSeq DEF Tx
  <2>2. s.log[i].before # Absent => s.log[i].before \in Rows
    BY <2>1 DEF Entry, Snapshot
  <2>3. s.log[i].before # Absent => s.log[i].before.version =< e.before.version
    BY <1>2, <1>7 DEF IsLatest, t
  <2>4. version = e.before.version + 1
    BY <1>2, <1>7
  <2> QED BY <1>1, <1>3, <2>2, <2>3, <2>4 DEF Precedes, Rows
<1>8. MayWrite(s.tasks, s.log, r, t, "restored", new)
  <2>1. new # s.tasks[t]
    BY <1>3, <1>6 DEF Rows
  <2>2. new.blocker = t \/ ValidBlocker(s.tasks, new.blocker)
    BY <1>3 DEF Puts, Dangling, t
  <2>3. "restored" \in Operations
    BY DEF Operations
  <2> QED BY <1>1, <1>3, <1>6, <1>7, <2>1, <2>2, <2>3 DEF MayWrite
<1>9. OneAdded(s.tasks, s.log, r, t, "restored", new, s2.log)
  BY <1>5, <1>8, OneEvent
<1>10. s2 \in Tx
  <2>1. s2.tasks \in Table /\ s2.log \in Seq(Entry)
    BY <1>5, <1>9 DEF OneAdded, Extends, TypeInv
  <2> QED BY <1>5, <2>1 DEF Tx
<1>11. Compensates(r, s, t, s2)
  BY <1>5, <1>9, <1>10 DEF OneAdded, Compensates
<1>12. \E v \in Nat \ {0} :
         /\ s2.tasks = [s.tasks EXCEPT ![t] = [e.before EXCEPT !.version = v]]
         /\ s.tasks[t] # Absent => v > s.tasks[t].version
         /\ s.tasks[t] = Absent => e.after = Absent /\ v = e.before.version + 1
  <2> WITNESS version \in Nat \ {0}
  <2> QED BY <1>2, <1>5, <1>6 DEF new
<1> QED BY <1>11, <1>12 DEF PutBack, t

----------------------------------------------------------------------------
(* The walk of _apply over the log                                         *)

Start == [tasks |-> tasks, log |-> log, refused |-> "none"]

\* The recursive function is well defined: its equations hold.
LEMMA AppliedSteps ==
  ASSUME log \in Seq(Entry), NEW r
  PROVE  /\ Applied(r)[0] = Start
         /\ \A k \in 1 .. Len(log) :
              Applied(r)[k] =
                IF Len(log) - k + 1 \in Wave(r)
                  THEN Compensate(r, Applied(r)[k - 1], log[Len(log) - k + 1])
                  ELSE Applied(r)[k - 1]
<1> DEFINE N == Len(log)
           Rhs(g, k) == IF k = 0 THEN Start
                        ELSE IF N - k + 1 \in Wave(r)
                               THEN Compensate(r, g[k - 1], log[N - k + 1])
                               ELSE g[k - 1]
           Good == {n \in 0 .. N : \E g : \A k \in 0 .. n : g[k] = Rhs(g, k)}
<1>1. N \in Nat
  BY LenProperties
<1>2. 0 \in Good
  <2>1. \E g : g[0] = Start
    <3>1. [k \in {0} |-> Start][0] = Start
      OBVIOUS
    <3> QED BY <3>1
  <2> QED BY <1>1, <2>1
<1>3. ASSUME NEW n \in 1 .. N, n - 1 \in Good PROVE n \in Good
  <2>1. PICK g : \A k \in 0 .. n - 1 : g[k] = Rhs(g, k)
    BY <1>3
  <2> DEFINE h == [k \in 0 .. n |-> IF k = n THEN Rhs(g, n) ELSE g[k]]
  <2>2. ASSUME NEW k \in 0 .. n PROVE h[k] = Rhs(h, k)
    <3>1. CASE k = n
      <4>1. h[n] = Rhs(g, n) /\ h[n - 1] = g[n - 1]
        BY <1>1
      <4> HIDE DEF h
      <4> QED BY <3>1, <4>1
    <3>2. CASE k # n
      <4>1. h[k] = g[k] /\ g[k] = Rhs(g, k)
        BY <2>1, <3>2
      <4>2. k # 0 => h[k - 1] = g[k - 1]
        BY <1>1
      <4> HIDE DEF h
      <4> QED BY <4>1, <4>2
    <3> QED BY <3>1, <3>2
  <2> HIDE DEF h, Rhs
  <2> QED BY <2>2
<1>4. 0 .. N \subseteq Good
  <2> HIDE DEF Good, N
  <2> QED BY <1>1, <1>2, <1>3, UpTo
<1>5. PICK g : \A k \in 0 .. N : g[k] = Rhs(g, k)
  <2>1. N \in Good
    <3> HIDE DEF Good, N
    <3> QED BY <1>1, <1>4
  <2> HIDE DEF Rhs
  <2> QED BY <2>1
<1> DEFINE f == [k \in 0 .. N |-> g[k]]
<1>6. ASSUME NEW k \in 0 .. N PROVE f[k] = Rhs(f, k)
  <2>1. f[k] = g[k] /\ (k # 0 => f[k - 1] = g[k - 1])
    BY <1>1
  <2> HIDE DEF f
  <2> QED BY <1>5, <2>1
<1>7. f = [k \in 0 .. N |-> Rhs(f, k)]
  <2>1. f = [k \in 0 .. N |-> f[k]]
    OBVIOUS
  <2> HIDE DEF f, Rhs
  <2> QED BY <1>6, <2>1
<1>8. \E h : h = [k \in 0 .. N |-> Rhs(h, k)]
  <2> HIDE DEF f, Rhs
  <2> QED BY <1>7
<1>9. Applied(r) = CHOOSE h : h = [k \in 0 .. N |-> Rhs(h, k)]
  BY DEF Applied, Start
<1> DEFINE a == Applied(r)
<1>10. a = [k \in 0 .. N |-> Rhs(a, k)]
  <2> HIDE DEF Rhs
  <2> QED BY <1>8, <1>9
<1> HIDE DEF a
<1>11. \A k \in 0 .. N : a[k] = Rhs(a, k)
  <2> HIDE DEF Rhs
  <2> QED BY <1>10
<1> QED BY <1>1, <1>11 DEF a

----------------------------------------------------------------------------
(* What the walk has done at event n: the later events of run r are undone *)

Undone(r, n) == {i \in n + 1 .. Len(log) : log[i].run = r}
UndoneOn(r, n, t) == {i \in Undone(r, n) : log[i].task = t}

\* The tasks whose creation is undone, and the row each task should have.
Uncreated(r, n) ==
  {log[i].task : i \in {j \in Undone(r, n) : log[j].before = Absent}}
Former(r, n, t) == IF UndoneOn(r, n, t) = {} THEN tasks[t]
                   ELSE log[Min(UndoneOn(r, n, t))].before

\* Row is what is left of the fields of former when the rows of S are gone.
SameFields(row, former, S) ==
  /\ row = Absent <=> former = Absent
  /\ row # Absent =>
       /\ row.value = former.value
       /\ row.blocker = IF former.blocker \in S THEN NoTask ELSE former.blocker

\* The transaction continues the log with compensations of r alone.
Continues(r, n, s) ==
  /\ LogInv(s.tasks, s.log)
  /\ Len(log) =< Len(s.log) /\ \A i \in 1 .. Len(log) : s.log[i] = log[i]
  /\ \A k \in Added(log, s.log) :
       /\ s.log[k].run = r
       /\ \/ s.log[k].op = "restored"
          \/ /\ s.log[k].op = "updated"
             /\ s.log[k].before # Absent /\ s.log[k].after # Absent
  /\ Undone(r, n) # {} => \E k \in Added(log, s.log) : s.log[k].op = "restored"

\* A row that is gone comes back only where an event on it is undone.
StaysGone(r, n, s) ==
  \A t \in Tasks : UndoneOn(r, n, t) = {} /\ tasks[t] = Absent =>
    /\ s.tasks[t] = Absent
    /\ \A k \in Added(log, s.log) : s.log[k].task # t

Inverted(r, n, s) ==
  /\ \A t \in Uncreated(r, n) : s.tasks[t] = Absent
  /\ \A t \in Tasks :
       SameFields(s.tasks[t], Former(r, n, t), Uncreated(r, n))

\* What became of the version of a row that stood, and of one that was gone.
NewVersion(row, next, S) ==
  \/ next = Absent
  \/ next # Absent /\ next.version > row.version
  \/ next = row
  \/ next = [row EXCEPT !.blocker = NoTask] /\ row.blocker \in S

Versioned(r, n, s) == \A t \in Tasks :
  /\ tasks[t] # Absent =>
       /\ NewVersion(tasks[t], s.tasks[t], Uncreated(r, n))
       /\ s.tasks[t] = Absent => t \in Uncreated(r, n)
  /\ tasks[t] = Absent /\ s.tasks[t] # Absent =>
       \A i \in 1 .. Len(log) : log[i].task = t /\ log[i].before # Absent =>
         s.tasks[t].version > log[i].before.version

Walk(r, n, s) == /\ s \in Tx
                 /\ s.refused = "none" => /\ Continues(r, n, s)
                                          /\ StaysGone(r, n, s)
                                          /\ Inverted(r, n, s)
                                          /\ Versioned(r, n, s)

\* How the sets of the walk grow when it undoes event n of the run.  Nothing
\* before a creation knows the task it creates.
OneMore(r, n) ==
  /\ \A t \in Tasks \ {log[n].task} :
       /\ UndoneOn(r, n - 1, t) = UndoneOn(r, n, t)
       /\ Former(r, n - 1, t) = Former(r, n, t)
  /\ UndoneOn(r, n - 1, log[n].task) # {}
  /\ Former(r, n - 1, log[n].task) = log[n].before
  /\ Uncreated(r, n - 1) =
       Uncreated(r, n) \cup (IF log[n].before = Absent THEN {log[n].task} ELSE {})
  /\ log[n].task \notin Uncreated(r, n)
  /\ log[n].before # Absent => log[n].before.blocker \notin Uncreated(r, n)
  /\ Uncreated(r, n) \subseteq Tasks

LEMMA WalkGrows ==
  ASSUME AuditInv, NEW r \in Runs, ~Compensated(r), NEW n \in 1 .. Len(log),
         log[n].run = r
  PROVE  OneMore(r, n)
<1> DEFINE u == log[n].task
<1>1. /\ log \in Seq(Entry) /\ Len(log) \in Nat
      /\ \A i \in 1 .. Len(log) : log[i] \in Entry
  BY LenProperties, ElementOfSeq DEF AuditInv, LogInv, TypeInv
<1>2. Undone(r, n - 1) = Undone(r, n) \cup {n} /\ n \notin Undone(r, n)
  BY <1>1 DEF Undone
<1>3. \A t : UndoneOn(r, n - 1, t) =
               IF t = u THEN UndoneOn(r, n, t) \cup {n} ELSE UndoneOn(r, n, t)
  BY <1>2 DEF UndoneOn
<1>4. \A t \in Tasks \ {u} : Former(r, n - 1, t) = Former(r, n, t)
  BY <1>3 DEF Former
<1>5. Former(r, n - 1, u) = log[n].before
  <2> DEFINE S == UndoneOn(r, n - 1, u)
  <2>1. S \in SUBSET (0 .. Len(log)) /\ n \in S /\ \A i \in S : n =< i
    BY <1>1 DEF UndoneOn, Undone
  <2>2. Min(S) \in S /\ \A y \in S : Min(S) =< y
    <3> HIDE DEF S
    <3> QED BY <1>1, <2>1, MinIsIn
  <2>3. Min(S) = n
    <3> HIDE DEF S
    <3>1. PICK m : m = Min(S)
      OBVIOUS
    <3>2. m \in S /\ m =< n /\ n =< m
      BY <2>1, <2>2, <3>1
    <3>3. m \in Nat /\ n \in Nat
      BY <1>1, <2>1, <3>2
    <3> QED BY <3>1, <3>2, <3>3
  <2> QED BY <2>1, <2>3 DEF Former
<1>6. Uncreated(r, n - 1) =
        Uncreated(r, n) \cup (IF log[n].before = Absent THEN {u} ELSE {})
  <2> DEFINE A(m) == {j \in Undone(r, m) : log[j].before = Absent}
  <2>1. A(n - 1) = A(n) \cup (IF log[n].before = Absent THEN {n} ELSE {})
    BY <1>2
  <2> QED BY <2>1 DEF Uncreated
<1>7. ASSUME NEW j \in Undone(r, n), log[j].before = Absent
      PROVE  /\ log[j].task # u
             /\ log[n].before # Absent => log[n].before.blocker # log[j].task
  <2>1. j \in 1 .. Len(log) /\ n \in 1 .. j - 1 /\ log[j].run = r
    BY <1>1 DEF Undone
  <2>2. log[j].op # "restored"
    BY <1>1, <2>1, CompensatedIs
  <2>3. Creation(log[j])
    BY <1>7, <2>2 DEF Creation
  <2> QED BY <2>1, <2>3 DEF AuditInv, LogInv, CreationInv
<1>8. /\ u \notin Uncreated(r, n)
      /\ log[n].before # Absent => log[n].before.blocker \notin Uncreated(r, n)
      /\ Uncreated(r, n) \subseteq Tasks
  <2>1. \A j \in Undone(r, n) : log[j].task \in Tasks
    BY <1>1 DEF Undone, Entry
  <2> QED BY <1>7, <2>1 DEF Uncreated
<1> QED BY <1>3, <1>4, <1>5, <1>6, <1>8 DEF OneMore

\* Nobody has written the row of an undone deletion since, nor has the undo, so
\* its snapshot carries its latest version.
LEMMA DeletionIsLatest ==
  ASSUME AuditInv, NEW r \in Runs, ~Compensated(r), NEW n \in 1 .. Len(log),
         log[n].run = r, NEW s \in Tx, Continues(r, n, s), StaysGone(r, n, s)
  PROVE  IsLatest(s, log[n])
<1> DEFINE u == log[n].task
<1>1. /\ log \in Seq(Entry) /\ Len(log) \in Nat
      /\ \A i \in 1 .. Len(log) : log[i] \in Entry
  BY LenProperties, ElementOfSeq DEF AuditInv, LogInv, TypeInv
<1>2. Len(s.log) \in Nat /\ Len(log) =< Len(s.log)
      /\ \A i \in 1 .. Len(log) : s.log[i] = log[i]
  BY LenProperties DEF Continues, Tx
<1> SUFFICES ASSUME log[n].after = Absent, NEW i \in 1 .. Len(s.log),
                    s.log[i].task = u, s.log[i].before # Absent
             PROVE  s.log[i].before.version =< log[n].before.version
  BY DEF IsLatest
<1>3. \A j \in n + 1 .. Len(log) : log[j].task # u
  BY DEF AuditInv, GoneInv
<1>4. tasks[u] = Absent /\ u \in Tasks
  BY <1>1, <1>3 DEF AuditInv, LogInv, ChainInv, Entry
<1>5. UndoneOn(r, n, u) = {}
  BY <1>3 DEF UndoneOn, Undone
<1>6. i \in 1 .. n
  <2>1. i \notin Added(log, s.log)
    BY <1>4, <1>5 DEF StaysGone
  <2> QED BY <1>1, <1>2, <1>3, <2>1 DEF Added
<1>7. s.log[i] = log[i] /\ log[i] \in Entry
  BY <1>1, <1>2, <1>6
<1>8. CASE i = n
  BY <1>7, <1>8 DEF Entry, Snapshot, Rows
<1>9. CASE i # n
  <2>1. n \in i + 1 .. Len(log) /\ i \in 1 .. Len(log)
    BY <1>1, <1>6, <1>9
  <2>2. Precedes(log[i], log[n].before)
    BY <1>7, <2>1 DEF AuditInv, LogInv, VersionInv
  <2>3. log[n].before # Absent
    BY <1>1 DEF Entry
  <2> QED BY <1>7, <2>2, <2>3 DEF Precedes
<1> QED BY <1>8, <1>9

LEMMA ContinuesStep ==
  ASSUME NEW r \in Runs, NEW n \in 1 .. Len(log), log[n].run = r,
         OneMore(r, n), NEW s \in Tx, NEW s2,
         Continues(r, n, s), StaysGone(r, n, s),
         Compensates(r, s, log[n].task, s2)
  PROVE  Continues(r, n - 1, s2) /\ StaysGone(r, n - 1, s2)
<1>1. /\ LogInv(s2.tasks, s2.log)
      /\ s2.tasks \in Table /\ s2.log \in Seq(Entry) /\ s.log \in Seq(Entry)
  BY LogKept DEF Continues, Compensates, Tx
<1>2. /\ Len(s.log) \in Nat /\ Len(s2.log) \in Nat /\ Len(s.log) =< Len(s2.log)
      /\ \A i \in 1 .. Len(s.log) : s2.log[i] = s.log[i]
  BY <1>1, LenProperties DEF Compensates, Extends
<1>3. Len(log) =< Len(s.log) /\ \A i \in 1 .. Len(log) : s.log[i] = log[i]
  BY DEF Continues
<1>4. CASE Len(log) \in Nat
  <2>1. \A i \in 1 .. Len(log) : s2.log[i] = log[i]
    BY <1>2, <1>3, <1>4
  <2>2. Len(log) =< Len(s2.log)
    BY <1>2, <1>3, <1>4
  <2>3. \A k \in Added(log, s2.log) :
          \/ k \in Added(s.log, s2.log)
          \/ k \in Added(log, s.log) /\ s2.log[k] = s.log[k]
    BY <1>2, <1>3, <1>4 DEF Added
  <2>4. \A k \in Added(s.log, s2.log) : k \in Added(log, s2.log)
    BY <1>2, <1>3, <1>4 DEF Added
  <2>5. ASSUME NEW k \in Added(log, s2.log)
        PROVE  /\ s2.log[k].run = r
               /\ \/ s2.log[k].op = "restored"
                  \/ /\ s2.log[k].op = "updated"
                     /\ s2.log[k].before # Absent /\ s2.log[k].after # Absent
    <3>1. CASE k \in Added(s.log, s2.log)
      BY <3>1 DEF Compensates, Extends
    <3>2. CASE k \in Added(log, s.log) /\ s2.log[k] = s.log[k]
      BY <3>2 DEF Continues
    <3> QED BY <2>3, <3>1, <3>2
  <2>6. \E k \in Added(log, s2.log) : s2.log[k].op = "restored"
    BY <2>4 DEF Compensates
  <2>7. Continues(r, n - 1, s2)
    BY <1>1, <2>1, <2>2, <2>5, <2>6 DEF Continues
  <2>8. ASSUME NEW t \in Tasks, UndoneOn(r, n - 1, t) = {}, tasks[t] = Absent
        PROVE  /\ s2.tasks[t] = Absent
               /\ \A k \in Added(log, s2.log) : s2.log[k].task # t
    <3>1. t # log[n].task /\ UndoneOn(r, n, t) = {}
      BY <2>8 DEF OneMore
    <3>2. s.tasks[t] = Absent /\ \A k \in Added(log, s.log) : s.log[k].task # t
      BY <2>8, <3>1 DEF StaysGone
    <3>3. \A k \in Added(s.log, s2.log) : s2.log[k].task # t
      BY <3>1, <3>2 DEF Compensates, Extends
    <3>4. s2.tasks[t] = s.tasks[t]
      BY <3>3 DEF Compensates, Extends
    <3> QED BY <2>3, <3>2, <3>3, <3>4
  <2> QED BY <2>7, <2>8 DEF StaysGone
<1> QED BY <1>4, LenProperties

\* Undoing a creation inverts it, and clears the pointers to its task.
LEMMA RemovalInverts ==
  ASSUME tasks \in Table, NEW r \in Runs, NEW n \in 1 .. Len(log),
         log[n].task \in Tasks, OneMore(r, n),
         NEW s \in Tx, NEW s2, LogInv(s.tasks, s.log),
         Inverted(r, n, s), Versioned(r, n, s), log[n].before = Absent,
         s2.tasks = Deleted(s.tasks, {log[n].task})
  PROVE  Inverted(r, n - 1, s2) /\ Versioned(r, n - 1, s2)
<1> DEFINE u == log[n].task
           R == Referencers(s.tasks, {u})
           S == Uncreated(r, n)
<1>1. s.tasks \in Table /\ PointerInv(s.tasks) /\ {u} \in SUBSET Tasks
  BY DEF LogInv, TypeInv
<1>2. /\ s2.tasks[u] = Absent
      /\ \A t \in Tasks \ {u} : t \notin R => s2.tasks[t] = s.tasks[t]
      /\ R \subseteq Tasks \ {u}
      /\ \A t \in R : /\ s.tasks[t] \in Rows /\ s.tasks[t].blocker = u
                      /\ s2.tasks[t] \in Rows
                      /\ s2.tasks[t] = [s.tasks[t] EXCEPT !.blocker = NoTask]
  <2>1. PICK X \in SUBSET Tasks : X = {u}
    BY <1>1
  <2>2. PICK ts \in Table : ts = s.tasks /\ PointerInv(ts)
    BY <1>1
  <2> DEFINE D == Deleted(ts, X)
  <2>3. /\ D \in Table /\ PointerInv(D)
        /\ \A t \in X : D[t] = Absent
        /\ \A t \in Tasks \ X : t \notin Referencers(ts, X) => D[t] = ts[t]
        /\ Referencers(ts, X) \subseteq Tasks \ X
        /\ \A t \in Referencers(ts, X) :
             /\ ts[t] \in Rows /\ ts[t].blocker \in X
             /\ D[t] \in Rows
             /\ D[t] = [ts[t] EXCEPT !.blocker = NoTask]
             /\ D[t] # ts[t]
    BY <2>2, AfterDelete
  <2>4. s2.tasks = D /\ R = Referencers(ts, X)
    BY <2>1, <2>2
  <2> HIDE DEF D, R, u
  <2> QED BY <2>1, <2>2, <2>3, <2>4
<1>3. Uncreated(r, n - 1) = S \cup {u} /\ Former(r, n - 1, u) = Absent
      /\ \A t \in Tasks \ {u} : Former(r, n - 1, t) = Former(r, n, t)
  BY DEF OneMore
<1>4. \A t \in Tasks \ {u} : t \notin R /\ s.tasks[t] # Absent =>
        s.tasks[t].blocker # u
  BY DEF Referencers
<1>5. \A t \in Tasks : /\ s.tasks[t] \in Snapshot
                       /\ SameFields(s.tasks[t], Former(r, n, t), S)
  BY <1>1 DEF Inverted, Table
<1>6. \A t \in R : /\ s2.tasks[t].value = s.tasks[t].value
                   /\ s2.tasks[t].version = s.tasks[t].version
                   /\ s2.tasks[t].blocker = NoTask
                   /\ s2.tasks[t] # Absent /\ s.tasks[t] # Absent
  <2> TAKE t \in R
  <2> HIDE DEF R
  <2>1. /\ s.tasks[t] \in Rows /\ s2.tasks[t] \in Rows
        /\ s2.tasks[t] = [s.tasks[t] EXCEPT !.blocker = NoTask]
    BY <1>2
  <2> QED BY <2>1, AbsentIsNoRow DEF Rows
<1> HIDE DEF R, S, u
<1>7. Inverted(r, n - 1, s2)
  <2>1. \A t \in Uncreated(r, n - 1) : s2.tasks[t] = Absent
    BY <1>2, <1>3, <1>6 DEF Inverted, OneMore, S, u
  <2>2. ASSUME NEW t \in Tasks
        PROVE  SameFields(s2.tasks[t], Former(r, n - 1, t), S \cup {u})
    <3>1. CASE t = u
      BY <1>2, <1>3, <3>1 DEF SameFields
    <3>2. CASE t \in R
      <4>1. /\ t # u /\ s.tasks[t].blocker = u
            /\ SameFields(s.tasks[t], Former(r, n, t), S)
            /\ Former(r, n - 1, t) = Former(r, n, t)
        BY <1>2, <1>3, <1>5, <3>2
      <4>2. u # NoTask
        BY UndoAssumption DEF u
      <4> QED BY <1>6, <3>2, <4>1, <4>2 DEF SameFields
    <3>3. CASE t # u /\ t \notin R
      <4>1. /\ s2.tasks[t] = s.tasks[t]
            /\ SameFields(s.tasks[t], Former(r, n, t), S)
            /\ Former(r, n - 1, t) = Former(r, n, t)
            /\ s.tasks[t] # Absent => s.tasks[t].blocker # u
        BY <1>2, <1>3, <1>4, <1>5, <3>3
      <4> QED BY <4>1 DEF SameFields
    <3> QED BY <3>1, <3>2, <3>3
  <2> QED BY <1>3, <2>1, <2>2 DEF Inverted
<1>8. Versioned(r, n - 1, s2)
  <2> SUFFICES ASSUME NEW t \in Tasks
               PROVE  /\ tasks[t] # Absent =>
                           /\ NewVersion(tasks[t], s2.tasks[t], S \cup {u})
                           /\ s2.tasks[t] = Absent => t \in S \cup {u}
                      /\ tasks[t] = Absent /\ s2.tasks[t] # Absent =>
                           \A i \in 1 .. Len(log) :
                             log[i].task = t /\ log[i].before # Absent =>
                               s2.tasks[t].version > log[i].before.version
    BY <1>3 DEF Versioned
  <2>1. /\ tasks[t] # Absent =>
             /\ NewVersion(tasks[t], s.tasks[t], S)
             /\ s.tasks[t] = Absent => t \in S
        /\ tasks[t] = Absent /\ s.tasks[t] # Absent =>
             \A i \in 1 .. Len(log) :
               log[i].task = t /\ log[i].before # Absent =>
                 s.tasks[t].version > log[i].before.version
    BY DEF Versioned, S
  <2>2. CASE t = u
    BY <1>2, <2>2 DEF NewVersion
  <2>3. CASE t \in R
    <3>1. tasks[t] # Absent => tasks[t] \in Rows
      BY DEF Table, Snapshot
    <3>2. s.tasks[t].blocker = u /\ u # NoTask /\ s.tasks[t] \in Rows
          /\ s2.tasks[t] = [s.tasks[t] EXCEPT !.blocker = NoTask]
      BY <1>2, <2>3, UndoAssumption DEF u
    <3>3. tasks[t] # Absent => NewVersion(tasks[t], s2.tasks[t], S \cup {u})
      <4> SUFFICES ASSUME tasks[t] # Absent
                   PROVE  NewVersion(tasks[t], s2.tasks[t], S \cup {u})
        OBVIOUS
      <4>1. CASE s.tasks[t].version > tasks[t].version
        BY <1>6, <2>3, <4>1 DEF NewVersion
      <4>2. CASE s.tasks[t] = tasks[t]
        BY <3>2, <4>2 DEF NewVersion
      <4>3. CASE s.tasks[t] = [tasks[t] EXCEPT !.blocker = NoTask]
        BY <3>1, <3>2, <4>3 DEF Rows
      <4> QED BY <1>6, <2>1, <2>3, <4>1, <4>2, <4>3 DEF NewVersion
    <3> QED BY <1>6, <2>1, <2>3, <3>3
  <2>4. CASE t # u /\ t \notin R
    <3>1. s2.tasks[t] = s.tasks[t]
      BY <1>2, <2>4
    <3> QED BY <2>1, <3>1 DEF NewVersion
  <2> QED BY <2>2, <2>3, <2>4
<1> QED BY <1>7, <1>8

\* Undoing another event puts the fields back under a new version.
LEMMA PutInverts ==
  ASSUME tasks \in Table, log \in Seq(Entry),
         NEW r \in Runs, NEW n \in 1 .. Len(log), OneMore(r, n),
         NEW s \in Tx, NEW s2, IsLatest(s, log[n]), Continues(r, n, s),
         Inverted(r, n, s), Versioned(r, n, s), log[n].before # Absent,
         NEW version \in Nat \ {0},
         s2.tasks = [s.tasks EXCEPT
                       ![log[n].task] = [log[n].before EXCEPT !.version = version]],
         s.tasks[log[n].task] # Absent => version > s.tasks[log[n].task].version,
         s.tasks[log[n].task] = Absent =>
           log[n].after = Absent /\ version = log[n].before.version + 1
  PROVE  Inverted(r, n - 1, s2) /\ Versioned(r, n - 1, s2)
<1> DEFINE u == log[n].task
           before == log[n].before
           new == [before EXCEPT !.version = version]
           S == Uncreated(r, n)
<1>1. log[n] \in Entry /\ u \in Tasks /\ before \in Rows
  <2>1. log[n] \in Entry
    BY ElementOfSeq
  <2> QED BY <2>1 DEF Entry, Snapshot
<1>2. /\ new \in Rows /\ new # Absent /\ new.version = version
      /\ new.value = before.value /\ new.blocker = before.blocker
  BY <1>1, AbsentIsNoRow DEF Rows
<1>3. s.tasks \in Table
  BY DEF Tx
<1>4. s2.tasks[u] = new /\ \A t \in Tasks \ {u} : s2.tasks[t] = s.tasks[t]
  BY <1>1, <1>3 DEF Table
<1>5. /\ Uncreated(r, n - 1) = S /\ u \notin S /\ before.blocker \notin S
      /\ Former(r, n - 1, u) = before /\ S \subseteq Tasks
      /\ \A t \in Tasks \ {u} : Former(r, n - 1, t) = Former(r, n, t)
  BY DEF OneMore
<1> HIDE DEF new, before, S, u
<1>6. Inverted(r, n - 1, s2)
  <2>1. \A t \in S : s2.tasks[t] = Absent
    BY <1>4, <1>5 DEF Inverted, S
  <2>2. ASSUME NEW t \in Tasks
        PROVE  SameFields(s2.tasks[t], Former(r, n - 1, t), S)
    <3>1. CASE t = u
      <4>1. before # Absent
        BY DEF before
      <4> QED BY <1>2, <1>4, <1>5, <3>1, <4>1 DEF SameFields
    <3>2. CASE t # u
      BY <1>4, <1>5, <3>2 DEF Inverted, S
    <3> QED BY <3>1, <3>2
  <2> QED BY <1>5, <2>1, <2>2 DEF Inverted
<1>7. Versioned(r, n - 1, s2)
  <2> SUFFICES ASSUME NEW t \in Tasks
               PROVE  /\ tasks[t] # Absent =>
                           /\ NewVersion(tasks[t], s2.tasks[t], S)
                           /\ s2.tasks[t] = Absent => t \in S
                      /\ tasks[t] = Absent /\ s2.tasks[t] # Absent =>
                           \A i \in 1 .. Len(log) :
                             log[i].task = t /\ log[i].before # Absent =>
                               s2.tasks[t].version > log[i].before.version
    BY <1>5 DEF Versioned
  <2>1. /\ tasks[t] # Absent =>
             /\ NewVersion(tasks[t], s.tasks[t], S)
             /\ s.tasks[t] = Absent => t \in S
        /\ tasks[t] = Absent /\ s.tasks[t] # Absent =>
             \A i \in 1 .. Len(log) :
               log[i].task = t /\ log[i].before # Absent =>
                 s.tasks[t].version > log[i].before.version
    BY DEF Versioned, S
  <2>2. CASE t # u
    BY <1>4, <2>1, <2>2
  <2>3. CASE t = u
    <3>1. /\ tasks[u] # Absent => tasks[u] \in Rows
          /\ s.tasks[u] # Absent => s.tasks[u] \in Rows /\ version > s.tasks[u].version
      BY <1>1, <1>3 DEF Table, Snapshot, u
    <3>2. ASSUME tasks[u] # Absent PROVE new.version > tasks[u].version
      <4>1. s.tasks[u] # Absent /\ NewVersion(tasks[u], s.tasks[u], S)
        BY <1>5, <2>1, <2>3, <3>2
      <4>2. s.tasks[u].version >= tasks[u].version
        BY <3>1, <3>2, <4>1 DEF NewVersion, Rows
      <4> QED BY <1>2, <3>1, <3>2, <4>1, <4>2 DEF Rows
    <3>3. ASSUME tasks[u] = Absent, NEW i \in 1 .. Len(log),
                 log[i].task = u, log[i].before # Absent
          PROVE  new.version > log[i].before.version
      <4>1. log[i] \in Entry /\ log[i].before \in Rows
        <5>1. log[i] \in Entry
          BY ElementOfSeq
        <5> QED BY <3>3, <5>1 DEF Entry, Snapshot
      <4>2. CASE s.tasks[u] # Absent
        <5>1. s.tasks[u].version > log[i].before.version
          BY <2>1, <2>3, <3>3, <4>2
        <5> QED BY <1>2, <3>1, <4>1, <4>2, <5>1 DEF Rows
      <4>3. CASE s.tasks[u] = Absent
        <5>1. version = before.version + 1 /\ log[n].after = Absent
          BY <4>3 DEF u, before
        <5>2. s.log[i] = log[i] /\ i \in 1 .. Len(s.log)
          <6>1. Len(log) \in Nat /\ Len(s.log) \in Nat /\ Len(log) =< Len(s.log)
            BY LenProperties DEF Continues, Tx
          <6> QED BY <6>1 DEF Continues
        <5>3. log[i].before.version =< before.version
          BY <3>3, <4>3, <5>1, <5>2 DEF IsLatest, u, before
        <5> QED BY <1>1, <1>2, <4>1, <5>1, <5>3 DEF Rows
      <4> QED BY <4>2, <4>3
    <3> QED BY <1>2, <1>4, <2>3, <3>2, <3>3 DEF NewVersion
  <2> QED BY <2>2, <2>3
<1> QED BY <1>6, <1>7

\* One step of _apply, on an event of the wave and on any other.
LEMMA WalkStep ==
  ASSUME AuditInv, NEW r \in Runs, ~Compensated(r), NEW n \in 1 .. Len(log),
         log[n].run = r, NEW s, Walk(r, n, s)
  PROVE  Walk(r, n - 1, Compensate(r, s, log[n]))
<1>0. PICK s2 : s2 = Compensate(r, s, log[n])
  OBVIOUS
<1>1. /\ tasks \in Table /\ log \in Seq(Entry) /\ log[n] \in Entry
      /\ log[n].task \in Tasks /\ s \in Tx
  <2>1. tasks \in Table /\ log \in Seq(Entry) /\ s \in Tx
    BY DEF AuditInv, LogInv, TypeInv, Walk
  <2> QED BY <2>1, ElementOfSeq DEF Entry
<1>2. CASE s.refused # "none"
  <2>1. Compensate(r, s, log[n]) = s
    BY <1>2 DEF Compensate
  <2> QED BY <1>1, <1>2, <2>1 DEF Walk
<1>3. CASE s.refused = "none"
  <2>1. /\ Continues(r, n, s) /\ StaysGone(r, n, s)
        /\ Inverted(r, n, s) /\ Versioned(r, n, s)
    BY <1>3 DEF Walk
  <2>2. OneMore(r, n)
    BY WalkGrows
  <2>3. IsLatest(s, log[n])
    BY <1>1, <2>1, DeletionIsLatest
  <2>4. LogInv(s.tasks, s.log)
    BY <2>1 DEF Continues
  <2>5. \/ s2 \in Tx /\ s2.refused # "none"
        \/ Removes(r, s, log[n], s2)
        \/ Puts(r, s, log[n], s2)
    BY <1>0, <1>1, <1>3, CompensateIs
  <2>6. CASE s2 \in Tx /\ s2.refused # "none"
    BY <1>0, <2>6 DEF Walk
  <2>7. CASE Removes(r, s, log[n], s2)
    <3>1. /\ Compensates(r, s, log[n].task, s2)
          /\ s2.tasks = Deleted(s.tasks, {log[n].task})
      BY <1>1, <1>3, <2>4, <2>7, RemovalCompensates
    <3>2. log[n].before = Absent
      BY <2>7 DEF Removes
    <3>3. Continues(r, n - 1, s2) /\ StaysGone(r, n - 1, s2)
      BY <1>1, <2>1, <2>2, <3>1, ContinuesStep
    <3>4. Inverted(r, n - 1, s2) /\ Versioned(r, n - 1, s2)
      BY <1>1, <2>1, <2>2, <2>4, <3>1, <3>2, RemovalInverts
    <3>5. s2 \in Tx
      BY <3>1 DEF Compensates
    <3> QED BY <1>0, <3>3, <3>4, <3>5 DEF Walk
  <2>8. CASE Puts(r, s, log[n], s2)
    <3>1. /\ Compensates(r, s, log[n].task, s2)
          /\ PutBack(s, log[n], s2)
      BY <1>1, <1>3, <2>3, <2>4, <2>8, PutCompensates
    <3>2. log[n].before # Absent
      BY <2>8 DEF Puts
    <3>3. Continues(r, n - 1, s2) /\ StaysGone(r, n - 1, s2)
      BY <1>1, <2>1, <2>2, <3>1, ContinuesStep
    <3>4. PICK version \in Nat \ {0} :
            /\ s2.tasks = [s.tasks EXCEPT
                 ![log[n].task] = [log[n].before EXCEPT !.version = version]]
            /\ s.tasks[log[n].task] # Absent =>
                 version > s.tasks[log[n].task].version
            /\ s.tasks[log[n].task] = Absent =>
                 log[n].after = Absent /\ version = log[n].before.version + 1
      BY <3>1 DEF PutBack
    <3>5. Inverted(r, n - 1, s2) /\ Versioned(r, n - 1, s2)
      BY <1>1, <2>1, <2>2, <2>3, <3>2, <3>4, PutInverts
    <3>6. s2 \in Tx
      BY <3>1 DEF Compensates
    <3> QED BY <1>0, <3>3, <3>5, <3>6 DEF Walk
  <2> QED BY <2>5, <2>6, <2>7, <2>8
<1> QED BY <1>2, <1>3

LEMMA WalkSkip ==
  ASSUME NEW r, NEW n \in 1 .. Len(log), log[n].run # r, NEW s, Walk(r, n, s)
  PROVE  Walk(r, n - 1, s)
<1>1. Undone(r, n - 1) = Undone(r, n)
  BY DEF Undone
<1>2. /\ Uncreated(r, n - 1) = Uncreated(r, n)
      /\ \A t : UndoneOn(r, n - 1, t) = UndoneOn(r, n, t)
  BY <1>1 DEF Uncreated, UndoneOn
<1>3. \A t : Former(r, n - 1, t) = Former(r, n, t)
  BY <1>2 DEF Former
<1> QED BY <1>1, <1>2, <1>3 DEF Walk, Continues, StaysGone, Inverted, Versioned

LEMMA WalkStart ==
  ASSUME AuditInv, NEW r
  PROVE  Walk(r, Len(log), Start)
<1>1. /\ tasks \in Table /\ log \in Seq(Entry) /\ Len(log) \in Nat
      /\ LogInv(tasks, log)
  BY LenProperties DEF AuditInv, LogInv, TypeInv
<1>2. /\ Undone(r, Len(log)) = {} /\ Uncreated(r, Len(log)) = {}
      /\ \A t : Former(r, Len(log), t) = tasks[t]
      /\ Added(log, log) = {}
  BY <1>1 DEF Undone, UndoneOn, Uncreated, Former, Added
<1>3. /\ Start \in Tx /\ Start.tasks = tasks /\ Start.log = log
      /\ Start.refused = "none"
  BY <1>1 DEF Start, Tx
<1>4. \A t \in Tasks : tasks[t] # Absent => NewVersion(tasks[t], tasks[t], {})
  BY DEF NewVersion
<1>5. \A t \in Tasks : SameFields(tasks[t], tasks[t], {})
  BY DEF SameFields
<1>6. Continues(r, Len(log), Start)
  BY <1>1, <1>2, <1>3 DEF Continues
<1>7. StaysGone(r, Len(log), Start)
  BY <1>1, <1>2, <1>3 DEF StaysGone
<1>8. Inverted(r, Len(log), Start)
  BY <1>2, <1>3, <1>5 DEF Inverted
<1>9. Versioned(r, Len(log), Start)
  BY <1>1, <1>2, <1>3, <1>4 DEF Versioned
<1> QED BY <1>3, <1>6, <1>7, <1>8, <1>9 DEF Walk

\* _apply, to its end: every event of the wave is undone.
LEMMA WalkEnds ==
  ASSUME AuditInv, NEW r \in Runs, ~Compensated(r)
  PROVE  Walk(r, 0, Apply(r))
<1> DEFINE N == Len(log)
           Good == {k \in 0 .. N : Walk(r, N - k, Applied(r)[k])}
<1>1. N \in Nat /\ log \in Seq(Entry) /\ Wave(r) = {i \in 1 .. N : log[i].run = r}
  BY LenProperties DEF AuditInv, LogInv, TypeInv, Wave
<1>2. /\ Applied(r)[0] = Start
      /\ \A k \in 1 .. N :
           Applied(r)[k] =
             IF N - k + 1 \in Wave(r)
               THEN Compensate(r, Applied(r)[k - 1], log[N - k + 1])
               ELSE Applied(r)[k - 1]
  BY <1>1, AppliedSteps
<1>3. 0 \in Good
  BY <1>1, <1>2, WalkStart
<1>4. ASSUME NEW k \in 1 .. N, k - 1 \in Good PROVE k \in Good
  <2>1. PICK n \in 1 .. N : n = N - k + 1
    <3>1. N - k + 1 \in 1 .. N
      BY <1>1
    <3> QED BY <3>1
  <2>2. N - (k - 1) = n /\ N - k = n - 1
    BY <1>1, <2>1
  <2>3. PICK s : s = Applied(r)[k - 1]
    OBVIOUS
  <2>4. Walk(r, n, s)
    BY <1>4, <2>2, <2>3
  <2>5. Walk(r, n - 1, Applied(r)[k])
    <3>1. CASE log[n].run = r
      <4>1. Applied(r)[k] = Compensate(r, s, log[n])
        BY <1>1, <1>2, <2>1, <2>3, <3>1
      <4> QED BY <2>4, <3>1, <4>1, WalkStep
    <3>2. CASE log[n].run # r
      <4>1. Applied(r)[k] = s
        BY <1>1, <1>2, <2>1, <2>3, <3>2
      <4> QED BY <2>4, <3>2, <4>1, WalkSkip
    <3> QED BY <3>1, <3>2
  <2> QED BY <1>1, <2>2, <2>5
<1>5. 0 .. N \subseteq Good
  <2> HIDE DEF Good, N
  <2> QED BY <1>1, <1>3, <1>4, UpTo
<1>6. N \in Good
  <2> HIDE DEF Good, N
  <2> QED BY <1>1, <1>5
<1> QED BY <1>1, <1>6 DEF Apply

----------------------------------------------------------------------------
(* One undo                                                                *)

\* A finite set of positions has its last one.
LEMMA LastIsIn ==
  ASSUME log \in Seq(Entry), NEW S \in SUBSET (1 .. Len(log)), S # {}
  PROVE  Max(S) \in S /\ \A y \in S : y =< Max(S)
<1>1. Len(log) \in Nat /\ S \in SUBSET Nat
  BY LenProperties
<1>2. IsFiniteSet(S)
  <2>1. IsFiniteSet(1 .. Len(log))
    BY <1>1, FS_Interval
  <2> QED BY <2>1, FS_Subset
<1>3. PICK m : m = Max(S)
  OBVIOUS
<1>4. m \in S /\ \A y \in S : m >= y
  BY <1>1, <1>2, <1>3, MaxIsIn
<1>5. m \in Nat
  BY <1>1, <1>4
<1> QED BY <1>1, <1>3, <1>4, <1>5

LEMMA WaveIs ==
  ASSUME AuditInv, NEW r
  PROVE  /\ log \in Seq(Entry) /\ Len(log) \in Nat
         /\ \A i \in 1 .. Len(log) : log[i] \in Entry
         /\ Wave(r) = {i \in 1 .. Len(log) : log[i].run = r}
         /\ Undone(r, 0) = Wave(r)
BY LenProperties, ElementOfSeq DEF AuditInv, LogInv, TypeInv, Wave, Undone

LEMMA ConflictIs ==
  ASSUME NEW r, NEW i
  PROVE  Conflict(r, i) \in {"none"} \cup Refusals
BY DEF Conflict, Refusals

\* _precheck reads every event of the wave.
LEMMA PrecheckIs ==
  ASSUME AuditInv, NEW r
  PROVE  /\ Precheck(r) \in {"none"} \cup Refusals
         /\ Precheck(r) = "none" => \A i \in Wave(r) : Conflict(r, i) = "none"
<1> DEFINE S == {i \in Wave(r) : Conflict(r, i) # "none"}
<1>1. S \in SUBSET (1 .. Len(log)) /\ log \in Seq(Entry)
  BY WaveIs
<1>2. Precheck(r) = IF S = {} THEN "none" ELSE Conflict(r, Max(S))
  BY DEF Precheck
<1>3. S # {} => Conflict(r, Max(S)) # "none"
  <2>1. S # {} => Max(S) \in S
    <3> HIDE DEF S
    <3> QED BY <1>1, LastIsIn
  <2> QED BY <2>1
<1>4. S = {} => \A i \in Wave(r) : Conflict(r, i) = "none"
  OBVIOUS
<1> HIDE DEF S
<1> QED BY <1>2, <1>3, <1>4, ConflictIs

\* A row that another run deleted for good is not one the run touched last, or
\* _precheck refuses.
LEMMA DeletedByOthers ==
  ASSUME AuditInv, NEW r \in Runs, ~Compensated(r), Precheck(r) = "none",
         NEW i \in 1 .. Len(log), log[i].run # r, log[i].after = Absent,
         ~Compensated(log[i].run)
  PROVE  UndoneOn(r, 0, log[i].task) = {}
<1> DEFINE u == log[i].task
           S == UndoneOn(r, 0, u)
<1> SUFFICES ASSUME S # {} PROVE FALSE
  OBVIOUS
<1>1. /\ log \in Seq(Entry) /\ Len(log) \in Nat
      /\ \A k \in 1 .. Len(log) : log[k] \in Entry
      /\ Wave(r) = {k \in 1 .. Len(log) : log[k].run = r}
      /\ S = {k \in Wave(r) : log[k].task = u}
  BY WaveIs DEF UndoneOn
<1>2. PICK m \in S : \A k \in S : k =< m
  <2>1. S \in SUBSET (1 .. Len(log))
    BY <1>1
  <2> HIDE DEF S
  <2> QED BY <1>1, <2>1, LastIsIn
<1>3. m \in Wave(r) /\ m \in 1 .. Len(log) /\ log[m].run = r /\ log[m].task = u
  BY <1>1, <1>2
<1>4. \A j \in i + 1 .. Len(log) : log[j].task # u
  BY DEF AuditInv, GoneInv
<1>5. tasks[u] = Absent
  BY <1>1, <1>4 DEF AuditInv, LogInv, ChainInv
<1>6. m < i
  BY <1>1, <1>3, <1>4
<1>7. Conflict(r, m) = "none"
  BY <1>3, PrecheckIs
<1>8. {j \in Wave(r) : j > m /\ log[j].task = log[m].task} = {}
  BY <1>1, <1>2, <1>3
<1>9. Projected(r, m) = Absent
  BY <1>3, <1>5, <1>8 DEF Projected
<1>10. log[m].after = Absent
  BY <1>7, <1>9 DEF Conflict
<1>11. i \in m + 1 .. Len(log)
  BY <1>1, <1>3, <1>6
<1> QED BY <1>3, <1>10, <1>11 DEF AuditInv, GoneInv

\* An undo that is applied is a whole walk, after which the run, and no other,
\* is compensated.
Undoes(r) == /\ ~Compensated(r) /\ Wave(r) # {} /\ r \notin active
             /\ Precheck(r) = "none"
             /\ Walk(r, 0, Apply(r)) /\ Apply(r).refused = "none"
             /\ tasks' = Apply(r).tasks /\ log' = Apply(r).log
             /\ active' = active
             /\ result' = [result EXCEPT ![r] = "applied"]

Refuses(r) == /\ ~Compensated(r) /\ Wave(r) # {} /\ r \notin active
              /\ Precheck(r) # "none" \/ Apply(r).refused # "none"
              /\ UNCHANGED <<tasks, log, active>>
              /\ \E reason \in Refusals : result' = [result EXCEPT ![r] = reason]

LEMMA UndoIs ==
  ASSUME AuditInv, NEW r \in Runs, Undo(r)
  PROVE  Undoes(r) \/ Refuses(r)
<1>1. ~Compensated(r) /\ Wave(r) # {} /\ r \notin active
  BY DEF Undo, Eligible
<1>2. Walk(r, 0, Apply(r))
  BY <1>1, WalkEnds
<1>3. Apply(r).refused \in {"none"} \cup Refusals
  BY <1>2 DEF Walk, Tx
<1>4. Precheck(r) \in {"none"} \cup Refusals
  BY PrecheckIs
<1> QED BY <1>1, <1>2, <1>3, <1>4 DEF Undo, Answer, Undoes, Refuses

LEMMA UndoCompensates ==
  ASSUME AuditInv, NEW r \in Runs, Undoes(r)
  PROVE  /\ \A q : Compensated(q)' <=> Compensated(q) \/ q = r
         /\ log' \in Seq(Entry) /\ Len(log') \in Nat /\ Len(log) =< Len(log')
         /\ \A i \in 1 .. Len(log) : log'[i] = log[i]
         /\ \A k \in Added(log, log') : log'[k].run = r
<1>1. Continues(r, 0, Apply(r))
  BY DEF Undoes, Walk
<1>2. /\ log' \in Seq(Entry) /\ Len(log') \in Nat /\ Len(log) =< Len(log')
      /\ \A i \in 1 .. Len(log) : log'[i] = log[i]
      /\ \A k \in Added(log, log') : log'[k].run = r
      /\ Undone(r, 0) # {} => \E k \in Added(log, log') : log'[k].op = "restored"
  BY <1>1, LenProperties DEF Continues, Undoes, LogInv, TypeInv
<1>3. /\ log \in Seq(Entry) /\ Len(log) \in Nat /\ Undone(r, 0) # {}
  BY WaveIs DEF Undoes
<1>4. ASSUME NEW q
      PROVE  Compensated(q)' <=> Compensated(q) \/ q = r
  <2>1. Compensated(q)' <=>
          \E i \in 1 .. Len(log') : log'[i].run = q /\ log'[i].op = "restored"
    <3>1. (DOMAIN log)' = 1 .. Len(log')
      BY <1>2, LenProperties
    <3> QED BY <3>1 DEF Compensated, Wave
  <2>2. Compensated(q) <=>
          \E i \in 1 .. Len(log) : log[i].run = q /\ log[i].op = "restored"
    BY <1>3, CompensatedIs
  <2>3. \A i \in 1 .. Len(log') : i \in 1 .. Len(log) \/ i \in Added(log, log')
    BY <1>2, <1>3 DEF Added
  <2>4. /\ \A i \in 1 .. Len(log) : i \in 1 .. Len(log')
        /\ \A i \in Added(log, log') : i \in 1 .. Len(log')
    BY <1>2, <1>3 DEF Added
  <2>5. Compensated(q) => Compensated(q)'
    BY <1>2, <2>1, <2>2, <2>4
  <2>6. q = r => Compensated(q)'
    BY <1>2, <1>3, <2>1, <2>4
  <2>7. Compensated(q)' => Compensated(q) \/ q = r
    BY <1>2, <2>1, <2>2, <2>3
  <2> QED BY <2>5, <2>6, <2>7
<1> QED BY <1>2, <1>4

LEMMA UndoKeeps ==
  ASSUME AuditInv, NEW r \in Runs, Undoes(r)
  PROVE  AuditInv'
<1>1. /\ \A q : Compensated(q)' <=> Compensated(q) \/ q = r
      /\ log' \in Seq(Entry) /\ Len(log') \in Nat /\ Len(log) =< Len(log')
      /\ \A i \in 1 .. Len(log) : log'[i] = log[i]
      /\ \A k \in Added(log, log') : log'[k].run = r
  BY UndoCompensates
<1>2. Len(log) \in Nat /\ \A i \in 1 .. Len(log) : log[i] \in Entry
  BY WaveIs
<1>3. Continues(r, 0, Apply(r)) /\ StaysGone(r, 0, Apply(r))
  BY DEF Undoes, Walk
<1>4. LogInv(tasks, log)'
  BY <1>3 DEF Continues, Undoes
<1>5. ActiveInv'
  BY <1>1 DEF AuditInv, ActiveInv, Undoes
<1>6. GoneInv'
  <2> SUFFICES ASSUME NEW i \in 1 .. Len(log'), log'[i].after = Absent,
                      log'[i].run # r, ~Compensated(log'[i].run),
                      NEW j \in i + 1 .. Len(log'),
                      log'[j].task = log'[i].task
               PROVE  FALSE
    BY <1>1 DEF GoneInv
  <2>1. i \in 1 .. Len(log) /\ log'[i] = log[i]
    <3>1. i \notin Added(log, log')
      BY <1>1
    <3> QED BY <1>1, <1>2, <3>1 DEF Added
  <2>2. \A k \in i + 1 .. Len(log) : log[k].task # log[i].task
    BY <2>1 DEF AuditInv, GoneInv
  <2>3. j \in Added(log, log')
    BY <1>1, <1>2, <2>1, <2>2 DEF Added
  <2>4. tasks[log[i].task] = Absent /\ log[i].task \in Tasks
    BY <1>2, <2>1, <2>2 DEF AuditInv, LogInv, ChainInv, Entry
  <2>5. UndoneOn(r, 0, log[i].task) = {}
    BY <2>1, DeletedByOthers DEF Undoes
  <2> QED BY <1>3, <2>1, <2>3, <2>4, <2>5 DEF StaysGone, Undoes
<1> QED BY <1>4, <1>5, <1>6 DEF AuditInv

----------------------------------------------------------------------------
(* The invariant, and the audit log                                        *)

\* A statement of a mutation: the run is not over, and restores nothing.
Mutates(r) == /\ active' = active /\ result' = result
              /\ Extends(r, tasks, log, tasks', log')
              /\ \A k \in Added(log, log') : log'[k].op # "restored"

LEMMA MutationIs ==
  ASSUME AuditInv, NEW r \in Runs,
         \/ \E t \in Tasks, v \in Values, b \in Tasks \cup {NoTask} :
              Create(r, t, v, b) \/ Update(r, t, v, b)
         \/ \E targets \in Requests : Delete(r, targets)
  PROVE  r \in active /\ Mutates(r)
<1>1. ASSUME NEW t \in Tasks, NEW v \in Values, NEW b \in Tasks \cup {NoTask},
             Create(r, t, v, b)
      PROVE  r \in active /\ Mutates(r)
  <2>1. r \in active /\ active' = active /\ result' = result
    BY <1>1 DEF Create
  <2> QED BY <1>1, <2>1, CreateExtends DEF Mutates
<1>2. ASSUME NEW t \in Tasks, NEW v \in Values, NEW b \in Tasks \cup {NoTask},
             Update(r, t, v, b)
      PROVE  r \in active /\ Mutates(r)
  <2>1. r \in active /\ active' = active /\ result' = result
    BY <1>2 DEF Update
  <2> QED BY <1>2, <2>1, UpdateExtends DEF Mutates
<1>3. ASSUME NEW targets \in Requests, Delete(r, targets)
      PROVE  r \in active /\ Mutates(r)
  <2>1. r \in active /\ active' = active /\ result' = result
    BY <1>3 DEF Delete
  <2> QED BY <1>3, <2>1, DeleteExtends DEF Mutates
<1> QED BY <1>1, <1>2, <1>3

\* Every step is one of these.
LEMMA StepIs ==
  ASSUME AuditInv, [Next]_vars
  PROVE  \/ \E r \in active : Mutates(r)
         \/ \E r \in Runs : End(r)
         \/ \E r \in Runs : Undoes(r) \/ Refuses(r)
         \/ UNCHANGED vars
<1>1. CASE Next
  <2>1. PICK r \in Runs :
          \/ \E t \in Tasks, v \in Values, b \in Tasks \cup {NoTask} :
               Create(r, t, v, b) \/ Update(r, t, v, b)
          \/ \E targets \in Requests : Delete(r, targets)
          \/ End(r)
          \/ Undo(r)
    BY <1>1 DEF Next
  <2>2. CASE \/ \E t \in Tasks, v \in Values, b \in Tasks \cup {NoTask} :
                  Create(r, t, v, b) \/ Update(r, t, v, b)
             \/ \E targets \in Requests : Delete(r, targets)
    <3>1. r \in active /\ Mutates(r)
      BY <2>2, MutationIs
    <3> QED BY <3>1
  <2>3. CASE End(r)
    BY <2>3
  <2>4. CASE Undo(r)
    BY <2>4, UndoIs
  <2> QED BY <2>1, <2>2, <2>3, <2>4
<1> QED BY <1>1

LEMMA UnchangedKeeps ==
  ASSUME AuditInv, UNCHANGED <<tasks, log>>, active' \subseteq active
  PROVE  AuditInv'
<1>1. \A q : Compensated(q)' <=> Compensated(q)
  BY DEF Compensated, Wave
<1>2. LogInv(tasks, log)'
  BY DEF AuditInv
<1>3. ActiveInv' /\ GoneInv'
  BY <1>1 DEF AuditInv, ActiveInv, GoneInv
<1> QED BY <1>2, <1>3 DEF AuditInv

LEMMA StepKeepsAuditInv ==
  ASSUME AuditInv, [Next]_vars
  PROVE  AuditInv'
<1>1. CASE \E r \in active : Mutates(r)
  BY <1>1, MutationKeeps DEF Mutates
<1>2. CASE \E r \in Runs : End(r)
  <2>1. UNCHANGED <<tasks, log>> /\ active' \subseteq active
    BY <1>2 DEF End
  <2> QED BY <2>1, UnchangedKeeps
<1>3. CASE \E r \in Runs : Undoes(r)
  BY <1>3, UndoKeeps
<1>4. CASE (\E r \in Runs : Refuses(r)) \/ UNCHANGED vars
  <2>1. UNCHANGED <<tasks, log>> /\ active' \subseteq active
    BY <1>4 DEF Refuses, vars
  <2> QED BY <2>1, UnchangedKeeps
<1> QED BY <1>1, <1>2, <1>3, <1>4, StepIs

\* Whatever the runs do, the audit log is the history of the task table, a run
\* is compensated only after it is over, and a row deleted by a run that was
\* never compensated stays gone.
THEOREM AuditInvariant == Spec => []AuditInv
<1>1. Init => AuditInv
  BY InitAuditInv
<1>2. AuditInv /\ [Next]_vars => AuditInv'
  BY StepKeepsAuditInv
<1> QED BY <1>1, <1>2, PTL DEF Spec

ResultInv == result \in [Runs -> {"none", "applied"} \cup Refusals]

LEMMA ResultsTyped == Spec => []ResultInv
<1>1. Init => ResultInv
  BY DEF Init, ResultInv
<1>2. AuditInv /\ ResultInv /\ [Next]_vars => ResultInv'
  <2> SUFFICES ASSUME AuditInv, ResultInv, [Next]_vars PROVE ResultInv'
    OBVIOUS
  <2>1. CASE \E r \in active : Mutates(r)
    BY <2>1 DEF Mutates, ResultInv
  <2>2. CASE \E r \in Runs : End(r)
    BY <2>2 DEF End, ResultInv
  <2>3. CASE \E r \in Runs : Undoes(r) \/ Refuses(r)
    BY <2>3 DEF Undoes, Refuses, ResultInv
  <2>4. CASE UNCHANGED vars
    BY <2>4 DEF vars, ResultInv
  <2> QED BY <2>1, <2>2, <2>3, <2>4, StepIs
<1> QED BY <1>1, <1>2, AuditInvariant, PTL DEF Spec

\* Rows and events are well formed, no event is empty, and an undo answers
\* "applied" or one of the reasons of undo.py.
THEOREM AuditTypes == Spec => []TypeOK
<1>1. AuditInv /\ ResultInv => TypeOK
  <2> SUFFICES ASSUME AuditInv, ResultInv PROVE TypeOK
    OBVIOUS
  <2>1. DOMAIN log = 1 .. Len(log) /\ \A i \in 1 .. Len(log) : log[i] \in Entry
    BY LenProperties, ElementOfSeq DEF AuditInv, LogInv, TypeInv
  <2>2. tasks \in Table /\ active \subseteq Runs
    BY DEF AuditInv, LogInv, TypeInv, ActiveInv
  <2> QED BY <2>1, <2>2 DEF TypeOK, ResultInv, Table, Snapshot, Entry
<1> QED BY <1>1, AuditInvariant, ResultsTyped, PTL

\* The events of a task form one chain that ends in the row as it is now: no
\* mutation, cascade or undo changes a row without the event that explains it.
THEOREM LogExplainsRows == Spec => []AuditExplainsState
<1>1. AuditInv => AuditExplainsState
  <2> SUFFICES ASSUME AuditInv, NEW t \in Tasks, NEW i \in EventsOf(t)
               PROVE  LET later == {j \in EventsOf(t) : j > i}
                      IN log[i].after = IF later = {} THEN tasks[t]
                                        ELSE log[Min(later)].before
    BY DEF AuditExplainsState
  <2> DEFINE later == {j \in EventsOf(t) : j > i}
  <2>1. /\ Len(log) \in Nat
        /\ EventsOf(t) = {j \in 1 .. Len(log) : log[j].task = t}
    BY LenProperties DEF AuditInv, LogInv, TypeInv, EventsOf
  <2>2. i \in 1 .. Len(log) /\ log[i].task = t
    BY <2>1
  <2>3. ASSUME later = {} PROVE log[i].after = tasks[t]
    <3>1. \A j \in i + 1 .. Len(log) : log[j].task # t
      BY <2>1, <2>2, <2>3
    <3> QED BY <2>2, <3>1 DEF AuditInv, LogInv, ChainInv
  <2>4. ASSUME later # {} PROVE log[i].after = log[Min(later)].before
    <3>1. later \in SUBSET (0 .. Len(log))
      BY <2>1
    <3>2. PICK m : m = Min(later)
      OBVIOUS
    <3>3. m \in later /\ \A y \in later : m =< y
      <4> HIDE DEF later
      <4> QED BY <2>1, <2>4, <3>1, <3>2, MinIsIn
    <3>4. m \in i + 1 .. Len(log) /\ log[m].task = t
      BY <2>1, <2>2, <3>3
    <3>5. \A k \in i + 1 .. m - 1 : log[k].task # t
      BY <2>1, <2>2, <3>3, <3>4
    <3>6. log[i].after = log[m].before
      BY <2>2, <3>4, <3>5 DEF AuditInv, LogInv, ChainInv
    <3> QED BY <3>2, <3>6
  <2> QED BY <2>3, <2>4
<1> QED BY <1>1, AuditInvariant, PTL

----------------------------------------------------------------------------
(* Versions                                                                *)

\* A step does this to the row of t.
RowMoves(t) ==
  /\ tasks[t] # Absent /\ tasks'[t] # Absent =>
       \/ tasks'[t].version > tasks[t].version
       \/ tasks'[t] = tasks[t]
       \/ /\ tasks'[t] = [tasks[t] EXCEPT !.blocker = NoTask]
          /\ tasks'[tasks[t].blocker] = Absent
  /\ tasks[t] = Absent /\ tasks'[t] # Absent =>
       \A i \in EventsOf(t) :
         log[i].before # Absent => tasks'[t].version > log[i].before.version

LEMMA CreateMoves ==
  ASSUME tasks \in Table, NEW r, NEW u \in Tasks, NEW v, NEW b,
         Create(r, u, v, b), NEW t \in Tasks
  PROVE  RowMoves(t)
<1> DEFINE row == [value |-> v, blocker |-> b, version |-> 1]
<1>1. /\ tasks' = [tasks EXCEPT ![u] = row] /\ tasks[u] = Absent
      /\ \A i \in DOMAIN log : log[i].task # u
  BY DEF Create
<1> HIDE DEF row
<1>2. CASE t = u
  <2>1. EventsOf(t) = {}
    BY <1>1, <1>2 DEF EventsOf
  <2> QED BY <1>1, <1>2, <2>1 DEF RowMoves
<1>3. CASE t # u
  <2>1. tasks'[t] = tasks[t]
    BY <1>1, <1>3 DEF Table
  <2> QED BY <2>1 DEF RowMoves
<1> QED BY <1>2, <1>3

LEMMA UpdateMoves ==
  ASSUME tasks \in Table, NEW r, NEW u \in Tasks, NEW v, NEW b,
         Update(r, u, v, b), NEW t \in Tasks
  PROVE  RowMoves(t)
<1> DEFINE row == [value |-> v, blocker |-> b, version |-> tasks[u].version + 1]
<1>1. tasks' = [tasks EXCEPT ![u] = row] /\ tasks[u] # Absent
  BY DEF Update, Exists
<1>2. tasks[u] \in Rows
  BY <1>1 DEF Table, Snapshot
<1>3. row.version > tasks[u].version
  BY <1>2 DEF Rows
<1> HIDE DEF row
<1>4. CASE t = u
  <2>1. tasks'[t] = row
    BY <1>1, <1>4 DEF Table
  <2> QED BY <1>1, <1>3, <1>4, <2>1 DEF RowMoves
<1>5. CASE t # u
  <2>1. tasks'[t] = tasks[t]
    BY <1>1, <1>5 DEF Table
  <2> QED BY <2>1 DEF RowMoves
<1> QED BY <1>4, <1>5

LEMMA DeleteMoves ==
  ASSUME AuditInv, NEW r \in Runs, NEW targets \in Requests,
         Delete(r, targets), NEW t \in Tasks
  PROVE  RowMoves(t)
<1>1. tasks \in Table /\ PointerInv(tasks)
  BY DEF AuditInv, LogInv, TypeInv
<1>2. /\ \A u \in Range(targets) : Exists(tasks, u)
      /\ BlockersLast => BlockedFirst(targets)
      /\ tasks' = Deleted(tasks, Range(targets))
  BY DEF Delete
<1>3. PICK S \in SUBSET Tasks : S = Range(targets)
  BY <1>1, <1>2, DeletionsLogged
<1> DEFINE D == Deleted(tasks, S)
           R == Referencers(tasks, S)
<1>4. /\ D \in Table /\ PointerInv(D)
      /\ \A u \in S : D[u] = Absent
      /\ \A u \in Tasks \ S : u \notin R => D[u] = tasks[u]
      /\ R \subseteq Tasks \ S
      /\ \A u \in R :
           /\ tasks[u] \in Rows /\ tasks[u].blocker \in S
           /\ D[u] \in Rows
           /\ D[u] = [tasks[u] EXCEPT !.blocker = NoTask]
           /\ D[u] # tasks[u]
  BY <1>1, AfterDelete
<1>5. tasks' = D /\ \A u \in S : tasks[u] # Absent
  BY <1>2, <1>3 DEF Exists
<1> HIDE DEF D, R
<1>6. CASE t \in S
  BY <1>4, <1>5, <1>6 DEF RowMoves
<1>7. CASE t \in R
  BY <1>4, <1>5, <1>7, AbsentIsNoRow DEF RowMoves
<1>8. CASE t \notin S /\ t \notin R
  BY <1>4, <1>5, <1>8 DEF RowMoves
<1> QED BY <1>6, <1>7, <1>8

LEMMA UndoMoves ==
  ASSUME AuditInv, NEW r \in Runs, Undoes(r), NEW t \in Tasks
  PROVE  RowMoves(t)
<1> DEFINE s == Apply(r)
           S == Uncreated(r, 0)
<1>1. /\ tasks' = s.tasks /\ Versioned(r, 0, s)
      /\ \A u \in S : s.tasks[u] = Absent
  BY DEF Undoes, Walk, Inverted
<1>2. \A i : i \in EventsOf(t) => i \in 1 .. Len(log) /\ log[i].task = t
  BY LenProperties DEF EventsOf, AuditInv, LogInv, TypeInv
<1> HIDE DEF s, S
<1>3. /\ tasks[t] # Absent => NewVersion(tasks[t], s.tasks[t], S)
      /\ tasks[t] = Absent /\ s.tasks[t] # Absent =>
           \A i \in 1 .. Len(log) : log[i].task = t /\ log[i].before # Absent =>
             s.tasks[t].version > log[i].before.version
  BY <1>1 DEF Versioned, S
<1> QED BY <1>1, <1>2, <1>3 DEF NewVersion, RowMoves

LEMMA StepMoves ==
  ASSUME AuditInv, [Next]_vars, NEW t \in Tasks
  PROVE  RowMoves(t)
<1>1. tasks \in Table
  BY DEF AuditInv, LogInv, TypeInv
<1>2. ASSUME tasks' = tasks PROVE RowMoves(t)
  BY <1>2 DEF RowMoves
<1>3. CASE Next
  <2>1. PICK r \in Runs :
          \/ \E u \in Tasks, v \in Values, b \in Tasks \cup {NoTask} :
               Create(r, u, v, b) \/ Update(r, u, v, b)
          \/ \E targets \in Requests : Delete(r, targets)
          \/ End(r)
          \/ Undo(r)
    BY <1>3 DEF Next
  <2>2. CASE \E u \in Tasks, v \in Values, b \in Tasks \cup {NoTask} :
               Create(r, u, v, b) \/ Update(r, u, v, b)
    BY <1>1, <2>2, CreateMoves, UpdateMoves
  <2>3. CASE \E targets \in Requests : Delete(r, targets)
    BY <2>3, DeleteMoves
  <2>4. CASE End(r)
    BY <1>2, <2>4 DEF End
  <2>5. CASE Undo(r)
    <3>1. CASE Undoes(r)
      BY <3>1, UndoMoves
    <3>2. CASE Refuses(r)
      BY <1>2, <3>2 DEF Refuses
    <3> QED BY <2>5, <3>1, <3>2, UndoIs
  <2> QED BY <2>1, <2>2, <2>3, <2>4, <2>5
<1>4. CASE UNCHANGED vars
  BY <1>2, <1>4 DEF vars
<1> QED BY <1>3, <1>4

\* The version a caller read names the fields it read: no mutation and no undo
\* takes it back, or changes a row without raising it, except to clear a
\* pointer whose target is gone, and a row that returns continues past every
\* version it ever had.
THEOREM VersionsNameRows == Spec => VersionNamesRow
<1>1. AuditInv /\ [Next]_vars => \A t \in Tasks : RowMoves(t)
  BY StepMoves
<1>2. (\A t \in Tasks : RowMoves(t)) =>
        [\A t \in Tasks :
           /\ tasks[t] # Absent /\ tasks'[t] # Absent =>
                \/ tasks'[t].version > tasks[t].version
                \/ tasks'[t] = tasks[t]
                \/ /\ tasks'[t] = [tasks[t] EXCEPT !.blocker = NoTask]
                   /\ tasks'[tasks[t].blocker] = Absent
           /\ tasks[t] = Absent /\ tasks'[t] # Absent =>
                \A i \in EventsOf(t) :
                  log[i].before # Absent =>
                    tasks'[t].version > log[i].before.version]_vars
  BY DEF RowMoves
<1> QED BY <1>1, <1>2, AuditInvariant, PTL DEF Spec, VersionNamesRow

----------------------------------------------------------------------------
(* The inverse                                                             *)

\* A run becomes compensated in one step only: its undo, applied.
LEMMA OnlyUndoCompensates ==
  ASSUME AuditInv, [Next]_vars, NEW r \in Runs,
         ~Compensated(r), Compensated(r)'
  PROVE  Undoes(r)
<1>1. ASSUME UNCHANGED log PROVE FALSE
  BY <1>1 DEF Compensated, Wave
<1>2. CASE \E q \in active : Mutates(q)
  <2>1. PICK q \in active : Mutates(q)
    BY <1>2
  <2>2. /\ log' \in Seq(Entry) /\ Len(log') \in Nat /\ Len(log) \in Nat
        /\ log \in Seq(Entry)
        /\ Len(log) =< Len(log') /\ \A i \in 1 .. Len(log) : log'[i] = log[i]
    BY <2>1, LenProperties DEF Mutates, Extends, AuditInv, LogInv, TypeInv
  <2>3. (DOMAIN log)' = 1 .. Len(log')
    BY <2>2, LenProperties
  <2>4. PICK i \in 1 .. Len(log') : log'[i].run = r /\ log'[i].op = "restored"
    BY <2>3 DEF Compensated, Wave
  <2>5. i \in 1 .. Len(log)
    BY <2>1, <2>2, <2>4 DEF Mutates, Added
  <2> QED BY <2>2, <2>4, <2>5, CompensatedIs
<1>3. CASE \E q \in Runs : End(q)
  BY <1>1, <1>3 DEF End
<1>4. CASE \E q \in Runs : Undoes(q)
  <2>1. PICK q \in Runs : Undoes(q)
    BY <1>4
  <2>2. \A p : Compensated(p)' <=> Compensated(p) \/ p = q
    BY <2>1, UndoCompensates
  <2> QED BY <2>1, <2>2
<1>5. CASE \E q \in Runs : Refuses(q)
  BY <1>1, <1>5 DEF Refuses
<1>6. CASE UNCHANGED vars
  BY <1>1, <1>6 DEF vars
<1> QED BY <1>2, <1>3, <1>4, <1>5, <1>6, StepIs

\* What the properties say of the wave, in the terms of the walk.
LEMMA WaveBegins ==
  ASSUME AuditInv, NEW r \in Runs, ~Compensated(r)
  PROVE  /\ CreatedBy(r) = Uncreated(r, 0)
         /\ \A t \in Tasks : Former(r, 0, t) =
              IF t \in Touched(r) THEN FirstBefore(r, t) ELSE tasks[t]
<1>1. /\ log \in Seq(Entry) /\ Len(log) \in Nat
      /\ \A i \in 1 .. Len(log) : log[i] \in Entry
      /\ Wave(r) = {i \in 1 .. Len(log) : log[i].run = r}
      /\ Undone(r, 0) = Wave(r)
  BY WaveIs
<1>2. \A t : UndoneOn(r, 0, t) = Wave(r) \cap EventsOf(t)
  <2>1. DOMAIN log = 1 .. Len(log)
    BY <1>1, LenProperties
  <2> QED BY <1>1, <2>1 DEF UndoneOn, EventsOf
<1>3. \A t : t \in Touched(r) <=> UndoneOn(r, 0, t) # {}
  BY <1>1 DEF Touched, UndoneOn
<1>4. \A t : t \in Touched(r) =>
        FirstBefore(r, t) = log[Min(UndoneOn(r, 0, t))].before
  BY <1>2 DEF FirstBefore
<1>5. ASSUME NEW t \in Touched(r)
      PROVE  t \in Uncreated(r, 0) <=> FirstBefore(r, t) = Absent
  <2> DEFINE S == UndoneOn(r, 0, t)
  <2>1. S \in SUBSET (0 .. Len(log)) /\ S # {}
    BY <1>1, <1>3, <1>5 DEF UndoneOn
  <2>2. PICK m : m = Min(S)
    OBVIOUS
  <2>3. m \in S /\ \A y \in S : m =< y
    <3> HIDE DEF S
    <3> QED BY <1>1, <2>1, <2>2, MinIsIn
  <2>4. FirstBefore(r, t) = log[m].before
    BY <1>4, <1>5, <2>2
  <2>5. m \in Undone(r, 0) /\ log[m].task = t
    BY <2>3 DEF UndoneOn
  <2>6. ASSUME t \in Uncreated(r, 0) PROVE log[m].before = Absent
    <3>1. PICK j \in Undone(r, 0) : log[j].before = Absent /\ log[j].task = t
      BY <2>6 DEF Uncreated
    <3>2. j \in S /\ j \in 1 .. Len(log) /\ log[j].run = r
      BY <1>1, <3>1 DEF UndoneOn
    <3>3. Creation(log[j])
      BY <1>1, <3>1, <3>2, CompensatedIs DEF Creation
    <3>4. \A i \in 1 .. j - 1 : log[i].task # t
      BY <3>1, <3>2, <3>3 DEF AuditInv, LogInv, CreationInv
    <3>5. m =< j /\ m \in 1 .. Len(log)
      BY <1>1, <2>3, <2>5, <3>2
    <3>6. m = j
      BY <1>1, <2>5, <3>2, <3>4, <3>5
    <3> QED BY <3>1, <3>6
  <2>7. ASSUME log[m].before = Absent PROVE t \in Uncreated(r, 0)
    BY <2>5, <2>7 DEF Uncreated
  <2> QED BY <2>4, <2>6, <2>7
<1>6. \A t : t \in Uncreated(r, 0) => t \in Touched(r)
  BY <1>1 DEF Uncreated, Touched
<1>7. CreatedBy(r) = Uncreated(r, 0)
  BY <1>5, <1>6 DEF CreatedBy
<1>8. \A t \in Tasks : Former(r, 0, t) =
        IF t \in Touched(r) THEN FirstBefore(r, t) ELSE tasks[t]
  BY <1>3, <1>4 DEF Former
<1> QED BY <1>7, <1>8

\* A step that compensates r puts back what r first found.
Inverts(r) == \A t \in Tasks :
  Fields(tasks'[t], {}) =
    Fields(IF t \in Touched(r) THEN FirstBefore(r, t) ELSE tasks[t],
           CreatedBy(r))

LEMMA UndoInverts ==
  ASSUME AuditInv, NEW r \in Runs, Undoes(r)
  PROVE  Inverts(r)
<1>1. /\ tasks' = Apply(r).tasks /\ ~Compensated(r)
      /\ Inverted(r, 0, Apply(r))
  BY DEF Undoes, Walk
<1> SUFFICES ASSUME NEW t \in Tasks
             PROVE  Fields(tasks'[t], {}) =
                      Fields(Former(r, 0, t), Uncreated(r, 0))
  BY <1>1, WaveBegins DEF Inverts
<1>2. SameFields(tasks'[t], Former(r, 0, t), Uncreated(r, 0))
  BY <1>1 DEF Inverted
<1> QED BY <1>2 DEF SameFields, Fields

\* A step that answers the run with a refusal changes neither surface.
RefusesWhole(r) == result[r] # result'[r] /\ result'[r] \in Refusals =>
                     UNCHANGED <<tasks, log>>

LEMMA StepRefusesWhole ==
  ASSUME AuditInv, ResultInv, [Next]_vars, NEW r \in Runs
  PROVE  RefusesWhole(r)
<1>1. CASE result' = result
  BY <1>1 DEF RefusesWhole
<1>2. CASE \E q \in Runs : Refuses(q)
  BY <1>2 DEF Refuses, RefusesWhole
<1>3. CASE \E q \in Runs : Undoes(q)
  <2>1. PICK q \in Runs : result' = [result EXCEPT ![q] = "applied"]
    BY <1>3 DEF Undoes
  <2>2. result'[r] = result[r] \/ result'[r] = "applied"
    BY <2>1 DEF ResultInv
  <2> QED BY <2>2 DEF RefusesWhole, Refusals
<1>4. (\E q \in active : Mutates(q)) \/ (\E q \in Runs : End(q)) \/ UNCHANGED vars
        => result' = result
  BY DEF Mutates, End, vars
<1> QED BY <1>1, <1>2, <1>3, <1>4, StepIs

\* undo_run is all or nothing: applied, it puts every task the run touched back
\* to the fields the run first found, whatever else happened in between, and
\* changes no other task except to clear the pointers to what it removes;
\* refused, it changes nothing.
THEOREM UndoInvertsTheRun == Spec => UndoIsInverse
<1>1. ASSUME AuditInv, ResultInv, [Next]_vars
      PROVE  \A r \in Runs :
               /\ ~Compensated(r) /\ Compensated(r)' => Inverts(r)
               /\ RefusesWhole(r)
  BY <1>1, OnlyUndoCompensates, UndoInverts, StepRefusesWhole
<1>2. (\A r \in Runs : /\ ~Compensated(r) /\ Compensated(r)' => Inverts(r)
                       /\ RefusesWhole(r)) =>
        [\A r \in Runs :
           /\ ~Compensated(r) /\ Compensated(r)' =>
                \A t \in Tasks :
                  Fields(tasks'[t], {}) =
                    Fields(IF t \in Touched(r) THEN FirstBefore(r, t) ELSE tasks[t],
                           CreatedBy(r))
           /\ result[r] # result'[r] /\ result'[r] \in Refusals =>
                UNCHANGED <<tasks, log>>]_vars
  BY DEF Inverts, RefusesWhole
<1> QED BY <1>1, <1>2, AuditInvariant, ResultsTyped, PTL DEF Spec, UndoIsInverse

----------------------------------------------------------------------------
(* The changes of others                                                   *)

\* The next event on the task of event i, up to a later one.
LEMMA NextEvent ==
  ASSUME AuditInv, NEW i \in 1 .. Len(log), NEW p \in i + 1 .. Len(log),
         log[p].task = log[i].task
  PROVE  \E j \in i + 1 .. p : log[j].task = log[i].task
                               /\ log[i].after = log[j].before
<1> DEFINE S == {j \in i + 1 .. p : log[j].task = log[i].task}
<1>1. Len(log) \in Nat
  BY WaveIs
<1>2. PICK m : m = Min(S)
  OBVIOUS
<1>3. m \in S /\ \A y \in S : m =< y
  <2>1. S \in SUBSET (0 .. Len(log)) /\ S # {}
    BY <1>1
  <2> HIDE DEF S
  <2> QED BY <1>1, <1>2, <2>1, MinIsIn
<1>4. m \in i + 1 .. p /\ log[m].task = log[i].task
  BY <1>3
<1>5. \A k \in i + 1 .. m - 1 : log[k].task # log[i].task
  BY <1>1, <1>3, <1>4
<1>6. log[i].after = log[m].before
  BY <1>1, <1>4, <1>5 DEF AuditInv, LogInv, ChainInv
<1> QED BY <1>4, <1>6

\* The event before i on its task, from an earlier one on.
LEMMA PreviousEvent ==
  ASSUME AuditInv, NEW i \in 1 .. Len(log), NEW m \in 1 .. i - 1,
         log[m].task = log[i].task
  PROVE  \E j \in m .. i - 1 : log[j].task = log[i].task
                               /\ log[j].after = log[i].before
<1> DEFINE S == {j \in m .. i - 1 : log[j].task = log[i].task}
<1>1. Len(log) \in Nat /\ log \in Seq(Entry)
  BY WaveIs
<1>2. PICK k : k = Max(S)
  OBVIOUS
<1>3. k \in S /\ \A y \in S : y =< k
  <2>1. S \in SUBSET (1 .. Len(log)) /\ S # {}
    BY <1>1
  <2> HIDE DEF S
  <2> QED BY <1>1, <1>2, <2>1, LastIsIn
<1>4. k \in m .. i - 1 /\ log[k].task = log[i].task
  BY <1>3
<1>5. \A j \in k + 1 .. i - 1 : log[j].task # log[k].task
  BY <1>1, <1>3, <1>4
<1>6. i \in k + 1 .. Len(log) /\ k \in 1 .. Len(log)
  BY <1>1, <1>4
<1>7. log[k].after = log[i].before
  BY <1>4, <1>5, <1>6 DEF AuditInv, LogInv, ChainInv
<1> QED BY <1>4, <1>7

\* Row is a state of the task of event i after it: its row now, or what a later
\* event found.
LaterRow(i, row) ==
  \/ row = tasks[log[i].task]
  \/ \E p \in i + 1 .. Len(log) : log[p].task = log[i].task /\ row = log[p].before

LEMMA VersionsGrow ==
  ASSUME AuditInv, NEW i \in 1 .. Len(log), NEW row, LaterRow(i, row),
         row # Absent
  PROVE  /\ Precedes(log[i], row)
         /\ log[i].after # Absent => log[i].after.version =< row.version
<1> DEFINE u == log[i].task
<1>1. Len(log) \in Nat /\ \A k \in 1 .. Len(log) : log[k] \in Entry
  BY WaveIs
<1>2. tasks \in Table /\ u \in Tasks
  BY <1>1 DEF AuditInv, LogInv, TypeInv, Entry
<1>3. row \in Rows
  BY <1>1, <1>2 DEF LaterRow, Table, Snapshot, Entry
<1>4. Precedes(log[i], row)
  BY DEF LaterRow, AuditInv, LogInv, VersionInv
<1>5. ASSUME log[i].after # Absent PROVE log[i].after.version =< row.version
  <2>1. CASE row = log[i].after
    BY <1>3, <2>1 DEF Rows
  <2>2. CASE \E p \in i + 1 .. Len(log) : log[p].task = u
    <3>1. PICK p \in i + 1 .. Len(log) :
                 log[p].task = u /\ (row = log[p].before \/ row = tasks[u])
      BY <2>2 DEF LaterRow
    <3>2. PICK j \in i + 1 .. p : log[j].task = u /\ log[i].after = log[j].before
      BY <3>1, NextEvent
    <3>3. j \in 1 .. Len(log)
      BY <1>1
    <3>4. Precedes(log[j], row) \/ row = log[i].after
      <4>1. CASE row = tasks[u]
        BY <3>2, <3>3, <4>1 DEF AuditInv, LogInv, VersionInv
      <4>2. CASE row = log[p].before /\ j # p
        <5>1. p \in j + 1 .. Len(log) /\ log[p].task = log[j].task
          BY <1>1, <3>1, <3>2, <4>2
        <5> QED BY <3>3, <4>2, <5>1 DEF AuditInv, LogInv, VersionInv
      <4>3. CASE row = log[p].before /\ j = p
        BY <3>2, <4>3
      <4> QED BY <3>1, <4>1, <4>2, <4>3
    <3> QED BY <1>5, <2>1, <3>2, <3>4 DEF Precedes
  <2>3. CASE \A p \in i + 1 .. Len(log) : log[p].task # u
    <3>1. log[i].after = tasks[u] /\ row = tasks[u]
      BY <2>3 DEF LaterRow, AuditInv, LogInv, ChainInv
    <3> QED BY <2>1, <3>1
  <2> QED BY <2>2, <2>3
<1> QED BY <1>4, <1>5

\* What r's own next event on the task, or the undo, finds is a later row of
\* every event in between, and by _precheck has the version r left.
LEMMA Spared ==
  ASSUME AuditInv, NEW r \in Runs, ~Compensated(r), Precheck(r) = "none",
         NEW i \in 1 .. Len(log), log[i].run # r,
         NEW j0 \in Wave(r), j0 < i, log[j0].task = log[i].task
  PROVE  /\ log[i].before # Absent /\ log[i].after # Absent
         /\ log[i].after = [log[i].before EXCEPT !.blocker = NoTask]
<1> DEFINE u == log[i].task
           earlier == {j \in Wave(r) : j < i /\ log[j].task = u}
<1>1. /\ log \in Seq(Entry) /\ Len(log) \in Nat
      /\ \A k \in 1 .. Len(log) : log[k] \in Entry
      /\ Wave(r) = {k \in 1 .. Len(log) : log[k].run = r}
  BY WaveIs
<1>2. PICK m \in earlier : \A y \in earlier : y =< m
  <2>1. earlier \in SUBSET (1 .. Len(log)) /\ earlier # {}
    BY <1>1
  <2> HIDE DEF earlier
  <2> QED BY <1>1, <2>1, LastIsIn
<1>3. /\ m \in Wave(r) /\ m \in 1 .. i - 1 /\ m \in 1 .. Len(log)
      /\ log[m].run = r /\ log[m].task = u /\ i \in m + 1 .. Len(log)
  BY <1>1, <1>2
<1>4. Conflict(r, m) = "none"
  BY <1>3, PrecheckIs
<1>5. PICK found : found = Projected(r, m)
  OBVIOUS
<1>6. LaterRow(i, found)
  <2> DEFINE later == {j \in Wave(r) : j > m /\ log[j].task = log[m].task}
  <2>1. CASE later = {}
    BY <1>3, <1>5, <2>1 DEF Projected, LaterRow
  <2>2. CASE later # {}
    <3>1. PICK p : p = Min(later)
      OBVIOUS
    <3>2. p \in later
      <4>1. later \in SUBSET (0 .. Len(log))
        BY <1>1
      <4> HIDE DEF later
      <4> QED BY <1>1, <2>2, <3>1, <4>1, MinIsIn
    <3>3. p \in 1 .. Len(log) /\ p > m /\ log[p].task = u /\ log[p].run = r
      BY <1>1, <1>3, <3>2
    <3>4. ~(p < i) /\ p # i
      BY <1>1, <1>2, <1>3, <3>2, <3>3
    <3>5. p \in i + 1 .. Len(log)
      BY <1>1, <3>3, <3>4
    <3>6. found = log[p].before
      BY <1>5, <2>2, <3>1 DEF Projected
    <3> QED BY <3>3, <3>5, <3>6 DEF LaterRow
  <2> QED BY <2>1, <2>2
<1>7. log[m].after # Absent
  BY <1>3 DEF AuditInv, GoneInv
<1>8. found # Absent /\ found.version = log[m].after.version
  BY <1>4, <1>5, <1>7 DEF Conflict
<1>9. /\ Precedes(log[i], found) /\ Grows(log[i]) /\ log[i] \in Entry
      /\ log[i].after # Absent => log[i].after.version =< found.version
  <2>1. /\ Precedes(log[i], found)
        /\ log[i].after # Absent => log[i].after.version =< found.version
    BY <1>6, <1>8, VersionsGrow
  <2> QED BY <1>1, <2>1 DEF AuditInv, LogInv, VersionInv
<1>10. ASSUME NEW k \in m + 1 .. i, log[k].task = u, log[k].before # Absent
       PROVE  found.version =< log[k].before.version
  <2>1. LaterRow(m, log[k].before)
    BY <1>3, <1>10 DEF LaterRow
  <2> QED BY <1>3, <1>7, <1>8, <1>10, <2>1, VersionsGrow
<1>11. log[m].after.version \in Nat /\ found.version \in Nat
  BY <1>1, <1>3, <1>7, <1>8 DEF Entry, Snapshot, Rows
<1>12. log[i].before # Absent
  <2> SUFFICES ASSUME log[i].before = Absent PROVE FALSE
    OBVIOUS
  <2>1. PICK k \in m .. i - 1 : log[k].task = u /\ log[k].after = Absent
    BY <1>3, PreviousEvent
  <2>2. k \in m + 1 .. i /\ k \in 1 .. Len(log) /\ i \in k + 1 .. Len(log)
    BY <1>1, <1>3, <1>7, <2>1
  <2>3. log[k] \in Entry /\ log[k].before \in Rows /\ log[k].before # Absent
    BY <1>1, <2>1, <2>2, AbsentIsNoRow DEF Entry, Snapshot
  <2>4. LaterRow(k, found)
    BY <1>6, <2>1, <2>2 DEF LaterRow
  <2>5. Precedes(log[k], found)
    BY <1>8, <2>2, <2>4, VersionsGrow
  <2>6. log[k].before.version < found.version
    BY <1>8, <2>1, <2>3, <2>5 DEF Precedes
  <2>7. found.version =< log[k].before.version
    BY <1>10, <2>1, <2>2, <2>3
  <2> QED BY <1>11, <2>3, <2>6, <2>7 DEF Rows
<1>13. log[i].before \in Rows /\ found.version =< log[i].before.version
  BY <1>3, <1>9, <1>10, <1>12 DEF Entry, Snapshot
<1>14. log[i].after # Absent
  BY <1>8, <1>9, <1>11, <1>12, <1>13 DEF Precedes, Rows
<1>15. log[i].after \in Rows
  BY <1>9, <1>14 DEF Entry, Snapshot
<1>16. ~(log[i].after.version > log[i].before.version)
  BY <1>9, <1>11, <1>13, <1>14, <1>15 DEF Rows
<1> QED BY <1>9, <1>12, <1>14, <1>16 DEF Grows

\* _precheck lets an undo through only where nobody came in between: since the
\* run first touched a task, no other run changed it, except by deleting the
\* task its pointer named.
THEOREM UndoLeavesOthersAlone == Spec => UndoSparesOthers
<1> DEFINE Spares(r) ==
      \A i \in DOMAIN log :
        log[i].run # r /\ (\E j \in Wave(r) : j < i /\ log[j].task = log[i].task)
          => /\ log[i].before # Absent /\ log[i].after # Absent
             /\ log[i].after = [log[i].before EXCEPT !.blocker = NoTask]
<1>1. ASSUME AuditInv, NEW r \in Runs, Undoes(r) PROVE Spares(r)
  <2>1. DOMAIN log = 1 .. Len(log)
    BY <1>1, LenProperties, WaveIs
  <2> QED BY <1>1, <2>1, Spared DEF Undoes
<1>2. ASSUME AuditInv, [Next]_vars
      PROVE  \A r \in Runs : ~Compensated(r) /\ Compensated(r)' => Spares(r)
  <2> HIDE DEF Spares
  <2> QED BY <1>1, <1>2, OnlyUndoCompensates
<1>3. AuditInv /\ [Next]_vars =>
        [\A r \in Runs : ~Compensated(r) /\ Compensated(r)' => Spares(r)]_vars
  <2> HIDE DEF Spares
  <2> QED BY <1>2
<1> QED BY <1>3, AuditInvariant, PTL DEF Spec, UndoSparesOthers

----------------------------------------------------------------------------
(* Refusals                                                                *)

Blockers(r) ==
  {log[i].before.blocker : i \in {j \in Wave(r) : log[j].before # Absent}}

\* Another run touched a task of the wave, or a blocker it points at, since the
\* wave began.
Intruded(r) == \E i \in DOMAIN log : /\ log[i].run # r /\ i > Min(Wave(r))
                                     /\ log[i].task \in Touched(r) \cup Blockers(r)

\* Without that, the next event on such a task is the run's own.
NextIsOwn(r, n, t) ==
  /\ UndoneOn(r, n, t) = {} => \A j \in n + 1 .. Len(log) : log[j].task # t
  /\ UndoneOn(r, n, t) # {} =>
       \E m \in n + 1 .. Len(log) :
         /\ log[m].task = t /\ Former(r, n, t) = log[m].before
         /\ \A k \in n + 1 .. m - 1 : log[k].task # t

LEMMA QuietNext ==
  ASSUME AuditInv, NEW r \in Runs, ~Intruded(r), NEW n \in Wave(r),
         NEW t \in Touched(r) \cup Blockers(r)
  PROVE  NextIsOwn(r, n, t)
<1> DEFINE S == UndoneOn(r, n, t)
<1>1. /\ log \in Seq(Entry) /\ Len(log) \in Nat /\ DOMAIN log = 1 .. Len(log)
      /\ Wave(r) = {i \in 1 .. Len(log) : log[i].run = r}
  BY WaveIs, LenProperties
<1>2. Min(Wave(r)) =< n /\ Min(Wave(r)) \in Nat
  <2>1. PICK m : m = Min(Wave(r))
    OBVIOUS
  <2>2. m \in Wave(r) /\ \A y \in Wave(r) : m =< y
    <3>1. Wave(r) \in SUBSET (0 .. Len(log)) /\ Wave(r) # {}
      BY <1>1
    <3> QED BY <1>1, <2>1, <3>1, MinIsIn
  <2> QED BY <1>1, <2>1, <2>2
<1>3. ASSUME NEW j \in n + 1 .. Len(log), log[j].task = t PROVE j \in S
  <2>1. j \in 1 .. Len(log) /\ j > Min(Wave(r))
    BY <1>1, <1>2
  <2>2. log[j].run = r
    BY <1>1, <1>3, <2>1 DEF Intruded
  <2> QED BY <1>3, <2>2 DEF UndoneOn, Undone
<1>4. ASSUME S # {}
      PROVE  \E m \in n + 1 .. Len(log) :
               /\ log[m].task = t /\ Former(r, n, t) = log[m].before
               /\ \A k \in n + 1 .. m - 1 : log[k].task # t
  <2>1. S \in SUBSET (0 .. Len(log))
    BY <1>1 DEF UndoneOn, Undone
  <2>2. PICK m : m = Min(S)
    OBVIOUS
  <2>3. m \in S /\ \A y \in S : m =< y
    <3> HIDE DEF S
    <3> QED BY <1>1, <1>4, <2>1, <2>2, MinIsIn
  <2>4. m \in n + 1 .. Len(log) /\ log[m].task = t
    BY <2>3 DEF UndoneOn, Undone
  <2>5. Former(r, n, t) = log[m].before
    BY <1>4, <2>2 DEF Former
  <2>6. \A k \in n + 1 .. m - 1 : log[k].task # t
    <3> HIDE DEF S
    <3> QED BY <1>1, <1>3, <2>3, <2>4
  <2> QED BY <2>4, <2>5, <2>6
<1> QED BY <1>3, <1>4 DEF NextIsOwn

\* So each event finds what it left, and the blocker it saw.
LEMMA QuietEvent ==
  ASSUME AuditInv, BlockersLast, NEW r \in Runs, ~Intruded(r), NEW n \in Wave(r)
  PROVE  /\ log[n].task \in Tasks /\ n \in 1 .. Len(log) /\ log[n] \in Entry
         /\ log[n].run = r
         /\ Former(r, n, log[n].task) = log[n].after
         /\ log[n].before # Absent /\ log[n].before.blocker # log[n].task
              /\ log[n].before.blocker # NoTask =>
                /\ log[n].before.blocker \in Tasks
                /\ Former(r, n, log[n].before.blocker) # Absent
<1> DEFINE u == log[n].task
           b == log[n].before.blocker
<1>1. /\ Len(log) \in Nat /\ n \in 1 .. Len(log) /\ log[n].run = r
      /\ log[n] \in Entry /\ u \in Tasks
      /\ log[n].before # Absent => log[n].before \in Rows
  <2>1. Len(log) \in Nat /\ n \in 1 .. Len(log) /\ log[n] \in Entry /\ log[n].run = r
    BY WaveIs
  <2> QED BY <2>1 DEF Entry, Snapshot
<1>2. Former(r, n, u) = log[n].after
  <2>1. NextIsOwn(r, n, u)
    BY QuietNext DEF Touched
  <2>2. CASE UndoneOn(r, n, u) = {}
    <3>1. \A j \in n + 1 .. Len(log) : log[j].task # u
      BY <2>1, <2>2 DEF NextIsOwn
    <3> QED BY <1>1, <2>2, <3>1 DEF Former, AuditInv, LogInv, ChainInv
  <2>3. CASE UndoneOn(r, n, u) # {}
    <3>1. PICK m \in n + 1 .. Len(log) :
                 /\ log[m].task = u /\ Former(r, n, u) = log[m].before
                 /\ \A k \in n + 1 .. m - 1 : log[k].task # u
      BY <2>1, <2>3 DEF NextIsOwn
    <3> QED BY <1>1, <3>1 DEF AuditInv, LogInv, ChainInv
  <2> QED BY <2>2, <2>3
<1>3. ASSUME log[n].before # Absent, b # u, b # NoTask
      PROVE  b \in Tasks /\ Former(r, n, b) # Absent
  <2>1. b \in Tasks \ {u} /\ b \in Blockers(r)
    BY <1>1, <1>3 DEF Rows, Blockers
  <2>2. NextIsOwn(r, n, b)
    BY <2>1, QuietNext
  <2>3. /\ (\A j \in n + 1 .. Len(log) : log[j].task # b) => tasks[b] # Absent
        /\ \A j \in n + 1 .. Len(log) :
             log[j].task = b /\ (\A k \in n + 1 .. j - 1 : log[k].task # b)
               => log[j].before # Absent
    BY <1>1, <1>3, <2>1 DEF AuditInv, LogInv, BlockerInv
  <2> HIDE DEF b
  <2>4. CASE UndoneOn(r, n, b) = {}
    <3>1. tasks[b] # Absent
      BY <2>2, <2>3, <2>4 DEF NextIsOwn
    <3> QED BY <2>1, <2>4, <3>1 DEF Former
  <2>5. CASE UndoneOn(r, n, b) # {}
    <3>1. PICK m \in n + 1 .. Len(log) :
                 /\ log[m].task = b /\ Former(r, n, b) = log[m].before
                 /\ \A k \in n + 1 .. m - 1 : log[k].task # b
      BY <2>2, <2>5 DEF NextIsOwn
    <3> QED BY <2>1, <2>3, <3>1
  <2> QED BY <2>4, <2>5
<1> QED BY <1>1, <1>2, <1>3

LEMMA QuietPrecheck ==
  ASSUME AuditInv, BlockersLast, NEW r \in Runs, ~Intruded(r)
  PROVE  Precheck(r) = "none"
<1>1. ASSUME NEW i \in Wave(r) PROVE Conflict(r, i) = "none"
  <2>1. Former(r, i, log[i].task) = log[i].after
    BY QuietEvent
  <2>2. {j \in Wave(r) : j > i /\ log[j].task = log[i].task}
          = UndoneOn(r, i, log[i].task)
    <3>1. i \in 1 .. Len(log) /\ Len(log) \in Nat
          /\ Wave(r) = {j \in 1 .. Len(log) : log[j].run = r}
      BY WaveIs
    <3> QED BY <3>1 DEF UndoneOn, Undone
  <2>3. Projected(r, i) = log[i].after
    BY <2>1, <2>2 DEF Projected, Former
  <2> QED BY <2>3 DEF Conflict
<1> QED BY <1>1 DEF Precheck

\* What each compensation of such a wave needs is there.
LEMMA QuietStep ==
  ASSUME AuditInv, BlockersLast, NEW r \in Runs, ~Intruded(r), NEW n \in Wave(r),
         NEW s, Walk(r, n, s), s.refused = "none"
  PROVE  Compensate(r, s, log[n]).refused = "none"
<1> DEFINE e == log[n]
           row == s.tasks[e.task]
<1>1. /\ e \in Entry /\ e.task \in Tasks
      /\ Former(r, n, e.task) = e.after
      /\ e.before # Absent /\ e.before.blocker # e.task /\ e.before.blocker # NoTask =>
           /\ e.before.blocker \in Tasks
           /\ Former(r, n, e.before.blocker) # Absent
  BY QuietEvent
<1>2. s \in Tx /\ \A t \in Tasks : s.tasks[t] = Absent <=> Former(r, n, t) = Absent
  BY DEF Walk, Inverted, SameFields
<1>3. row = Absent <=> e.after = Absent
  BY <1>1, <1>2
<1>4. e.before # Absent => ~Dangling(s, e)
  BY <1>1, <1>2 DEF Dangling, ValidBlocker, Exists
<1>5. e.before # e.after
  BY <1>1 DEF Entry
<1>6. /\ RemoveRow(r, s, e.task).refused = "none"
      /\ \A version : PutRow(r, s, e, version).refused = "none"
  BY <1>2 DEF RemoveRow, PutRow, Tx
<1> HIDE DEF e, row
<1>7. Compensate(r, s, e).refused = "none"
  <2>1. CASE e.before = Absent
    <3>1. Compensate(r, s, e) = RemoveRow(r, s, e.task)
      BY <1>3, <1>5, <2>1 DEF Compensate, row
    <3> QED BY <1>6, <3>1
  <2>2. CASE e.before # Absent /\ e.after = Absent
    <3>1. Compensate(r, s, e) = PutRow(r, s, e, e.before.version + 1)
      BY <1>3, <1>4, <2>2 DEF Compensate, row
    <3> QED BY <1>6, <3>1
  <2>3. CASE e.before # Absent /\ e.after # Absent
    <3>1. Compensate(r, s, e) = PutRow(r, s, e, row.version + 1)
      BY <1>3, <1>4, <2>3 DEF Compensate, row
    <3> QED BY <1>6, <3>1
  <2> QED BY <2>1, <2>2, <2>3
<1> QED BY <1>7 DEF e

LEMMA QuietApply ==
  ASSUME AuditInv, BlockersLast, NEW r \in Runs, ~Compensated(r), ~Intruded(r)
  PROVE  Apply(r).refused = "none"
<1> DEFINE N == Len(log)
           Good == {k \in 0 .. N : /\ Walk(r, N - k, Applied(r)[k])
                                   /\ Applied(r)[k].refused = "none"}
<1>1. N \in Nat /\ log \in Seq(Entry) /\ Wave(r) = {i \in 1 .. N : log[i].run = r}
  BY WaveIs
<1>2. /\ Applied(r)[0] = Start
      /\ \A k \in 1 .. N :
           Applied(r)[k] =
             IF N - k + 1 \in Wave(r)
               THEN Compensate(r, Applied(r)[k - 1], log[N - k + 1])
               ELSE Applied(r)[k - 1]
  BY <1>1, AppliedSteps
<1>3. 0 \in Good
  BY <1>1, <1>2, WalkStart DEF Start
<1>4. ASSUME NEW k \in 1 .. N, k - 1 \in Good PROVE k \in Good
  <2>1. PICK n \in 1 .. N : n = N - k + 1
    <3>1. N - k + 1 \in 1 .. N
      BY <1>1
    <3> QED BY <3>1
  <2>2. N - (k - 1) = n /\ N - k = n - 1
    BY <1>1, <2>1
  <2>3. PICK s : s = Applied(r)[k - 1]
    OBVIOUS
  <2>4. Walk(r, n, s) /\ s.refused = "none"
    BY <1>4, <2>2, <2>3
  <2>5. Walk(r, n - 1, Applied(r)[k]) /\ Applied(r)[k].refused = "none"
    <3>1. CASE log[n].run = r
      <4>1. Applied(r)[k] = Compensate(r, s, log[n]) /\ n \in Wave(r)
        BY <1>1, <1>2, <2>1, <2>3, <3>1
      <4> QED BY <2>4, <3>1, <4>1, WalkStep, QuietStep
    <3>2. CASE log[n].run # r
      <4>1. Applied(r)[k] = s
        BY <1>1, <1>2, <2>1, <2>3, <3>2
      <4> QED BY <2>4, <3>2, <4>1, WalkSkip
    <3> QED BY <3>1, <3>2
  <2> QED BY <1>1, <2>2, <2>5
<1>5. 0 .. N \subseteq Good
  <2> HIDE DEF Good, N
  <2> QED BY <1>1, <1>3, <1>4, UpTo
<1>6. N \in Good
  <2> HIDE DEF Good, N
  <2> QED BY <1>1, <1>5
<1> QED BY <1>6 DEF Apply

LEMMA RefusalBlames ==
  ASSUME AuditInv, BlockersLast, NEW r \in Runs, Refuses(r)
  PROVE  Intruded(r)
BY QuietPrecheck, QuietApply DEF Refuses

\* Who came in between stays in the log, where a run that is over adds nothing
\* but its compensations.
BlameInv == \A r \in Runs : result[r] \in Refusals => r \notin active /\ Intruded(r)

Unwritten(r) == /\ Len(log) \in Nat /\ Len(log') \in Nat /\ Len(log) =< Len(log')
                /\ log \in Seq(Entry) /\ log' \in Seq(Entry)
                /\ \A i \in 1 .. Len(log) : log'[i] = log[i]
                /\ \A k \in Added(log, log') : log'[k].run # r

LEMMA BlameStays ==
  ASSUME NEW r, Unwritten(r), Intruded(r)
  PROVE  Intruded(r)'
<1>1. /\ Len(log) \in Nat /\ Len(log') \in Nat /\ Len(log) =< Len(log')
      /\ \A i \in 1 .. Len(log) : log'[i] = log[i]
      /\ \A k \in Added(log, log') : log'[k].run # r
      /\ DOMAIN log = 1 .. Len(log) /\ DOMAIN log' = 1 .. Len(log')
  BY LenProperties DEF Unwritten
<1>2. /\ Wave(r) = {i \in 1 .. Len(log) : log[i].run = r}
      /\ Wave(r)' = {i \in 1 .. Len(log') : log'[i].run = r}
  BY <1>1 DEF Wave
<1>3. Wave(r)' = Wave(r) /\ \A i \in Wave(r) : log'[i] = log[i]
  BY <1>1, <1>2 DEF Added
<1>4. Touched(r)' = Touched(r)
  BY <1>3 DEF Touched
<1>5. Blockers(r)' = Blockers(r)
  <2>1. {j \in Wave(r) : log'[j].before # Absent}
          = {j \in Wave(r) : log[j].before # Absent}
    BY <1>3
  <2> QED BY <1>3, <2>1 DEF Blockers
<1>6. PICK i \in 1 .. Len(log) :
        /\ log[i].run # r /\ i > Min(Wave(r))
        /\ log[i].task \in Touched(r) \cup Blockers(r)
  BY <1>1 DEF Intruded
<1>7. i \in 1 .. Len(log') /\ log'[i] = log[i] /\ Min(Wave(r))' = Min(Wave(r))
  BY <1>1, <1>3
<1> QED BY <1>1, <1>3, <1>4, <1>5, <1>6, <1>7 DEF Intruded

LEMMA StepKeepsBlame ==
  ASSUME AuditInv, ResultInv, BlockersLast, BlameInv, [Next]_vars
  PROVE  BlameInv'
<1> SUFFICES ASSUME NEW r \in Runs, result'[r] \in Refusals
             PROVE  r \notin active' /\ Intruded(r)'
  BY DEF BlameInv
<1>0. log \in Seq(Entry) /\ Len(log) \in Nat /\ "applied" \notin Refusals
  BY WaveIs DEF Refusals
<1>1. CASE \E q \in active : Mutates(q)
  <2>1. PICK q \in active : Mutates(q)
    BY <1>1
  <2>2. r \notin active /\ Intruded(r) /\ active' = active /\ q # r
    BY <2>1 DEF Mutates, BlameInv
  <2>3. Unwritten(r)
    BY <1>0, <2>1, <2>2, LenProperties DEF Mutates, Extends, TypeInv, Unwritten
  <2> QED BY <2>2, <2>3, BlameStays
<1>2. ASSUME UNCHANGED log, result'[r] = result[r], active' \subseteq active
      PROVE  r \notin active' /\ Intruded(r)'
  <2>1. r \notin active /\ Intruded(r)
    BY <1>2 DEF BlameInv
  <2>2. Unwritten(r)
    BY <1>0, <1>2 DEF Unwritten, Added
  <2> QED BY <1>2, <2>1, <2>2, BlameStays
<1>3. CASE \E q \in Runs : End(q)
  BY <1>2, <1>3 DEF End
<1>4. CASE \E q \in Runs : Undoes(q)
  <2>1. PICK q \in Runs : Undoes(q)
    BY <1>4
  <2>2. q # r /\ result'[r] = result[r]
    BY <1>0, <2>1 DEF Undoes, ResultInv
  <2>3. r \notin active' /\ Intruded(r)
    BY <2>1, <2>2 DEF BlameInv, Undoes
  <2>4. Unwritten(r)
    BY <1>0, <2>1, <2>2, UndoCompensates DEF Unwritten
  <2> QED BY <2>3, <2>4, BlameStays
<1>5. CASE \E q \in Runs : Refuses(q)
  <2>1. PICK q \in Runs : Refuses(q)
    BY <1>5
  <2>2. CASE q = r
    <3>1. Intruded(r) /\ r \notin active'
      BY <2>1, <2>2, RefusalBlames DEF Refuses
    <3>2. Unwritten(r)
      BY <1>0, <2>1 DEF Refuses, Unwritten, Added
    <3> QED BY <3>1, <3>2, BlameStays
  <2>3. CASE q # r
    <3>1. result'[r] = result[r] /\ UNCHANGED log /\ active' \subseteq active
      BY <2>1, <2>3 DEF Refuses, ResultInv
    <3> QED BY <1>2, <3>1
  <2> QED BY <2>2, <2>3
<1>6. CASE UNCHANGED vars
  BY <1>2, <1>6 DEF vars
<1> QED BY <1>1, <1>3, <1>4, <1>5, <1>6, StepIs

\* The claim undo.py makes of its ForeignKeyViolation, and of every refusal: if
\* no delete names a blocker before a task it blocks, an undo is refused only
\* where another run touched a task of the wave, or a blocker it points at,
\* after the wave began.
THEOREM RefusalsBlameOthers ==
  ASSUME BlockersLast
  PROVE  Spec => []RefusedOnlyForOthers
<1>1. Init => BlameInv
  BY DEF Init, BlameInv, Refusals
<1>2. AuditInv /\ ResultInv /\ BlameInv /\ [Next]_vars => BlameInv'
  BY StepKeepsBlame
<1>3. BlameInv => RefusedOnlyForOthers
  BY DEF BlameInv, Intruded, Blockers, RefusedOnlyForOthers
<1> QED BY <1>1, <1>2, <1>3, AuditInvariant, ResultsTyped, PTL DEF Spec
=============================================================================
