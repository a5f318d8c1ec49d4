-------------------------- MODULE RunLifecycleProofs --------------------------
(***************************************************************************)
(* Theorems about RunLifecycle for any sets of users, runs and tasks and   *)
(* any number of crashes, failing writes and repeated calls.               *)
(***************************************************************************)
EXTENDS RunLifecycle, TLAPS

-----------------------------------------------------------------------------
(* What the helpers do to the types of the variables they change *)

LEMMA CallType ==
  ASSUME TasksTypeOK, NEW t \in Tasks, NEW r \in Runs, Call(t, r)
  PROVE  TasksTypeOK'
BY DEF TasksTypeOK, Call, Waiting

LEMMA GotoType ==
  ASSUME TasksTypeOK, NEW t \in Tasks, NEW from \in Waiting, NEW to \in Waiting,
         Goto(t, from, to)
  PROVE  TasksTypeOK' /\ run[t] \in Runs
BY DEF TasksTypeOK, Goto, Waiting

LEMMA ReturnType ==
  ASSUME TasksTypeOK, NEW t \in Tasks, Return(t)
  PROVE  TasksTypeOK'
BY DEF TasksTypeOK, Return

LEMMA WriteType ==
  ASSUME LimitsTypeOK, WriteOk \/ WriteFails \/ Spend("call") \/ Spend("crash")
  PROVE  LimitsTypeOK'
BY DEF LimitsTypeOK, WriteOk, WriteFails, Spend

LEMMA EndType ==
  ASSUME TypeOK, NEW t \in Tasks, pc[t] # "idle",
         NEW new \in Statuses, NEW reason \in Reasons, End(t, new, reason)
  PROVE  TypeOK'
<1>1. TasksTypeOK' /\ active' \in SUBSET Runs
  BY ReturnType DEF End, TypeOK
<1>2. LimitsTypeOK'
  BY WriteType DEF End, MarkEnded, TypeOK
<1>3. TablesTypeOK'
  <2>1. TablesTypeOK /\ UNCHANGED <<owner, rows>>
    BY DEF End, TypeOK
  <2>2. status' \in [Runs -> Statuses] /\ error' \in [Runs -> Reasons]
    <3>1. CASE /\ status' = [status EXCEPT ![run[t]] = new]
               /\ error' = [error EXCEPT ![run[t]] = reason]
      BY <2>1, <3>1 DEF TablesTypeOK
    <3>2. CASE UNCHANGED <<status, error>>
      BY <2>1, <3>2 DEF TablesTypeOK
    <3>3. QED
      BY <3>1, <3>2 DEF End, MarkEnded
  <2>3. QED
    BY <2>1, <2>2 DEF TablesTypeOK
<1>4. QED
  BY <1>1, <1>2, <1>3 DEF TypeOK

-----------------------------------------------------------------------------
(* Type correctness *)

LEMMA TypeInit == Init => TypeOK
BY ConstantsAssumption
   DEF Init, TypeOK, TablesTypeOK, TasksTypeOK, LimitsTypeOK, Statuses, Reasons, Row

LEMMA TypeStep == TypeOK /\ [Next]_vars => TypeOK'
<1> SUFFICES ASSUME TypeOK, [Next]_vars PROVE TypeOK'
  OBVIOUS
<1>0. TablesTypeOK /\ TasksTypeOK /\ LimitsTypeOK /\ active \in SUBSET Runs
  BY DEF TypeOK
<1>1. ASSUME NEW u \in Users, NEW r \in Runs, NEW t \in Tasks, Post(u, r, t)
      PROVE  TypeOK'
  <2>1. TablesTypeOK'
    BY <1>0, <1>1 DEF Post, TablesTypeOK, Statuses, Live
  <2>2. QED
    BY <1>0, <1>1, <2>1, CallType DEF Post, TypeOK, LimitsTypeOK
<1>2. ASSUME NEW t \in Tasks, NEW r \in Runs, CallAgain(t, r)
      PROVE  TypeOK'
  BY <1>0, <1>2, CallType, WriteType DEF CallAgain, TypeOK, TablesTypeOK, tables
<1>3. ASSUME NEW t \in Tasks, Step(t)
      PROVE  TypeOK'
  <2>1. CASE RefuseActive(t) \/ RefuseStatus(t)
    BY <1>0, <2>1, ReturnType
       DEF RefuseActive, RefuseStatus, TypeOK, TablesTypeOK, LimitsTypeOK, tables
  <2>2. CASE PassActive(t) \/ StartEngine(t)
    <3>1. TasksTypeOK'
      BY <1>0, <2>2, GotoType DEF PassActive, StartEngine, Waiting
    <3>2. QED
      BY <1>0, <2>2, <3>1
         DEF PassActive, StartEngine, TypeOK, TablesTypeOK, LimitsTypeOK, tables
  <2>3. CASE Begin(t)
    <3>1. TasksTypeOK' /\ run[t] \in Runs
      BY <1>0, <2>3, GotoType DEF Begin, Waiting
    <3>2. LimitsTypeOK' /\ active' \in SUBSET Runs
      BY <1>0, <2>3, <3>1, WriteType DEF Begin
    <3>3. TablesTypeOK'
      BY <1>0, <2>3, <3>1 DEF Begin, TablesTypeOK, Statuses, Live, Terminal, Reasons
    <3>4. QED
      BY <3>1, <3>2, <3>3 DEF TypeOK
  <2>4. CASE BeginRejects(t)
    <3>1. run[t] \in Runs
      BY <1>0, <2>4 DEF BeginRejects, TasksTypeOK
    <3>2. TasksTypeOK' /\ LimitsTypeOK' /\ active' \in SUBSET Runs
      BY <1>0, <2>4, <3>1, ReturnType, WriteType DEF BeginRejects
    <3>3. TablesTypeOK'
      BY <1>0, <2>4 DEF BeginRejects, TablesTypeOK, Statuses, Terminal, Reasons
    <3>4. QED
      BY <3>2, <3>3 DEF TypeOK
  <2>5. CASE PrepareFails(t)
    BY <2>5, EndType DEF PrepareFails, Statuses, Terminal, Reasons
  <2>6. CASE EmitRow(t)
    <3> DEFINE row == [order |-> nextOrder[t], event |-> emitted[t] + 1]
    <3>1. run[t] \in Runs /\ row \in Row
      BY <1>0, <2>6 DEF EmitRow, TasksTypeOK, Row
    <3>2. rows \in [Runs -> Seq(Row)] /\ Append(rows[run[t]], row) \in Seq(Row)
      BY <1>0, <3>1 DEF TablesTypeOK
    <3>3. \/ rows' = [rows EXCEPT ![run[t]] = Append(@, row)]
          \/ rows' = rows
      BY <2>6 DEF EmitRow
    <3>4. rows' \in [Runs -> Seq(Row)]
      <4> HIDE DEF row
      <4> QED BY <3>1, <3>2, <3>3
    <3>5. TablesTypeOK'
      BY <1>0, <2>6, <3>4 DEF EmitRow, TablesTypeOK
    <3>6. LimitsTypeOK'
      BY <1>0, <2>6, WriteType DEF EmitRow
    <3>7. TasksTypeOK' /\ active' \in SUBSET Runs
      BY <1>0, <2>6 DEF EmitRow, TasksTypeOK
    <3>8. QED
      BY <3>5, <3>6, <3>7 DEF TypeOK
  <2>7. CASE Finish(t)
    <3>1. error[run[t]] \in Reasons
      BY <1>0, <2>7 DEF Finish, TablesTypeOK, TasksTypeOK
    <3>2. "completed" \in Statuses /\ pc[t] # "idle"
      BY <2>7 DEF Finish, Statuses, Terminal
    <3>3. End(t, "completed", error[run[t]])
      BY <2>7 DEF Finish
    <3>4. QED
      BY <3>1, <3>2, <3>3, EndType
  <2>8. QED
    BY <1>3, <2>1, <2>2, <2>3, <2>4, <2>5, <2>6, <2>7 DEF Step
<1>4. CASE Crash
  <2>1. TasksTypeOK'
    BY <1>4 DEF Crash, TasksTypeOK
  <2>2. QED
    BY <1>0, <1>4, <2>1, WriteType DEF Crash, TypeOK, TablesTypeOK, tables
<1>5. CASE UNCHANGED vars
  BY <1>0, <1>5
     DEF vars, tables, locals, TypeOK, TablesTypeOK, TasksTypeOK, LimitsTypeOK
<1>6. QED
  BY <1>1, <1>2, <1>3, <1>4, <1>5 DEF Next

\* The state of the tables, the tasks and the executor keeps its type.
THEOREM TypeCorrect == Spec => []TypeOK
BY TypeInit, TypeStep, PTL DEF Spec

-----------------------------------------------------------------------------
(***************************************************************************)
(* The inductive invariant.  A run that is being executed has left         *)
(* "queued" and has not completed (a foreign sweep may have failed it), so *)
(* no second task gets past the status check, and the task's local counter *)
(* is the number of rows stored.  A run that was never executed has none.  *)
(***************************************************************************)
ExecutingHasBegun ==
  \A t \in Tasks : Executing(t) => status[run[t]] \in {"running", "failed"}

UnstartedHasNoRows ==
  \A r \in Runs : status[r] \in {"absent", "queued"} => rows[r] = <<>>

UnstartedTaskIsFresh ==
  \A t \in Tasks : ~Executing(t) => nextOrder[t] = 0 /\ emitted[t] = 0

UpTo(stored, event) == \A i \in 1..Len(stored) : stored[i].event <= event

CountersMatch ==
  \A t \in Tasks : Executing(t) =>
    /\ nextOrder[t] = Len(rows[run[t]])
    /\ UpTo(rows[run[t]], emitted[t])

IInv ==
  /\ TypeOK
  /\ OneExecutionPerRun
  /\ ExecutingHasBegun
  /\ UnstartedHasNoRows
  /\ UnstartedTaskIsFresh
  /\ CountersMatch
  /\ RowsInOrder

\* Appending the row of the next event keeps a run's rows in order.
LEMMA AppendInOrder ==
  ASSUME NEW s \in Seq(Row), NEW e \in Nat, InOrder(s), UpTo(s, e)
  PROVE  LET new == [order |-> Len(s), event |-> e + 1]
         IN  /\ InOrder(Append(s, new))
             /\ UpTo(Append(s, new), e + 1)
             /\ Len(Append(s, new)) = Len(s) + 1
<1> DEFINE new == [order |-> Len(s), event |-> e + 1]
           longer == Append(s, new)
<1>1. new \in Row /\ Len(s) \in Nat /\ \A i \in 1..Len(s) : s[i] \in Row
  <2>1. Len(s) \in Nat /\ \A i \in 1..Len(s) : s[i] \in Row
    OBVIOUS
  <2>2. QED
    BY <2>1 DEF Row
<1>2. Len(longer) = Len(s) + 1 /\ longer[Len(s) + 1] = new
  BY <1>1
<1>3. \A i \in 1..Len(s) : longer[i] = s[i]
  BY <1>1
<1>4. new.order = Len(s) /\ new.event = e + 1
  OBVIOUS
<1>5. \A i \in 1..Len(s) : s[i].event \in Nat /\ s[i].event < new.event
  BY <1>1, <1>4 DEF UpTo, Row
<1> HIDE DEF longer, new
<1>6. ASSUME NEW i \in 1..Len(longer)
      PROVE  longer[i].event <= e + 1
  <2>1. CASE i \in 1..Len(s)
    BY <1>3, <1>4, <1>5, <2>1
  <2>2. CASE i = Len(s) + 1
    BY <1>2, <1>4, <2>2
  <2>3. QED
    BY <1>1, <1>2, <2>1, <2>2
<1>7. ASSUME NEW i \in 1..Len(longer)
      PROVE  longer[i].order = i - 1 /\ (i > 1 => longer[i - 1].event < longer[i].event)
  <2>1. CASE i \in 1..Len(s)
    <3>1. longer[i].order = i - 1
      BY <1>3, <2>1 DEF InOrder
    <3>2. ASSUME i > 1 PROVE longer[i - 1].event < longer[i].event
      <4>1. i - 1 \in 1..Len(s)
        BY <1>1, <2>1, <3>2
      <4>2. longer[i] = s[i] /\ longer[i - 1] = s[i - 1]
        BY <1>3, <2>1, <4>1
      <4>3. s[i - 1].event < s[i].event
        BY <2>1, <3>2 DEF InOrder
      <4>4. QED
        BY <4>2, <4>3
    <3>3. QED
      BY <3>1, <3>2
  <2>2. CASE i = Len(s) + 1
    <3>1. longer[i].order = i - 1
      BY <1>1, <1>2, <1>4, <2>2
    <3>2. i > 1 => longer[i - 1].event < longer[i].event
      BY <1>1, <1>2, <1>3, <1>5, <2>2
    <3>3. QED
      BY <3>1, <3>2
  <2>3. QED
    BY <1>1, <1>2, <2>1, <2>2
<1>8. QED
  BY <1>2, <1>6, <1>7 DEF InOrder, UpTo, longer, new

LEMMA InductiveInit == Init => IInv
<1> SUFFICES ASSUME Init PROVE IInv
  OBVIOUS
<1>1. TypeOK
  BY TypeInit
<1>2. \A t \in Tasks : ~Executing(t)
  BY DEF Init, Executing
<1>3. \A r \in Runs : rows[r] = <<>>
  BY DEF Init
<1>4. UnstartedTaskIsFresh /\ UnstartedHasNoRows
  BY <1>3 DEF Init, UnstartedTaskIsFresh, UnstartedHasNoRows
<1>5. RowsInOrder
  BY <1>3 DEF RowsInOrder, InOrder
<1>6. QED
  BY <1>1, <1>2, <1>4, <1>5
     DEF IInv, OneExecutionPerRun, ExecutingHasBegun, CountersMatch

(***************************************************************************)
(* A step is uneventful when it stores no row, lets no task begin to       *)
(* execute, and leaves the run of every task that goes on executing        *)
(* unfinished.                                                             *)
(* All steps are, except Begin and EmitRow.                                *)
(***************************************************************************)
SameLocals(s) ==
  run'[s] = run[s] /\ nextOrder'[s] = nextOrder[s] /\ emitted'[s] = emitted[s]

Uneventful ==
  /\ rows' = rows
  /\ \A s \in Tasks : Executing(s)' => Executing(s) /\ SameLocals(s)
  /\ \A s \in Tasks : ~Executing(s)' => nextOrder'[s] = 0 /\ emitted'[s] = 0
  /\ \A s \in Tasks : Executing(s)' /\ status[run[s]] \in {"running", "failed"}
                        => status'[run[s]] \in {"running", "failed"}
  /\ \A r \in Runs : status'[r] \in {"absent", "queued"}
                        => status[r] \in {"absent", "queued"}

LEMMA UneventfulStep ==
  ASSUME IInv, TypeOK', Uneventful
  PROVE  IInv'
<1>1. OneExecutionPerRun'
  BY DEF IInv, OneExecutionPerRun, Uneventful, SameLocals
<1>2. ExecutingHasBegun'
  BY DEF IInv, ExecutingHasBegun, Uneventful, SameLocals
<1>3. UnstartedHasNoRows'
  BY DEF IInv, UnstartedHasNoRows, Uneventful
<1>4. UnstartedTaskIsFresh'
  BY DEF UnstartedTaskIsFresh, Uneventful
<1>5. CountersMatch'
  BY DEF IInv, CountersMatch, Uneventful, SameLocals
<1>6. RowsInOrder'
  BY DEF IInv, RowsInOrder, Uneventful
<1>7. QED
  BY <1>1, <1>2, <1>3, <1>4, <1>5, <1>6 DEF IInv

LEMMA ReturnEffect ==
  ASSUME TypeOK, NEW t \in Tasks, Return(t)
  PROVE  /\ ~Executing(t)' /\ nextOrder'[t] = 0 /\ emitted'[t] = 0
         /\ \A s \in Tasks \ {t} :
              (Executing(s)' <=> Executing(s)) /\ SameLocals(s)
BY DEF Return, Executing, SameLocals, TypeOK, TasksTypeOK

LEMMA CallEffect ==
  ASSUME TypeOK, NEW t \in Tasks, NEW r \in Runs, Call(t, r)
  PROVE  /\ ~Executing(t)' /\ ~Executing(t)
         /\ nextOrder' = nextOrder /\ emitted' = emitted
         /\ \A s \in Tasks \ {t} :
              (Executing(s)' <=> Executing(s)) /\ SameLocals(s)
BY DEF Call, Executing, SameLocals, TypeOK, TasksTypeOK

LEMMA GotoEffect ==
  ASSUME TypeOK, NEW t \in Tasks, NEW from, NEW to, Goto(t, from, to)
  PROVE  /\ pc[t] = from /\ pc'[t] = to
         /\ \A s \in Tasks : SameLocals(s)
         /\ \A s \in Tasks \ {t} : Executing(s)' <=> Executing(s)
BY DEF Goto, Executing, SameLocals, TypeOK, TasksTypeOK

LEMMA EndUneventful ==
  ASSUME IInv, NEW t \in Tasks, Executing(t), NEW new \in Terminal, NEW reason,
         End(t, new, reason)
  PROVE  Uneventful
<1> DEFINE r == run[t]
<1>1. TypeOK /\ run[t] \in Runs
  BY DEF IInv, TypeOK, TasksTypeOK, Executing
<1>2. rows' = rows /\ Return(t)
  BY DEF End
<1>3. \/ status' = [status EXCEPT ![r] = new]
      \/ status' = status
  BY DEF End, MarkEnded
<1>4. \A q \in Runs \ {r} : status'[q] = status[q]
  BY <1>1, <1>3 DEF TypeOK, TablesTypeOK
<1>5. \A s \in Tasks \ {t} : Executing(s) => run[s] \in Runs \ {r}
  BY DEF IInv, OneExecutionPerRun, TypeOK, TasksTypeOK, Executing
<1>6. \A q \in Runs : status'[q] \in {"absent", "queued"}
                     => status[q] \in {"absent", "queued"}
  BY <1>1, <1>3, <1>4 DEF TypeOK, TablesTypeOK, Terminal
<1>7. /\ ~Executing(t)' /\ nextOrder'[t] = 0 /\ emitted'[t] = 0
      /\ \A s \in Tasks \ {t} : (Executing(s)' <=> Executing(s)) /\ SameLocals(s)
  BY <1>1, <1>2, ReturnEffect
<1>8. \A s \in Tasks : Executing(s)' => s # t /\ Executing(s) /\ SameLocals(s)
  BY <1>7
<1>9. \A s \in Tasks : ~Executing(s)' => nextOrder'[s] = 0 /\ emitted'[s] = 0
  BY <1>7 DEF IInv, UnstartedTaskIsFresh, SameLocals
<1>10. \A s \in Tasks : Executing(s)' => status'[run[s]] = status[run[s]]
  BY <1>4, <1>5, <1>8
<1>11. QED
  BY <1>2, <1>6, <1>8, <1>9, <1>10 DEF Uneventful

LEMMA BeginStep ==
  ASSUME IInv, TypeOK', NEW t \in Tasks, Begin(t)
  PROVE  IInv'
<1> DEFINE r == run[t]
<1>1. TypeOK /\ r \in Runs /\ ~Executing(t) /\ Executing(t)'
  BY DEF IInv, TypeOK, TasksTypeOK, Begin, Goto, Executing
<1>2. /\ \A s \in Tasks : SameLocals(s)
      /\ \A s \in Tasks \ {t} : Executing(s)' <=> Executing(s)
  BY <1>1, GotoEffect DEF Begin
<1>3. status[r] = "queued" /\ rows' = rows /\ rows[r] = <<>>
  BY <1>1 DEF Begin, IInv, UnstartedHasNoRows
<1>4. \A s \in Tasks : Executing(s) => run[s] # r
  BY <1>3 DEF IInv, ExecutingHasBegun
<1>5. /\ status'[r] = "running"
      /\ \A q \in Runs : status[q] \in {"running", "failed"}
                          => status'[q] \in {"running", "failed"}
      /\ \A q \in Runs : status'[q] \in {"absent", "queued"}
                          => status[q] \in {"absent", "queued"}
  BY <1>1, <1>3 DEF Begin, SweptBy, Live, TypeOK, TablesTypeOK
<1>6. OneExecutionPerRun'
  BY <1>2, <1>4 DEF IInv, OneExecutionPerRun, SameLocals
<1>7. ExecutingHasBegun'
  <2>1. \A s \in Tasks : Executing(s) => run[s] \in Runs
    BY <1>1 DEF TypeOK, TasksTypeOK, Executing
  <2>2. QED
    BY <1>2, <1>5, <2>1 DEF IInv, ExecutingHasBegun, SameLocals
<1>8. UnstartedHasNoRows'
  BY <1>3, <1>5 DEF IInv, UnstartedHasNoRows
<1>9. UnstartedTaskIsFresh'
  BY <1>1, <1>2 DEF IInv, UnstartedTaskIsFresh, SameLocals
<1>10. CountersMatch'
  <2>1. nextOrder'[t] = 0 /\ run'[t] = r /\ rows'[r] = <<>>
    BY <1>1, <1>2, <1>3 DEF IInv, UnstartedTaskIsFresh, SameLocals
  <2>2. nextOrder'[t] = Len(rows'[r]) /\ UpTo(rows'[r], emitted'[t])
    BY <2>1 DEF UpTo
  <2>3. QED
    BY <1>2, <1>3, <2>1, <2>2 DEF IInv, CountersMatch, SameLocals
<1>11. RowsInOrder'
  BY <1>3 DEF IInv, RowsInOrder
<1>12. QED
  BY <1>6, <1>7, <1>8, <1>9, <1>10, <1>11 DEF IInv

LEMMA EmitStep ==
  ASSUME IInv, TypeOK', NEW t \in Tasks, EmitRow(t)
  PROVE  IInv'
<1> DEFINE r == run[t]
           old == rows[r]
           new == [order |-> nextOrder[t], event |-> emitted[t] + 1]
<1>1. /\ TypeOK /\ r \in Runs /\ old \in Seq(Row) /\ new \in Row
      /\ nextOrder[t] \in Nat /\ emitted[t] \in Nat /\ Executing(t)
  BY DEF IInv, TypeOK, TasksTypeOK, TablesTypeOK, EmitRow, Executing, Row
<1>2. /\ UNCHANGED <<status, pc, run>>
      /\ \A s \in Tasks : Executing(s)' <=> Executing(s)
      /\ emitted' = [emitted EXCEPT ![t] = @ + 1]
  BY DEF EmitRow, Executing
<1>3. nextOrder[t] = Len(old) /\ UpTo(old, emitted[t])
  BY <1>1 DEF IInv, CountersMatch
<1>4. OneExecutionPerRun' /\ ExecutingHasBegun'
  BY <1>2 DEF IInv, OneExecutionPerRun, ExecutingHasBegun
<1>5. \A s \in Tasks \ {t} : Executing(s) => run[s] # r
  BY <1>1 DEF IInv, OneExecutionPerRun
<1>6. status[r] \notin {"absent", "queued"}
  BY <1>1 DEF IInv, ExecutingHasBegun
<1>7. CASE rows' = rows /\ nextOrder' = nextOrder
  <2>1. UnstartedHasNoRows' /\ RowsInOrder'
    BY <1>2, <1>7 DEF IInv, UnstartedHasNoRows, RowsInOrder
  <2>2. UnstartedTaskIsFresh'
    BY <1>1, <1>2, <1>7 DEF IInv, UnstartedTaskIsFresh, TypeOK, TasksTypeOK
  <2>3. UpTo(old, emitted'[t])
    <3>1. emitted'[t] = emitted[t] + 1
      BY <1>1, <1>2 DEF TypeOK, TasksTypeOK
    <3>2. \A i \in 1..Len(old) : old[i].event \in Nat /\ old[i].event <= emitted[t]
      <4>1. \A i \in 1..Len(old) : old[i] \in Row
        BY <1>1
      <4>2. QED
        BY <1>3, <4>1 DEF Row, UpTo
    <3> HIDE DEF old
    <3>3. QED
      BY <1>1, <3>1, <3>2 DEF UpTo
  <2>4. \A s \in Tasks \ {t} : emitted'[s] = emitted[s]
    BY <1>1, <1>2 DEF TypeOK, TasksTypeOK
  <2>5. CountersMatch'
    BY <1>2, <1>3, <1>7, <2>3, <2>4 DEF IInv, CountersMatch
  <2>6. QED
    BY <1>4, <2>1, <2>2, <2>5 DEF IInv
<1>8. CASE /\ rows' = [rows EXCEPT ![r] = Append(old, new)]
           /\ nextOrder' = [nextOrder EXCEPT ![t] = @ + 1]
  <2>1. /\ rows'[r] = Append(old, new)
        /\ \A q \in Runs \ {r} : rows'[q] = rows[q]
    BY <1>1, <1>8 DEF TypeOK, TablesTypeOK
  <2>2. /\ nextOrder'[t] = nextOrder[t] + 1 /\ emitted'[t] = emitted[t] + 1
        /\ \A s \in Tasks \ {t} : nextOrder'[s] = nextOrder[s] /\ emitted'[s] = emitted[s]
    BY <1>1, <1>2, <1>8 DEF TypeOK, TasksTypeOK
  <2>3. InOrder(old)
    BY <1>1 DEF IInv, RowsInOrder
  <2>4. /\ InOrder(rows'[r]) /\ UpTo(rows'[r], emitted[t] + 1)
        /\ Len(rows'[r]) = Len(old) + 1
    <3> HIDE DEF old
    <3> QED BY <1>1, <1>3, <2>1, <2>3, AppendInOrder
  <2>5. UnstartedHasNoRows'
    BY <1>2, <1>6, <2>1 DEF IInv, UnstartedHasNoRows
  <2>6. UnstartedTaskIsFresh'
    BY <1>1, <1>2, <2>2 DEF IInv, UnstartedTaskIsFresh
  <2>7. CountersMatch'
    <3>1. nextOrder'[t] = Len(rows'[r]) /\ UpTo(rows'[r], emitted'[t])
      BY <1>3, <2>2, <2>4
    <3>2. \A s \in Tasks \ {t} : Executing(s) => run[s] \in Runs \ {r}
      BY <1>1, <1>5 DEF TypeOK, TasksTypeOK, Executing
    <3>3. QED
      BY <1>2, <2>1, <2>2, <3>1, <3>2 DEF IInv, CountersMatch
  <2>8. RowsInOrder'
    BY <2>1, <2>4 DEF IInv, RowsInOrder
  <2>9. QED
    BY <1>4, <2>5, <2>6, <2>7, <2>8 DEF IInv
<1>9. QED
  BY <1>7, <1>8 DEF EmitRow

LEMMA InductiveStep == IInv /\ [Next]_vars => IInv'
<1> SUFFICES ASSUME IInv, [Next]_vars PROVE IInv'
  OBVIOUS
<1>1. TypeOK /\ TypeOK'
  BY TypeStep DEF IInv
<1>2. \A t \in Tasks : ~Executing(t) => nextOrder[t] = 0 /\ emitted[t] = 0
  BY DEF IInv, UnstartedTaskIsFresh
<1>3. ASSUME NEW u \in Users, NEW r \in Runs, NEW t \in Tasks, Post(u, r, t)
      PROVE  Uneventful
  <2>1. /\ ~Executing(t)' /\ nextOrder' = nextOrder /\ emitted' = emitted
        /\ \A s \in Tasks \ {t} : (Executing(s)' <=> Executing(s)) /\ SameLocals(s)
        /\ ~Executing(t)
    BY <1>1, <1>3, CallEffect DEF Post
  <2>2. /\ rows' = rows /\ status[r] = "absent"
        /\ status' = [status EXCEPT ![r] = "queued"]
    BY <1>3 DEF Post
  <2>3. \A q \in Runs : status[q] \in {"running", "failed"} => status'[q] = status[q]
    BY <1>1, <2>2 DEF TypeOK, TablesTypeOK
  <2>4. \A q \in Runs : status'[q] \in {"absent", "queued"}
                       => status[q] \in {"absent", "queued"}
    BY <1>1, <2>2 DEF TypeOK, TablesTypeOK
  <2>5. \A s \in Tasks : Executing(s)' => Executing(s) /\ SameLocals(s) /\ run[s] \in Runs
    BY <1>1, <2>1 DEF TypeOK, TasksTypeOK, Executing
  <2>6. QED
    BY <1>2, <2>1, <2>2, <2>3, <2>4, <2>5 DEF Uneventful
<1>4. ASSUME NEW t \in Tasks, NEW r \in Runs, CallAgain(t, r)
      PROVE  Uneventful
  <2>1. /\ ~Executing(t)' /\ nextOrder' = nextOrder /\ emitted' = emitted
        /\ \A s \in Tasks \ {t} : (Executing(s)' <=> Executing(s)) /\ SameLocals(s)
        /\ ~Executing(t)
    BY <1>1, <1>4, CallEffect DEF CallAgain
  <2>2. rows' = rows /\ status' = status
    BY <1>4 DEF CallAgain, tables
  <2>3. QED
    BY <1>2, <2>1, <2>2 DEF Uneventful
<1>5. ASSUME NEW t \in Tasks, Step(t)
      PROVE  IInv'
  <2>1. ASSUME rows' = rows, status' = status, Return(t)
        PROVE  Uneventful
    BY <1>1, <1>2, <2>1, ReturnEffect DEF Uneventful, SameLocals
  <2>2. CASE RefuseActive(t) \/ RefuseStatus(t)
    BY <1>1, <2>1, <2>2, UneventfulStep DEF RefuseActive, RefuseStatus, tables
  <2>3. CASE PassActive(t) \/ StartEngine(t)
    <3>1. \A s \in Tasks : (Executing(s)' <=> Executing(s)) /\ SameLocals(s)
      BY <1>1, <2>3, GotoEffect DEF PassActive, StartEngine, Executing
    <3>2. rows' = rows /\ status' = status
      BY <2>3 DEF PassActive, StartEngine, tables
    <3>3. Uneventful
      BY <1>2, <3>1, <3>2 DEF Uneventful, SameLocals
    <3>4. QED
      BY <1>1, <3>3, UneventfulStep
  <2>4. CASE Begin(t)
    BY <1>1, <2>4, BeginStep
  <2>5. CASE BeginRejects(t)
    <3>1. rows' = rows /\ Return(t)
      BY <2>5 DEF BeginRejects
    <3>2. \A q \in Runs : status'[q] = status[q] \/ status'[q] = "failed"
      BY <2>5 DEF BeginRejects
    <3>3. \A s \in Tasks : Executing(s) => run[s] \in Runs
      BY <1>1 DEF TypeOK, TasksTypeOK, Executing
    <3>4. \A s \in Tasks : Executing(s)' => Executing(s) /\ SameLocals(s)
      BY <1>1, <3>1, ReturnEffect
    <3>5. \A s \in Tasks : ~Executing(s)' => nextOrder'[s] = 0 /\ emitted'[s] = 0
      BY <1>1, <1>2, <3>1, ReturnEffect DEF SameLocals
    <3>6. Uneventful
      BY <3>1, <3>2, <3>3, <3>4, <3>5 DEF Uneventful
    <3>7. QED
      BY <1>1, <3>6, UneventfulStep
  <2>6. CASE PrepareFails(t)
    <3>1. Executing(t) /\ End(t, "failed", "reason") /\ "failed" \in Terminal
      BY <2>6 DEF PrepareFails, Executing, Terminal
    <3>2. QED
      BY <1>1, <3>1, EndUneventful, UneventfulStep
  <2>7. CASE EmitRow(t)
    BY <1>1, <2>7, EmitStep
  <2>8. CASE Finish(t)
    <3>1. Executing(t) /\ End(t, "completed", error[run[t]]) /\ "completed" \in Terminal
      BY <2>8 DEF Finish, Executing, Terminal
    <3>2. QED
      BY <1>1, <3>1, EndUneventful, UneventfulStep
  <2>9. QED
    BY <1>5, <2>2, <2>3, <2>4, <2>5, <2>6, <2>7, <2>8 DEF Step
<1>6. CASE Crash
  <2>1. \A s \in Tasks : ~Executing(s)' /\ nextOrder'[s] = 0 /\ emitted'[s] = 0
    BY <1>6 DEF Crash, Executing
  <2>2. Uneventful
    BY <1>6, <2>1 DEF Uneventful, Crash, tables
  <2>3. QED
    BY <1>1, <2>2, UneventfulStep
<1>7. CASE UNCHANGED vars
  <2>1. Uneventful
    BY <1>2, <1>7 DEF Uneventful, SameLocals, Executing, vars, tables, locals
  <2>2. QED
    BY <1>1, <2>1, UneventfulStep
<1>8. QED
  BY <1>1, <1>3, <1>4, <1>5, <1>6, <1>7, UneventfulStep DEF Next

THEOREM Inductive == Spec => []IInv
BY InductiveInit, InductiveStep, PTL DEF Spec

\* startRun's idempotence guard: for any interleaving of any number of calls,
\* over any number of crashes, one execution per run at a time.
THEOREM ExclusiveExecution == Spec => []OneExecutionPerRun
BY Inductive, PTL DEF IInv

\* check_rows of a run are numbered 0, 1, 2, ... in emission order.
THEOREM RowsStayInOrder == Spec => []RowsInOrder
BY Inductive, PTL DEF IInv

-----------------------------------------------------------------------------
(* Completed runs *)

LEMMA CompletedStep ==
  ASSUME IInv, [Next]_vars, NEW r \in Runs, status[r] = "completed"
  PROVE  status'[r] = "completed" /\ rows'[r] = rows[r]
<1>1. TypeOK /\ \A t \in Tasks : Executing(t) => run[t] # r
  BY DEF IInv, ExecutingHasBegun
<1>2. ASSUME NEW u \in Users, NEW q \in Runs, NEW t \in Tasks, Post(u, q, t)
      PROVE  status'[r] = "completed" /\ rows'[r] = rows[r]
  BY <1>1, <1>2 DEF Post, TypeOK, TablesTypeOK
<1>3. ASSUME NEW t \in Tasks, Step(t)
      PROVE  status'[r] = "completed" /\ rows'[r] = rows[r]
  <2>1. CASE RefuseActive(t) \/ PassActive(t) \/ RefuseStatus(t) \/ StartEngine(t)
    BY <2>1 DEF RefuseActive, PassActive, RefuseStatus, StartEngine, tables
  <2>2. CASE Begin(t) \/ BeginRejects(t)
    BY <1>1, <2>2 DEF Begin, BeginRejects, SweptBy, Live, TypeOK, TablesTypeOK
  <2>3. CASE PrepareFails(t) \/ Finish(t)
    <3>1. run[t] # r /\ rows' = rows
      BY <1>1, <2>3 DEF PrepareFails, Finish, Executing, End
    <3>2. status'[r] = status[r]
      BY <1>1, <2>3, <3>1
         DEF PrepareFails, Finish, End, MarkEnded, TypeOK, TablesTypeOK
    <3>3. QED
      BY <3>1, <3>2
  <2>4. CASE EmitRow(t)
    BY <1>1, <2>4 DEF EmitRow, Executing, TypeOK, TablesTypeOK
  <2>5. QED
    BY <1>3, <2>1, <2>2, <2>3, <2>4 DEF Step
<1>4. ASSUME NEW t \in Tasks, NEW q \in Runs, CallAgain(t, q)
      PROVE  status'[r] = "completed" /\ rows'[r] = rows[r]
  BY <1>4 DEF CallAgain, tables
<1>5. CASE Crash \/ UNCHANGED vars
  BY <1>5 DEF Crash, vars, tables
<1>6. QED
  BY <1>2, <1>3, <1>4, <1>5 DEF Next

\* What the export route reads of a completed run is what it will always read.
THEOREM CompletedStaysFinal == Spec => CompletedIsFinal
<1>1. IInv /\ [Next]_vars =>
        [\A r \in Runs : status[r] = "completed" =>
           status'[r] = "completed" /\ rows'[r] = rows[r]]_vars
  BY CompletedStep
<1>2. QED
  BY <1>1, Inductive, PTL DEF Spec, CompletedIsFinal

-----------------------------------------------------------------------------
(* The gate of createRunIfAbsent *)

\* Only POST makes a run live; every other step keeps or ends the live runs.
NoNewLive ==
  \A q \in Runs : status'[q] \in Live => status[q] \in Live /\ owner'[q] = owner[q]

LEMMA OnlyPostMakesLive ==
  ASSUME TypeOK, [Next]_vars,
         ~ \E u \in Users, r \in Runs, t \in Tasks : Post(u, r, t)
  PROVE  NoNewLive
<1>1. ASSUME NEW t \in Tasks, Step(t)
      PROVE  NoNewLive
  <2>1. CASE RefuseActive(t) \/ PassActive(t) \/ RefuseStatus(t) \/ StartEngine(t)
    BY <2>1 DEF NoNewLive, RefuseActive, PassActive, RefuseStatus, StartEngine, tables
  <2>2. CASE Begin(t) \/ BeginRejects(t)
    BY <2>2 DEF NoNewLive, Begin, BeginRejects, SweptBy, Live, TypeOK, TablesTypeOK
  <2>3. CASE PrepareFails(t) \/ Finish(t)
    <3>1. owner' = owner
      BY <2>3 DEF PrepareFails, Finish, End
    <3>2. \A q \in Runs : status'[q] \in {status[q], "failed", "completed"}
      BY <2>3 DEF PrepareFails, Finish, End, MarkEnded, TypeOK, TablesTypeOK
    <3>3. QED
      BY <3>1, <3>2 DEF NoNewLive, Live
  <2>4. CASE EmitRow(t)
    BY <2>4 DEF NoNewLive, EmitRow
  <2>5. QED
    BY <1>1, <2>1, <2>2, <2>3, <2>4 DEF Step
<1>2. ASSUME NEW t \in Tasks, NEW r \in Runs, CallAgain(t, r)
      PROVE  NoNewLive
  BY <1>2 DEF NoNewLive, CallAgain, tables
<1>3. CASE Crash \/ UNCHANGED vars
  BY <1>3 DEF NoNewLive, Crash, vars, tables
<1>4. QED
  BY <1>1, <1>2, <1>3 DEF Next

LiveIsOwned == \A r \in Runs : status[r] \in Live => owner[r] \in Users

LEMMA GateStep ==
  ASSUME TypeOK, LiveIsOwned, OneLiveRunPerUser, [Next]_vars
  PROVE  LiveIsOwned' /\ OneLiveRunPerUser'
<1>1. ASSUME NEW u \in Users, NEW r \in Runs, NEW t \in Tasks, Post(u, r, t)
      PROVE  LiveIsOwned' /\ OneLiveRunPerUser'
  <2>1. /\ status'[r] = "queued" /\ owner'[r] = u
        /\ \A q \in Runs \ {r} : status'[q] = status[q] /\ owner'[q] = owner[q]
    BY <1>1 DEF Post, TypeOK, TablesTypeOK
  <2>2. \A q \in Runs : status[q] \in Live => owner[q] # u
    BY <1>1 DEF Post, ActiveRuns
  <2>3. QED
    BY <2>1, <2>2 DEF LiveIsOwned, OneLiveRunPerUser
<1>2. CASE NoNewLive
  BY <1>2 DEF NoNewLive, LiveIsOwned, OneLiveRunPerUser
<1>3. QED
  BY <1>1, <1>2, OnlyPostMakesLive

LEMMA GateInit == Init => LiveIsOwned /\ OneLiveRunPerUser
BY DEF Init, LiveIsOwned, OneLiveRunPerUser, Live

LEMMA Gate == Spec => [](LiveIsOwned /\ OneLiveRunPerUser)
<1>1. TypeOK /\ (LiveIsOwned /\ OneLiveRunPerUser) /\ [Next]_vars
        => (LiveIsOwned /\ OneLiveRunPerUser)'
  BY GateStep
<1>2. QED
  BY <1>1, GateInit, TypeCorrect, PTL DEF Spec

\* No account ever has two queued or running runs.
THEOREM OneLiveRun == Spec => []OneLiveRunPerUser
BY Gate, PTL

-----------------------------------------------------------------------------
(***************************************************************************)
(* With a single account the sweep of startRun finds nothing to fail: the  *)
(* gate has made sure that no other run is queued or running.  Then the    *)
(* executed run is marked running throughout, and every step is a step of  *)
(* RunContract or changes neither table.                                   *)
(***************************************************************************)
SingleUser == \A u, v \in Users : u = v

LEMMA SweepFindsNothing ==
  ASSUME SingleUser, LiveIsOwned, OneLiveRunPerUser, NEW r \in Runs, status[r] = "queued"
  PROVE  SweptBy(r) = {}
BY DEF SingleUser, LiveIsOwned, OneLiveRunPerUser, SweptBy, Live

ContractStep == [Contract!CNext]_(Contract!contractVars)

LEMMA UnchangedTables ==
  ASSUME ExecutingIsRunning, TypeOK, status' = status, rows' = rows,
         \A s \in Tasks : Executing(s)' => Executing(s) /\ run'[s] = run[s]
  PROVE  ExecutingIsRunning' /\ ContractStep
BY DEF ExecutingIsRunning, ContractStep, Contract!contractVars

LEMMA EndContract ==
  ASSUME ExecutingIsRunning, IInv, NEW t \in Tasks, Executing(t),
         NEW new \in Terminal, NEW reason, End(t, new, reason)
  PROVE  ExecutingIsRunning' /\ ContractStep
<1> DEFINE r == run[t]
<1>1. TypeOK /\ r \in Runs /\ status[r] = "running" /\ rows' = rows /\ Return(t)
  BY DEF IInv, TypeOK, TasksTypeOK, Executing, ExecutingIsRunning, End
<1>2. \A s \in Tasks : Executing(s)' => s # t /\ Executing(s) /\ run'[s] = run[s]
  BY <1>1, ReturnEffect DEF SameLocals
<1>3. \A s \in Tasks \ {t} : Executing(s) => run[s] \in Runs \ {r}
  BY DEF IInv, OneExecutionPerRun, TypeOK, TasksTypeOK, Executing
<1>4. CASE status' = [status EXCEPT ![r] = new]
  <2>1. \A q \in Runs \ {r} : status'[q] = status[q]
    BY <1>1, <1>4
  <2>2. ExecutingIsRunning'
    BY <1>2, <1>3, <2>1 DEF ExecutingIsRunning
  <2>3. Contract!Complete(r) \/ Contract!Fail(r)
    BY <1>1, <1>4 DEF Contract!Complete, Contract!Fail, Contract!Moves, Terminal
  <2>4. QED
    BY <1>1, <2>2, <2>3 DEF ContractStep, Contract!CNext
<1>5. CASE status' = status
  BY <1>1, <1>2, <1>5, UnchangedTables
<1>6. QED
  BY <1>4, <1>5 DEF End, MarkEnded

LEMMA SingleUserStep ==
  ASSUME SingleUser, IInv, LiveIsOwned, OneLiveRunPerUser, ExecutingIsRunning,
         [Next]_vars
  PROVE  ExecutingIsRunning' /\ ContractStep
<1>1. TypeOK /\ \A s \in Tasks : Executing(s) => run[s] \in Runs
  BY DEF IInv, TypeOK, TasksTypeOK, Executing
<1>2. ASSUME NEW u \in Users, NEW r \in Runs, NEW t \in Tasks, Post(u, r, t)
      PROVE  ExecutingIsRunning' /\ ContractStep
  <2>1. /\ status[r] = "absent" /\ rows' = rows
        /\ status' = [status EXCEPT ![r] = "queued"]
    BY <1>2 DEF Post
  <2>2. \A s \in Tasks : Executing(s)' => Executing(s) /\ run'[s] = run[s]
    BY <1>1, <1>2, CallEffect DEF Post, SameLocals
  <2>3. ExecutingIsRunning'
    BY <1>1, <2>1, <2>2 DEF ExecutingIsRunning, TypeOK, TablesTypeOK
  <2>4. Contract!Create(r)
    BY <2>1 DEF Contract!Create, Contract!Moves
  <2>5. QED
    BY <2>3, <2>4 DEF ContractStep, Contract!CNext
<1>3. ASSUME NEW t \in Tasks, NEW r \in Runs, CallAgain(t, r)
      PROVE  ExecutingIsRunning' /\ ContractStep
  <2>1. \A s \in Tasks : Executing(s)' => Executing(s) /\ run'[s] = run[s]
    BY <1>1, <1>3, CallEffect DEF CallAgain, SameLocals
  <2>2. QED
    BY <1>1, <1>3, <2>1, UnchangedTables DEF CallAgain, tables
<1>4. ASSUME NEW t \in Tasks, Step(t)
      PROVE  ExecutingIsRunning' /\ ContractStep
  <2>1. CASE RefuseActive(t) \/ RefuseStatus(t)
    <3>1. \A s \in Tasks : Executing(s)' => Executing(s) /\ run'[s] = run[s]
      BY <1>1, <2>1, ReturnEffect DEF RefuseActive, RefuseStatus, SameLocals
    <3>2. QED
      BY <1>1, <2>1, <3>1, UnchangedTables DEF RefuseActive, RefuseStatus, tables
  <2>2. CASE PassActive(t) \/ StartEngine(t)
    <3>1. \A s \in Tasks : Executing(s)' => Executing(s) /\ run'[s] = run[s]
      BY <1>1, <2>2, GotoEffect DEF PassActive, StartEngine, SameLocals, Executing
    <3>2. QED
      BY <1>1, <2>2, <3>1, UnchangedTables DEF PassActive, StartEngine, tables
  <2>3. CASE Begin(t)
    <3> DEFINE r == run[t]
    <3>1. r \in Runs /\ status[r] = "queued" /\ rows' = rows
      BY <1>1, <2>3 DEF Begin, Goto, TypeOK, TasksTypeOK
    <3>2. \A q \in Runs : status'[q] = IF q = r THEN "running" ELSE status[q]
      BY <1>1, <2>3, <3>1, SweepFindsNothing DEF Begin, TypeOK, TablesTypeOK
    <3>3. status' = [status EXCEPT ![r] = "running"]
      <4>1. status' \in [Runs -> Statuses] /\ status \in [Runs -> Statuses]
        BY <1>1, TypeStep DEF TypeOK, TablesTypeOK
      <4>2. QED
        BY <3>1, <3>2, <4>1
    <3>4. ExecutingIsRunning'
      <4>1. /\ \A s \in Tasks : run'[s] = run[s]
            /\ \A s \in Tasks \ {t} : Executing(s)' <=> Executing(s)
        BY <1>1, <2>3, GotoEffect DEF Begin, SameLocals
      <4>2. QED
        BY <1>1, <3>1, <3>2, <4>1 DEF ExecutingIsRunning
    <3>5. Contract!Start(r)
      BY <3>1, <3>3 DEF Contract!Start, Contract!Moves
    <3>6. QED
      BY <3>1, <3>4, <3>5 DEF ContractStep, Contract!CNext
  <2>4. CASE BeginRejects(t)
    <3>1. run[t] \in Runs /\ status[run[t]] = "queued" /\ rows' = rows /\ Return(t)
      BY <1>1, <2>4 DEF BeginRejects, TypeOK, TasksTypeOK
    <3>2. status' = status
      BY <1>1, <2>4, <3>1, SweepFindsNothing DEF BeginRejects, TypeOK, TablesTypeOK
    <3>3. \A s \in Tasks : Executing(s)' => Executing(s) /\ run'[s] = run[s]
      BY <1>1, <3>1, ReturnEffect DEF SameLocals
    <3>4. QED
      BY <1>1, <3>1, <3>2, <3>3, UnchangedTables
  <2>5. CASE PrepareFails(t)
    <3>1. Executing(t) /\ End(t, "failed", "reason") /\ "failed" \in Terminal
      BY <2>5 DEF PrepareFails, Executing, Terminal
    <3>2. QED
      BY <3>1, EndContract
  <2>6. CASE EmitRow(t)
    <3> DEFINE r == run[t]
               new == [order |-> nextOrder[t], event |-> emitted[t] + 1]
    <3>1. /\ r \in Runs /\ status[r] = "running" /\ UNCHANGED <<status, pc, run>>
          /\ Executing(t)
      BY <1>1, <2>6 DEF EmitRow, ExecutingIsRunning, Executing
    <3>2. ExecutingIsRunning'
      BY <3>1 DEF ExecutingIsRunning, Executing
    <3>3. CASE rows' = rows
      BY <3>1, <3>2, <3>3 DEF ContractStep, Contract!contractVars
    <3>4. CASE rows' = [rows EXCEPT ![r] = Append(@, new)]
      <4>1. /\ nextOrder[t] = Len(rows[r]) /\ UpTo(rows[r], emitted[t])
            /\ emitted[t] \in Nat /\ emitted[t] < MaxRows /\ rows[r] \in Seq(Row)
        BY <1>1, <2>6, <3>1
           DEF EmitRow, IInv, CountersMatch, TypeOK, TasksTypeOK, TablesTypeOK
      <4>2. emitted[t] + 1 \in 1..MaxRows
        BY <4>1, ConstantsAssumption
      <4>3. \A i \in 1..Len(rows[r]) : rows[r][i].event < emitted[t] + 1
        <5>1. \A i \in 1..Len(rows[r]) : rows[r][i] \in Row
          BY <4>1
        <5>2. QED
          BY <4>1, <5>1 DEF UpTo, Row
      <4>4. Contract!Record(r)
        BY <3>1, <3>4, <4>1, <4>2, <4>3 DEF Contract!Record
      <4>5. QED
        BY <3>1, <3>2, <4>4 DEF ContractStep, Contract!CNext
    <3>5. QED
      BY <2>6, <3>3, <3>4 DEF EmitRow
  <2>7. CASE Finish(t)
    <3>1. Executing(t) /\ End(t, "completed", error[run[t]]) /\ "completed" \in Terminal
      BY <2>7 DEF Finish, Executing, Terminal
    <3>2. QED
      BY <3>1, EndContract
  <2>8. QED
    BY <1>4, <2>1, <2>2, <2>3, <2>4, <2>5, <2>6, <2>7 DEF Step
<1>5. CASE Crash
  <2>1. \A s \in Tasks : ~Executing(s)'
    BY <1>5 DEF Crash, Executing
  <2>2. QED
    BY <1>1, <1>5, <2>1, UnchangedTables DEF Crash, tables
<1>6. CASE UNCHANGED vars
  <2>1. \A s \in Tasks : Executing(s)' => Executing(s) /\ run'[s] = run[s]
    BY <1>6 DEF vars, locals, Executing
  <2>2. QED
    BY <1>1, <1>6, <2>1, UnchangedTables DEF vars, tables
<1>7. QED
  BY <1>2, <1>3, <1>4, <1>5, <1>6 DEF Next

\* In a deployment with one account the table says "running" as long as a task
\* executes a run.
THEOREM SingleUserRunning == SingleUser => (Spec => []ExecutingIsRunning)
<1> SUFFICES ASSUME SingleUser PROVE Spec => []ExecutingIsRunning
  OBVIOUS
<1>1. Init => ExecutingIsRunning
  BY DEF Init, ExecutingIsRunning, Executing
<1>2. IInv /\ (LiveIsOwned /\ OneLiveRunPerUser) /\ ExecutingIsRunning /\ [Next]_vars
        => ExecutingIsRunning'
  BY SingleUserStep
<1>3. QED
  BY <1>1, <1>2, Inductive, Gate, PTL DEF Spec

\* In a deployment with one account the executor implements RunContract,
\* whatever crashes, write failures and repeated calls occur.
THEOREM SingleUserImplements == SingleUser => (Spec => ImplementsContract)
<1> SUFFICES ASSUME SingleUser PROVE Spec => ImplementsContract
  OBVIOUS
<1>1. Init => Contract!CInit
  BY DEF Init, Contract!CInit
<1>2. IInv /\ (LiveIsOwned /\ OneLiveRunPerUser) /\ ExecutingIsRunning /\ [Next]_vars
        => [Contract!CNext]_(Contract!contractVars)
  BY SingleUserStep DEF ContractStep
<1>3. Spec => []ExecutingIsRunning
  BY SingleUserRunning
<1>4. QED
  BY <1>1, <1>2, <1>3, Inductive, Gate, PTL DEF Spec, ImplementsContract, Contract!CSpec
=============================================================================
