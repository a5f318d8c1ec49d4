---------------------------- MODULE RunLifecycle ----------------------------
(***************************************************************************)
(* The life of an assessment run: the transactional gate of POST           *)
(* /api/runs, the startRun invocations of the executor (an in-process,     *)
(* fire-and-forget task per run) and the runs and check_rows tables of the *)
(* embedded SQLite database.                                               *)
(*                                                                         *)
(* The server is one Node.js process and every database call is            *)
(* synchronous, so the code between two awaits is one step.  A task waits  *)
(* at: the database handle ("database"), the dynamic imports ("import"),   *)
(* the secret and the tokens ("prepare"), the engine's network calls       *)
(* ("engine").  A crash loses the tasks and the activeExecutions set; the  *)
(* tables survive it.                                                      *)
(***************************************************************************)
EXTENDS Integers, Sequences

CONSTANTS
  Users,      \* signed-in accounts
  Runs,       \* run ids that crypto.randomUUID can still return
  Tasks,      \* bound on concurrent startRun invocations
  NoUser, NoRun,
  MaxRows,    \* bound on the rows the engine emits in one run
  Limits      \* bound on the process crashes, failing database writes and
              \* startRun calls beyond the one each POST makes

ASSUME ConstantsAssumption ==
  /\ NoUser \notin Users
  /\ NoRun \notin Runs
  /\ MaxRows \in Nat
  /\ Limits \in [{"crash", "write", "call"} -> Nat]

VARIABLES
  status,     \* runs.status, "absent" while the id is unused
  owner,      \* runs.userId
  error,      \* runs.error: none, the restart sentence, or another reason
  rows,       \* check_rows of each run, in insertion order
  active,     \* activeExecutions, the executor's in-memory set
  pc,         \* where each startRun invocation waits
  run,        \* the run id it was called with
  nextOrder,  \* its local row counter
  emitted,    \* check-completed events the engine has emitted into its sink
  left        \* what remains of Limits

tables   == <<status, owner, error, rows>>
locals   == <<pc, run, nextOrder, emitted>>
vars     == <<tables, active, locals, left>>

Live     == {"queued", "running"}
Terminal == {"completed", "failed"}
Statuses == {"absent"} \union Live \union Terminal
Waiting  == {"database", "import", "prepare", "engine"}
Reasons  == {"none", "restart", "reason"}

Row == [order : Nat, event : Nat]

TablesTypeOK ==
  /\ status \in [Runs -> Statuses]
  /\ owner \in [Runs -> Users \union {NoUser}]
  /\ error \in [Runs -> Reasons]
  /\ rows \in [Runs -> Seq(Row)]

TasksTypeOK ==
  /\ pc \in [Tasks -> Waiting \union {"idle"}]
  /\ run \in [Tasks -> Runs \union {NoRun}]
  /\ \A t \in Tasks : pc[t] # "idle" => run[t] \in Runs
  /\ nextOrder \in [Tasks -> Nat]
  /\ emitted \in [Tasks -> Nat]

LimitsTypeOK == left \in [{"crash", "write", "call"} -> Nat]

\* Type invariant; a task that is not idle has a run id.
TypeOK == TablesTypeOK /\ TasksTypeOK /\ LimitsTypeOK /\ active \in SUBSET Runs

Init ==
  /\ status = [r \in Runs |-> "absent"]
  /\ owner = [r \in Runs |-> NoUser]
  /\ error = [r \in Runs |-> "none"]
  /\ rows = [r \in Runs |-> <<>>]
  /\ active = {}
  /\ pc = [t \in Tasks |-> "idle"]
  /\ run = [t \in Tasks |-> NoRun]
  /\ nextOrder = [t \in Tasks |-> 0]
  /\ emitted = [t \in Tasks |-> 0]
  /\ left = Limits

Spend(what) ==
  /\ left[what] > 0
  /\ left' = [left EXCEPT ![what] = @ - 1]

\* A database write either happens or throws.
WriteOk    == UNCHANGED left
WriteFails == Spend("write")

-----------------------------------------------------------------------------
(* Tasks *)

Call(t, r) ==
  /\ pc[t] = "idle"
  /\ pc' = [pc EXCEPT ![t] = "database"]
  /\ run' = [run EXCEPT ![t] = r]
  /\ UNCHANGED <<nextOrder, emitted>>

Goto(t, from, to) ==
  /\ pc[t] = from
  /\ pc' = [pc EXCEPT ![t] = to]
  /\ UNCHANGED <<run, nextOrder, emitted>>

\* Seeded fault: the invocation goes on after it has given up its run.
ReturnFault(t) ==
  /\ pc' = pc
  /\ run' = [run EXCEPT ![t] = NoRun]
  /\ nextOrder' = [nextOrder EXCEPT ![t] = 0]
  /\ emitted' = [emitted EXCEPT ![t] = 0]

Return(t) ==
  /\ pc' = [pc EXCEPT ![t] = "idle"]
  /\ run' = [run EXCEPT ![t] = NoRun]
  /\ nextOrder' = [nextOrder EXCEPT ![t] = 0]
  /\ emitted' = [emitted EXCEPT ![t] = 0]

-----------------------------------------------------------------------------
(* POST /api/runs: createRunIfAbsent and the un-awaited startRun call *)

\* Seeded fault: the gate overlooks runs that are already running.
ActiveRunsFault(u) == {r \in Runs : owner[r] = u /\ status[r] = "queued"}

ActiveRuns(u) == {r \in Runs : owner[r] = u /\ status[r] \in Live}

Post(u, r, t) ==
  /\ ActiveRuns(u) = {}
  /\ status[r] = "absent"
  /\ status' = [status EXCEPT ![r] = "queued"]
  /\ owner' = [owner EXCEPT ![r] = u]
  /\ Call(t, r)
  /\ UNCHANGED <<error, rows, active, left>>

\* Another caller of the exported startRun, for a run that exists.
CallAgain(t, r) ==
  /\ status[r] # "absent"
  /\ Spend("call")
  /\ Call(t, r)
  /\ UNCHANGED <<tables, active>>

-----------------------------------------------------------------------------
(* startRun *)

RefuseActive(t) ==
  /\ pc[t] = "database"
  /\ run[t] \in active
  /\ Return(t)
  /\ UNCHANGED <<tables, active, left>>

PassActive(t) ==
  /\ Goto(t, "database", "import")
  /\ run[t] \notin active
  /\ UNCHANGED <<tables, active, left>>

RefuseStatus(t) ==
  /\ pc[t] = "import"
  /\ status[run[t]] # "queued"
  /\ Return(t)
  /\ UNCHANGED <<tables, active, left>>

\* Seeded fault: the sweep also rewrites runs that have completed.
SweptByFault(r) == {q \in Runs \ {r} : status[q] \in Live \union {"completed"}}

\* Every queued or running run except r, whoever owns it.
SweptBy(r) == {q \in Runs \ {r} : status[q] \in Live}

\* Seeded fault: the status is trusted from before the awaits.
BeginFaultStale(t) ==
  /\ Goto(t, "import", "prepare")
  /\ active' = active \union {run[t]}
  /\ status' = [status EXCEPT ![run[t]] = "running"]
  /\ WriteOk
  /\ UNCHANGED <<owner, rows, error>>

\* Seeded fault: the engine is started on a run that was never marked running.
BeginFaultUnmarked(t) ==
  /\ Goto(t, "import", "prepare")
  /\ status[run[t]] = "queued"
  /\ active' = active \union {run[t]}
  /\ UNCHANGED <<tables, left>>

\* The run is swept around and marked running in one step.  The code's second
\* read of the status cannot differ from the first: no await lies between.
Begin(t) ==
  /\ Goto(t, "import", "prepare")
  /\ status[run[t]] = "queued"
  /\ active' = active \union {run[t]}
  /\ \/ /\ status' = [q \in Runs |-> IF q \in SweptBy(run[t]) THEN "failed"
                                     ELSE IF q = run[t] THEN "running"
                                     ELSE status[q]]
        /\ error' = [q \in Runs |-> IF q \in SweptBy(run[t]) THEN "restart" ELSE error[q]]
        /\ WriteOk
     \/ /\ status' = [status EXCEPT ![run[t]] = "running"]   \* sweep throws, caught
        /\ error' = error
        /\ WriteFails
  /\ UNCHANGED <<owner, rows>>

\* markRunRunning throws outside every try: the promise rejects, the caller
\* ignores it, and nothing removes the id from activeExecutions.
BeginRejects(t) ==
  /\ pc[t] = "import"
  /\ status[run[t]] = "queued"
  /\ active' = active \union {run[t]}
  /\ status' = [q \in Runs |-> IF q \in SweptBy(run[t]) THEN "failed" ELSE status[q]]
  /\ error' = [q \in Runs |-> IF q \in SweptBy(run[t]) THEN "restart" ELSE error[q]]
  /\ WriteFails
  /\ Return(t)
  /\ UNCHANGED <<owner, rows>>

\* markRunCompleted and markRunFailed update by id alone; an exception is
\* swallowed at every call.
MarkEnded(r, new, reason) ==
  \/ /\ status' = [status EXCEPT ![r] = new]
     /\ error' = [error EXCEPT ![r] = reason]
     /\ WriteOk
  \/ /\ UNCHANGED <<status, error>>
     /\ WriteFails

End(t, new, reason) ==
  /\ MarkEnded(run[t], new, reason)
  /\ active' = active \ {run[t]}
  /\ Return(t)
  /\ UNCHANGED <<owner, rows>>

\* Seeded fault: the preparation error is not written to the run.
PrepareFailsFault(t) ==
  /\ pc[t] = "prepare"
  /\ active' = active \ {run[t]}
  /\ Return(t)
  /\ UNCHANGED <<tables, left>>

\* No secret, no client id, no Graph token; or runEngine rejects, which it does
\* only before run-started, when the controls cannot be loaded.
PrepareFails(t) ==
  /\ pc[t] = "prepare"
  /\ End(t, "failed", "reason")

StartEngine(t) ==
  /\ Goto(t, "prepare", "engine")
  /\ UNCHANGED <<tables, active, left>>

\* Seeded fault: the counter advances although the insert threw.
EmitRowFault(t) ==
  /\ pc[t] = "engine"
  /\ emitted[t] < MaxRows
  /\ emitted' = [emitted EXCEPT ![t] = @ + 1]
  /\ nextOrder' = [nextOrder EXCEPT ![t] = @ + 1]
  /\ \/ /\ rows' = [rows EXCEPT ![run[t]] =
                      Append(@, [order |-> nextOrder[t], event |-> emitted[t] + 1])]
        /\ WriteOk
     \/ /\ rows' = rows
        /\ WriteFails
  /\ UNCHANGED <<status, owner, error, active, pc, run>>

\* sink.emit(check-completed): appendCheckRows inserts the row and the counter
\* advances, or the insert throws and both stay.
EmitRow(t) ==
  /\ pc[t] = "engine"
  /\ emitted[t] < MaxRows
  /\ emitted' = [emitted EXCEPT ![t] = @ + 1]
  /\ \/ /\ rows' = [rows EXCEPT ![run[t]] =
                      Append(@, [order |-> nextOrder[t], event |-> emitted[t] + 1])]
        /\ nextOrder' = [nextOrder EXCEPT ![t] = @ + 1]
        /\ WriteOk
     \/ /\ UNCHANGED <<rows, nextOrder>>
        /\ WriteFails
  /\ UNCHANGED <<status, owner, error, active, pc, run>>

Finish(t) ==
  /\ pc[t] = "engine"
  /\ End(t, "completed", error[run[t]])

-----------------------------------------------------------------------------
(* The process *)

Crash ==
  /\ Spend("crash")
  /\ active' = {}
  /\ pc' = [t \in Tasks |-> "idle"]
  /\ run' = [t \in Tasks |-> NoRun]
  /\ nextOrder' = [t \in Tasks |-> 0]
  /\ emitted' = [t \in Tasks |-> 0]
  /\ UNCHANGED tables

Step(t) ==
  \/ RefuseActive(t) \/ PassActive(t) \/ RefuseStatus(t)
  \/ Begin(t) \/ BeginRejects(t)
  \/ PrepareFails(t) \/ StartEngine(t) \/ EmitRow(t) \/ Finish(t)

Next ==
  \/ \E u \in Users, r \in Runs, t \in Tasks : Post(u, r, t)
  \/ \E t \in Tasks, r \in Runs : CallAgain(t, r)
  \/ \E t \in Tasks : Step(t)
  \/ Crash

Spec == Init /\ [][Next]_vars

\* The event loop runs every resumed continuation, and the fetch timeouts end
\* every await of a task, so a task keeps moving.  Users and crashes need not.
FairSpec == Spec /\ \A t \in Tasks : WF_vars(Step(t))

-----------------------------------------------------------------------------
(* Properties *)

Executing(t) == pc[t] \in {"prepare", "engine"}

\* However often startRun is called for a run, and however the calls
\* interleave at their awaits, at most one of them executes it.
OneExecutionPerRun ==
  \A s, t \in Tasks : Executing(s) /\ Executing(t) /\ run[s] = run[t] => s = t

\* The gate of createRunIfAbsent: no account ever has two runs that are queued
\* or running, whatever sweeps, crashes and failing writes do to the table.
OneLiveRunPerUser ==
  \A q, r \in Runs :
    status[q] \in Live /\ status[r] \in Live /\ owner[q] = owner[r] => q = r

InOrder(stored) ==
  \A i \in 1..Len(stored) :
    /\ stored[i].order = i - 1
    /\ i > 1 => stored[i - 1].event < stored[i].event

\* The stored rows of a run are numbered 0, 1, 2, ... without gap or repeat and
\* lie in the order in which the engine emitted them: listCheckRows sorts by
\* rowOrder alone, and a run that were executed again after a crash, or twice
\* at once, would number its rows from 0 a second time.
RowsInOrder == \A r \in Runs : InOrder(rows[r])

\* A completed run is what the export route renders: neither its status nor its
\* rows change again, through late emits, sweeps or another startRun.
CompletedIsFinal ==
  [][\A r \in Runs : status[r] = "completed" =>
       status'[r] = "completed" /\ rows'[r] = rows[r]]_vars

\* While a task executes a run the table says "running", so that a second POST
\* is refused and the pages show progress.
ExecutingIsRunning ==
  \A t \in Tasks : Executing(t) => status[run[t]] = "running"

\* A process has crashed or a write has failed: what the code does not recover.
Disturbed == left["crash"] < Limits["crash"] \/ left["write"] < Limits["write"]

\* Every accepted run ends, completed or failed, and the gate is lifted again,
\* as long as the process lives and its writes succeed.
EveryRunEnds ==
  \A r \in Runs : status[r] = "queued" ~> (status[r] \in Terminal \/ Disturbed)

\* The tables go through the life cycle of RunContract.
Contract == INSTANCE RunContract
ImplementsContract == Contract!CSpec

-----------------------------------------------------------------------------
(* A statement of a comment that the code does not meet *)

\* run-executor.ts:171 "Sweep interrupted runs before starting": only a run
\* that a restart interrupted is failed as such, never one this process runs.
SweptWasInterrupted == \A t \in Tasks : Executing(t) => error[run[t]] # "restart"
=============================================================================
