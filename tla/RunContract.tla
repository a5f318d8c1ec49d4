----------------------------- MODULE RunContract -----------------------------
(***************************************************************************)
(* What the run lifecycle promises to everybody who reads the runs and     *)
(* check_rows tables (dashboard, SSE snapshot, export): a run goes         *)
(* queued -> running -> completed or failed, its rows are added one at a   *)
(* time while it is running, and nothing changes once it has ended.        *)
(* RunLifecycle is the detailed specification.                             *)
(***************************************************************************)
EXTENDS Integers, Sequences

CONSTANTS Runs, MaxRows

VARIABLES status, rows

contractVars == <<status, rows>>

CInit ==
  /\ status = [r \in Runs |-> "absent"]
  /\ rows = [r \in Runs |-> <<>>]

Moves(r, from, to) ==
  /\ status[r] \in from
  /\ status' = [status EXCEPT ![r] = to]
  /\ UNCHANGED rows

Create(r)   == Moves(r, {"absent"}, "queued")
Start(r)    == Moves(r, {"queued"}, "running")
Complete(r) == Moves(r, {"running"}, "completed")
Fail(r)     == Moves(r, {"queued", "running"}, "failed")

\* One row is appended: it carries the next number, and comes from a later
\* engine event than the rows before it.
Record(r) ==
  /\ status[r] = "running"
  /\ \E e \in 1..MaxRows :
       /\ \A i \in 1..Len(rows[r]) : rows[r][i].event < e
       /\ rows' = [rows EXCEPT ![r] = Append(@, [order |-> Len(rows[r]), event |-> e])]
  /\ UNCHANGED status

CNext == \E r \in Runs :
  Create(r) \/ Start(r) \/ Complete(r) \/ Fail(r) \/ Record(r)

CSpec == CInit /\ [][CNext]_contractVars
=============================================================================
