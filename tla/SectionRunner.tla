---------------------------- MODULE SectionRunner ----------------------------
(***************************************************************************)
(* runEngine: the sections of one run, executed one after another, each    *)
(* with its own circuit breaker and check-id counters; a collector that    *)
(* throws ends its section and not the run; the licensing overlay rewrites *)
(* the result at the end.                                                  *)
(*                                                                         *)
(* A collector is unknown code that calls addRow any number of times, may  *)
(* throw, and may store the tenant's SKUs.  A row keeps what the runner    *)
(* decides about it: base check id, sub-number, status, skip reason.       *)
(***************************************************************************)
EXTENDS Integers, Sequences, FiniteSets

CONSTANTS
  sectionIds,   \* the sections asked for, a sequence
  Implemented,  \* the sections with an entry in implementations
  BaseIds,      \* base check ids; "" is the empty id
  Overlaid,     \* base ids with required plans in the overlay
  Inputs,       \* base id and status of the rows each section's collector may add
  Threshold,    \* CIRCUIT_BREAKER_THRESHOLD
  MaxRows       \* bound on the rows of each section

PsStatus == {"Pass", "Fail", "Warn", "Warning", "Review", "Info", "Skipped",
             "Unknown", "NotApplicable", "NotLicensed", "Error"}

Sections == 1..Len(sectionIds)

ASSUME RunnerAssumption ==
  /\ sectionIds \in Seq(STRING)
  /\ BaseIds \subseteq STRING
  /\ Inputs \in [Sections -> SUBSET [base : BaseIds, ps : PsStatus]]
  /\ Threshold \in Nat \ {0}
  /\ MaxRows \in [Sections -> Nat]

VARIABLES
  pc,            \* where runEngine is
  at,            \* sections entered by the loop
  rows,          \* rows of the current section
  consecutiveFailures,
  counters,      \* sub-numbers given out in the current section
  sectionError,  \* "none", or what ended the section
  results,       \* SectionResult of every section that has ended
  skus,          \* shared subscribedSkus: none, or whether a plan is active
  streamed,      \* rows handed to the sink, by section
  last           \* the latest event emitted

current == <<rows, consecutiveFailures, counters, sectionError>>
vars    == <<pc, at, current, results, skus, streamed, last>>

Errors   == {"none", "not implemented", "error", "fatal"}
Row      == [base : BaseIds, number : Nat,
             status : {"Pass", "Fail", "Warning", "Review", "Info", "Skipped"},
             skipReason : {"none", "not_applicable", "not_licensed", "graph_error",
                           "circuit_broken"}]

\* Type invariant; the loop is never past the last section.
TypeOK ==
  /\ pc \in {"start", "loop", "collect", "close", "done"}
  /\ at \in 0..Len(sectionIds)
  /\ rows \in Seq(Row)
  /\ consecutiveFailures \in 0..Threshold
  /\ counters \in [BaseIds -> Nat]
  /\ sectionError \in Errors
  /\ results \in Seq([rows : Seq(Row), error : Errors])
  /\ Len(results) = IF pc \in {"collect", "close"} THEN at - 1 ELSE at
  /\ skus \in {"none", "active", "inactive"}
  /\ streamed \in [Sections -> Seq(Row)]

Init ==
  /\ pc = "start"
  /\ at = 0
  /\ rows = <<>>
  /\ consecutiveFailures = 0
  /\ counters = [b \in BaseIds |-> 0]
  /\ sectionError = "none"
  /\ results = <<>>
  /\ skus = "none"
  /\ streamed = [i \in Sections |-> <<>>]
  /\ last = "none"

-----------------------------------------------------------------------------
(* Statuses, sub-numbers and the breaker *)

Mapped(status) == [status |-> status, skipReason |-> "none"]
Skipped(reason) == [status |-> "Skipped", skipReason |-> reason]

mapStatus(ps) ==
  CASE ps \in {"Pass", "Fail", "Warning", "Review", "Info"} -> Mapped(ps)
    [] ps = "Warn"                         -> Mapped("Warning")
    [] ps = "Unknown"                      -> Mapped("Review")
    [] ps \in {"NotApplicable", "Skipped"} -> Skipped("not_applicable")
    [] ps = "NotLicensed"                  -> Skipped("not_licensed")
    [] ps = "Error"                        -> Skipped("graph_error")

shouldTrip == consecutiveFailures >= Threshold

\* The empty id is passed through and counted nowhere.
subNumber(base) == IF base = "" THEN 0 ELSE counters[base] + 1
Count(base) ==
  counters' = IF base = "" THEN counters ELSE [counters EXCEPT ![base] = @ + 1]

-----------------------------------------------------------------------------
(* addRow *)

Emit(base, verdict) ==
  LET row == [base |-> base, number |-> subNumber(base),
              status |-> verdict.status, skipReason |-> verdict.skipReason]
  IN /\ rows' = Append(rows, row)
     /\ streamed' = [streamed EXCEPT ![at] = Append(@, row)]
     /\ last' = "check-completed"
     /\ Count(base)

\* Seeded fault: broken rows are kept for the result but not emitted.
AddBrokenRowFault(base) ==
  /\ pc = "collect" /\ Len(rows) < MaxRows[at]
  /\ shouldTrip
  /\ rows' = Append(rows, [base |-> base, number |-> subNumber(base),
                           status |-> "Skipped", skipReason |-> "circuit_broken"])
  /\ Count(base)
  /\ UNCHANGED <<pc, at, consecutiveFailures, sectionError, results, skus, streamed, last>>

AddBrokenRow(base) ==
  /\ pc = "collect" /\ Len(rows) < MaxRows[at]
  /\ shouldTrip
  /\ Emit(base, Skipped("circuit_broken"))
  /\ UNCHANGED <<pc, at, consecutiveFailures, sectionError, results, skus>>

\* Seeded fault: a completed row does not reset the streak.
AddRowFault(base, ps) ==
  /\ pc = "collect" /\ Len(rows) < MaxRows[at]
  /\ ~shouldTrip
  /\ Emit(base, mapStatus(ps))
  /\ consecutiveFailures' = IF mapStatus(ps) = Skipped("graph_error")
                            THEN consecutiveFailures + 1 ELSE consecutiveFailures
  /\ UNCHANGED <<pc, at, sectionError, results, skus>>

AddRow(base, ps) ==
  /\ pc = "collect" /\ Len(rows) < MaxRows[at]
  /\ ~shouldTrip
  /\ Emit(base, mapStatus(ps))
  /\ consecutiveFailures' = IF mapStatus(ps) = Skipped("graph_error")
                            THEN consecutiveFailures + 1 ELSE 0
  /\ UNCHANGED <<pc, at, sectionError, results, skus>>

-----------------------------------------------------------------------------
(* What else a collector does *)

\* A page of a Graph request, or its page cap; nothing is kept of either.
GraphCall ==
  /\ pc = "collect"
  /\ last' \in {"graph-call", "page-cap-warning"}
  /\ UNCHANGED <<pc, at, current, results, skus, streamed>>

\* The licensing collector's ctx.shared.set("subscribedSkus", ...).
StoreSkus ==
  /\ pc = "collect"
  /\ skus' \in {"active", "inactive"}
  /\ UNCHANGED <<pc, at, current, results, streamed, last>>

-----------------------------------------------------------------------------
(* The loop over the sections *)

Start ==
  /\ pc = "start"
  /\ pc' = "loop"
  /\ last' = "run-started"
  /\ UNCHANGED <<at, current, results, skus, streamed>>

\* Seeded fault: the sub-numberer is shared by the sections.
EnterFault ==
  /\ pc = "loop" /\ at < Len(sectionIds)
  /\ at' = at + 1
  /\ pc' = "collect"
  /\ rows' = <<>>
  /\ consecutiveFailures' = 0
  /\ sectionError' = "none"
  /\ last' = "section-started"
  /\ UNCHANGED <<counters, results, skus, streamed>>

\* Seeded fault: the loop runs once too often.
EnterFaultBeyond ==
  /\ pc = "loop" /\ at <= Len(sectionIds)
  /\ at' = at + 1
  /\ pc' = "collect"
  /\ rows' = <<>>
  /\ consecutiveFailures' = 0
  /\ counters' = [b \in BaseIds |-> 0]
  /\ sectionError' = "none"
  /\ last' = "section-started"
  /\ UNCHANGED <<results, skus, streamed>>

\* A fresh breaker, fresh counters and no rows.
Enter ==
  /\ pc = "loop" /\ at < Len(sectionIds)
  /\ at' = at + 1
  /\ pc' = "collect"
  /\ rows' = <<>>
  /\ consecutiveFailures' = 0
  /\ counters' = [b \in BaseIds |-> 0]
  /\ sectionError' = "none"
  /\ last' = "section-started"
  /\ UNCHANGED <<results, skus, streamed>>

IsImplemented == sectionIds[at] \in Implemented

SectionFails(error) ==
  /\ pc' = "close"
  /\ sectionError' = error
  /\ last' = "section-error"
  /\ UNCHANGED <<at, rows, consecutiveFailures, counters, results, skus, streamed>>

\* Seeded fault: a section without an implementation is passed over.
NotImplementedFault ==
  /\ pc = "collect" /\ ~IsImplemented
  /\ pc' = "loop"
  /\ results' = Append(results, [rows |-> rows, error |-> "not implemented"])
  /\ UNCHANGED <<at, current, skus, streamed, last>>

NotImplemented ==
  /\ pc = "collect" /\ ~IsImplemented
  /\ SectionFails("not implemented")

\* Seeded fault: what the collector throws leaves runEngine.
ThrowFault ==
  /\ pc = "collect" /\ IsImplemented
  /\ pc' = "done"
  /\ UNCHANGED <<at, current, results, skus, streamed, last>>

\* Whatever the collector throws is caught; "fatal" is a TransportFatalError.
Throw ==
  /\ pc = "collect" /\ IsImplemented
  /\ \E error \in {"error", "fatal"} : SectionFails(error)

Return ==
  /\ pc = "collect" /\ IsImplemented
  /\ pc' = "close"
  /\ UNCHANGED <<at, current, results, skus, streamed, last>>

\* The partial rows of a section that failed are kept.
Finish ==
  /\ pc = "close"
  /\ pc' = "loop"
  /\ results' = Append(results, [rows |-> rows, error |-> sectionError])
  /\ last' = "section-finished"
  /\ UNCHANGED <<at, current, skus, streamed>>

-----------------------------------------------------------------------------
(* The licensing overlay *)

\* A row is gated by its base id when no plan it requires is active.
applyLicensingOverlay(list) ==
  [i \in 1..Len(list) |->
     IF list[i].base \in Overlaid /\ skus = "inactive"
     THEN [list[i] EXCEPT !.status = "Skipped", !.skipReason = "not_licensed"]
     ELSE list[i]]

FinishRun ==
  /\ pc = "loop" /\ at = Len(sectionIds)
  /\ pc' = "done"
  /\ results' = IF skus = "none" THEN results
                ELSE [i \in 1..Len(results) |->
                        [results[i] EXCEPT !.rows = applyLicensingOverlay(@)]]
  /\ last' = "run-finished"
  /\ UNCHANGED <<at, current, skus, streamed>>

Collect ==
  /\ pc = "collect" /\ IsImplemented
  /\ \/ \E input \in Inputs[at] : AddBrokenRow(input.base)
     \/ \E input \in Inputs[at] : AddRow(input.base, input.ps)
     \/ GraphCall
     \/ StoreSkus

Next ==
  \/ Start \/ Enter \/ Collect
  \/ NotImplemented \/ Throw \/ Return
  \/ Finish \/ FinishRun

Spec == Init /\ [][Next]_vars

\* Every collector returns or throws: the transport bounds its retries and pages.
FairSpec ==
  Spec /\ WF_vars(Start) /\ WF_vars(Enter) /\ WF_vars(NotImplemented)
       /\ WF_vars(Throw \/ Return) /\ WF_vars(Finish) /\ WF_vars(FinishRun)

-----------------------------------------------------------------------------
(* Properties *)

IsGraphError(row) == row.status = "Skipped" /\ row.skipReason = "graph_error"
IsBroken(row)     == row.skipReason = "circuit_broken"

\* The breaker, by definition: a row is broken exactly when Threshold rows in a
\* row before it, in its section, are surfaced Graph errors.
BreaksRightly(list) ==
  \A i \in 1..Len(list) :
    IsBroken(list[i]) <=>
      \E first \in 1..(i - Threshold) :
        \A j \in first..(first + Threshold - 1) : IsGraphError(list[j])

\* A section's breaker trips after Threshold consecutive errors, stays tripped
\* for the rest of the section, and says nothing about the next section.
BreakerIsExact == \A i \in Sections : BreaksRightly(streamed[i])

\* The n-th row of a base check id in a section is numbered n, so that no two
\* rows of a section have the same check id; broken rows count too.
NumberedInOrder(list) ==
  \A i \in 1..Len(list) :
    list[i].number =
      IF list[i].base = "" THEN 0
      ELSE Cardinality({j \in 1..i : list[j].base = list[i].base})

CheckIdsAreUnique == \A i \in Sections : NumberedInOrder(streamed[i])

\* What consumers saw row by row is what the result says, section by section,
\* whether the collector returned or threw: the executor stores the former.
StreamIsResult ==
  /\ pc # "done" =>
       \A i \in 1..Len(results) : results[i].rows = streamed[i]
  /\ pc = "done" =>
       \A i \in Sections :
         /\ Len(results[i].rows) = Len(streamed[i])
         /\ \A j \in 1..Len(streamed[i]) :
              \/ results[i].rows[j] = streamed[i][j]
              \/ /\ skus = "inactive"
                 /\ streamed[i][j].base \in Overlaid
                 /\ results[i].rows[j].skipReason = "not_licensed"

\* The events keep the order that engine-events.ts promises.
Events == INSTANCE EngineEvents WITH NumSections <- Len(sectionIds)
ImplementsEventOrder == Events!ESpec

\* Whatever the sections do, every one is attempted and the run finishes.
RunFinishes == <>(pc = "done" /\ Len(results) = Len(sectionIds))
=============================================================================
