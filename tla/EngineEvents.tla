---------------------------- MODULE EngineEvents ----------------------------
(***************************************************************************)
(* The order of events that engine-events.ts promises the consumers of a   *)
(* run's stream:                                                           *)
(*   run-started, (section-started, (check-completed | graph-call |        *)
(*   page-cap-warning)*, section-error?, section-finished)*, run-finished  *)
(* with the sections in the order in which they were asked for.            *)
(***************************************************************************)
EXTENDS Naturals

CONSTANT NumSections

VARIABLES
  last,   \* the latest event, "none" before the run
  at      \* the number of sections that have started

EInit == last = "none" /\ at = 0

RunStarted == last = "none" /\ last' = "run-started" /\ at' = at

SectionStarted ==
  /\ last \in {"run-started", "section-finished"}
  /\ at < NumSections
  /\ last' = "section-started"
  /\ at' = at + 1

Collecting == {"section-started", "check-completed", "graph-call", "page-cap-warning"}

Collected ==
  /\ last \in Collecting
  /\ last' \in Collecting \ {"section-started"}
  /\ at' = at

SectionError == last \in Collecting /\ last' = "section-error" /\ at' = at

SectionFinished ==
  /\ last \in Collecting \union {"section-error"}
  /\ last' = "section-finished"
  /\ at' = at

RunFinished ==
  /\ last \in {"run-started", "section-finished"}
  /\ at = NumSections
  /\ last' = "run-finished"
  /\ at' = at

ENext ==
  \/ RunStarted \/ SectionStarted \/ Collected
  \/ SectionError \/ SectionFinished \/ RunFinished

ESpec == EInit /\ [][ENext]_<<last, at>>
=============================================================================
