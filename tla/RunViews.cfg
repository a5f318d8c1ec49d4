CONSTANTS
  NumSections = 2
  Inputs <- MCInputs
  MaxRows <- MCMaxRows
  MaxDrops = 1
  Bases <- MCBases
  Severity <- MCSeverity
  Registry <- MCRegistry

SPECIFICATION ProgressSpec
\* The run ends and its page has been told.
CHECK_DEADLOCK FALSE
INVARIANTS
  RunningIsCurrent
  PageMatchesReport
  RemediationIsSorted
  FrameworksCountOnce
