SPECIFICATION FairSpec
CONSTANTS
  sectionIds <- ThreeSections
  Implemented <- TwoPorted
  BaseIds <- Ids
  Overlaid <- OverlaidIds
  Inputs <- Some
  Threshold = 2
  MaxRows <- Few
INVARIANT TypeOK
INVARIANT BreakerIsExact
INVARIANT CheckIdsAreUnique
INVARIANT StreamIsResult
PROPERTY ImplementsEventOrder
PROPERTY RunFinishes
\* The run ends.
CHECK_DEADLOCK FALSE
