SPECIFICATION Spec
CONSTANTS
  u1 = u1
  u2 = u2
  r1 = r1
  r2 = r2
  r3 = r3
  t1 = t1
  t2 = t2
  NoUser = NoUser
  NoRun = NoRun
  Users <- TwoUsers
  Runs <- ThreeRuns
  Tasks <- TwoTasks
  MaxRows = 2
  Limits <- Everything
SYMMETRY Symmetry
INVARIANT TypeOK
INVARIANT OneExecutionPerRun
INVARIANT OneLiveRunPerUser
INVARIANT RowsInOrder
PROPERTY CompletedIsFinal
\* Run ids are bounded: once they are used up nothing is left to do.
CHECK_DEADLOCK FALSE
