SPECIFICATION StreamsFairSpec
CONSTANTS
  u1 = u1
  r1 = r1
  t1 = t1
  t2 = t2
  p1 = p1
  s1 = s1
  s2 = s2
  NoUser = NoUser
  NoRun = NoRun
  NoStream = NoStream
  Users <- OneUser
  Runs <- OneRun
  Tasks <- TwoTasks
  MaxRows = 2
  Limits <- Everything
  Pages <- OnePage
  Streams <- TwoStreams
  MaxDrops = 2
INVARIANT StreamsTypeOK
INVARIANT PageMissesNothing
INVARIANT OverMeansUnsubscribed
PROPERTY CompletionIsAnnounced
PROPERTY ImplementsContract
PROPERTY EveryRunEnds
\* Run ids are bounded: once they are used up nothing is left to do.
CHECK_DEADLOCK FALSE
