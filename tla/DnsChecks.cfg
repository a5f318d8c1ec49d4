CONSTANTS
  MaxDomains = 2
  Zones <- MCZones
  MaxFaults = 3

SPECIFICATION Spec
CHECK_DEADLOCK FALSE
INVARIANTS
  VerdictsFollowZones
  AskedAtMostTwice
