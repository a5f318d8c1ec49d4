CONSTANTS
  MaxDomains = 2
  Zones <- MCZones
  MaxFaults = 2

SPECIFICATION Spec
CHECK_DEADLOCK FALSE
INVARIANT SpfPassMeansSpf
