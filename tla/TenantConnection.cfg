SPECIFICATION Spec
CONSTANTS
  Users = {ann, bob}
  Tabs = {t1, t2}
  MaxAttempts = 2
  MaxConnects = 2
  Tenants = {x, y}
  Roles <- MCRoles
  CallbackRoles <- MCCore
  VerifyRoles <- MCRoles
  Tolerant <- MCTolerant
  Admins = {ann, bob}
SYMMETRY MCSymmetry
INVARIANTS
  ConnectionTypeOK
  VerdictIsProved
  OnlyOwnConnects
  RunsAreOwn
PROPERTIES
  OnlyFreshIsExchanged
  DisconnectSticks
CHECK_DEADLOCK FALSE
