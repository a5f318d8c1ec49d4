SPECIFICATION Spec
CONSTANTS
  Users = {ann}
  Tabs = {t1, t2}
  MaxAttempts = 1
  MaxConnects = 2
  Tenants = {x, y}
  Roles <- MCRoles
  CallbackRoles <- MCCore
  VerifyRoles <- MCRoles
  Tolerant <- MCTolerant
  Admins = {ann}
INVARIANTS
  VerificationIsOfTenant
CHECK_DEADLOCK FALSE
