CONSTANTS
  Sections <- MCSections
  PolicyLists <- MCPolicyLists
  AdminRoles <- MCAdminRoles
  DefaultsRoles <- MCDefaultsRoles
  OtherReads <- MCOtherReads
  MaxProbes = 2
  PrincipalSets <- MCPrincipalSets
  RegistrationSets <- MCRegistrationSets
  FewApps = 1
  AuthPolicies <- MCAuthPolicies

SPECIFICATION Spec
CHECK_DEADLOCK FALSE
INVARIANTS
  SaferNeverWorse
  
  OnlyEnforcedPoliciesCount
  DemandsAreNested
