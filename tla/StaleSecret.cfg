SPECIFICATION Spec
CONSTANTS
  c1 = c1
  c2 = c2
  t1 = t1
  s1 = s1
  s2 = s2
  Callers <- TwoCallers
  Tenants <- OneTenant
  Secrets <- TwoSecrets
  None = None
  Margin = 1
  Lifetime = 3
  maxPages = 2
  maxRetries = 1
INVARIANT GrantUsesCallersSecret
