SPECIFICATION Spec
CONSTANTS
  r1 = r1
  r2 = r2
  Roles <- MCRoles
  Tabs = {t1, t2}
  Calls = {k1, k2}
  MaxProviders = 2
  MaxBegun = 2
  MaxFaults = 1
  Demo <- MCDemo
  NoRole = NoRole
  NoTab = NoTab
SYMMETRY Symmetric
INVARIANTS TypeOK HeldByOne SuccessIsTrue SettledIsCurrent
CHECK_DEADLOCK FALSE
