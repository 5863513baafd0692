SPECIFICATION Spec
CONSTANTS
  tenantBudget = tenantBudget
  tokenBudget = tokenBudget
  r1 = r1
  r2 = r2
  r3 = r3
  c1 = c1
  c2 = c2
  c3 = c3
  Budgets = {tenantBudget}
  Scope <- TenantOnly
  Reservations = {r1}
  Calls = {c1, c2}
  Limits = {3}
  Estimates = {1}
  Amounts = {1, 2}
  CallsMayFail = FALSE
  MaxAdminUpdates = 0
  MaxWindows = 0
SYMMETRY Symmetry
INVARIANTS
  LateCostsCharged
CHECK_DEADLOCK FALSE
