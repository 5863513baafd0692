SPECIFICATION Spec
CONSTANTS
  tenantBudget = tenantBudget
  tokenBudget = tokenBudget
  r1 = r1
  r2 = r2
  r3 = r3
  c1 = c1
  c2 = c2
  c3 = c3
  Budgets = {tenantBudget, tokenBudget}
  Scope <- TwoScopes
  Reservations = {r1, r2}
  Calls = {c1, c2}
  Limits = {3}
  Estimates = {1, 2}
  Amounts = {0, 2}
  CallsMayFail = TRUE
  MaxAdminUpdates = 1
  MaxWindows = 1
SYMMETRY Symmetry
INVARIANTS TypeOK BudgetsBalance NeverOversold HoldsFollowReservation
CHECK_DEADLOCK FALSE
