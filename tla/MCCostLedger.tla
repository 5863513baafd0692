---------------------------- MODULE MCCostLedger ----------------------------
EXTENDS CostLedger, TLC

CONSTANTS tenantBudget, tokenBudget

\* One budget, and two stacked ones.
TenantOnly == tenantBudget :> "tenant"
TwoScopes == (tenantBudget :> "tenant") @@ (tokenBudget :> "token")

Symmetry == Permutations(Reservations) \cup Permutations(Calls)
=============================================================================
