CONSTANTS
  Scrapers = {dice, indeed, fantastic}
  Runs = {r1, r2, r3}
  MaxPeriod = 1
  BudgetCents = 2
  Costs = {9, 14}
  Others = TRUE
  Faults = {"lost_start", "crash", "cancel", "lost_lock", "unlock_fails"}
SPECIFICATION Spec
SYMMETRY Symmetry
INVARIANTS TypeOK ChargesWithinBudget OneOpenRunPerPeriod SpendNearLimit LockIsInSection
