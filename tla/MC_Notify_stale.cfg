CONSTANTS
  Jobs = {1, 2}
  ManualRuns = {m1}
  Limit = 1
  UseTimeout = TRUE
  MaxAttempts = 2
  Faults = {"lost_result"}
SPECIFICATION Spec
INVARIANT StaleClaimIsClaimable
