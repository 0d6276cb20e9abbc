CONSTANTS
  Jobs = {1, 2}
  ManualRuns = {m1}
  Limit = 1
  UseTimeout = TRUE
  MaxAttempts = 2
  Faults = {"db_down", "row_busy"}
SPECIFICATION FairSpec
INVARIANTS TypeOK BatchesAreClaims AnnouncedOnce
PROPERTIES MarkIsAccountedFor ReadyIsAnnounced
