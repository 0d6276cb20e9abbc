CONSTANTS
  LinkedIn = {linkedin}
  ApifySources = {}
  ManualRuns = {m1}
  Callers = {c1, c2}
  MaxDetails = 2
  Faults = {"die", "stall", "detail_fails"}
SPECIFICATION FairSpec
INVARIANTS TypeOK LockIsTheScrape ActivitiesAreOwned
PROPERTIES WorkflowEnds EnabledIsScraped
