CONSTANTS
  Urls = {1, 2}
  Sources <- MCSources
  Posting <- TwinPostings
  Scrapers = {s1, s2}
  SearchIntents = {"onsite"}
  ListChoices <- OneList
  MaxAttempts = 2
  LockMaxRetries = 2
  MaxClock = 2
  ResultLoss = TRUE
SPECIFICATION Spec
INVARIANTS TypeOK RejectedHasReason NoGroupVanishes
PROPERTIES TextNeverErased FiltersPromoteOnlyTexts
