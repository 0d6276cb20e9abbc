CONSTANTS
  Urls = {1, 2}
  Sources <- MCSources
  Posting <- MixedPostings
  Scrapers = {s1}
  SearchIntents = {"onsite", "remote"}
  ListChoices <- MCLists
  MaxAttempts = 2
  LockMaxRetries = 2
  MaxClock = 1
  ResultLoss = FALSE
SPECIFICATION Spec
INVARIANTS DispatchersOwnTheirRows NeedsDetailIsFetchable
PROPERTY ImplementsLifecycle
