CONSTANTS
  Jobs = {1}
  GlobalSearches = 1
  Queries <- MCQueries
  Rounds = 2
  Pages = 2
  MaxCards = 2
  RetryAttempts = 2
  Faults = {"cancel", "insert_fails", "mark_fails"}
SPECIFICATION FairSpec
INVARIANTS TypeOK SearchesAreCounted FetchedIsStored OnsiteWins MarkIsTrue
PROPERTY ScrapeEnds
