CONSTANTS
  w1 = w1
  w2 = w2
  p1 = p1
  p2 = p2
  Words <- MCWords
  Places <- MCPlaces
  Strings <- MCStrings
  Requests <- MCRequests
  Seed <- MCSeed
  MaxWords = 2
  MaxPlaces = 2
  MaxPairs = 4
  MaxFeeds = 2
  MaxEdits = 2
SPECIFICATION Spec
INVARIANTS StoredIsRunnable ShareRoundTrip
PROPERTIES SaveKeepsSearches
