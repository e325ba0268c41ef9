SPECIFICATION NotifierSpec
CONSTANTS
  n1 = n1
  n2 = n2
  d1 = d1
  rss = rss
  None = None
  Events <- MCEvents
  Source <- MCSource
  Ticker <- MCTicker
  FetchedAt <- MCFetchedAt
  Clients = {n1, n2, d1}
  Instants = {n1, n2}
  Digests = {d1}
  Scores = {50, 75, 90}
  InstantBatch = 2
  MinScore = 70
  InstantScore = 90
  MaxMishaps <- ThreeRefusals
CHECK_DEADLOCK FALSE
INVARIANTS ParkedAfterThreeFailures
