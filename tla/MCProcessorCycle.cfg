CONSTANTS
  w1 = w1
  w2 = w2
  NVDA = NVDA
  sec = sec
  rss = rss
  None = None
  Workers = {w1, w2}
  Clients = {w1, w2}
  Events <- MCEvents
  Source <- MCSource
  Ticker <- MCTicker
  FetchedAt <- MCFetchedAt
  TitleSimilar <- AllSimilar
  MaxFaults <- NoFaults
  BatchSize = 1
  WindowHours = 2
  Scores = {75}
  Watchlist = {}
  KeywordHit = {1, 2}
  MaxNow = 2
CHECK_DEADLOCK FALSE
SPECIFICATION Spec
INVARIANTS DuplicatesLeadToOriginals
