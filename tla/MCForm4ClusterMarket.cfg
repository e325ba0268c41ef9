SPECIFICATION ClusterSpec
CONSTANTS
  NVDA = NVDA
  AAPL = AAPL
  rss = rss
  None = None
  SecForm4 = SecForm4
  Events <- MCEvents
  Source <- MCSource
  Ticker <- MCTicker
  FetchedAt <- MCFetchedAt
  Clients = {}
  Scores = {}
  ClusterWindow = 2
  MinFilings = 2
  MaxMishaps <- NoMishaps
  MaxSettled = 1
  MaxNow = 3
CHECK_DEADLOCK FALSE
PROPERTIES ScansCoverTheMarket
