SPECIFICATION PipelineFairSpec
CONSTANTS
  w1 = w1
  n1 = n1
  n2 = n2
  d1 = d1
  NVDA = NVDA
  sec = sec
  rss = rss
  None = None
  Workers = {w1}
  Instants = {n1, n2}
  Digests = {d1}
  Clients = {w1, n1, n2, d1}
  Events <- MCEvents
  Source <- MCSource
  Ticker <- MCTicker
  FetchedAt <- MCFetchedAt
  TitleSimilar <- AllSimilar
  MaxFaults <- NoFaults
  MaxMishaps <- OneOfEach
  BatchSize = 2
  WindowHours = 1
  InstantBatch = 2
  MinScore = 70
  InstantScore = 90
  Scores = {50, 75, 90}
  Watchlist = {}
  KeywordHit = {1, 2}
  MaxNow = 2
CHECK_DEADLOCK FALSE
INVARIANTS PipelineOK BlockedServicesAreReleased PostingClaimsAreFresh DuplicatesAreSilent DuplicatesLeadToOriginals CallsAreAccounted SentWasPosted RepeatsNeedMishaps OnePathPerEvent ParkedAfterFailures
PROPERTIES QueueSpec EventsMoveForward EventsComeToAnEnd
