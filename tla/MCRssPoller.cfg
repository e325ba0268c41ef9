SPECIFICATION FairSpec
CONSTANTS
  None = None
  Entries <- MCEntries
  ExternalId <- MCExternalId
  FeedItems <- MCFeedItems
  Relevant = {"odd", "story", "wire", "again", "older"}
  Refused = {"odd"}
  FaultKinds = {"stop", "fetch"}
  MaxFaults <- OneOfEach
CHECK_DEADLOCK FALSE
INVARIANTS TypeOK AddedRowsAreNew
PROPERTIES GoodFeedsAreStored FeedsAreIsolated
