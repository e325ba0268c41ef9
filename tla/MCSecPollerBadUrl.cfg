SPECIFICATION Spec
CONSTANTS
  None = None
  Entries <- MCEntries
  ExternalId <- MCExternalId
  Filed <- MCFiled
  Malformed = {"odd"}
  PageSize = 6
  Code <- MCCode
  Value <- MCValue
  BuyMinUsd = 1
  SellMinUsd = 10
  Refused = {"long"}
  FaultKinds = {"stop", "list", "fetch"}
  MaxFaults <- NoFaults
  MaxDay = 2
CHECK_DEADLOCK FALSE
PROPERTIES BadUrlsDoNotKillRuns
