SPECIFICATION Spec
CONSTANTS
  None = None
  Entries <- MCEntries
  ExternalId <- MCExternalId
  Filed <- MCFiled
  Malformed = {"odd"}
  PageSize = 3
  Code <- MCCode
  Value <- MCValue
  BuyMinUsd = 1
  SellMinUsd = 10
  Refused = {"long"}
  FaultKinds = {"stop", "list", "fetch"}
  MaxFaults <- OneOfEach
  MaxDay = 4
CHECK_DEADLOCK FALSE
INVARIANTS TypeOK LostOnlyWithoutGoodRun
PROPERTIES OnlyRefusedRowsKillRuns
