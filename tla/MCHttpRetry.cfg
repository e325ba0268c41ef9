SPECIFICATION FairSpec
CONSTANTS
  RetryAfters <- SomeRetryAfters
  NoHeader = NoHeader
  HttpDate = HttpDate
INVARIANTS
  TypeOK
  RequestBudget
  EmbedRepeatsNeedServerErrors
  TransientFailuresUseAllAttempts
  SleepsAreBounded
PROPERTIES
  EmbedSpec
  CallsRunOut
  CallEnds
