CONSTANTS
  p1 = p1
  p2 = p2
  Pager = {p1, p2}
  Channel = {1}
  NoPacket = NoPacket
  MaxRetries = 1
  MaxHistory = 3
  DedupWindow = 1
  LoraInit = {TRUE}
  MaxId = 2
  MaxStops = 1
SPECIFICATION Spec
SYMMETRY Swaps
INVARIANTS
  TypeOK
  DuplicatesFarApart
  AttemptsBounded
  ShownRetriesAreReal
  OkMeansAccepted
  CleanMeansSaved
PROPERTIES
  VerdictsAreFinal
  FailsOnlyAfterAllAttempts
