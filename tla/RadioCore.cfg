SPECIFICATION FairSpec
CONSTANT MaxPackets = 4
INVARIANTS
  TypeOK
  ReadsAreTrue
  ListensOrRetryFailed
PROPERTIES
  TransmissionsEndListening
  ActsAsBuffer
