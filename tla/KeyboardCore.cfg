CONSTANTS
  Path = {e1, e2}
  NoPath = NoPath
  Code = {a, b}
  QueueMax = 2
  Tries = 2
  MaxPlug = 2
  MaxEvent = 4
SPECIFICATION FairSpec
INVARIANTS
  TypeOK
  QueueIsNewest
  LossIsCounted
  ModifierIsRight
  ReaderHasFile
PROPERTIES
  FoundAgain
  LossIsNoticed
