CONSTANTS
  FullRefreshEvery = 3
  FullTime = 2
  PartialTime = 1
  JoinTime = 3
  MaxFrame = 5
  MaxFaults = 2
SPECIFICATION FairSpec
INVARIANTS
  TypeOK
  NewerFramesWait
  ForceSticks
  NoLostWakeup
  SleepIsLast
  LastFrameDrained
PROPERTY
  ShowsLatestFrame
