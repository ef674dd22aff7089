CONSTANTS
  p1 = p1
  p2 = p2
  Pager = {p1, p2}
  Channel = {1, 2}
  NoPacket = NoPacket
  MaxRetries = 1
  MaxHistory = 1
  DedupWindow = 1
  LoraInit = {TRUE, FALSE}
  MaxId = 1
  MaxStops = 1
SPECIFICATION FairSpec
PROPERTIES
  KeepsPromise
  EverySendSettles
