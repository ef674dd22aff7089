CONSTANTS
  Beep = {b1, b2, b3}
  NoBeep = NoBeep
  Tones = {1, 2}
  MaxBeeps = 3
  MaxFaults = 1
SPECIFICATION FairSpec
INVARIANTS
  TypeOK
  OneTone
  OneLateTone
PROPERTIES
  PlayedInOrder
  BeepsEnd
