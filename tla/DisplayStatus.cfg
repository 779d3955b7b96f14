SPECIFICATION FairSpec
CONSTANTS
  Leds = {0, 1}
  Protocols = {0, 1}
  W = 5
  Secs = 2
INVARIANTS
  TypeOK
  ConfiguredTogether
  WakeupAsAsked
PROPERTIES
  ScreenTruthful
  ScreenOnInUse
  ScreenSaved
