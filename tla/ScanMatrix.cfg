SPECIFICATION FairSpec
CONSTANTS
  Rows = 3
  LeftColumns = 1
  Columns = 4
  IoconColumns = {2}
  Fingers = 2
INVARIANTS
  TypeOK
  ReadyWhenConnected
PROPERTIES
  RightReadsOwnColumn
  GhostsTraced
  HalfComesBack
