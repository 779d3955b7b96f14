SPECIFICATION Spec
CONSTANTS
  Sector <- FourSectors
  SectorFirst <- FirstOfFour
  SectorLast <- LastOfFour
  MainBase = 3
  MainMax = 11
  File = {1, 2}
  Image = 10
  TransferSize = 3
  Erased = Erased
  Other = Other
INVARIANTS TypeOK BootloaderIntact ImageIntact
PROPERTIES DfuByButtonOnly
