SPECIFICATION FairSpec
CONSTANTS
  Report = {none, k1}
  NoKeys = none
  NULL = NULL
  W = 1
  Horizon = 0
  IdleRates = {0}
  HostPolls = {"boot"}
  HostDoes = {"set_config"}
  SetupKeeps = {FALSE}
PROPERTIES BootMirrored
