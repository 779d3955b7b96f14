SPECIFICATION Spec
CONSTANTS
  Report = {none, k1}
  NoKeys = none
  NULL = NULL
  W = 6
  Horizon = 3
  IdleRates = {2}
  HostPolls = {"boot", "extra"}
  HostDoes = {"set_config", "set_idle"}
  SetupKeeps = {FALSE}
INVARIANTS AtMostOneStaleReport
PROPERTIES IdleRateKept
