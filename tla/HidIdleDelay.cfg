SPECIFICATION Spec
CONSTANTS
  Report = {none, k1}
  NoKeys = none
  NULL = NULL
  W = 8
  Horizon = 3
  IdleRates = {2}
  HostPolls = {"boot", "extra"}
  HostDoes = {"set_config", "set_idle"}
  SetupKeeps = {FALSE}
INVARIANTS ChangeSentPromptly
