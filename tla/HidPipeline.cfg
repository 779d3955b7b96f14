SPECIFICATION FairSpec
CONSTANTS
  Report = {none, k1}
  NoKeys = none
  NULL = NULL
  W = 1
  Horizon = 0
  IdleRates = {0}
  HostPolls = {"boot", "extra"}
  HostDoes = {"set_config", "set_idle", "get_report", "reset", "feature", "suspend"}
  SetupKeeps = {FALSE}
INVARIANTS TypeOK EndpointMirrored ChangeSentPromptly AtMostOneWakeup
PROPERTIES HostMirrors PressWakes ImplementsChannel
