CONSTANTS
  SequenceData <- CutAndShuffle
  OtherKeys = {"a", "b"}
  HostDoes = {"set_config", "get_report"}
  NULL = NULL
SPECIFICATION FairSpec
INVARIANTS
  TypeOK
  StepsDelivered
PROPERTY
  NothingStuck
