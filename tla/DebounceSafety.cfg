SPECIFICATION Spec
CONSTANTS
  W = 16
  D = 3
  Start = 1
  Horizon = 15
  Bounce = 2
  BouncesOn = {TRUE, FALSE}
  Lag = 1
  Pause = 2
INVARIANTS TypeOK HeldForDebounceTime FollowsContact
PROPERTIES OnePressPerStroke
