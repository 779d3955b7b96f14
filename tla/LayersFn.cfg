CONSTANTS
  Keys = {"Fn", "Keypad", "QwertyDvorak", "DvorakQwerty", "Mac", "ShiftedNumber", "Cut"}
  HostDoes = {"set_config", "set_idle", "wake_scan"}
SPECIFICATION Spec
INVARIANTS
  TypeOK
  FnWhileHeld
  LayoutAsChosen
  KeypadAsLatched
PROPERTY
  CutFitsHost
