SPECIFICATION Spec
CONSTANTS
  Controls = {ctrl}
  LeftShift = left
  RightShift = right
  a = a
  b = b
  c = c
  ctrl = ctrl
  p = p
  q = q
  ka = ka
  kb = kb
  kb2 = kb2
  kc = kc
  kctrl = kctrl
  kleft = kleft
  kright = kright
  kp = kp
  kq = kq
  Ordinary = {a, b, c}
  Consumers = {p, q}
  NONE = NONE
  ROLLOVER = ROLLOVER
  BootKeys = 2
  ConsumerKeys = 1
  Keys = {ka, kb, kb2, kc, kctrl, kleft, kright, kp, kq}
  Shifted = {kc}
  UsageOf <- MCUsageOf
  Steps <- MCSteps
INVARIANTS
  TypeOK
  ReportExact
  RolloverShown
  ShiftInverted
