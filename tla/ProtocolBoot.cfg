SPECIFICATION DeviceSpec
CONSTANTS
  Leds = {0, 1}
  Protocols = {0, 1, 2}
INVARIANTS ProtocolBoot
