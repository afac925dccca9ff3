\* Every order of driver calls, hardware reports and requests; the host
\* alone configures the device, and the program may end in a crash.
CONSTANTS
  MaxEndpoints = 3
  MaxPacket = 64
  Numbers = {}
  Sizes = {}
  Outcomes = {"call", "none", "crash"}
  BusStates = {"detached", "powered", "default", "address", "suspended"}
  Lengths = {0, 8, 64, 255}
  Addresses = {0, 5}
  Configurations = {0, 1, 2}
SPECIFICATION ControlSpec
INVARIANTS NothingTransferred ConfigurationCut ConfiguredIsOpen
PROPERTIES EffectsUnacknowledged StopSilencesControl
CHECK_DEADLOCK FALSE
