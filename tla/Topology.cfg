\* Devices and connections come and go, no messages.
CONSTANTS
  MaxDevices = 3
  MaxConnections = 3
  BufferSize = 1
  IdMod = 6
  Roles <- BothOnly
  SourceChannels = {255}
  DestChannels = {255}
  Filters = {{}}
  Switchings = {}
  DeviceStates = {}
  Statuses = {}
  Vetoes = {FALSE}
  Wraps = FALSE
  MaxMessages = 0
SPECIFICATION Spec
INVARIANTS IdsUnique UnregisterKeepsOthers UnregisterMissesOnlyNeighbours AllToAllUnlessFull
PROPERTY NoInheritedWires
