\* A device whose connections are neighbours in the table leaves.
CONSTANTS
  MaxDevices = 3
  MaxConnections = 3
  BufferSize = 1
  IdMod = 6
  Roles <- BothOnly
  SourceChannels = {255}
  DestChannels = {255}
  Filters = {{}}
  Switchings = {}
  DeviceStates = {}
  Statuses = {}
  Vetoes = {FALSE}
  Wraps = FALSE
  MaxMessages = 0
SPECIFICATION Spec
INVARIANT UnregisterLeavesNoWire
