CONSTANTS
  MaxDevices = 2
  MaxConnections = 2
  BufferSize = 2
  IdMod = 4
  Roles <- BothOnly
  SourceChannels = {255}
  DestChannels = {9}
  Filters = {{}}
  Switchings = {FALSE}
  DeviceStates = {}
  Statuses = {144}
  Vetoes = {FALSE, TRUE}
  Wraps = FALSE
  MaxMessages = 1
SPECIFICATION Spec
PROPERTY ImplementsPatchBay
