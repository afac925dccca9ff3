\* The id counters wrap; every call returns.
CONSTANTS
  MaxDevices = 2
  MaxConnections = 2
  BufferSize = 1
  IdMod = 2
  Roles <- BothOnly
  SourceChannels = {255}
  DestChannels = {255}
  Filters = {{}}
  Switchings = {}
  DeviceStates = {"error"}
  Statuses = {144}
  Vetoes = {FALSE}
  Wraps = TRUE
  MaxMessages = 1
SPECIFICATION FairSpec
INVARIANTS TypeOK RoutesUnique
PROPERTY CallsReturn
