\* Messages through the engine: filters, channels, full buffers, reset.
CONSTANTS
  MaxDevices = 2
  MaxConnections = 2
  BufferSize = 2
  IdMod = 4
  Roles <- TwoRoles
  SourceChannels = {255}
  DestChannels = {9}
  Filters = {{}, {"note"}}
  Switchings = {}
  DeviceStates = {}
  Statuses = {144}
  Vetoes = {FALSE}
  Wraps = FALSE
  MaxMessages = 2
SPECIFICATION Spec
INVARIANTS SentStillQueued NothingToReceive StatisticsAgree OnlyOutputsQueue
PROPERTY QueuesSurvive
