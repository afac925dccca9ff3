\* Four devices of either kind for a table of three, two messages,
\* a signal at any time.
CONSTANTS
  MaxDevices = 2
  MaxConnections = 2
  BufferSize = 1
  IdMod = 4
  Roles <- HubRoles
  SourceChannels = {255}
  DestChannels = {255}
  Filters = {{}}
  Switchings = {}
  DeviceStates = {}
  Statuses = {144, 160}
  Vetoes = {FALSE}
  Wraps = FALSE
  MaxMessages = 4
  MaxUsbDevices = 3
  ScanEvery = 2
  Found = 4
  Kinds = {TRUE, FALSE}
  RxSize = 1
  Incoming = {144, 160}
  MaxArrivals = 2
  MaxEndpoints = 2
  MaxPacket = 64
  Outcomes = {"call", "none", "crash"}
SPECIFICATION HubFairSpec
INVARIANTS TablesAgree OneMidiDevice EachPathInjects ShutdownSkips
PROPERTIES ShutdownCompletes QueueDrained
CHECK_DEADLOCK FALSE
