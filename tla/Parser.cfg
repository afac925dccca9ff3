\* Complete, broken and interleaved packets; small buffers that fill up.
CONSTANTS
  Messages <- SomeMessages
  Payloads <- SomePayloads
  Packets <- SomePackets
  Stale = {0, 247}
  BufferSize = 1
  SysexSize = 4
  MaxHeard = 4
SPECIFICATION ParserSpec
INVARIANT PayloadsAsHeard
PROPERTY MessagesArrive
