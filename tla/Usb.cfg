\* Two endpoints, every order of API calls and interrupts.
CONSTANTS
  MaxEndpoints = 2
  MaxPacket = 1
  Numbers <- CallerNumbers
  Sizes = {0, 1, 2}
SPECIFICATION UsbFairSpec
INVARIANTS BusyInFlight BusyOnlyFor
PROPERTIES StuckStaysStuck TransfersEnd
