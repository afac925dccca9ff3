\* Lengths that the array of midi.c can hold, and lengths beyond it and beyond
\* a uint8_t.  Behind an overrun nothing is known, so there is no next step.
CONSTANTS
  Lengths <- CallerLengths
  MaxEvents = 64
SPECIFICATION FairSpec
INVARIANTS PayloadInOrder EventsFit EndComesLast
PROPERTY CallReturns
CHECK_DEADLOCK FALSE
