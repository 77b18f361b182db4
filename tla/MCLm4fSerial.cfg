SPECIFICATION FairSpec
CONSTANTS
  SERIAL_BUFFER_SIZE = 3
  FIFO = 2
  MaxWrites = 3
  MaxArrivals = 3
CONSTRAINT OneDirectionSpoilt
INVARIANTS TypeOK InOrder NeverSpins
PROPERTIES ComesToRest
CHECK_DEADLOCK FALSE
