SPECIFICATION FairSpec
CONSTANTS
  SERIAL_BUFFER_SIZE = 3
  SharedVector = FALSE
  MaxWrites = 4
  MaxArrivals = 0
  MaxBegins = 2
PROPERTIES FullBufferIsEmptied
CHECK_DEADLOCK FALSE
