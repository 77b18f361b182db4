SPECIFICATION FairSpec
CONSTANTS
  SERIAL_BUFFER_SIZE = 3
  SharedVector = TRUE
  MaxWrites = 3
  MaxArrivals = 3
  MaxBegins = 2
INVARIANTS TypeOK TxStream RxStream PromiseKept PeekedIsNext QueuedBytesEnabled
PROPERTIES TransmittedInOrder TxImplementsQueue RxImplementsQueue WaitEnds
  EveryByteTransmitted
