SPECIFICATION Spec
CONSTANTS
  BUFFER_LENGTH = 2
  UINT8 = 4
  Bytes = {1, 2}
  Quantities = {1, 2, 3}
  Stops = {TRUE}
  Replies <- MCReplies
  RemoteMax = 2
INVARIANTS TypeOK MessageReadWhole RequestAnswered
PROPERTIES WrittenAsAsked ReadAsAsked CallsReturn
CONSTRAINT OneBufferful
CHECK_DEADLOCK FALSE
