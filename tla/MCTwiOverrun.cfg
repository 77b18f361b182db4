SPECIFICATION Spec
CONSTANTS
  BUFFER_LENGTH = 2
  UINT8 = 4
  Bytes = {1, 2}
  Quantities = {1, 2, 3}
  Stops = {TRUE}
  Replies <- MCReplies
  RemoteMax = 3
PROPERTY HandlersEnd
CHECK_DEADLOCK FALSE
