SPECIFICATION Spec
CONSTANTS
  BUFFER_LENGTH = 2
  UINT8 = 4
  Bytes = {1, 2}
  Quantities = {1, 2, 3}
  Stops = {TRUE, FALSE}
  Replies <- MCReplies
  RemoteMax = 2
PROPERTY SentOnlyInCalls
CHECK_DEADLOCK FALSE
