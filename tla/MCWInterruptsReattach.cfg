SPECIFICATION Spec
CONSTANTS
  NumPins = 2
  Modes <- MCModes
  Reattach = TRUE
  MaxEdges = 3
INVARIANT NoSpuriousCall
