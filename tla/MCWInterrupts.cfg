SPECIFICATION FairSpec
CONSTANTS
  NumPins = 2
  Modes <- MCModes
  Reattach = FALSE
  MaxEdges = 4
INVARIANTS TypeOK ChangeArmed NoSpuriousCall
PROPERTY ComesToRest
