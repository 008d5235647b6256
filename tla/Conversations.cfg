\* Two conversations, two turns that may overlap, two requests to share.
SPECIFICATION Spec
CONSTANTS
  MaxChats = 2
  MaxTurns = 2
  Links = {l1, l2}
  NoMsg = NoMsg
SYMMETRY LinkSymmetry
INVARIANTS
  BranchesCanBeShown
PROPERTIES
  IsForest
  SharedBranchStays
CHECK_DEADLOCK FALSE
