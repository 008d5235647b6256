\* Two conversations, three turns counting those of the past, one change of address.
SPECIFICATION FairPageSpec
CONSTANTS
  MaxChats = 2
  MaxTurns = 3
  Links = {}
  Slots = {s1, s2}
  MaxMoves = 1
  MaxFaults = 1
  NoMsg = NoMsg
INVARIANTS
  PageTypeOK
  ShownIsStored
  ShowsItsConversation
PROPERTIES
  TurnsSettle
  AddressIsFollowed
CHECK_DEADLOCK FALSE
