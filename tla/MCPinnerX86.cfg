CONSTANTS
  LastPin = 9
  LastText = 60
  PinAddr <- MCPinAddr
  Text <- MCText
  MaxPins = 5
  Reach = 6
SPECIFICATION FairSpec
INVARIANTS TakenIsBusy PinsLead
PROPERTY PinningEnds
CHECK_DEADLOCK FALSE
