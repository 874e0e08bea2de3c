\* Six events of the window; datagrams get lost, the player connects and disconnects.
CONSTANTS
  Positions <- CornerEdgeAndMiddle
  Keys <- SomeKeys
  MaxEvents = 6
  MaxInFlight = 3
SPECIFICATION InputSpec
INVARIANTS KeysAgree PointerAgrees ButtonAgrees
CHECK_DEADLOCK FALSE
