\* Datagrams are lost, duplicated and overtake one another.
CONSTANTS
  PAYLOAD = 2
  FrameIds = 16
  MaxFrames = 3
  FrameSizes <- OneTwoOrFive
  MaxRequestIds = 5
  MaxRequests = 1
  Window = 2
  MaxCopies = 2
  MaxInFlight = 2
  CacheFrames = 2
SPECIFICATION UdpSpec
INVARIANTS SlotsMatchFrame QueueHoldsOthers StalledHasAsked AssembledWhole NoPanic
PROPERTIES AsksOnlyForMissing
CHECK_DEADLOCK FALSE
