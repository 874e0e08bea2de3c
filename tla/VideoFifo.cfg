\* Datagrams are lost but neither reordered nor duplicated.
CONSTANTS
  PAYLOAD = 2
  FrameIds = 16
  MaxFrames = 3
  FrameSizes <- OneOrThree
  MaxRequestIds = 3
  MaxRequests = 1
  Window = 1
  MaxCopies = 1
  MaxInFlight = 3
  CacheFrames = 2
SPECIFICATION Spec
INVARIANTS RequestsWereSent
PROPERTIES DeliversInOrder
CHECK_DEADLOCK FALSE
