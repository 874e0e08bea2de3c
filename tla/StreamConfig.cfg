\* Every resolution that is asked for is a mode of the screen, or not yet chosen.
CONSTANTS
  Unset = Unset
  Modes = {Small, Large}
  Resolutions = {Small, Large}
  Csps = {Yuv420, Yuv444}
  MaxRequests = 4
SPECIFICATION FairSpec
INVARIANTS AgreesOrRestarts EncoderFitsPicture HonoursRequest
PROPERTY Settles
CHECK_DEADLOCK FALSE
