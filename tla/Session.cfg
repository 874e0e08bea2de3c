\* A user who connects, disconnects and connects again; one thing goes wrong.
CONSTANTS
  MaxSockets = 2
  MaxPairs = 4
  MaxKeys = 4
  MaxClicks = 3
  MaxTrouble = 1
  MaxNALs = 1
SPECIFICATION FairSpec
INVARIANTS TypeOK KeyAgreement
PROPERTIES EstablishedByServer PictureComes ServerForgets
CHECK_DEADLOCK FALSE
