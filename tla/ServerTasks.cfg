\* Two logins or logouts, each with a new X server; a queue of one input, the next ones wait.
CONSTANTS
  MaxInputQueue = 1
  Devices = TRUE
  MaxDisplays = 3
  MaxActions = 2
SPECIFICATION FairSpec
INVARIANTS RestartOnItsWay CapturerComesBack
PROPERTIES InputRecovers StreamFollows
CHECK_DEADLOCK FALSE
