\* The user connects, disconnects and turns the volume four times in all, in any order; one
\* read times out; four attempts; one input.
CONSTANTS
  MaxUserActions = 4
  MaxLosses = 1
  MaxAttempts = 4
  MaxInputs = 1
SPECIFICATION FairSpec
INVARIANTS LoopsAccounted InputsGoOut
PROPERTIES CloseReturns InputsTaken NotCutOff
CHECK_DEADLOCK FALSE
