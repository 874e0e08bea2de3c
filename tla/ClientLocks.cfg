\* Four tasks, a player that comes and goes, two subpackets; sends may fail.
CONSTANTS
  Players = {p1}
  MaxSubpackets = 2
SPECIFICATION FairSpec
INVARIANTS AnswersAreCached TableFirst WaitsAreShort
PROPERTIES OperationsEnd
CHECK_DEADLOCK FALSE
