\* A buffer of four samples, filled by chunks of one, three or four.
CONSTANTS
  BufLen = 4
  ChunkSizes <- OneThreeOrFour
  MaxSamples = 10
SPECIFICATION Spec
INVARIANTS PlaysAll PlaysOnce
CHECK_DEADLOCK FALSE
