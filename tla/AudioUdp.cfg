\* One codec; subpackets are lost, duplicated and reordered.
CONSTANTS
  AudioPCM = AudioPCM
  AudioOpus = AudioOpus
  PAYLOAD = 2
  FrameIds = 16
  MaxFrames = 3
  FrameSizes <- OneToThree
  Codecs <- OneCodec
  Window = 3
  MaxCopies = 2
  MaxInFlight = 4
SPECIFICATION Spec
INVARIANTS DropsIncomplete OnlyLossDrops
CHECK_DEADLOCK FALSE
