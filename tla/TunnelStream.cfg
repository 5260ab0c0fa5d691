CONSTANTS
  BodyChunks = 2
  RespChunks = 2
  RawFrames = 1
SPECIFICATION FairSpec
INVARIANTS
  TypeOK
  InStep
  ExchangeWhole
  NoMutualWait
PROPERTIES
  RequestEnds
  NobodyWaits
