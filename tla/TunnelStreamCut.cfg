CONSTANTS
  BodyChunks = 2
  RespChunks = 2
  RawFrames = 1
SPECIFICATION Spec
INVARIANT
  OnlyWholeBody
