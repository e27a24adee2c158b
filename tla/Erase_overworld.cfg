SPECIFICATION Spec
CONSTANTS
  Dims = {0, 1}
  ChunkXs = {0}
  ChunkZs = {0}
PROPERTY ErasesOneChunk
CHECK_DEADLOCK FALSE
