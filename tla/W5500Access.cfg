CONSTANTS
  Base <- SmallBase
  Chunk <- SmallChunk
  Modulus <- SmallModulus
  MaxLen <- ThreeBytes
  MaxTimeouts <- OneTimeout
SPECIFICATION FairSpec
INVARIANT TypeOK
INVARIANT SizeTrue
INVARIANT BytesExact
PROPERTY AccessReturns
CHECK_DEADLOCK FALSE
