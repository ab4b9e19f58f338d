SPECIFICATION Spec
CONSTANTS
  BufSize = 2
  PayloadMax = 1
  RingSize = 32
  MaxArrived <- MCMaxArrived
INVARIANTS
  SendBufferHolds
