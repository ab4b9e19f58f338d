SPECIFICATION ReadingSpec
CONSTANTS
  BufSize = 2
  PayloadMax = 1
  RingSize = 32
  MaxArrived <- MCMaxArrived
INVARIANTS
  TypeOK
  RelayInOrder
  NothingLostUndisturbed
PROPERTIES
  EchoUnbroken
  ConnectionKept
  ListensAgain
  MainLoopComesRound
