SPECIFICATION FairSpec
CONSTANTS
  BufSize <- MCBufSize
  Sizes <- MCSizes
  Capacities <- MCCapacities
  MaxMessages = 3
INVARIANTS
  TypeOK
  Aligned
  EmptyIffEqual
  UnreadIntact
  SizeWordSound
  ReceivedIntact
PROPERTIES
  ImplementsChannel
  RefusedOnlyWhenFull
  EventuallyAnnounced
