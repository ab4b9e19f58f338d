SPECIFICATION FairSpec
CONSTANTS
  MaxUnread = 3
  MaxMessages = 2
  BufferFits <- MCFits
PROPERTIES
  EveryMessageSynced
