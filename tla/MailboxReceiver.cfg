SPECIFICATION FairSpec
CONSTANTS
  MaxUnread = 3
  MaxMessages = 6
  BufferFits <- MCUnknown
INVARIANTS
  TypeOK
  NeverMoreNotifiedThanUnread
PROPERTIES
  StrandedNeverShrinks
  SyncedUnlessStranded
