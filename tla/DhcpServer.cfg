SPECIFICATION Spec
CONSTANTS
  a = a
  b = b
  NoClient = NoClient
  Clients <- MCClients
  MaxHost = 4
  Reserved <- MCReserved
  MaxInbox = 2
SYMMETRY MCSymmetry
INVARIANTS
  TypeOK
  ReservedNeverLeased
  LeasesSound
