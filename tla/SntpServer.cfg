SPECIFICATION Spec
CONSTANTS
  DaySeconds <- MCDaySeconds
  Modulus <- MCModulus
  PowerOn <- MCPowerOn
  Clients = {c1, c2}
  Lengths = {3, 6}
  MaxUptime = 6
  MaxTicks = 2
  MaxMail = 1
  MaxQueue = 2
INVARIANTS
  TypeOK
  ClockExact
PROPERTY
  ServedTime
SYMMETRY MCSymmetry
CHECK_DEADLOCK FALSE
