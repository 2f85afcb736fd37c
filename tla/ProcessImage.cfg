SPECIFICATION Spec
CONSTANTS
  ByteBits = 2
  Checked = TRUE
  Size = 6
  MaxForeign = 1
  Unset = Unset
  Buses <- Modules
  Values <- MCValues
  PdoIdxs = {1, 2, 9}
  Subs = {1, 2, 3}
INVARIANTS
  TypeOK
  ReadBack
  NoPanic
PROPERTY WritesStayInSlave
