SPECIFICATION FairSpec
CHECK_DEADLOCK FALSE
CONSTANTS
  W = 3
  SmTypes <- ThreeSms
  BitLens = {4, 12}
INVARIANTS
  TypeOK
  EntriesDisjoint
  EntryPosIsRank
  OutputsFirst
  EntryPosExact
  PdoPosExact
  PdoPosOrdered
  OffsetsFit
  OverflowNeedsManyPdos
PROPERTY PassEnds
