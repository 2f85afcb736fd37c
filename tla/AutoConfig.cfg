SPECIFICATION FairSpec
CONSTANTS
  drive = drive
  sensor = sensor
  coupler = coupler
  gateway = gateway
  NoDictionary = NoDictionary
  Devices = {drive, coupler, gateway}
  ObjCnt <- MCObjCnt
  SmTypeId <- MCSmTypeId
  BitLen <- MCBitLen
  MaxSlaves = 2
  MaxCalls = 3
INVARIANTS
  TypeOK
  DictionariesAligned
  ScanBeforePdos
  DescribedByOwnDictionary
  PdosAlignedWhenAllMapped
PROPERTIES
  ContractSafety
  ContractReturns
