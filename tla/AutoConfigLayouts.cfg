SPECIFICATION Spec
CONSTANTS
  drive = drive
  sensor = sensor
  coupler = coupler
  gateway = gateway
  NoDictionary = NoDictionary
  Devices = {drive, coupler}
  ObjCnt <- MCObjCnt
  SmTypeId <- MCSmTypeId
  BitLen <- MCBitLen
  MaxSlaves = 2
  MaxCalls = 1
INVARIANT LayoutsFoundAtTheirSlave
