SPECIFICATION SdoSpec
CONSTANTS
  main = main
  rt = rt
  Owner = main
  Others = {rt}
  ByteBits = 1
  Ods <- MCOds
  Indexes = {1, 2}
  MaxSub = 3
  Payloads <- MCPayloads
  Values <- MCValues
  MaxCache = 3
CHECK_DEADLOCK FALSE
INVARIANTS
  SdoTypeOK
  SafeWhenRuled
  ReclaimedWhenRuled
  CleanScanFinds
  ReadsWhatWasWritten
  CompleteAgreesWithEntries
  PanicNeedsShortAnswer
  BufferSuffices
