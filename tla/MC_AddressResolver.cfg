SPECIFICATION Spec
CONSTANTS
  FP_OFFSET = 2
  MAX_AP = 4
  MAX_GROUP = 1
  MAX_REFS = 1
  InitMems <- MCInitMems
  StoreVals <- MCStoreVals
  InsertVals <- MCInsertVals
  ImmVals = {3}
  Off1 <- MCOff1
  Off2 = {0, 1}
  Slot2Regs = {"FP"}
  ForeignTrackings = {}
  Unknown = Unknown
  NoImm = NoImm
  NoCell = NoCell
  NoGroup = NoGroup
  NoAccess = NoAccess
  NoTracking = NoTracking
  USIZE_BOUND = 1024
INVARIANT TypeOK
PROPERTY RefinesAddressSpec
