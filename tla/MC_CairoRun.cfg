SPECIFICATION Spec
CONSTANTS
  Entries = {"program", "pie", "fuzzed"}
  Configs <- MCConfigs
  Pies <- MCPies
  Programs <- MCPrograms
  LayoutBuiltins = {"output", "pedersen", "ec_op"}
  EcOpRatio = 2
  EcOpSeg = 4
  EcOpIncluded = TRUE
  STEPS_LIMIT = 2
  STEP_CAP = 3
  None = None
  NoValue = NoValue
INVARIANT OkRunPassedRequiredChecks
INVARIANT UntrustedDataNotLoaded
INVARIANT SegmentAddressesStopIsUsedSize
INVARIANT AccountingAgrees
PROPERTY CallReturns
CHECK_DEADLOCK FALSE
