SPECIFICATION Spec
CONSTANTS
  Lo <- MCLo
  Hi = 150
  Moduli = {5, 6, 7}
  None = None
INVARIANT IsqrtMatchesReference
INVARIANT IgcdexBezout
INVARIANT DivModSolves
INVARIANT SafeDivExact
INVARIANT TraceDecodes
INVARIANT MemoryDecodes
CHECK_DEADLOCK FALSE
