\* spec.md 8: add gates independent of a failed inverse still complete.
CONSTANTS
  LimbBits = 1
  Unknown = Unknown
  Circuits <- WellFormed
SPECIFICATION Spec
INVARIANT IndependentAddsComplete
CHECK_DEADLOCK FALSE
