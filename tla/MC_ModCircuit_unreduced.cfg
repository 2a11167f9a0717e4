\* The sub gate of a compiler-order circuit whose inputs are not reduced.
CONSTANTS
  LimbBits = 1
  Unknown = Unknown
  Circuits <- Unreduced
SPECIFICATION Spec
INVARIANT NoPanic
CHECK_DEADLOCK FALSE
