\* Well-formed circuits: soundness, genuine failures, completeness, no panic.
CONSTANTS
  LimbBits = 1
  Unknown = Unknown
  Circuits <- WellFormed
SPECIFICATION Spec
INVARIANT TypeOK
INVARIANT GatesSound
INVARIANT FilledInstancesSound
INVARIANT FailureIsGenuine
INVARIANT CompleteOnSuccess
INVARIANT NoPanic
PROPERTY Terminates
PROPERTY RefinesCircuitSpec
\* eval_circuit returns: the final states have no successor.
CHECK_DEADLOCK FALSE
