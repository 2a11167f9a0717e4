\* Compiler-order and malformed circuits: panics are possible, but no gate
\* the evaluator passed and no instance it filled is ever unsound.
CONSTANTS
  LimbBits = 1
  Unknown = Unknown
  Circuits <- AllCircuits
SPECIFICATION Spec
INVARIANT GatesSound
INVARIANT FilledInstancesSound
\* eval_circuit returns or panics: the final states have no successor.
CHECK_DEADLOCK FALSE
