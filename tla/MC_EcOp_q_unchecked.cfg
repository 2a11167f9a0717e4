\* A program whose Q is off the curve with y = 0.
CONSTANTS
  Prime = 7
  Alpha = 1
  Beta = 6
  ScalarHeight = 3
  Unknown = Unknown
  Reloc = Reloc
  Programs <- OffCurveQPrograms
SPECIFICATION Spec
INVARIANT NoPanic
CHECK_DEADLOCK FALSE
