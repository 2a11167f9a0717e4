\* EC-op deduction against the group law; panics only for an off-curve Q.
CONSTANTS
  Prime = 7
  Alpha = 1
  Beta = 6
  ScalarHeight = 3
  Unknown = Unknown
  Reloc = Reloc
  Programs <- AllPrograms
SPECIFICATION Spec
INVARIANT TypeOK
INVARIANT DeducedIsPPlusMQ
INVARIANT PanicOnlyOffCurveQ
\* The run ends: every cell written, or deduction returned an error or
\* panicked.
CHECK_DEADLOCK FALSE
