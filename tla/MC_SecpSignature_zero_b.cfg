SPECIFICATION Spec
CONSTANTS
  N = 7
  SecpP = 31
  BETA = 7
  Constants <- MCConstants
  AVals <- MCAVals
  BVals <- MCBValsZero
  XCubeVals <- MCXCubeVals
  VVals = {0, 1, 2}
  Absent = Absent
INVARIANT NoPanic
