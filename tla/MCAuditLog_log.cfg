SPECIFICATION Spec
CONSTANTS
  Writers = {w1, w2}
  Records = {r1, r2, big}
  Oversize = {big}
  Garbage = Garbage
  MaxLeaves = 2
  MaxMishaps = 2
SYMMETRY LogSymmetry
INVARIANTS
  ChainKept
  VerifiedIsComplete
  SealedIsExact
PROPERTY
  EditsDetected
CHECK_DEADLOCK FALSE
