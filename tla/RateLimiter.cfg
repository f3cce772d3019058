\* Three threads, two admissions per window of four, each thread up to two late.
SPECIFICATION Spec
CONSTANTS
  Threads = {t1, t2, t3}
  Limit = 2
  Window = 4
  MaxLag = 2
  MaxTime = 9
INVARIANTS
  WindowRespected
PROPERTIES
  RefusalIsEarned
SYMMETRY ThreadSymmetry
CHECK_DEADLOCK FALSE
