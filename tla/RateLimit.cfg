SPECIFICATION Spec
CONSTANTS
  Keys = {k1, k2}
  Threads = {t1, t2}
  Limits = {0, 1, 2}
  Window = 2
  Idle = 2
  SweepMin = 2
  SweepEvery = 1
  MaxStall = 1
  MaxNow = 4
  MaxAdmitted = 4
INVARIANT WindowHonoured
PROPERTY RefusedWhenFull
SYMMETRY Symmetry
