\* Two captures over two days, captures already there, any counter.
SPECIFICATION Spec
CONSTANTS
  Processes = {p1, p2}
  Free = Free
  Days = {d1, d2}
  Start = 1
  MaxCode = 4
  MaxFailures = 2
SYMMETRY AllocationSymmetry
CHECK_DEADLOCK FALSE
INVARIANTS
  SharedCodeNeedsCrossing
  AllocatedCodesUnique
  DestinationsUnique
PROPERTY LiveNotPoisoned
