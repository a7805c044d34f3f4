\* Two processes, every kind of error; what must hold in every state.
SPECIFICATION Spec
CONSTANTS
  Workers = {w1, w2}
  Free = Free
  RetryCount = 1
  Documents = 1
  MaxClaims = 4
  MaxFaults = 2
  MaxCrashes = 1
  MaxReparses = 1
  ForceJobs = TRUE
  SyncFaults = TRUE
SYMMETRY WorkerSymmetry
CHECK_DEADLOCK FALSE
INVARIANTS
  TypeOK
  AcceptedOutputIntact
  AttemptsBounded
  LeaseProtectsStaging
PROPERTIES
  FencedPublication
  KeepsJobLife
