\* A reparse command against a scanning worker, no error at all.
SPECIFICATION Spec
CONSTANTS
  Workers = {w1, w2}
  Free = Free
  RetryCount = 1
  Documents = 1
  MaxClaims = 3
  MaxFaults = 0
  MaxCrashes = 0
  MaxReparses = 1
  ForceJobs = FALSE
  SyncFaults = FALSE
CHECK_DEADLOCK FALSE
INVARIANT NoAcceptedOutputLost
