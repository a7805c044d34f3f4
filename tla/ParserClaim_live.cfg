\* Two processes under fairness: the job settles and nothing is left behind.
SPECIFICATION FairSpec
CONSTANTS
  Workers = {w1, w2}
  Free = Free
  RetryCount = 0
  Documents = 1
  MaxClaims = 8
  MaxFaults = 1
  MaxCrashes = 1
  MaxReparses = 1
  ForceJobs = TRUE
  SyncFaults = FALSE
INVARIANTS
  ParsedExcludesFailure
PROPERTIES
  EventuallySettled
