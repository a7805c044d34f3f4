\* Two captures, far from the discovery limit.
SPECIFICATION FairSpec
CONSTANTS
  Jobs = {j1, j2}
  Root = Root
  DiscoveryLimit = 10
  Versions = {"3.11"}
CHECK_DEADLOCK FALSE
PROPERTY ScanAlwaysRuns
