\* Three captures against a discovery limit of two.
SPECIFICATION FairSpec
CONSTANTS
  Jobs = {j1, j2, j3}
  Root = Root
  DiscoveryLimit = 2
  Versions = {"3.11", "3.13"}
CHECK_DEADLOCK FALSE
INVARIANTS
  TypeOK
  HaltNeedsFullSpool
PROPERTIES
  EventuallyScanned
