\* Both policies, every limit within reach; safety, and progress by default.
SPECIFICATION FairSpec
CONSTANTS
  Asyncio = "3.11"
  ClientToRch = ClientToRch
  RchToClient = RchToClient
  Free = Free
  Policies = {"continue", "abort"}
  QueueSize = 2
  MaxPayload = 5
  MaxEvents = 2
  Sizes = {2}
  MaxChunks = 3
  MaxFaults = 1
CHECK_DEADLOCK FALSE
INVARIANTS
  TypeOK
  RawIsPrefix
  TimelineInOrder
  ReadyIsComplete
  PublishedLacksOnlyOverflow
PROPERTIES
  TeardownNeedsNoDisk
  EventuallyStored
