\* A storage error while a pump waits for room in the queue.
SPECIFICATION FairSpec
CONSTANTS
  Asyncio = "3.12"
  ClientToRch = ClientToRch
  RchToClient = RchToClient
  Free = Free
  Policies = {"abort"}
  QueueSize = 1
  MaxPayload = 4
  MaxEvents = 4
  Sizes = {1}
  MaxChunks = 3
  MaxFaults = 1
CHECK_DEADLOCK FALSE
PROPERTY StorageFailureStopsSession
