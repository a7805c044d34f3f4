\* A pump cancelled while it waits for room in the queue.
SPECIFICATION Spec
CONSTANTS
  Asyncio = "3.12"
  ClientToRch = ClientToRch
  RchToClient = RchToClient
  Free = Free
  Policies = {"abort"}
  QueueSize = 1
  MaxPayload = 4
  MaxEvents = 4
  Sizes = {1}
  MaxChunks = 3
  MaxFaults = 0
CHECK_DEADLOCK FALSE
INVARIANT EvidenceComplete
