\* Two clients, one or two slots, one printer, both asyncio implementations.
SPECIFICATION FairSpec
CONSTANTS
  N = 2
  Limits = {1, 2}
  Attempts = 2
  Versions = {"3.11", "3.12"}
INVARIANTS
  TypeOK
  OneConversation
  PersistenceAwaited
PROPERTIES
  EverySessionEnds
  ShutdownEnds
