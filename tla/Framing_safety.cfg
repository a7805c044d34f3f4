SPECIFICATION Spec
CHECK_DEADLOCK FALSE
CONSTANTS
  Streams <- MCStreams
  BccTexts <- MCBcc
  MaxData = 1
  MaxBuffer = 12
  MaxEvents = 2
  MaxIssues = 3
INVARIANTS
  TypeOK
  BytesAccountedOnce
  ValidIsComplete
  BufferHasRoom
  OnlyTailAcksDiffer
