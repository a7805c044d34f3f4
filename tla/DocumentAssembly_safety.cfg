SPECIFICATION Spec
CHECK_DEADLOCK FALSE
CONSTANTS
  None = None
  Conversations <- MCConversations
  Limits <- MCLimits
  Earlier <- MCEarlier
  Modulus = 7
  MaxFaults = 2
  Gaps = {1, 7}
  Unacknowledged = {0, 2}
INVARIANTS
  TypeOK
  FramesInOneDocument
  SalesSeparate
  CompleteByOwnClose
  TruncationOnlyOmits
  CopiesAreReal
  CounterIsOwn
  LimitsReported
