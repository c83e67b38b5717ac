SPECIFICATION FairSpec
CONSTANTS
  Subs = {s1, s2, s3}
  None = None
  BufferSize = 2
  MaxLines = 3
INVARIANT ListExact
INVARIANT NeverNil
INVARIANT UndisturbedGetTheLine
PROPERTY PublishReturns
CHECK_DEADLOCK FALSE
