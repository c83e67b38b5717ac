SPECIFICATION Spec
CONSTANTS
  Subs = {s1, s2, s3}
  None = None
  BufferSize = 2
  MaxLines = 1
INVARIANT AllGetTheLine
CHECK_DEADLOCK FALSE
