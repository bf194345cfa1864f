SPECIFICATION Spec
CONSTANTS
  HeaderSize = 2
  BufferSize = 7
  MinChunk = 2
  MsgLengths <- TwoLengths
  MaxMsgs = 3
  MaxConns = 1
INVARIANTS
  FrameHasItsHeadersLength
\* The system stops once Stop has joined the thread, and the simulator's
\* messages are bounded.
CHECK_DEADLOCK FALSE
