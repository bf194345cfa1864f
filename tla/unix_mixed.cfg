SPECIFICATION HangUpSpec
CONSTANTS
  HeaderSize = 2
  BufferSize = 6
  MinChunk = 1
  MsgLengths <- TwoLengths
  MaxMsgs = 3
  MaxConns = 2
INVARIANTS
  FramesAreStreamSegments
PROPERTIES
  StopReturns
\* The system stops once Stop has joined the thread, and the simulator's
\* messages are bounded.
CHECK_DEADLOCK FALSE
