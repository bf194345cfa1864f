SPECIFICATION FairSpec
CONSTANTS
  HeaderSize = 2
  BufferSize = 5
  MinChunk = 1
  MsgLengths <- OneLength
  MaxMsgs = 2
  MaxConns = 1
PROPERTIES
  StopReturns
\* The system stops once Stop has joined the thread, and the simulator's
\* messages are bounded.
CHECK_DEADLOCK FALSE
