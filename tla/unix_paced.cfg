SPECIFICATION FairPacedSpec
CONSTANTS
  HeaderSize = 2
  BufferSize = 3
  MinChunk = 2
  MsgLengths <- ThreeLengths
  MaxMsgs = 3
  MaxConns = 2
INVARIANT
  PacedInv
PROPERTIES
  ImplementsReliableChannel
  EventuallyDelivered
\* The system stops once Stop has joined the thread, and the simulator's
\* messages are bounded.
CHECK_DEADLOCK FALSE
