SPECIFICATION Spec
CONSTANTS
  HeaderSize = 2
  BufferSize = 7
  MinChunk = 1
  MsgLengths <- OneLength
  MaxMsgs = 4
  MaxConns = 2
INVARIANTS
  TypeOK
  FramesAreMessages
  DeliveredInOrder
  LeakBound
  UniformInv
  LeakInv
PROPERTIES
  NoCallbackAfterStop
  ImplementsLossyChannel
\* The system stops once Stop has joined the thread, and the simulator's
\* messages are bounded.
CHECK_DEADLOCK FALSE
