--------------------------- MODULE StreamServerInv ---------------------------
(***************************************************************************)
(* The inductive invariants behind StreamServer's safety properties, in    *)
(* named parts: first those that hold for messages of any lengths          *)
(* (StreamServerProofs, ChannelProofs), then those for paced writes        *)
(* (ChannelProofs) and for messages of one length (UniformStreamProofs,    *)
(* TcpServerProofs, LossyChannelProofs).                                   *)
(***************************************************************************)
EXTENDS StreamServer

Serving == pc \in {"serve", "read", "parse", "fill", "fillread"}
Filling == pc \in {"fill", "fillread"}

-----------------------------------------------------------------------------
(* Messages of any lengths                                                 *)

\* The owner and the thread: the thread lives between Start and the join.
OwnerThread ==
  /\ owner \in {"constructed", "bound", "failed"} => pc = "none"
  /\ owner = "stopped" => pc = "exited"
  /\ running => owner = "started"

\* A thread that serves has a client; a message being filled is incomplete
\* and nothing else of the buffer is left to parse.
FillIsPartial ==
  /\ Serving => cur > 0
  /\ Filling => hdrLen \in MsgLengths /\ Len(frame) < hdrLen /\ saved = 0

\* A connection that already cost a frame buffer is read to its end or the
\* server is being stopped: it cannot cost a second one.
LeakedConnectionIsDone ==
  /\ pc = "serve" /\ leaked = cur => AtEof \/ ~running
  /\ pc = "read" /\ leaked = cur => AtEof
  /\ pc = "parse" => leaked < cur

\* Frame f lies in what the thread has read of connection c.
ReadFrom(f, c) ==
  /\ f # <<>>
  /\ f = Cells(f[1], Len(f))
  /\ conns[c].from <= f[1] /\ f[Len(f)] < conns[c].upto
  /\ c = cur => f[Len(f)] < readPos

FramesReadFrom ==
  \A i \in DOMAIN delivered : \E c \in 1..cur : ReadFrom(delivered[i], c)

\* The buffer and the frame being filled are what the thread read last of
\* the connection it serves.
BufferReadFrom ==
  /\ pc = "parse" => conns[cur].from <= bufAt /\ bufAt + received = readPos
  /\ Filling => /\ Len(frame) > 0
                /\ conns[cur].from <= readPos - Len(frame)
                /\ frame = Cells(readPos - Len(frame), Len(frame))

SegmentInv == FramesReadFrom /\ BufferReadFrom

BaseInv ==
  /\ TypeOK
  /\ OwnerThread
  /\ FillIsPartial

LeakInv == LeakBound /\ LeakedConnectionIsDone

-----------------------------------------------------------------------------
(* What the refinements rest on                                            *)

\* The connections carry consecutive stretches of the cells, and the thread
\* reads inside the one it serves.
ConnectionsInOrder ==
  /\ \A c \in DOMAIN conns : conns[c].from <= conns[c].upto /\ conns[c].upto <= nextAt
  /\ \A c, d \in DOMAIN conns : c < d => conns[c].upto <= conns[d].from
  /\ cur > 0 => conns[cur].from <= readPos /\ readPos <= conns[cur].upto
  /\ cur = 0 => readPos = 0

\* What was written last went to the connection that is open.
OpenIsCurrent == PeerOpen => Last.upto = nextAt

\* The messages lie one behind the other in the cells written so far.
MessagesApart ==
  /\ \A k \in DOMAIN msgs : msgs[k].at + msgs[k].len <= nextAt
  /\ \A j, k \in DOMAIN msgs : j < k => msgs[j].at + msgs[j].len <= msgs[k].at

\* Every frame is a message that ends before cell a.
WholeBelow(a) ==
  \A i \in DOMAIN delivered : \E k \in DOMAIN msgs :
    IsMessage(delivered[i], k) /\ msgs[k].at + msgs[k].len <= a

ChannelInv ==
  /\ BaseInv
  /\ ConnectionsInOrder
  /\ OpenIsCurrent
  /\ MessagesApart
  /\ WholeBelow(readPos)

-----------------------------------------------------------------------------
(* Paced writes                                                            *)

\* The first cell the thread has not dealt with.
InHand ==
  IF pc = "parse" THEN CopyFrom
  ELSE IF Filling THEN readPos - Len(frame)
  ELSE readPos

\* The thread has been told to stop and is in no message: it reads no more.
Ending == ~running /\ pc \in {"loop", "accept", "serve", "exited"}

\* From cell a to cell b there is nothing, or one message or its beginning.
OneMessageIn(a, b) ==
  a = b \/ \E k \in DOMAIN msgs : msgs[k].at = a /\ b <= msgs[k].at + msgs[k].len

\* What became of message k is settled.
Dealt(k) == CutShort(k) \/ \E i \in DOMAIN delivered : IsMessage(delivered[i], k)

\* No message is older than the first connection.
SentOverConnections ==
  \A k \in DOMAIN msgs : Len(conns) > 0 /\ conns[1].from <= msgs[k].at

\* No connection holds more than one message the thread has not dealt with.
AtMostOneUnread ==
  /\ \A c \in cur + 1..Len(conns) : OneMessageIn(conns[c].from, conns[c].upto)
  /\ Serving /\ ~Ending => OneMessageIn(InHand, conns[cur].upto)
  /\ pc \in {"loop", "accept"} /\ cur > 0 /\ ~Ending => readPos = conns[cur].upto
  /\ pc = "none" => cur = 0

\* A read begins with a header, unless the connection ended inside it.
ParseWholeHeader ==
  pc = "parse" =>
    /\ saved \in {0, received}
    /\ 0 < saved /\ saved < HeaderSize => readPos = conns[cur].upto

FillOneMessage ==
  Filling =>
    \E k \in DOMAIN msgs : msgs[k].at = readPos - Len(frame) /\ msgs[k].len = hdrLen

\* All messages before the one in hand are dealt with.
EarlierDealt == ~Ending => \A k \in DOMAIN msgs : msgs[k].at < InHand => Dealt(k)

\* What the thread leaves behind, and what is still ahead of it.
DoneSoFar == WholeBelow(InHand) /\ SentOverConnections /\ EarlierDealt
StillAhead == AtMostOneUnread /\ ParseWholeHeader /\ FillOneMessage

PacedInv ==
  /\ BaseInv
  /\ ConnectionsInOrder
  /\ OpenIsCurrent
  /\ MessagesApart
  /\ SegmentInv
  /\ DoneSoFar
  /\ StillAhead

-----------------------------------------------------------------------------
(* Messages of one length                                                  *)

Uniform == \E n : MsgLengths = {n}
L == CHOOSE n \in MsgLengths : TRUE

Boundary(a) == a = nextAt \/ IsStart(a)

\* The messages lie end to end in the cells written so far.
MessagesTile ==
  /\ \A k \in DOMAIN msgs : msgs[k].at + L <= nextAt
  /\ \A j, k \in DOMAIN msgs : j < k => msgs[j].at + L <= msgs[k].at
  /\ \A k \in DOMAIN msgs : Boundary(msgs[k].at + L)

DeliveredBelow(a) ==
  \A i \in DOMAIN delivered : \A j \in DOMAIN delivered[i] : delivered[i][j] < a

\* While the parse can still find a header at buffer[0], it stands on a
\* message boundary and has delivered nothing from there on.
ParseOnBoundary ==
  pc = "parse" =>
    /\ bufAt + received = readPos
    /\ received > 0
    /\ IsStart(bufAt) => Boundary(CopyFrom) /\ DeliveredBelow(CopyFrom)

\* The message being filled is a message's beginning, up to where the thread
\* has read, and nothing of it was delivered.
FillFromStart ==
  Filling =>
    /\ Len(frame) > 0
    /\ IsStart(readPos - Len(frame))
    /\ frame = Cells(readPos - Len(frame), Len(frame))
    /\ DeliveredBelow(readPos - Len(frame))

UniformInv ==
  /\ BaseInv
  /\ MessagesTile
  /\ ConnectionsInOrder
  /\ ParseOnBoundary
  /\ FillFromStart
  /\ DeliveredBelow(readPos)
  /\ FramesAreMessages
  /\ DeliveredInOrder

\* Nothing was counted, as delivered or as lost, of a message that begins at
\* a or later.
NoFateFrom(a) ==
  /\ leaked + Len(delivered) <= Len(msgs)
  /\ \A k \in DOMAIN msgs : msgs[k].at >= a => leaked + Len(delivered) < k

\* The messages counted are those before the one in hand.
FateInv ==
  /\ pc = "parse" /\ IsStart(bufAt) => NoFateFrom(CopyFrom)
  /\ Filling => NoFateFrom(readPos - Len(frame))
  /\ NoFateFrom(readPos)

=============================================================================
