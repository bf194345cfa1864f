------------------------ MODULE UniformStreamProofs ------------------------
(***************************************************************************)
(* Messages of one length: what the callback gets are whole messages, in   *)
(* the order of writing, each at most once, for every header and buffer    *)
(* size, every length of message and every way the reads split the stream. *)
(***************************************************************************)
EXTENDS StreamServerProofs

LEMMA OneLengthFacts ==
  ASSUME Uniform
  PROVE  MsgLengths = {L} /\ L \in Nat /\ L > 0 /\ L >= HeaderSize
<1>1. PICK n : MsgLengths = {n}
  BY DEF Uniform
<1>2. L \in MsgLengths
  BY <1>1 DEF L
<1>3. QED BY <1>1, <1>2, StreamAssumption

LEMMA UniformInit == Init => UniformInv
<1> SUFFICES ASSUME Init PROVE UniformInv
  OBVIOUS
<1>1. MessagesTile /\ ConnectionsInOrder
  BY DEF Init, MessagesTile, ConnectionsInOrder
<1>2. ParseOnBoundary /\ FillFromStart
  BY DEF Init, ParseOnBoundary, FillFromStart, Filling
<1>3. DeliveredBelow(readPos) /\ FramesAreMessages /\ DeliveredInOrder
  BY DEF Init, DeliveredBelow, FramesAreMessages, DeliveredInOrder
<1>4. QED BY <1>1, <1>2, <1>3, BaseInit DEF UniformInv

-----------------------------------------------------------------------------
(* The cells                                                               *)

\* No message begins inside another.
LEMMA StartsApart ==
  ASSUME Uniform, TypeOK, MessagesTile, NEW a, NEW b \in Nat,
         IsStart(a), a < b, b < a + L
  PROVE  ~IsStart(b)
<1>1. SUFFICES ASSUME NEW j \in DOMAIN msgs, NEW k \in DOMAIN msgs,
                      msgs[j].at = a, msgs[k].at = b
               PROVE  FALSE
  BY DEF IsStart, HeaderAt
<1>2. j \in Nat /\ k \in Nat /\ a \in Nat
  BY <1>1, MsgType DEF TypeOK
<1>3. CASE j < k
  BY <1>1, <1>2, <1>3, OneLengthFacts DEF MessagesTile
<1>4. CASE k < j
  BY <1>1, <1>2, <1>4, OneLengthFacts DEF MessagesTile
<1>5. CASE j = k
  BY <1>1, <1>2, <1>5
<1>6. QED BY <1>2, <1>3, <1>4, <1>5

\* Here all messages have the same length.
LEMMA SendFacts ==
  ASSUME Uniform, BaseInv, NEW len \in MsgLengths, PeerSend(len)
  PROVE  /\ len = L /\ nextAt \in Nat /\ nextAt' = nextAt + L
         /\ Len(msgs') = Len(msgs) + 1 /\ Len(msgs) \in Nat
         /\ DOMAIN msgs = 1..Len(msgs) /\ DOMAIN msgs' = 1..Len(msgs) + 1
         /\ \A k \in DOMAIN msgs : msgs'[k] = msgs[k]
         /\ msgs'[Len(msgs) + 1].at = nextAt
         /\ msgs'[Len(msgs) + 1].len = L
<1>1. len = L
  BY OneLengthFacts
<1>2. QED BY <1>1, SentMessage

LEMMA TileSend ==
  ASSUME Uniform, BaseInv, MessagesTile, NEW len \in MsgLengths, PeerSend(len)
  PROVE  MessagesTile'
<1>1. \A k \in DOMAIN msgs' :
        \/ k \in DOMAIN msgs /\ msgs'[k] = msgs[k] /\ msgs[k].at \in Nat
        \/ k = Len(msgs) + 1 /\ msgs'[k].at = nextAt
  BY SendFacts, MsgType DEF BaseInv
<1>2. \A k \in DOMAIN msgs' : msgs'[k].at + L <= nextAt'
  BY <1>1, SendFacts, OneLengthFacts DEF MessagesTile
<1>3. \A j, k \in DOMAIN msgs' : j < k => msgs'[j].at + L <= msgs'[k].at
  BY <1>1, SendFacts, OneLengthFacts DEF MessagesTile
<1>4. \A k \in DOMAIN msgs' : Boundary(msgs[k].at + L)'
  <2>1. SUFFICES ASSUME NEW k \in DOMAIN msgs'
                 PROVE  Boundary(msgs[k].at + L)'
    OBVIOUS
  <2>2. CASE k = Len(msgs) + 1
    BY <2>2, SendFacts DEF Boundary
  <2>3. CASE k \in DOMAIN msgs
    <3>1. Boundary(msgs[k].at + L)
      BY <2>3 DEF MessagesTile
    <3>2. CASE msgs[k].at + L = nextAt
      BY <2>3, <3>2, SendFacts DEF Boundary, IsStart, HeaderAt
    <3>3. CASE IsStart(msgs[k].at + L)
      BY <2>3, <3>3, SendFacts DEF Boundary, IsStart, HeaderAt
    <3>4. QED BY <3>1, <3>2, <3>3 DEF Boundary
  <2>4. QED BY <1>1, <2>2, <2>3
<1>5. QED BY <1>2, <1>3, <1>4 DEF MessagesTile

LEMMA TileStep ==
  ASSUME Uniform, BaseInv, MessagesTile, [Next]_vars
  PROVE  MessagesTile'
<1>1. CASE UNCHANGED <<msgs, nextAt>>
  BY <1>1 DEF MessagesTile, Boundary, IsStart, HeaderAt
<1>2. CASE \E len \in MsgLengths : PeerSend(len)
  BY <1>2, TileSend
<1>3. \/ UNCHANGED <<msgs, nextAt>>
      \/ \E len \in MsgLengths : PeerSend(len)
  BY DEF Next, PeerConnect, PeerClose, Owner, InitServer, Start, StopRequest,
    StopJoin, Run, OuterLoop, AcceptClient, AcceptTimeout, ServeLoop, ReadChunk,
    ReadEof, ParseDrop, ParseWhole, ParsePart, FillLoop, FillStopped, FillEof,
    FillMore, FillComplete, vars, peerVars
<1>4. QED BY <1>1, <1>2, <1>3

-----------------------------------------------------------------------------
(* Delivering one message                                                  *)

LEMMA BelowGrows ==
  ASSUME BaseInv, NEW a \in Nat, NEW b \in Nat, a <= b, DeliveredBelow(a)
  PROVE  DeliveredBelow(b)
BY CellType DEF DeliveredBelow

LEMMA DeliverOne ==
  ASSUME Uniform, BaseInv, DeliveredInOrder, FramesAreMessages,
         NEW a, IsStart(a), DeliveredBelow(a), UNCHANGED msgs,
         delivered' = Append(delivered, Cells(a, L))
  PROVE  /\ DeliveredInOrder'
         /\ FramesAreMessages'
         /\ \A b \in Nat : a + L <= b =>
              \A i \in DOMAIN delivered' : \A j \in DOMAIN delivered'[i] :
                delivered'[i][j] < b
<1> DEFINE N == Len(delivered)
<1>1. a \in Nat /\ L \in Nat
  BY StartType, OneLengthFacts DEF BaseInv
<1>2. PICK f \in Seq(Nat) : /\ f = Cells(a, L) /\ Len(f) = L
                            /\ \A i \in 1..L : f[i] = a + i - 1
  BY <1>1, CellsSeq
<1>3. /\ N \in Nat /\ DOMAIN delivered = 1..N /\ DOMAIN delivered' = 1..N + 1
      /\ \A i \in 1..N : delivered'[i] = delivered[i]
      /\ delivered'[N + 1] = f
  BY <1>2 DEF BaseInv, TypeOK
<1>4. \A i \in 1..N : \A j \in DOMAIN delivered[i] :
        delivered[i][j] \in Nat /\ delivered[i][j] < a
  BY <1>3, CellType DEF DeliveredBelow
<1>5. \A j \in DOMAIN f : f[j] \in Nat /\ a <= f[j] /\ f[j] < a + L
  BY <1>1, <1>2
<1>6. DeliveredInOrder'
  <2>1. SUFFICES ASSUME NEW i \in 1..N + 1, NEW j \in 1..N + 1, i < j,
                        NEW x \in DOMAIN delivered'[i],
                        NEW y \in DOMAIN delivered'[j]
                 PROVE  delivered'[i][x] < delivered'[j][y]
    BY <1>3 DEF DeliveredInOrder
  <2>2. i \in 1..N
    BY <1>3, <2>1
  <2>3. CASE j \in 1..N
    BY <1>3, <2>1, <2>2, <2>3 DEF DeliveredInOrder
  <2>4. CASE j = N + 1
    <3>1. delivered[i][x] \in Nat /\ delivered[i][x] < a
      BY <1>3, <1>4, <2>2, <2>1
    <3>2. f[y] \in Nat /\ a <= f[y]
      BY <1>3, <1>5, <2>4, <2>1
    <3>3. QED BY <1>1, <1>3, <2>2, <2>4, <3>1, <3>2
  <2>5. QED BY <1>3, <2>3, <2>4
<1>7. FramesAreMessages'
  <2>1. PICK k \in DOMAIN msgs : msgs[k].at = a
    BY DEF IsStart, HeaderAt
  <2>2. msgs[k].len = L
    BY MsgType, OneLengthFacts DEF BaseInv
  <2>3. f = Cells(msgs'[k].at, msgs'[k].len) /\ k \in DOMAIN msgs'
    BY <1>2, <2>1, <2>2
  <2>4. \A i \in 1..N : \E m \in DOMAIN msgs' :
          delivered'[i] = Cells(msgs'[m].at, msgs'[m].len)
    BY <1>3 DEF FramesAreMessages
  <2>5. \A i \in 1..N + 1 : i \in 1..N \/ i = N + 1
    BY <1>3
  <2>6. QED BY <1>3, <2>3, <2>4, <2>5 DEF FramesAreMessages
<1>8. ASSUME NEW b \in Nat, a + L <= b,
             NEW i \in DOMAIN delivered', NEW j \in DOMAIN delivered'[i]
      PROVE  delivered'[i][j] < b
  <2>1. CASE i \in 1..N
    BY <1>1, <1>3, <1>4, <1>8, <2>1
  <2>2. CASE i = N + 1
    BY <1>1, <1>3, <1>5, <1>8, <2>2
  <2>3. QED BY <1>3, <2>1, <2>2
<1>9. QED BY <1>6, <1>7, <1>8

-----------------------------------------------------------------------------
(* The steps of the thread                                                 *)

\* What the delivered frames satisfy wherever the thread stands.
FramesInv ==
  DeliveredBelow(readPos) /\ FramesAreMessages /\ DeliveredInOrder

ThreadInv == ParseOnBoundary /\ FillFromStart /\ FramesInv

LEMMA FramesStutter ==
  ASSUME FramesInv, UNCHANGED <<msgs, delivered, readPos>>
  PROVE  FramesInv'
BY DEF FramesInv, DeliveredBelow, FramesAreMessages, DeliveredInOrder

LEMMA ThreadReadChunk ==
  ASSUME Uniform, UniformInv, ReadChunk
  PROVE  ThreadInv'
<1>1. cur > 0 /\ UNCHANGED <<msgs, nextAt, delivered>> /\ pc' = "parse"
  BY DEF ReadChunk, UniformInv, BaseInv, FillIsPartial, Serving, peerVars, frameVars
<1>2. PICK n \in Chunks : /\ bufAt' = readPos /\ received' = n /\ saved' = n
                          /\ readPos' = readPos + n
  BY DEF ReadChunk
<1>3. /\ n \in Nat /\ n > 0 /\ readPos \in Nat
      /\ readPos + n <= conns[cur].upto /\ conns[cur].upto <= nextAt
  BY <1>1, ReadSize DEF UniformInv
<1>4. CopyFrom' = readPos
  BY <1>2, <1>3 DEF CopyFrom
<1>5. ParseOnBoundary'
  BY <1>1, <1>2, <1>3, <1>4 DEF ParseOnBoundary, Boundary, IsStart, HeaderAt,
    DeliveredBelow, UniformInv
<1>6. FillFromStart'
  BY <1>1 DEF FillFromStart, Filling
<1>7. DeliveredBelow(readPos + n)
  BY <1>3, BelowGrows DEF UniformInv
<1>8. FramesInv'
  BY <1>1, <1>2, <1>7 DEF FramesInv, UniformInv, DeliveredBelow, FramesAreMessages,
    DeliveredInOrder
<1>9. QED BY <1>5, <1>6, <1>8 DEF ThreadInv

\* With a header at buffer[0] and bytes left, the parse stands at the first
\* cell of a message.
LEMMA ParseAtStart ==
  ASSUME Uniform, UniformInv, pc = "parse", saved >= HeaderSize, IsStart(bufAt)
  PROVE  /\ IsStart(CopyFrom) /\ DeliveredBelow(CopyFrom)
         /\ CopyFrom \in Nat /\ CopyFrom + saved = readPos
         /\ saved \in Nat /\ saved > 0
<1>1. /\ saved \in Nat /\ saved > 0 /\ received \in Nat
      /\ bufAt \in Nat /\ CopyFrom \in Nat /\ readPos \in Nat
  BY BufferType, StreamAssumption DEF UniformInv, BaseInv, TypeOK
<1>2. /\ bufAt + received = readPos /\ Boundary(CopyFrom)
      /\ DeliveredBelow(CopyFrom)
  BY DEF UniformInv, ParseOnBoundary
<1>3. CopyFrom + saved = readPos
  BY <1>1, <1>2 DEF CopyFrom
<1>4. cur > 0
  BY DEF UniformInv, BaseInv, FillIsPartial, Serving
<1>5. readPos <= nextAt
  BY <1>4, ConnFacts DEF UniformInv, ConnectionsInOrder
<1>6. CopyFrom # nextAt
  BY <1>1, <1>3, <1>5, ConnFacts DEF UniformInv
<1>7. QED BY <1>1, <1>2, <1>3, <1>6 DEF Boundary

LEMMA ThreadParseWhole ==
  ASSUME Uniform, UniformInv, ParseWhole
  PROVE  ThreadInv'
<1>1. /\ pc = "parse" /\ pc' = "parse" /\ saved >= HeaderSize
      /\ UNCHANGED <<msgs, nextAt, readPos, bufAt, received>>
  BY DEF ParseWhole, peerVars
<1>2. PICK k \in DOMAIN msgs :
        /\ HeaderAt(k, bufAt) /\ saved >= msgs[k].len
        /\ delivered' = Append(delivered, Cells(CopyFrom, msgs[k].len))
        /\ saved' = saved - msgs[k].len
  BY DEF ParseWhole
<1>3. msgs[k].len = L
  BY MsgType, OneLengthFacts DEF UniformInv, BaseInv
<1>4. /\ IsStart(CopyFrom) /\ DeliveredBelow(CopyFrom) /\ CopyFrom \in Nat
      /\ CopyFrom + saved = readPos /\ saved \in Nat
  BY <1>1, <1>2, ParseAtStart DEF IsStart
<1>5. /\ DeliveredInOrder' /\ FramesAreMessages'
      /\ \A b \in Nat : CopyFrom + L <= b =>
           \A i \in DOMAIN delivered' : \A j \in DOMAIN delivered'[i] :
             delivered'[i][j] < b
  BY <1>1, <1>2, <1>3, <1>4, DeliverOne DEF UniformInv
<1>6. CopyFrom' = CopyFrom + L /\ CopyFrom + L \in Nat /\ CopyFrom + L <= readPos
  <2>1. bufAt \in Nat /\ received \in Nat /\ L \in Nat
    BY BufferType, OneLengthFacts DEF UniformInv, BaseInv
  <2>2. QED BY <2>1, <1>1, <1>2, <1>3, <1>4 DEF CopyFrom
<1>7. Boundary(CopyFrom + L)
  BY <1>4 DEF UniformInv, MessagesTile, IsStart, HeaderAt
<1>8. Boundary(CopyFrom)'
  BY <1>1, <1>6, <1>7 DEF Boundary, IsStart, HeaderAt
<1>9. DeliveredBelow(CopyFrom)' /\ DeliveredBelow(readPos)'
  <2>1. readPos \in Nat
    BY DEF UniformInv, BaseInv, TypeOK
  <2>2. QED BY <2>1, <1>1, <1>5, <1>6 DEF DeliveredBelow
<1>10. ParseOnBoundary'
  BY <1>1, <1>8, <1>9 DEF ParseOnBoundary, UniformInv
<1>11. FillFromStart'
  BY <1>1 DEF FillFromStart, Filling
<1>12. QED BY <1>5, <1>9, <1>10, <1>11 DEF ThreadInv, FramesInv

LEMMA ThreadParsePart ==
  ASSUME Uniform, UniformInv, ParsePart
  PROVE  ThreadInv'
<1>1. /\ pc = "parse" /\ pc' = "fill" /\ saved >= HeaderSize
      /\ UNCHANGED <<msgs, nextAt, readPos, delivered>>
      /\ frame' = Cells(CopyFrom, saved)
  BY DEF ParsePart, peerVars
<1>2. IsStart(bufAt)
  BY DEF ParsePart, IsStart
<1>3. /\ IsStart(CopyFrom) /\ DeliveredBelow(CopyFrom) /\ CopyFrom \in Nat
      /\ CopyFrom + saved = readPos /\ saved \in Nat /\ saved > 0
  BY <1>1, <1>2, ParseAtStart
<1>4. Len(frame') = saved
  BY <1>1, <1>3, CellsSeq
<1>5. readPos' - Len(frame') = CopyFrom
  BY <1>1, <1>3, <1>4
<1>6. FillFromStart'
  <2>1. IsStart(readPos - Len(frame))'
    BY <1>1, <1>3, <1>5 DEF IsStart, HeaderAt
  <2>2. (frame = Cells(readPos - Len(frame), Len(frame)))'
    BY <1>1, <1>4, <1>5
  <2>3. DeliveredBelow(readPos - Len(frame))'
    BY <1>1, <1>3, <1>5 DEF DeliveredBelow
  <2>4. QED BY <1>3, <1>4, <2>1, <2>2, <2>3 DEF FillFromStart
<1>7. ParseOnBoundary'
  BY <1>1 DEF ParseOnBoundary
<1>8. FramesInv'
  BY <1>1, FramesStutter DEF UniformInv, FramesInv
<1>9. QED BY <1>6, <1>7, <1>8 DEF ThreadInv

\* The message being filled, its first cell, and what is missing of it.
LEMMA FillFacts ==
  ASSUME Uniform, UniformInv, Filling, NEW n \in Chunks
  PROVE  LET a == readPos - Len(frame) IN
         /\ hdrLen = L /\ L \in Nat /\ saved = 0
         /\ Len(frame) \in Nat /\ Len(frame) > 0 /\ Len(frame) < L
         /\ a \in Nat /\ IsStart(a) /\ frame = Cells(a, Len(frame))
         /\ DeliveredBelow(a)
         /\ readPos \in Nat /\ n \in Nat /\ n > 0
<1>1. hdrLen = L /\ L \in Nat /\ saved = 0 /\ Len(frame) < L
  BY OneLengthFacts DEF UniformInv, BaseInv, FillIsPartial
<1>2. Len(frame) \in Nat /\ Len(frame) > 0 /\ readPos \in Nat
  BY DEF UniformInv, BaseInv, TypeOK, FillFromStart, Frame
<1>3. /\ IsStart(readPos - Len(frame))
      /\ frame = Cells(readPos - Len(frame), Len(frame))
      /\ DeliveredBelow(readPos - Len(frame))
  BY DEF UniformInv, FillFromStart
<1>4. readPos - Len(frame) \in Nat
  BY <1>3, StartType DEF UniformInv, BaseInv
<1>5. n \in Nat /\ n > 0
  BY ReadSize DEF UniformInv, BaseInv, FillIsPartial, Serving, Filling
<1>6. QED BY <1>1, <1>2, <1>3, <1>4, <1>5

LEMMA ThreadFillMore ==
  ASSUME Uniform, UniformInv, FillMore
  PROVE  ThreadInv'
<1>1. pc' = "fill" /\ Filling /\ UNCHANGED <<msgs, delivered>>
  BY DEF FillMore, Filling, peerVars
<1>2. PICK n \in Chunks : /\ n < hdrLen - Len(frame)
                          /\ frame' = frame \o Cells(readPos, n)
                          /\ readPos' = readPos + n
  BY DEF FillMore
<1>3. PICK a \in Nat : /\ a = readPos - Len(frame) /\ IsStart(a)
                       /\ frame = Cells(a, Len(frame)) /\ DeliveredBelow(a)
                       /\ readPos \in Nat /\ n \in Nat /\ n > 0
                       /\ Len(frame) \in Nat /\ Len(frame) > 0
  BY <1>1, FillFacts
<1>4. frame' = Cells(a, Len(frame) + n)
  <2>1. readPos = a + Len(frame)
    BY <1>3
  <2>2. Cells(a, Len(frame)) \o Cells(a + Len(frame), n) = Cells(a, Len(frame) + n)
    BY <1>3, CellsConcat
  <2>3. QED BY <1>2, <1>3, <2>1, <2>2
<1>5. Len(frame') = Len(frame) + n /\ readPos' - Len(frame') = a
  <2>1. Len(frame') = Len(frame) + n
    BY <1>3, <1>4, CellsSeq
  <2>2. QED BY <1>2, <1>3, <2>1
<1>6. FillFromStart'
  <2>1. IsStart(readPos - Len(frame))'
    BY <1>1, <1>3, <1>5 DEF IsStart, HeaderAt
  <2>2. (frame = Cells(readPos - Len(frame), Len(frame)))'
    BY <1>4, <1>5
  <2>3. DeliveredBelow(readPos - Len(frame))'
    BY <1>1, <1>3, <1>5 DEF DeliveredBelow
  <2>4. QED BY <1>3, <1>5, <2>1, <2>2, <2>3 DEF FillFromStart
<1>7. ParseOnBoundary'
  BY <1>1 DEF ParseOnBoundary
<1>8. DeliveredBelow(readPos + n)
  BY <1>3, BelowGrows DEF UniformInv
<1>9. FramesInv'
  BY <1>1, <1>2, <1>8 DEF FramesInv, UniformInv, DeliveredBelow, FramesAreMessages,
    DeliveredInOrder
<1>10. QED BY <1>6, <1>7, <1>9 DEF ThreadInv

\* The read that completes a message starts inside it: buffer[0] holds no
\* header, and the surplus is dropped instead of delivered again.
LEMMA ThreadFillComplete ==
  ASSUME Uniform, UniformInv, FillComplete
  PROVE  ThreadInv'
<1>1. pc' = "parse" /\ Filling /\ UNCHANGED <<msgs, nextAt>>
  BY DEF FillComplete, Filling, peerVars
<1>2. PICK n \in Chunks :
        /\ n >= hdrLen - Len(frame)
        /\ delivered' = Append(delivered,
                               frame \o Cells(readPos, hdrLen - Len(frame)))
        /\ bufAt' = readPos /\ received' = n /\ readPos' = readPos + n
  BY DEF FillComplete
<1>3. PICK a \in Nat : /\ a = readPos - Len(frame) /\ IsStart(a)
                       /\ frame = Cells(a, Len(frame)) /\ DeliveredBelow(a)
                       /\ readPos \in Nat /\ n \in Nat /\ n > 0
                       /\ Len(frame) \in Nat /\ Len(frame) > 0
                       /\ hdrLen = L /\ L \in Nat /\ Len(frame) < L
  BY <1>1, FillFacts
<1>4. frame \o Cells(readPos, hdrLen - Len(frame)) = Cells(a, L)
  <2>1. readPos = a + Len(frame) /\ L - Len(frame) \in Nat
        /\ Len(frame) + (L - Len(frame)) = L
    BY <1>3
  <2>2. Cells(a, Len(frame)) \o Cells(a + Len(frame), L - Len(frame))
          = Cells(a, Len(frame) + (L - Len(frame)))
    BY <1>3, <2>1, CellsConcat
  <2>3. QED BY <1>3, <2>1, <2>2
<1>5. /\ DeliveredInOrder' /\ FramesAreMessages'
      /\ \A b \in Nat : a + L <= b =>
           \A i \in DOMAIN delivered' : \A j \in DOMAIN delivered'[i] :
             delivered'[i][j] < b
  BY <1>1, <1>2, <1>3, <1>4, DeliverOne DEF UniformInv
<1>6. readPos' \in Nat /\ a + L <= readPos'
  BY <1>2, <1>3
<1>7. DeliveredBelow(readPos)'
  BY <1>5, <1>6 DEF DeliveredBelow
<1>8. ~IsStart(readPos)
  <2>1. a < readPos /\ readPos < a + L
    BY <1>3
  <2>2. QED BY <1>3, <2>1, StartsApart DEF UniformInv, BaseInv
<1>9. ParseOnBoundary'
  BY <1>1, <1>2, <1>3, <1>8 DEF ParseOnBoundary, IsStart, HeaderAt
<1>10. FillFromStart'
  BY <1>1 DEF FillFromStart, Filling
<1>11. QED BY <1>5, <1>7, <1>9, <1>10 DEF ThreadInv, FramesInv

LEMMA ThreadAcceptClient ==
  ASSUME Uniform, UniformInv, AcceptClient
  PROVE  ThreadInv'
<1>1. /\ pc' = "serve" /\ UNCHANGED <<msgs, delivered>>
      /\ cur + 1 \in DOMAIN conns /\ readPos' = conns[cur + 1].from
  BY ConnFacts DEF AcceptClient, UniformInv, peerVars, frameVars
<1>2. readPos \in Nat /\ readPos' \in Nat /\ readPos <= readPos'
  BY <1>1, ConnFacts DEF UniformInv, ConnectionsInOrder
<1>3. DeliveredBelow(conns[cur + 1].from)
  BY <1>1, <1>2, BelowGrows DEF UniformInv
<1>4. FramesInv'
  BY <1>1, <1>3 DEF FramesInv, UniformInv, DeliveredBelow, FramesAreMessages,
    DeliveredInOrder
<1>5. ParseOnBoundary' /\ FillFromStart'
  BY <1>1 DEF ParseOnBoundary, FillFromStart, Filling
<1>6. QED BY <1>4, <1>5 DEF ThreadInv

LEMMA ThreadQuiet ==
  ASSUME Uniform, UniformInv,
         \/ OuterLoop \/ AcceptTimeout \/ ServeLoop \/ ReadEof \/ ParseDrop
         \/ FillLoop \/ FillStopped \/ FillEof \/ Owner \/ UNCHANGED vars
  PROVE  ThreadInv'
<1>1. UNCHANGED <<msgs, nextAt, readPos, delivered>>
  BY DEF OuterLoop, AcceptTimeout, ServeLoop, ReadEof, ParseDrop, FillLoop,
    FillStopped, FillEof, FillAbandon, Owner, InitServer, Start, StopRequest,
    StopJoin, vars, peerVars, threadVars, frameVars
<1>2. \/ pc' = pc /\ UNCHANGED <<bufAt, received, saved, frame>>
      \/ pc = "fill" /\ pc' = "fillread" /\ UNCHANGED frame
      \/ pc' \in {"loop", "accept", "serve", "read", "exited"}
  BY DEF OuterLoop, AcceptTimeout, ServeLoop, ReadEof, ParseDrop, FillLoop,
    FillStopped, FillEof, FillAbandon, Owner, InitServer, Start, StopRequest,
    StopJoin, vars, threadVars, bufVars, frameVars
<1>3. ParseOnBoundary'
  BY <1>1, <1>2 DEF ParseOnBoundary, UniformInv, CopyFrom, Boundary, IsStart,
    HeaderAt, DeliveredBelow
<1>4. FillFromStart'
  BY <1>1, <1>2 DEF FillFromStart, Filling, UniformInv, IsStart, HeaderAt,
    DeliveredBelow
<1>5. QED BY <1>1, <1>3, <1>4, FramesStutter DEF ThreadInv, UniformInv, FramesInv

LEMMA StartsGrow ==
  ASSUME Uniform, BaseInv, NEW a \in Nat,
         NEW len \in MsgLengths, PeerSend(len)
  PROVE  /\ IsStart(a) => IsStart(a)'
         /\ Boundary(a) => Boundary(a)'
         /\ a < nextAt => (IsStart(a)' => IsStart(a))
<1>1. IsStart(a) => IsStart(a)'
  BY SendFacts DEF IsStart, HeaderAt
<1>2. a = nextAt => IsStart(a)'
  BY SendFacts DEF IsStart, HeaderAt
<1>3. a < nextAt => (IsStart(a)' => IsStart(a))
  BY SendFacts DEF IsStart, HeaderAt
<1>4. QED BY <1>1, <1>2, <1>3 DEF Boundary

LEMMA ThreadPeerSend ==
  ASSUME Uniform, UniformInv, NEW len \in MsgLengths, PeerSend(len)
  PROVE  ThreadInv'
<1>1. UNCHANGED <<pc, cur, readPos, bufAt, received, saved, frame, delivered>>
  BY DEF PeerSend, threadVars, bufVars, frameVars
<1>2. ParseOnBoundary'
  <2>1. SUFFICES ASSUME pc = "parse"
                 PROVE  /\ bufAt + received = readPos
                        /\ received > 0
                        /\ IsStart(bufAt)' =>
                             Boundary(CopyFrom)' /\ DeliveredBelow(CopyFrom)
    BY <1>1 DEF ParseOnBoundary, CopyFrom, DeliveredBelow
  <2>2. bufAt + received = readPos /\ received > 0
    BY <2>1 DEF UniformInv, ParseOnBoundary
  <2>3. cur > 0 /\ readPos <= nextAt
    BY <2>1, ConnFacts DEF UniformInv, BaseInv, FillIsPartial, Serving,
      ConnectionsInOrder
  <2>4. bufAt \in Nat /\ CopyFrom \in Nat /\ bufAt < nextAt
    BY <2>2, <2>3, BufferType, ConnFacts DEF UniformInv, BaseInv
  <2>5. IsStart(bufAt)' => IsStart(bufAt)
    BY <2>4, <1>1, StartsGrow DEF UniformInv, IsStart, HeaderAt
  <2>6. Boundary(CopyFrom) => Boundary(CopyFrom)'
    BY <2>4, <1>1, StartsGrow DEF UniformInv, Boundary, IsStart, HeaderAt, CopyFrom
  <2>7. QED BY <2>1, <2>2, <2>5, <2>6 DEF UniformInv, ParseOnBoundary
<1>3. FillFromStart'
  <2>1. SUFFICES ASSUME Filling PROVE IsStart(readPos - Len(frame))'
    BY <1>1 DEF FillFromStart, Filling, DeliveredBelow, UniformInv
  <2>2. IsStart(readPos - Len(frame))
    BY <2>1 DEF UniformInv, FillFromStart
  <2>3. QED BY <1>1, <2>2, SendFacts DEF UniformInv, IsStart, HeaderAt
<1>4. FramesAreMessages'
  BY <1>1, SendFacts DEF UniformInv, FramesAreMessages
<1>5. FramesInv'
  BY <1>1, <1>4 DEF FramesInv, UniformInv, DeliveredBelow, DeliveredInOrder
<1>6. QED BY <1>2, <1>3, <1>5 DEF ThreadInv

LEMMA ThreadPeer ==
  ASSUME Uniform, UniformInv, PeerConnect \/ PeerClose
  PROVE  ThreadInv'
<1>1. UNCHANGED <<msgs, nextAt, threadVars>>
  BY DEF PeerConnect, PeerClose
<1>2. ParseOnBoundary' /\ FillFromStart'
  BY <1>1 DEF UniformInv, ParseOnBoundary, FillFromStart, Filling, CopyFrom,
    Boundary, IsStart, HeaderAt, DeliveredBelow, threadVars, bufVars, frameVars
<1>3. QED BY <1>1, <1>2, FramesStutter DEF ThreadInv, UniformInv, FramesInv,
        threadVars, frameVars

LEMMA UniformStep ==
  ASSUME Uniform, UniformInv, [Next]_vars
  PROVE  UniformInv'
<1>1. BaseInv' /\ MessagesTile' /\ ConnectionsInOrder'
  BY BaseStep, TileStep, ConnStep DEF UniformInv
<1>2. ThreadInv'
  BY ThreadReadChunk, ThreadParseWhole, ThreadParsePart, ThreadFillMore,
    ThreadFillComplete, ThreadAcceptClient, ThreadQuiet, ThreadPeerSend,
    ThreadPeer DEF Next, Run
<1>3. QED BY <1>1, <1>2 DEF UniformInv, ThreadInv, FramesInv

\* With messages of one length the parts of Run's state (buffer, counters,
\* message being filled) fit together in every reachable state: the inductive
\* invariant behind the two theorems below.
THEOREM UniformAlways == ASSUME Uniform PROVE Spec => []UniformInv
<1>1. UniformInv /\ [Next]_vars => UniformInv'
  BY UniformStep
<1>2. QED BY <1>1, UniformInit, PTL DEF Spec

-----------------------------------------------------------------------------

\* With messages of one length, every frame handed to a driver is exactly
\* one message (Run's reassembly, unix_socket_server.cc:120-176).
THEOREM WholeMessagesOnly == ASSUME Uniform PROVE Spec => []FramesAreMessages
<1>1. UniformInv => FramesAreMessages
  BY DEF UniformInv
<1>2. QED BY <1>1, UniformAlways, PTL

\* With messages of one length, no byte is delivered twice or out of order,
\* although the surplus of a completing read is counted wrong (:162-163).
THEOREM InOrderOnce == ASSUME Uniform PROVE Spec => []DeliveredInOrder
<1>1. UniformInv => DeliveredInOrder
  BY DEF UniformInv
<1>2. QED BY <1>1, UniformAlways, PTL

=============================================================================
