------------------------- MODULE LossyChannelProofs -------------------------
(***************************************************************************)
(* StreamServer and TcpServer implement MessageChannel: with messages of   *)
(* one length their steps are those of a channel that may lose messages,   *)
(* but hands over each at most once, in order, and none that was cut       *)
(* short.                                                                  *)
(***************************************************************************)
EXTENDS ChannelProofs, TcpServerProofs

-----------------------------------------------------------------------------
(* Messages of one length                                                  *)

LEMMA UniformMsgs ==
  ASSUME Uniform, UniformInv
  PROVE  /\ L \in Nat /\ L > 0 /\ nextAt \in Nat /\ readPos \in Nat
         /\ \A k \in DOMAIN msgs : /\ msgs[k].at \in Nat /\ msgs[k].len = L
                                   /\ msgs[k].at + L <= nextAt
<1>1. TypeOK /\ MessagesTile
  BY DEF UniformInv, BaseInv
<1>2. \A k \in DOMAIN msgs : msgs[k].at \in Nat /\ msgs[k].len = L
  BY <1>1, MsgType, OneLengthFacts
<1>3. QED BY <1>1, <1>2, OneLengthFacts DEF MessagesTile, TypeOK

\* Frames whose cells are below a are messages that end there.
LEMMA WholeFromBelow ==
  ASSUME Uniform, UniformInv, NEW a \in Nat, DeliveredBelow(a)
  PROVE  WholeBelow(a)
<1>1. SUFFICES ASSUME NEW i \in DOMAIN delivered
               PROVE  \E k \in DOMAIN msgs : /\ IsMessage(delivered[i], k)
                                             /\ msgs[k].at + msgs[k].len <= a
  BY DEF WholeBelow
<1>2. PICK k \in DOMAIN msgs : delivered[i] = Cells(msgs[k].at, msgs[k].len)
  BY DEF UniformInv, FramesAreMessages
<1>3. msgs[k].at \in Nat /\ msgs[k].len = L /\ L \in Nat /\ L > 0
  BY UniformMsgs
<1>4. L \in DOMAIN delivered[i] /\ delivered[i][L] = msgs[k].at + L - 1
  <2>1. delivered[i] = Cells(msgs[k].at, L) /\ L \in 1..L
    BY <1>2, <1>3
  <2>2. DOMAIN Cells(msgs[k].at, L) = 1..L
    BY DEF Cells
  <2>3. Cells(msgs[k].at, L)[L] = msgs[k].at + L - 1
    BY <1>3, CellsEnds
  <2>4. QED BY <2>1, <2>2, <2>3
<1>5. msgs[k].at + L - 1 < a
  BY <1>4 DEF DeliveredBelow
<1>6. QED BY <1>2, <1>3, <1>5 DEF IsMessage

LEMMA UniformChannel ==
  ASSUME Uniform, UniformInv, OpenIsCurrent
  PROVE  ChannelInv
<1>1. BaseInv /\ ConnectionsInOrder
  BY DEF UniformInv
<1>2. MessagesApart
  <2>1. \A k \in DOMAIN msgs : msgs[k].len = L
    BY UniformMsgs
  <2>2. QED BY <2>1 DEF UniformInv, MessagesTile, MessagesApart
<1>3. WholeBelow(readPos)
  BY UniformMsgs, WholeFromBelow DEF UniformInv
<1>4. QED BY <1>1, <1>2, <1>3 DEF ChannelInv

\* The steps of the thread that hand over a message.
LEMMA StepDeliver ==
  ASSUME Uniform, UniformInv, SegmentInv, OpenIsCurrent, ParseWhole \/ FillComplete
  PROVE  \E k \in 1..Len(msgs) :
           /\ \A i \in DOMAIN delivered : Numbers[i] < k
           /\ k \notin Cut
           /\ Numbers' = Append(Numbers, k)
           /\ UNCHANGED Cut
<1> ChannelInv /\ BaseInv /\ ConnectionsInOrder
  BY UniformChannel DEF UniformInv
<1>1. UNCHANGED <<conns, msgs>>
  BY DEF ParseWhole, FillComplete, peerVars
<1>2. SUFFICES ASSUME NEW a \in Nat, IsStart(a), DeliveredBelow(a), cur > 0,
                      conns[cur].from <= a, a + L <= conns[cur].upto,
                      delivered' = Append(delivered, Cells(a, L))
               PROVE  \E k \in 1..Len(msgs) :
                        /\ \A i \in DOMAIN delivered : Numbers[i] < k
                        /\ k \notin Cut
                        /\ Numbers' = Append(Numbers, k)
                        /\ UNCHANGED Cut
  <2>1. CASE ParseWhole
    <3>1. pc = "parse" /\ saved >= HeaderSize
      BY <2>1 DEF ParseWhole
    <3>2. PICK k \in DOMAIN msgs :
            /\ HeaderAt(k, bufAt) /\ saved >= msgs[k].len
            /\ delivered' = Append(delivered, Cells(CopyFrom, msgs[k].len))
      BY <2>1 DEF ParseWhole
    <3>3. msgs[k].len = L
      BY UniformMsgs
    <3>4. PICK a \in Nat : a = CopyFrom
      BY <3>1, ParseInside
    <3>5. IsStart(a) /\ DeliveredBelow(a)
      BY <3>1, <3>2, <3>4, ParseAtStart DEF IsStart
    <3>6. cur > 0 /\ saved \in Nat /\ conns[cur].from <= a /\ a + saved = readPos
      BY <3>1, <3>4, ParseInside
    <3>7. PICK u \in Nat : u = conns[cur].upto /\ readPos <= u /\ readPos \in Nat
      BY <3>6, ServedConn
    <3>8. a + L <= u
      <4>1. saved >= L /\ L \in Nat
        BY <3>2, <3>3, UniformMsgs
      <4>2. QED BY <3>6, <3>7, <4>1
    <3>9. a + L <= conns[cur].upto
      BY <3>7, <3>8
    <3>10. QED BY <3>2, <3>3, <3>4, <3>5, <3>6, <3>9, <1>2
  <2>2. CASE FillComplete
    <3>1. Filling
      BY <2>2 DEF FillComplete, Filling
    <3>2. PICK n \in Chunks :
            /\ n >= hdrLen - Len(frame)
            /\ delivered' = Append(delivered,
                                   frame \o Cells(readPos, hdrLen - Len(frame)))
      BY <2>2 DEF FillComplete
    <3>3. PICK a \in Nat : /\ a = readPos - Len(frame) /\ IsStart(a)
                           /\ frame = Cells(a, Len(frame)) /\ DeliveredBelow(a)
                           /\ readPos \in Nat /\ n \in Nat
                           /\ Len(frame) \in Nat
                           /\ hdrLen = L /\ L \in Nat /\ Len(frame) < L
      BY <3>1, FillFacts
    <3>4. frame \o Cells(readPos, hdrLen - Len(frame)) = Cells(a, L)
      <4>1. readPos = a + Len(frame) /\ L - Len(frame) \in Nat
            /\ Len(frame) + (L - Len(frame)) = L
        BY <3>3
      <4>2. Cells(a, Len(frame)) \o Cells(a + Len(frame), L - Len(frame))
              = Cells(a, Len(frame) + (L - Len(frame)))
        BY <3>3, <4>1, CellsConcat
      <4>3. QED BY <3>3, <4>1, <4>2
    <3>5. cur > 0 /\ conns[cur].from <= a
      BY <3>1, <3>3, FillInside
    <3>6. PICK u \in Nat : u = conns[cur].upto /\ readPos + n <= u
      BY <3>5, ReadSize, ServedConn
    <3>7. a + L <= u
      BY <3>2, <3>3, <3>6
    <3>8. a + L <= conns[cur].upto
      BY <3>6, <3>7
    <3>9. QED BY <3>2, <3>3, <3>4, <3>5, <3>8, <1>2
  <2>3. QED BY <2>1, <2>2
<1>3. PICK k \in DOMAIN msgs : msgs[k].at = a
  BY <1>2 DEF IsStart, HeaderAt
<1>4. msgs[k].len = L
  BY UniformMsgs
<1>5. WholeBelow(msgs[k].at)
  BY <1>2, <1>3, WholeFromBelow
<1>6. QED BY <1>1, <1>2, <1>3, <1>4, <1>5, StepHandOver

\* Every step of the server, its owner and the simulator is one of the lossy
\* channel's, or changes nothing of it.
LEMMA ChannelStep ==
  ASSUME Uniform, UniformInv, SegmentInv, OpenIsCurrent, [Next]_vars
  PROVE  [Channel!LossyNext]_Channel!vars
<1> USE DEF Cut
<1>1. CASE ParseWhole \/ FillComplete
  <2>1. PICK k \in 1..Len(msgs) :
          /\ \A i \in DOMAIN delivered : Numbers[i] < k
          /\ k \notin Cut
          /\ Numbers' = Append(Numbers, k)
          /\ UNCHANGED Cut
    BY <1>1, StepDeliver
  <2>2. UNCHANGED Len(msgs)
    BY <1>1 DEF ParseWhole, FillComplete, peerVars
  <2>3. \A j \in Channel!HandedOver : j < k
    BY <2>1, HandedOverIs
  <2>4. Channel!HandOver(k)
    BY <2>1, <2>2, <2>3 DEF Channel!HandOver
  <2>5. QED BY <2>4 DEF Channel!LossyNext
<1>2. CASE ~ParseWhole /\ ~FillComplete
  BY <1>2, UniformChannel, QuietStep DEF Channel!LossyNext
<1>3. QED BY <1>1, <1>2

\* With messages of one length, the sensor stream of a driver is a channel
\* that may lose messages but hands each over at most once, in order, whole,
\* and never one its sender cut short (UnixSocketServer and its Run).
THEOREM StreamIsLossyChannel == ASSUME Uniform PROVE Spec => ImplementsLossyChannel
<1>1. Init => Channel!Init
  BY ChannelInit
<1>2. Init => SegmentInv /\ OpenIsCurrent
  BY SegmentInit DEF Init, OpenIsCurrent, PeerOpen
<1>3. UniformInv /\ SegmentInv /\ OpenIsCurrent /\ [Next]_vars
        => SegmentInv' /\ OpenIsCurrent'
  BY SegmentStep, OpenStep DEF UniformInv
<1>4. UniformInv /\ SegmentInv /\ OpenIsCurrent /\ [Next]_vars
        => [Channel!LossyNext]_Channel!vars
  BY ChannelStep
<1>5. QED
  BY <1>1, <1>2, <1>3, <1>4, UniformAlways, PTL DEF Spec, ImplementsLossyChannel,
    Channel!LossySpec

-----------------------------------------------------------------------------
(* The same for TcpServer                                                  *)

\* Over TCP the former connection ends unseen, and a new one begins behind it.
LEMMA CutReconnect ==
  ASSUME ChannelInv, PeerReconnect, NEW u \in Nat,
         conns' = Append([conns EXCEPT ![Len(conns)].upto = u],
                         [from |-> nextAt, upto |-> nextAt, open |-> TRUE]),
         NEW k \in DOMAIN msgs
  PROVE  CutShort(k)' <=>
           \/ CutShort(k)
           \/ Last.from <= msgs[k].at /\ u < msgs[k].at + msgs[k].len
<1> BaseInv /\ ConnectionsInOrder
  BY DEF ChannelInv
<1>1. PICK N \in Nat : N = Len(conns)
  BY ConnOrderFacts
<1>2. /\ N > 0 /\ conns[N].upto = nextAt /\ DOMAIN conns = 1..N
      /\ UNCHANGED msgs
  BY <1>1, ConnOrderFacts DEF PeerReconnect, PeerOpen, ChannelInv, OpenIsCurrent, Last
<1>3. /\ Len(conns') = N + 1 /\ DOMAIN conns' = 1..N + 1
      /\ \A c \in 1..N : conns'[c].from = conns[c].from
      /\ \A c \in 1..N : c # N => conns'[c].upto = conns[c].upto
      /\ conns'[N].upto = u /\ conns'[N + 1].from = nextAt
  BY <1>1, <1>2, ReconnectConns
<1>4. PICK a \in Nat, n \in Nat : a = msgs[k].at /\ n = msgs[k].len /\ n > 0
  BY MsgsFacts
<1>5. nextAt \in Nat /\ a + n <= nextAt
  BY <1>4, MsgsFacts
<1>6. CutShort(k) <=> \E c \in 1..N : EndsIn(c, a, n)
  BY <1>1, <1>4, CutIs
<1>7. CutShort(k)' <=> \E c \in 1..N + 1 : EndsIn(c, a, n)'
  <2>1. msgs'[k].len = n /\ msgs'[k].at = a
    BY <1>2, <1>4
  <2>2. QED BY <1>3, <2>1 DEF CutShort, EndsIn
<1>8. ~EndsIn(N + 1, a, n)'
  <2>1. ~(nextAt <= a)
    BY <1>4, <1>5
  <2>2. QED BY <1>3, <2>1 DEF EndsIn
<1>9. ~EndsIn(N, a, n)
  <2>1. ~(nextAt < a + n)
    BY <1>4, <1>5
  <2>2. QED BY <1>2, <2>1 DEF EndsIn
<1>10. EndsIn(N, a, n)' <=> conns[N].from <= a /\ u < a + n
  <2>1. N \in 1..N /\ N < N + 1 /\ a < nextAt
    BY <1>2, <1>4, <1>5
  <2>2. QED BY <1>3, <2>1 DEF EndsIn
<1>11. ASSUME NEW c \in 1..N, c # N PROVE EndsIn(c, a, n)' <=> EndsIn(c, a, n)
  <2>1. c < N /\ c < N + 1 /\ c + 1 \in 1..N
    BY <1>11
  <2>2. /\ conns'[c].from = conns[c].from /\ conns'[c].upto = conns[c].upto
        /\ conns'[c + 1].from = conns[c + 1].from
    BY <1>3, <1>11, <2>1
  <2>3. QED BY <1>1, <1>3, <2>1, <2>2 DEF EndsIn
<1>12. \A c : c \in 1..N + 1 <=> c \in 1..N \/ c = N + 1
  OBVIOUS
<1>13. N \in 1..N
  BY <1>2
<1>14. CutShort(k)' <=> CutShort(k) \/ EndsIn(N, a, n)'
  BY <1>6, <1>7, <1>8, <1>9, <1>11, <1>12, <1>13
<1>15. QED BY <1>1, <1>4, <1>10, <1>14 DEF Last

LEMMA StepReconnect ==
  ASSUME ChannelInv, PeerReconnect
  PROVE  /\ UNCHANGED <<msgs, Numbers>>
         /\ \E ks : CutTail(ks) /\ Cut' = Cut \cup ks
<1> BaseInv /\ ConnectionsInOrder
  BY DEF ChannelInv
<1>1. UNCHANGED <<msgs, delivered>> /\ Len(conns) > 0
  BY DEF PeerReconnect, PeerOpen, threadVars, frameVars
<1>2. PICK u \in Last.from..Last.upto :
        /\ cur = Len(conns) => u >= readPos
        /\ conns' = Append([conns EXCEPT ![Len(conns)].upto = u],
                           [from |-> nextAt, upto |-> nextAt, open |-> TRUE])
  BY DEF PeerReconnect
<1>3. u \in Nat
  BY <1>1, CutPoint
<1>4. \A k \in DOMAIN msgs :
        CutShort(k)' <=>
          CutShort(k) \/ (Last.from <= msgs[k].at /\ u < msgs[k].at + msgs[k].len)
  BY <1>2, <1>3, CutReconnect
<1>5. QED BY <1>1, <1>2, <1>4, CutGrows

LEMMA OpenTcpStep ==
  ASSUME BaseInv, OpenIsCurrent, [TcpNext]_vars
  PROVE  OpenIsCurrent'
<1>1. CASE PeerReconnect
  <2>1. Len(conns) \in Nat /\ Len(conns) > 0
    BY <1>1 DEF PeerReconnect, PeerOpen, BaseInv, TypeOK
  <2>2. PICK u \in Last.from..Last.upto :
          conns' = Append([conns EXCEPT ![Len(conns)].upto = u],
                          [from |-> nextAt, upto |-> nextAt, open |-> TRUE])
    BY <1>1 DEF PeerReconnect
  <2>3. Len(conns') = Len(conns) + 1
        /\ conns'[Len(conns) + 1] = [from |-> nextAt, upto |-> nextAt, open |-> TRUE]
    BY <2>1, <2>2 DEF BaseInv, TypeOK
  <2>4. UNCHANGED nextAt
    BY <1>1 DEF PeerReconnect
  <2>5. QED BY <2>3, <2>4 DEF OpenIsCurrent, Last
<1>2. CASE ReadTimeout \/ FillTimeout
  BY <1>2 DEF ReadTimeout, FillTimeout, peerVars, OpenIsCurrent, PeerOpen, Last
<1>3. QED BY <1>1, <1>2, TcpSteps, OpenStep

LEMMA SegmentTcpStep ==
  ASSUME Uniform, UniformInv, SegmentInv, [TcpNext]_vars
  PROVE  SegmentInv'
<1>1. CASE PeerReconnect
  <2>1. PICK u \in Nat :
          /\ Len(conns) \in Nat /\ Len(conns) > 0
          /\ cur = Len(conns) => u >= readPos
          /\ conns' = Append([conns EXCEPT ![Len(conns)].upto = u],
                             [from |-> nextAt, upto |-> nextAt, open |-> TRUE])
    BY <1>1, ReconnectFacts DEF UniformInv
  <2>2. /\ \A c \in 1..Len(conns) : conns'[c].from = conns[c].from
        /\ \A c \in 1..Len(conns) : c # Len(conns) => conns'[c].upto = conns[c].upto
        /\ conns'[Len(conns)].upto = u
    BY <2>1, ReconnectConns DEF UniformInv
  <2>3. /\ cur \in Nat /\ cur <= Len(conns) /\ readPos \in Nat
        /\ UNCHANGED <<cur, readPos, pc, bufAt, received, frame, delivered>>
    BY <1>1, ConnFacts DEF UniformInv, PeerReconnect, threadVars, bufVars, frameVars
  <2>4. ASSUME NEW c \in 1..cur
        PROVE  /\ conns'[c].from = conns[c].from
               /\ conns'[c].upto \in Nat
               /\ \/ conns[c].upto <= conns'[c].upto
                  \/ c = cur /\ readPos <= conns'[c].upto
    <3>1. c \in 1..Len(conns) /\ conns[c].upto \in Nat
      <4>1. c \in 1..Len(conns)
        BY <2>1, <2>3
      <4>2. QED BY <4>1, ConnOrderFacts DEF UniformInv
    <3>2. CASE c # Len(conns)
      BY <2>2, <3>1, <3>2
    <3>3. CASE c = Len(conns)
      <4>1. c = cur /\ cur = Len(conns)
        BY <2>1, <2>3, <3>3
      <4>2. QED BY <2>1, <2>2, <2>3, <3>1, <4>1
    <3>4. QED BY <3>2, <3>3
  <2>5. FramesReadFrom'
    <3>1. cur' = cur /\ readPos' = readPos
      BY <2>3
    <3>2. QED BY <2>3, <2>4, <3>1, FramesKept DEF SegmentInv, UniformInv
  <2>6. BufferReadFrom'
    <3>1. pc = "parse" \/ Filling => cur \in 1..Len(conns)
      BY <2>1, <2>3 DEF UniformInv, BaseInv, FillIsPartial, Serving, Filling
    <3>2. QED BY <2>2, <2>3, <3>1 DEF SegmentInv, BufferReadFrom, Filling
  <2>7. QED BY <2>5, <2>6 DEF SegmentInv
<1>2. CASE ReadTimeout \/ FillTimeout
  <2>1. /\ UNCHANGED <<conns, cur, readPos, delivered>>
        /\ pc' \in {"loop", "serve"}
    BY <1>2 DEF ReadTimeout, FillTimeout, FillAbandon, peerVars, frameVars
  <2>2. QED BY <2>1 DEF SegmentInv, FramesReadFrom, ReadFrom, BufferReadFrom, Filling
<1>3. QED BY <1>1, <1>2, TcpSteps, SegmentStep DEF UniformInv

LEMMA ChannelTcpStep ==
  ASSUME Uniform, UniformInv, SegmentInv, OpenIsCurrent, [TcpNext]_vars
  PROVE  [Channel!LossyNext]_Channel!vars
<1>1. CASE PeerReconnect
  <2>1. Channel!CutOff
    BY <1>1, UniformChannel, StepReconnect, EndIsCutOff DEF UniformInv
  <2>2. QED BY <2>1 DEF Channel!LossyNext
<1>2. CASE ReadTimeout \/ FillTimeout
  <2>1. UNCHANGED <<conns, msgs, delivered>>
    BY <1>2 DEF ReadTimeout, FillTimeout, FillAbandon, peerVars, frameVars
  <2>2. UNCHANGED <<Len(msgs), Numbers, Cut>>
    BY <2>1 DEF Numbers, IsMessage, Cut, CutShort
  <2>3. QED BY <2>2 DEF Channel!vars, Cut
<1>3. QED BY <1>1, <1>2, TcpSteps, ChannelStep

\* With messages of one length the TCP server implements the same channel,
\* although reads time out anywhere and clients vanish unseen (TcpServer and
\* its Run).
THEOREM TcpIsLossyChannel == ASSUME Uniform PROVE TcpSpec => ImplementsLossyChannel
<1>1. Init => Channel!Init
  BY ChannelInit
<1>2. Init => SegmentInv /\ OpenIsCurrent
  BY SegmentInit DEF Init, OpenIsCurrent, PeerOpen
<1>3. UniformInv /\ SegmentInv /\ OpenIsCurrent /\ [TcpNext]_vars
        => SegmentInv' /\ OpenIsCurrent'
  BY SegmentTcpStep, OpenTcpStep DEF UniformInv
<1>4. UniformInv /\ SegmentInv /\ OpenIsCurrent /\ [TcpNext]_vars
        => [Channel!LossyNext]_Channel!vars
  BY ChannelTcpStep
<1>5. QED
  BY <1>1, <1>2, <1>3, <1>4, UniformTcpAlways, PTL DEF TcpSpec,
    ImplementsLossyChannel, Channel!LossySpec

=============================================================================
