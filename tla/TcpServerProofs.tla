--------------------------- MODULE TcpServerProofs ---------------------------
(***************************************************************************)
(* TcpServer with messages of one length.  The invariant of                *)
(* UnixSocketServer survives the three steps a TCP socket adds: the        *)
(* simulator that connects anew while its former connection stays open,    *)
(* and the two timeouts.  FateInv adds what becomes of each message.       *)
(***************************************************************************)
EXTENDS TcpServer, UniformStreamProofs

-----------------------------------------------------------------------------
(* The simulator connects anew                                             *)

LEMMA ReconnectFacts ==
  ASSUME BaseInv, ConnectionsInOrder, PeerReconnect
  PROVE  \E cut \in Nat :
           /\ Len(conns) \in Nat /\ Len(conns) > 0
           /\ cur = Len(conns) => cut >= readPos
           /\ conns[Len(conns)].from <= cut /\ cut <= nextAt
           /\ conns' = Append([conns EXCEPT ![Len(conns)].upto = cut],
                              [from |-> nextAt, upto |-> nextAt, open |-> TRUE])
<1>1. Len(conns) \in 1..Len(conns) /\ Len(conns) \in Nat
  BY ConnFacts DEF PeerReconnect, PeerOpen
<1>2. PICK cut \in Last.from..Last.upto :
        /\ cur = Len(conns) => cut >= readPos
        /\ conns' = Append([conns EXCEPT ![Len(conns)].upto = cut],
                           [from |-> nextAt, upto |-> nextAt, open |-> TRUE])
  BY DEF PeerReconnect
<1>3. Last.from \in Nat /\ Last.upto \in Nat /\ Last.upto <= nextAt
  BY <1>1, ConnFacts DEF Last, ConnectionsInOrder
<1>4. cut \in Nat /\ Last.from <= cut /\ cut <= nextAt
  BY <1>2, <1>3, ConnFacts
<1>5. Len(conns) > 0 /\ conns[Len(conns)].from <= cut
  BY <1>1, <1>4 DEF Last
<1>6. QED BY <1>1, <1>2, <1>4, <1>5, Zenon

\* The former connection ends at cut, the new one starts empty.
LEMMA ReconnectConns ==
  ASSUME BaseInv, NEW cut \in Nat, Len(conns) \in Nat, Len(conns) > 0,
         conns' = Append([conns EXCEPT ![Len(conns)].upto = cut],
                         [from |-> nextAt, upto |-> nextAt, open |-> TRUE])
  PROVE  /\ conns' \in Seq([from : Nat, upto : Nat, open : BOOLEAN])
         /\ Len(conns') = Len(conns) + 1
         /\ DOMAIN conns' = 1..Len(conns) + 1
         /\ \A c \in 1..Len(conns) :
              /\ conns'[c].from = conns[c].from
              /\ c # Len(conns) => conns'[c].upto = conns[c].upto
         /\ conns'[Len(conns)].upto = cut
         /\ conns'[Len(conns) + 1].from = nextAt
         /\ conns'[Len(conns) + 1].upto = nextAt
<1> DEFINE N == Len(conns)
           C == [from : Nat, upto : Nat, open : BOOLEAN]
           old == [conns[N] EXCEPT !.upto = cut]
           new == [from |-> nextAt, upto |-> nextAt, open |-> TRUE]
           mid == [conns EXCEPT ![N] = old]
<1>1. conns \in Seq(C) /\ N \in 1..N /\ N \in Nat /\ nextAt \in Nat
  BY DEF BaseInv, TypeOK
<1>2. conns[N] \in C
  BY <1>1, ConnType DEF BaseInv
<1>3. old \in C /\ old.from = conns[N].from /\ old.upto = cut
  BY <1>2
<1>4. new \in C /\ new.from = nextAt /\ new.upto = nextAt
  BY <1>1
<1>5. /\ mid \in Seq(C) /\ Len(mid) = N
      /\ \A c \in 1..N : mid[c] = IF c = N THEN old ELSE conns[c]
  <2>1. mid \in Seq(C) /\ Len(mid) = N
    BY <1>1, <1>3, ExceptSeq
  <2>2. QED BY <1>1, <2>1
<1>6. conns' = Append(mid, new)
  BY <1>1
<1>7. \A c \in 1..N :
        /\ mid[c].from = conns[c].from
        /\ c # N => mid[c].upto = conns[c].upto
        /\ c = N => mid[c].upto = cut
  BY <1>3, <1>5
<1> HIDE DEF old, new, mid, C
<1>8. /\ conns' \in Seq(C) /\ Len(conns') = N + 1
      /\ \A c \in 1..N : conns'[c] = mid[c]
      /\ conns'[N + 1] = new
  <2>1. Append(mid, new) \in Seq(C)
    BY <1>4, <1>5, AppendProperties
  <2>2. Len(Append(mid, new)) = N + 1
    BY <1>4, <1>5, AppendProperties
  <2>3. \A c \in 1..N : Append(mid, new)[c] = mid[c]
    BY <1>1, <1>4, <1>5, AppendProperties
  <2>4. Append(mid, new)[N + 1] = new
    BY <1>1, <1>4, <1>5, AppendProperties
  <2>5. QED BY <1>6, <2>1, <2>2, <2>3, <2>4
<1>9. DOMAIN conns' = 1..N + 1
  BY <1>1, <1>8
<1>10. QED BY <1>4, <1>7, <1>8, <1>9 DEF C

LEMMA ReconnectStep ==
  ASSUME Uniform, UniformInv, PeerReconnect
  PROVE  UniformInv'
<1>1. PICK cut \in Nat :
        /\ Len(conns) \in Nat /\ Len(conns) > 0
        /\ cur = Len(conns) => cut >= readPos
        /\ conns[Len(conns)].from <= cut /\ cut <= nextAt
        /\ conns' = Append([conns EXCEPT ![Len(conns)].upto = cut],
                           [from |-> nextAt, upto |-> nextAt, open |-> TRUE])
  BY ReconnectFacts DEF UniformInv
<1>2. /\ conns' \in Seq([from : Nat, upto : Nat, open : BOOLEAN])
      /\ Len(conns') = Len(conns) + 1
      /\ DOMAIN conns' = 1..Len(conns) + 1
      /\ \A c \in 1..Len(conns) :
           /\ conns'[c].from = conns[c].from
           /\ c # Len(conns) => conns'[c].upto = conns[c].upto
      /\ conns'[Len(conns)].upto = cut
      /\ conns'[Len(conns) + 1].from = nextAt
      /\ conns'[Len(conns) + 1].upto = nextAt
  BY <1>1, ReconnectConns DEF UniformInv
<1>3. UNCHANGED <<msgs, nextAt, ownerVars, threadVars>>
  BY DEF PeerReconnect
<1>4. BaseInv'
  <2>1. BaseInv
    BY DEF UniformInv
  <2>2. cur' \in 0..Len(conns')
    BY <1>1, <1>2, <1>3, <2>1 DEF BaseInv, TypeOK, threadVars
  <2>3. TypeOK'
    BY <1>2, <1>3, <2>1, <2>2 DEF BaseInv, TypeOK, ownerVars, threadVars,
      bufVars, frameVars
  <2>4. OwnerThread' /\ FillIsPartial'
    BY <1>3, <2>1 DEF BaseInv, OwnerThread, FillIsPartial, Serving, Filling,
      ownerVars, threadVars, bufVars, frameVars
  <2>5. QED BY <2>3, <2>4 DEF BaseInv
<1>5. MessagesTile'
  BY <1>3 DEF UniformInv, MessagesTile, Boundary, IsStart, HeaderAt
<1>6. ConnectionsInOrder'
  <2> DEFINE N == Len(conns)
  <2>1. UNCHANGED <<nextAt, cur, readPos>>
    BY <1>3 DEF threadVars
  <2>2. N \in Nat /\ N > 0 /\ nextAt \in Nat /\ cur \in Nat /\ cur <= N
    BY <1>1, ConnFacts DEF UniformInv
  <2>21. /\ readPos \in Nat /\ DOMAIN conns = 1..N
         /\ \A c \in 1..N : conns[c].from \in Nat /\ conns[c].upto \in Nat
    BY ConnFacts DEF UniformInv
  <2>3. conns[N].from <= cut /\ cut <= nextAt /\ (cur = N => readPos <= cut)
    BY <1>1
  <2>4. /\ DOMAIN conns' = 1..N + 1
        /\ \A c \in 1..N : conns'[c].from = conns[c].from
        /\ \A c \in 1..N : c # N => conns'[c].upto = conns[c].upto
        /\ N > 0 /\ conns'[N].upto = cut
        /\ conns'[N + 1].from = nextAt /\ conns'[N + 1].upto = nextAt
    BY <1>1, <1>2
  <2>5. /\ \A c \in 1..N : conns[c].from <= conns[c].upto /\ conns[c].upto <= nextAt
        /\ \A c, d \in 1..N : c < d => conns[c].upto <= conns[d].from
        /\ cur > 0 => conns[cur].from <= readPos /\ readPos <= conns[cur].upto
        /\ cur = 0 => readPos = 0
    BY <2>21 DEF UniformInv, ConnectionsInOrder
  <2>6. ASSUME NEW c \in 1..N + 1
        PROVE  /\ conns'[c].from \in Nat /\ conns'[c].upto \in Nat
               /\ conns'[c].from <= conns'[c].upto /\ conns'[c].upto <= nextAt
    <3>1. CASE c = N + 1
      BY <2>2, <2>4, <3>1
    <3>2. CASE c = N
      <4>1. c \in 1..N
        BY <2>2, <3>2
      <4>2. conns'[c].from = conns[c].from /\ conns'[c].upto = cut
        BY <2>4, <3>2, <4>1
      <4>3. QED BY <2>2, <2>21, <2>3, <3>2, <4>1, <4>2
    <3>3. CASE c \in 1..N /\ c # N
      <4>1. conns'[c].from = conns[c].from /\ conns'[c].upto = conns[c].upto
        BY <2>4, <3>3
      <4>2. QED BY <2>2, <2>21, <2>5, <3>3, <4>1
    <3>4. QED BY <2>2, <3>1, <3>2, <3>3
  <2>7. ASSUME NEW c \in 1..N + 1, NEW d \in 1..N + 1, c < d
        PROVE  conns'[c].upto <= conns'[d].from
    <3>1. c \in 1..N
      BY <2>2, <2>7
    <3>2. CASE d = N + 1
      <4>1. conns'[d].from = nextAt
        BY <2>4, <3>2
      <4>2. QED BY <2>6, <3>1, <4>1
    <3>3. CASE d \in 1..N
      <4>1. c # N
        BY <2>2, <2>7, <3>3
      <4>2. conns'[c].upto = conns[c].upto /\ conns'[d].from = conns[d].from
        BY <2>4, <3>1, <3>3, <4>1
      <4>3. QED BY <2>5, <2>7, <3>1, <3>3, <4>2
    <3>4. QED BY <2>2, <3>2, <3>3
  <2>8. cur > 0 => conns'[cur].from <= readPos /\ readPos <= conns'[cur].upto
    <3>1. SUFFICES ASSUME cur > 0
                   PROVE  conns'[cur].from <= readPos /\ readPos <= conns'[cur].upto
      OBVIOUS
    <3>2. cur \in 1..N
      BY <2>2, <3>1
    <3>21. conns'[cur].from = conns[cur].from
      BY <2>4, <3>2
    <3>3. \/ conns'[cur].upto = conns[cur].upto
          \/ cur = N /\ conns'[cur].upto = cut
      BY <2>4, <3>2
    <3>4. QED BY <2>3, <2>5, <3>1, <3>21, <3>3
  <2>9. QED BY <2>1, <2>4, <2>5, <2>6, <2>7, <2>8 DEF ConnectionsInOrder
<1>7. ParseOnBoundary' /\ FillFromStart'
  BY <1>3 DEF UniformInv, ParseOnBoundary, FillFromStart, Filling, CopyFrom,
    Boundary, IsStart, HeaderAt, DeliveredBelow, threadVars, bufVars, frameVars
<1>8. FramesInv'
  BY <1>3, FramesStutter DEF UniformInv, FramesInv, threadVars, frameVars
<1>9. QED BY <1>4, <1>5, <1>6, <1>7, <1>8 DEF UniformInv, FramesInv

-----------------------------------------------------------------------------
(* The timeouts                                                            *)

LEMMA TimeoutStep ==
  ASSUME Uniform, UniformInv, ReadTimeout \/ FillTimeout
  PROVE  UniformInv'
<1>1. /\ UNCHANGED <<peerVars, ownerVars, cur, readPos, delivered>>
      /\ pc \in {"read", "fillread"} /\ pc' \in {"loop", "serve"}
      /\ pc' = "serve" => pc = "fillread"
  BY DEF ReadTimeout, FillTimeout, FillAbandon, frameVars
<1>2. BaseInv'
  <2>1. BaseInv
    BY DEF UniformInv
  <2>2. /\ received' = 0 /\ saved' = 0 /\ bufAt' = bufAt
        /\ hdrLen' \in {hdrLen, 0} /\ frame' \in {frame, <<>>}
        /\ leaked' \in {leaked, leaked + 1}
    BY <2>1 DEF ReadTimeout, FillTimeout, FillAbandon, frameVars, BaseInv,
      FillIsPartial, Filling
  <2>3. frame' \in Frame
    <3>1. frame \in Frame /\ <<>> \in Frame
      BY <2>1 DEF BaseInv, TypeOK, Frame
    <3>2. QED BY <2>2, <3>1
  <2>4. TypeOK'
    BY <1>1, <2>1, <2>2, <2>3, StreamAssumption DEF BaseInv, TypeOK, peerVars,
      ownerVars
  <2>5. OwnerThread' /\ FillIsPartial'
    BY <1>1, <2>1 DEF BaseInv, OwnerThread, FillIsPartial, Serving, Filling,
      ownerVars
  <2>6. QED BY <2>4, <2>5 DEF BaseInv
<1>3. MessagesTile' /\ ConnectionsInOrder'
  BY <1>1 DEF UniformInv, MessagesTile, ConnectionsInOrder, Boundary, IsStart,
    HeaderAt, peerVars
<1>4. ParseOnBoundary' /\ FillFromStart'
  BY <1>1 DEF ParseOnBoundary, FillFromStart, Filling
<1>5. FramesInv'
  BY <1>1, FramesStutter DEF UniformInv, FramesInv, peerVars
<1>6. QED BY <1>2, <1>3, <1>4, <1>5 DEF UniformInv, FramesInv

LEMMA TcpSteps ==
  ASSUME [TcpNext]_vars
  PROVE  \/ [Next]_vars
         \/ PeerReconnect \/ ReadTimeout \/ FillTimeout
BY DEF TcpNext, TcpRun, TcpOwner, Next, Owner

LEMMA UniformTcpStep ==
  ASSUME Uniform, UniformInv, [TcpNext]_vars
  PROVE  UniformInv'
BY TcpSteps, UniformStep, ReconnectStep, TimeoutStep

LEMMA UniformTcpAlways == ASSUME Uniform PROVE TcpSpec => []UniformInv
<1>1. UniformInv /\ [TcpNext]_vars => UniformInv'
  BY UniformTcpStep
<1>2. QED BY <1>1, UniformInit, PTL DEF TcpSpec

\* Over TCP too, with timeouts and simulators that vanish, a driver gets
\* whole messages only (Run, tcp_server.cc:109-185), for messages of one
\* length.
THEOREM TcpWholeMessagesOnly ==
  ASSUME Uniform PROVE TcpSpec => []FramesAreMessages
<1>1. UniformInv => FramesAreMessages
  BY DEF UniformInv
<1>2. QED BY <1>1, UniformTcpAlways, PTL

\* Over TCP too no byte is delivered twice or out of order, although a
\* client given up inside a message is read on (tcp_server.cc:157, :169).
THEOREM TcpInOrderOnce == ASSUME Uniform PROVE TcpSpec => []DeliveredInOrder
<1>1. UniformInv => DeliveredInOrder
  BY DEF UniformInv
<1>2. QED BY <1>1, UniformTcpAlways, PTL

-----------------------------------------------------------------------------
(* What becomes of a message                                               *)

LEMMA FateTypes ==
  ASSUME BaseInv
  PROVE  /\ leaked \in Nat /\ Len(delivered) \in Nat /\ Len(msgs) \in Nat
         /\ readPos \in Nat /\ DOMAIN msgs = 1..Len(msgs)
         /\ \A k \in DOMAIN msgs : k \in Nat /\ msgs[k].at \in Nat
BY MsgType DEF BaseInv, TypeOK

LEMMA FateGrows ==
  ASSUME BaseInv, NEW a \in Nat, NEW b \in Nat, a <= b, NoFateFrom(a)
  PROVE  NoFateFrom(b)
BY FateTypes DEF NoFateFrom

\* One message more is counted, the one that begins at a.
LEMMA FateOne ==
  ASSUME Uniform, BaseInv, MessagesTile, NEW a \in Nat, IsStart(a),
         NoFateFrom(a), UNCHANGED msgs,
         leaked' + Len(delivered') = leaked + Len(delivered) + 1
  PROVE  \A b \in Nat : a < b =>
           /\ leaked' + Len(delivered') <= Len(msgs')
           /\ \A k \in DOMAIN msgs' :
                msgs'[k].at >= b => leaked' + Len(delivered') < k
<1>1. PICK j \in DOMAIN msgs : msgs[j].at = a
  BY DEF IsStart, HeaderAt
<1>2. j \in Nat /\ j <= Len(msgs) /\ leaked + Len(delivered) < j
  BY <1>1, FateTypes DEF NoFateFrom
<1>3. leaked' + Len(delivered') <= j
  BY <1>2, FateTypes
<1>4. ASSUME NEW b \in Nat, a < b, NEW k \in DOMAIN msgs, msgs[k].at >= b
      PROVE  j < k
  <2>1. k \in Nat /\ msgs[k].at \in Nat /\ L \in Nat
    BY FateTypes, OneLengthFacts
  <2>2. CASE k < j
    BY <1>1, <1>2, <1>4, <2>1, <2>2 DEF MessagesTile
  <2>3. CASE k = j
    BY <1>1, <1>4, <2>3
  <2>4. QED BY <1>2, <2>1, <2>2, <2>3
<1>5. leaked' + Len(delivered') \in Nat
  BY FateTypes
<1>6. ASSUME NEW b \in Nat, a < b
      PROVE  /\ leaked' + Len(delivered') <= Len(msgs')
             /\ \A k \in DOMAIN msgs' :
                  msgs'[k].at >= b => leaked' + Len(delivered') < k
  <2>1. leaked' + Len(delivered') <= Len(msgs')
    BY <1>2, <1>3, <1>5, FateTypes
  <2>2. ASSUME NEW k \in DOMAIN msgs, msgs[k].at >= b
        PROVE  leaked' + Len(delivered') < k
    <3>1. j < k /\ k \in Nat
      BY <1>4, <1>6, <2>2, FateTypes
    <3>2. QED BY <1>2, <1>3, <1>5, <3>1
  <2>3. QED BY <2>1, <2>2
<1>7. QED BY <1>6

LEMMA FateQuiet ==
  ASSUME FateInv, UNCHANGED <<msgs, readPos, delivered, leaked>>,
         \/ pc' = pc /\ UNCHANGED <<bufAt, received, saved, frame>>
         \/ pc = "fill" /\ pc' = "fillread" /\ UNCHANGED frame
         \/ pc' \in {"loop", "accept", "serve", "read", "exited"}
  PROVE  FateInv'
BY DEF FateInv, NoFateFrom, IsStart, HeaderAt, CopyFrom, Filling

LEMMA FateReadChunk ==
  ASSUME Uniform, UniformInv, FateInv, ReadChunk
  PROVE  FateInv'
<1>1. cur > 0 /\ pc' = "parse" /\ UNCHANGED <<msgs, delivered, leaked>>
  BY DEF ReadChunk, UniformInv, BaseInv, FillIsPartial, Serving, peerVars, frameVars
<1>2. PICK n \in Chunks : /\ bufAt' = readPos /\ received' = n /\ saved' = n
                          /\ readPos' = readPos + n
  BY DEF ReadChunk
<1>3. n \in Nat /\ n > 0 /\ readPos \in Nat
  BY <1>1, ReadSize DEF UniformInv
<1>4. CopyFrom' = readPos
  BY <1>2, <1>3 DEF CopyFrom
<1>5. NoFateFrom(readPos)
  BY DEF FateInv
<1>6. NoFateFrom(readPos + n)
  BY <1>3, <1>5, FateGrows DEF UniformInv
<1>7. NoFateFrom(CopyFrom)' /\ NoFateFrom(readPos)'
  BY <1>1, <1>2, <1>4, <1>5, <1>6 DEF NoFateFrom
<1>8. QED BY <1>1, <1>7 DEF FateInv, Filling

LEMMA FateParseWhole ==
  ASSUME Uniform, UniformInv, FateInv, ParseWhole
  PROVE  FateInv'
<1>1. /\ pc = "parse" /\ pc' = "parse" /\ saved >= HeaderSize
      /\ UNCHANGED <<msgs, readPos, bufAt, received, leaked>>
  BY DEF ParseWhole, peerVars
<1>2. PICK k \in DOMAIN msgs :
        /\ HeaderAt(k, bufAt) /\ saved >= msgs[k].len
        /\ delivered' = Append(delivered, Cells(CopyFrom, msgs[k].len))
        /\ saved' = saved - msgs[k].len
  BY DEF ParseWhole
<1>3. msgs[k].len = L /\ L \in Nat /\ L > 0
  BY MsgType, OneLengthFacts DEF UniformInv, BaseInv
<1>4. /\ IsStart(bufAt) /\ IsStart(CopyFrom) /\ CopyFrom \in Nat
      /\ CopyFrom + saved = readPos /\ saved \in Nat
  BY <1>1, <1>2, ParseAtStart DEF IsStart
<1>5. NoFateFrom(CopyFrom)
  BY <1>1, <1>4 DEF FateInv
<1>6. CopyFrom' = CopyFrom + L /\ CopyFrom + L \in Nat /\ CopyFrom + L <= readPos
  <2>1. bufAt \in Nat /\ received \in Nat
    BY BufferType DEF UniformInv, BaseInv
  <2>2. QED BY <2>1, <1>1, <1>2, <1>3, <1>4 DEF CopyFrom
<1>7. leaked' + Len(delivered') = leaked + Len(delivered) + 1
  <2>1. Len(delivered') = Len(delivered) + 1
    BY <1>2 DEF UniformInv, BaseInv, TypeOK
  <2>2. QED BY <1>1, <2>1, FateTypes DEF UniformInv
<1>8. \A b \in Nat : CopyFrom < b =>
        /\ leaked' + Len(delivered') <= Len(msgs')
        /\ \A j \in DOMAIN msgs' :
             msgs'[j].at >= b => leaked' + Len(delivered') < j
  BY <1>1, <1>4, <1>5, <1>7, FateOne DEF UniformInv
<1>9. CopyFrom < CopyFrom + L /\ CopyFrom < readPos /\ readPos \in Nat
  BY <1>3, <1>4, <1>6, FateTypes DEF UniformInv
<1>10. NoFateFrom(CopyFrom)' /\ NoFateFrom(readPos)'
  BY <1>1, <1>6, <1>8, <1>9 DEF NoFateFrom
<1>11. QED BY <1>1, <1>10 DEF FateInv, Filling

LEMMA FateParsePart ==
  ASSUME Uniform, UniformInv, FateInv, ParsePart
  PROVE  FateInv'
<1>1. /\ pc = "parse" /\ pc' = "fill" /\ saved >= HeaderSize
      /\ UNCHANGED <<msgs, readPos, delivered, leaked>>
      /\ frame' = Cells(CopyFrom, saved)
  BY DEF ParsePart, peerVars
<1>2. IsStart(bufAt)
  BY DEF ParsePart, IsStart
<1>3. CopyFrom \in Nat /\ CopyFrom + saved = readPos /\ saved \in Nat
  BY <1>1, <1>2, ParseAtStart
<1>4. Len(frame') = saved
  BY <1>1, <1>3, CellsSeq
<1>5. readPos' - Len(frame') = CopyFrom
  BY <1>1, <1>3, <1>4
<1>6. NoFateFrom(CopyFrom) /\ NoFateFrom(readPos)
  BY <1>1, <1>2 DEF FateInv
<1>7. NoFateFrom(readPos - Len(frame))' /\ NoFateFrom(readPos)'
  BY <1>1, <1>5, <1>6 DEF NoFateFrom
<1>8. QED BY <1>1, <1>7 DEF FateInv

LEMMA FateFillMore ==
  ASSUME Uniform, UniformInv, FateInv, FillMore
  PROVE  FateInv'
<1>1. pc' = "fill" /\ Filling /\ UNCHANGED <<msgs, delivered, leaked>>
  BY DEF FillMore, Filling, peerVars
<1>2. PICK n \in Chunks : /\ frame' = frame \o Cells(readPos, n)
                          /\ readPos' = readPos + n
  BY DEF FillMore
<1>3. n \in Nat /\ n > 0 /\ readPos \in Nat /\ Len(frame) \in Nat
  BY <1>1, FillFacts
<1>4. Len(frame') = Len(frame) + n
  <2>1. frame \in Seq(Nat)
    BY DEF UniformInv, BaseInv, TypeOK, Frame
  <2>2. Cells(readPos, n) \in Seq(Nat) /\ Len(Cells(readPos, n)) = n
    BY <1>3, CellsSeq
  <2>3. QED BY <1>2, <2>1, <2>2, ConcatNat
<1>5. readPos' - Len(frame') = readPos - Len(frame)
  BY <1>2, <1>3, <1>4
<1>6. NoFateFrom(readPos - Len(frame)) /\ NoFateFrom(readPos + n)
  BY <1>1, <1>3, FateGrows DEF FateInv, UniformInv
<1>7. NoFateFrom(readPos - Len(frame))' /\ NoFateFrom(readPos)'
  BY <1>1, <1>2, <1>5, <1>6 DEF NoFateFrom
<1>8. QED BY <1>1, <1>7 DEF FateInv

\* The message in hand when a fill loop ends.
LEMMA FillStart ==
  ASSUME Uniform, UniformInv, FateInv, Filling
  PROVE  LET a == readPos - Len(frame) IN
         /\ a \in Nat /\ IsStart(a) /\ NoFateFrom(a) /\ a < readPos
         /\ readPos \in Nat /\ readPos < a + L
<1>1. IsStart(readPos - Len(frame)) /\ NoFateFrom(readPos - Len(frame))
  BY DEF UniformInv, FillFromStart, FateInv
<1>2. readPos - Len(frame) \in Nat
  BY <1>1, StartType DEF UniformInv, BaseInv
<1>3. Len(frame) \in Nat /\ Len(frame) > 0 /\ readPos \in Nat
  BY DEF UniformInv, BaseInv, TypeOK, FillFromStart, Frame
<1>4. Len(frame) < L /\ L \in Nat
  BY OneLengthFacts DEF UniformInv, BaseInv, FillIsPartial
<1>5. QED BY <1>1, <1>2, <1>3, <1>4

\* Lost: the thread leaves the fill loop without the whole message.
LEMMA FateAbandon ==
  ASSUME Uniform, UniformInv, FateInv, FillStopped \/ FillEof \/ FillTimeout
  PROVE  FateInv'
<1>1. /\ Filling /\ pc' = "serve" /\ leaked' = leaked + 1
      /\ UNCHANGED <<msgs, readPos, delivered>>
  BY DEF FillStopped, FillEof, FillTimeout, FillAbandon, Filling, peerVars
<1>2. PICK a \in Nat : /\ IsStart(a) /\ NoFateFrom(a) /\ a < readPos
                       /\ readPos \in Nat
  BY <1>1, FillStart
<1>3. leaked' + Len(delivered') = leaked + Len(delivered) + 1
  BY <1>1, FateTypes DEF UniformInv
<1>4. \A b \in Nat : a < b =>
        /\ leaked' + Len(delivered') <= Len(msgs')
        /\ \A j \in DOMAIN msgs' :
             msgs'[j].at >= b => leaked' + Len(delivered') < j
  BY <1>1, <1>2, <1>3, FateOne DEF UniformInv
<1>5. NoFateFrom(readPos)'
  BY <1>1, <1>2, <1>4 DEF NoFateFrom
<1>6. QED BY <1>1, <1>5 DEF FateInv, Filling

\* Delivered: what the completing read brings beyond the message starts
\* with no header, and nothing is counted of it.
LEMMA FateFillComplete ==
  ASSUME Uniform, UniformInv, FateInv, FillComplete
  PROVE  FateInv'
<1>1. pc' = "parse" /\ Filling /\ UNCHANGED <<msgs, leaked>>
  BY DEF FillComplete, Filling, peerVars
<1>2. PICK n \in Chunks :
        /\ delivered' = Append(delivered,
                               frame \o Cells(readPos, hdrLen - Len(frame)))
        /\ bufAt' = readPos /\ readPos' = readPos + n
  BY DEF FillComplete
<1>3. n \in Nat /\ n > 0
  BY <1>1, FillFacts
<1>4. PICK a \in Nat : /\ IsStart(a) /\ NoFateFrom(a) /\ a < readPos
                       /\ readPos \in Nat /\ readPos < a + L
  BY <1>1, FillStart
<1>5. leaked' + Len(delivered') = leaked + Len(delivered) + 1
  <2>1. Len(delivered') = Len(delivered) + 1
    BY <1>2 DEF UniformInv, BaseInv, TypeOK
  <2>2. QED BY <1>1, <2>1, FateTypes DEF UniformInv
<1>6. \A b \in Nat : a < b =>
        /\ leaked' + Len(delivered') <= Len(msgs')
        /\ \A j \in DOMAIN msgs' :
             msgs'[j].at >= b => leaked' + Len(delivered') < j
  BY <1>1, <1>4, <1>5, FateOne DEF UniformInv
<1>7. readPos' \in Nat /\ a < readPos'
  BY <1>2, <1>3, <1>4
<1>8. NoFateFrom(readPos)'
  BY <1>1, <1>6, <1>7 DEF NoFateFrom
<1>9. ~IsStart(readPos)
  BY <1>4, StartsApart DEF UniformInv, BaseInv
<1>10. ~IsStart(bufAt)'
  BY <1>1, <1>2, <1>9 DEF IsStart, HeaderAt
<1>11. QED BY <1>1, <1>8, <1>10 DEF FateInv, Filling

LEMMA FateAcceptClient ==
  ASSUME Uniform, UniformInv, FateInv, AcceptClient
  PROVE  FateInv'
<1>1. /\ pc' = "serve" /\ UNCHANGED <<msgs, delivered, leaked>>
      /\ cur + 1 \in DOMAIN conns /\ readPos' = conns[cur + 1].from
  BY ConnFacts DEF AcceptClient, UniformInv, peerVars, frameVars
<1>2. readPos \in Nat /\ readPos' \in Nat /\ readPos <= readPos'
  BY <1>1, ConnFacts DEF UniformInv, ConnectionsInOrder
<1>3. NoFateFrom(conns[cur + 1].from)
  BY <1>1, <1>2, FateGrows DEF UniformInv, FateInv
<1>4. NoFateFrom(readPos)'
  BY <1>1, <1>3 DEF NoFateFrom
<1>5. QED BY <1>1, <1>4 DEF FateInv, Filling

LEMMA FatePeerSend ==
  ASSUME Uniform, UniformInv, FateInv, NEW len \in MsgLengths, PeerSend(len)
  PROVE  FateInv'
<1>1. UNCHANGED <<pc, readPos, bufAt, received, saved, frame, delivered, leaked>>
  BY DEF PeerSend, threadVars, bufVars, frameVars
<1>2. ASSUME NEW a \in Nat, NoFateFrom(a)
      PROVE  /\ leaked + Len(delivered) <= Len(msgs')
             /\ \A k \in DOMAIN msgs' :
                  msgs'[k].at >= a => leaked + Len(delivered) < k
  <2>1. leaked + Len(delivered) \in Nat /\ Len(msgs) \in Nat
    BY FateTypes DEF UniformInv
  <2>2. \A k \in DOMAIN msgs' :
          \/ k \in DOMAIN msgs /\ msgs'[k] = msgs[k]
          \/ k = Len(msgs) + 1
    BY <2>1, SendFacts DEF UniformInv
  <2>3. Len(msgs') = Len(msgs) + 1
    BY SendFacts DEF UniformInv
  <2>4. leaked + Len(delivered) <= Len(msgs)
    BY <1>2 DEF NoFateFrom
  <2>5. QED BY <1>2, <2>1, <2>2, <2>3, <2>4 DEF NoFateFrom
<1>3. NoFateFrom(readPos)'
  BY <1>1, <1>2, FateTypes DEF NoFateFrom, FateInv, UniformInv
<1>4. Filling' => NoFateFrom(readPos - Len(frame))'
  BY <1>1, <1>2, FillStart DEF NoFateFrom, Filling
<1>5. ASSUME pc = "parse", IsStart(bufAt)'
      PROVE  NoFateFrom(CopyFrom)'
  <2>1. bufAt + received = readPos /\ received > 0
    BY <1>5 DEF UniformInv, ParseOnBoundary
  <2>2. cur > 0 /\ readPos <= nextAt
    BY <1>5, ConnFacts DEF UniformInv, BaseInv, FillIsPartial, Serving,
      ConnectionsInOrder
  <2>3. bufAt \in Nat /\ CopyFrom \in Nat /\ bufAt < nextAt
    BY <2>1, <2>2, BufferType, ConnFacts DEF UniformInv, BaseInv
  <2>4. IsStart(bufAt)
    BY <1>1, <1>5, <2>3, StartsGrow DEF UniformInv, IsStart, HeaderAt
  <2>5. NoFateFrom(CopyFrom) /\ CopyFrom' = CopyFrom
    BY <1>1, <1>5, <2>4 DEF FateInv, CopyFrom
  <2>6. QED BY <1>1, <1>2, <2>3, <2>5 DEF NoFateFrom
<1>6. QED BY <1>1, <1>3, <1>4, <1>5 DEF FateInv

LEMMA FateStep ==
  ASSUME Uniform, UniformInv, FateInv, [TcpNext]_vars
  PROVE  FateInv'
<1>1. CASE \/ OuterLoop \/ AcceptTimeout \/ ServeLoop \/ ReadEof \/ ParseDrop
           \/ FillLoop \/ ReadTimeout \/ TcpOwner
           \/ PeerConnect \/ PeerClose \/ PeerReconnect \/ UNCHANGED vars
  <2>1. UNCHANGED <<msgs, readPos, delivered, leaked>>
    BY <1>1 DEF OuterLoop, AcceptTimeout, ServeLoop, ReadEof, ParseDrop,
      FillLoop, ReadTimeout, TcpOwner, InitServer, Start, StopRequest, StopJoin,
      PeerConnect, PeerClose, PeerReconnect, vars, peerVars, threadVars, frameVars
  <2>2. \/ pc' = pc /\ UNCHANGED <<bufAt, received, saved, frame>>
        \/ pc = "fill" /\ pc' = "fillread" /\ UNCHANGED frame
        \/ pc' \in {"loop", "accept", "serve", "read", "exited"}
    BY <1>1 DEF OuterLoop, AcceptTimeout, ServeLoop, ReadEof, ParseDrop,
      FillLoop, ReadTimeout, TcpOwner, InitServer, Start, StopRequest, StopJoin,
      PeerConnect, PeerClose, PeerReconnect, vars, threadVars, bufVars, frameVars
  <2>3. QED BY <2>1, <2>2, FateQuiet
<1>2. CASE FillStopped \/ FillEof \/ FillTimeout
  BY <1>2, FateAbandon
<1>3. QED BY <1>1, <1>2, FateReadChunk, FateParseWhole, FateParsePart,
        FateFillMore, FateFillComplete, FateAcceptClient, FatePeerSend
      DEF TcpNext, TcpRun, Run

LEMMA FateInit == Init => FateInv
BY DEF Init, FateInv, NoFateFrom, Filling

\* A message of a TCP client is delivered once, or lost with its msg_buffer
\* once, and never both, however often the server gives up in the middle of
\* it and reads on (tcp_server.cc:157 and :169), for messages of one length.
THEOREM OneFateAlways == ASSUME Uniform PROVE TcpSpec => []OneFatePerMessage
<1>1. UniformInv /\ FateInv /\ [TcpNext]_vars => UniformInv' /\ FateInv'
  BY UniformTcpStep, FateStep
<1>2. FateInv => OneFatePerMessage
  BY DEF FateInv, NoFateFrom, OneFatePerMessage
<1>3. QED BY <1>1, <1>2, UniformInit, FateInit, PTL DEF TcpSpec

=============================================================================
