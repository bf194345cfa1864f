------------------------- MODULE StreamServerProofs -------------------------
(***************************************************************************)
(* StreamServer for messages of any lengths: its types, that the callback  *)
(* runs only while the server is owned, how many frame buffers it can      *)
(* lose, and that every frame is an unbroken stretch of one connection.    *)
(* BaseInv is inductive; LeakInv and SegmentInv are relative to it.        *)
(***************************************************************************)
EXTENDS StreamServerInv, TLAPS, SequenceTheorems

-----------------------------------------------------------------------------
(* Sequences of cells                                                      *)

LEMMA CellsSeq ==
  ASSUME NEW a \in Nat, NEW n \in Nat
  PROVE  /\ Cells(a, n) \in Seq(Nat)
         /\ Len(Cells(a, n)) = n
         /\ \A i \in 1..n : Cells(a, n)[i] = a + i - 1
BY DEF Cells

LEMMA ConcatNat ==
  ASSUME NEW s \in Seq(Nat), NEW t \in Seq(Nat)
  PROVE  /\ s \o t \in Seq(Nat)
         /\ Len(s \o t) = Len(s) + Len(t)
         /\ \A i \in 1..Len(s) + Len(t) :
              (s \o t)[i] = IF i <= Len(s) THEN s[i] ELSE t[i - Len(s)]
BY ConcatProperties

LEMMA SeqNatEqual ==
  ASSUME NEW s \in Seq(Nat), NEW t \in Seq(Nat), Len(s) = Len(t),
         \A i \in 1..Len(s) : s[i] = t[i]
  PROVE  s = t
BY SeqEqual

\* What the fill loop relies on: two adjacent runs of cells make one.
LEMMA CellsConcat ==
  ASSUME NEW a \in Nat, NEW n \in Nat, NEW k \in Nat
  PROVE  Cells(a, n) \o Cells(a + n, k) = Cells(a, n + k)
<1>1. PICK s \in Seq(Nat) :
        /\ s = Cells(a, n) /\ Len(s) = n
        /\ \A i \in 1..n : s[i] = a + i - 1
  BY CellsSeq
<1>2. PICK t \in Seq(Nat) :
        /\ t = Cells(a + n, k) /\ Len(t) = k
        /\ \A i \in 1..k : t[i] = a + n + i - 1
  <2>1. a + n \in Nat
    OBVIOUS
  <2>2. QED BY <2>1, CellsSeq
<1>3. PICK g \in Seq(Nat) :
        /\ g = Cells(a, n + k) /\ Len(g) = n + k
        /\ \A i \in 1..n + k : g[i] = a + i - 1
  <2>1. n + k \in Nat
    OBVIOUS
  <2>2. QED BY <2>1, CellsSeq
<1>4. \A i \in 1..n + k : (s \o t)[i] = g[i]
  <2>1. \A i \in 1..n + k :
          (s \o t)[i] = IF i <= n THEN s[i] ELSE t[i - n]
    BY <1>1, <1>2, ConcatNat
  <2>2. SUFFICES ASSUME NEW i \in 1..n + k
                 PROVE  (IF i <= n THEN s[i] ELSE t[i - n]) = a + i - 1
    BY <2>1, <1>3
  <2>3. CASE i <= n
    BY <2>3, <1>1
  <2>4. CASE ~(i <= n)
    <3>1. i - n \in 1..k
      BY <2>4
    <3>2. QED BY <3>1, <2>4, <1>2
  <2>5. QED BY <2>3, <2>4
<1>5. s \o t \in Seq(Nat) /\ Len(s \o t) = n + k
  <2>1. s \o t \in Seq(Nat) /\ Len(s \o t) = Len(s) + Len(t)
    BY ConcatNat
  <2>2. Len(s) = n /\ Len(t) = k
    BY <1>1, <1>2
  <2>3. QED BY <2>1, <2>2
<1>6. s \o t = g
  BY <1>3, <1>4, <1>5, SeqNatEqual
<1>7. QED BY <1>1, <1>2, <1>3, <1>6

-----------------------------------------------------------------------------
(* What TypeOK says of an element, and the first invariant                 *)

LEMMA ConnType ==
  ASSUME TypeOK, NEW c \in 1..Len(conns)
  PROVE  /\ conns[c] \in [from : Nat, upto : Nat, open : BOOLEAN]
         /\ conns[c].from \in Nat /\ conns[c].upto \in Nat
         /\ conns[c].open \in BOOLEAN
<1>1. conns[c] \in [from : Nat, upto : Nat, open : BOOLEAN]
  <2>1. conns \in Seq([from : Nat, upto : Nat, open : BOOLEAN])
    BY DEF TypeOK
  <2>2. QED BY <2>1, ElementOfSeq
<1>2. QED BY <1>1

LEMMA MsgType ==
  ASSUME TypeOK, NEW k \in DOMAIN msgs
  PROVE  /\ k \in 1..Len(msgs)
         /\ msgs[k].at \in Nat
         /\ msgs[k].len \in MsgLengths
         /\ msgs[k].len \in Nat /\ msgs[k].len >= HeaderSize
<1>1. k \in 1..Len(msgs)
  BY DEF TypeOK
<1>2. msgs[k] \in [at : Nat, len : MsgLengths]
  <2>1. msgs \in Seq([at : Nat, len : MsgLengths])
    BY DEF TypeOK
  <2>2. QED BY <1>1, <2>1, ElementOfSeq
<1>3. QED BY <1>1, <1>2, StreamAssumption

LEMMA BufferType ==
  ASSUME TypeOK
  PROVE  /\ received \in Nat /\ saved \in Nat /\ saved <= received
         /\ bufAt \in Nat /\ CopyFrom \in Nat
BY StreamAssumption DEF TypeOK, CopyFrom

LEMMA BaseInit == Init => BaseInv
<1> SUFFICES ASSUME Init PROVE BaseInv
  OBVIOUS
<1>1. /\ conns \in Seq([from : Nat, upto : Nat, open : BOOLEAN])
      /\ msgs \in Seq([at : Nat, len : MsgLengths])
      /\ delivered \in Seq(Frame)
  BY DEF Init
<1>2. frame \in Frame
  BY DEF Init, Frame
<1>3. cur \in 0..Len(conns)
  BY DEF Init
<1>31. received \in 0..BufferSize /\ saved \in 0..received
  BY StreamAssumption DEF Init
<1>4. TypeOK
  BY <1>1, <1>2, <1>3, <1>31 DEF Init, TypeOK
<1>5. OwnerThread /\ FillIsPartial
  BY DEF Init, OwnerThread, FillIsPartial, Serving, Filling
<1>6. QED BY <1>4, <1>5 DEF BaseInv

\* The simulator disturbs only its connections and messages.
LEMMA BasePeer ==
  ASSUME BaseInv, PeerConnect \/ PeerClose
  PROVE  BaseInv'
<1>1. CASE PeerConnect
  BY <1>1, StreamAssumption DEF PeerConnect, BaseInv, TypeOK, OwnerThread, FillIsPartial, Serving, Filling,
     peerVars, ownerVars, threadVars, bufVars, frameVars
<1>2. CASE PeerClose
  <2>1. PICK cut \in LastWrite..Last.upto :
          conns' = [conns EXCEPT ![Len(conns)].upto = cut,
                                 ![Len(conns)].open = FALSE]
    BY <1>2 DEF PeerClose
  <2>2. cut \in Nat
    <3>1. Len(conns) \in 1..Len(conns)
      BY <1>2 DEF PeerClose, PeerOpen, BaseInv, TypeOK
    <3>2. Last.from \in Nat /\ Last.upto \in Nat
      BY <3>1, ConnType DEF Last, BaseInv
    <3>3. Len(msgs) > 0 => msgs[Len(msgs)].at \in Nat
      BY MsgType DEF BaseInv, TypeOK
    <3>4. LastWrite \in Nat
      BY <3>2, <3>3 DEF LastWrite, BaseInv, TypeOK
    <3>5. QED BY <3>2, <3>4
  <2>3. conns' \in Seq([from : Nat, upto : Nat, open : BOOLEAN])
        /\ Len(conns') = Len(conns)
    <3>1. Len(conns) \in 1..Len(conns)
      BY <1>2 DEF PeerClose, PeerOpen, BaseInv, TypeOK
    <3>2. conns[Len(conns)] \in [from : Nat, upto : Nat, open : BOOLEAN]
      BY <3>1, ConnType DEF BaseInv
    <3>3. [conns[Len(conns)] EXCEPT !.upto = cut, !.open = FALSE]
            \in [from : Nat, upto : Nat, open : BOOLEAN]
      BY <3>2, <2>2
    <3>4. conns' = [conns EXCEPT ![Len(conns)] =
                      [conns[Len(conns)] EXCEPT !.upto = cut, !.open = FALSE]]
      BY <2>1, <3>1 DEF BaseInv, TypeOK
    <3>5. conns \in Seq([from : Nat, upto : Nat, open : BOOLEAN])
      BY DEF BaseInv, TypeOK
    <3>6. QED BY <3>1, <3>3, <3>4, <3>5, ExceptSeq
  <2>4. TypeOK'
    BY <1>2, <2>3, StreamAssumption
    DEF PeerClose, BaseInv, TypeOK, peerVars, ownerVars, threadVars, bufVars, frameVars
  <2>5. OwnerThread'
    BY <1>2 DEF PeerClose, BaseInv, OwnerThread, peerVars, ownerVars, threadVars
  <2>6. FillIsPartial'
    BY <1>2, <2>3, StreamAssumption
    DEF PeerClose, BaseInv, TypeOK, FillIsPartial, Serving, Filling, peerVars, ownerVars,
        threadVars, bufVars, frameVars
  <2>7. QED BY <2>4, <2>5, <2>6 DEF BaseInv
<1>3. QED BY <1>1, <1>2

LEMMA BaseSend ==
  ASSUME BaseInv, NEW len \in MsgLengths, PeerSend(len)
  PROVE  BaseInv'
<1>1. len \in Nat /\ nextAt + len \in Nat
  BY StreamAssumption DEF BaseInv, TypeOK
<1>2. Len(conns) \in 1..Len(conns)
  BY DEF PeerSend, PeerOpen, BaseInv, TypeOK
<1>3. [conns[Len(conns)] EXCEPT !.upto = nextAt + len]
        \in [from : Nat, upto : Nat, open : BOOLEAN]
  BY <1>1, <1>2, ConnType DEF BaseInv
<1>4. conns' = [conns EXCEPT ![Len(conns)] =
                  [conns[Len(conns)] EXCEPT !.upto = nextAt + len]]
  BY <1>2 DEF PeerSend, BaseInv, TypeOK
<1>5. conns' \in Seq([from : Nat, upto : Nat, open : BOOLEAN])
      /\ Len(conns') = Len(conns)
  <2>1. conns \in Seq([from : Nat, upto : Nat, open : BOOLEAN])
    BY DEF BaseInv, TypeOK
  <2>2. QED BY <1>2, <1>3, <1>4, <2>1, ExceptSeq
<1>6. msgs' \in Seq([at : Nat, len : MsgLengths]) /\ nextAt' \in Nat
  BY <1>1 DEF PeerSend, BaseInv, TypeOK
<1>7. TypeOK'
  BY <1>5, <1>6 DEF PeerSend, BaseInv, TypeOK, ownerVars, threadVars, bufVars,
    frameVars
<1>8. OwnerThread' /\ FillIsPartial'
  BY DEF PeerSend, BaseInv, OwnerThread, FillIsPartial, Serving, Filling,
    ownerVars, threadVars, bufVars, frameVars
<1>9. QED BY <1>7, <1>8 DEF BaseInv

LEMMA BaseOwner ==
  ASSUME BaseInv, Owner
  PROVE  BaseInv'
<1>1. CASE InitServer
  BY <1>1, StreamAssumption DEF InitServer, BaseInv, TypeOK, OwnerThread, FillIsPartial, Serving, Filling,
     peerVars, ownerVars, threadVars, bufVars, frameVars
<1>2. CASE Start
  BY <1>2, StreamAssumption DEF Start, BaseInv, TypeOK, OwnerThread, FillIsPartial, Serving, Filling,
     peerVars, ownerVars, threadVars, bufVars, frameVars
<1>3. CASE StopRequest
  BY <1>3, StreamAssumption DEF StopRequest, BaseInv, TypeOK, OwnerThread, FillIsPartial, Serving, Filling,
     peerVars, ownerVars, threadVars, bufVars, frameVars
<1>4. CASE StopJoin
  BY <1>4, StreamAssumption DEF StopJoin, BaseInv, TypeOK, OwnerThread, FillIsPartial, Serving, Filling,
     peerVars, ownerVars, threadVars, bufVars, frameVars
<1>5. QED BY <1>1, <1>2, <1>3, <1>4 DEF Owner

\* The thread's actions, one by one.
LEMMA BaseRun ==
  ASSUME BaseInv, Run
  PROVE  BaseInv'
<1>1. CASE OuterLoop
  BY <1>1, StreamAssumption DEF OuterLoop, BaseInv, TypeOK, OwnerThread, FillIsPartial, Serving, Filling,
     peerVars, ownerVars, threadVars, bufVars, frameVars
<1>2. CASE AcceptClient
  <2>1. cur + 1 \in 1..Len(conns)
    BY <1>2 DEF AcceptClient, BaseInv, TypeOK
  <2>11. conns[cur + 1].from \in Nat
    BY <2>1, ConnType DEF BaseInv
  <2>2. TypeOK'
    BY <1>2, <2>1, <2>11, StreamAssumption
    DEF AcceptClient, BaseInv, TypeOK, peerVars, ownerVars, threadVars, bufVars, frameVars
  <2>3. OwnerThread'
    BY <1>2 DEF AcceptClient, BaseInv, OwnerThread, peerVars, ownerVars, threadVars
  <2>4. FillIsPartial'
    BY <1>2, <2>1, <2>11, StreamAssumption
    DEF AcceptClient, BaseInv, TypeOK, FillIsPartial, Serving, Filling, peerVars, ownerVars,
        threadVars, bufVars, frameVars
  <2>5. QED BY <2>2, <2>3, <2>4 DEF BaseInv
<1>3. CASE AcceptTimeout
  BY <1>3, StreamAssumption DEF AcceptTimeout, BaseInv, TypeOK, OwnerThread, FillIsPartial, Serving, Filling,
     peerVars, ownerVars, threadVars, bufVars, frameVars
<1>4. CASE ServeLoop
  BY <1>4, StreamAssumption DEF ServeLoop, BaseInv, TypeOK, OwnerThread, FillIsPartial, Serving, Filling,
     peerVars, ownerVars, threadVars, bufVars, frameVars
<1>5. CASE ReadChunk
  BY <1>5, StreamAssumption DEF ReadChunk, Chunks, Unread, BaseInv, TypeOK, OwnerThread, FillIsPartial, Serving, Filling,
     peerVars, ownerVars, threadVars, bufVars, frameVars
<1>6. CASE ReadEof
  BY <1>6, StreamAssumption DEF ReadEof, BaseInv, TypeOK, OwnerThread, FillIsPartial, Serving, Filling,
     peerVars, ownerVars, threadVars, bufVars, frameVars
<1>7. CASE ParseDrop
  BY <1>7, StreamAssumption DEF ParseDrop, BaseInv, TypeOK, OwnerThread, FillIsPartial, Serving, Filling,
     peerVars, ownerVars, threadVars, bufVars, frameVars
<1>8. CASE ParseWhole
  <2>1. PICK k \in DOMAIN msgs :
          /\ saved >= msgs[k].len
          /\ delivered' = Append(delivered, Cells(CopyFrom, msgs[k].len))
          /\ saved' = saved - msgs[k].len
    BY <1>8 DEF ParseWhole
  <2>2. CopyFrom \in Nat /\ msgs[k].len \in Nat /\ saved' \in 0..received
    BY <2>1, MsgType, BufferType DEF BaseInv
  <2>3. delivered' \in Seq(Frame)
    <3>1. Cells(CopyFrom, msgs[k].len) \in Frame
      BY <2>2, CellsSeq DEF Frame
    <3>2. QED BY <2>1, <3>1 DEF BaseInv, TypeOK
  <2>4. TypeOK'
    BY <1>8, <2>2, <2>3, StreamAssumption
    DEF ParseWhole, BaseInv, TypeOK, peerVars, ownerVars, threadVars, bufVars, frameVars
  <2>5. OwnerThread'
    BY <1>8 DEF ParseWhole, BaseInv, OwnerThread, peerVars, ownerVars, threadVars
  <2>6. FillIsPartial'
    BY <1>8, <2>2, <2>3, StreamAssumption
    DEF ParseWhole, BaseInv, TypeOK, FillIsPartial, Serving, Filling, peerVars, ownerVars,
        threadVars, bufVars, frameVars
  <2>7. QED BY <2>4, <2>5, <2>6 DEF BaseInv
<1>9. CASE ParsePart
  <2>1. saved < hdrLen' /\ hdrLen' \in MsgLengths
    BY <1>9, MsgType DEF ParsePart, BaseInv
  <2>2. CopyFrom \in Nat /\ saved \in Nat
    BY BufferType DEF BaseInv
  <2>3. frame' \in Frame /\ Len(frame') = saved
    BY <1>9, <2>2, CellsSeq DEF ParsePart, Frame
  <2>4. TypeOK'
    BY <1>9, <2>1, <2>3, StreamAssumption
    DEF ParsePart, BaseInv, TypeOK, peerVars, ownerVars, threadVars, bufVars, frameVars
  <2>5. OwnerThread'
    BY <1>9 DEF ParsePart, BaseInv, OwnerThread, peerVars, ownerVars, threadVars
  <2>6. FillIsPartial'
    BY <1>9, <2>1, <2>3, StreamAssumption
    DEF ParsePart, BaseInv, TypeOK, FillIsPartial, Serving, Filling, peerVars, ownerVars,
        threadVars, bufVars, frameVars
  <2>7. QED BY <2>4, <2>5, <2>6 DEF BaseInv
<1>10. CASE FillLoop
  BY <1>10, StreamAssumption DEF FillLoop, BaseInv, TypeOK, OwnerThread, FillIsPartial, Serving, Filling,
     peerVars, ownerVars, threadVars, bufVars, frameVars
<1>11. CASE FillStopped
  <2>1. frame' \in Frame
    BY <1>11 DEF FillStopped, FillAbandon, Frame
  <2>2. TypeOK'
    BY <1>11, <2>1, StreamAssumption
    DEF FillStopped, FillAbandon, BaseInv, TypeOK, peerVars, ownerVars, threadVars, bufVars, frameVars
  <2>3. OwnerThread'
    BY <1>11 DEF FillStopped, BaseInv, OwnerThread, peerVars, ownerVars, threadVars
  <2>4. FillIsPartial'
    BY <1>11, <2>1, StreamAssumption
    DEF FillStopped, FillAbandon, BaseInv, TypeOK, FillIsPartial, Serving, Filling, peerVars, ownerVars,
        threadVars, bufVars, frameVars
  <2>5. QED BY <2>2, <2>3, <2>4 DEF BaseInv
<1>12. CASE FillEof
  <2>1. frame' \in Frame
    BY <1>12 DEF FillEof, FillAbandon, Frame
  <2>11. saved = 0
    BY <1>12 DEF FillEof, BaseInv, FillIsPartial, Filling
  <2>2. TypeOK'
    BY <1>12, <2>11, <2>1, StreamAssumption
    DEF FillEof, FillAbandon, BaseInv, TypeOK, peerVars, ownerVars, threadVars, bufVars, frameVars
  <2>3. OwnerThread'
    BY <1>12 DEF FillEof, BaseInv, OwnerThread, peerVars, ownerVars, threadVars
  <2>4. FillIsPartial'
    BY <1>12, <2>1, StreamAssumption
    DEF FillEof, FillAbandon, BaseInv, TypeOK, FillIsPartial, Serving, Filling, peerVars, ownerVars,
        threadVars, bufVars, frameVars
  <2>5. QED BY <2>2, <2>3, <2>4 DEF BaseInv
<1>13. CASE FillMore
  <2>1. PICK n \in Chunks :
          /\ n < hdrLen - Len(frame)
          /\ frame' = frame \o Cells(readPos, n)
          /\ received' = n
          /\ readPos' = readPos + n
    BY <1>13 DEF FillMore
  <2>2. n \in 1..BufferSize /\ n \in Nat /\ readPos \in Nat /\ frame \in Seq(Nat)
    BY StreamAssumption DEF Chunks, BaseInv, TypeOK, Frame
  <2>3. /\ frame' \in Frame
        /\ Len(frame') = Len(frame) + n
    <3>1. Cells(readPos, n) \in Seq(Nat) /\ Len(Cells(readPos, n)) = n
      BY <2>2, CellsSeq
    <3>2. QED BY <2>1, <2>2, <3>1, ConcatNat DEF Frame
  <2>11. saved = 0 /\ hdrLen \in MsgLengths
    BY <1>13 DEF FillMore, BaseInv, FillIsPartial, Filling
  <2>4. TypeOK'
    BY <1>13, <2>11, <2>1, <2>2, <2>3, StreamAssumption
    DEF FillMore, BaseInv, TypeOK, peerVars, ownerVars, threadVars, bufVars, frameVars
  <2>5. OwnerThread'
    BY <1>13 DEF FillMore, BaseInv, OwnerThread, peerVars, ownerVars, threadVars
  <2>6. FillIsPartial'
    BY <1>13, <2>1, <2>2, <2>3, StreamAssumption
    DEF FillMore, BaseInv, TypeOK, FillIsPartial, Serving, Filling, peerVars, ownerVars,
        threadVars, bufVars, frameVars
  <2>7. QED BY <2>4, <2>5, <2>6 DEF BaseInv
<1>14. CASE FillComplete
  <2>1. PICK n \in Chunks :
          /\ n >= hdrLen - Len(frame)
          /\ delivered' = Append(delivered,
                                 frame \o Cells(readPos, hdrLen - Len(frame)))
          /\ saved' = saved + Surplus(n)
          /\ received' = n
          /\ readPos' = readPos + n
    BY <1>14 DEF FillComplete
  <2>2. n \in 1..BufferSize /\ n \in Nat /\ readPos \in Nat /\ frame \in Seq(Nat)
    BY StreamAssumption DEF Chunks, BaseInv, TypeOK, Frame
  <2>3. saved = 0 /\ hdrLen - Len(frame) \in Nat
    <3>1. saved = 0 /\ hdrLen \in MsgLengths /\ Len(frame) < hdrLen
      BY <1>14 DEF FillComplete, BaseInv, FillIsPartial, Filling
    <3>2. hdrLen \in Nat /\ Len(frame) \in Nat
      BY <3>1, <2>2, StreamAssumption
    <3>3. QED BY <3>1, <3>2
  <2>4. delivered' \in Seq(Frame)
    <3>1. frame \o Cells(readPos, hdrLen - Len(frame)) \in Frame
      <4>1. Cells(readPos, hdrLen - Len(frame)) \in Seq(Nat)
        BY <2>2, <2>3, CellsSeq
      <4>2. QED BY <2>2, <4>1, ConcatNat DEF Frame
    <3>2. QED BY <2>1, <3>1 DEF BaseInv, TypeOK
  <2>5. saved' \in 0..received' /\ received' \in 1..BufferSize
    BY <2>1, <2>2, <2>3 DEF Surplus
  <2>6. frame' \in Frame
    BY <1>14 DEF FillComplete, Frame
  <2>7. TypeOK'
    BY <1>14, <2>1, <2>2, <2>4, <2>5, <2>6, StreamAssumption
    DEF FillComplete, BaseInv, TypeOK, peerVars, ownerVars, threadVars, bufVars, frameVars
  <2>8. OwnerThread'
    BY <1>14 DEF FillComplete, BaseInv, OwnerThread, peerVars, ownerVars, threadVars
  <2>9. FillIsPartial'
    BY <1>14, <2>1, <2>2, <2>4, <2>5, <2>6, StreamAssumption
    DEF FillComplete, BaseInv, TypeOK, FillIsPartial, Serving, Filling, peerVars, ownerVars,
        threadVars, bufVars, frameVars
  <2>10. QED BY <2>7, <2>8, <2>9 DEF BaseInv
<1>15. QED BY <1>1, <1>2, <1>3, <1>4, <1>5, <1>6, <1>7, <1>8, <1>9, <1>10, <1>11, <1>12, <1>13, <1>14 DEF Run
LEMMA BaseStep == BaseInv /\ [Next]_vars => BaseInv'
<1> SUFFICES ASSUME BaseInv, [Next]_vars PROVE BaseInv'
  OBVIOUS
<1>1. CASE UNCHANGED vars
  BY <1>1 DEF BaseInv, TypeOK, OwnerThread, FillIsPartial, Serving, Filling,
    vars, peerVars, ownerVars, threadVars, bufVars, frameVars
<1>2. CASE Next
  BY <1>2, BasePeer, BaseSend, BaseOwner, BaseRun DEF Next
<1>3. QED BY <1>1, <1>2

LEMMA BaseAlways == Spec => []BaseInv
BY BaseInit, BaseStep, PTL DEF Spec

\* The server, its thread and the simulator keep their types for all sizes
\* of header, buffer, reads and messages (Run's locals and the members of
\* unix_socket_server.h).
THEOREM TypeCorrect == Spec => []TypeOK
<1>1. BaseInv => TypeOK
  BY DEF BaseInv
<1>2. QED BY <1>1, BaseAlways, PTL

\* The callback runs only between Start and the return of Stop, whatever the
\* simulator sends (UnixSocketServer::Stop joins before it returns).
THEOREM CallbackOnlyWhileOwned == Spec => NoCallbackAfterStop
<1>1. ASSUME BaseInv, [Next]_vars
      PROVE  [delivered' # delivered => owner \in {"started", "joining"}]_vars
  <2>1. SUFFICES ASSUME Next, delivered' # delivered
                 PROVE  owner \in {"started", "joining"}
    BY <1>1 DEF vars, threadVars, frameVars
  <2>2. pc \in {"parse", "fillread"}
    BY <2>1 DEF Next, PeerConnect, PeerClose, PeerSend, Owner, InitServer, Start,
      StopRequest, StopJoin, Run, OuterLoop, AcceptClient, AcceptTimeout,
      ServeLoop, ReadChunk, ReadEof, ParseDrop, ParseWhole, ParsePart,
      FillLoop, FillStopped, FillEof, FillMore, FillComplete,
      ownerVars, threadVars, bufVars, frameVars
  <2>3. QED BY <1>1, <2>2 DEF BaseInv, TypeOK, OwnerThread
<1>2. QED BY <1>1, BaseAlways, PTL DEF Spec, NoCallbackAfterStop

-----------------------------------------------------------------------------
(* Lost frame buffers                                                      *)

LEMMA LeakInit == Init => LeakInv
BY DEF Init, LeakInv, LeakBound, LeakedConnectionIsDone

\* Once a connection is closed and read to its end, it stays so.
LEMMA EofIsStable ==
  ASSUME BaseInv, cur > 0, AtEof, PeerConnect \/ PeerClose \/ \E len \in MsgLengths : PeerSend(len)
  PROVE  AtEof'
<1>1. /\ cur \in 1..Len(conns) /\ Len(conns) \in Nat
      /\ conns \in Seq([from : Nat, upto : Nat, open : BOOLEAN])
  BY DEF BaseInv, TypeOK
<1>2. PeerOpen => cur # Len(conns)
  BY DEF PeerOpen, Last, AtEof
<1>3. cur' = cur /\ readPos' = readPos
  BY DEF PeerConnect, PeerClose, PeerSend, threadVars
<1>4. conns'[cur] = conns[cur]
  <2>1. CASE PeerConnect
    BY <2>1, <1>1 DEF PeerConnect, BaseInv, TypeOK
  <2>2. CASE PeerClose
    <3>1. PICK cut : conns' = [conns EXCEPT ![Len(conns)].upto = cut,
                                            ![Len(conns)].open = FALSE]
      BY <2>2 DEF PeerClose
    <3>2. cur # Len(conns)
      BY <2>2, <1>2 DEF PeerClose
    <3>3. QED BY <1>1, <3>1, <3>2
  <2>3. ASSUME NEW len \in MsgLengths, PeerSend(len)
        PROVE  conns'[cur] = conns[cur]
    <3>1. conns' = [conns EXCEPT ![Len(conns)].upto = nextAt + len]
      BY <2>3 DEF PeerSend
    <3>2. cur # Len(conns)
      BY <2>3, <1>2 DEF PeerSend
    <3>3. QED BY <1>1, <3>1, <3>2
  <2>4. QED BY <2>1, <2>2, <2>3
<1>5. QED BY <1>3, <1>4 DEF AtEof, Unread

LEMMA LeakStep == BaseInv /\ LeakInv /\ [Next]_vars => LeakInv'
<1> SUFFICES ASSUME BaseInv, LeakInv, [Next]_vars PROVE LeakInv'
  OBVIOUS
<1>1. CASE UNCHANGED vars
  BY <1>1 DEF LeakInv, LeakBound, LeakedConnectionIsDone, AtEof, Unread, vars,
    peerVars, ownerVars, threadVars, bufVars, frameVars
<1>2. CASE PeerConnect \/ PeerClose \/ \E len \in MsgLengths : PeerSend(len)
  <2>1. UNCHANGED <<ownerVars, threadVars>>
    BY <1>2 DEF PeerConnect, PeerClose, PeerSend
  <2>2. pc \in {"serve", "read"} /\ AtEof => AtEof'
    BY <1>2, EofIsStable DEF BaseInv, FillIsPartial, Serving
  <2>3. QED BY <2>1, <2>2 DEF LeakInv, LeakBound, LeakedConnectionIsDone,
          ownerVars, threadVars, frameVars
<1>3. CASE Owner
  <2>1. UNCHANGED <<conns, cur, readPos, leaked>> /\ (pc' = pc \/ pc' = "loop")
    BY <1>3 DEF Owner, InitServer, Start, StopRequest, StopJoin, peerVars,
      threadVars, frameVars
  <2>2. running' => running \/ pc' = "loop"
    BY <1>3 DEF Owner, InitServer, Start, StopRequest, StopJoin
  <2>3. QED BY <2>1, <2>2 DEF LeakInv, LeakBound, LeakedConnectionIsDone,
          AtEof, Unread
<1>4. CASE Run
  <2> USE DEF LeakInv, LeakBound, LeakedConnectionIsDone
  <2>1. CASE OuterLoop
    BY <2>1 DEF OuterLoop, frameVars
  <2>2. CASE AcceptClient
    BY <2>2 DEF AcceptClient, frameVars, BaseInv, TypeOK
  <2>3. CASE AcceptTimeout
    BY <2>3 DEF AcceptTimeout, AtEof, Unread, Chunks, BaseInv, TypeOK, peerVars,
      ownerVars, frameVars
  <2>4. CASE ServeLoop
    BY <2>4 DEF ServeLoop, AtEof, Unread, Chunks, BaseInv, TypeOK, peerVars,
      ownerVars, frameVars
  <2>5. CASE ReadChunk
    BY <2>5 DEF ReadChunk, AtEof, Unread, Chunks, BaseInv, TypeOK, peerVars,
      ownerVars, frameVars
  <2>6. CASE ReadEof
    BY <2>6 DEF ReadEof, AtEof, Unread, Chunks, BaseInv, TypeOK, peerVars,
      ownerVars, frameVars
  <2>7. CASE ParseDrop
    BY <2>7 DEF ParseDrop, AtEof, Unread, Chunks, BaseInv, TypeOK, peerVars,
      ownerVars, frameVars
  <2>8. CASE ParseWhole
    BY <2>8 DEF ParseWhole, AtEof, Unread, Chunks, BaseInv, TypeOK, peerVars,
      ownerVars, frameVars
  <2>9. CASE ParsePart
    BY <2>9 DEF ParsePart, AtEof, Unread, Chunks, BaseInv, TypeOK, peerVars,
      ownerVars, frameVars
  <2>10. CASE FillLoop
    BY <2>10 DEF FillLoop, AtEof, Unread, Chunks, BaseInv, TypeOK, peerVars,
      ownerVars, frameVars
  <2>11. CASE FillStopped
    BY <2>11 DEF FillStopped, FillAbandon, AtEof, Unread, BaseInv, TypeOK, peerVars,
      ownerVars, frameVars
  <2>12. CASE FillEof
    BY <2>12 DEF FillEof, FillAbandon, AtEof, Unread, BaseInv, TypeOK, peerVars,
      ownerVars, frameVars
  <2>13. CASE FillMore
    BY <2>13 DEF FillMore, AtEof, Unread, Chunks, BaseInv, TypeOK, peerVars,
      ownerVars, frameVars
  <2>14. CASE FillComplete
    BY <2>14 DEF FillComplete, AtEof, Unread, Chunks, BaseInv, TypeOK, peerVars,
      ownerVars, frameVars
  <2>15. QED BY <1>4, <2>1, <2>2, <2>3, <2>4, <2>5, <2>6, <2>7, <2>8, <2>9,
           <2>10, <2>11, <2>12, <2>13, <2>14 DEF Run
<1>5. QED BY <1>1, <1>2, <1>3, <1>4 DEF Next

\* A connection that has cost Run a frame buffer (the breaks out of the fill
\* loop) is at its end or about to be left: it cannot cost another.
THEOREM LeakAlways == Spec => []LeakInv
<1>1. QED BY LeakInit, LeakStep, BaseAlways, PTL DEF Spec

\* Frame buffers that Run allocates and never deletes (the breaks out of the
\* fill loop) are at most one per connection.
THEOREM AtMostOneLeakPerConnection == Spec => []LeakBound
<1>1. LeakInv => LeakBound
  BY DEF LeakInv
<1>2. QED BY <1>1, LeakAlways, PTL

-----------------------------------------------------------------------------
(* The connections                                                         *)

LEMMA StartType ==
  ASSUME TypeOK, NEW a, IsStart(a)
  PROVE  a \in Nat
BY MsgType DEF IsStart, HeaderAt

LEMMA CellType ==
  ASSUME BaseInv, NEW i \in DOMAIN delivered, NEW j \in DOMAIN delivered[i]
  PROVE  delivered[i][j] \in Nat
<1>1. delivered \in Seq(Seq(Nat))
  BY DEF BaseInv, TypeOK, Frame
<1>2. i \in 1..Len(delivered)
  BY <1>1
<1>3. delivered[i] \in Seq(Nat)
  BY <1>1, <1>2, ElementOfSeq
<1>4. j \in 1..Len(delivered[i])
  BY <1>3
<1>5. QED BY <1>3, <1>4, ElementOfSeq

\* A message is written at the end of the cells.
LEMMA SentMessage ==
  ASSUME BaseInv, NEW len \in MsgLengths, PeerSend(len)
  PROVE  /\ len \in Nat /\ len > 0 /\ nextAt \in Nat /\ nextAt' = nextAt + len
         /\ Len(msgs') = Len(msgs) + 1 /\ Len(msgs) \in Nat
         /\ DOMAIN msgs = 1..Len(msgs) /\ DOMAIN msgs' = 1..Len(msgs) + 1
         /\ \A k \in DOMAIN msgs : msgs'[k] = msgs[k]
         /\ msgs'[Len(msgs) + 1].at = nextAt
         /\ msgs'[Len(msgs) + 1].len = len
<1>1. len \in Nat /\ len > 0
  BY StreamAssumption
<1>2. msgs \in Seq([at : Nat, len : MsgLengths]) /\ nextAt \in Nat
  BY DEF BaseInv, TypeOK
<1>3. msgs' = Append(msgs, [at |-> nextAt, len |-> len])
  BY DEF PeerSend
<1>4. [at |-> nextAt, len |-> len] \in [at : Nat, len : MsgLengths]
  BY <1>2
<1>5. QED BY <1>1, <1>2, <1>3, <1>4, AppendProperties DEF PeerSend

LEMMA ConnFacts ==
  ASSUME BaseInv
  PROVE  /\ Len(conns) \in Nat /\ DOMAIN conns = 1..Len(conns)
         /\ cur \in Nat /\ cur <= Len(conns)
         /\ readPos \in Nat /\ nextAt \in Nat
         /\ \A c \in DOMAIN conns : conns[c].from \in Nat /\ conns[c].upto \in Nat
BY ConnType DEF BaseInv, TypeOK

LEMMA ConnConnect ==
  ASSUME BaseInv, ConnectionsInOrder, PeerConnect
  PROVE  ConnectionsInOrder'
<1>1. /\ DOMAIN conns' = 1..Len(conns) + 1
      /\ \A c \in DOMAIN conns : conns'[c] = conns[c]
      /\ conns'[Len(conns) + 1] = [from |-> nextAt, upto |-> nextAt, open |-> TRUE]
  BY DEF PeerConnect, BaseInv, TypeOK
<1>2. UNCHANGED <<nextAt, cur, readPos>>
  BY DEF PeerConnect, threadVars
<1>3. \A c \in DOMAIN conns' :
        conns'[c].from <= conns'[c].upto /\ conns'[c].upto <= nextAt'
  BY <1>1, <1>2, ConnFacts DEF ConnectionsInOrder
<1>4. \A c, d \in DOMAIN conns' : c < d => conns'[c].upto <= conns'[d].from
  BY <1>1, <1>2, ConnFacts DEF ConnectionsInOrder
<1>5. cur > 0 => conns'[cur].from <= readPos /\ readPos <= conns'[cur].upto
  BY <1>1, ConnFacts DEF ConnectionsInOrder
<1>6. QED BY <1>2, <1>3, <1>4, <1>5 DEF ConnectionsInOrder

\* What the simulator and the kernel change of the last connection is how
\* far it goes.
LEMMA ConnLastChanges ==
  ASSUME BaseInv, ConnectionsInOrder, Len(conns) > 0, NEW u \in Nat,
         Last.from <= u, u <= nextAt', nextAt' \in Nat, nextAt <= nextAt',
         cur = Len(conns) => readPos <= u, UNCHANGED <<cur, readPos>>,
         DOMAIN conns' = DOMAIN conns,
         \A c \in DOMAIN conns : c # Len(conns) => conns'[c] = conns[c],
         conns'[Len(conns)].from = Last.from, conns'[Len(conns)].upto = u
  PROVE  ConnectionsInOrder'
<1>1. \A c \in DOMAIN conns :
        /\ conns'[c].from = conns[c].from
        /\ c # Len(conns) => conns'[c].upto = conns[c].upto
  BY DEF Last
<1>2. \A c \in DOMAIN conns' :
        conns'[c].from <= conns'[c].upto /\ conns'[c].upto <= nextAt'
  BY <1>1, ConnFacts DEF ConnectionsInOrder, Last
<1>3. \A c, d \in DOMAIN conns' : c < d => conns'[c].upto <= conns'[d].from
  BY <1>1, ConnFacts DEF ConnectionsInOrder
<1>4. cur > 0 => conns'[cur].from <= readPos /\ readPos <= conns'[cur].upto
  BY <1>1, ConnFacts DEF ConnectionsInOrder
<1>5. QED BY <1>2, <1>3, <1>4 DEF ConnectionsInOrder

LEMMA ConnClose ==
  ASSUME BaseInv, ConnectionsInOrder, PeerClose
  PROVE  ConnectionsInOrder'
<1>1. Len(conns) > 0
  BY DEF PeerClose, PeerOpen
<1>2. PICK cut \in LastWrite..Last.upto :
        /\ cur = Len(conns) => cut >= readPos
        /\ conns' = [conns EXCEPT ![Len(conns)].upto = cut,
                                  ![Len(conns)].open = FALSE]
  BY DEF PeerClose
<1>3. Last.from \in Nat /\ Last.upto \in Nat /\ Last.upto <= nextAt
  BY <1>1, ConnFacts DEF Last, ConnectionsInOrder
<1>4. LastWrite \in Nat /\ Last.from <= LastWrite
  <2>1. Len(msgs) > 0 => msgs[Len(msgs)].at \in Nat
    BY MsgType DEF BaseInv, TypeOK
  <2>2. QED BY <1>3, <2>1 DEF LastWrite, BaseInv, TypeOK
<1>5. /\ DOMAIN conns' = DOMAIN conns
      /\ \A c \in DOMAIN conns : c # Len(conns) => conns'[c] = conns[c]
      /\ conns'[Len(conns)].from = Last.from /\ conns'[Len(conns)].upto = cut
  BY <1>1, <1>2, ConnFacts DEF Last
<1>6. UNCHANGED <<nextAt, cur, readPos>>
  BY DEF PeerClose, threadVars
<1>7. cut \in Nat /\ Last.from <= cut /\ cut <= nextAt
  BY <1>2, <1>3, <1>4, ConnFacts
<1>8. QED BY <1>1, <1>2, <1>5, <1>6, <1>7, ConnFacts, ConnLastChanges

LEMMA ConnSend ==
  ASSUME BaseInv, ConnectionsInOrder, NEW len \in MsgLengths, PeerSend(len)
  PROVE  ConnectionsInOrder'
<1>1. Len(conns) > 0 /\ nextAt' = nextAt + len /\ UNCHANGED <<cur, readPos>>
  BY DEF PeerSend, PeerOpen, threadVars
<1>2. len \in Nat
  BY StreamAssumption
<1>3. /\ DOMAIN conns' = DOMAIN conns
      /\ \A c \in DOMAIN conns : c # Len(conns) => conns'[c] = conns[c]
      /\ conns'[Len(conns)].from = Last.from
      /\ conns'[Len(conns)].upto = nextAt + len
  BY <1>1, ConnFacts DEF PeerSend, Last
<1>4. Last.from <= nextAt + len /\ (cur = Len(conns) => readPos <= nextAt + len)
  BY <1>1, <1>2, ConnFacts DEF Last, ConnectionsInOrder
<1>5. QED BY <1>1, <1>2, <1>3, <1>4, ConnFacts, ConnLastChanges

LEMMA ReadSize ==
  ASSUME BaseInv, ConnectionsInOrder, cur > 0, NEW n \in Chunks
  PROVE  /\ n \in Nat /\ n > 0
         /\ readPos \in Nat /\ readPos + n <= conns[cur].upto
         /\ conns[cur].upto <= nextAt
<1>1. n \in 1..BufferSize /\ n <= conns[cur].upto - readPos
  BY DEF Chunks, Unread
<1>2. cur \in DOMAIN conns
  BY ConnFacts
<1>3. QED BY <1>1, <1>2, ConnFacts, StreamAssumption DEF ConnectionsInOrder

LEMMA ConnStep ==
  ASSUME BaseInv, ConnectionsInOrder, [Next]_vars
  PROVE  ConnectionsInOrder'
<1>1. CASE PeerConnect \/ PeerClose \/ \E len \in MsgLengths : PeerSend(len)
  BY <1>1, ConnConnect, ConnClose, ConnSend
<1>2. CASE UNCHANGED <<conns, nextAt, cur, readPos>>
  BY <1>2 DEF ConnectionsInOrder
<1>3. CASE AcceptClient
  <2>1. /\ UNCHANGED <<conns, nextAt>> /\ cur + 1 \in DOMAIN conns
        /\ cur' = cur + 1 /\ readPos' = conns[cur + 1].from
    BY <1>3, ConnFacts DEF AcceptClient, peerVars
  <2>2. QED BY <2>1, ConnFacts DEF ConnectionsInOrder
<1>4. CASE ReadChunk \/ FillMore \/ FillComplete
  <2>1. cur > 0
    BY <1>4 DEF ReadChunk, FillMore, FillComplete, BaseInv, FillIsPartial, Serving
  <2>2. PICK n \in Chunks : readPos' = readPos + n
    BY <1>4 DEF ReadChunk, FillMore, FillComplete
  <2>3. UNCHANGED <<conns, nextAt, cur>>
    BY <1>4 DEF ReadChunk, FillMore, FillComplete, peerVars
  <2>4. QED BY <2>1, <2>2, <2>3, ReadSize, ConnFacts DEF ConnectionsInOrder
<1>5. CASE \/ OuterLoop \/ AcceptTimeout \/ ServeLoop \/ ReadEof \/ ParseDrop
           \/ ParseWhole \/ ParsePart \/ FillLoop \/ FillStopped \/ FillEof
           \/ Owner \/ UNCHANGED vars
  <2>1. UNCHANGED <<conns, nextAt, cur, readPos>>
    BY <1>5 DEF OuterLoop, AcceptTimeout, ServeLoop, ReadEof, ParseDrop,
      ParseWhole, ParsePart, FillLoop, FillStopped, FillEof, Owner, InitServer,
      Start, StopRequest, StopJoin, vars, peerVars, threadVars
  <2>2. QED BY <1>2, <2>1
<1>6. QED BY <1>1, <1>3, <1>4, <1>5 DEF Next, Run

-----------------------------------------------------------------------------
(* Frames are unbroken stretches                                           *)

LEMMA CellsEnds ==
  ASSUME NEW a \in Nat, NEW n \in Nat, n > 0
  PROVE  /\ Cells(a, n) \in Seq(Nat) /\ Cells(a, n) # <<>>
         /\ Len(Cells(a, n)) = n
         /\ Cells(a, n)[1] = a /\ Cells(a, n)[n] = a + n - 1
<1>1. /\ Cells(a, n) \in Seq(Nat) /\ Len(Cells(a, n)) = n
      /\ \A i \in 1..n : Cells(a, n)[i] = a + i - 1
  BY CellsSeq
<1>2. 1 \in 1..n /\ n \in 1..n
  OBVIOUS
<1>3. Cells(a, n)[1] = a /\ Cells(a, n)[n] = a + n - 1
  BY <1>1, <1>2
<1>4. Cells(a, n) # <<>>
  BY <1>1
<1>5. QED BY <1>1, <1>3, <1>4

\* The connection that is served.
LEMMA ServedConn ==
  ASSUME BaseInv, ConnectionsInOrder, cur > 0
  PROVE  /\ cur \in 1..Len(conns) /\ cur \in Nat /\ Len(conns) \in Nat
         /\ conns[cur].from \in Nat /\ conns[cur].upto \in Nat
         /\ conns[cur].from <= readPos /\ readPos <= conns[cur].upto
         /\ readPos \in Nat
BY ConnFacts DEF ConnectionsInOrder

LEMMA FrameEnds ==
  ASSUME BaseInv, NEW i \in DOMAIN delivered, delivered[i] # <<>>
  PROVE  /\ Len(delivered[i]) \in DOMAIN delivered[i]
         /\ delivered[i][Len(delivered[i])] \in Nat
         /\ delivered[i][1] \in Nat
<1>1. delivered \in Seq(Seq(Nat)) /\ i \in 1..Len(delivered)
  BY DEF BaseInv, TypeOK, Frame
<1>2. delivered[i] \in Seq(Nat)
  BY <1>1, ElementOfSeq
<1>3. Len(delivered[i]) \in Nat /\ Len(delivered[i]) > 0
  BY <1>2, EmptySeq
<1>4. Len(delivered[i]) \in 1..Len(delivered[i]) /\ 1 \in 1..Len(delivered[i])
  BY <1>3
<1>5. QED BY <1>2, <1>4, ElementOfSeq

\* Frames stay where they are while connections go on, end behind what was
\* read of them, or a next one is served.
LEMMA FramesKept ==
  ASSUME BaseInv, ConnectionsInOrder, FramesReadFrom, UNCHANGED delivered,
         cur' \in {cur, cur + 1}, readPos' \in Nat,
         cur' = cur => readPos <= readPos',
         \A c \in 1..cur :
           /\ conns'[c].from = conns[c].from
           /\ conns'[c].upto \in Nat
           /\ \/ conns[c].upto <= conns'[c].upto
              \/ c = cur /\ readPos <= conns'[c].upto
  PROVE  FramesReadFrom'
<1>1. SUFFICES ASSUME NEW i \in DOMAIN delivered
               PROVE  \E c \in 1..cur' : ReadFrom(delivered[i], c)'
  BY DEF FramesReadFrom
<1>2. PICK c \in 1..cur : ReadFrom(delivered[i], c)
  BY DEF FramesReadFrom
<1> DEFINE f == delivered[i]
<1>3. /\ f # <<>> /\ f = Cells(f[1], Len(f))
      /\ conns[c].from <= f[1] /\ f[Len(f)] < conns[c].upto
      /\ c = cur => f[Len(f)] < readPos
  BY <1>2 DEF ReadFrom
<1>4. f[Len(f)] \in Nat /\ f[1] \in Nat
  BY <1>3, FrameEnds
<1>5. /\ cur \in Nat /\ c \in Nat /\ c <= cur /\ readPos \in Nat
      /\ conns[c].upto \in Nat
  <2>1. cur \in Nat /\ cur <= Len(conns) /\ Len(conns) \in Nat /\ readPos \in Nat
    BY ConnFacts
  <2>2. c \in 1..Len(conns)
    BY <2>1
  <2>3. QED BY <2>1, <2>2, ConnType DEF BaseInv
<1>6. conns'[c].from <= f[1]
  BY <1>3
<1>7. f[Len(f)] < conns'[c].upto
  <2>1. CASE conns[c].upto <= conns'[c].upto
    <3>1. conns'[c].upto \in Nat
      OBVIOUS
    <3>2. QED BY <1>3, <1>4, <1>5, <2>1, <3>1
  <2>2. CASE c = cur /\ readPos <= conns'[c].upto
    <3>1. conns'[c].upto \in Nat
      OBVIOUS
    <3>2. QED BY <1>3, <1>4, <1>5, <2>2, <3>1
  <2>3. QED BY <2>1, <2>2
<1>8. c = cur' => f[Len(f)] < readPos'
  <2>1. SUFFICES ASSUME c = cur' PROVE f[Len(f)] < readPos'
    OBVIOUS
  <2>2. cur' = cur /\ c = cur
    BY <1>5, <2>1
  <2>3. QED BY <1>3, <1>4, <1>5, <2>2
<1>9. c \in 1..cur'
  BY <1>5
<1>10. delivered'[i] = f
  OBVIOUS
<1>11. ReadFrom(delivered[i], c)'
  BY <1>3, <1>6, <1>7, <1>8, <1>10 DEF ReadFrom
<1>12. QED BY <1>9, <1>11

\* One frame more, cut out of what was read of the served connection.
LEMMA FrameAdded ==
  ASSUME BaseInv, ConnectionsInOrder, FramesReadFrom, cur > 0,
         NEW a \in Nat, NEW n \in Nat, n > 0,
         UNCHANGED <<conns, cur>>, readPos' \in Nat, readPos <= readPos',
         conns[cur].from <= a, a + n <= readPos', readPos' <= conns[cur].upto,
         delivered' = Append(delivered, Cells(a, n))
  PROVE  FramesReadFrom'
<1> DEFINE g == Cells(a, n)
<1>1. /\ g \in Seq(Nat) /\ g # <<>> /\ Len(g) = n /\ g[1] = a /\ g[n] = a + n - 1
  BY CellsEnds
<1>2. /\ DOMAIN delivered = 1..Len(delivered) /\ Len(delivered) \in Nat
      /\ DOMAIN delivered' = 1..Len(delivered) + 1
      /\ \A i \in 1..Len(delivered) : delivered'[i] = delivered[i]
      /\ delivered'[Len(delivered) + 1] = g
  BY <1>1 DEF BaseInv, TypeOK
<1>3. SUFFICES ASSUME NEW i \in 1..Len(delivered) + 1
               PROVE  \E c \in 1..cur' : ReadFrom(delivered[i], c)'
  BY <1>2 DEF FramesReadFrom
<1>4. CASE i = Len(delivered) + 1
  <2>1. g[Len(g)] < conns[cur].upto /\ g[Len(g)] < readPos'
    <3>1. conns[cur].upto \in Nat
      BY ServedConn
    <3>2. QED BY <1>1, <3>1
  <2>2. delivered'[i] = g /\ g = Cells(g[1], Len(g)) /\ conns[cur].from <= g[1]
    BY <1>1, <1>2, <1>4
  <2>3. ReadFrom(delivered[i], cur)'
    BY <1>1, <2>1, <2>2 DEF ReadFrom
  <2>4. cur' \in 1..cur'
    BY ServedConn
  <2>5. QED BY <2>3, <2>4
<1>5. CASE i \in 1..Len(delivered)
  <2>1. PICK c \in 1..cur : ReadFrom(delivered[i], c)
    BY <1>2, <1>5 DEF FramesReadFrom
  <2>2. delivered[i][Len(delivered[i])] \in Nat
    BY <1>2, <1>5, <2>1, FrameEnds DEF ReadFrom
  <2>3. c = cur => delivered[i][Len(delivered[i])] < readPos'
    BY <2>1, <2>2, ServedConn DEF ReadFrom
  <2>4. delivered'[i] = delivered[i]
    BY <1>2, <1>5
  <2>5. ReadFrom(delivered[i], c)'
    BY <2>1, <2>3, <2>4 DEF ReadFrom
  <2>6. QED BY <2>5
<1>6. QED BY <1>2, <1>4, <1>5

-----------------------------------------------------------------------------
(* The steps                                                               *)

LEMMA SegmentPeer ==
  ASSUME BaseInv, ConnectionsInOrder, SegmentInv,
         PeerConnect \/ PeerClose \/ \E len \in MsgLengths : PeerSend(len)
  PROVE  SegmentInv'
<1> DEFINE N == Len(conns)
<1>1. /\ UNCHANGED threadVars /\ N \in Nat /\ cur \in Nat /\ cur <= N
      /\ readPos \in Nat /\ nextAt \in Nat
  BY ConnFacts DEF PeerConnect, PeerClose, PeerSend
<1>2. \A c \in 1..N : conns[c].upto \in Nat
  BY ConnFacts
<1>3. ASSUME NEW c \in 1..N
      PROVE  /\ conns'[c].from = conns[c].from
             /\ conns'[c].upto \in Nat
             /\ \/ conns[c].upto <= conns'[c].upto
                \/ c = cur /\ readPos <= conns'[c].upto
                \/ c > cur
  <2>1. CASE PeerConnect
    <3>1. conns'[c] = conns[c]
      BY <2>1 DEF PeerConnect, BaseInv, TypeOK
    <3>2. QED BY <1>2, <3>1
  <2>2. CASE PeerClose
    <3>1. PICK cut \in LastWrite..Last.upto :
            /\ cur = Len(conns) => cut >= readPos
            /\ conns' = [conns EXCEPT ![Len(conns)].upto = cut,
                                      ![Len(conns)].open = FALSE]
      BY <2>2 DEF PeerClose
    <3>2. cut \in Nat
      <4>1. Last.from \in Nat /\ Last.upto \in Nat
        BY <2>2, ConnFacts DEF Last, PeerClose, PeerOpen
      <4>2. Len(msgs) > 0 => msgs[Len(msgs)].at \in Nat
        BY MsgType DEF BaseInv, TypeOK
      <4>3. LastWrite \in Nat
        BY <4>1, <4>2 DEF LastWrite, BaseInv, TypeOK
      <4>4. QED BY <4>1, <4>3
    <3>3. CASE c # N
      <4>1. conns'[c] = conns[c]
        BY <3>1, <3>3, ConnFacts
      <4>2. QED BY <1>2, <4>1
    <3>4. CASE c = N
      <4>1. conns'[c].from = conns[c].from /\ conns'[c].upto = cut
        BY <3>1, <3>4, ConnFacts
      <4>2. cur = N \/ cur < N
        BY <1>1
      <4>3. QED BY <1>1, <3>1, <3>2, <3>4, <4>1, <4>2
    <3>5. QED BY <3>3, <3>4
  <2>3. ASSUME NEW len \in MsgLengths, PeerSend(len)
        PROVE  /\ conns'[c].from = conns[c].from
               /\ conns'[c].upto \in Nat
               /\ conns[c].upto <= conns'[c].upto
    <3>1. conns' = [conns EXCEPT ![Len(conns)].upto = nextAt + len]
      BY <2>3 DEF PeerSend
    <3>2. nextAt + len \in Nat /\ conns[c].upto <= nextAt + len
      BY <1>1, <1>2, StreamAssumption, ConnFacts DEF ConnectionsInOrder
    <3>3. CASE c # N
      <4>1. conns'[c] = conns[c]
        BY <3>1, <3>3, ConnFacts
      <4>2. QED BY <1>2, <4>1
    <3>4. CASE c = N
      <4>1. conns'[c].from = conns[c].from /\ conns'[c].upto = nextAt + len
        BY <3>1, <3>4, ConnFacts
      <4>2. QED BY <3>2, <4>1
    <3>5. QED BY <3>3, <3>4
  <2>4. QED BY <2>1, <2>2, <2>3
<1>4. UNCHANGED <<pc, cur, readPos, bufAt, received, frame, delivered>>
  BY <1>1 DEF threadVars, bufVars, frameVars
<1>5. \A c \in 1..cur :
        /\ conns'[c].from = conns[c].from
        /\ conns'[c].upto \in Nat
        /\ \/ conns[c].upto <= conns'[c].upto
           \/ c = cur /\ readPos <= conns'[c].upto
  <2>1. \A c \in 1..cur : c \in 1..N /\ ~(c > cur)
    BY <1>1
  <2>2. QED BY <1>3, <2>1
<1>6. FramesReadFrom'
  BY <1>1, <1>4, <1>5, FramesKept DEF SegmentInv
<1>7. BufferReadFrom'
  <2>1. Serving => conns'[cur].from = conns[cur].from
    BY <1>1, <1>5 DEF BaseInv, FillIsPartial
  <2>2. QED BY <1>4, <2>1 DEF SegmentInv, BufferReadFrom, Filling, Serving
<1>8. QED BY <1>6, <1>7 DEF SegmentInv

LEMMA SegmentQuiet ==
  ASSUME BaseInv, ConnectionsInOrder, SegmentInv,
         \/ OuterLoop \/ AcceptTimeout \/ ServeLoop \/ ReadEof \/ ParseDrop
         \/ FillLoop \/ FillStopped \/ FillEof \/ Owner \/ UNCHANGED vars
  PROVE  SegmentInv'
<1>1. UNCHANGED <<conns, cur, readPos, delivered>>
  BY DEF OuterLoop, AcceptTimeout, ServeLoop, ReadEof, ParseDrop, FillLoop,
    FillStopped, FillEof, FillAbandon, Owner, InitServer, Start, StopRequest,
    StopJoin, vars, peerVars, threadVars, frameVars
<1>2. \/ pc' = pc /\ UNCHANGED <<bufAt, received, frame>>
      \/ pc = "fill" /\ pc' = "fillread" /\ UNCHANGED frame
      \/ pc' \in {"loop", "accept", "serve", "read", "exited"}
  BY DEF OuterLoop, AcceptTimeout, ServeLoop, ReadEof, ParseDrop, FillLoop,
    FillStopped, FillEof, FillAbandon, Owner, InitServer, Start, StopRequest,
    StopJoin, vars, threadVars, bufVars, frameVars
<1>3. FramesReadFrom'
  BY <1>1 DEF SegmentInv, FramesReadFrom, ReadFrom
<1>4. BufferReadFrom'
  BY <1>1, <1>2 DEF SegmentInv, BufferReadFrom, Filling
<1>5. QED BY <1>3, <1>4 DEF SegmentInv

LEMMA SegmentAccept ==
  ASSUME BaseInv, ConnectionsInOrder, SegmentInv, AcceptClient
  PROVE  SegmentInv'
<1>1. /\ UNCHANGED <<conns, delivered>> /\ cur' = cur + 1 /\ pc' = "serve"
      /\ cur < Len(conns) /\ readPos' = conns[cur + 1].from
  BY DEF AcceptClient, peerVars, frameVars
<1>2. cur \in Nat /\ Len(conns) \in Nat
  BY ConnFacts
<1>3. readPos' \in Nat /\ \A c \in 1..cur : conns[c].upto \in Nat
  <2>1. cur + 1 \in 1..Len(conns) /\ \A c \in 1..cur : c \in 1..Len(conns)
    BY <1>1, <1>2
  <2>2. QED BY <1>1, <2>1, ConnType DEF BaseInv
<1>4. FramesReadFrom'
  <2>1. cur' \in {cur, cur + 1} /\ cur' # cur
    BY <1>1, <1>2
  <2>2. \A c \in 1..cur : conns'[c] = conns[c] /\ conns[c].upto <= conns'[c].upto
    BY <1>1, <1>3
  <2>3. QED BY <1>1, <1>3, <2>1, <2>2, FramesKept DEF SegmentInv
<1>5. BufferReadFrom'
  BY <1>1 DEF BufferReadFrom, Filling
<1>6. QED BY <1>4, <1>5 DEF SegmentInv

\* A read moves the thread on inside the connection it serves.
LEMMA ReadMoves ==
  ASSUME BaseInv, ConnectionsInOrder, FramesReadFrom, cur > 0,
         NEW n \in Chunks, readPos' = readPos + n,
         UNCHANGED <<conns, cur, delivered>>
  PROVE  FramesReadFrom'
<1>1. n \in Nat /\ readPos \in Nat
  BY ReadSize
<1>2. readPos' \in Nat /\ readPos <= readPos'
  BY <1>1
<1>3. \A c \in 1..cur : conns'[c] = conns[c] /\ conns[c].upto \in Nat
  <2>1. \A c \in 1..cur : c \in 1..Len(conns)
    BY ServedConn
  <2>2. QED BY <2>1, ConnType DEF BaseInv
<1>4. \A c \in 1..cur : conns[c].upto <= conns'[c].upto
  BY <1>3
<1>5. QED BY <1>2, <1>3, <1>4, FramesKept

LEMMA SegmentRead ==
  ASSUME BaseInv, ConnectionsInOrder, SegmentInv, ReadChunk
  PROVE  SegmentInv'
<1>1. cur > 0 /\ UNCHANGED <<conns, cur, delivered>> /\ pc' = "parse"
  BY DEF ReadChunk, BaseInv, FillIsPartial, Serving, peerVars, frameVars
<1>2. PICK n \in Chunks : /\ bufAt' = readPos /\ received' = n
                          /\ readPos' = readPos + n
  BY DEF ReadChunk
<1>3. FramesReadFrom'
  BY <1>1, <1>2, ReadMoves DEF SegmentInv
<1>4. BufferReadFrom'
  BY <1>1, <1>2, ServedConn DEF BufferReadFrom, Filling
<1>5. QED BY <1>3, <1>4 DEF SegmentInv

\* The parse stands inside the buffer.
LEMMA ParseInside ==
  ASSUME BaseInv, ConnectionsInOrder, SegmentInv, pc = "parse"
  PROVE  /\ cur > 0 /\ saved \in Nat /\ CopyFrom \in Nat /\ received \in Nat
         /\ bufAt \in Nat /\ conns[cur].from <= CopyFrom
         /\ CopyFrom + saved = readPos
<1>1. cur > 0
  BY DEF BaseInv, FillIsPartial, Serving
<1>2. conns[cur].from <= bufAt /\ bufAt + received = readPos
  BY DEF SegmentInv, BufferReadFrom
<1>3. conns[cur].from \in Nat /\ readPos \in Nat
  BY <1>1, ServedConn
<1>4. /\ saved \in Nat /\ received \in Nat /\ saved <= received /\ bufAt \in Nat
      /\ CopyFrom \in Nat
  BY BufferType DEF BaseInv
<1>5. conns[cur].from <= CopyFrom /\ CopyFrom + saved = readPos
  BY <1>2, <1>3, <1>4 DEF CopyFrom
<1>6. QED BY <1>1, <1>4, <1>5

LEMMA SegmentParseWhole ==
  ASSUME BaseInv, ConnectionsInOrder, SegmentInv, ParseWhole
  PROVE  SegmentInv'
<1>1. /\ pc = "parse" /\ pc' = "parse"
      /\ UNCHANGED <<conns, cur, readPos, bufAt, received>>
  BY DEF ParseWhole, peerVars
<1>2. PICK k \in DOMAIN msgs :
        /\ saved >= msgs[k].len
        /\ delivered' = Append(delivered, Cells(CopyFrom, msgs[k].len))
  BY DEF ParseWhole
<1>3. msgs[k].len \in Nat /\ msgs[k].len > 0
  BY MsgType, StreamAssumption DEF BaseInv
<1>4. /\ cur > 0 /\ CopyFrom \in Nat /\ conns[cur].from <= CopyFrom
      /\ CopyFrom + saved = readPos /\ saved \in Nat
  BY <1>1, ParseInside
<1>5. CopyFrom + msgs[k].len <= readPos
  BY <1>2, <1>3, <1>4
<1>6. readPos \in Nat /\ readPos <= conns[cur].upto
  BY <1>4, ServedConn
<1>7. FramesReadFrom'
  BY <1>1, <1>2, <1>3, <1>4, <1>5, <1>6, FrameAdded DEF SegmentInv
<1>8. BufferReadFrom'
  BY <1>1 DEF SegmentInv, BufferReadFrom, Filling
<1>9. QED BY <1>7, <1>8 DEF SegmentInv

LEMMA SegmentParsePart ==
  ASSUME BaseInv, ConnectionsInOrder, SegmentInv, ParsePart
  PROVE  SegmentInv'
<1>1. /\ pc = "parse" /\ pc' = "fill" /\ saved >= HeaderSize
      /\ UNCHANGED <<conns, cur, readPos, delivered>>
      /\ frame' = Cells(CopyFrom, saved)
  BY DEF ParsePart, peerVars
<1>2. /\ CopyFrom \in Nat /\ conns[cur].from <= CopyFrom
      /\ CopyFrom + saved = readPos /\ saved \in Nat
  BY <1>1, ParseInside
<1>3. Len(frame') = saved /\ saved > 0
  BY <1>1, <1>2, CellsSeq, StreamAssumption
<1>4. readPos' - Len(frame') = CopyFrom
  BY <1>1, <1>2, <1>3
<1>5. BufferReadFrom'
  BY <1>1, <1>2, <1>3, <1>4 DEF BufferReadFrom
<1>6. FramesReadFrom'
  BY <1>1 DEF SegmentInv, FramesReadFrom, ReadFrom
<1>7. QED BY <1>5, <1>6 DEF SegmentInv

\* The frame being filled begins inside the connection.
LEMMA FillInside ==
  ASSUME BaseInv, ConnectionsInOrder, SegmentInv, Filling
  PROVE  /\ cur > 0 /\ Len(frame) \in Nat /\ Len(frame) > 0
         /\ readPos - Len(frame) \in Nat
         /\ conns[cur].from <= readPos - Len(frame)
         /\ frame = Cells(readPos - Len(frame), Len(frame))
         /\ readPos \in Nat /\ hdrLen \in Nat /\ Len(frame) < hdrLen
<1>1. cur > 0 /\ hdrLen \in MsgLengths /\ Len(frame) < hdrLen
  BY DEF BaseInv, FillIsPartial, Serving, Filling
<1>2. Len(frame) > 0 /\ conns[cur].from <= readPos - Len(frame)
      /\ frame = Cells(readPos - Len(frame), Len(frame))
  BY DEF SegmentInv, BufferReadFrom
<1>3. Len(frame) \in Nat /\ readPos \in Nat /\ conns[cur].from \in Nat
  BY <1>1, ServedConn DEF BaseInv, TypeOK, Frame
<1>4. readPos - Len(frame) \in Nat
  BY <1>2, <1>3
<1>5. hdrLen \in Nat
  BY <1>1, StreamAssumption
<1>6. QED BY <1>1, <1>2, <1>3, <1>4, <1>5

LEMMA SegmentFillMore ==
  ASSUME BaseInv, ConnectionsInOrder, SegmentInv, FillMore
  PROVE  SegmentInv'
<1>1. pc' = "fill" /\ Filling /\ UNCHANGED <<conns, cur, delivered>>
  BY DEF FillMore, Filling, peerVars
<1>2. PICK n \in Chunks : /\ frame' = frame \o Cells(readPos, n)
                          /\ readPos' = readPos + n
  BY DEF FillMore
<1>3. PICK a \in Nat : /\ a = readPos - Len(frame)
                       /\ cur > 0 /\ Len(frame) \in Nat /\ Len(frame) > 0
                       /\ conns[cur].from <= a /\ frame = Cells(a, Len(frame))
                       /\ readPos \in Nat
  BY <1>1, FillInside
<1>4. n \in Nat
  BY <1>3, ReadSize
<1>5. frame' = Cells(a, Len(frame) + n)
  <2>1. readPos = a + Len(frame)
    BY <1>3
  <2>2. Cells(a, Len(frame)) \o Cells(a + Len(frame), n) = Cells(a, Len(frame) + n)
    BY <1>3, <1>4, CellsConcat
  <2>3. QED BY <1>2, <1>3, <2>1, <2>2
<1>6. Len(frame') = Len(frame) + n
  <2>1. Len(frame) + n \in Nat
    BY <1>3, <1>4
  <2>2. QED BY <1>3, <1>5, <2>1, CellsSeq
<1>7. readPos' - Len(frame') = a /\ Len(frame') > 0
  BY <1>2, <1>3, <1>4, <1>6
<1>8. frame' = Cells(a, Len(frame'))
  BY <1>5, <1>6
<1>9. BufferReadFrom'
  BY <1>1, <1>3, <1>7, <1>8 DEF BufferReadFrom
<1>10. FramesReadFrom'
  BY <1>1, <1>2, <1>3, ReadMoves DEF SegmentInv
<1>11. QED BY <1>9, <1>10 DEF SegmentInv

LEMMA SegmentFillComplete ==
  ASSUME BaseInv, ConnectionsInOrder, SegmentInv, FillComplete
  PROVE  SegmentInv'
<1>1. pc' = "parse" /\ Filling /\ UNCHANGED <<conns, cur>>
  BY DEF FillComplete, Filling, peerVars
<1>2. PICK n \in Chunks :
        /\ n >= hdrLen - Len(frame)
        /\ delivered' = Append(delivered,
                               frame \o Cells(readPos, hdrLen - Len(frame)))
        /\ bufAt' = readPos /\ received' = n /\ readPos' = readPos + n
  BY DEF FillComplete
<1>3. PICK a \in Nat : /\ a = readPos - Len(frame)
                       /\ cur > 0 /\ Len(frame) \in Nat /\ Len(frame) > 0
                       /\ conns[cur].from <= a /\ frame = Cells(a, Len(frame))
                       /\ readPos \in Nat /\ hdrLen \in Nat
                       /\ Len(frame) < hdrLen
  BY <1>1, FillInside
<1>4. n \in Nat /\ readPos + n <= conns[cur].upto
  BY <1>3, ReadSize
<1>5. frame \o Cells(readPos, hdrLen - Len(frame)) = Cells(a, hdrLen)
  <2>1. readPos = a + Len(frame) /\ hdrLen - Len(frame) \in Nat
        /\ Len(frame) + (hdrLen - Len(frame)) = hdrLen
    BY <1>3
  <2>2. Cells(a, Len(frame)) \o Cells(a + Len(frame), hdrLen - Len(frame))
          = Cells(a, Len(frame) + (hdrLen - Len(frame)))
    BY <1>3, <2>1, CellsConcat
  <2>3. QED BY <1>3, <2>1, <2>2
<1>6. /\ hdrLen > 0 /\ readPos' \in Nat /\ readPos <= readPos'
      /\ a + hdrLen <= readPos' /\ readPos' <= conns[cur].upto
  BY <1>2, <1>3, <1>4
<1>7. delivered' = Append(delivered, Cells(a, hdrLen))
  BY <1>2, <1>5
<1>8. FramesReadFrom'
  BY <1>1, <1>3, <1>6, <1>7, FrameAdded DEF SegmentInv
<1>9. BufferReadFrom'
  BY <1>1, <1>2, <1>3, ServedConn DEF BufferReadFrom, Filling
<1>10. QED BY <1>8, <1>9 DEF SegmentInv

LEMMA SegmentStep ==
  ASSUME BaseInv, ConnectionsInOrder, SegmentInv, [Next]_vars
  PROVE  SegmentInv'
BY SegmentPeer, SegmentQuiet, SegmentAccept, SegmentRead, SegmentParseWhole,
  SegmentParsePart, SegmentFillMore, SegmentFillComplete DEF Next, Run

LEMMA SegmentInit == Init => ConnectionsInOrder /\ SegmentInv
BY DEF Init, ConnectionsInOrder, SegmentInv, FramesReadFrom, BufferReadFrom, Filling

\* Whatever the lengths of the messages and the sizes of the reads, a frame
\* handed to a driver is an unbroken run of bytes of one connection (Run,
\* unix_socket_server.cc:120-176): the assembly of a message never runs on
\* into the next connection, and the wrong surplus never joins bytes that
\* are apart.
THEOREM SegmentsOnly == Spec => []FramesAreStreamSegments
<1>1. BaseInv /\ ConnectionsInOrder /\ SegmentInv /\ [Next]_vars
        => ConnectionsInOrder' /\ SegmentInv'
  BY ConnStep, SegmentStep
<1>2. BaseInv /\ SegmentInv => FramesAreStreamSegments
  <2>1. SUFFICES ASSUME BaseInv, SegmentInv PROVE FramesAreStreamSegments
    OBVIOUS
  <2>2. \A c \in 1..cur : c \in DOMAIN conns
    BY <2>1, ConnFacts
  <2>3. QED BY <2>1, <2>2 DEF SegmentInv, FramesReadFrom, ReadFrom,
          FramesAreStreamSegments
<1>3. QED BY <1>1, <1>2, SegmentInit, BaseAlways, PTL DEF Spec

=============================================================================
