---------------------------- MODULE ChannelProofs ----------------------------
(***************************************************************************)
(* StreamServer as a MessageChannel, for messages of any lengths: which    *)
(* number a frame has, what the end of a connection cuts short, and which  *)
(* step of the channel each step of the server and the simulator is, as    *)
(* long as every frame is a whole message (ChannelInv).  LossyChannelProofs*)
(* applies it to messages of one length.  Here it is applied to a          *)
(* simulator that paces its writes: the server then implements the         *)
(* reliable channel.                                                       *)
(***************************************************************************)
EXTENDS StreamServerProofs

-----------------------------------------------------------------------------
(* The messages and their numbers                                          *)

\* No two messages of ms begin at one cell, and none is empty.
Apart(ms) ==
  \A j, k \in DOMAIN ms :
    /\ ms[j].at \in Nat /\ ms[j].len \in Nat /\ ms[j].len > 0
    /\ ms[j].at = ms[k].at => j = k

Chosen(ms, f) == CHOOSE k \in DOMAIN ms : f = Cells(ms[k].at, ms[k].len)

LEMMA MsgsFacts ==
  ASSUME ChannelInv
  PROVE  /\ Len(msgs) \in Nat /\ nextAt \in Nat /\ DOMAIN msgs = 1..Len(msgs)
         /\ \A k \in DOMAIN msgs :
              /\ msgs[k].at \in Nat /\ msgs[k].len \in Nat /\ msgs[k].len > 0
              /\ msgs[k].len >= HeaderSize
              /\ msgs[k].at + msgs[k].len <= nextAt
         /\ \A j, k \in DOMAIN msgs : j < k => msgs[j].at + msgs[j].len <= msgs[k].at
<1>1. TypeOK /\ MessagesApart
  BY DEF ChannelInv, BaseInv
<1>2. Len(msgs) \in Nat /\ DOMAIN msgs = 1..Len(msgs) /\ nextAt \in Nat
  BY <1>1 DEF TypeOK
<1>3. \A k \in DOMAIN msgs :
        /\ msgs[k].at \in Nat /\ msgs[k].len \in Nat /\ msgs[k].len > 0
        /\ msgs[k].len >= HeaderSize
  BY <1>1, MsgType, StreamAssumption
<1>4. QED BY <1>1, <1>2, <1>3 DEF MessagesApart

LEMMA ApartNow ==
  ASSUME ChannelInv
  PROVE  Apart(msgs)
<1>1. SUFFICES ASSUME NEW j \in DOMAIN msgs, NEW k \in DOMAIN msgs,
                      msgs[j].at = msgs[k].at, j # k
               PROVE  FALSE
  BY MsgsFacts DEF Apart
<1>2. /\ j \in Nat /\ k \in Nat /\ msgs[j].at \in Nat
      /\ msgs[j].len \in Nat /\ msgs[j].len > 0
      /\ msgs[k].len \in Nat /\ msgs[k].len > 0
  BY MsgsFacts
<1>3. j < k \/ k < j
  BY <1>1, <1>2
<1>4. \/ msgs[j].at + msgs[j].len <= msgs[k].at
      \/ msgs[k].at + msgs[k].len <= msgs[j].at
  BY <1>3, MsgsFacts
<1>5. QED BY <1>1, <1>2, <1>4

\* The message that begins after another one was written after it.
LEMMA WrittenInOrder ==
  ASSUME ChannelInv, NEW j \in DOMAIN msgs, NEW k \in DOMAIN msgs,
         msgs[j].at < msgs[k].at
  PROVE  j < k /\ msgs[j].at + msgs[j].len <= msgs[k].at
<1>1. /\ j \in Nat /\ k \in Nat /\ msgs[j].at \in Nat /\ msgs[k].at \in Nat
      /\ msgs[k].len \in Nat
  BY MsgsFacts
<1>2. ~(k < j)
  <2>1. SUFFICES ASSUME k < j PROVE FALSE
    OBVIOUS
  <2>2. msgs[k].at + msgs[k].len <= msgs[j].at
    BY <2>1, MsgsFacts
  <2>3. QED BY <1>1, <2>2
<1>3. j # k
  BY <1>1
<1>4. j < k
  BY <1>1, <1>2, <1>3
<1>5. QED BY <1>4, MsgsFacts

LEMMA ApartNext ==
  ASSUME ChannelInv, NEW len \in MsgLengths, PeerSend(len)
  PROVE  Apart(msgs')
<1>1. /\ DOMAIN msgs' = 1..Len(msgs) + 1 /\ DOMAIN msgs = 1..Len(msgs)
      /\ \A k \in DOMAIN msgs : msgs'[k] = msgs[k]
      /\ msgs'[Len(msgs) + 1].at = nextAt /\ msgs'[Len(msgs) + 1].len = len
      /\ Len(msgs) \in Nat /\ nextAt \in Nat /\ len \in Nat /\ len > 0
  BY SentMessage DEF ChannelInv
<1>2. \A k \in DOMAIN msgs : msgs[k].at < nextAt
  <2>1. SUFFICES ASSUME NEW k \in DOMAIN msgs PROVE msgs[k].at < nextAt
    OBVIOUS
  <2>2. /\ msgs[k].at \in Nat /\ msgs[k].len \in Nat /\ msgs[k].len > 0
        /\ msgs[k].at + msgs[k].len <= nextAt
    BY MsgsFacts
  <2>3. QED BY <1>1, <2>2
<1>3. \A k \in DOMAIN msgs' : k \in DOMAIN msgs \/ k = Len(msgs) + 1
  BY <1>1
<1>4. \A k \in DOMAIN msgs' :
        msgs'[k].at \in Nat /\ msgs'[k].len \in Nat /\ msgs'[k].len > 0
  BY <1>1, <1>3, MsgsFacts
<1>5. ASSUME NEW j \in DOMAIN msgs', NEW k \in DOMAIN msgs',
             msgs'[j].at = msgs'[k].at
      PROVE  j = k
  <2>1. CASE j \in DOMAIN msgs /\ k \in DOMAIN msgs
    BY <1>1, <1>5, <2>1, ApartNow DEF Apart
  <2>2. CASE j = Len(msgs) + 1 \/ k = Len(msgs) + 1
    BY <1>1, <1>2, <1>3, <1>5, <2>2
  <2>3. QED BY <1>3, <2>1, <2>2
<1>6. QED BY <1>4, <1>5 DEF Apart

LEMMA ChosenIs ==
  ASSUME NEW ms, Apart(ms), NEW k \in DOMAIN ms, NEW f,
         f = Cells(ms[k].at, ms[k].len)
  PROVE  Chosen(ms, f) = k
<1>1. PICK j \in DOMAIN ms :
        j = Chosen(ms, f) /\ f = Cells(ms[j].at, ms[j].len)
  BY DEF Chosen
<1>2. /\ ms[j].at \in Nat /\ ms[k].at \in Nat
      /\ ms[j].len \in Nat /\ ms[j].len > 0 /\ ms[k].len \in Nat /\ ms[k].len > 0
  BY DEF Apart
<1>3. f[1] = ms[j].at /\ f[1] = ms[k].at
  <2>1. Cells(ms[j].at, ms[j].len)[1] = ms[j].at
        /\ Cells(ms[k].at, ms[k].len)[1] = ms[k].at
    BY <1>2, CellsEnds
  <2>2. QED BY <1>1, <2>1
<1>4. QED BY <1>1, <1>3 DEF Apart

\* The number of a frame that is message k.
LEMMA NumberIs ==
  ASSUME Apart(msgs), NEW i \in DOMAIN delivered,
         NEW k \in DOMAIN msgs, IsMessage(delivered[i], k)
  PROVE  Numbers[i] = k
<1>1. Numbers[i] = Chosen(msgs, delivered[i])
  BY DEF Numbers, IsMessage, Chosen
<1>2. QED BY <1>1, ChosenIs DEF IsMessage

LEMMA NumberIsNext ==
  ASSUME Apart(msgs'), NEW i \in DOMAIN delivered',
         NEW k \in DOMAIN msgs', delivered'[i] = Cells(msgs'[k].at, msgs'[k].len)
  PROVE  Numbers'[i] = k
<1>1. Numbers'[i] = Chosen(msgs', delivered'[i])
  BY DEF Numbers, IsMessage, Chosen
<1>2. QED BY <1>1, ChosenIs

\* Every frame has a number, that of the message it is.
LEMMA EveryNumber ==
  ASSUME ChannelInv, NEW a, WholeBelow(a), NEW i \in DOMAIN delivered
  PROVE  /\ Numbers[i] \in DOMAIN msgs
         /\ IsMessage(delivered[i], Numbers[i])
         /\ msgs[Numbers[i]].at + msgs[Numbers[i]].len <= a
<1>1. PICK k \in DOMAIN msgs :
        IsMessage(delivered[i], k) /\ msgs[k].at + msgs[k].len <= a
  BY DEF WholeBelow
<1>2. Numbers[i] = k
  BY <1>1, ApartNow, NumberIs
<1>3. QED BY <1>1, <1>2

LEMMA WholeBelowGrows ==
  ASSUME ChannelInv, NEW a \in Nat, NEW b \in Nat, a <= b, WholeBelow(a)
  PROVE  WholeBelow(b)
<1>1. SUFFICES ASSUME NEW i \in DOMAIN delivered
               PROVE  \E k \in DOMAIN msgs : /\ IsMessage(delivered[i], k)
                                             /\ msgs[k].at + msgs[k].len <= b
  BY DEF WholeBelow
<1>2. PICK k \in DOMAIN msgs :
        IsMessage(delivered[i], k) /\ msgs[k].at + msgs[k].len <= a
  BY DEF WholeBelow
<1>3. msgs[k].at \in Nat /\ msgs[k].len \in Nat
  BY MsgsFacts
<1>4. msgs[k].at + msgs[k].len <= b
  BY <1>2, <1>3
<1>5. QED BY <1>2, <1>4

-----------------------------------------------------------------------------
(* The messages cut short                                                  *)

Cut == {k \in DOMAIN msgs : CutShort(k)}

\* Connection c ended inside the n cells from a on.
EndsIn(c, a, n) ==
  /\ conns[c].from <= a
  /\ conns[c].upto < a + n
  /\ c < Len(conns) => a < conns[c + 1].from

LEMMA BeforeLast ==
  ASSUME NEW N \in Nat, NEW c \in 1..N, c # N
  PROVE  c < N /\ c + 1 \in 1..N
OBVIOUS

LEMMA CutIs ==
  ASSUME ChannelInv, NEW k \in DOMAIN msgs
  PROVE  CutShort(k) <=> \E c \in 1..Len(conns) : EndsIn(c, msgs[k].at, msgs[k].len)
<1>1. DOMAIN conns = 1..Len(conns)
  BY ConnFacts DEF ChannelInv
<1>2. QED BY <1>1 DEF CutShort, EndsIn

LEMMA ConnOrderFacts ==
  ASSUME BaseInv, ConnectionsInOrder
  PROVE  /\ Len(conns) \in Nat /\ DOMAIN conns = 1..Len(conns)
         /\ cur \in Nat /\ cur <= Len(conns) /\ readPos \in Nat /\ nextAt \in Nat
         /\ \A c \in 1..Len(conns) :
              /\ conns[c].from \in Nat /\ conns[c].upto \in Nat
              /\ conns[c].from <= conns[c].upto /\ conns[c].upto <= nextAt
         /\ \A c, d \in 1..Len(conns) : c < d => conns[c].upto <= conns[d].from
BY ConnFacts DEF ConnectionsInOrder

\* A message that lies in one connection is not cut short.
LEMMA WholeNotCut ==
  ASSUME ChannelInv, NEW k \in DOMAIN msgs, NEW d \in 1..Len(conns),
         conns[d].from <= msgs[k].at, msgs[k].at + msgs[k].len <= conns[d].upto
  PROVE  ~CutShort(k)
<1> PICK a \in Nat, n \in Nat : a = msgs[k].at /\ n = msgs[k].len /\ n > 0
  BY MsgsFacts
<1> BaseInv /\ ConnectionsInOrder
  BY DEF ChannelInv
<1>1. SUFFICES ASSUME NEW c \in 1..Len(conns), EndsIn(c, a, n) PROVE FALSE
  BY CutIs
<1>2. /\ Len(conns) \in Nat
      /\ conns[c].from \in Nat /\ conns[c].upto \in Nat
      /\ conns[d].from \in Nat /\ conns[d].upto \in Nat
  BY ConnOrderFacts
<1>3. CASE c = d
  BY <1>1, <1>2, <1>3 DEF EndsIn
<1>4. CASE c > d
  <2>1. conns[d].upto <= conns[c].from
    BY <1>2, <1>4, ConnOrderFacts
  <2>2. conns[c].from <= a
    BY <1>1 DEF EndsIn
  <2>3. QED BY <1>2, <2>1, <2>2
<1>5. CASE c < d
  <2>1. c + 1 \in 1..Len(conns) /\ c + 1 <= d /\ c < Len(conns)
    BY <1>2, <1>5
  <2>2. conns[c + 1].from \in Nat /\ conns[c + 1].upto \in Nat
        /\ conns[c + 1].from <= conns[c + 1].upto
    BY <2>1, ConnOrderFacts
  <2>3. conns[c + 1].from <= conns[d].from
    <3>1. CASE c + 1 = d
      BY <1>2, <3>1
    <3>2. CASE c + 1 < d
      <4>1. conns[c + 1].upto <= conns[d].from
        BY <2>1, <3>2, ConnOrderFacts
      <4>2. QED BY <1>2, <2>2, <4>1
    <3>3. QED BY <1>2, <2>1, <3>1, <3>2
  <2>4. a < conns[c + 1].from
    BY <1>1, <2>1 DEF EndsIn
  <2>5. QED BY <1>2, <2>2, <2>3, <2>4
<1>6. QED BY <1>2, <1>3, <1>4, <1>5

LEMMA OpenStep ==
  ASSUME BaseInv, OpenIsCurrent, [Next]_vars
  PROVE  OpenIsCurrent'
<1>1. CASE UNCHANGED <<conns, nextAt>>
  BY <1>1 DEF OpenIsCurrent, PeerOpen, Last
<1>2. conns \in Seq([from : Nat, upto : Nat, open : BOOLEAN])
      /\ Len(conns) \in Nat /\ DOMAIN conns = 1..Len(conns)
  BY DEF BaseInv, TypeOK
<1>3. CASE PeerConnect
  <2>1. conns'[Len(conns')] = [from |-> nextAt, upto |-> nextAt, open |-> TRUE]
        /\ UNCHANGED nextAt
    BY <1>2, <1>3 DEF PeerConnect
  <2>2. QED BY <2>1 DEF OpenIsCurrent, Last
<1>4. CASE PeerClose
  <2>1. Len(conns) > 0
    BY <1>4 DEF PeerClose, PeerOpen
  <2>2. Len(conns') = Len(conns) /\ ~conns'[Len(conns)].open
    BY <1>2, <1>4, <2>1 DEF PeerClose
  <2>3. QED BY <2>2 DEF OpenIsCurrent, PeerOpen, Last
<1>5. CASE \E len \in MsgLengths : PeerSend(len)
  <2>1. PICK len \in MsgLengths : PeerSend(len)
    BY <1>5
  <2>2. Len(conns) > 0
    BY <2>1 DEF PeerSend, PeerOpen
  <2>3. /\ Len(conns') = Len(conns) /\ nextAt' = nextAt + len
        /\ conns'[Len(conns)].upto = nextAt + len
    BY <1>2, <2>1, <2>2 DEF PeerSend
  <2>4. QED BY <2>3 DEF OpenIsCurrent, Last
<1>6. CASE Owner \/ Run \/ UNCHANGED vars
  <2>1. UNCHANGED <<conns, nextAt>>
    BY <1>6 DEF Owner, InitServer, Start, StopRequest, StopJoin, Run, OuterLoop,
      AcceptClient, AcceptTimeout, ServeLoop, ReadChunk, ReadEof, ParseDrop,
      ParseWhole, ParsePart, FillLoop, FillStopped, FillEof, FillMore,
      FillComplete, peerVars, vars
  <2>2. QED BY <1>1, <2>1
<1>7. QED BY <1>3, <1>4, <1>5, <1>6 DEF Next

-----------------------------------------------------------------------------
(* The simulator's steps                                                   *)

LEMMA ApartSend ==
  ASSUME BaseInv, MessagesApart, NEW len \in MsgLengths, PeerSend(len)
  PROVE  MessagesApart'
<1>1. /\ \A k \in DOMAIN msgs :
           /\ msgs'[k] = msgs[k] /\ msgs[k].at \in Nat /\ msgs[k].len \in Nat
           /\ k \in 1..Len(msgs)
      /\ DOMAIN msgs = 1..Len(msgs) /\ DOMAIN msgs' = 1..Len(msgs) + 1
      /\ Len(msgs) \in Nat /\ nextAt \in Nat /\ nextAt' = nextAt + len
      /\ msgs'[Len(msgs) + 1].at = nextAt /\ msgs'[Len(msgs) + 1].len = len
      /\ len \in Nat
  BY SentMessage, MsgType DEF BaseInv
<1>2. \A k \in DOMAIN msgs' : k \in DOMAIN msgs \/ k = Len(msgs) + 1
  BY <1>1
<1>3. \A k \in DOMAIN msgs' : msgs'[k].at + msgs'[k].len <= nextAt'
  BY <1>1, <1>2 DEF MessagesApart
<1>4. ASSUME NEW j \in DOMAIN msgs', NEW k \in DOMAIN msgs', j < k
      PROVE  msgs'[j].at + msgs'[j].len <= msgs'[k].at
  <2>1. j \in DOMAIN msgs
    BY <1>1, <1>2, <1>4
  <2>2. CASE k \in DOMAIN msgs
    BY <1>1, <1>4, <2>1, <2>2 DEF MessagesApart
  <2>3. CASE k = Len(msgs) + 1
    BY <1>1, <2>1, <2>3 DEF MessagesApart
  <2>4. QED BY <1>2, <2>2, <2>3
<1>5. QED BY <1>3, <1>4 DEF MessagesApart

LEMMA ApartStep ==
  ASSUME BaseInv, MessagesApart, [Next]_vars
  PROVE  MessagesApart'
<1>1. CASE UNCHANGED <<msgs, nextAt>>
  BY <1>1 DEF MessagesApart
<1>2. CASE \E len \in MsgLengths : PeerSend(len)
  BY <1>2, ApartSend
<1>3. \/ UNCHANGED <<msgs, nextAt>>
      \/ \E len \in MsgLengths : PeerSend(len)
  BY DEF Next, PeerConnect, PeerClose, Owner, InitServer, Start, StopRequest,
    StopJoin, Run, OuterLoop, AcceptClient, AcceptTimeout, ServeLoop, ReadChunk,
    ReadEof, ParseDrop, ParseWhole, ParsePart, FillLoop, FillStopped, FillEof,
    FillMore, FillComplete, vars, peerVars
<1>4. QED BY <1>1, <1>2, <1>3

\* Only the last connection changes, or one is added: what earlier ones cut
\* short stays so, and nothing of it heals.
LEMMA CutConnect ==
  ASSUME ChannelInv, PeerConnect
  PROVE  Cut' = Cut
<1> DEFINE N == Len(conns)
<1>1. /\ N \in Nat /\ DOMAIN conns = 1..N /\ DOMAIN conns' = 1..N + 1
      /\ Len(conns') = N + 1
      /\ \A c \in 1..N : conns'[c] = conns[c]
      /\ conns'[N + 1].from = nextAt
      /\ UNCHANGED msgs
  BY ConnFacts DEF PeerConnect, ChannelInv, BaseInv, TypeOK
<1>2. ASSUME NEW k \in DOMAIN msgs
      PROVE  CutShort(k)' <=> CutShort(k)
  <2> DEFINE a == msgs[k].at
             n == msgs[k].len
  <2>1. a \in Nat /\ n \in Nat /\ n > 0 /\ a + n <= nextAt /\ nextAt \in Nat
    BY MsgsFacts
  <2>2. ASSUME CutShort(k)' PROVE CutShort(k)
    <3>1. PICK c \in 1..N + 1 :
            /\ conns'[c].from <= a /\ conns'[c].upto < a + n
            /\ c < N + 1 => a < conns'[c + 1].from
      BY <1>1, <2>1, <2>2 DEF CutShort
    <3>2. c # N + 1
      BY <1>1, <2>1, <3>1
    <3>3. c \in 1..N /\ (c < N => c + 1 \in 1..N /\ c < N + 1)
      BY <1>1, <3>2
    <3>4. EndsIn(c, a, n)
      BY <1>1, <3>1, <3>3 DEF EndsIn
    <3>5. QED BY <3>3, <3>4, CutIs
  <2>3. ASSUME CutShort(k) PROVE CutShort(k)'
    <3>1. PICK c \in 1..N : EndsIn(c, a, n)
      BY <2>3, CutIs
    <3>2. c < N => c + 1 \in 1..N
      BY <1>1
    <3>3. a < conns'[c + 1].from
      <4>1. CASE c < N
        BY <1>1, <3>1, <3>2, <4>1 DEF EndsIn
      <4>2. CASE c = N
        <5>1. a < nextAt
          BY <2>1
        <5>2. conns'[c + 1].from = nextAt
          BY <1>1, <4>2
        <5>3. QED BY <5>1, <5>2
      <4>3. c < N \/ c = N
        BY <1>1, <3>1, BeforeLast
      <4>4. QED BY <4>1, <4>2, <4>3
    <3>4. c \in DOMAIN conns' /\ conns'[c].from <= a /\ conns'[c].upto < a + n
      BY <1>1, <3>1 DEF EndsIn
    <3>5. QED BY <1>1, <2>1, <3>3, <3>4 DEF CutShort
  <2>4. QED BY <2>2, <2>3
<1>3. QED BY <1>1, <1>2 DEF Cut

\* Only how far the last connection goes changes.
LastMoves ==
  /\ DOMAIN conns' = DOMAIN conns /\ Len(conns') = Len(conns)
  /\ \A c \in 1..Len(conns) : conns'[c].from = conns[c].from
  /\ \A c \in 1..Len(conns) : c # Len(conns) => conns'[c].upto = conns[c].upto

LEMMA EndsInStays ==
  ASSUME LastMoves, Len(conns) \in Nat, NEW a, NEW n,
         NEW c \in 1..Len(conns), c # Len(conns)
  PROVE  EndsIn(c, a, n)' <=> EndsIn(c, a, n)
<1>1. c + 1 \in 1..Len(conns)
  OBVIOUS
<1>2. /\ conns'[c].from = conns[c].from /\ conns'[c].upto = conns[c].upto
      /\ conns'[c + 1].from = conns[c + 1].from /\ Len(conns') = Len(conns)
  BY <1>1 DEF LastMoves
<1>3. QED BY <1>2 DEF EndsIn

\* Then only what that one cuts short can change.
LEMMA CutOfLast ==
  ASSUME ChannelInv, PeerOpen, LastMoves,
         NEW k \in DOMAIN msgs, msgs'[k] = msgs[k]
  PROVE  CutShort(k)' <=>
           \/ CutShort(k)
           \/ /\ Last.from <= msgs[k].at
              /\ conns'[Len(conns)].upto < msgs[k].at + msgs[k].len
<1>1. PICK N \in Nat : N = Len(conns)
  BY ConnFacts DEF ChannelInv
<1>2. N > 0 /\ conns[N].upto = nextAt /\ DOMAIN conns = 1..N
  BY <1>1, ConnFacts DEF ChannelInv, PeerOpen, OpenIsCurrent, Last
<1>3. N \in 1..N /\ ~(N < N)
  BY <1>2
<1>4. PICK a \in Nat, n \in Nat : a = msgs[k].at /\ n = msgs[k].len
  BY MsgsFacts
<1>5. a + n <= nextAt /\ nextAt \in Nat
  BY <1>4, MsgsFacts
<1>6. ~EndsIn(N, a, n)
  <2>1. ~(nextAt < a + n)
    BY <1>5
  <2>2. QED BY <1>2, <2>1 DEF EndsIn
<1>7. CutShort(k) <=> \E c \in 1..N : EndsIn(c, a, n)
  BY <1>1, <1>4, CutIs
<1>8. CutShort(k)' <=> \E c \in 1..N : EndsIn(c, a, n)'
  <2>1. msgs'[k].len = n /\ msgs'[k].at = a
    BY <1>4
  <2>2. DOMAIN conns' = 1..N
    BY <1>2 DEF LastMoves
  <2>3. QED BY <2>1, <2>2 DEF CutShort, EndsIn
<1>9. \A c \in 1..N : c # N => (EndsIn(c, a, n)' <=> EndsIn(c, a, n))
  BY <1>1, EndsInStays
<1>10. EndsIn(N, a, n)' <=> conns[N].from <= a /\ conns'[N].upto < a + n
  <2>1. conns'[N].from = conns[N].from /\ Len(conns') = N
    BY <1>1, <1>3 DEF LastMoves
  <2>2. QED BY <1>3, <2>1 DEF EndsIn
<1>11. CutShort(k)' <=> CutShort(k) \/ EndsIn(N, a, n)'
  BY <1>3, <1>6, <1>7, <1>8, <1>9
<1>12. QED BY <1>1, <1>4, <1>10, <1>11 DEF Last

LEMMA StepConnect ==
  ASSUME ChannelInv, PeerConnect
  PROVE  UNCHANGED <<Len(msgs), Numbers, Cut>>
BY CutConnect DEF PeerConnect, threadVars, frameVars, Numbers, IsMessage

LEMMA StepSend ==
  ASSUME ChannelInv, NEW len \in MsgLengths, PeerSend(len)
  PROVE  /\ Len(msgs') = Len(msgs) + 1
         /\ Numbers' = Numbers
         /\ Cut' = Cut
<1> BaseInv /\ ConnectionsInOrder
  BY DEF ChannelInv
<1> DEFINE N == Len(conns)
           M == Len(msgs)
<1>1. /\ len \in Nat /\ len > 0 /\ nextAt \in Nat /\ nextAt' = nextAt + len
      /\ M \in Nat /\ DOMAIN msgs = 1..M /\ DOMAIN msgs' = 1..M + 1
      /\ Len(msgs') = M + 1
      /\ \A k \in 1..M : msgs'[k] = msgs[k]
      /\ msgs'[M + 1].at = nextAt /\ msgs'[M + 1].len = len
  BY SentMessage
<1>2. UNCHANGED delivered /\ PeerOpen
  BY DEF PeerSend, threadVars, frameVars
<1>3. N \in Nat /\ N > 0 /\ DOMAIN conns = 1..N
  BY <1>2, ConnOrderFacts DEF PeerOpen
<1>4. LastMoves /\ conns'[N].upto = nextAt + len
  BY <1>1, <1>3 DEF PeerSend, LastMoves, BaseInv, TypeOK
<1>5. Numbers' = Numbers
  <2>1. ASSUME NEW i \in DOMAIN delivered PROVE Numbers'[i] = Numbers[i]
    <3>1. Numbers[i] \in DOMAIN msgs /\ IsMessage(delivered[i], Numbers[i])
      BY EveryNumber DEF ChannelInv
    <3>2. Numbers[i] \in DOMAIN msgs' /\ msgs'[Numbers[i]] = msgs[Numbers[i]]
      BY <1>1, <3>1
    <3>3. QED BY <1>2, <3>1, <3>2, ApartNext, NumberIsNext DEF IsMessage
  <2>2. /\ Numbers = [i \in DOMAIN delivered |-> Numbers[i]]
        /\ Numbers' = [i \in DOMAIN delivered |-> Numbers'[i]]
    BY <1>2 DEF Numbers
  <2>3. QED BY <2>1, <2>2
<1>6. Cut' = Cut
  <2> PICK m \in Nat : m = M + 1
    BY <1>1
  <2>1. ASSUME NEW k \in 1..M PROVE CutShort(k)' <=> CutShort(k)
    <3>1. /\ msgs[k].at \in Nat /\ msgs[k].len \in Nat
          /\ msgs[k].at + msgs[k].len <= nextAt /\ k \in DOMAIN msgs
      BY <1>1, MsgsFacts
    <3>2. ~(conns'[N].upto < msgs[k].at + msgs[k].len)
      <4>1. ~(nextAt + len < msgs[k].at + msgs[k].len)
        BY <1>1, <3>1
      <4>2. QED BY <1>4, <4>1
    <3>3. QED BY <1>1, <1>2, <1>4, <3>1, <3>2, CutOfLast
  <2>2. ~CutShort(m)'
    <3>1. PICK a \in Nat : a = nextAt
      BY <1>1
    <3>2. SUFFICES ASSUME NEW c \in 1..N, EndsIn(c, a, len)' PROVE FALSE
      <4>1. msgs'[m].at = a /\ msgs'[m].len = len
        BY <1>1, <3>1
      <4>2. DOMAIN conns' = 1..N
        BY <1>3, <1>4 DEF LastMoves
      <4>3. QED BY <4>1, <4>2 DEF CutShort, EndsIn
    <3>3. c \in 1..N
      BY <3>2
    <3>4. CASE c = N
      <4>1. ~(a + len < a + len)
        BY <1>1, <3>1
      <4>2. QED BY <1>4, <3>1, <3>2, <3>4, <4>1 DEF EndsIn
    <3>5. CASE c # N
      <4>1. c < N /\ c + 1 \in 1..N
        BY <1>3, <3>3, <3>5, BeforeLast
      <4>2. PICK f \in Nat : f = conns[c + 1].from /\ f <= nextAt
        <5>1. /\ conns[c + 1].from \in Nat /\ conns[c + 1].upto \in Nat
              /\ conns[c + 1].from <= conns[c + 1].upto
              /\ conns[c + 1].upto <= nextAt
          BY <4>1, ConnOrderFacts
        <5>2. QED BY <1>1, <5>1
      <4>3. EndsIn(c, a, len)
        BY <1>3, <1>4, <3>2, <3>5, EndsInStays
      <4>4. a < f
        BY <4>1, <4>2, <4>3 DEF EndsIn
      <4>5. QED BY <3>1, <4>2, <4>4
    <3>6. QED BY <3>4, <3>5
  <2>3. \A k \in 1..m : k \in 1..M \/ k = m
    BY <1>1
  <2>4. \A k \in 1..M : k \in 1..m
    BY <1>1
  <2>5. (\A k : k \in Cut' <=> k \in 1..m /\ CutShort(k)')
        /\ (\A k : k \in Cut <=> k \in 1..M /\ CutShort(k))
    BY <1>1 DEF Cut
  <2>6. QED BY <2>1, <2>2, <2>3, <2>4, <2>5
<1>7. QED BY <1>1, <1>5, <1>6

\* A message that the end of the last connection cuts short was not handed
\* over.
LEMMA CutIsUnread ==
  ASSUME ChannelInv, Len(conns) > 0, NEW k \in DOMAIN msgs,
         NEW u \in Nat, cur = Len(conns) => readPos <= u,
         Last.from <= msgs[k].at, u < msgs[k].at + msgs[k].len
  PROVE  \A i \in DOMAIN delivered : Numbers[i] # k
<1> BaseInv /\ ConnectionsInOrder
  BY DEF ChannelInv
<1> PICK a \in Nat, n \in Nat : a = msgs[k].at /\ n = msgs[k].len /\ n > 0
  BY MsgsFacts
<1> PICK F \in Nat : F = Last.from
  <2>1. Len(conns) \in 1..Len(conns)
    BY ConnOrderFacts
  <2>2. QED BY <2>1, ConnOrderFacts DEF Last
<1>1. a = msgs[k].at /\ n = msgs[k].len /\ F = Last.from
  OBVIOUS
<1>2. F <= a /\ u < a + n
  BY <1>1, MsgsFacts
<1>3. ASSUME NEW i \in DOMAIN delivered, Numbers[i] = k PROVE FALSE
  <2>1. a + n <= readPos /\ readPos \in Nat
    <3>1. msgs[Numbers[i]].at + msgs[Numbers[i]].len <= readPos
      BY EveryNumber DEF ChannelInv
    <3>2. QED BY <1>1, <1>3, <3>1, ConnOrderFacts
  <2>2. CASE cur = Len(conns)
    BY <1>2, <2>1, <2>2
  <2>3. CASE cur = 0
    <3>1. readPos = 0
      BY <2>3 DEF ConnectionsInOrder
    <3>2. QED BY <1>2, <2>1, <3>1
  <2>4. CASE cur # 0 /\ cur # Len(conns)
    <3>1. /\ cur \in 1..Len(conns) /\ Len(conns) \in 1..Len(conns)
          /\ cur < Len(conns)
      BY <2>4, ConnOrderFacts
    <3>2. PICK v \in Nat : v = conns[cur].upto
      BY <3>1, ConnOrderFacts
    <3>3. readPos <= v
      BY <2>4, <3>1, <3>2, ConnOrderFacts DEF ConnectionsInOrder
    <3>4. v <= F
      BY <1>1, <3>1, <3>2, ConnOrderFacts DEF Last
    <3>5. QED BY <1>2, <2>1, <3>3, <3>4
  <2>5. QED BY <2>2, <2>3, <2>4
<1>4. QED BY <1>3

\* Where the simulator may end its last connection.
LEMMA CutPoint ==
  ASSUME BaseInv, ConnectionsInOrder, Len(conns) > 0
  PROVE  /\ Last.from \in Nat /\ Last.upto \in Nat /\ LastWrite \in Nat
         /\ Last.from <= LastWrite
<1>1. Last.from \in Nat /\ Last.upto \in Nat
  BY ConnOrderFacts DEF Last
<1>2. Len(msgs) > 0 => msgs[Len(msgs)].at \in Nat
  BY MsgType DEF BaseInv, TypeOK
<1>3. QED BY <1>1, <1>2 DEF LastWrite, BaseInv, TypeOK

\* Messages that the channel cuts off: from one on all, and none handed over.
CutTail(ks) ==
  /\ ks \subseteq DOMAIN msgs
  /\ \A k \in ks : \A j \in k..Len(msgs) : j \in ks
  /\ \A k \in ks : \A i \in DOMAIN delivered : Numbers[i] # k

\* When the last connection ends at u, it cuts off the messages that reach
\* further.
LEMMA CutGrows ==
  ASSUME ChannelInv, Len(conns) > 0, UNCHANGED <<msgs, delivered>>,
         NEW u \in Last.from..Last.upto, cur = Len(conns) => u >= readPos,
         \A k \in DOMAIN msgs :
           CutShort(k)' <=>
             \/ CutShort(k)
             \/ Last.from <= msgs[k].at /\ u < msgs[k].at + msgs[k].len
  PROVE  /\ UNCHANGED <<msgs, Numbers>>
         /\ \E ks : CutTail(ks) /\ Cut' = Cut \cup ks
<1> DEFINE Reaches(k) == Last.from <= msgs[k].at /\ u < msgs[k].at + msgs[k].len
           ks == {k \in DOMAIN msgs : Reaches(k)}
<1> BaseInv /\ ConnectionsInOrder
  BY DEF ChannelInv
<1>1. UNCHANGED <<msgs, Numbers>>
  BY DEF Numbers, IsMessage
<1>2. u \in Nat /\ Last.from \in Nat
  BY CutPoint
<1>3. cur = Len(conns) => readPos <= u
  BY <1>2, ConnOrderFacts
<1>4. ASSUME NEW k \in DOMAIN msgs, Reaches(k)
      PROVE  \A i \in DOMAIN delivered : Numbers[i] # k
  BY <1>2, <1>3, <1>4, CutIsUnread
<1>5. ASSUME NEW k \in DOMAIN msgs, Reaches(k), NEW j \in k..Len(msgs)
      PROVE  j \in DOMAIN msgs /\ Reaches(j)
  <2>1. j \in DOMAIN msgs /\ (j = k \/ k < j)
    BY <1>5, MsgsFacts
  <2>2. CASE j = k
    BY <1>5, <2>2
  <2>3. CASE k < j
    <3>1. PICK a \in Nat, n \in Nat : a = msgs[k].at /\ n = msgs[k].len
      BY MsgsFacts
    <3>2. PICK b \in Nat, m \in Nat : b = msgs[j].at /\ m = msgs[j].len
      BY <2>1, MsgsFacts
    <3>3. a + n <= b
      BY <2>1, <2>3, <3>1, <3>2, MsgsFacts
    <3>4. Last.from <= b /\ u < b + m
      BY <1>2, <1>5, <3>1, <3>3
    <3>5. QED BY <2>1, <3>2, <3>4
  <2>4. QED BY <2>1, <2>2, <2>3
<1>6. CutTail(ks)
  BY <1>4, <1>5 DEF CutTail
<1>7. Cut' = Cut \cup ks
  BY <1>1 DEF Cut
<1>8. QED BY <1>1, <1>6, <1>7

LEMMA CloseMoves ==
  ASSUME BaseInv, PeerClose
  PROVE  /\ Len(conns) \in Nat /\ Len(conns) > 0 /\ Len(conns) \in 1..Len(conns)
         /\ LastMoves /\ UNCHANGED <<msgs, nextAt, ownerVars, threadVars>>
         /\ \E u \in LastWrite..Last.upto :
              /\ cur = Len(conns) => u >= readPos
              /\ conns'[Len(conns)].upto = u
<1>1. /\ Len(conns) \in Nat /\ Len(conns) > 0 /\ Len(conns) \in 1..Len(conns)
      /\ DOMAIN conns = 1..Len(conns)
  BY ConnFacts DEF PeerClose, PeerOpen
<1>2. PICK u \in LastWrite..Last.upto :
        /\ cur = Len(conns) => u >= readPos
        /\ conns' = [conns EXCEPT ![Len(conns)].upto = u,
                                  ![Len(conns)].open = FALSE]
  BY DEF PeerClose
<1>3. \A c \in 1..Len(conns) :
        conns[c] \in [from : Nat, upto : Nat, open : BOOLEAN]
  BY ConnType DEF BaseInv
<1>4. /\ DOMAIN conns' = DOMAIN conns /\ Len(conns') = Len(conns)
      /\ \A c \in 1..Len(conns) : c # Len(conns) => conns'[c] = conns[c]
  BY <1>1, <1>2 DEF BaseInv, TypeOK
<1>5. /\ conns'[Len(conns)].upto = u
      /\ conns'[Len(conns)].from = conns[Len(conns)].from
  BY <1>1, <1>2, <1>3
<1>6. LastMoves
  BY <1>1, <1>4, <1>5 DEF LastMoves
<1>7. UNCHANGED <<msgs, nextAt, ownerVars, threadVars>>
  BY DEF PeerClose
<1>8. QED BY <1>1, <1>2, <1>5, <1>6, <1>7

LEMMA StepClose ==
  ASSUME ChannelInv, PeerClose
  PROVE  /\ UNCHANGED <<msgs, Numbers>>
         /\ \E ks : CutTail(ks) /\ Cut' = Cut \cup ks
<1>1. UNCHANGED <<msgs, delivered>> /\ PeerOpen
  BY DEF PeerClose, threadVars, frameVars
<1>2. Len(conns) > 0 /\ LastMoves
  BY CloseMoves DEF ChannelInv
<1>3. PICK u \in LastWrite..Last.upto :
        /\ cur = Len(conns) => u >= readPos
        /\ conns'[Len(conns)].upto = u
  BY CloseMoves DEF ChannelInv
<1>4. \A k \in DOMAIN msgs :
        CutShort(k)' <=>
          \/ CutShort(k)
          \/ Last.from <= msgs[k].at /\ u < msgs[k].at + msgs[k].len
  BY <1>1, <1>2, <1>3, CutOfLast
<1>5. u \in Last.from..Last.upto
  BY <1>2, <1>3, CutPoint DEF ChannelInv
<1>6. QED BY <1>1, <1>2, <1>3, <1>4, <1>5, CutGrows

-----------------------------------------------------------------------------
(* The thread's steps                                                      *)

LEMMA AppendIs ==
  ASSUME NEW n \in Nat, NEW s \in Seq(Nat), Len(s) = n, NEW e \in Nat, NEW t,
         t = [i \in 1..n + 1 |-> t[i]], t[n + 1] = e,
         \A i \in 1..n : t[i] = s[i]
  PROVE  t = Append(s, e)
<1> DEFINE A == Append(s, e)
<1>1. A \in Seq(Nat) /\ Len(A) = n + 1 /\ A[n + 1] = e /\ \A i \in 1..n : A[i] = s[i]
  BY AppendProperties
<1> HIDE DEF A
<1>2. A = [i \in 1..n + 1 |-> A[i]]
  <2>1. A \in [1..Len(A) -> Nat]
    BY <1>1, LenProperties
  <2>2. A \in [1..n + 1 -> Nat]
    BY <1>1, <2>1
  <2>3. QED BY <2>2
<1>3. \A i \in 1..n + 1 : i = n + 1 \/ i \in 1..n
  OBVIOUS
<1>4. \A i \in 1..n + 1 : t[i] = A[i]
  BY <1>1, <1>3
<1>5. [i \in 1..n + 1 |-> t[i]] = [i \in 1..n + 1 |-> A[i]]
  BY <1>4
<1>6. QED BY <1>2, <1>5 DEF A

\* The messages handed over are a sequence of frames.
LEMMA DeliveredFacts ==
  ASSUME TypeOK
  PROVE  \E n \in Nat : n = Len(delivered) /\ DOMAIN delivered = 1..n
<1>1. delivered \in Seq(Frame)
  BY DEF TypeOK
<1>2. Len(delivered) \in Nat /\ DOMAIN delivered = 1..Len(delivered)
  BY <1>1
<1>3. QED BY <1>2

\* The message behind a frame is whole, and after all handed over before.
LEMMA StepHandOver ==
  ASSUME ChannelInv, UNCHANGED <<conns, msgs>>, cur > 0,
         NEW k \in DOMAIN msgs, WholeBelow(msgs[k].at),
         conns[cur].from <= msgs[k].at,
         msgs[k].at + msgs[k].len <= conns[cur].upto,
         delivered' = Append(delivered, Cells(msgs[k].at, msgs[k].len))
  PROVE  /\ \A i \in DOMAIN delivered : Numbers[i] < k
         /\ k \in 1..Len(msgs) /\ k \notin Cut
         /\ Numbers' = Append(Numbers, k)
         /\ UNCHANGED Cut
<1> BaseInv /\ ConnectionsInOrder
  BY DEF ChannelInv
<1>1. k \in 1..Len(msgs) /\ Len(msgs) \in Nat /\ k \in Nat
  BY MsgsFacts
<1>2. ASSUME NEW i \in DOMAIN delivered PROVE Numbers[i] < k
  <2>1. PICK j \in DOMAIN msgs :
          j = Numbers[i] /\ msgs[j].at + msgs[j].len <= msgs[k].at
    BY EveryNumber
  <2>2. msgs[j].at < msgs[k].at
    <3>1. /\ msgs[j].at \in Nat /\ msgs[j].len \in Nat /\ msgs[j].len > 0
          /\ msgs[k].at \in Nat
      BY MsgsFacts
    <3>2. QED BY <2>1, <3>1
  <2>3. QED BY <2>1, <2>2, WrittenInOrder
<1>3. k \notin Cut
  <2>1. cur \in 1..Len(conns)
    BY ConnOrderFacts
  <2>2. ~CutShort(k)
    BY <2>1, WholeNotCut
  <2>3. QED BY <2>2 DEF Cut
<1>4. Numbers' = Append(Numbers, k)
  <2>1. PICK n \in Nat : n = Len(delivered) /\ DOMAIN delivered = 1..n
    BY DeliveredFacts DEF BaseInv
  <2>2. /\ DOMAIN delivered' = 1..n + 1
        /\ delivered'[n + 1] = Cells(msgs[k].at, msgs[k].len)
        /\ \A i \in 1..n : delivered'[i] = delivered[i]
    BY <2>1 DEF BaseInv, TypeOK
  <2>3. Apart(msgs')
    BY ApartNow
  <2>4. Numbers'[n + 1] = k
    <3>1. n + 1 \in DOMAIN delivered'
      BY <2>1, <2>2
    <3>2. delivered'[n + 1] = Cells(msgs'[k].at, msgs'[k].len) /\ k \in DOMAIN msgs'
      BY <2>2
    <3>3. QED BY <2>3, <3>1, <3>2, NumberIsNext
  <2>5. ASSUME NEW i \in 1..n PROVE Numbers'[i] = Numbers[i]
    <3>1. i \in DOMAIN delivered /\ i \in DOMAIN delivered'
      BY <2>1, <2>2
    <3>2. Numbers[i] \in DOMAIN msgs /\ IsMessage(delivered[i], Numbers[i])
      BY <3>1, EveryNumber
    <3>3. QED BY <2>2, <2>3, <3>1, <3>2, NumberIsNext DEF IsMessage
  <2>6. /\ Numbers = [i \in 1..n |-> Numbers[i]]
        /\ Numbers' = [i \in 1..n + 1 |-> Numbers'[i]]
    BY <2>1, <2>2 DEF Numbers
  <2>7. Numbers \in Seq(Nat) /\ Len(Numbers) = n
    <3>1. \A i \in 1..n : Numbers[i] \in Nat
      BY <2>1, EveryNumber, MsgsFacts
    <3>2. Numbers \in [1..n -> Nat]
      BY <2>6, <3>1, Zenon
    <3>3. QED BY <2>1, <3>2
  <2>8. QED BY <1>1, <2>4, <2>5, <2>6, <2>7, AppendIs
<1>5. UNCHANGED Cut
  BY DEF Cut, CutShort
<1>6. QED BY <1>1, <1>2, <1>3, <1>4, <1>5

LEMMA HandedOverIs == Channel!HandedOver = {Numbers[i] : i \in DOMAIN delivered}
<1>1. DOMAIN Numbers = DOMAIN delivered
  BY DEF Numbers
<1>2. QED BY <1>1 DEF Channel!HandedOver

\* The end of a connection, seen or unseen, is a step of the channel.
LEMMA EndIsCutOff ==
  ASSUME BaseInv, UNCHANGED <<msgs, Numbers>>, NEW ks, CutTail(ks), Cut' = Cut \cup ks
  PROVE  Channel!CutOff
<1> USE DEF Cut
<1>1. DOMAIN msgs = 1..Len(msgs)
  BY MsgsFacts
<1>2. ks \in SUBSET (1..Len(msgs))
  BY <1>1 DEF CutTail
<1>3. ASSUME NEW k \in ks
      PROVE  k..Len(msgs) \subseteq ks \ Channel!HandedOver
  BY <1>3, HandedOverIs DEF CutTail
<1>4. QED BY <1>2, <1>3 DEF Channel!CutOff

\* Every step that hands over nothing is a step of every channel, or changes
\* nothing of it.
LEMMA QuietStep ==
  ASSUME ChannelInv, [Next]_vars, ~ParseWhole, ~FillComplete
  PROVE  Channel!Send \/ Channel!CutOff \/ UNCHANGED Channel!vars
<1> USE DEF Cut
<1>1. ASSUME UNCHANGED <<conns, msgs, delivered>>
      PROVE  UNCHANGED Channel!vars
  <2>1. UNCHANGED <<Len(msgs), Numbers, Cut>>
    BY <1>1 DEF Numbers, IsMessage, CutShort
  <2>2. QED BY <2>1 DEF Channel!vars
<1>2. CASE PeerConnect
  <2>1. UNCHANGED <<Len(msgs), Numbers, Cut>>
    BY <1>2, StepConnect
  <2>2. QED BY <2>1 DEF Channel!vars
<1>3. CASE \E len \in MsgLengths : PeerSend(len)
  BY <1>3, StepSend DEF Channel!Send
<1>4. CASE PeerClose
  BY <1>4, StepClose, EndIsCutOff DEF ChannelInv
<1>5. CASE Owner \/ Run \/ UNCHANGED vars
  <2>1. UNCHANGED <<conns, msgs, delivered>>
    BY <1>5 DEF Owner, InitServer, Start, StopRequest, StopJoin, Run, OuterLoop,
      AcceptClient, AcceptTimeout, ServeLoop, ReadChunk, ReadEof, ParseDrop,
      ParsePart, FillLoop, FillStopped, FillEof, FillAbandon, FillMore,
      peerVars, frameVars, threadVars, vars
  <2>2. QED BY <1>1, <2>1
<1>6. QED BY <1>2, <1>3, <1>4, <1>5 DEF Next

LEMMA ChannelInit == Init => Channel!Init
<1>1. Init => Len(msgs) = 0 /\ Numbers = <<>>
  BY DEF Init, Numbers
<1>2. Init => {k \in DOMAIN msgs : CutShort(k)} = {}
  BY DEF Init
<1>3. QED BY <1>1, <1>2 DEF Channel!Init

-----------------------------------------------------------------------------
(* Paced writes                                                            *)

LEMMA PacedIsNext == PacedNext => Next
BY DEF PacedNext, PacedSend, Next

\* What every step of a paced run starts from.
LEMMA PacedFacts ==
  ASSUME PacedInv
  PROVE  /\ BaseInv /\ ConnectionsInOrder /\ SegmentInv /\ ChannelInv
         /\ InHand \in Nat /\ InHand <= readPos /\ readPos \in Nat
<1>1. BaseInv /\ TypeOK /\ ConnectionsInOrder /\ SegmentInv /\ OpenIsCurrent
      /\ MessagesApart
  BY DEF PacedInv, BaseInv
<1>2. readPos \in Nat /\ InHand \in Nat /\ InHand <= readPos
  <2>1. CASE pc = "parse"
    BY <1>1, <2>1, ParseInside DEF InHand, TypeOK
  <2>2. CASE Filling
    <3>1. pc # "parse"
      BY <2>2 DEF Filling
    <3>2. QED BY <1>1, <2>2, <3>1, FillInside DEF InHand
  <2>3. CASE pc # "parse" /\ ~Filling
    BY <1>1, <2>3 DEF InHand, TypeOK
  <2>4. QED BY <2>1, <2>2, <2>3
<1>3. WholeBelow(readPos)
  <2>1. SUFFICES ASSUME NEW i \in DOMAIN delivered
                 PROVE  \E k \in DOMAIN msgs :
                          /\ IsMessage(delivered[i], k)
                          /\ msgs[k].at + msgs[k].len <= readPos
    BY DEF WholeBelow
  <2>2. PICK k \in DOMAIN msgs :
          IsMessage(delivered[i], k) /\ msgs[k].at + msgs[k].len <= InHand
    BY DEF PacedInv, DoneSoFar, WholeBelow
  <2>3. msgs[k].at \in Nat /\ msgs[k].len \in Nat
    BY <1>1, MsgType
  <2>4. QED BY <1>2, <2>2, <2>3
<1>4. QED BY <1>1, <1>2, <1>3 DEF ChannelInv

\* Once told to stop, a thread that is in no message never gets into one.
LEMMA EndingStays ==
  ASSUME BaseInv, Ending, [Next]_vars
  PROVE  Ending'
<1>1. ~running /\ pc \in {"loop", "accept", "serve", "exited"} /\ ~Start
  BY DEF Ending, Start, BaseInv, OwnerThread
<1>2. CASE UNCHANGED <<pc, running>>
  BY <1>1, <1>2 DEF Ending
<1>3. CASE PeerConnect \/ PeerClose \/ (\E len \in MsgLengths : PeerSend(len))
             \/ UNCHANGED vars
  BY <1>2, <1>3 DEF PeerConnect, PeerClose, PeerSend, vars, ownerVars, threadVars
<1>4. CASE Owner
  BY <1>1, <1>2, <1>4 DEF Owner, InitServer, StopRequest, StopJoin, threadVars
<1>5. CASE Run
  BY <1>1, <1>5 DEF Run, OuterLoop, AcceptClient, AcceptTimeout, ServeLoop,
    ReadChunk, ReadEof, ParseDrop, ParseWhole, ParsePart, FillLoop, FillStopped,
    FillEof, FillMore, FillComplete, ownerVars, Ending
<1>6. QED BY <1>3, <1>4, <1>5 DEF Next

\* When message k is in D with all before it, so are all that begin before
\* the end of k.
LEMMA UpToTheEnd ==
  ASSUME ChannelInv, NEW D, NEW k \in DOMAIN msgs, k \in D,
         \A j \in DOMAIN msgs : msgs[j].at < msgs[k].at => j \in D,
         NEW b \in Nat, b <= msgs[k].at + msgs[k].len
  PROVE  \A j \in DOMAIN msgs : msgs[j].at < b => j \in D
<1>1. SUFFICES ASSUME NEW j \in DOMAIN msgs, msgs[j].at < b, j \notin D
               PROVE  FALSE
  OBVIOUS
<1>2. /\ msgs[j].at \in Nat /\ msgs[k].at \in Nat /\ msgs[k].len \in Nat
  BY MsgsFacts
<1>3. msgs[j].at # msgs[k].at
  BY <1>1, ApartNow DEF Apart
<1>4. msgs[k].at < msgs[j].at
  BY <1>1, <1>2, <1>3
<1>5. msgs[k].at + msgs[k].len <= msgs[j].at
  BY <1>4, WrittenInOrder
<1>6. QED BY <1>1, <1>2, <1>5

\* A step of the thread that hands over nothing keeps what lies behind it in
\* order, when it leaves behind only messages that are dealt with.
LEMMA DoneQuiet ==
  ASSUME PacedInv, UNCHANGED <<conns, msgs, delivered>>,
         NEW a \in Nat, InHand' = a, InHand <= a,
         ~Ending' => \A k \in DOMAIN msgs : msgs[k].at < a => Dealt(k)
  PROVE  DoneSoFar'
<1>1. WholeBelow(a)
  BY PacedFacts, WholeBelowGrows DEF PacedInv, DoneSoFar
<1>2. WholeBelow(InHand)'
  BY <1>1 DEF WholeBelow, IsMessage
<1>3. SentOverConnections'
  BY DEF PacedInv, DoneSoFar, SentOverConnections
<1>4. EarlierDealt'
  BY DEF EarlierDealt, Dealt, CutShort, IsMessage
<1>5. QED BY <1>2, <1>3, <1>4 DEF DoneSoFar

\* Nothing is left behind by a step that stays where it is.
LEMMA DoneKept ==
  ASSUME PacedInv, [Next]_vars, UNCHANGED <<conns, msgs, delivered>>, InHand' = InHand
  PROVE  DoneSoFar'
<1>1. ~Ending' => ~Ending
  BY EndingStays, PacedFacts
<1>2. InHand \in Nat
  BY PacedFacts
<1>3. ~Ending' => \A k \in DOMAIN msgs : msgs[k].at < InHand => Dealt(k)
  BY <1>1 DEF PacedInv, DoneSoFar, EarlierDealt
<1>4. QED BY <1>2, <1>3, DoneQuiet

\* The message in hand is handed over.
LEMMA DoneHandOver ==
  ASSUME PacedInv, ~Ending, UNCHANGED <<conns, msgs>>,
         NEW k \in DOMAIN msgs, msgs[k].at = InHand,
         InHand' = msgs[k].at + msgs[k].len,
         delivered' = Append(delivered, Cells(msgs[k].at, msgs[k].len))
  PROVE  DoneSoFar'
<1>1. PICK n \in Nat : n = Len(delivered) /\ DOMAIN delivered = 1..n
  BY DeliveredFacts DEF PacedInv, BaseInv
<1>2. /\ DOMAIN delivered' = 1..n + 1
      /\ delivered'[n + 1] = Cells(msgs[k].at, msgs[k].len)
      /\ \A i \in 1..n : delivered'[i] = delivered[i]
  BY <1>1 DEF PacedInv, BaseInv, TypeOK
<1>3. \A i \in 1..n + 1 : i = n + 1 \/ i \in 1..n
  OBVIOUS
<1>4. n + 1 \in 1..n + 1 /\ \A i \in 1..n : i \in 1..n + 1
  OBVIOUS
<1>5. PICK b \in Nat : b = msgs[k].at + msgs[k].len /\ InHand <= b
  BY PacedFacts, MsgsFacts
<1>6. WholeBelow(InHand)'
  <2>1. WholeBelow(b)
    BY <1>5, PacedFacts, WholeBelowGrows DEF PacedInv, DoneSoFar
  <2>2. ASSUME NEW i \in 1..n + 1
        PROVE  \E j \in DOMAIN msgs :
                 /\ delivered'[i] = Cells(msgs[j].at, msgs[j].len)
                 /\ msgs[j].at + msgs[j].len <= b
    <3>1. CASE i = n + 1
      BY <1>2, <1>5, <3>1
    <3>2. CASE i \in 1..n
      BY <1>1, <1>2, <2>1, <3>2 DEF WholeBelow, IsMessage
    <3>3. QED BY <1>3, <3>1, <3>2
  <2>3. QED BY <1>2, <1>5, <2>2 DEF WholeBelow, IsMessage
<1>7. SentOverConnections'
  BY DEF PacedInv, DoneSoFar, SentOverConnections
<1>8. EarlierDealt'
  <2> DEFINE D == {j \in DOMAIN msgs : Dealt(j)'}
  <2>1. \A j \in DOMAIN msgs : Dealt(j) => j \in D
    BY <1>1, <1>2, <1>4 DEF Dealt, CutShort, IsMessage
  <2>2. k \in D
    BY <1>2, <1>4 DEF Dealt, IsMessage
  <2>3. \A j \in DOMAIN msgs : msgs[j].at < msgs[k].at => j \in D
    BY <2>1 DEF PacedInv, DoneSoFar, EarlierDealt
  <2> HIDE DEF D
  <2>4. \A j \in DOMAIN msgs : msgs[j].at < b => j \in D
    <3>1. ChannelInv
      BY PacedFacts
    <3>2. b <= msgs[k].at + msgs[k].len
      BY <1>5
    <3>3. QED BY <2>2, <2>3, <3>1, <3>2, UpToTheEnd
  <2>5. QED BY <1>5, <2>4 DEF D, EarlierDealt
<1>9. QED BY <1>6, <1>7, <1>8 DEF DoneSoFar

LEMMA PacedConnect ==
  ASSUME PacedInv, PeerConnect
  PROVE  DoneSoFar' /\ StillAhead'
<1> BaseInv /\ ConnectionsInOrder /\ ChannelInv
  BY PacedFacts
<1>1. PICK N \in Nat : N = Len(conns)
  BY ConnOrderFacts
<1>2. /\ DOMAIN conns = 1..N /\ DOMAIN conns' = 1..N + 1 /\ Len(conns') = N + 1
      /\ \A c \in 1..N : conns'[c] = conns[c]
      /\ conns'[N + 1] = [from |-> nextAt, upto |-> nextAt, open |-> TRUE]
      /\ UNCHANGED <<msgs, ownerVars, threadVars>>
  BY <1>1, ConnFacts DEF PeerConnect, BaseInv, TypeOK
<1>3. InHand' = InHand /\ Ending' = Ending /\ Serving' = Serving /\ Filling' = Filling
      /\ UNCHANGED <<pc, cur, readPos, saved, received, frame, hdrLen, delivered>>
  BY <1>2 DEF InHand, CopyFrom, Ending, Serving, Filling, ownerVars, threadVars,
    bufVars, frameVars
<1>4. cur \in Nat /\ cur <= N /\ (cur > 0 => conns'[cur] = conns[cur])
  BY <1>1, <1>2, ConnOrderFacts
<1>5. DoneSoFar'
  <2>1. WholeBelow(InHand)'
    BY <1>2, <1>3 DEF PacedInv, DoneSoFar, WholeBelow, IsMessage
  <2>2. SentOverConnections'
    BY <1>1, <1>2 DEF PacedInv, DoneSoFar, SentOverConnections
  <2>3. \A k \in DOMAIN msgs : CutShort(k)' <=> CutShort(k)
    <3>1. Cut' = Cut
      BY CutConnect
    <3>2. QED BY <1>2, <3>1 DEF Cut
  <2>4. EarlierDealt'
    BY <1>2, <1>3, <2>3 DEF PacedInv, DoneSoFar, EarlierDealt, Dealt, IsMessage
  <2>5. QED BY <2>1, <2>2, <2>4 DEF DoneSoFar
<1>6. AtMostOneUnread'
  <2>1. \A c \in cur + 1..N + 1 : c \in cur + 1..N \/ c = N + 1
    BY <1>4
  <2>2. \A c \in cur + 1..N : c \in 1..N
    BY <1>4
  <2>3. \A c \in cur + 1..N + 1 : OneMessageIn(conns[c].from, conns[c].upto)'
    BY <1>1, <1>2, <2>1, <2>2 DEF PacedInv, StillAhead, AtMostOneUnread, OneMessageIn
  <2>4. (Serving /\ ~Ending => OneMessageIn(InHand, conns[cur].upto))'
    <3>1. Serving => cur > 0
      BY DEF BaseInv, FillIsPartial
    <3>2. QED BY <1>2, <1>3, <1>4, <3>1
            DEF PacedInv, StillAhead, AtMostOneUnread, OneMessageIn
  <2>5. QED BY <1>2, <1>3, <1>4, <2>3, <2>4 DEF PacedInv, StillAhead, AtMostOneUnread
<1>7. ParseWholeHeader' /\ FillOneMessage'
  <2>1. pc = "parse" => cur > 0
    BY DEF BaseInv, FillIsPartial, Serving
  <2>2. QED BY <1>2, <1>3, <1>4, <2>1
          DEF PacedInv, StillAhead, ParseWholeHeader, FillOneMessage
<1>8. QED BY <1>5, <1>6, <1>7 DEF StillAhead

\* The connection that is closed ends behind what the thread has read, and
\* in or behind the last message on it.
LEMMA PacedClose ==
  ASSUME PacedInv, PeerClose
  PROVE  DoneSoFar' /\ StillAhead'
<1> BaseInv /\ ConnectionsInOrder /\ ChannelInv
  BY PacedFacts
<1>1. PICK N \in Nat : N = Len(conns) /\ N > 0 /\ N \in 1..N
  BY CloseMoves
<1>2. LastMoves /\ UNCHANGED <<msgs, nextAt, ownerVars, threadVars>>
  BY CloseMoves
<1>3. PICK u \in LastWrite..Last.upto :
        /\ cur = Len(conns) => u >= readPos
        /\ conns'[Len(conns)].upto = u
  BY CloseMoves
<1>4. /\ u \in Nat /\ Last.from <= u /\ u <= Last.upto
      /\ Last.from \in Nat /\ Last.upto \in Nat /\ Last = conns[N]
  BY <1>1, CutPoint DEF Last
<1>5. InHand' = InHand /\ Ending' = Ending /\ Serving' = Serving /\ Filling' = Filling
      /\ UNCHANGED <<pc, cur, readPos, saved, received, frame, hdrLen, delivered>>
  BY <1>2 DEF InHand, CopyFrom, Ending, Serving, Filling, ownerVars, threadVars,
    bufVars, frameVars
<1>6. /\ cur \in Nat /\ cur <= N /\ readPos \in Nat /\ InHand \in Nat
      /\ InHand <= readPos
  BY <1>1, ConnOrderFacts, PacedFacts
<1>7. /\ Len(conns') = N /\ \A c \in 1..N : conns'[c].from = conns[c].from
      /\ \A c \in 1..N : c # N => conns'[c].upto = conns[c].upto
  BY <1>1, <1>2 DEF LastMoves
<1>8. DoneSoFar'
  <2>1. WholeBelow(InHand)'
    BY <1>2, <1>5 DEF PacedInv, DoneSoFar, WholeBelow, IsMessage
  <2>2. SentOverConnections'
    <3>1. 1 \in 1..N
      BY <1>1
    <3>2. QED BY <1>1, <1>2, <1>7, <3>1 DEF PacedInv, DoneSoFar, SentOverConnections
  <2>3. ASSUME NEW k \in DOMAIN msgs, CutShort(k) PROVE CutShort(k)'
    BY <1>2, <2>3, CutOfLast DEF PeerClose
  <2>4. EarlierDealt'
    BY <1>2, <1>5, <2>3 DEF PacedInv, DoneSoFar, EarlierDealt, Dealt, IsMessage
  <2>5. QED BY <2>1, <2>2, <2>4 DEF DoneSoFar
<1>9. AtMostOneUnread'
  <2>1. ASSUME NEW c \in cur + 1..N PROVE OneMessageIn(conns[c].from, conns[c].upto)'
    <3>1. c \in 1..N /\ OneMessageIn(conns[c].from, conns[c].upto)
      BY <1>1, <1>6, <2>1 DEF PacedInv, StillAhead, AtMostOneUnread
    <3>2. CASE c # N
      BY <1>2, <1>7, <3>1, <3>2 DEF OneMessageIn
    <3>3. CASE c = N
      <4>1. CASE conns[N].from = conns[N].upto
        <5>1. u = conns[N].from
          BY <1>4, <4>1
        <5>2. QED BY <1>1, <1>3, <1>7, <3>3, <5>1 DEF OneMessageIn
      <4>2. CASE conns[N].from # conns[N].upto
        <5>1. PICK k \in DOMAIN msgs : /\ msgs[k].at = conns[N].from
                                       /\ conns[N].upto <= msgs[k].at + msgs[k].len
          BY <3>1, <3>3, <4>2 DEF OneMessageIn
        <5>2. u <= msgs[k].at + msgs[k].len
          BY <1>4, <5>1, MsgsFacts
        <5>3. QED BY <1>1, <1>2, <1>3, <1>7, <3>3, <5>1, <5>2 DEF OneMessageIn
      <4>3. QED BY <4>1, <4>2
    <3>4. QED BY <3>2, <3>3
  <2>2. ASSUME Serving, ~Ending PROVE OneMessageIn(InHand, conns[cur].upto)'
    <3>1. cur \in 1..N /\ OneMessageIn(InHand, conns[cur].upto)
      BY <1>6, <2>2 DEF PacedInv, StillAhead, AtMostOneUnread, BaseInv, FillIsPartial
    <3>2. CASE cur # N
      BY <1>2, <1>5, <1>7, <3>1, <3>2 DEF OneMessageIn
    <3>3. CASE cur = N
      <4>1. readPos <= u /\ InHand <= u
        BY <1>1, <1>3, <1>4, <1>6, <3>3
      <4>2. CASE InHand = conns[N].upto
        <5>1. u = InHand
          BY <1>4, <1>6, <4>1, <4>2
        <5>2. QED BY <1>1, <1>3, <1>5, <3>3, <5>1 DEF OneMessageIn
      <4>3. CASE InHand # conns[N].upto
        <5>1. PICK k \in DOMAIN msgs : /\ msgs[k].at = InHand
                                       /\ conns[N].upto <= msgs[k].at + msgs[k].len
          BY <3>1, <3>3, <4>3 DEF OneMessageIn
        <5>2. u <= msgs[k].at + msgs[k].len
          BY <1>4, <5>1, MsgsFacts
        <5>3. QED BY <1>1, <1>2, <1>3, <1>5, <3>3, <5>1, <5>2 DEF OneMessageIn
      <4>4. QED BY <4>2, <4>3
    <3>4. QED BY <3>2, <3>3
  <2>3. ASSUME pc \in {"loop", "accept"}, cur > 0, ~Ending
        PROVE  readPos = conns'[cur].upto
    <3>1. cur \in 1..N /\ readPos = conns[cur].upto
      BY <1>6, <2>3 DEF PacedInv, StillAhead, AtMostOneUnread
    <3>2. CASE cur # N
      BY <1>7, <3>1, <3>2
    <3>3. CASE cur = N
      BY <1>1, <1>3, <1>4, <1>6, <3>1, <3>3
    <3>4. QED BY <3>2, <3>3
  <2>4. QED BY <1>5, <1>7, <2>1, <2>2, <2>3
          DEF PacedInv, StillAhead, AtMostOneUnread
<1>10. ParseWholeHeader'
  <2>1. ASSUME pc = "parse", 0 < saved, saved < HeaderSize
        PROVE  readPos = conns'[cur].upto
    <3>1. cur \in 1..N /\ readPos = conns[cur].upto
      BY <1>6, <2>1 DEF PacedInv, StillAhead, ParseWholeHeader, BaseInv,
        FillIsPartial, Serving
    <3>2. CASE cur # N
      BY <1>7, <3>1, <3>2
    <3>3. CASE cur = N
      BY <1>1, <1>3, <1>4, <1>6, <3>1, <3>3
    <3>4. QED BY <3>2, <3>3
  <2>2. QED BY <1>5, <2>1 DEF PacedInv, StillAhead, ParseWholeHeader
<1>11. FillOneMessage'
  BY <1>2, <1>5 DEF PacedInv, StillAhead, FillOneMessage
<1>12. QED BY <1>8, <1>9, <1>10, <1>11 DEF StillAhead

\* The simulator writes when its connection holds nothing unread: the new
\* message is then all that lies ahead of the thread on it.
LEMMA PacedSends ==
  ASSUME PacedInv, NEW len \in MsgLengths, PacedSend(len)
  PROVE  DoneSoFar' /\ StillAhead'
<1> BaseInv /\ ConnectionsInOrder /\ ChannelInv
  BY PacedFacts
<1> PeerSend(len) /\ PeerOpen /\ Drained
  BY DEF PacedSend
<1>1. PICK N \in Nat : N = Len(conns) /\ N > 0 /\ N \in 1..N
  <2>1. Len(conns) \in Nat /\ Len(conns) > 0
    BY ConnOrderFacts DEF PeerOpen
  <2>2. QED BY <2>1
<1>2. PICK m \in Nat : /\ m = Len(msgs) + 1 /\ DOMAIN msgs' = 1..m
                       /\ \A k \in DOMAIN msgs : k \in 1..m /\ msgs'[k] = msgs[k]
                       /\ \A k \in 1..m : k \in DOMAIN msgs \/ k = m
                       /\ msgs'[m].at = nextAt /\ msgs'[m].len = len
                       /\ m \in 1..m
  BY SentMessage
<1>3. /\ len \in Nat /\ len > 0 /\ nextAt \in Nat /\ nextAt' = nextAt + len
      /\ conns[N].upto = nextAt
  BY <1>1, SentMessage DEF PacedInv, OpenIsCurrent, Last
<1>4. /\ Len(conns') = N /\ \A c \in 1..N : conns'[c].from = conns[c].from
      /\ \A c \in 1..N : c # N => conns'[c].upto = conns[c].upto
      /\ conns'[N].upto = nextAt + len
  BY <1>1, <1>3 DEF PeerSend, BaseInv, TypeOK
<1>5. InHand' = InHand /\ Ending' = Ending /\ Serving' = Serving /\ Filling' = Filling
      /\ UNCHANGED <<pc, cur, readPos, saved, received, frame, hdrLen, delivered>>
  BY DEF PeerSend, InHand, CopyFrom, Ending, Serving, Filling, ownerVars,
    threadVars, bufVars, frameVars
<1>6. /\ cur \in Nat /\ cur <= N /\ readPos \in Nat /\ InHand \in Nat
      /\ InHand <= readPos /\ readPos <= nextAt
  <2>1. /\ cur \in Nat /\ cur <= N /\ readPos \in Nat /\ InHand \in Nat
        /\ InHand <= readPos
    BY <1>1, ConnOrderFacts, PacedFacts
  <2>2. CASE cur = 0
    <3>1. readPos = 0
      BY <2>2 DEF ConnectionsInOrder
    <3>2. QED BY <1>3, <2>1, <3>1
  <2>3. CASE cur > 0
    <3>1. /\ cur \in 1..N /\ conns[cur].upto \in Nat /\ conns[cur].upto <= nextAt
          /\ readPos <= conns[cur].upto
      BY <1>1, <2>1, <2>3, ConnOrderFacts DEF ConnectionsInOrder
    <3>2. QED BY <1>3, <2>1, <3>1
  <2>4. QED BY <2>1, <2>2, <2>3
<1>7. cur = N => pc \in {"serve", "read"} /\ readPos = nextAt /\ InHand = nextAt
  <2>1. ASSUME cur = N PROVE pc \in {"serve", "read"} /\ conns[N].upto - readPos = 0
    BY <1>1, <2>1 DEF Drained, Unread
  <2>2. QED BY <1>3, <1>6, <2>1 DEF InHand, Filling
<1>8. cur # N => conns[N].from = nextAt
  BY <1>1, <1>3 DEF Drained, Last
<1>9. DoneSoFar'
  <2>1. WholeBelow(InHand)'
    BY <1>2, <1>5 DEF PacedInv, DoneSoFar, WholeBelow, IsMessage
  <2>2. SentOverConnections'
    <3>1. PICK f \in Nat : /\ f = conns[1].from /\ f <= nextAt
                           /\ conns'[1].from = f
      BY <1>1, <1>3, <1>4, ConnOrderFacts
    <3>2. QED BY <1>1, <1>2, <1>4, <3>1 DEF PacedInv, DoneSoFar, SentOverConnections
  <2>3. \A k \in DOMAIN msgs : CutShort(k) => CutShort(k)'
    <3>1. Cut' = Cut
      BY StepSend
    <3>2. QED BY <3>1 DEF Cut
  <2>4. \A k \in DOMAIN msgs : Dealt(k) => Dealt(k)'
    BY <1>2, <1>5, <2>3 DEF Dealt, IsMessage
  <2>5. EarlierDealt'
    <3>1. ~(msgs'[m].at < InHand)
      BY <1>2, <1>3, <1>6
    <3>2. QED BY <1>2, <1>5, <2>4, <3>1 DEF PacedInv, DoneSoFar, EarlierDealt
  <2>6. QED BY <2>1, <2>2, <2>5 DEF DoneSoFar
<1>10. \E k \in DOMAIN msgs' :
         msgs'[k].at = nextAt /\ conns'[N].upto <= msgs'[k].at + msgs'[k].len
  BY <1>2, <1>3, <1>4
<1>11. AtMostOneUnread'
  <2>1. ASSUME NEW c \in cur + 1..N PROVE OneMessageIn(conns[c].from, conns[c].upto)'
    <3>1. c \in 1..N /\ OneMessageIn(conns[c].from, conns[c].upto)
      BY <1>1, <1>6, <2>1 DEF PacedInv, StillAhead, AtMostOneUnread
    <3>2. CASE c # N
      BY <1>2, <1>4, <3>1, <3>2 DEF OneMessageIn
    <3>3. CASE c = N
      <4>1. cur # N
        BY <1>6, <2>1, <3>3
      <4>2. QED BY <1>1, <1>4, <1>8, <1>10, <3>3, <4>1 DEF OneMessageIn
    <3>4. QED BY <3>2, <3>3
  <2>2. ASSUME Serving, ~Ending PROVE OneMessageIn(InHand, conns[cur].upto)'
    <3>1. cur \in 1..N /\ OneMessageIn(InHand, conns[cur].upto)
      BY <1>6, <2>2 DEF PacedInv, StillAhead, AtMostOneUnread, BaseInv, FillIsPartial
    <3>2. CASE cur # N
      BY <1>2, <1>4, <1>5, <3>1, <3>2 DEF OneMessageIn
    <3>3. CASE cur = N
      BY <1>5, <1>7, <1>10, <3>3 DEF OneMessageIn
    <3>4. QED BY <3>2, <3>3
  <2>3. ASSUME pc \in {"loop", "accept"}, cur > 0, ~Ending
        PROVE  readPos = conns'[cur].upto
    <3>1. cur \in 1..N /\ cur # N /\ readPos = conns[cur].upto
      BY <1>6, <1>7, <2>3 DEF PacedInv, StillAhead, AtMostOneUnread
    <3>2. QED BY <1>4, <3>1
  <2>4. QED BY <1>4, <1>5, <2>1, <2>2, <2>3
          DEF PacedInv, StillAhead, AtMostOneUnread
<1>12. ParseWholeHeader'
  <2>1. ASSUME pc = "parse", 0 < saved, saved < HeaderSize
        PROVE  readPos = conns'[cur].upto
    <3>1. cur \in 1..N /\ cur # N /\ readPos = conns[cur].upto
      BY <1>6, <1>7, <2>1 DEF PacedInv, StillAhead, ParseWholeHeader, BaseInv,
        FillIsPartial, Serving
    <3>2. QED BY <1>4, <3>1
  <2>2. QED BY <1>5, <2>1 DEF PacedInv, StillAhead, ParseWholeHeader
<1>13. FillOneMessage'
  BY <1>2, <1>5 DEF PacedInv, StillAhead, FillOneMessage
<1>14. QED BY <1>9, <1>11, <1>12, <1>13 DEF StillAhead

LEMMA PacedOwner ==
  ASSUME PacedInv, Owner
  PROVE  DoneSoFar' /\ StillAhead'
<1>1. UNCHANGED <<conns, msgs, nextAt, cur, readPos, bufAt, received, saved, hdrLen,
                  frame, delivered>>
      /\ \/ UNCHANGED pc /\ (running' => running)
         \/ pc = "none" /\ pc' = "loop"
  BY PacedFacts DEF Owner, InitServer, Start, StopRequest, StopJoin, peerVars,
    threadVars, bufVars, frameVars, BaseInv, OwnerThread
<1>2. InHand' = InHand /\ Serving' = Serving /\ Filling' = Filling
  BY <1>1 DEF InHand, CopyFrom, Serving, Filling
<1>3. [Next]_vars
  BY DEF Next
<1>4. DoneSoFar'
  BY <1>1, <1>2, <1>3, DoneKept
<1>5. pc = "none" => cur = 0
  BY DEF PacedInv, StillAhead, AtMostOneUnread
<1>6. Serving /\ ~Ending' => ~Ending
  BY <1>1 DEF Ending, Serving
<1>7. AtMostOneUnread'
  <2>1. (\A c \in cur + 1..Len(conns) : OneMessageIn(conns[c].from, conns[c].upto))'
    BY <1>1 DEF PacedInv, StillAhead, AtMostOneUnread, OneMessageIn
  <2>2. (Serving /\ ~Ending => OneMessageIn(InHand, conns[cur].upto))'
    BY <1>1, <1>2, <1>6 DEF PacedInv, StillAhead, AtMostOneUnread, OneMessageIn
  <2>3. (pc \in {"loop", "accept"} /\ cur > 0 /\ ~Ending => readPos = conns[cur].upto)'
    BY <1>1, <1>5 DEF PacedInv, StillAhead, AtMostOneUnread, Ending, BaseInv, TypeOK
  <2>4. (pc = "none" => cur = 0)'
    BY <1>1, <1>5
  <2>5. QED BY <2>1, <2>2, <2>3, <2>4 DEF AtMostOneUnread
<1>8. ParseWholeHeader' /\ FillOneMessage'
  BY <1>1, <1>2 DEF PacedInv, StillAhead, ParseWholeHeader, FillOneMessage
<1>9. QED BY <1>4, <1>7, <1>8 DEF StillAhead

\* The loop conditions, and the timeout of accept().
LEMMA PacedLoops ==
  ASSUME PacedInv, OuterLoop \/ AcceptTimeout \/ ServeLoop \/ FillLoop
  PROVE  DoneSoFar' /\ StillAhead'
<1>1. /\ UNCHANGED <<conns, msgs, running, cur, readPos, bufAt, received, saved,
                     hdrLen, frame, delivered>>
      /\ \/ pc = "loop" /\ running /\ pc' = "accept"
         \/ pc = "loop" /\ ~running /\ pc' = "exited"
         \/ pc = "accept" /\ pc' = "loop"
         \/ pc = "serve" /\ running /\ pc' = "read"
         \/ pc = "serve" /\ ~running /\ pc' = "loop"
         \/ pc = "fill" /\ pc' = "fillread"
  BY PacedFacts DEF OuterLoop, AcceptTimeout, ServeLoop, FillLoop, peerVars,
    ownerVars, bufVars, frameVars, BaseInv, TypeOK
<1>2. InHand' = InHand /\ Filling' = Filling /\ (Serving' => Serving)
      /\ (~Ending' => ~Ending) /\ pc' # "parse" /\ pc' # "none"
  BY <1>1 DEF InHand, CopyFrom, Serving, Filling, Ending
<1>3. [Next]_vars
  BY DEF Next, Run
<1>4. DoneSoFar'
  BY <1>1, <1>2, <1>3, DoneKept
<1>5. AtMostOneUnread'
  <2>1. (\A c \in cur + 1..Len(conns) : OneMessageIn(conns[c].from, conns[c].upto))'
    BY <1>1 DEF PacedInv, StillAhead, AtMostOneUnread, OneMessageIn
  <2>2. (Serving /\ ~Ending => OneMessageIn(InHand, conns[cur].upto))'
    BY <1>1, <1>2 DEF PacedInv, StillAhead, AtMostOneUnread, OneMessageIn
  <2>3. (pc \in {"loop", "accept"} /\ cur > 0 /\ ~Ending => readPos = conns[cur].upto)'
    BY <1>1 DEF PacedInv, StillAhead, AtMostOneUnread, Ending
  <2>4. QED BY <1>2, <2>1, <2>2, <2>3 DEF AtMostOneUnread
<1>6. ParseWholeHeader' /\ FillOneMessage'
  BY <1>1, <1>2 DEF PacedInv, StillAhead, ParseWholeHeader, FillOneMessage
<1>7. QED BY <1>4, <1>5, <1>6 DEF StillAhead

\* What the former connection left is cut short; the next one holds at most
\* one message.
LEMMA PacedAccept ==
  ASSUME PacedInv, AcceptClient
  PROVE  DoneSoFar' /\ StillAhead'
<1> BaseInv /\ ConnectionsInOrder /\ ChannelInv
  BY PacedFacts
<1>1. /\ UNCHANGED <<conns, msgs, running, delivered>>
      /\ pc = "accept" /\ pc' = "serve"
      /\ cur < Len(conns) /\ cur' = cur + 1 /\ readPos' = conns[cur + 1].from
  BY DEF AcceptClient, peerVars, ownerVars, frameVars
<1>2. PICK d \in 1..Len(conns) : d = cur + 1
  BY <1>1, ConnOrderFacts
<1>3. PICK f \in Nat : f = conns[d].from /\ readPos' = f
  BY <1>1, <1>2, ConnOrderFacts
<1>4. InHand = readPos /\ InHand' = f /\ readPos \in Nat /\ Serving' /\ ~Filling'
  BY <1>1, <1>3, PacedFacts DEF InHand, Filling, Serving
<1>5. readPos <= f
  <2>1. CASE cur = 0
    BY <1>3, <2>1 DEF ConnectionsInOrder
  <2>2. CASE cur > 0
    <3>1. /\ cur \in 1..Len(conns) /\ conns[cur].upto \in Nat
          /\ readPos <= conns[cur].upto /\ cur < d
      BY <1>1, <1>2, <2>2, ConnOrderFacts DEF ConnectionsInOrder
    <3>2. conns[cur].upto <= f
      BY <1>3, <3>1, ConnOrderFacts
    <3>3. QED BY <1>3, <1>4, <3>1, <3>2
  <2>3. QED BY <2>1, <2>2, ConnOrderFacts
<1>6. ~Ending' => ~Ending
  BY <1>1 DEF Ending
<1>7. ASSUME ~Ending', NEW k \in DOMAIN msgs, msgs[k].at < f PROVE Dealt(k)
  <2>1. CASE msgs[k].at < readPos
    BY <1>4, <1>6, <1>7, <2>1 DEF PacedInv, DoneSoFar, EarlierDealt
  <2>2. CASE ~(msgs[k].at < readPos) /\ cur > 0
    <3>1. readPos = conns[cur].upto /\ cur \in 1..Len(conns)
      BY <1>1, <1>6, <1>7, <2>2, ConnOrderFacts
        DEF PacedInv, StillAhead, AtMostOneUnread
    <3>2. /\ conns[cur].from \in Nat /\ conns[cur].from <= readPos
          /\ msgs[k].at \in Nat /\ msgs[k].len \in Nat /\ msgs[k].len > 0
      BY <3>1, ConnOrderFacts, MsgsFacts
    <3>3. /\ conns[cur].from <= msgs[k].at
          /\ conns[cur].upto < msgs[k].at + msgs[k].len
          /\ msgs[k].at < conns[cur + 1].from
      BY <1>2, <1>3, <1>4, <1>7, <2>2, <3>1, <3>2
    <3>4. EndsIn(cur, msgs[k].at, msgs[k].len)
      BY <3>3 DEF EndsIn
    <3>5. QED BY <3>1, <3>4, CutIs DEF Dealt
  <2>3. CASE cur = 0
    <3>1. conns[1].from <= msgs[k].at
      BY DEF PacedInv, DoneSoFar, SentOverConnections
    <3>2. QED BY <1>2, <1>3, <1>7, <2>3, <3>1, MsgsFacts
  <2>4. QED BY <2>1, <2>2, <2>3, ConnOrderFacts
<1>8. DoneSoFar'
  BY <1>1, <1>3, <1>4, <1>5, <1>7, DoneQuiet
<1>9. AtMostOneUnread'
  <2>1. ASSUME NEW c \in d..Len(conns) PROVE OneMessageIn(conns[c].from, conns[c].upto)
    <3>1. c \in cur + 1..Len(conns)
      BY <1>2, <2>1
    <3>2. QED BY <3>1 DEF PacedInv, StillAhead, AtMostOneUnread
  <2>2. (\A c \in cur + 1..Len(conns) : OneMessageIn(conns[c].from, conns[c].upto))'
    <3>1. \A c \in d + 1..Len(conns) : c \in d..Len(conns)
      BY <1>2
    <3>2. QED BY <1>1, <1>2, <2>1, <3>1 DEF OneMessageIn
  <2>3. OneMessageIn(InHand, conns[cur].upto)'
    <3>1. d \in d..Len(conns)
      OBVIOUS
    <3>2. QED BY <1>1, <1>2, <1>3, <1>4, <2>1, <3>1 DEF OneMessageIn
  <2>4. QED BY <1>1, <2>2, <2>3 DEF AtMostOneUnread
<1>10. ParseWholeHeader' /\ FillOneMessage'
  BY <1>1, <1>4 DEF ParseWholeHeader, FillOneMessage
<1>11. QED BY <1>8, <1>9, <1>10 DEF StillAhead

\* A read that returns less than a header has read all there is.
LEMMA PacedRead ==
  ASSUME MinChunk >= HeaderSize, PacedInv, ReadChunk \/ ReadEof
  PROVE  DoneSoFar' /\ StillAhead'
<1> BaseInv /\ ConnectionsInOrder /\ ChannelInv
  BY PacedFacts
<1>1. /\ UNCHANGED <<conns, msgs, running, cur, delivered>>
      /\ pc = "read"
  BY DEF ReadChunk, ReadEof, peerVars, ownerVars, frameVars
<1>2. cur > 0 /\ readPos \in Nat /\ InHand = readPos /\ Serving /\ ~Ending
  BY <1>1, PacedFacts DEF InHand, Filling, Serving, BaseInv, FillIsPartial, Ending
<1>3. PICK u \in Nat : u = conns[cur].upto
  BY <1>2, ServedConn
<1>4. OneMessageIn(readPos, u)
  BY <1>2, <1>3 DEF PacedInv, StillAhead, AtMostOneUnread
<1>5. /\ pc' \in {"parse", "loop"} /\ ~Filling'
      /\ pc' = "loop" => readPos' = readPos /\ readPos = u
      /\ pc' = "parse" => /\ InHand' = readPos
                          /\ saved' = received'
                          /\ saved' < HeaderSize => readPos' = u
  <2>1. CASE ReadEof
    BY <1>2, <1>3, <2>1 DEF ReadEof, AtEof, Unread, Filling
  <2>2. CASE ReadChunk
    <3>1. PICK n \in Chunks : /\ bufAt' = readPos /\ received' = n /\ saved' = n
                              /\ readPos' = readPos + n /\ pc' = "parse"
      BY <2>2 DEF ReadChunk
    <3>2. n \in Nat
      BY <1>2, <3>1, ReadSize
    <3>3. InHand' = readPos
      BY <1>2, <3>1, <3>2 DEF InHand, CopyFrom
    <3>4. n < HeaderSize => readPos + n = u
      BY <1>2, <1>3, <3>1, <3>2, StreamAssumption DEF Chunks, Unread
    <3>5. QED BY <3>1, <3>3, <3>4 DEF Filling
  <2>3. QED BY <2>1, <2>2
<1>6. [Next]_vars /\ InHand' = InHand
  BY <1>2, <1>5 DEF Next, Run, InHand
<1>7. DoneSoFar'
  BY <1>1, <1>6, DoneKept
<1>8. AtMostOneUnread'
  <2>1. (\A c \in cur + 1..Len(conns) : OneMessageIn(conns[c].from, conns[c].upto))'
    BY <1>1 DEF PacedInv, StillAhead, AtMostOneUnread, OneMessageIn
  <2>2. (Serving /\ ~Ending => OneMessageIn(InHand, conns[cur].upto))'
    BY <1>1, <1>2, <1>3, <1>4, <1>6 DEF OneMessageIn
  <2>3. QED BY <1>1, <1>3, <1>5, <2>1, <2>2 DEF AtMostOneUnread
<1>9. ParseWholeHeader' /\ FillOneMessage'
  BY <1>1, <1>3, <1>5 DEF ParseWholeHeader, FillOneMessage
<1>10. QED BY <1>7, <1>8, <1>9 DEF StillAhead

\* What the buffer of a paced run holds: the beginning of the one message
\* that lies ahead.
LEMMA ParseAhead ==
  ASSUME PacedInv, pc = "parse"
  PROVE  /\ saved \in Nat /\ InHand = CopyFrom /\ CopyFrom + saved = readPos
         /\ ~Ending /\ Serving /\ ~Filling /\ cur > 0 /\ cur \in 1..Len(conns)
         /\ readPos <= conns[cur].upto
         /\ saved > 0 =>
              /\ InHand = bufAt /\ saved = received
              /\ \E k \in DOMAIN msgs :
                   /\ msgs[k].at = bufAt
                   /\ conns[cur].upto <= msgs[k].at + msgs[k].len
<1> BaseInv /\ ConnectionsInOrder /\ SegmentInv
  BY PacedFacts
<1>1. /\ saved \in Nat /\ CopyFrom \in Nat /\ CopyFrom + saved = readPos
      /\ cur > 0 /\ received \in Nat /\ bufAt \in Nat
  BY ParseInside
<1>2. InHand = CopyFrom /\ ~Ending /\ Serving /\ ~Filling
  BY DEF InHand, Ending, Serving, Filling
<1>3. PICK u \in Nat : u = conns[cur].upto /\ readPos <= u /\ cur \in 1..Len(conns)
  BY <1>1, ServedConn
<1>4. ASSUME saved > 0
      PROVE  /\ InHand = bufAt /\ saved = received
             /\ \E k \in DOMAIN msgs :
                  /\ msgs[k].at = bufAt
                  /\ conns[cur].upto <= msgs[k].at + msgs[k].len
  <2>1. saved = received
    BY <1>1, <1>4 DEF PacedInv, StillAhead, ParseWholeHeader
  <2>2. InHand = bufAt
    BY <1>1, <1>2, <2>1 DEF CopyFrom
  <2>3. bufAt # u
    BY <1>1, <1>2, <1>3, <1>4, <2>2
  <2>4. OneMessageIn(bufAt, u)
    BY <1>2, <1>3, <2>2 DEF PacedInv, StillAhead, AtMostOneUnread
  <2>5. QED BY <1>3, <2>1, <2>2, <2>3, <2>4 DEF OneMessageIn
<1>5. QED BY <1>1, <1>2, <1>3, <1>4

LEMMA FillAhead ==
  ASSUME PacedInv, Filling
  PROVE  /\ InHand = readPos - Len(frame) /\ ~Ending /\ Serving
         /\ cur \in 1..Len(conns) /\ readPos <= conns[cur].upto
         /\ \E k \in DOMAIN msgs :
              /\ msgs[k].at = InHand /\ msgs[k].len = hdrLen
              /\ conns[cur].upto <= msgs[k].at + msgs[k].len
<1> BaseInv /\ ConnectionsInOrder /\ SegmentInv /\ ChannelInv
  BY PacedFacts
<1>1. /\ cur > 0 /\ Len(frame) \in Nat /\ Len(frame) > 0 /\ readPos \in Nat
      /\ readPos - Len(frame) \in Nat
  BY FillInside
<1>2. InHand = readPos - Len(frame) /\ ~Ending /\ Serving
  BY DEF InHand, Ending, Serving, Filling
<1>3. PICK u \in Nat : u = conns[cur].upto /\ readPos <= u /\ cur \in 1..Len(conns)
  BY <1>1, ServedConn
<1>4. PICK k \in DOMAIN msgs : msgs[k].at = InHand /\ msgs[k].len = hdrLen
  BY <1>2 DEF PacedInv, StillAhead, FillOneMessage
<1>5. InHand # u
  BY <1>1, <1>2, <1>3
<1>6. OneMessageIn(InHand, u)
  BY <1>2, <1>3 DEF PacedInv, StillAhead, AtMostOneUnread
<1>7. PICK j \in DOMAIN msgs : msgs[j].at = InHand /\ u <= msgs[j].at + msgs[j].len
  BY <1>5, <1>6 DEF OneMessageIn
<1>8. j = k
  BY <1>4, <1>7, ApartNow DEF Apart
<1>9. QED BY <1>2, <1>3, <1>4, <1>7, <1>8

\* The message in hand was cut short where its connection ends.
LEMMA DoneCutShort ==
  ASSUME PacedInv, UNCHANGED <<conns, msgs, delivered>>, ~Ending,
         cur \in 1..Len(conns), InHand < readPos, conns[cur].from <= InHand,
         NEW k \in DOMAIN msgs, msgs[k].at = InHand,
         readPos = conns[cur].upto, readPos < msgs[k].at + msgs[k].len,
         InHand' = readPos
  PROVE  DoneSoFar'
<1> BaseInv /\ ConnectionsInOrder /\ ChannelInv
  BY PacedFacts
<1>1. cur < Len(conns) => InHand < conns[cur + 1].from
  <2>1. SUFFICES ASSUME cur < Len(conns) PROVE InHand < conns[cur + 1].from
    OBVIOUS
  <2>2. PICK d \in 1..Len(conns) : d = cur + 1 /\ cur < d
    BY <2>1, ConnOrderFacts
  <2>3. PICK f \in Nat : f = conns[d].from
    BY ConnOrderFacts
  <2>4. readPos <= f
    BY <2>2, <2>3, ConnOrderFacts
  <2>5. QED BY <2>2, <2>3, <2>4, PacedFacts
<1>2. EndsIn(cur, msgs[k].at, msgs[k].len)
  BY <1>1 DEF EndsIn
<1>3. Dealt(k)
  BY <1>2, CutIs DEF Dealt
<1>4. \A j \in DOMAIN msgs : msgs[j].at < readPos => Dealt(j)
  <2> DEFINE D == {j \in DOMAIN msgs : Dealt(j)}
  <2>1. k \in D /\ \A j \in DOMAIN msgs : msgs[j].at < msgs[k].at => j \in D
    BY <1>3 DEF PacedInv, DoneSoFar, EarlierDealt
  <2>2. readPos \in Nat /\ readPos <= msgs[k].at + msgs[k].len
    BY PacedFacts, MsgsFacts
  <2> HIDE DEF D
  <2>3. \A j \in DOMAIN msgs : msgs[j].at < readPos => j \in D
    BY <2>1, <2>2, UpToTheEnd
  <2>4. QED BY <2>3 DEF D
<1>5. QED BY <1>4, PacedFacts, DoneQuiet

\* Parsing is over on this connection, or the buffer held no whole header
\* because the connection ended inside it.
LEMMA PacedDrop ==
  ASSUME PacedInv, ParseDrop
  PROVE  DoneSoFar' /\ StillAhead'
<1> BaseInv /\ ConnectionsInOrder /\ ChannelInv
  BY PacedFacts
<1>1. /\ UNCHANGED <<conns, msgs, running, cur, readPos, saved, delivered>>
      /\ pc = "parse" /\ pc' = "serve"
      /\ saved < HeaderSize \/ ~IsStart(bufAt)
  BY DEF ParseDrop, peerVars, ownerVars, bufVars, frameVars
<1>2. InHand' = readPos /\ ~Filling'
  BY <1>1 DEF InHand, Filling
<1>3. PICK u \in Nat : u = conns[cur].upto /\ readPos <= u /\ cur \in 1..Len(conns)
  BY <1>1, ParseAhead, ConnOrderFacts
<1>4. DoneSoFar' /\ OneMessageIn(readPos, u)
  <2>1. CASE saved = 0
    <3>1. InHand = readPos /\ ~Ending
      BY <1>1, <2>1, ParseAhead, PacedFacts
    <3>2. [Next]_vars
      BY DEF Next, Run
    <3>3. DoneSoFar'
      BY <1>1, <1>2, <3>1, <3>2, DoneKept
    <3>4. QED BY <1>1, <1>3, <3>1, <3>3, ParseAhead
            DEF PacedInv, StillAhead, AtMostOneUnread
  <2>2. CASE saved # 0
    <3>1. saved \in Nat /\ saved > 0
      BY <1>1, <2>2, ParseAhead
    <3>2. /\ InHand = bufAt /\ ~Ending /\ CopyFrom + saved = readPos
          /\ InHand = CopyFrom
      BY <1>1, <3>1, ParseAhead
    <3>3. PICK k \in DOMAIN msgs : /\ msgs[k].at = bufAt
                                   /\ conns[cur].upto <= msgs[k].at + msgs[k].len
      BY <1>1, <3>1, ParseAhead
    <3>4. saved < HeaderSize /\ readPos = u
      BY <1>1, <1>3, <3>1, <3>3
        DEF IsStart, HeaderAt, PacedInv, StillAhead, ParseWholeHeader
    <3>5. InHand < readPos /\ readPos < msgs[k].at + msgs[k].len
      <4>1. PICK n \in Nat : n = msgs[k].len /\ n >= HeaderSize
        BY MsgsFacts
      <4>2. PICK a \in Nat : a = InHand /\ a = msgs[k].at
        BY <3>2, <3>3, PacedFacts
      <4>3. readPos = a + saved
        BY <3>2, <4>2
      <4>4. QED BY <3>1, <3>4, <4>1, <4>2, <4>3, StreamAssumption
    <3>6. conns[cur].from <= InHand
      BY <1>1, <3>2, ParseInside, PacedFacts
    <3>7. DoneSoFar'
      BY <1>1, <1>2, <1>3, <3>2, <3>3, <3>4, <3>5, <3>6, DoneCutShort
    <3>8. QED BY <3>4, <3>7 DEF OneMessageIn
  <2>3. QED BY <2>1, <2>2
<1>5. AtMostOneUnread'
  <2>1. (\A c \in cur + 1..Len(conns) : OneMessageIn(conns[c].from, conns[c].upto))'
    BY <1>1 DEF PacedInv, StillAhead, AtMostOneUnread, OneMessageIn
  <2>2. OneMessageIn(InHand, conns[cur].upto)'
    BY <1>1, <1>2, <1>3, <1>4 DEF OneMessageIn
  <2>3. QED BY <1>1, <2>1, <2>2 DEF AtMostOneUnread
<1>6. ParseWholeHeader' /\ FillOneMessage'
  BY <1>1, <1>2 DEF ParseWholeHeader, FillOneMessage
<1>7. QED BY <1>4, <1>5, <1>6 DEF StillAhead

\* A frame handed over in a paced run is the message in hand, and nothing is
\* read behind it: the surplus that Run miscounts does not occur.
LEMMA PacedHandsOver ==
  ASSUME PacedInv, ParseWhole \/ FillComplete
  PROVE  /\ UNCHANGED <<conns, msgs, running, cur>> /\ ~Ending
         /\ pc' = "parse" /\ saved' = 0 /\ InHand' = conns[cur].upto
         /\ cur \in 1..Len(conns) /\ cur > 0
         /\ \E k \in DOMAIN msgs :
              /\ msgs[k].at = InHand /\ conns[cur].from <= InHand
              /\ msgs[k].at + msgs[k].len = conns[cur].upto
              /\ delivered' = Append(delivered, Cells(msgs[k].at, msgs[k].len))
<1> BaseInv /\ ConnectionsInOrder /\ ChannelInv /\ SegmentInv
  BY PacedFacts
<1>1. UNCHANGED <<conns, msgs, running, cur>> /\ pc' = "parse"
  BY DEF ParseWhole, FillComplete, peerVars, ownerVars
<1>2. CASE ParseWhole
  <2>1. pc = "parse" /\ saved >= HeaderSize /\ saved \in Nat /\ saved > 0
        /\ UNCHANGED <<readPos, bufAt, received>>
    BY <1>2, ParseAhead, StreamAssumption DEF ParseWhole
  <2>2. PICK k \in DOMAIN msgs :
          /\ msgs[k].at = bufAt /\ saved >= msgs[k].len
          /\ delivered' = Append(delivered, Cells(CopyFrom, msgs[k].len))
          /\ saved' = saved - msgs[k].len
    BY <1>2 DEF ParseWhole, HeaderAt
  <2>3. PICK j \in DOMAIN msgs : /\ msgs[j].at = bufAt
                                 /\ conns[cur].upto <= msgs[j].at + msgs[j].len
    BY <2>1, ParseAhead
  <2>4. j = k
    BY <2>2, <2>3, ApartNow DEF Apart
  <2>5. /\ InHand = bufAt /\ InHand = CopyFrom /\ CopyFrom + saved = readPos
        /\ saved = received /\ ~Ending /\ cur > 0 /\ cur \in 1..Len(conns)
        /\ readPos <= conns[cur].upto
    BY <2>1, ParseAhead
  <2>6. /\ msgs[k].len \in Nat /\ bufAt \in Nat /\ conns[cur].upto \in Nat
        /\ readPos \in Nat
    BY <2>2, <2>5, MsgsFacts, ConnOrderFacts
  <2>7. saved = msgs[k].len /\ readPos = conns[cur].upto
    BY <2>1, <2>2, <2>3, <2>4, <2>5, <2>6
  <2>8. saved' = 0 /\ InHand' = conns[cur].upto
    BY <1>1, <2>1, <2>2, <2>5, <2>6, <2>7 DEF InHand, CopyFrom
  <2>9. conns[cur].from <= InHand
    BY <2>1, <2>5, ParseInside
  <2>10. QED BY <1>1, <2>2, <2>5, <2>6, <2>7, <2>8, <2>9
<1>3. CASE FillComplete
  <2>1. Filling
    BY <1>3 DEF FillComplete, Filling
  <2>2. PICK n \in Chunks :
          /\ n >= hdrLen - Len(frame)
          /\ delivered' = Append(delivered,
                                 frame \o Cells(readPos, hdrLen - Len(frame)))
          /\ saved' = saved + Surplus(n)
          /\ bufAt' = readPos /\ received' = n /\ readPos' = readPos + n
    BY <1>3 DEF FillComplete
  <2>3. PICK k \in DOMAIN msgs : /\ msgs[k].at = InHand /\ msgs[k].len = hdrLen
                                 /\ conns[cur].upto <= msgs[k].at + msgs[k].len
    BY <2>1, FillAhead
  <2>4. /\ InHand = readPos - Len(frame) /\ ~Ending /\ cur \in 1..Len(conns)
        /\ readPos <= conns[cur].upto
    BY <2>1, FillAhead
  <2>5. /\ cur > 0 /\ Len(frame) \in Nat /\ Len(frame) > 0 /\ readPos \in Nat
        /\ conns[cur].from <= InHand /\ InHand \in Nat
        /\ frame = Cells(InHand, Len(frame))
        /\ hdrLen \in Nat /\ Len(frame) < hdrLen
    BY <2>1, <2>4, FillInside
  <2>6. /\ n \in Nat /\ n > 0 /\ readPos + n <= conns[cur].upto
        /\ conns[cur].upto \in Nat
    BY <2>4, <2>5, ReadSize, ConnOrderFacts
  <2>7. n = hdrLen - Len(frame) /\ readPos + n = conns[cur].upto
    <3>1. PICK u \in Nat, f \in Nat : u = conns[cur].upto /\ f = Len(frame)
      BY <2>5, <2>6
    <3>2. /\ n >= hdrLen - f /\ readPos + n <= u
          /\ u <= (readPos - f) + hdrLen
      BY <2>2, <2>3, <2>4, <2>6, <3>1
    <3>3. n = hdrLen - f /\ readPos + n = u
      BY <2>5, <2>6, <3>2
    <3>4. QED BY <3>1, <3>3
  <2>8. saved' = 0
    BY <2>1, <2>2, <2>7 DEF Surplus, BaseInv, FillIsPartial
  <2>9. InHand' = conns[cur].upto
    BY <1>1, <2>2, <2>5, <2>6, <2>7, <2>8 DEF InHand, CopyFrom
  <2>10. frame \o Cells(readPos, n) = Cells(InHand, hdrLen)
    <3>1. readPos = InHand + Len(frame) /\ Len(frame) + n = hdrLen
      BY <2>4, <2>5, <2>7
    <3>2. Cells(InHand, Len(frame)) \o Cells(InHand + Len(frame), n)
            = Cells(InHand, Len(frame) + n)
      BY <2>5, <2>6, CellsConcat
    <3>3. QED BY <2>5, <3>1, <3>2
  <2>11. delivered' = Append(delivered, Cells(msgs[k].at, msgs[k].len))
    BY <2>2, <2>3, <2>7, <2>10
  <2>12. msgs[k].at + msgs[k].len = conns[cur].upto
    BY <2>3, <2>4, <2>5, <2>7
  <2>13. QED BY <1>1, <2>3, <2>4, <2>5, <2>8, <2>9, <2>11, <2>12
<1>4. QED BY <1>2, <1>3

LEMMA PacedWhole ==
  ASSUME PacedInv, ParseWhole \/ FillComplete
  PROVE  DoneSoFar' /\ StillAhead'
<1>1. /\ UNCHANGED <<conns, msgs, running, cur>> /\ ~Ending
      /\ pc' = "parse" /\ saved' = 0 /\ InHand' = conns[cur].upto
  BY PacedHandsOver
<1>2. DoneSoFar'
  BY <1>1, PacedHandsOver, DoneHandOver
<1>3. AtMostOneUnread'
  <2>1. (\A c \in cur + 1..Len(conns) : OneMessageIn(conns[c].from, conns[c].upto))'
    BY <1>1 DEF PacedInv, StillAhead, AtMostOneUnread, OneMessageIn
  <2>2. OneMessageIn(InHand, conns[cur].upto)'
    BY <1>1 DEF OneMessageIn
  <2>3. QED BY <1>1, <2>1, <2>2 DEF AtMostOneUnread
<1>4. ParseWholeHeader' /\ FillOneMessage'
  BY <1>1 DEF ParseWholeHeader, FillOneMessage, Filling
<1>5. QED BY <1>2, <1>3, <1>4 DEF StillAhead

\* The message in hand is only partly read so far.
LEMMA PacedPart ==
  ASSUME PacedInv, ParsePart \/ FillMore
  PROVE  DoneSoFar' /\ StillAhead'
<1> BaseInv /\ ConnectionsInOrder /\ ChannelInv /\ SegmentInv
  BY PacedFacts
<1>1. /\ UNCHANGED <<conns, msgs, running, cur, delivered>> /\ pc' = "fill"
  BY DEF ParsePart, FillMore, peerVars, ownerVars
<1>2. /\ InHand' = InHand /\ ~Ending /\ Serving /\ cur \in 1..Len(conns)
      /\ \E k \in DOMAIN msgs :
           /\ msgs[k].at = InHand /\ msgs[k].len = hdrLen'
           /\ InHand = readPos' - Len(frame')
  <2>1. CASE ParsePart
    <3>1. pc = "parse" /\ saved >= HeaderSize /\ saved \in Nat /\ saved > 0
          /\ frame' = Cells(CopyFrom, saved) /\ UNCHANGED readPos
      BY <2>1, ParseAhead, StreamAssumption DEF ParsePart
    <3>2. PICK k \in DOMAIN msgs : msgs[k].at = bufAt /\ hdrLen' = msgs[k].len
      BY <2>1 DEF ParsePart, HeaderAt
    <3>3. /\ InHand = bufAt /\ InHand = CopyFrom /\ CopyFrom + saved = readPos
          /\ ~Ending /\ Serving /\ cur \in 1..Len(conns)
      BY <3>1, ParseAhead
    <3>4. Len(frame') = saved
      BY <3>1, <3>3, PacedFacts, CellsSeq
    <3>5. InHand' = readPos' - Len(frame')
      BY <1>1 DEF InHand, Filling
    <3>6. InHand = readPos' - Len(frame')
      BY <3>1, <3>3, <3>4, PacedFacts
    <3>7. QED BY <3>2, <3>3, <3>5, <3>6
  <2>2. CASE FillMore
    <3>1. Filling /\ UNCHANGED hdrLen
      BY <2>2 DEF FillMore, Filling
    <3>2. PICK n \in Chunks : /\ frame' = frame \o Cells(readPos, n)
                              /\ readPos' = readPos + n
      BY <2>2 DEF FillMore
    <3>3. PICK k \in DOMAIN msgs : msgs[k].at = InHand /\ msgs[k].len = hdrLen
      BY <3>1, FillAhead
    <3>4. /\ InHand = readPos - Len(frame) /\ ~Ending /\ Serving
          /\ cur \in 1..Len(conns)
      BY <3>1, FillAhead
    <3>5. cur > 0 /\ Len(frame) \in Nat /\ readPos \in Nat /\ frame \in Seq(Nat)
      BY <3>1, FillInside DEF BaseInv, TypeOK, Frame
    <3>6. n \in Nat
      BY <3>2, <3>5, ReadSize
    <3>7. Len(frame') = Len(frame) + n
      <4>1. Cells(readPos, n) \in Seq(Nat) /\ Len(Cells(readPos, n)) = n
        BY <3>5, <3>6, CellsSeq
      <4>2. Len(frame \o Cells(readPos, n)) = Len(frame) + Len(Cells(readPos, n))
        BY <3>5, <4>1, ConcatNat
      <4>3. QED BY <3>2, <4>1, <4>2
    <3>8. InHand' = readPos' - Len(frame')
      BY <1>1 DEF InHand, Filling
    <3>9. InHand = readPos' - Len(frame')
      BY <3>2, <3>4, <3>5, <3>6, <3>7
    <3>10. QED BY <3>1, <3>3, <3>4, <3>8, <3>9
  <2>3. QED BY <2>1, <2>2
<1>3. [Next]_vars
  BY DEF Next, Run
<1>4. DoneSoFar'
  BY <1>1, <1>2, <1>3, DoneKept
<1>5. AtMostOneUnread'
  <2>1. (\A c \in cur + 1..Len(conns) : OneMessageIn(conns[c].from, conns[c].upto))'
    BY <1>1 DEF PacedInv, StillAhead, AtMostOneUnread, OneMessageIn
  <2>2. OneMessageIn(InHand, conns[cur].upto)'
    BY <1>1, <1>2 DEF PacedInv, StillAhead, AtMostOneUnread, OneMessageIn
  <2>3. QED BY <1>1, <2>1, <2>2 DEF AtMostOneUnread
<1>6. ParseWholeHeader' /\ FillOneMessage'
  BY <1>1, <1>2 DEF ParseWholeHeader, FillOneMessage
<1>7. QED BY <1>4, <1>5, <1>6 DEF StillAhead

\* A message is given up only when its connection ended in it, or when the
\* server is being stopped.
LEMMA PacedGivesUp ==
  ASSUME PacedInv, FillStopped \/ FillEof
  PROVE  DoneSoFar' /\ StillAhead'
<1> BaseInv /\ ConnectionsInOrder /\ ChannelInv /\ SegmentInv
  BY PacedFacts
<1>1. /\ UNCHANGED <<conns, msgs, running, cur, readPos, delivered>>
      /\ pc' = "serve" /\ Filling
  BY DEF FillStopped, FillEof, FillAbandon, peerVars, ownerVars, Filling
<1>2. InHand' = readPos /\ ~Filling'
  BY <1>1 DEF InHand, Filling
<1>3. cur \in 1..Len(conns) /\ ~Ending
  BY <1>1, FillAhead
<1>4. PICK u \in Nat : u = conns[cur].upto
  BY <1>3, ConnOrderFacts
<1>5. DoneSoFar' /\ (~Ending' => readPos = u)
  <2>1. CASE FillStopped
    <3>1. Ending'
      BY <1>1, <2>1 DEF FillStopped, Ending
    <3>2. QED BY <1>1, <1>2, <3>1, PacedFacts, DoneQuiet
  <2>2. CASE FillEof
    <3>1. readPos = u
      BY <1>4, <2>2, PacedFacts DEF FillEof, AtEof, Unread
    <3>2. PICK k \in DOMAIN msgs : msgs[k].at = InHand /\ msgs[k].len = hdrLen
      BY <1>1, FillAhead
    <3>3. /\ InHand = readPos - Len(frame) /\ Len(frame) \in Nat /\ Len(frame) > 0
          /\ hdrLen \in Nat /\ Len(frame) < hdrLen /\ readPos \in Nat
          /\ conns[cur].from <= InHand
      BY <1>1, FillAhead, FillInside
    <3>4. InHand < readPos /\ readPos < msgs[k].at + msgs[k].len
      BY <3>2, <3>3
    <3>5. QED BY <1>1, <1>2, <1>3, <1>4, <3>1, <3>2, <3>3, <3>4, DoneCutShort
  <2>3. QED BY <2>1, <2>2
<1>6. AtMostOneUnread'
  <2>1. (\A c \in cur + 1..Len(conns) : OneMessageIn(conns[c].from, conns[c].upto))'
    BY <1>1 DEF PacedInv, StillAhead, AtMostOneUnread, OneMessageIn
  <2>2. (Serving /\ ~Ending => OneMessageIn(InHand, conns[cur].upto))'
    BY <1>1, <1>2, <1>4, <1>5 DEF OneMessageIn
  <2>3. QED BY <1>1, <2>1, <2>2 DEF AtMostOneUnread
<1>7. ParseWholeHeader' /\ FillOneMessage'
  BY <1>1, <1>2 DEF ParseWholeHeader, FillOneMessage
<1>8. QED BY <1>5, <1>6, <1>7 DEF StillAhead

LEMMA PacedInit == Init => PacedInv
<1> SUFFICES ASSUME Init PROVE PacedInv
  OBVIOUS
<1>1. BaseInv /\ ConnectionsInOrder /\ SegmentInv
  BY BaseInit, SegmentInit
<1>2. OpenIsCurrent /\ MessagesApart
  BY DEF Init, OpenIsCurrent, PeerOpen, MessagesApart
<1>3. DoneSoFar
  BY DEF Init, DoneSoFar, WholeBelow, SentOverConnections, EarlierDealt
<1>4. StillAhead
  BY DEF Init, StillAhead, AtMostOneUnread, ParseWholeHeader, FillOneMessage,
    Filling, Serving
<1>5. QED BY <1>1, <1>2, <1>3, <1>4 DEF PacedInv

LEMMA PacedStep ==
  ASSUME MinChunk >= HeaderSize, PacedInv, [PacedNext]_vars
  PROVE  PacedInv'
<1>1. [Next]_vars
  BY PacedIsNext
<1>2. BaseInv' /\ ConnectionsInOrder' /\ SegmentInv' /\ OpenIsCurrent' /\ MessagesApart'
  BY <1>1, PacedFacts, BaseStep, ConnStep, SegmentStep, OpenStep, ApartStep
    DEF ChannelInv
<1>3. DoneSoFar' /\ StillAhead'
  <2>1. CASE UNCHANGED vars
    BY <2>1 DEF vars, peerVars, ownerVars, threadVars, bufVars, frameVars, PacedInv,
      DoneSoFar, WholeBelow, IsMessage, InHand, CopyFrom, Filling, Serving, Ending,
      SentOverConnections, EarlierDealt, Dealt, CutShort, StillAhead,
      AtMostOneUnread, OneMessageIn, ParseWholeHeader, FillOneMessage
  <2>2. CASE PeerConnect \/ PeerClose
    BY <2>2, PacedConnect, PacedClose
  <2>3. CASE \E len \in MsgLengths : PacedSend(len)
    BY <2>3, PacedSends
  <2>4. CASE Owner
    BY <2>4, PacedOwner
  <2>5. CASE Run
    BY <2>5, PacedLoops, PacedAccept, PacedRead, PacedDrop, PacedWhole, PacedPart,
      PacedGivesUp DEF Run
  <2>6. QED BY <2>1, <2>2, <2>3, <2>4, <2>5 DEF PacedNext
<1>4. QED BY <1>2, <1>3 DEF PacedInv

\* When the simulator paces its writes and a read returns a header whole, the
\* thread has dealt with every message before the one in hand, reads no part
\* of two messages at once and loses no header (Run, whatever the lengths).
THEOREM PacedAlways == ASSUME MinChunk >= HeaderSize PROVE PacedSpec => []PacedInv
<1>1. PacedInv /\ [PacedNext]_vars => PacedInv'
  BY PacedStep
<1>2. QED BY <1>1, PacedInit, PTL DEF PacedSpec

-----------------------------------------------------------------------------
(* The reliable channel                                                    *)

\* What is dealt with is in the channel's account.
LEMMA NothingIsSkipped ==
  ASSUME PacedInv, ~Ending, NEW k \in DOMAIN msgs, msgs[k].at = InHand
  PROVE  \A j \in 1..(k - 1) : j \in Channel!HandedOver \cup Cut
<1> ChannelInv
  BY PacedFacts
<1>1. SUFFICES ASSUME NEW j \in 1..(k - 1) PROVE j \in Channel!HandedOver \cup Cut
  OBVIOUS
<1>2. j \in DOMAIN msgs /\ j < k
  BY MsgsFacts
<1>3. msgs[j].at < InHand
  <2>1. /\ msgs[j].at + msgs[j].len <= msgs[k].at
        /\ msgs[j].at \in Nat /\ msgs[j].len \in Nat /\ msgs[j].len > 0
    BY <1>2, MsgsFacts
  <2>2. QED BY <2>1, PacedFacts
<1>4. Dealt(j)
  BY <1>2, <1>3 DEF PacedInv, DoneSoFar, EarlierDealt
<1>5. CASE CutShort(j)
  BY <1>2, <1>5 DEF Cut
<1>6. CASE \E i \in DOMAIN delivered : IsMessage(delivered[i], j)
  <2>1. PICK i \in DOMAIN delivered : IsMessage(delivered[i], j)
    BY <1>6
  <2>2. Numbers[i] = j
    BY <1>2, <2>1, ApartNow, NumberIs
  <2>3. QED BY <2>2, HandedOverIs
<1>7. QED BY <1>4, <1>5, <1>6 DEF Dealt

LEMMA ReliableStep ==
  ASSUME PacedInv, [PacedNext]_vars
  PROVE  [Channel!ReliableNext]_Channel!vars
<1> USE DEF Cut
<1> ChannelInv /\ [Next]_vars
  BY PacedFacts, PacedIsNext
<1>1. CASE ParseWhole \/ FillComplete
  <2>1. PICK k \in DOMAIN msgs :
          /\ msgs[k].at = InHand /\ conns[cur].from <= InHand
          /\ msgs[k].at + msgs[k].len = conns[cur].upto
          /\ delivered' = Append(delivered, Cells(msgs[k].at, msgs[k].len))
    BY <1>1, PacedHandsOver
  <2>2. UNCHANGED <<conns, msgs>> /\ ~Ending /\ cur \in 1..Len(conns) /\ cur > 0
    BY <1>1, PacedHandsOver
  <2>3. conns[cur].upto \in Nat
    BY <2>2, ConnOrderFacts DEF ChannelInv
  <2>4. WholeBelow(msgs[k].at)
    BY <2>1 DEF PacedInv, DoneSoFar
  <2>5. /\ \A i \in DOMAIN delivered : Numbers[i] < k
        /\ k \in 1..Len(msgs) /\ k \notin Cut
        /\ Numbers' = Append(Numbers, k)
        /\ UNCHANGED Cut
    BY <2>1, <2>2, <2>3, <2>4, StepHandOver
  <2>6. Channel!HandOver(k)
    <3>1. \A j \in Channel!HandedOver : j < k
      BY <2>5, HandedOverIs
    <3>2. UNCHANGED Len(msgs)
      BY <2>2
    <3>3. QED BY <2>5, <3>1, <3>2 DEF Channel!HandOver
  <2>7. Channel!NothingSkipped(k)
    BY <2>1, <2>2, NothingIsSkipped DEF Channel!NothingSkipped
  <2>8. QED BY <2>5, <2>6, <2>7 DEF Channel!ReliableNext
<1>2. CASE ~ParseWhole /\ ~FillComplete
  BY <1>2, QuietStep DEF Channel!ReliableNext
<1>3. QED BY <1>1, <1>2

\* With a simulator that paces its writes the sensor stream of a driver loses
\* nothing: each message is handed over once, in order and whole, unless its
\* sender cut it short, whatever the lengths (UnixSocketServer and its Run).
THEOREM PacedIsReliableChannel ==
  ASSUME MinChunk >= HeaderSize PROVE PacedSpec => ImplementsReliableChannel
<1>1. Init => Channel!Init
  BY ChannelInit
<1>2. PacedInv /\ [PacedNext]_vars => [Channel!ReliableNext]_Channel!vars
  BY ReliableStep
<1>3. QED
  BY <1>1, <1>2, PacedAlways, PTL DEF PacedSpec, ImplementsReliableChannel,
    Channel!ReliableSpec

=============================================================================
