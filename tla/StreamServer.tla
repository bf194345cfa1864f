---------------------------- MODULE StreamServer ----------------------------
(***************************************************************************)
(* The receiving end of one sensor of the bridge: UnixSocketServer, its    *)
(* server thread (Run), the thread that owns it (Init, Start, Stop) and    *)
(* the simulator that connects to its socket and writes messages.          *)
(*                                                                         *)
(* Every byte the simulator writes is a cell with a number: the cells of   *)
(* one message are consecutive, and the next message, of the same or of a  *)
(* later connection, begins where the previous one ended.  A buffer of the *)
(* code is then an interval of cells, and the MessageHeader that Run reads *)
(* at a cell is valid exactly when a message begins there: payload bytes   *)
(* are assumed not to spell MAGIC_NO and VERSION by accident.  The 32-byte *)
(* header and the 12800-byte buffer are HeaderSize and BufferSize cells.   *)
(***************************************************************************)
EXTENDS Integers, Sequences

CONSTANTS
  HeaderSize,   \* sizeof(MessageHeader), in cells
  BufferSize,   \* buffer_length of Run, in cells
  MinChunk,     \* a read returns at least this much, or all there is
  MsgLengths,   \* the header.msg_len values the simulator uses
  MaxMsgs,      \* bound: messages written over all connections
  MaxConns      \* bound: connections the simulator makes

ASSUME StreamAssumption ==
  /\ HeaderSize \in Nat \ {0}
  /\ BufferSize \in Nat /\ BufferSize >= HeaderSize
  /\ MinChunk \in Nat \ {0}
  /\ MsgLengths \subseteq {n \in Nat : n >= HeaderSize}
  /\ MaxMsgs \in Nat /\ MaxConns \in Nat

VARIABLES
  (* the simulator and the kernel's socket buffers *)
  conns,      \* connections made: their cells are from .. upto - 1
  msgs,       \* messages written: their first cell and their msg_len
  nextAt,     \* the number of the next cell to be written
  (* the owner of the server object *)
  owner,      \* how far Init, Start and Stop have come
  running,    \* running_
  (* the server thread *)
  pc,         \* where Run stands
  cur,        \* the connection behind client_fd; also how many were accepted
  readPos,    \* the next unread cell of that connection
  bufAt,      \* the cell in buffer[0]
  received,   \* bytes_received
  saved,      \* bytes_saved
  hdrLen,     \* header.msg_len of the message being assembled
  frame,      \* the cells copied to msg_buffer so far
  delivered,  \* history: the frames handed to callback_
  leaked      \* msg_buffers allocated and never deleted

peerVars == <<conns, msgs, nextAt>>
ownerVars == <<owner, running>>
bufVars == <<bufAt, received, saved>>
frameVars == <<hdrLen, frame, delivered, leaked>>
threadVars == <<pc, cur, readPos, bufVars, frameVars>>
vars == <<peerVars, ownerVars, threadVars>>

-----------------------------------------------------------------------------
(* Cells, messages and connections                                         *)

Cells(a, n) == [i \in 1..n |-> a + i - 1]

\* Mutant: the check of MAGIC_NO is dropped, any bytes pass for a header.
HeaderUnchecked(k, a) == msgs[k].at <= a

HeaderAt(k, a) == msgs[k].at = a
IsStart(a) == \E k \in DOMAIN msgs : HeaderAt(k, a)

Unread == conns[cur].upto - readPos

\* The sizes a read() may return: never more than the buffer takes.
Chunks == {n \in 1..BufferSize : n <= Unread /\ (n >= MinChunk \/ n = Unread)}

Last == conns[Len(conns)]
PeerOpen == Len(conns) > 0 /\ Last.open

\* The first cell of what the simulator wrote last on its connection.
LastWrite ==
  IF Len(msgs) > 0 /\ msgs[Len(msgs)].at >= Last.from
  THEN msgs[Len(msgs)].at ELSE Last.from

\* The listening socket exists from Bind until Stop closes it.
Listening == owner \in {"bound", "started", "joining"}

-----------------------------------------------------------------------------
(* The simulator                                                           *)

PeerConnect ==
  /\ Listening
  /\ Len(conns) < MaxConns
  /\ ~PeerOpen
  /\ conns' = Append(conns, [from |-> nextAt, upto |-> nextAt, open |-> TRUE])
  /\ UNCHANGED <<msgs, nextAt, ownerVars, threadVars>>

PeerSend(len) ==
  /\ PeerOpen
  /\ Len(msgs) < MaxMsgs
  /\ msgs' = Append(msgs, [at |-> nextAt, len |-> len])
  /\ nextAt' = nextAt + len
  /\ conns' = [conns EXCEPT ![Len(conns)].upto = nextAt + len]
  /\ UNCHANGED <<ownerVars, threadVars>>

\* The simulator hangs up, or dies with its last write only partly made.
PeerClose ==
  /\ PeerOpen
  /\ \E cut \in LastWrite..Last.upto :
       /\ cur = Len(conns) => cut >= readPos
       /\ conns' = [conns EXCEPT ![Len(conns)].upto = cut,
                                 ![Len(conns)].open = FALSE]
  /\ UNCHANGED <<msgs, nextAt, ownerVars, threadVars>>

-----------------------------------------------------------------------------
(* The owner: Init (Bind), Start, and Stop, called by the destructor       *)

InitServer ==
  /\ owner = "constructed"
  /\ owner' \in {"bound", "failed"}
  /\ UNCHANGED <<running, peerVars, threadVars>>

Start ==
  /\ owner = "bound"
  /\ ~running
  /\ owner' = "started"
  /\ running' = TRUE
  /\ pc' = "loop"
  /\ UNCHANGED <<peerVars, cur, readPos, bufVars, frameVars>>

\* Stop clears running_ and then joins the thread: two steps.
StopRequest ==
  /\ owner = "started"
  /\ running
  /\ owner' = "joining"
  /\ running' = FALSE
  /\ UNCHANGED <<peerVars, threadVars>>

\* Mutant: Stop detaches the thread instead of joining it.
StopDetach ==
  /\ owner = "joining"
  /\ owner' = "stopped"
  /\ UNCHANGED <<running, peerVars, threadVars>>

StopJoin ==
  /\ owner = "joining"
  /\ pc = "exited"
  /\ owner' = "stopped"
  /\ UNCHANGED <<running, peerVars, threadVars>>

-----------------------------------------------------------------------------
(* The server thread                                                       *)

\* Mutant: the accept loop does not look at running_.
OuterLoopForever ==
  /\ pc = "loop"
  /\ pc' = "accept"
  /\ UNCHANGED <<peerVars, ownerVars, cur, readPos, bufVars, frameVars>>

OuterLoop ==
  /\ pc = "loop"
  /\ pc' = IF running THEN "accept" ELSE "exited"
  /\ UNCHANGED <<peerVars, ownerVars, cur, readPos, bufVars, frameVars>>

AcceptClient ==
  /\ pc = "accept"
  /\ cur < Len(conns)
  /\ cur' = cur + 1
  /\ readPos' = conns[cur + 1].from
  /\ pc' = "serve"
  /\ UNCHANGED <<peerVars, ownerVars, bufVars, frameVars>>

\* SO_RCVTIMEO on the listening socket: accept() gives up after 5 seconds.
AcceptTimeout ==
  /\ pc = "accept"
  /\ cur = Len(conns)
  /\ pc' = "loop"
  /\ UNCHANGED <<peerVars, ownerVars, cur, readPos, bufVars, frameVars>>

ServeLoop ==
  /\ pc = "serve"
  /\ pc' = IF running THEN "read" ELSE "loop"
  /\ UNCHANGED <<peerVars, ownerVars, cur, readPos, bufVars, frameVars>>

ReadChunk ==
  /\ pc = "read"
  /\ \E n \in Chunks :
       /\ bufAt' = readPos
       /\ received' = n
       /\ saved' = n
       /\ readPos' = readPos + n
  /\ pc' = "parse"
  /\ UNCHANGED <<peerVars, ownerVars, cur, frameVars>>

AtEof == ~conns[cur].open /\ Unread = 0

ReadEof ==
  /\ pc = "read"
  /\ AtEof
  /\ received' = 0
  /\ saved' = 0
  /\ pc' = "loop"
  /\ UNCHANGED <<peerVars, ownerVars, cur, readPos, bufAt, frameVars>>

\* Mutant: a buffer with nothing but a header is dropped (> for >=).
ParseDropHeader ==
  /\ pc = "parse"
  /\ saved <= HeaderSize \/ ~IsStart(bufAt)
  /\ pc' = "serve"
  /\ UNCHANGED <<peerVars, ownerVars, cur, readPos, bufVars, frameVars>>

\* Too little left for a header, or no valid header at buffer[0]: whatever
\* the buffer still holds is forgotten.
ParseDrop ==
  /\ pc = "parse"
  /\ saved < HeaderSize \/ ~IsStart(bufAt)
  /\ pc' = "serve"
  /\ UNCHANGED <<peerVars, ownerVars, cur, readPos, bufVars, frameVars>>

\* Mutant: the bytes are copied from buffer[0], like the header.
CopyFromBuffer0 == bufAt

\* The bytes are copied from where the parse stands, the header is always
\* the one at buffer[0].
CopyFrom == bufAt + received - saved

ParseWhole ==
  /\ pc = "parse"
  /\ saved >= HeaderSize
  /\ \E k \in DOMAIN msgs :
       /\ HeaderAt(k, bufAt)
       /\ saved >= msgs[k].len
       /\ delivered' = Append(delivered, Cells(CopyFrom, msgs[k].len))
       /\ saved' = saved - msgs[k].len
  /\ UNCHANGED <<peerVars, ownerVars, pc, cur, readPos, bufAt, received,
                 hdrLen, frame, leaked>>

ParsePart ==
  /\ pc = "parse"
  /\ saved >= HeaderSize
  /\ \E k \in DOMAIN msgs :
       /\ HeaderAt(k, bufAt)
       /\ saved < msgs[k].len
       /\ hdrLen' = msgs[k].len
  /\ frame' = Cells(CopyFrom, saved)
  /\ saved' = 0
  /\ pc' = "fill"
  /\ UNCHANGED <<peerVars, ownerVars, cur, readPos, bufAt, received,
                 delivered, leaked>>

FillLoop ==
  /\ pc = "fill"
  /\ running
  /\ pc' = "fillread"
  /\ UNCHANGED <<peerVars, ownerVars, cur, readPos, bufVars, frameVars>>

\* Mutant: the fill loop goes on (continue for break) with a new msg_buffer.
FillRetries ==
  /\ leaked' = leaked + 1
  /\ frame' = <<>>
  /\ hdrLen' = hdrLen
  /\ pc' = "fill"

\* The message stays incomplete and its msg_buffer is never deleted.
FillAbandon ==
  /\ leaked' = leaked + 1
  /\ frame' = <<>>
  /\ hdrLen' = 0
  /\ pc' = "serve"

FillStopped ==
  /\ pc = "fill"
  /\ ~running
  /\ FillAbandon
  /\ UNCHANGED <<peerVars, ownerVars, cur, readPos, bufVars, delivered>>

\* Mutant: the fill loop accepts the next client and goes on with it.
FillAcrossClients ==
  /\ pc = "fillread"
  /\ AtEof
  /\ cur < Len(conns)
  /\ cur' = cur + 1
  /\ readPos' = conns[cur + 1].from
  /\ UNCHANGED <<peerVars, ownerVars, pc, bufVars, frameVars>>

FillEof ==
  /\ pc = "fillread"
  /\ AtEof
  /\ received' = 0
  /\ FillAbandon
  /\ UNCHANGED <<peerVars, ownerVars, cur, readPos, bufAt, saved, delivered>>

FillMore ==
  /\ pc = "fillread"
  /\ \E n \in Chunks :
       /\ n < hdrLen - Len(frame)
       /\ frame' = frame \o Cells(readPos, n)
       /\ bufAt' = readPos
       /\ received' = n
       /\ readPos' = readPos + n
  /\ pc' = "fill"
  /\ UNCHANGED <<peerVars, ownerVars, cur, saved, hdrLen, delivered, leaked>>

\* Mutant: the whole message is counted as saved again.
SurplusWholeMessage(n) == IF n > hdrLen - Len(frame) THEN hdrLen ELSE 0

\* When more than the message arrived, msg_len is set to header.msg_len
\* before the surplus is computed from it: bytes_saved grows by all of
\* bytes_received, and the next parse starts at buffer[0] again.
Surplus(n) == IF n > hdrLen - Len(frame) THEN n ELSE 0

FillComplete ==
  /\ pc = "fillread"
  /\ \E n \in Chunks :
       /\ n >= hdrLen - Len(frame)
       /\ delivered' = Append(delivered,
                              frame \o Cells(readPos, hdrLen - Len(frame)))
       /\ saved' = saved + Surplus(n)
       /\ bufAt' = readPos
       /\ received' = n
       /\ readPos' = readPos + n
  /\ frame' = <<>>
  /\ hdrLen' = 0
  /\ pc' = "parse"
  /\ UNCHANGED <<peerVars, ownerVars, cur, leaked>>

-----------------------------------------------------------------------------
(* Specification                                                           *)

Init ==
  /\ conns = <<>> /\ msgs = <<>> /\ nextAt = 0
  /\ owner = "constructed" /\ running = FALSE
  /\ pc = "none" /\ cur = 0 /\ readPos = 0
  /\ bufAt = 0 /\ received = 0 /\ saved = 0
  /\ hdrLen = 0 /\ frame = <<>> /\ delivered = <<>> /\ leaked = 0

Owner == InitServer \/ Start \/ StopRequest \/ StopJoin

Run ==
  \/ OuterLoop \/ AcceptClient \/ AcceptTimeout
  \/ ServeLoop \/ ReadChunk \/ ReadEof
  \/ ParseDrop \/ ParseWhole \/ ParsePart
  \/ FillLoop \/ FillStopped \/ FillEof \/ FillMore \/ FillComplete

Next ==
  \/ PeerConnect \/ PeerClose \/ \E len \in MsgLengths : PeerSend(len)
  \/ Owner
  \/ Run

Spec == Init /\ [][Next]_vars

\* A simulator that writes a message only when the thread has dealt with the
\* one before: what happens when frames are far apart in time.
Drained ==
  IF cur = Len(conns) THEN pc \in {"serve", "read"} /\ Unread = 0
                      ELSE Last.upto = Last.from

PacedSend(len) == PeerOpen /\ Drained /\ PeerSend(len)

PacedNext ==
  \/ PeerConnect \/ PeerClose \/ \E len \in MsgLengths : PacedSend(len)
  \/ Owner
  \/ Run

PacedSpec == Init /\ [][PacedNext]_vars

\* The operating system schedules the thread, and accept() returns within
\* its timeout; the owner's join returns once the thread has exited.
ThreadFairness == WF_vars(Run) /\ WF_vars(StopJoin)

FairSpec == Spec /\ ThreadFairness
FairPacedSpec == PacedSpec /\ ThreadFairness

\* In addition, a simulator that is told to go away does hang up.
HangUpSpec == FairSpec /\ WF_vars(PeerClose)

-----------------------------------------------------------------------------
(* Properties                                                              *)

Frame == Seq(Nat)

\* Type invariant of the server, its owner, its thread and the simulator
\* (unix_socket_server.cc, the members and Run's locals).
TypeOK ==
  /\ conns \in Seq([from : Nat, upto : Nat, open : BOOLEAN])
  /\ msgs \in Seq([at : Nat, len : MsgLengths])
  /\ nextAt \in Nat
  /\ owner \in {"constructed", "bound", "failed", "started", "joining", "stopped"}
  /\ running \in BOOLEAN
  /\ pc \in {"none", "loop", "accept", "serve", "read", "parse", "fill",
             "fillread", "exited"}
  /\ cur \in 0..Len(conns)
  /\ readPos \in Nat /\ bufAt \in Nat
  /\ received \in 0..BufferSize /\ saved \in 0..received
  /\ hdrLen \in MsgLengths \cup {0}
  /\ frame \in Frame /\ delivered \in Seq(Frame)
  /\ leaked \in Nat

\* Every buffer handed to the callback holds exactly one message the
\* simulator wrote, whatever sizes the reads returned and however the
\* simulator died and came back.  True when all messages have one length.
FramesAreMessages ==
  \A i \in DOMAIN delivered :
    \E k \in DOMAIN msgs : delivered[i] = Cells(msgs[k].at, msgs[k].len)

\* No byte reaches the driver twice, and bytes reach it in stream order: the
\* parse that starts again at buffer[0] after a fill (bytes_saved grown by
\* all of bytes_received) must never deliver what it already delivered.
DeliveredInOrder ==
  \A i, j \in DOMAIN delivered :
    i < j => \A a \in DOMAIN delivered[i] : \A b \in DOMAIN delivered[j] :
               delivered[i][a] < delivered[j][b]

\* A frame is an unbroken run of bytes of a single connection, also when
\* messages differ in length: a message left unfinished by a simulator that
\* died is never completed with bytes of the next connection.
FramesAreStreamSegments ==
  \A i \in DOMAIN delivered :
    LET f == delivered[i] IN
    /\ f # <<>>
    /\ f = Cells(f[1], Len(f))
    /\ \E c \in DOMAIN conns :
         conns[c].from <= f[1] /\ f[Len(f)] < conns[c].upto

\* A frame that begins with a message's header is as long as that header's
\* msg_len ("Message length", proto/message-en.h:14).  The header of a
\* second message in one buffer is never looked at, so this fails as soon
\* as two lengths meet in one read.
FrameHasItsHeadersLength ==
  \A i \in DOMAIN delivered : \A k \in DOMAIN msgs :
    delivered[i][1] = msgs[k].at => Len(delivered[i]) = msgs[k].len

\* Frame buffers are lost only by connections that end, or a stop that comes,
\* in the middle of a message, and each accounts for at most one.
LeakBound ==
  /\ leaked <= cur
  /\ pc \in {"fill", "fillread"} => leaked < cur

\* The callback is called only between Start and the return of Stop: what a
\* driver relies on when it destroys itself after Stop.
NoCallbackAfterStop ==
  [][delivered' # delivered => owner \in {"started", "joining"}]_vars

\* Stop returns: the thread is joined (the destructor of every driver waits
\* for this).
StopReturns == owner = "joining" ~> owner = "stopped"

\* The connection of message k ended before all of it was written.
CutShort(k) ==
  \E c \in DOMAIN conns :
    /\ conns[c].from <= msgs[k].at
    /\ conns[c].upto < msgs[k].at + msgs[k].len
    /\ c < Len(conns) => msgs[k].at < conns[c + 1].from

IsMessage(f, k) == f = Cells(msgs[k].at, msgs[k].len)

\* A message is eventually handed to the callback, unless its sender died
\* writing it or the server is being stopped.
EventuallyDelivered ==
  \A k \in 1..MaxMsgs :
    (k \in DOMAIN msgs /\ running)
      ~> \/ ~running
         \/ /\ k \in DOMAIN msgs
            /\ \/ CutShort(k)
               \/ \E i \in DOMAIN delivered : IsMessage(delivered[i], k)

\* The message numbers behind the frames; 0 for a frame that is no message.
Numbers ==
  [i \in DOMAIN delivered |->
     IF \E k \in DOMAIN msgs : IsMessage(delivered[i], k)
     THEN CHOOSE k \in DOMAIN msgs : IsMessage(delivered[i], k)
     ELSE 0]

Channel == INSTANCE MessageChannel
             WITH sent <- Len(msgs), got <- Numbers,
                  cut <- {k \in DOMAIN msgs : CutShort(k)}

\* The byte stream implements a channel that loses messages but never
\* corrupts, duplicates or reorders them (messages of one length).
ImplementsLossyChannel == Channel!LossySpec

\* With a simulator that paces its writes it loses nothing but what the
\* simulator itself cut short, whatever the lengths.
ImplementsReliableChannel == Channel!ReliableSpec

=============================================================================
