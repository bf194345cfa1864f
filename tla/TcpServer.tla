------------------------------ MODULE TcpServer ------------------------------
(***************************************************************************)
(* TcpServer: the same loop as UnixSocketServer on a TCP socket.  The      *)
(* difference is the kernel's: a socket accepted from a TCP listener       *)
(* inherits SO_RCVTIMEO, so read() gives up after 5 seconds of silence;    *)
(* one accepted from a UNIX listener does not, and read() waits for ever.  *)
(***************************************************************************)
EXTENDS StreamServer

\* The simulator's host dies without a word and the simulator connects anew:
\* to the kernel the old connection is still open.  Of what was written there
\* and not read, any rest may be lost.
PeerReconnect ==
  /\ Listening
  /\ PeerOpen
  /\ Len(conns) < MaxConns
  /\ \E cut \in Last.from..Last.upto :
       /\ cur = Len(conns) => cut >= readPos
       /\ conns' = Append([conns EXCEPT ![Len(conns)].upto = cut],
                          [from |-> nextAt, upto |-> nextAt, open |-> TRUE])
  /\ UNCHANGED <<msgs, nextAt, ownerVars, threadVars>>

\* Nothing arrives for 5 seconds: all that is unread may still be on its way;
\* from a dead host nothing is.
Silent == conns[cur].open /\ (cur = Len(conns) \/ Unread = 0)

\* Mutant: a silent client is waited for again (continue for break).
ReadTimeoutRetries ==
  /\ pc = "read"
  /\ Silent
  /\ UNCHANGED vars

\* Between two messages: the client is given up, still connected, and the
\* server goes back to accept().
ReadTimeout ==
  /\ pc = "read"
  /\ Silent
  /\ received' = 0
  /\ saved' = 0
  /\ pc' = "loop"
  /\ UNCHANGED <<peerVars, ownerVars, cur, readPos, bufAt, frameVars>>

\* Mutant: what there is of the message is handed over.
FillTimeoutDelivers ==
  /\ pc = "fillread"
  /\ Silent
  /\ received' = 0
  /\ delivered' = Append(delivered, frame)
  /\ frame' = <<>> /\ hdrLen' = 0
  /\ pc' = "serve"
  /\ UNCHANGED <<peerVars, ownerVars, cur, readPos, bufAt, saved, leaked>>

\* Mutant: the fill loop goes on with a new msg_buffer.
FillTimeoutRetries ==
  /\ pc = "fillread"
  /\ Silent
  /\ received' = 0
  /\ leaked' = leaked + 1
  /\ pc' = "fill"
  /\ UNCHANGED <<peerVars, ownerVars, cur, readPos, bufAt, saved, hdrLen, frame,
                 delivered>>

\* Inside a message: the message is given up, the client is not.
FillTimeout ==
  /\ pc = "fillread"
  /\ Silent
  /\ received' = 0
  /\ FillAbandon
  /\ UNCHANGED <<peerVars, ownerVars, cur, readPos, bufAt, saved, delivered>>

\* Init with Bind, Start, Stop: on a port instead of a path, so that Stop has
\* nothing to unlink and what follows Bind is UnixSocketServer's.
TcpOwner == InitServer \/ Start \/ StopRequest \/ StopJoin

TcpRun == Run \/ ReadTimeout \/ FillTimeout

TcpNext ==
  \/ PeerConnect \/ PeerReconnect \/ PeerClose
  \/ \E len \in MsgLengths : PeerSend(len)
  \/ TcpOwner
  \/ TcpRun

TcpSpec == Init /\ [][TcpNext]_vars

\* Every blocking call of the thread returns by itself within 5 seconds, so
\* fairness of the thread alone is justified, whatever the client does.
TcpFairSpec == TcpSpec /\ WF_vars(TcpRun) /\ WF_vars(StopJoin)

-----------------------------------------------------------------------------

\* A message accounts for one callback or for one lost msg_buffer, never for
\* both and never for two: giving up a message in the middle and going on
\* with the same client (tcp_server.cc:157 and :169) does not revive it.
\* True when all messages have one length.
OneFatePerMessage == leaked + Len(delivered) <= Len(msgs)

\* A simulator that connects again is served, also when its former connection
\* never ended: the timeout of read() (tcp_server.cc:124) frees the thread
\* from a client that is silent for good.  The same line gives up a client
\* that only pauses.
ReconnectIsServed ==
  \A c \in 1..MaxConns : (running /\ c <= Len(conns)) ~> (~running \/ cur >= c)

=============================================================================
