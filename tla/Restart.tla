------------------------------- MODULE Restart -------------------------------
(***************************************************************************)
(* Bridge processes and simulators that stop, crash and start again.  Each *)
(* bridge process brings up the server of one sensor on the same socket    *)
(* file (UnixSocketServer), commands the simulator to connect to it        *)
(* (TcpClient), connects to the simulator's control server                 *)
(* (UnixSocketClient) and then forwards control commands (Proc).  What     *)
(* outlives a process is the socket file and what the simulator knows.     *)
(*                                                                         *)
(* The bytes of the sensor stream are StreamServer's business, the steps   *)
(* of the other drivers' Init are Bridge's.                                *)
(***************************************************************************)
EXTENDS Integers, Sequences
LOCAL INSTANCE FiniteSetsExt

CONSTANTS
  Bridges,      \* the bridge processes, numbered in the order of their starts
  Backlog,      \* the 1 of listen()
  MaxFds,       \* descriptors a process may have beyond those it starts with
  MaxRetries,   \* the 10 of InitControl
  SendBuffer,   \* commands the control socket holds before send() blocks
  MaxSims,      \* bound: simulators started
  MaxCommands   \* bound: commands over all bridge processes

ASSUME RestartAssumption ==
  /\ Bridges \subseteq Nat \ {0}
  /\ Backlog \in Nat /\ MaxRetries \in Nat
  /\ MaxFds \in Nat \ {0} /\ SendBuffer \in Nat \ {0}
  /\ MaxSims \in Nat /\ MaxCommands \in Nat

VARIABLES
  (* the bridge processes *)
  pc,       \* where the main thread of each stands
  fds,      \* descriptors it has open
  tries,    \* control_connection_count
  link,     \* the simulator its control socket is connected to, 0 if none
  thread,   \* where its server thread blocks
  client,   \* client_fd: none, or what the simulator did with the connection
  (* the kernel *)
  file,     \* the process whose socket the path leads to, alive or not
  pending,  \* connections waiting in the backlog
  inbox,    \* commands in the control socket's buffer
  (* the simulator *)
  sim,      \* which simulator, in the order of their starts
  simUp,    \* is it alive?
  told,     \* has it received a vehicle configuration?
  conn,     \* the bridge it is connected to
  (* history *)
  met,      \* processes that were alive at the same time as another
  sent,     \* commands Proc has forwarded, numbered from 1
  got       \* commands executed by the simulator

bridgeVars == <<pc, fds, tries, link, thread, client>>
simVars == <<sim, simUp, told, conn>>
commandVars == <<inbox, sent, got>>
vars == <<bridgeVars, file, pending, simVars, met, commandVars>>

-----------------------------------------------------------------------------

\* Where a path leads when there is no file, whom a simulator is connected
\* to when there is no connection.
NoBridge == 0

Alive(p) == pc[p] \notin {"absent", "dead"}

\* running_ is set from Start until Stop is called.
Running(p) == pc[p] \in {"command", "control", "ready"}

\* The listening socket is open from listen() until Stop has joined.
Listening(p) == pc[p] = "bound" \/ Running(p) \/ pc[p] = "stopping"

Exhausted(p) == fds[p] = MaxFds

\* The simulator's connection is still in the backlog of p.
Queued(p) == conn = p /\ client[p] # "open"
Served(p) == conn = p /\ client[p] = "open"

Goto(p, there) == pc' = [pc EXCEPT ![p] = there]
Opens(p, n) == fds' = [fds EXCEPT ![p] = @ + n]

Init ==
  /\ pc = [p \in Bridges |-> "absent"] /\ fds = [p \in Bridges |-> 0]
  /\ tries = [p \in Bridges |-> 0] /\ link = [p \in Bridges |-> 0]
  /\ thread = [p \in Bridges |-> "none"] /\ client = [p \in Bridges |-> "none"]
  /\ file = NoBridge /\ pending = [p \in Bridges |-> 0]
  /\ inbox = [p \in Bridges |-> <<>>]
  /\ sim = 1 /\ simUp = TRUE /\ told = FALSE /\ conn = NoBridge
  /\ met = {} /\ sent = [p \in Bridges |-> 0] /\ got = [p \in Bridges |-> <<>>]

-----------------------------------------------------------------------------
(* A bridge process: from its start to the success of Init                 *)

Boot(p) ==
  /\ pc[p] = "absent"
  /\ \A q \in Bridges : q < p => pc[q] # "absent"
  /\ Goto(p, "init")
  /\ LET others == {q \in Bridges : Alive(q)} IN
     met' = IF others = {} THEN met ELSE met \cup others \cup {p}
  /\ UNCHANGED <<fds, tries, link, thread, client, file, pending, simVars,
                 commandVars>>

\* Mutant: the file of an earlier bridge is not unlinked.
BindKeepsFile(p) ==
  /\ pc[p] = "init"
  /\ Goto(p, "unlinked")
  /\ Opens(p, 1)
  /\ UNCHANGED <<tries, link, thread, client, file, pending, simVars, met,
                 commandVars>>

\* Bind: socket(), then unlink() of whatever stands at the path.
BindUnlink(p) ==
  /\ pc[p] = "init"
  /\ Goto(p, "unlinked")
  /\ Opens(p, 1)
  /\ file' = NoBridge
  /\ UNCHANGED <<tries, link, thread, client, pending, simVars, met,
                 commandVars>>

\* Mutant: the path is unlinked after bind() instead of before.
BindThenUnlink(p) ==
  /\ pc[p] = "unlinked"
  /\ Goto(p, "bound")
  /\ file' = NoBridge
  /\ UNCHANGED <<fds, tries, link, thread, client, pending, simVars, met,
                 commandVars>>

\* bind() and listen(); bind() fails if the path exists again.  A listen()
\* that fails leaves the file there, as does a crash right after this step.
BindListen(p) ==
  /\ pc[p] = "unlinked"
  /\ IF file = NoBridge THEN Goto(p, "bound") /\ file' = p
                        ELSE Goto(p, "failed") /\ file' = file
  /\ UNCHANGED <<fds, tries, link, thread, client, pending, simVars, met,
                 commandVars>>

StartServer(p) ==
  /\ pc[p] = "bound"
  /\ Goto(p, "command")
  /\ thread' = [thread EXCEPT ![p] = "accept"]
  /\ UNCHANGED <<fds, tries, link, client, file, pending, simVars, met,
                 commandVars>>

\* TcpClient::Connect: a socket, if there is a descriptor left, and a server
\* to connect it to.
TcpConnect(p, ok) ==
  /\ ok => ~Exhausted(p) /\ simUp
  /\ IF Exhausted(p) THEN UNCHANGED fds ELSE Opens(p, 1)

\* A new TcpClient connects and sends; a failure makes Init fail.  Any
\* positive result of send() passes: the simulator may not have all of it.
SendVehicleCommand(p) ==
  /\ pc[p] = "command"
  /\ \/ TcpConnect(p, TRUE) /\ Goto(p, "control") /\ told' \in {told, TRUE}
     \/ TcpConnect(p, FALSE) /\ Goto(p, "stopping") /\ UNCHANGED told
  /\ UNCHANGED <<tries, link, thread, client, file, pending, sim, simUp, conn,
                 met, commandVars>>

\* Mutant: <= for <.
AnotherTryOffByOne(p) == tries[p] <= MaxRetries

AnotherTry(p) == tries[p] < MaxRetries

\* UnixSocketClient::Connect: a new socket each time, which replaces the one
\* of the attempt before without closing it.
UnixConnect(p, ok) ==
  /\ ok => ~Exhausted(p) /\ simUp
  /\ IF Exhausted(p) THEN UNCHANGED fds ELSE Opens(p, 1)

\* One turn of InitControl's loop.  A connection made after too many failures
\* is not used: Init fails, and the component is destroyed, as in every
\* failure.
ConnectControl(p) ==
  /\ pc[p] = "control"
  /\ \/ /\ UnixConnect(p, TRUE)
        /\ link' = [link EXCEPT ![p] = sim]
        /\ Goto(p, IF AnotherTry(p) THEN "ready" ELSE "stopping")
        /\ UNCHANGED tries
     \/ /\ UnixConnect(p, FALSE)
        /\ AnotherTry(p)
        /\ tries' = [tries EXCEPT ![p] = @ + 1]
        /\ UNCHANGED <<pc, link>>
     \/ /\ UnixConnect(p, FALSE)
        /\ ~AnotherTry(p)
        /\ Goto(p, "stopping")
        /\ UNCHANGED <<tries, link>>
  /\ UNCHANGED <<thread, client, file, pending, simVars, met, commandVars>>

-----------------------------------------------------------------------------
(* Proc: a control command of Apollo is forwarded                          *)

\* The simulator Init connected to is still there.
LinkUp(p) == simUp /\ link[p] = sim

Commanding == MapThenSumSet(LAMBDA p : sent[p], Bridges) < MaxCommands

\* Mutant: send() does not wait for room in the socket's buffer.
ProcDoesNotWait(p) ==
  /\ pc[p] = "ready"
  /\ Commanding
  /\ sent' = [sent EXCEPT ![p] = @ + 1]
  /\ inbox' = IF LinkUp(p) /\ Len(inbox[p]) < SendBuffer
              THEN [inbox EXCEPT ![p] = Append(@, sent[p] + 1)] ELSE inbox
  /\ UNCHANGED <<bridgeVars, file, pending, simVars, met, got>>

\* Mutant: a command is sent once more if Proc takes send() for failed.
ProcSendsAgain(p) ==
  /\ pc[p] = "ready"
  /\ Commanding
  /\ LinkUp(p) => Len(inbox[p]) < SendBuffer
  /\ sent' = [sent EXCEPT ![p] = @ + 1]
  /\ inbox' = IF LinkUp(p)
              THEN [inbox EXCEPT ![p] = @ \o <<sent[p] + 1, sent[p] + 1>>]
              ELSE inbox
  /\ UNCHANGED <<bridgeVars, file, pending, simVars, met, got>>

\* Mutant: Proc connects again when the simulator has restarted.
ProcReconnects(p) ==
  /\ pc[p] = "ready"
  /\ Commanding
  /\ simUp
  /\ LinkUp(p) => Len(inbox[p]) < SendBuffer
  /\ link' = [link EXCEPT ![p] = sim]
  /\ sent' = [sent EXCEPT ![p] = @ + 1]
  /\ inbox' = [inbox EXCEPT ![p] = Append(@, sent[p] + 1)]
  /\ UNCHANGED <<pc, fds, tries, thread, client, file, pending, simVars, met,
                 got>>

\* send() waits while the buffer is full.  Its result is not looked at: with
\* the simulator gone the command is lost and Proc returns true.
Proc(p) ==
  /\ pc[p] = "ready"
  /\ Commanding
  /\ LinkUp(p) => Len(inbox[p]) < SendBuffer
  /\ sent' = [sent EXCEPT ![p] = @ + 1]
  /\ inbox' = IF LinkUp(p)
              THEN [inbox EXCEPT ![p] = Append(@, sent[p] + 1)] ELSE inbox
  /\ UNCHANGED <<bridgeVars, file, pending, simVars, met, got>>

-----------------------------------------------------------------------------
(* The end of a bridge process                                             *)

StopServer(p) ==
  /\ pc[p] = "ready"
  /\ Goto(p, "stopping")
  /\ UNCHANGED <<fds, tries, link, thread, client, file, pending, simVars, met,
                 commandVars>>

\* The thread is joined, the listening socket closed, with what waits in its
\* backlog, and the path unlinked, whoever the file belongs to by now.  An
\* accepted connection stays open.
JoinAndUnlink(p) ==
  /\ pc[p] = "stopping"
  /\ thread[p] = "exited"
  /\ Goto(p, "stopped")
  /\ Opens(p, -1)
  /\ pending' = [pending EXCEPT ![p] = 0]
  /\ conn' = IF Queued(p) THEN NoBridge ELSE conn
  /\ file' = NoBridge
  /\ UNCHANGED <<tries, link, thread, client, sim, simUp, told, met,
                 commandVars>>

\* The process ends, by itself or in a crash, and the kernel closes its
\* descriptors.  The socket file stays, and what the simulator has not read.
Die(p) ==
  /\ Alive(p)
  /\ Goto(p, "dead")
  /\ fds' = [fds EXCEPT ![p] = 0]
  /\ tries' = [tries EXCEPT ![p] = 0]
  /\ thread' = [thread EXCEPT ![p] = "none"]
  /\ client' = [client EXCEPT ![p] = "none"]
  /\ pending' = [pending EXCEPT ![p] = 0]
  /\ conn' = IF conn = p THEN NoBridge ELSE conn
  /\ UNCHANGED <<link, file, sim, simUp, told, met, commandVars>>

-----------------------------------------------------------------------------
(* The server thread (StreamServer's Run)                                  *)

OrExits(p, there) ==
  thread' = [thread EXCEPT ![p] = IF Running(p) THEN there ELSE "exited"]

\* What was first in the backlog is accepted: a connection the simulator has
\* closed meanwhile, or, as the last one, the one it has now.
AcceptClient(p) ==
  /\ thread[p] = "accept"
  /\ pending[p] > 0
  /\ ~Exhausted(p)
  /\ pending' = [pending EXCEPT ![p] = @ - 1]
  /\ client' = [client EXCEPT ![p] =
                  IF Queued(p) /\ pending[p] = 1 THEN "open" ELSE "hungup"]
  /\ Opens(p, 1)
  /\ OrExits(p, "read")
  /\ UNCHANGED <<pc, tries, link, file, simVars, met, commandVars>>

\* accept() times out, or fails for want of a descriptor: the thread tries
\* again, unless the server is stopped.
AcceptFails(p) ==
  /\ thread[p] = "accept"
  /\ pending[p] = 0 \/ Exhausted(p)
  /\ OrExits(p, "accept")
  /\ UNCHANGED <<pc, fds, tries, link, client, file, pending, simVars, met,
                 commandVars>>

\* A message: the loop looks at running_ again.
ReadMessage(p) ==
  /\ thread[p] = "read"
  /\ client[p] = "open"
  /\ OrExits(p, "read")
  /\ UNCHANGED <<pc, fds, tries, link, client, file, pending, simVars, met,
                 commandVars>>

\* Mutant: client_fd is closed.
ReadEofCloses(p) ==
  /\ thread[p] = "read"
  /\ client[p] = "hungup"
  /\ client' = [client EXCEPT ![p] = "none"]
  /\ Opens(p, -1)
  /\ OrExits(p, "accept")
  /\ UNCHANGED <<pc, tries, link, file, pending, simVars, met, commandVars>>

\* The simulator hung up: client_fd is forgotten, not closed.
ReadEof(p) ==
  /\ thread[p] = "read"
  /\ client[p] = "hungup"
  /\ client' = [client EXCEPT ![p] = "none"]
  /\ OrExits(p, "accept")
  /\ UNCHANGED <<pc, fds, tries, link, file, pending, simVars, met,
                 commandVars>>

-----------------------------------------------------------------------------
(* The simulator                                                           *)

\* It connects once it has been configured; connect() waits while the
\* backlog is full and is refused at a file whose owner does not listen.
SimConnect(p) ==
  /\ simUp /\ told
  /\ conn = NoBridge
  /\ file = p /\ Listening(p) /\ pending[p] <= Backlog
  /\ conn' = p
  /\ pending' = [pending EXCEPT ![p] = @ + 1]
  /\ UNCHANGED <<bridgeVars, file, sim, simUp, told, met, commandVars>>

HangUp ==
  /\ conn' = NoBridge
  /\ client' = [p \in Bridges |-> IF Served(p) THEN "hungup" ELSE client[p]]

SimClose ==
  /\ conn # NoBridge
  /\ HangUp
  /\ UNCHANGED <<pc, fds, tries, link, thread, file, pending, sim, simUp, told,
                 met, commandVars>>

SimExecute(p) ==
  /\ LinkUp(p)
  /\ inbox[p] # <<>>
  /\ got' = [got EXCEPT ![p] = Append(@, Head(inbox[p]))]
  /\ inbox' = [inbox EXCEPT ![p] = Tail(@)]
  /\ UNCHANGED <<bridgeVars, file, pending, simVars, met, sent>>

SimCrash ==
  /\ simUp
  /\ simUp' = FALSE /\ told' = FALSE
  /\ inbox' = [p \in Bridges |-> <<>>]
  /\ HangUp
  /\ UNCHANGED <<pc, fds, tries, link, thread, file, pending, sim, met, sent,
                 got>>

SimStart ==
  /\ ~simUp
  /\ sim < MaxSims
  /\ sim' = sim + 1 /\ simUp' = TRUE
  /\ UNCHANGED <<bridgeVars, file, pending, told, conn, met, commandVars>>

-----------------------------------------------------------------------------

Main(p) ==
  \/ Boot(p) \/ BindUnlink(p) \/ BindListen(p) \/ StartServer(p)
  \/ SendVehicleCommand(p) \/ ConnectControl(p) \/ Proc(p)
  \/ StopServer(p) \/ JoinAndUnlink(p)

Thread(p) ==
  \/ AcceptClient(p) \/ AcceptFails(p) \/ ReadMessage(p) \/ ReadEof(p)

Simulator ==
  \/ SimClose \/ SimCrash \/ SimStart
  \/ \E p \in Bridges : SimConnect(p) \/ SimExecute(p)

Next == Simulator \/ \E p \in Bridges : Main(p) \/ Thread(p) \/ Die(p)

Spec == Init /\ [][Next]_vars

-----------------------------------------------------------------------------
(* Properties                                                              *)

PhaseTypes ==
  /\ pc \in [Bridges -> {"absent", "init", "unlinked", "bound", "failed",
                         "command", "control", "ready", "stopping", "stopped",
                         "dead"}]
  /\ thread \in [Bridges -> {"none", "accept", "read", "exited"}]
  /\ client \in [Bridges -> {"none", "open", "hungup"}]
  /\ file \in Bridges \cup {NoBridge} /\ conn \in Bridges \cup {NoBridge}
  /\ simUp \in BOOLEAN /\ told \in BOOLEAN
  /\ met \subseteq Bridges

CountTypes ==
  /\ fds \in [Bridges -> 0..MaxFds] /\ tries \in [Bridges -> 0..MaxRetries]
  /\ pending \in [Bridges -> 0..(Backlog + 1)]
  /\ link \in [Bridges -> Nat] /\ sim \in Nat

CommandTypes ==
  /\ sent \in [Bridges -> Nat]
  /\ inbox \in [Bridges -> Seq(Nat)] /\ got \in [Bridges -> Seq(Nat)]

\* Type invariant of the bridge processes, the kernel's state and the
\* simulator (the members of UnixSocketServer, UnixSocketClient and
\* ApolloDttfComponent that outlast a call): no more descriptors, attempts
\* and waiting connections than there may be.
TypeOK == PhaseTypes /\ CountTypes /\ CommandTypes

\* A bridge whose life overlapped with no other's is found at its path for
\* as long as it listens, whatever file an earlier one left there in its
\* crash.  (With an overlap the Stop of one unlinks the file of the other.)
ReachableUnlessOverlap ==
  \A p \in Bridges : Listening(p) /\ p \notin met => file = p

\* bind() fails for the path only when two bridges start at the same time:
\* never for a file left behind by a crash.
BindFailsOnlyInOverlap ==
  \A p \in Bridges : pc[p] = "failed" => p \in met

Count(n) == [k \in 1..n |-> k]

\* While the simulator that Init connected to lives, no command that Proc
\* has forwarded is lost, repeated or overtaken: those executed and those in
\* the socket, in this order, are all of them.  Proc cannot tell, it returns
\* true in any case, also when the simulator is gone.
NoCommandLost ==
  \A p \in Bridges : LinkUp(p) => got[p] \o inbox[p] = Count(sent[p])

\* The commands of one bridge, as a channel of MessageChannel.
Commands(p) == INSTANCE MessageChannel
                 WITH sent <- sent[p], got <- got[p], cut <- {}

\* Whatever crashes and restarts, a simulator never executes a command twice,
\* nor one before which it has missed another of the same bridge.
\* (This is Commands(p)!ReliableSpec for every p, in a form TLC checks.)
CommandsAreReliableUntilLost ==
  /\ \A p \in Bridges : Commands(p)!Init
  /\ [][\A p \in Bridges :
          [Commands(p)!ReliableNext]_<<sent[p], got[p]>>]_vars

\* Out of descriptors once, out of descriptors for good: no simulator that
\* reconnects is accepted again before Stop, because no client_fd and no
\* socket of a failed attempt is ever closed.
ExhaustedForGood ==
  [][\A p \in Bridges :
       Running(p) /\ Exhausted(p) /\ Running(p)' => Exhausted(p)']_vars

\* A simulator that restarts is lost for a bridge that is up: Proc goes on
\* sending to the one that is gone, nothing it sends is executed any more, and
\* only a bridge that starts after it gives the new simulator the vehicle
\* configuration, without which it connects to nobody.  Init is the only place
\* where either connection is made.
RestartedSimulatorStaysLost ==
  [][\A p \in Bridges :
       pc[p] = "ready" /\ ~LinkUp(p) /\ pc'[p] = "ready" =>
         /\ ~LinkUp(p)'
         /\ got'[p] = got[p]
         /\ ~told /\ told' => \E q \in Bridges \ {p} : pc[q] = "command"]_vars

-----------------------------------------------------------------------------
(* The inductive invariant behind the safety properties                    *)

\* The descriptor of the listening socket is open while the code thinks so.
DescriptorInv ==
  \A p \in Bridges :
    /\ pc[p] \in {"absent", "init"} => fds[p] = 0
    /\ Listening(p) \/ pc[p] = "unlinked" => fds[p] > 0

\* A thread that waits in accept() or read() has its socket.
ThreadInv ==
  \A p \in Bridges : thread[p] \in {"accept", "read"} => Listening(p)

\* Who has met no other process is alone.
AloneInv ==
  \A p, q \in Bridges : Alive(p) /\ Alive(q) /\ p \notin met => p = q

PathInv ==
  \A p \in Bridges \ met :
    /\ pc[p] = "unlinked" => file = NoBridge
    /\ Listening(p) => file = p
    /\ pc[p] # "failed"

BeforeProc == {"absent", "init", "unlinked", "bound", "failed", "command",
               "control"}

\* What is executed is a beginning of what was sent; as long as the link is
\* up the socket holds exactly the rest.
CommandInv ==
  \A p \in Bridges :
    /\ link[p] <= sim
    /\ pc[p] \in BeforeProc => sent[p] = 0 /\ got[p] = <<>> /\ inbox[p] = <<>>
    /\ Len(got[p]) <= sent[p]
    /\ got[p] = Count(Len(got[p]))
    /\ LinkUp(p) =>
         /\ Len(inbox[p]) = sent[p] - Len(got[p])
         /\ \A i \in 1..Len(inbox[p]) : inbox[p][i] = Len(got[p]) + i

RestartInv ==
  /\ TypeOK /\ DescriptorInv /\ ThreadInv
  /\ AloneInv /\ PathInv /\ CommandInv

=============================================================================
