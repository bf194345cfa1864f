--------------------------- MODULE RestartProofs ---------------------------
(***************************************************************************)
(* Restart for any number of bridge processes, descriptors, retries and    *)
(* simulators: a bridge that met no other is found at its path, and no     *)
(* command is lost while the simulator Init connected to lives.            *)
(***************************************************************************)
EXTENDS Restart, SequenceTheorems, TLAPS

USE DEF NoBridge

-----------------------------------------------------------------------------
(* Initial states, and the cases of a step                                 *)

LEMMA InitInv == ASSUME RestartAssumption PROVE Init => RestartInv
<1> SUFFICES ASSUME Init PROVE RestartInv
  OBVIOUS
<1> USE RestartAssumption DEF RestartAssumption, Init
<1>1. TypeOK
  <2>1. PhaseTypes
    BY DEF PhaseTypes
  <2>2. CountTypes
    BY DEF CountTypes
  <2>3. CommandTypes
    BY DEF CommandTypes
  <2>4. QED BY <2>1, <2>2, <2>3 DEF TypeOK
<1>2. DescriptorInv
  BY DEF DescriptorInv, Listening, Running
<1>3. AloneInv
  BY DEF AloneInv, Alive
<1>4. PathInv
  BY DEF PathInv, Listening, Running
<1>5. CommandInv
  BY DEF CommandInv, Count, LinkUp, BeforeProc
<1>6. ThreadInv
  BY DEF ThreadInv
<1>7. QED BY <1>1, <1>2, <1>3, <1>4, <1>5, <1>6 DEF RestartInv

\* What Goto and Opens do to the functions they change.
LEMMA GotoFacts ==
  ASSUME PhaseTypes, NEW p \in Bridges, NEW there, Goto(p, there)
  PROVE  /\ pc'[p] = there
         /\ \A q \in Bridges : q # p => pc'[q] = pc[q]
         /\ DOMAIN pc' = Bridges
BY DEF PhaseTypes, Goto

LEMMA OpensFacts ==
  ASSUME CountTypes, NEW p \in Bridges, NEW n \in Int, Opens(p, n)
  PROVE  /\ fds'[p] = fds[p] + n
         /\ \A q \in Bridges : q # p => fds'[q] = fds[q]
         /\ DOMAIN fds' = Bridges
BY DEF CountTypes, Opens

-----------------------------------------------------------------------------
(* The path                                                                *)

\* Who acts is alive; if it has met no other, no other is.
LEMMA PathFrame ==
  ASSUME AloneInv, PathInv, NEW p \in Bridges, Alive(p), met' = met,
         \A q \in Bridges : q # p => pc'[q] = pc[q],
         p \notin met =>
           /\ pc'[p] = "unlinked" => file' = NoBridge
           /\ Listening(p)' => file' = p
           /\ pc'[p] # "failed"
  PROVE  AloneInv' /\ PathInv'
<1>1. AloneInv'
  BY DEF AloneInv, Alive
<1>2. \A q \in Bridges \ met : q # p => pc[q] \in {"absent", "dead"}
  BY DEF AloneInv, Alive
<1>3. PathInv'
  BY <1>2 DEF PathInv, Listening, Running
<1>4. QED BY <1>1, <1>3

LEMMA PathStutter ==
  ASSUME AloneInv, PathInv, UNCHANGED <<pc, file, met>>
  PROVE  AloneInv' /\ PathInv'
BY DEF AloneInv, PathInv, Alive, Listening, Running

\* Only a process that is alive changes pc, met or file, and only Boot makes
\* one alive.
LEMMA PathStep ==
  ASSUME PhaseTypes, AloneInv, PathInv, [Next]_vars
  PROVE  AloneInv' /\ PathInv'
<1>1. ASSUME NEW p \in Bridges, Boot(p) PROVE AloneInv' /\ PathInv'
  <2>1. /\ \A q \in Bridges : q # p => pc'[q] = pc[q]
        /\ pc[p] = "absent" /\ pc'[p] = "init" /\ file' = file
    BY <1>1, GotoFacts DEF Boot
  <2>2. /\ met \subseteq met'
        /\ \A q \in Bridges : Alive(q) => q \in met' /\ p \in met'
    BY <1>1 DEF Boot
  <2>3. AloneInv'
    BY <2>1, <2>2 DEF AloneInv, Alive
  <2>4. PathInv'
    BY <2>1, <2>2 DEF PathInv, Listening, Running
  <2>5. QED BY <2>3, <2>4
<1>2. ASSUME NEW p \in Bridges, BindUnlink(p) PROVE AloneInv' /\ PathInv'
  <2>1. /\ pc[p] = "init" /\ Goto(p, "unlinked") /\ file' = NoBridge
        /\ met' = met
    BY <1>2 DEF BindUnlink
  <2>2. QED BY <2>1, GotoFacts, PathFrame DEF Alive, Listening, Running
<1>3. ASSUME NEW p \in Bridges, BindListen(p) PROVE AloneInv' /\ PathInv'
  <2>1. /\ pc[p] = "unlinked" /\ met' = met
        /\ \/ file = NoBridge /\ Goto(p, "bound") /\ file' = p
           \/ file # NoBridge /\ Goto(p, "failed")
    BY <1>3 DEF BindListen
  <2>2. p \notin met => file = NoBridge
    BY <2>1 DEF PathInv
  <2>3. QED BY <2>1, <2>2, GotoFacts, PathFrame DEF Alive, Listening, Running
<1>4. ASSUME NEW p \in Bridges, NEW there, Goto(p, there), Listening(p),
             there # "unlinked", there # "failed", UNCHANGED <<file, met>>
      PROVE  AloneInv' /\ PathInv'
  <2>1. p \notin met => file' = p
    BY <1>4 DEF PathInv
  <2>2. QED
    BY <1>4, <2>1, GotoFacts, PathFrame DEF Alive, Listening, Running
<1>5. ASSUME NEW p \in Bridges, StartServer(p) PROVE AloneInv' /\ PathInv'
  BY <1>4, <1>5 DEF StartServer, Listening
<1>6. ASSUME NEW p \in Bridges, SendVehicleCommand(p)
      PROVE  AloneInv' /\ PathInv'
  BY <1>4, <1>6 DEF SendVehicleCommand, TcpConnect, Listening, Running
<1>7. ASSUME NEW p \in Bridges, ConnectControl(p) PROVE AloneInv' /\ PathInv'
  <2>1. /\ UNCHANGED <<file, met>> /\ Listening(p)
        /\ \/ Goto(p, IF AnotherTry(p) THEN "ready" ELSE "stopping")
           \/ Goto(p, "stopping")
           \/ pc' = pc
    BY <1>7 DEF ConnectControl, UnixConnect, Listening, Running
  <2>2. QED BY <1>4, <2>1, PathStutter
<1>8. ASSUME NEW p \in Bridges, StopServer(p) PROVE AloneInv' /\ PathInv'
  BY <1>4, <1>8 DEF StopServer, Listening, Running
<1>9. ASSUME NEW p \in Bridges, JoinAndUnlink(p) PROVE AloneInv' /\ PathInv'
  <2>1. pc[p] = "stopping" /\ Goto(p, "stopped") /\ met' = met
    BY <1>9 DEF JoinAndUnlink
  <2>2. QED BY <2>1, GotoFacts, PathFrame DEF Alive, Listening, Running
<1>10. ASSUME NEW p \in Bridges, Die(p) PROVE AloneInv' /\ PathInv'
  <2>1. Alive(p) /\ Goto(p, "dead") /\ met' = met
    BY <1>10 DEF Die
  <2>2. QED BY <2>1, GotoFacts, PathFrame DEF Listening, Running
<1>11. ASSUME NEW p \in Bridges, Proc(p) \/ Thread(p)
       PROVE  AloneInv' /\ PathInv'
  <2>1. UNCHANGED <<pc, file, met>>
    BY <1>11 DEF Proc, Thread, AcceptClient, AcceptFails, ReadMessage, ReadEof,
                 bridgeVars
  <2>2. QED BY <2>1, PathStutter
<1>12. ASSUME Simulator PROVE AloneInv' /\ PathInv'
  <2>1. UNCHANGED <<pc, file, met>>
    BY <1>12 DEF Simulator, SimClose, SimCrash, SimStart, SimConnect,
                 SimExecute, bridgeVars
  <2>2. QED BY <2>1, PathStutter
<1>13. CASE UNCHANGED vars
  BY <1>13, PathStutter DEF vars, bridgeVars
<1>14. QED
  BY <1>1, <1>2, <1>3, <1>5, <1>6, <1>7, <1>8, <1>9, <1>10, <1>11, <1>12,
     <1>13 DEF Next, Main

-----------------------------------------------------------------------------
(* Types and descriptors                                                   *)

LEMMA PhaseStep ==
  ASSUME PhaseTypes, [Next]_vars
  PROVE  PhaseTypes'
<1> USE DEF PhaseTypes, Goto, bridgeVars, simVars
<1>1. ASSUME NEW p \in Bridges, Boot(p) PROVE PhaseTypes'
  <2>1. met' \subseteq Bridges
    BY <1>1 DEF Boot
  <2>2. QED BY <1>1, <2>1 DEF Boot
<1>2. ASSUME NEW p \in Bridges, BindUnlink(p) \/ BindListen(p)
      PROVE  PhaseTypes'
  BY <1>2 DEF BindUnlink, BindListen
<1>3. ASSUME NEW p \in Bridges, StartServer(p) \/ StopServer(p)
      PROVE  PhaseTypes'
  BY <1>3 DEF StartServer, StopServer
<1>4. ASSUME NEW p \in Bridges, SendVehicleCommand(p) PROVE PhaseTypes'
  BY <1>4 DEF SendVehicleCommand, TcpConnect
<1>5. ASSUME NEW p \in Bridges, ConnectControl(p) PROVE PhaseTypes'
  BY <1>5 DEF ConnectControl, UnixConnect
<1>6. ASSUME NEW p \in Bridges, Proc(p) PROVE PhaseTypes'
  BY <1>6 DEF Proc
<1>7. ASSUME NEW p \in Bridges, JoinAndUnlink(p) PROVE PhaseTypes'
  BY <1>7 DEF JoinAndUnlink
<1>8. ASSUME NEW p \in Bridges, Die(p) PROVE PhaseTypes'
  BY <1>8 DEF Die
<1>9. ASSUME NEW p \in Bridges, Thread(p) PROVE PhaseTypes'
  BY <1>9 DEF Thread, AcceptClient, AcceptFails, ReadMessage, ReadEof, OrExits
<1>10. ASSUME Simulator PROVE PhaseTypes'
  BY <1>10 DEF Simulator, SimClose, SimCrash, SimStart, SimConnect,
               SimExecute, HangUp
<1>11. CASE UNCHANGED vars
  BY <1>11 DEF vars
<1>12. QED
  BY <1>1, <1>2, <1>3, <1>4, <1>5, <1>6, <1>7, <1>8, <1>9, <1>10, <1>11
  DEF Next, Main

LEMMA ThreadStep ==
  ASSUME PhaseTypes, ThreadInv, [Next]_vars
  PROVE  ThreadInv'
<1> USE DEF ThreadInv, Listening, Running
<1>1. ASSUME NEW p \in Bridges, NEW there, Goto(p, there), thread' = thread,
             Listening(p) => Listening(p)'
      PROVE  ThreadInv'
  BY <1>1, GotoFacts
<1>2. ASSUME UNCHANGED <<pc, thread>> PROVE ThreadInv'
  BY <1>2
<1>3. ASSUME NEW p \in Bridges,
             Boot(p) \/ BindUnlink(p) \/ BindListen(p) \/ StopServer(p)
      PROVE  ThreadInv'
  BY <1>1, <1>3, GotoFacts DEF Boot, BindUnlink, BindListen, StopServer
<1>4. ASSUME NEW p \in Bridges, StartServer(p) PROVE ThreadInv'
  <2>1. pc'[p] = "command" /\ \A q \in Bridges : q # p => pc'[q] = pc[q]
    BY <1>4, GotoFacts DEF StartServer
  <2>2. \A q \in Bridges : q # p => thread'[q] = thread[q]
    BY <1>4 DEF StartServer, PhaseTypes
  <2>3. QED BY <2>1, <2>2
<1>5. ASSUME NEW p \in Bridges, SendVehicleCommand(p) PROVE ThreadInv'
  BY <1>1, <1>5, GotoFacts DEF SendVehicleCommand, TcpConnect
<1>6. ASSUME NEW p \in Bridges, ConnectControl(p) PROVE ThreadInv'
  <2>1. thread' = thread
        /\ \/ Goto(p, IF AnotherTry(p) THEN "ready" ELSE "stopping")
           \/ Goto(p, "stopping")
           \/ pc' = pc
    BY <1>6 DEF ConnectControl, UnixConnect
  <2>2. QED BY <1>1, <1>2, <2>1, GotoFacts
<1>7. ASSUME NEW p \in Bridges, JoinAndUnlink(p) \/ Die(p) PROVE ThreadInv'
  <2>1. \A q \in Bridges : q # p => pc'[q] = pc[q]
    BY <1>7, GotoFacts DEF JoinAndUnlink, Die
  <2>2. /\ thread'[p] \notin {"accept", "read"}
        /\ \A q \in Bridges : q # p => thread'[q] = thread[q]
    BY <1>7 DEF JoinAndUnlink, Die, PhaseTypes
  <2>3. QED BY <2>1, <2>2
<1>8. ASSUME NEW p \in Bridges, Thread(p) PROVE ThreadInv'
  <2>1. /\ pc' = pc /\ thread[p] \in {"accept", "read"}
        /\ \A q \in Bridges : q # p => thread'[q] = thread[q]
    BY <1>8 DEF Thread, AcceptClient, AcceptFails, ReadMessage, ReadEof,
                OrExits, PhaseTypes
  <2>2. QED BY <2>1
<1>9. ASSUME NEW p \in Bridges, Proc(p) PROVE ThreadInv'
  BY <1>2, <1>9 DEF Proc, bridgeVars
<1>10. ASSUME Simulator PROVE ThreadInv'
  BY <1>2, <1>10 DEF Simulator, SimClose, SimCrash, SimStart, SimConnect,
                     SimExecute, bridgeVars
<1>11. CASE UNCHANGED vars
  BY <1>2, <1>11 DEF vars, bridgeVars
<1>12. QED
  BY <1>3, <1>4, <1>5, <1>6, <1>7, <1>8, <1>9, <1>10, <1>11 DEF Next, Main

DescriptorType == fds \in [Bridges -> 0..MaxFds]

\* A process opens a descriptor only when it has one left, and closes only
\* the listening socket, which it has opened before.
LEMMA DescriptorStep ==
  ASSUME RestartAssumption, PhaseTypes, DescriptorType, DescriptorInv,
         ThreadInv, [Next]_vars
  PROVE  DescriptorType' /\ DescriptorInv'
<1> DEFINE One(p) == /\ fds'[p] \in 0..MaxFds
                     /\ pc'[p] \in {"absent", "init"} => fds'[p] = 0
                     /\ Listening(p)' \/ pc'[p] = "unlinked" => fds'[p] > 0
           Opened(p, n) == /\ fds'[p] = fds[p] + n
                           /\ \A q \in Bridges : q # p => fds'[q] = fds[q]
                           /\ DOMAIN fds' = Bridges
           Kept(p) == /\ fds' = fds
                      /\ Listening(p)' \/ pc'[p] = "unlinked" =>
                           Listening(p) \/ pc[p] = "unlinked"
                      /\ pc'[p] \in {"absent", "init"} =>
                           pc[p] \in {"absent", "init"}
<1>0. MaxFds \in Nat \ {0}
  BY DEF RestartAssumption
<1>1. ASSUME NEW p \in Bridges, NEW n \in {-1, 0, 1}, Opens(p, n)
      PROVE  Opened(p, n)
  BY <1>1 DEF Opens, DescriptorType
<1>2. ASSUME NEW p \in Bridges, One(p),
             \A q \in Bridges : q # p => pc'[q] = pc[q] /\ fds'[q] = fds[q],
             fds' \in [Bridges -> Int]
      PROVE  DescriptorType' /\ DescriptorInv'
  <2>1. \A q \in Bridges : fds'[q] \in 0..MaxFds
    BY <1>2 DEF DescriptorType
  <2>2. DescriptorType'
    BY <1>2, <2>1 DEF DescriptorType
  <2>3. DescriptorInv'
    BY <1>2 DEF DescriptorInv, Listening, Running
  <2>4. QED BY <2>2, <2>3
<1>3. ASSUME NEW p \in Bridges, Kept(p),
             \A q \in Bridges : q # p => pc'[q] = pc[q]
      PROVE  DescriptorType' /\ DescriptorInv'
  <2>1. DescriptorType'
    BY <1>3 DEF DescriptorType
  <2>2. DescriptorInv'
    BY <1>3 DEF DescriptorInv, Listening, Running
  <2>3. QED BY <2>1, <2>2
<1>4. ASSUME UNCHANGED <<pc, fds>> PROVE DescriptorType' /\ DescriptorInv'
  BY <1>4 DEF DescriptorType, DescriptorInv, Listening, Running
<1>5. ASSUME NEW p \in Bridges,
             \/ Boot(p) \/ BindListen(p) \/ StartServer(p) \/ StopServer(p)
      PROVE  DescriptorType' /\ DescriptorInv'
  <2>1. fds' = fds
    BY <1>5 DEF Boot, BindListen, StartServer, StopServer
  <2>2. PICK there : Goto(p, there) /\ (there = "init" => pc[p] = "absent")
                     /\ there # "unlinked" /\ there # "absent"
                     /\ \/ there \in {"init", "failed"}
                        \/ Listening(p) \/ pc[p] = "unlinked"
    BY <1>5 DEF Boot, BindListen, StartServer, StopServer, Listening, Running
  <2>3. Kept(p) /\ \A q \in Bridges : q # p => pc'[q] = pc[q]
    BY <2>1, <2>2, GotoFacts DEF Listening, Running
  <2>4. QED BY <1>3, <2>3
<1>6. ASSUME NEW p \in Bridges, BindUnlink(p)
      PROVE  DescriptorType' /\ DescriptorInv'
  <2>1. Opened(p, 1) /\ fds[p] = 0 /\ pc'[p] = "unlinked"
        /\ \A q \in Bridges : q # p => pc'[q] = pc[q]
    BY <1>1, <1>6, GotoFacts DEF BindUnlink, DescriptorInv
  <2>2. One(p) /\ fds' \in [Bridges -> Int]
    BY <1>0, <2>1, <1>6 DEF BindUnlink, Opens, DescriptorType, Listening,
                            Running
  <2>3. QED BY <1>2, <2>1, <2>2
<1>7. ASSUME NEW p \in Bridges, SendVehicleCommand(p) \/ ConnectControl(p)
      PROVE  DescriptorType' /\ DescriptorInv'
  <2>1. Running(p) /\ fds[p] > 0 /\ fds[p] \in 0..MaxFds
    BY <1>7 DEF SendVehicleCommand, TcpConnect, ConnectControl, UnixConnect,
                Running, Listening,
                DescriptorInv, DescriptorType
  <2>2. pc'[p] \in {"command", "control", "ready", "stopping"}
        /\ \A q \in Bridges : q # p => pc'[q] = pc[q]
    BY <1>7 DEF SendVehicleCommand, TcpConnect, ConnectControl, UnixConnect,
                Goto, PhaseTypes
  <2>3. IF fds[p] = MaxFds THEN fds' = fds ELSE Opens(p, 1)
    BY <1>7 DEF SendVehicleCommand, TcpConnect, ConnectControl, UnixConnect,
                Exhausted
  <2>4. fds'[p] \in 1..MaxFds /\ fds' \in [Bridges -> Int]
        /\ \A q \in Bridges : q # p => fds'[q] = fds[q]
    BY <1>0, <1>1, <2>1, <2>3 DEF DescriptorType, Opens
  <2>5. QED BY <1>2, <2>2, <2>4 DEF Listening, Running
<1>8. ASSUME NEW p \in Bridges, JoinAndUnlink(p)
      PROVE  DescriptorType' /\ DescriptorInv'
  <2>1. Opens(p, -1) /\ fds[p] > 0 /\ pc'[p] = "stopped"
        /\ \A q \in Bridges : q # p => pc'[q] = pc[q]
    BY <1>8, GotoFacts DEF JoinAndUnlink, DescriptorInv, Listening
  <2>2. Opened(p, -1)
    BY <1>1, <2>1
  <2>3. fds[p] \in 0..MaxFds /\ fds' \in [Bridges -> Int]
    BY <2>1 DEF DescriptorType, Opens
  <2>4. fds'[p] \in 0..MaxFds
    BY <1>0, <2>1, <2>2, <2>3
  <2>5. QED BY <1>2, <2>1, <2>2, <2>3, <2>4 DEF Listening, Running
<1>9. ASSUME NEW p \in Bridges, Die(p) PROVE DescriptorType' /\ DescriptorInv'
  <2>1. pc'[p] = "dead" /\ \A q \in Bridges : q # p => pc'[q] = pc[q]
    BY <1>9, GotoFacts DEF Die
  <2>2. fds' = [fds EXCEPT ![p] = 0]
    BY <1>9 DEF Die
  <2>3. QED BY <1>0, <1>2, <2>1, <2>2 DEF DescriptorType, Listening, Running
<1>10. ASSUME NEW p \in Bridges, AcceptClient(p)
       PROVE  DescriptorType' /\ DescriptorInv'
  <2>1. Opens(p, 1) /\ fds[p] # MaxFds /\ pc' = pc /\ Listening(p)
    BY <1>10 DEF AcceptClient, Exhausted, ThreadInv
  <2>2. Opened(p, 1)
    BY <1>1, <2>1
  <2>3. fds[p] \in 0..MaxFds /\ fds' \in [Bridges -> Int]
    BY <2>1 DEF DescriptorType, Opens
  <2>4. fds'[p] \in 0..MaxFds /\ fds'[p] > fds[p]
    BY <1>0, <2>1, <2>2, <2>3
  <2>5. DescriptorType'
    BY <2>2, <2>3, <2>4 DEF DescriptorType
  <2>6. DescriptorInv'
    BY <1>0, <2>1, <2>2, <2>3, <2>4 DEF DescriptorInv, Listening, Running
  <2>7. QED BY <2>5, <2>6
<1>11. ASSUME NEW p \in Bridges,
              Proc(p) \/ AcceptFails(p) \/ ReadMessage(p) \/ ReadEof(p)
       PROVE  DescriptorType' /\ DescriptorInv'
  <2>1. UNCHANGED <<pc, fds>>
    BY <1>11 DEF Proc, AcceptFails, ReadMessage, ReadEof, bridgeVars
  <2>2. QED BY <1>4, <2>1
<1>12. ASSUME Simulator PROVE DescriptorType' /\ DescriptorInv'
  <2>1. UNCHANGED <<pc, fds>>
    BY <1>12 DEF Simulator, SimClose, SimCrash, SimStart, SimConnect,
                 SimExecute, bridgeVars
  <2>2. QED BY <1>4, <2>1
<1>13. CASE UNCHANGED vars
  BY <1>4, <1>13 DEF vars, bridgeVars
<1>14. QED
  BY <1>5, <1>6, <1>7, <1>8, <1>9, <1>10, <1>11, <1>12, <1>13
  DEF Next, Main, Thread

-----------------------------------------------------------------------------
(* Attempts, waiting connections, commands                                 *)

TryTypes ==
  tries \in [Bridges -> 0..MaxRetries] /\ pending \in [Bridges -> 0..(Backlog + 1)]

LEMMA TryStep ==
  ASSUME RestartAssumption, TryTypes, [Next]_vars
  PROVE  TryTypes'
<1> USE DEF TryTypes
<1>0. MaxRetries \in Nat /\ Backlog \in Nat
  BY DEF RestartAssumption
<1>1. ASSUME NEW p \in Bridges, ConnectControl(p) PROVE TryTypes'
  <2>1. tries[p] \in 0..MaxRetries /\ pending' = pending
    BY <1>1 DEF ConnectControl, UnixConnect
  <2>2. \/ tries' = tries
        \/ tries[p] < MaxRetries /\ tries' = [tries EXCEPT ![p] = @ + 1]
    BY <1>1 DEF ConnectControl, UnixConnect, AnotherTry
  <2>3. QED BY <1>0, <2>1, <2>2
<1>2. ASSUME NEW p \in Bridges, JoinAndUnlink(p) \/ Die(p) PROVE TryTypes'
  BY <1>0, <1>2 DEF JoinAndUnlink, Die
<1>3. ASSUME NEW p \in Bridges, AcceptClient(p) PROVE TryTypes'
  <2>1. pending[p] \in 0..(Backlog + 1) /\ pending[p] > 0 /\ tries' = tries
        /\ pending' = [pending EXCEPT ![p] = @ - 1]
    BY <1>3 DEF AcceptClient
  <2>2. QED BY <1>0, <2>1
<1>4. ASSUME NEW p \in Bridges, SimConnect(p) PROVE TryTypes'
  <2>1. pending[p] \in 0..(Backlog + 1) /\ pending[p] <= Backlog
        /\ tries' = tries /\ pending' = [pending EXCEPT ![p] = @ + 1]
    BY <1>4 DEF SimConnect, bridgeVars
  <2>2. QED BY <1>0, <2>1
<1>5. ASSUME NEW p \in Bridges,
             \/ Boot(p) \/ BindUnlink(p) \/ BindListen(p) \/ StartServer(p)
             \/ SendVehicleCommand(p) \/ Proc(p) \/ StopServer(p)
             \/ AcceptFails(p) \/ ReadMessage(p) \/ ReadEof(p)
             \/ SimExecute(p)
      PROVE  TryTypes'
  <2>1. UNCHANGED <<tries, pending>>
    BY <1>5 DEF Boot, BindUnlink, BindListen, StartServer,
                SendVehicleCommand, TcpConnect,
                Proc, StopServer, AcceptFails, ReadMessage, ReadEof,
                SimExecute, bridgeVars
  <2>2. QED BY <2>1
<1>6. ASSUME SimClose \/ SimCrash \/ SimStart PROVE TryTypes'
  BY <1>6 DEF SimClose, SimCrash, SimStart, bridgeVars
<1>7. CASE UNCHANGED vars
  BY <1>7 DEF vars, bridgeVars
<1>8. QED
  BY <1>1, <1>2, <1>3, <1>4, <1>5, <1>6, <1>7
  DEF Next, Main, Thread, Simulator

LinkTypes == link \in [Bridges -> Nat] /\ sim \in Nat /\ simUp \in BOOLEAN

LEMMA LinkStep ==
  ASSUME LinkTypes, [Next]_vars
  PROVE  LinkTypes'
<1> USE DEF LinkTypes
<1>1. ASSUME NEW p \in Bridges, ConnectControl(p) PROVE LinkTypes'
  BY <1>1 DEF ConnectControl, UnixConnect, simVars
<1>2. ASSUME NEW p \in Bridges, Main(p) \/ Thread(p) \/ Die(p),
             ~ConnectControl(p)
      PROVE  LinkTypes'
  <2>1. UNCHANGED <<link, sim, simUp>>
    BY <1>2 DEF Main, Thread, Die, Boot, BindUnlink, BindListen, StartServer,
                SendVehicleCommand, TcpConnect, Proc, StopServer,
                JoinAndUnlink,
                AcceptClient, AcceptFails, ReadMessage, ReadEof, bridgeVars,
                simVars
  <2>2. QED BY <2>1
<1>3. ASSUME Simulator PROVE LinkTypes'
  <2>1. CASE SimStart
    BY <2>1 DEF SimStart, bridgeVars
  <2>2. CASE SimCrash
    BY <2>2 DEF SimCrash
  <2>3. CASE SimClose \/ \E p \in Bridges : SimConnect(p) \/ SimExecute(p)
    <3>1. UNCHANGED <<link, sim, simUp>>
      BY <2>3 DEF SimClose, SimConnect, SimExecute, bridgeVars, simVars
    <3>2. QED BY <3>1
  <2>4. QED BY <1>3, <2>1, <2>2, <2>3 DEF Simulator
<1>4. CASE UNCHANGED vars
  BY <1>4 DEF vars, bridgeVars, simVars
<1>5. QED BY <1>1, <1>2, <1>3, <1>4 DEF Next, Main

\* What one bridge's part of CommandInv says.
CommandOf(p) ==
  /\ link[p] <= sim
  /\ pc[p] \in BeforeProc => sent[p] = 0 /\ got[p] = <<>> /\ inbox[p] = <<>>
  /\ Len(got[p]) <= sent[p]
  /\ got[p] = Count(Len(got[p]))
  /\ LinkUp(p) =>
       /\ Len(inbox[p]) = sent[p] - Len(got[p])
       /\ \A i \in 1..Len(inbox[p]) : inbox[p][i] = Len(got[p]) + i

LEMMA CommandParts == CommandInv <=> \A p \in Bridges : CommandOf(p)
BY DEF CommandInv, CommandOf

LEMMA SameCommands ==
  ASSUME NEW p \in Bridges, CommandOf(p),
         sent'[p] = sent[p], got'[p] = got[p],
         link'[p] <= sim', pc'[p] \in BeforeProc => pc[p] \in BeforeProc,
         LinkUp(p)' => LinkUp(p) /\ inbox'[p] = inbox[p],
         inbox'[p] = inbox[p] \/ inbox'[p] = <<>>
  PROVE  CommandOf(p)'
BY DEF CommandOf

\* A command more for a count: what Proc and SimExecute append.
LEMMA CountAppend ==
  ASSUME NEW n \in Nat
  PROVE  Append(Count(n), n + 1) = Count(n + 1) /\ Len(Count(n)) = n
BY DEF Count

\* The four ways in which the command variables change.
LEMMA ProcCommand ==
  ASSUME CommandTypes, LinkTypes, CommandInv, NEW p \in Bridges, Proc(p)
  PROVE  CommandTypes' /\ CommandInv'
<1>1. /\ pc' = pc /\ link' = link /\ sim' = sim /\ simUp' = simUp
      /\ pc[p] = "ready" /\ got' = got
      /\ sent' = [sent EXCEPT ![p] = @ + 1]
  BY DEF Proc, bridgeVars, simVars
<1>2. inbox' = IF LinkUp(p)
               THEN [inbox EXCEPT ![p] = Append(@, sent[p] + 1)] ELSE inbox
  BY DEF Proc
<1>3. sent[p] \in Nat /\ inbox[p] \in Seq(Nat) /\ got[p] \in Seq(Nat)
  BY DEF CommandTypes
<1>4. CommandTypes'
  <2>1. Append(inbox[p], sent[p] + 1) \in Seq(Nat)
    BY <1>3
  <2>2. inbox' \in [Bridges -> Seq(Nat)]
    BY <1>2, <2>1 DEF CommandTypes
  <2>3. sent' \in [Bridges -> Nat]
    BY <1>1, <1>3 DEF CommandTypes
  <2>4. got' \in [Bridges -> Seq(Nat)]
    BY <1>1 DEF CommandTypes
  <2>5. QED BY <2>2, <2>3, <2>4 DEF CommandTypes
<1>5. ASSUME NEW q \in Bridges, q # p PROVE CommandOf(q)'
  <2>1. sent'[q] = sent[q] /\ inbox'[q] = inbox[q]
    BY <1>1, <1>2, <1>5 DEF CommandTypes
  <2>2. QED
    BY <1>1, <2>1, CommandParts, SameCommands DEF LinkUp, CommandOf
<1>6. CommandOf(p)'
  <2>1. CommandOf(p) /\ sent'[p] = sent[p] + 1 /\ Len(got[p]) \in Nat
        /\ Len(inbox[p]) \in Nat
    BY <1>1, <1>3, CommandParts DEF CommandTypes
  <2>2. CASE LinkUp(p)
    <3>1. inbox'[p] = Append(inbox[p], sent[p] + 1)
      BY <1>2, <2>2 DEF CommandTypes
    <3>2. /\ Len(inbox[p]) = sent[p] - Len(got[p])
          /\ \A i \in 1..Len(inbox[p]) : inbox[p][i] = Len(got[p]) + i
      BY <2>1, <2>2 DEF CommandOf
    <3>3. /\ Len(inbox'[p]) = Len(inbox[p]) + 1
          /\ \A i \in 1..Len(inbox[p]) : inbox'[p][i] = inbox[p][i]
          /\ inbox'[p][Len(inbox[p]) + 1] = sent[p] + 1
      BY <1>3, <3>1
    <3>4. /\ Len(inbox'[p]) = sent'[p] - Len(got[p])
          /\ \A i \in 1..Len(inbox'[p]) : inbox'[p][i] = Len(got[p]) + i
      <4>1. Len(inbox'[p]) = sent'[p] - Len(got[p])
        BY <1>3, <2>1, <3>2, <3>3
      <4>2. ASSUME NEW i \in 1..(Len(inbox[p]) + 1)
            PROVE  inbox'[p][i] = Len(got[p]) + i
        <5>1. CASE i \in 1..Len(inbox[p])
          BY <3>2, <3>3, <5>1
        <5>2. CASE i = Len(inbox[p]) + 1
          BY <1>3, <2>1, <3>2, <3>3, <5>2
        <5>3. QED BY <2>1, <5>1, <5>2
      <4>3. QED BY <3>3, <4>1, <4>2
    <3>5. QED BY <1>1, <1>3, <2>1, <3>4 DEF CommandOf, BeforeProc
  <2>3. CASE ~LinkUp(p)
    <3>1. ~LinkUp(p)'
      BY <1>1, <2>3 DEF LinkUp
    <3>2. QED BY <1>1, <1>3, <2>1, <3>1 DEF CommandOf, BeforeProc
  <2>4. QED BY <2>2, <2>3
<1>7. CommandInv'
  BY <1>5, <1>6, CommandParts DEF CommandInv, CommandOf
<1>8. QED BY <1>4, <1>7

LEMMA ExecuteCommand ==
  ASSUME CommandTypes, LinkTypes, CommandInv, NEW p \in Bridges, SimExecute(p)
  PROVE  CommandTypes' /\ CommandInv'
<1>1. /\ pc' = pc /\ link' = link /\ sim' = sim /\ simUp' = simUp
      /\ sent' = sent /\ LinkUp(p) /\ inbox[p] # <<>>
      /\ got' = [got EXCEPT ![p] = Append(@, Head(inbox[p]))]
      /\ inbox' = [inbox EXCEPT ![p] = Tail(@)]
  BY DEF SimExecute, bridgeVars, simVars
<1>2. sent[p] \in Nat /\ inbox[p] \in Seq(Nat) /\ got[p] \in Seq(Nat)
  BY DEF CommandTypes
<1>3. Head(inbox[p]) \in Nat /\ Tail(inbox[p]) \in Seq(Nat)
  BY <1>1, <1>2
<1>4. CommandTypes'
  BY <1>1, <1>2, <1>3 DEF CommandTypes
<1>5. ASSUME NEW q \in Bridges, q # p PROVE CommandOf(q)'
  <2>1. got'[q] = got[q] /\ inbox'[q] = inbox[q]
    BY <1>1, <1>5 DEF CommandTypes
  <2>2. QED
    BY <1>1, <2>1, CommandParts, SameCommands DEF LinkUp, CommandOf
<1>6. CommandOf(p)'
  <2>1. /\ CommandOf(p)
        /\ got'[p] = Append(got[p], Head(inbox[p]))
        /\ inbox'[p] = Tail(inbox[p])
        /\ Len(got[p]) \in Nat /\ Len(inbox[p]) \in Nat \ {0}
    BY <1>1, <1>2, CommandParts DEF CommandTypes
  <2>2. /\ Len(inbox[p]) = sent[p] - Len(got[p])
        /\ \A i \in 1..Len(inbox[p]) : inbox[p][i] = Len(got[p]) + i
    BY <1>1, <2>1 DEF CommandOf
  <2>3. Head(inbox[p]) = Len(got[p]) + 1
    <3>1. inbox[p][1] = Len(got[p]) + 1
      BY <2>1, <2>2
    <3>2. Head(inbox[p]) = inbox[p][1]
      BY <1>1, <1>2
    <3>3. QED BY <3>1, <3>2
  <2>4. /\ Len(got'[p]) = Len(got[p]) + 1
        /\ got'[p] = Count(Len(got'[p]))
    <3>1. Len(got'[p]) = Len(got[p]) + 1
      BY <1>2, <1>3, <2>1
    <3>2. got[p] = Count(Len(got[p]))
      BY <2>1 DEF CommandOf
    <3>3. got'[p] = Append(Count(Len(got[p])), Len(got[p]) + 1)
      BY <2>1, <2>3, <3>2
    <3>4. QED BY <2>1, <3>1, <3>3, CountAppend
  <2>5. /\ Len(inbox'[p]) = Len(inbox[p]) - 1
        /\ \A i \in 1..(Len(inbox[p]) - 1) : inbox'[p][i] = inbox[p][i + 1]
    BY <1>2, <2>1
  <2>6. /\ Len(inbox'[p]) = sent[p] - Len(got'[p])
        /\ \A i \in 1..Len(inbox'[p]) : inbox'[p][i] = Len(got'[p]) + i
    BY <1>2, <2>1, <2>2, <2>4, <2>5
  <2>7. Len(got'[p]) <= sent[p]
    BY <1>2, <2>1, <2>2, <2>4
  <2>8. pc[p] \notin BeforeProc
    BY <1>1, <2>1 DEF CommandOf
  <2>9. QED BY <1>1, <2>1, <2>4, <2>6, <2>7, <2>8 DEF CommandOf
<1>7. CommandInv'
  BY <1>5, <1>6, CommandParts DEF CommandInv, CommandOf
<1>8. QED BY <1>4, <1>7

LEMMA OtherCommand ==
  ASSUME CommandTypes, LinkTypes, CommandInv,
         UNCHANGED <<sent, got>>,
         inbox' \in [Bridges -> Seq(Nat)],
         \A p \in Bridges : CommandOf(p)'
  PROVE  CommandTypes' /\ CommandInv'
<1>1. CommandTypes'
  BY DEF CommandTypes
<1>2. CommandInv'
  BY DEF CommandInv, CommandOf
<1>3. QED BY <1>1, <1>2

LEMMA CommandStep ==
  ASSUME PhaseTypes, CommandTypes, LinkTypes, CommandInv, [Next]_vars
  PROVE  CommandTypes' /\ CommandInv'
<1>0. /\ \A p \in Bridges : CommandOf(p) /\ link[p] <= sim
      /\ inbox \in [Bridges -> Seq(Nat)]
  BY CommandParts DEF CommandOf, CommandTypes
\* Nothing happens to the commands, and no process goes back before Proc.
<1>1. ASSUME UNCHANGED <<sent, got, inbox, link, sim, simUp>>,
             \A p \in Bridges : pc'[p] \in BeforeProc => pc[p] \in BeforeProc
      PROVE  CommandTypes' /\ CommandInv'
  <2>1. \A p \in Bridges : CommandOf(p)'
    BY <1>0, <1>1, SameCommands DEF LinkUp
  <2>2. QED BY <1>0, <1>1, <2>1, OtherCommand
<1>2. ASSUME NEW p \in Bridges, NEW there, Goto(p, there),
             there \in BeforeProc => pc[p] \in BeforeProc,
             UNCHANGED <<sent, got, inbox, link, sim, simUp>>
      PROVE  CommandTypes' /\ CommandInv'
  BY <1>1, <1>2, GotoFacts
<1>3. ASSUME NEW p \in Bridges,
             \/ Boot(p) \/ BindUnlink(p) \/ BindListen(p) \/ StartServer(p)
             \/ SendVehicleCommand(p)
      PROVE  CommandTypes' /\ CommandInv'
  <2>1. UNCHANGED <<sent, got, inbox, link, sim, simUp>>
    BY <1>3 DEF Boot, BindUnlink, BindListen, StartServer,
                SendVehicleCommand, TcpConnect,
                simVars, commandVars
  <2>2. pc[p] \in BeforeProc
    BY <1>3 DEF Boot, BindUnlink, BindListen, StartServer,
                SendVehicleCommand, TcpConnect,
                BeforeProc
  <2>3. PICK there : Goto(p, there)
    BY <1>3 DEF Boot, BindUnlink, BindListen, StartServer,
                SendVehicleCommand, TcpConnect
  <2>4. QED BY <1>2, <2>1, <2>2, <2>3
<1>4. ASSUME NEW p \in Bridges, StopServer(p) \/ JoinAndUnlink(p) \/ Die(p)
      PROVE  CommandTypes' /\ CommandInv'
  <2>1. UNCHANGED <<sent, got, inbox, link, sim, simUp>>
    BY <1>4 DEF StopServer, JoinAndUnlink, Die, simVars, commandVars
  <2>2. PICK there : Goto(p, there) /\ there \notin BeforeProc
    BY <1>4 DEF StopServer, JoinAndUnlink, Die, BeforeProc
  <2>3. QED BY <1>2, <2>1, <2>2
\* A new link: no command has been sent on it, nor before it.
<1>5. ASSUME NEW p \in Bridges, ConnectControl(p)
      PROVE  CommandTypes' /\ CommandInv'
  <2>1. UNCHANGED <<sent, got, inbox, sim, simUp>> /\ pc[p] = "control"
    BY <1>5 DEF ConnectControl, UnixConnect, simVars, commandVars
  <2>2. /\ link'[p] \in {link[p], sim}
        /\ \A q \in Bridges : q # p => link'[q] = link[q] /\ pc'[q] = pc[q]
    BY <1>5 DEF ConnectControl, UnixConnect, Goto, LinkTypes, PhaseTypes
  <2>3. sent[p] = 0 /\ got[p] = <<>> /\ inbox[p] = <<>> /\ sim \in Nat
    BY <1>0, <2>1 DEF CommandOf, BeforeProc, LinkTypes
  <2>4. CommandOf(p)'
    <3>1. sent'[p] = 0 /\ got'[p] = <<>> /\ inbox'[p] = <<>>
      BY <2>1, <2>3
    <3>2. <<>> = Count(0)
      BY DEF Count
    <3>3. link'[p] <= sim'
      BY <1>0, <2>1, <2>2, <2>3
    <3>4. Len(got'[p]) = 0 /\ Len(inbox'[p]) = 0
      BY <3>1
    <3>5. got'[p] = Count(Len(got'[p]))
      BY <3>1, <3>2, <3>4
    <3>6. /\ Len(inbox'[p]) = sent'[p] - Len(got'[p])
          /\ \A i \in 1..Len(inbox'[p]) : inbox'[p][i] = Len(got'[p]) + i
      <4>1. sent'[p] = 0
        BY <3>1
      <4>2. Len(inbox'[p]) = sent'[p] - Len(got'[p])
        BY <3>4, <4>1
      <4>3. 1..Len(inbox'[p]) = {}
        BY <3>4
      <4>4. QED BY <4>2, <4>3
    <3>7. Len(got'[p]) <= sent'[p]
      BY <3>1, <3>4
    <3>8. QED BY <3>1, <3>3, <3>5, <3>6, <3>7 DEF CommandOf
  <2>5. \A q \in Bridges : q # p => CommandOf(q)'
    BY <1>0, <2>1, <2>2, SameCommands DEF LinkUp
  <2>6. QED BY <1>0, <2>1, <2>4, <2>5, OtherCommand
<1>6. ASSUME NEW p \in Bridges, Proc(p) PROVE CommandTypes' /\ CommandInv'
  BY <1>6, ProcCommand
<1>7. ASSUME NEW p \in Bridges, SimExecute(p)
      PROVE  CommandTypes' /\ CommandInv'
  BY <1>7, ExecuteCommand
<1>8. ASSUME NEW p \in Bridges, Thread(p) \/ SimConnect(p)
      PROVE  CommandTypes' /\ CommandInv'
  <2>1. UNCHANGED <<pc, sent, got, inbox, link, sim, simUp>>
    BY <1>8 DEF Thread, AcceptClient, AcceptFails, ReadMessage, ReadEof,
                SimConnect, bridgeVars, simVars, commandVars
  <2>2. QED BY <1>1, <2>1
<1>9. ASSUME SimClose PROVE CommandTypes' /\ CommandInv'
  <2>1. UNCHANGED <<pc, sent, got, inbox, link, sim, simUp>>
    BY <1>9 DEF SimClose, commandVars
  <2>2. QED BY <1>1, <2>1
<1>10. ASSUME SimCrash PROVE CommandTypes' /\ CommandInv'
  <2>1. /\ UNCHANGED <<pc, sent, got, link, sim>> /\ simUp' = FALSE
        /\ inbox' = [q \in Bridges |-> <<>>]
    BY <1>10 DEF SimCrash
  <2>2. \A p \in Bridges : CommandOf(p)'
    BY <1>0, <2>1, SameCommands DEF LinkUp
  <2>3. QED BY <2>1, <2>2, OtherCommand
<1>11. ASSUME SimStart PROVE CommandTypes' /\ CommandInv'
  <2>1. UNCHANGED <<pc, sent, got, inbox, link>> /\ sim' = sim + 1
    BY <1>11 DEF SimStart, bridgeVars, commandVars
  <2>2. \A p \in Bridges : link'[p] <= sim' /\ ~LinkUp(p)'
    BY <1>0, <2>1 DEF LinkUp, LinkTypes
  <2>3. \A p \in Bridges : CommandOf(p)'
    BY <1>0, <2>1, <2>2, SameCommands
  <2>4. QED BY <1>0, <2>1, <2>3, OtherCommand
<1>12. CASE UNCHANGED vars
  <2>1. UNCHANGED <<pc, sent, got, inbox, link, sim, simUp>>
    BY <1>12 DEF vars, bridgeVars, simVars, commandVars
  <2>2. QED BY <1>1, <2>1
<1>13. QED
  BY <1>3, <1>4, <1>5, <1>6, <1>7, <1>8, <1>9, <1>10, <1>11, <1>12
  DEF Next, Main, Simulator

-----------------------------------------------------------------------------
(* The theorems                                                            *)

LEMMA RestartStep ==
  ASSUME RestartAssumption, RestartInv, [Next]_vars
  PROVE  RestartInv'
<1>1. /\ PhaseTypes /\ TryTypes /\ DescriptorType /\ LinkTypes /\ CommandTypes
      /\ DescriptorInv /\ ThreadInv /\ AloneInv /\ PathInv /\ CommandInv
  BY DEF RestartInv, TypeOK, PhaseTypes, CountTypes, TryTypes, DescriptorType,
         LinkTypes
<1>2. PhaseTypes' /\ ThreadInv'
  BY <1>1, PhaseStep, ThreadStep
<1>3. TryTypes' /\ LinkTypes'
  BY <1>1, TryStep, LinkStep
<1>4. DescriptorType' /\ DescriptorInv'
  BY <1>1, DescriptorStep
<1>5. AloneInv' /\ PathInv'
  BY <1>1, PathStep
<1>6. CommandTypes' /\ CommandInv'
  BY <1>1, CommandStep
<1>7. TypeOK'
  BY <1>2, <1>3, <1>4, <1>6
  DEF TypeOK, CountTypes, TryTypes, DescriptorType, LinkTypes
<1>8. QED BY <1>2, <1>4, <1>5, <1>6, <1>7 DEF RestartInv

LEMMA RestartAlways == Spec => []RestartInv
<1>1. Init => RestartInv
  BY InitInv, RestartAssumption
<1>2. RestartInv /\ [Next]_vars => RestartInv'
  BY RestartStep, RestartAssumption
<1>3. QED BY <1>1, <1>2, PTL DEF Spec

\* The descriptors of a process, the attempts of InitControl and what waits
\* in a backlog stay within their bounds.
THEOREM TypesAlways == Spec => []TypeOK
<1>1. RestartInv => TypeOK
  BY DEF RestartInv
<1>2. QED BY <1>1, RestartAlways, PTL

\* A bridge that met no other is found at its path as long as it listens.
THEOREM ReachableAlways == Spec => []ReachableUnlessOverlap
<1>1. RestartInv => ReachableUnlessOverlap
  BY DEF RestartInv, PathInv, ReachableUnlessOverlap
<1>2. QED BY <1>1, RestartAlways, PTL

\* A socket file left behind never makes bind() fail.
THEOREM StaleFileNeverHurts == Spec => []BindFailsOnlyInOverlap
<1>1. RestartInv => BindFailsOnlyInOverlap
  BY DEF RestartInv, PathInv, BindFailsOnlyInOverlap
<1>2. QED BY <1>1, RestartAlways, PTL

\* What the simulator has executed, followed by what waits for it, is what
\* Proc has forwarded.
LEMMA SplitCount ==
  ASSUME NEW g \in Seq(Nat), NEW b \in Seq(Nat), NEW n \in Nat,
         g = Count(Len(g)), Len(b) = n - Len(g),
         \A i \in 1..Len(b) : b[i] = Len(g) + i
  PROVE  g \o b = Count(n)
<1>1. Len(g) \in Nat /\ Len(b) \in Nat /\ Len(g) + Len(b) = n
  OBVIOUS
<1>2. /\ g \o b \in Seq(Nat) /\ Len(g \o b) = n
      /\ \A k \in 1..n :
           (g \o b)[k] = IF k <= Len(g) THEN g[k] ELSE b[k - Len(g)]
  BY <1>1, ConcatProperties
<1>3. ASSUME NEW k \in 1..n
      PROVE  (IF k <= Len(g) THEN g[k] ELSE b[k - Len(g)]) = k
  <2>1. CASE k <= Len(g)
    BY <1>1, <2>1 DEF Count
  <2>2. CASE k > Len(g)
    <3>1. k - Len(g) \in 1..Len(b)
      BY <1>1, <2>2
    <3>2. b[k - Len(g)] = Len(g) + (k - Len(g))
      BY <3>1
    <3>3. QED BY <1>1, <2>2, <3>2
  <2>3. QED BY <1>1, <2>1, <2>2
<1>4. Count(n) \in Seq(Nat) /\ Len(Count(n)) = n
      /\ \A k \in 1..n : Count(n)[k] = k
  BY DEF Count
<1>5. QED BY <1>2, <1>3, <1>4, SeqEqual

\* No command that Proc forwards is lost, repeated or overtaken while the
\* simulator that Init connected to lives.
THEOREM CommandsArrive == Spec => []NoCommandLost
<1>1. RestartInv => NoCommandLost
  <2> SUFFICES ASSUME RestartInv, NEW p \in Bridges, LinkUp(p)
               PROVE  got[p] \o inbox[p] = Count(sent[p])
    BY DEF NoCommandLost
  <2>1. /\ got[p] \in Seq(Nat) /\ inbox[p] \in Seq(Nat) /\ sent[p] \in Nat
        /\ got[p] = Count(Len(got[p]))
        /\ Len(inbox[p]) = sent[p] - Len(got[p])
        /\ \A i \in 1..Len(inbox[p]) : inbox[p][i] = Len(got[p]) + i
    BY DEF RestartInv, TypeOK, CommandTypes, CommandInv
  <2>2. QED BY <2>1, SplitCount
<1>2. QED BY <1>1, RestartAlways, PTL

\* The commands of a bridge step as those of a reliable channel, or not at
\* all.
LEMMA ChannelStep ==
  ASSUME RestartInv, [Next]_vars, NEW p \in Bridges
  PROVE  [Commands(p)!ReliableNext]_<<sent[p], got[p]>>
<1> DEFINE Step == [Commands(p)!ReliableNext]_<<sent[p], got[p]>>
<1>1. /\ sent \in [Bridges -> Nat] /\ inbox \in [Bridges -> Seq(Nat)]
      /\ got \in [Bridges -> Seq(Nat)]
  BY DEF RestartInv, TypeOK, CommandTypes
<1>2. ASSUME UNCHANGED <<sent, got>> PROVE Step
  BY <1>2
<1>3. ASSUME NEW q \in Bridges, Proc(q) PROVE Step
  <2>1. sent' = [sent EXCEPT ![q] = @ + 1] /\ got' = got
    BY <1>3 DEF Proc
  <2>2. CASE q = p
    <3>1. sent'[p] = sent[p] + 1 /\ got'[p] = got[p]
      BY <1>1, <2>1, <2>2
    <3>2. Commands(p)!Send
      BY <3>1 DEF Commands!Send
    <3>3. QED BY <3>2 DEF Commands!ReliableNext
  <2>3. CASE q # p
    <3>1. sent'[p] = sent[p] /\ got'[p] = got[p]
      BY <1>1, <2>1, <2>3
    <3>2. QED BY <3>1
  <2>4. QED BY <2>2, <2>3
<1>4. ASSUME NEW q \in Bridges, SimExecute(q) PROVE Step
  <2>1. /\ sent' = sent /\ LinkUp(q) /\ inbox[q] # <<>>
        /\ got' = [got EXCEPT ![q] = Append(@, Head(inbox[q]))]
    BY <1>4 DEF SimExecute
  <2>2. CASE q = p
    <3> DEFINE k == Len(got[p]) + 1
    <3>1. /\ got[p] \in Seq(Nat) /\ inbox[p] \in Seq(Nat) /\ sent[p] \in Nat
          /\ got[p] = Count(Len(got[p]))
          /\ Len(inbox[p]) = sent[p] - Len(got[p])
          /\ \A i \in 1..Len(inbox[p]) : inbox[p][i] = Len(got[p]) + i
      BY <1>1, <2>1, <2>2 DEF RestartInv, CommandInv
    <3>2. k \in 1..sent[p] /\ Len(inbox[p]) \in Nat \ {0}
      BY <2>1, <2>2, <3>1
    <3>3. Head(inbox[p]) = k
      <4>1. inbox[p][1] = k
        BY <3>1, <3>2
      <4>2. Head(inbox[p]) = inbox[p][1]
        BY <2>1, <2>2, <3>1
      <4>3. QED BY <4>1, <4>2
    <3>4. sent'[p] = sent[p] /\ got'[p] = Append(got[p], k)
      BY <1>1, <2>1, <2>2, <3>3
    <3>5. DOMAIN got[p] = 1..Len(got[p]) /\ \A i \in 1..Len(got[p]) : got[p][i] = i
      <4>1. DOMAIN Count(Len(got[p])) = 1..Len(got[p])
            /\ \A i \in 1..Len(got[p]) : Count(Len(got[p]))[i] = i
        BY DEF Count
      <4>2. QED BY <3>1, <4>1
    <3>6. Commands(p)!HandedOver = 1..Len(got[p])
      BY <3>5 DEF Commands!HandedOver
    <3>7. Commands(p)!NothingSkipped(k)
      BY <3>1, <3>6 DEF Commands!NothingSkipped
    <3>8. \A j \in Commands(p)!HandedOver : j < k
      BY <3>1, <3>6
    <3>9. Commands(p)!HandOver(k)
      BY <3>4, <3>8 DEF Commands!HandOver
    <3>10. QED BY <3>2, <3>7, <3>9 DEF Commands!ReliableNext
  <2>3. CASE q # p
    <3>1. sent'[p] = sent[p] /\ got'[p] = got[p]
      BY <1>1, <2>1, <2>3
    <3>2. QED BY <3>1
  <2>4. QED BY <2>2, <2>3
<1>5. ASSUME NEW q \in Bridges, Main(q) \/ Thread(q) \/ Die(q), ~Proc(q)
      PROVE  Step
  <2>1. UNCHANGED <<sent, got>>
    BY <1>5 DEF Main, Thread, Die, Boot, BindUnlink, BindListen, StartServer,
                SendVehicleCommand, TcpConnect, ConnectControl, UnixConnect,
                StopServer, JoinAndUnlink,
                AcceptClient, AcceptFails, ReadMessage, ReadEof, commandVars
  <2>2. QED BY <1>2, <2>1
<1>6. ASSUME Simulator, ~(\E q \in Bridges : SimExecute(q)) PROVE Step
  <2>1. UNCHANGED <<sent, got>>
    BY <1>6 DEF Simulator, SimClose, SimCrash, SimStart, SimConnect,
                commandVars
  <2>2. QED BY <1>2, <2>1
<1>7. CASE UNCHANGED vars
  BY <1>2, <1>7 DEF vars, commandVars
<1>8. QED BY <1>3, <1>4, <1>5, <1>6, <1>7 DEF Next, Main

\* Restart implements MessageChannel, for the commands of every bridge.
THEOREM CommandsAreReliable == Spec => CommandsAreReliableUntilLost
<1>1. Init => \A p \in Bridges : Commands(p)!Init
  BY DEF Init, Commands!Init
<1>2. RestartInv /\ [Next]_vars =>
        [\A p \in Bridges :
           [Commands(p)!ReliableNext]_<<sent[p], got[p]>>]_vars
  BY ChannelStep
<1>3. QED
  BY <1>1, <1>2, RestartAlways, PTL DEF Spec, CommandsAreReliableUntilLost

\* A bridge without descriptors stays without until its Stop.
THEOREM NoDescriptorComesBack == Spec => ExhaustedForGood
<1>1. ASSUME RestartInv, [Next]_vars, NEW p \in Bridges,
             Running(p), Exhausted(p), Running(p)'
      PROVE  Exhausted(p)'
  <2> SUFFICES fds'[p] = fds[p]
    BY <1>1 DEF Exhausted
  <2>1. PhaseTypes /\ fds \in [Bridges -> 0..MaxFds]
    BY <1>1 DEF RestartInv, TypeOK, CountTypes
  <2>2. ASSUME NEW q \in Bridges, BindUnlink(q) \/ JoinAndUnlink(q) \/ Die(q)
        PROVE  fds'[p] = fds[p]
    <3>1. q # p
      BY <1>1, <2>1, <2>2, GotoFacts
      DEF BindUnlink, JoinAndUnlink, Die, Running
    <3>2. QED BY <2>1, <2>2, <3>1 DEF BindUnlink, JoinAndUnlink, Die, Opens
  <2>3. ASSUME NEW q \in Bridges,
               SendVehicleCommand(q) \/ ConnectControl(q) \/ AcceptClient(q)
        PROVE  fds'[p] = fds[p]
    <3>1. fds' = fds \/ (~Exhausted(q) /\ Opens(q, 1))
      BY <2>3 DEF SendVehicleCommand, TcpConnect, ConnectControl,
                  UnixConnect, AcceptClient
    <3>2. QED BY <1>1, <2>1, <3>1 DEF Exhausted, Opens
  <2>4. ASSUME NEW q \in Bridges,
               \/ Boot(q) \/ BindListen(q) \/ StartServer(q) \/ Proc(q)
               \/ StopServer(q) \/ AcceptFails(q) \/ ReadMessage(q)
               \/ ReadEof(q)
        PROVE  fds'[p] = fds[p]
    BY <2>4 DEF Boot, BindListen, StartServer, Proc, StopServer, AcceptFails,
                ReadMessage, ReadEof, bridgeVars
  <2>5. ASSUME Simulator PROVE fds'[p] = fds[p]
    BY <2>5 DEF Simulator, SimClose, SimCrash, SimStart, SimConnect,
                SimExecute, bridgeVars
  <2>6. CASE UNCHANGED vars
    BY <2>6 DEF vars, bridgeVars
  <2>7. QED
    BY <1>1, <2>2, <2>3, <2>4, <2>5, <2>6 DEF Next, Main, Thread
<1>2. RestartInv /\ [Next]_vars =>
        [\A p \in Bridges :
           Running(p) /\ Exhausted(p) /\ Running(p)' => Exhausted(p)']_vars
  BY <1>1
<1>3. QED BY <1>2, RestartAlways, PTL DEF Spec, ExhaustedForGood

\* A bridge that is up never serves a simulator that restarted, whatever the
\* other bridges do but for one that starts and configures it (Init and Proc,
\* apollo_dttf_component.cc).
THEOREM RestartIsNeverNoticed == Spec => RestartedSimulatorStaysLost
<1> DEFINE Lost(p) == /\ ~LinkUp(p)'
                      /\ got'[p] = got[p]
                      /\ ~told /\ told' =>
                           \E q \in Bridges \ {p} : pc[q] = "command"
<1>1. ASSUME RestartInv, [Next]_vars, NEW p \in Bridges,
             pc[p] = "ready", ~LinkUp(p), pc'[p] = "ready"
      PROVE  Lost(p)
  <2>1. /\ PhaseTypes /\ LinkTypes /\ link[p] <= sim
        /\ got \in [Bridges -> Seq(Nat)]
    BY <1>1 DEF RestartInv, TypeOK, PhaseTypes, CountTypes, CommandTypes,
                LinkTypes, CommandInv
  <2>2. CASE \E q \in Bridges : SendVehicleCommand(q)
    <3>1. PICK q \in Bridges : SendVehicleCommand(q)
      BY <2>2
    <3>2. pc[q] = "command" /\ q # p /\ UNCHANGED <<link, sim, simUp, got>>
      BY <1>1, <3>1 DEF SendVehicleCommand, commandVars
    <3>3. QED BY <1>1, <3>2 DEF LinkUp
  <2>3. CASE \E q \in Bridges : ConnectControl(q)
    <3>1. PICK q \in Bridges : ConnectControl(q)
      BY <2>3
    <3>2. q # p /\ UNCHANGED <<sim, simUp, told, got>>
      BY <1>1, <3>1 DEF ConnectControl, simVars, commandVars
    <3>3. link'[p] = link[p]
      BY <2>1, <3>1, <3>2 DEF ConnectControl, LinkTypes
    <3>4. QED BY <1>1, <3>2, <3>3 DEF LinkUp
  <2>4. CASE \E q \in Bridges : (Main(q) \/ Thread(q) \/ Die(q))
                  /\ ~SendVehicleCommand(q) /\ ~ConnectControl(q)
    <3>1. UNCHANGED <<link, sim, simUp, told, got>>
      BY <2>4 DEF Main, Thread, Die, Boot, BindUnlink, BindListen, StartServer,
                  Proc, StopServer, JoinAndUnlink, AcceptClient, AcceptFails,
                  ReadMessage, ReadEof, bridgeVars, simVars, commandVars
    <3>2. QED BY <1>1, <3>1 DEF LinkUp
  <2>5. CASE SimStart
    <3>1. sim' = sim + 1 /\ UNCHANGED <<link, told, got>>
      BY <2>5 DEF SimStart, bridgeVars, commandVars
    <3>2. link[p] # sim + 1
      BY <2>1 DEF LinkTypes
    <3>3. QED BY <3>1, <3>2 DEF LinkUp
  <2>6. CASE SimCrash
    BY <2>6 DEF SimCrash, LinkUp
  <2>7. CASE SimClose \/ \E q \in Bridges : SimConnect(q)
    <3>1. UNCHANGED <<link, sim, simUp, told, got>>
      BY <2>7 DEF SimClose, SimConnect, bridgeVars, commandVars
    <3>2. QED BY <1>1, <3>1 DEF LinkUp
  <2>8. CASE \E q \in Bridges : SimExecute(q)
    <3>1. PICK q \in Bridges : SimExecute(q)
      BY <2>8
    <3>2. q # p /\ UNCHANGED <<link, sim, simUp, told>>
      BY <1>1, <3>1 DEF SimExecute, bridgeVars, simVars
    <3>3. got'[p] = got[p]
      BY <2>1, <3>1, <3>2 DEF SimExecute
    <3>4. QED BY <1>1, <3>2, <3>3 DEF LinkUp
  <2>9. CASE UNCHANGED vars
    BY <1>1, <2>9 DEF vars, bridgeVars, simVars, commandVars, LinkUp
  <2>10. QED
    BY <1>1, <2>2, <2>3, <2>4, <2>5, <2>6, <2>7, <2>8, <2>9 DEF Next, Simulator
<1>2. RestartInv /\ [Next]_vars =>
        [\A p \in Bridges :
           pc[p] = "ready" /\ ~LinkUp(p) /\ pc'[p] = "ready" => Lost(p)]_vars
  BY <1>1
<1>3. QED BY <1>2, RestartAlways, PTL DEF Spec, RestartedSimulatorStaysLost

=============================================================================
