------------------------------- MODULE Bridge -------------------------------
(***************************************************************************)
(* ApolloDttfComponent: Init brings up the configured drivers one by one,  *)
(* sends the simulator the configuration that makes it connect to them,    *)
(* connects to the simulator's control server and asks for a lane to       *)
(* follow; any failure takes the drivers down again.  The drivers' server  *)
(* threads (StreamServer, here reduced to where they block and whether     *)
(* they are in the callback) and the simulator run beside it.              *)
(***************************************************************************)
EXTENDS Integers, Sequences, FiniteSets, Drivers

CONSTANTS
  Config,        \* the configured drivers, in the order of their creation:
                 \* records of kind, name (key in drivers_), url (socket) and
                 \* refused: its writers that Cyber does not create, because
                 \* of an empty channel name, say: CreateWriter returns null
  MaxRetries,    \* the 10 of InitControl
  EagerSim       \* may the simulator connect before it got the command?

D == DOMAIN Config
Urls == {Config[d].url : d \in D}

ASSUME BridgeAssumption ==
  /\ Config \in Seq([kind : DOMAIN Driver, name : STRING, url : STRING,
                     refused : SUBSET {"writer", "status"}])
  /\ \A d, e \in D : d < e => ~CreatedBefore(Config[e].kind, Config[d].kind)
  /\ MaxRetries \in Nat \ {0}
  /\ EagerSim \in BOOLEAN

VARIABLES
  (* the thread that runs Init and, later, the component's destructor *)
  pc,        \* where it stands
  at,        \* the driver InitDriverComponent is working on
  step,      \* the step of that driver's Init it does next
  held,      \* drivers_: the drivers in the map
  victim,    \* the driver being destroyed, 0 if none
  member,    \* the member of the victim that is destroyed next
  victims,   \* the drivers to be destroyed after it
  after,     \* where pc continues once they are
  retries,   \* control_connection_count
  control,   \* is control_unix_socket_client_ connected?
  result,    \* what Init returned
  (* the drivers and their server threads *)
  made,      \* members created so far
  alive,     \* members not destroyed yet
  running,   \* running_ of the server
  thread,    \* where the server's thread blocks or works
  path,      \* which driver's socket the file at a url leads to
  misuse,    \* history: uses by a callback of a member that is not there
  (* the simulator *)
  commanded, \* it has received the whole vehicle configuration
  controlUp, \* its control server accepts connections
  conn       \* its connection to a driver

taskVars == <<pc, at, step, held, victim, member, victims, after, retries,
              control, result>>
driverVars == <<made, alive, running, thread, path, misuse>>
simVars == <<commanded, controlUp, conn>>
vars == <<taskVars, driverVars, simVars>>

-----------------------------------------------------------------------------

Members(d) == Driver[Config[d].kind].members
Steps(d) == Driver[Config[d].kind].init
Uses(d) == Driver[Config[d].kind].uses
Url(d) == Config[d].url
Refused(d) == Config[d].refused
NoDriver == 0

Init ==
  /\ pc = "load" /\ at = 1 /\ step = 1 /\ held = {}
  /\ victim = NoDriver /\ member = 0 /\ victims = {} /\ after = "none"
  /\ retries = 0 /\ control = FALSE /\ result = "none"
  /\ made = [d \in D |-> {}] /\ alive = [d \in D |-> {}]
  /\ running = [d \in D |-> FALSE] /\ thread = [d \in D |-> "none"]
  /\ path = [u \in Urls |-> NoDriver]
  /\ misuse = [d \in D |-> {}]
  /\ commanded = FALSE /\ controlUp = FALSE
  /\ conn = [d \in D |-> "none"]

\* Destroy driver d, then all of the set S (drivers_.clear(), or the map's
\* own destructor), then go on at then.
Destroy(d, S, then) ==
  /\ pc' = "destroy"
  /\ victim' = d
  /\ member' = IF d = NoDriver THEN 0 ELSE Len(Members(d))
  /\ victims' = S
  /\ after' = then

\* Mutant: the socket file is left behind.
LeftBehind(u) == path

Unlinked(u) == [path EXCEPT ![u] = NoDriver]

Bound(d) == [path EXCEPT ![Url(d)] = d]

NoDestruction == UNCHANGED <<victim, member, victims, after>>

-----------------------------------------------------------------------------
(* ApolloDttfComponent::Init                                               *)

LoadConfig ==
  /\ pc = "load"
  /\ \/ pc' = "init" /\ result' = result
     \/ pc' = "returned" /\ result' = "false"
  /\ NoDestruction
  /\ UNCHANGED <<at, step, held, retries, control, driverVars, simVars>>

\* One step of the current driver's Init.  The first one also constructs it.
\* A writer that Cyber refuses is a step like any other: nobody looks at the
\* pointer.
Make(d, ms) ==
  /\ made' = [made EXCEPT ![d] = @ \cup ms \cup {"config"}]
  /\ alive' = [alive EXCEPT ![d] = @ \cup ms \cup {"config"}]

InitStep ==
  /\ pc = "init" /\ at \in D /\ step <= Len(Steps(at))
  /\ CASE Steps(at)[step] = "bind" ->
            /\ Make(at, {"server"})
            /\ path' = Bound(at)
            /\ UNCHANGED <<running, thread>>
       [] Steps(at)[step] = "start" ->
            /\ running' = [running EXCEPT ![at] = TRUE]
            /\ thread' = [thread EXCEPT ![at] = "accept"]
            /\ UNCHANGED <<made, alive, path>>
       [] OTHER ->
            /\ Make(at, {Steps(at)[step]})
            /\ UNCHANGED <<running, thread, path>>
  /\ step' = step + 1
  /\ NoDestruction
  /\ UNCHANGED <<pc, at, held, retries, control, result, misuse, simVars>>

\* A step fails: socket() reports an error, before the old file at the path
\* is unlinked, setsockopt() or bind(), after it, or listen(), when the path
\* leads to the new socket already; std::thread throws, with running_ set and
\* no thread to join; a writer or broadcaster throws.  The driver is
\* destroyed, then those in drivers_.
InitStepFails ==
  /\ pc = "init" /\ at \in D /\ step <= Len(Steps(at))
  /\ CASE Steps(at)[step] = "bind" ->
            /\ Make(at, {"server"})
            /\ path' \in {path, Unlinked(Url(at)), Bound(at)}
            /\ UNCHANGED <<running, thread>>
       [] Steps(at)[step] = "start" ->
            /\ running' = [running EXCEPT ![at] = TRUE]
            /\ thread' = [thread EXCEPT ![at] = "exited"]
            /\ UNCHANGED <<made, alive, path>>
       [] OTHER -> Make(at, {}) /\ UNCHANGED <<running, thread, path>>
  /\ result' = "false"
  /\ Destroy(at, held, "returned")
  /\ held' = {}
  /\ UNCHANGED <<at, step, retries, control, misuse, simVars>>

NameTaken == \E h \in held : Config[h].name = Config[at].name

\* Mutant: a driver whose name is taken is not destroyed.
InsertDriverForgets ==
  /\ pc = "init" /\ at \in D /\ step > Len(Steps(at))
  /\ held' = held \cup (IF NameTaken THEN {} ELSE {at})
  /\ at' = at + 1
  /\ step' = 1
  /\ NoDestruction
  /\ UNCHANGED <<pc, retries, control, result, driverVars, simVars>>

\* drivers_.insert() does nothing when the name is taken: the driver just
\* started then dies at the end of the iteration.
InsertDriver ==
  /\ pc = "init" /\ at \in D /\ step > Len(Steps(at))
  /\ IF NameTaken
     THEN Destroy(at, {}, "init") /\ held' = held
     ELSE held' = held \cup {at} /\ pc' = pc /\ NoDestruction
  /\ at' = at + 1
  /\ step' = 1
  /\ UNCHANGED <<retries, control, result, driverVars, simVars>>

\* SendGenerateAutonomousVehicleCommand: the connection or the send fails (or
\* the writer of /tf_static, made after the last driver, throws).
CommandFails ==
  /\ pc = "init" /\ at \notin D
  /\ result' = "false"
  /\ Destroy(NoDriver, held, "returned")
  /\ held' = {}
  /\ UNCHANGED <<at, step, retries, control, driverVars, simVars>>

\* Mutant: the command is sent while drivers are still being started.
SendCommandEarly ==
  /\ pc = "init" /\ at > 1
  /\ commanded' \in BOOLEAN
  /\ pc' = "control"
  /\ NoDestruction
  /\ UNCHANGED <<at, step, held, retries, control, result, driverVars,
                 controlUp, conn>>

\* Any positive return value of send() passes for success, also one that is
\* less than the length: the simulator may not have the whole command.
SendCommand ==
  /\ pc = "init" /\ at \notin D
  /\ commanded' \in BOOLEAN
  /\ pc' = "control"
  /\ NoDestruction
  /\ UNCHANGED <<at, step, held, retries, control, result, driverVars,
                 controlUp, conn>>

\* The loop of InitControl: a failed attempt counts while the count is below
\* the limit, a successful one ends the loop; either way Init then fails if
\* the count has reached the limit.  drivers_ is left alone.

\* Mutant: <= for <.
AnotherTryOffByOne == ~controlUp /\ retries <= MaxRetries

AnotherTry == ~controlUp /\ retries < MaxRetries

\* Mutant: the count is not looked at after the loop.
TooManyTriesUnchecked == FALSE

TooManyTries == retries >= MaxRetries

ControlAttempt ==
  /\ pc = "control"
  /\ control' = controlUp
  /\ \/ AnotherTry /\ retries' = retries + 1 /\ UNCHANGED <<pc, result>>
     \/ ~AnotherTry /\ TooManyTries
        /\ pc' = "returned" /\ result' = "false" /\ UNCHANGED retries
     \/ ~AnotherTry /\ ~TooManyTries
        /\ pc' = "waypoint" /\ UNCHANGED <<retries, result>>
  /\ NoDestruction
  /\ UNCHANGED <<at, step, held, driverVars, simVars>>

\* InitControl catches whatever is thrown in it and returns false.
ControlThrows ==
  /\ pc = "control"
  /\ pc' = "returned"
  /\ result' = "false"
  /\ NoDestruction
  /\ UNCHANGED <<at, step, held, retries, control, driverVars, simVars>>

SendTargetWaypoint ==
  /\ pc = "waypoint"
  /\ pc' = "returned"
  /\ result' = "true"
  /\ NoDestruction
  /\ UNCHANGED <<at, step, held, retries, control, driverVars, simVars>>

\* Init catches what is thrown in SendTargetWaypoint, and clears drivers_.
WaypointThrows ==
  /\ pc = "waypoint"
  /\ result' = "false"
  /\ Destroy(NoDriver, held, "returned")
  /\ held' = {}
  /\ UNCHANGED <<at, step, retries, control, driverVars, simVars>>

\* The framework destroys the component: at once when Init failed, at
\* shutdown otherwise.
DestroyComponent ==
  /\ pc = "returned"
  /\ Destroy(NoDriver, held, "gone")
  /\ held' = {}
  /\ UNCHANGED <<at, step, retries, control, result, driverVars, simVars>>

-----------------------------------------------------------------------------
(* Destruction of drivers                                                  *)

NextVictim ==
  /\ pc = "destroy"
  /\ member = 0
  /\ \/ \E d \in victims : /\ victim' = d
                           /\ member' = Len(Members(d))
                           /\ victims' = victims \ {d}
                           /\ UNCHANGED <<pc, after>>
     \/ /\ victims = {}
        /\ victim' = NoDriver
        /\ pc' = after
        /\ after' = "none"
        /\ UNCHANGED <<member, victims>>
  /\ UNCHANGED <<at, step, held, retries, control, result, driverVars, simVars>>

Dying == Members(victim)[member]

\* A member without a thread goes at once.
DestroyMember ==
  /\ pc = "destroy" /\ member > 0
  /\ Dying # "server" \/ "server" \notin alive[victim]
  /\ alive' = [alive EXCEPT ![victim] = @ \ {Dying}]
  /\ member' = member - 1
  /\ UNCHANGED <<pc, at, step, held, victim, victims, after, retries, control,
                 result, made, running, thread, path, misuse, simVars>>

\* ~UnixSocketServer: Stop clears running_ ...
StopServer ==
  /\ pc = "destroy" /\ member > 0
  /\ Dying = "server" /\ "server" \in alive[victim]
  /\ running[victim]
  /\ running' = [running EXCEPT ![victim] = FALSE]
  /\ UNCHANGED <<taskVars, made, alive, thread, path, misuse, simVars>>

\* ... joins the thread, closes the socket and unlinks its path, whoever
\* that path belongs to by now.  Without a Start it does nothing at all.
JoinServer ==
  /\ pc = "destroy" /\ member > 0
  /\ Dying = "server" /\ "server" \in alive[victim]
  /\ ~running[victim]
  /\ thread[victim] \in {"none", "exited"}
  /\ path' = IF thread[victim] = "exited" THEN Unlinked(Url(victim)) ELSE path
  /\ alive' = [alive EXCEPT ![victim] = @ \ {"server"}]
  /\ member' = member - 1
  /\ UNCHANGED <<pc, at, step, held, victim, victims, after, retries, control,
                 result, made, running, thread, misuse, simVars>>

-----------------------------------------------------------------------------
(* The server thread of driver d (StreamServer's Run)                      *)

Goes(d, there) == thread' = [thread EXCEPT ![d] = there]
OrExits(d, there) == Goes(d, IF running[d] THEN there ELSE "exited")

AcceptClient(d) ==
  /\ thread[d] = "accept"
  /\ conn[d] # "none"
  /\ OrExits(d, "read")
  /\ UNCHANGED <<taskVars, made, alive, running, path, misuse, simVars>>

\* Mutant: accept() has no timeout.
AcceptBlocks(d) == FALSE

AcceptTimeout(d) ==
  /\ thread[d] = "accept"
  /\ conn[d] = "none"
  /\ ~running[d]
  /\ Goes(d, "exited")
  /\ UNCHANGED <<taskVars, made, alive, running, path, misuse, simVars>>

\* A message is complete: the callback is entered, also when Stop came during
\* the read, and with what a closed connection still holds.
EnterCallback(d) ==
  /\ thread[d] = "read"
  /\ conn[d] # "none"
  /\ Goes(d, "callback")
  /\ UNCHANGED <<taskVars, made, alive, running, path, misuse, simVars>>

\* The callback uses the members and returns.  If the buffer holds another
\* message it is called again, without a look at running_.
LeaveCallback(d) ==
  /\ thread[d] = "callback"
  /\ misuse' = [misuse EXCEPT ![d] =
       @ \cup (IF Uses(d) \subseteq made[d] THEN {} ELSE {"null"})
         \cup (IF Uses(d) \cap made[d] \subseteq alive[d] THEN {}
               ELSE {"destroyed"})
         \cup (IF Uses(d) \cap Refused(d) = {} THEN {} ELSE {"refused"})]
  /\ Goes(d, "callback") \/ OrExits(d, "read")
  /\ UNCHANGED <<taskVars, made, alive, running, path, simVars>>

\* The read brings less than a message; the loops look at running_ again.
ReadIncomplete(d) ==
  /\ thread[d] = "read"
  /\ conn[d] # "none"
  /\ OrExits(d, "read")
  /\ UNCHANGED <<taskVars, made, alive, running, path, misuse, simVars>>

ReadEof(d) ==
  /\ thread[d] = "read"
  /\ conn[d] = "closed"
  /\ conn' = [conn EXCEPT ![d] = "none"]
  /\ OrExits(d, "accept")
  /\ UNCHANGED <<taskVars, made, alive, running, path, misuse, commanded,
                 controlUp>>

ServerThread(d) ==
  \/ AcceptClient(d) \/ AcceptTimeout(d) \/ EnterCallback(d)
  \/ LeaveCallback(d) \/ ReadIncomplete(d) \/ ReadEof(d)

-----------------------------------------------------------------------------
(* The simulator                                                           *)

\* The file leads to d's socket and somebody listens on it: a socket on which
\* listen() failed refuses every connection.
Listening(d) == path[Url(d)] = d /\ (thread[d] # "none" \/ pc = "init")

SimConnect(d) ==
  /\ commanded \/ EagerSim
  /\ Listening(d)
  /\ conn[d] = "none"
  /\ conn' = [conn EXCEPT ![d] = "open"]
  /\ UNCHANGED <<taskVars, driverVars, commanded, controlUp>>

SimClose(d) ==
  /\ conn[d] = "open"
  /\ conn' = [conn EXCEPT ![d] = "closed"]
  /\ UNCHANGED <<taskVars, driverVars, commanded, controlUp>>

SimControlUp ==
  /\ commanded \/ EagerSim
  /\ ~controlUp
  /\ controlUp' = TRUE
  /\ UNCHANGED <<taskVars, driverVars, commanded, conn>>

-----------------------------------------------------------------------------

Task ==
  \/ LoadConfig \/ InitStep \/ InitStepFails \/ InsertDriver
  \/ CommandFails \/ SendCommand
  \/ ControlAttempt \/ ControlThrows
  \/ SendTargetWaypoint \/ WaypointThrows
  \/ DestroyComponent
  \/ NextVictim \/ DestroyMember \/ StopServer \/ JoinServer

Simulator == SimControlUp \/ \E d \in D : SimConnect(d) \/ SimClose(d)

Next == Task \/ Simulator \/ \E d \in D : ServerThread(d)

Spec == Init /\ [][Next]_vars

\* What the server's thread does without bytes from the simulator.
Unprompted(d) ==
  AcceptClient(d) \/ AcceptTimeout(d) \/ LeaveCallback(d) \/ ReadEof(d)

\* The operating system schedules the component's thread and the servers'
\* threads, and accept() times out.  Nothing is assumed of the simulator: a
\* read may wait for ever.
FairSpec == Spec /\ WF_vars(Task) /\ \A d \in D : WF_vars(Unprompted(d))

-----------------------------------------------------------------------------
(* Properties                                                              *)

MemberNames == UNION {{Members(d)[i] : i \in DOMAIN Members(d)} : d \in D}

\* Type invariant of the component, its drivers, their threads and the
\* simulator's connections.
TypeOK ==
  /\ pc \in {"load", "init", "control", "waypoint", "returned", "destroy",
             "gone"}
  /\ at \in 1..(Len(Config) + 1) /\ step \in 1..6
  /\ held \subseteq D /\ victims \subseteq D
  /\ victim \in D \cup {NoDriver} /\ member \in 0..5
  /\ after \in {"none", "init", "returned", "gone"}
  /\ retries \in 0..MaxRetries
  /\ control \in BOOLEAN /\ result \in {"none", "true", "false"}
  /\ made \in [D -> SUBSET MemberNames] /\ alive \in [D -> SUBSET MemberNames]
  /\ running \in [D -> BOOLEAN]
  /\ thread \in [D -> {"none", "accept", "read", "callback", "exited"}]
  /\ path \in [Urls -> D \cup {NoDriver}]
  /\ misuse \in [D -> SUBSET {"null", "destroyed", "refused"}]
  /\ commanded \in BOOLEAN /\ controlUp \in BOOLEAN
  /\ conn \in [D -> {"none", "open", "closed"}]

Runs(d) == thread[d] \in {"accept", "read", "callback"}

\* A server's thread never outlives the members of its driver: it runs only
\* while the driver is in drivers_, under construction, or waiting for its
\* destruction.  Also with duplicate names, where drivers_.insert drops the
\* driver that was just started, and after every early return of Init.
NoOrphanThread ==
  \A d \in D :
    Runs(d) => /\ "server" \in alive[d]
               /\ \/ d \in held \cup victims \cup {victim}
                  \/ pc = "init" /\ d = at

\* The socket file of the driver whose listen() failed: its Stop does nothing,
\* as Start was never called.
LeftByListen(d) ==
  result = "false" /\ d = at /\ thread[d] = "none" /\ Steps(d)[step] = "bind"

\* When Init has failed and cleared drivers_, and once the component is gone,
\* nothing of it is left: no thread, no member of a driver and no socket file
\* leading to one, but for the file of a driver whose bind() succeeded and
\* whose listen() failed (UnixSocketServer::Bind and Stop).
TeardownIsComplete ==
  pc = "gone" \/ (pc = "returned" /\ held = {}) =>
    \A d \in D : /\ ~Runs(d)
                 /\ alive[d] = {}
                 /\ path[Url(d)] = d => LeftByListen(d)

\* The simulator gets the configuration when every configured driver is in
\* drivers_, its thread runs and its socket file leads to it, and this stays
\* so until the drivers are destroyed (drivers with distinct names and urls).
CommandMeansReachable ==
  commanded /\ held # {} =>
    \A d \in D : d \in held /\ Runs(d) /\ path[Url(d)] = d

\* With a simulator that connects only after it got the configuration, no
\* callback runs before it, so none ever meets a writer that is not there
\* yet, although the server starts before the writer is made; and one meets a
\* member already destroyed only in the teardown after it: a failure before
\* it is clean.  A writer that Cyber refused is met by every message.
MisuseOnlyInLateTeardown ==
  \A d \in D :
    /\ misuse[d] # {} => commanded
    /\ "null" \notin misuse[d]
    /\ "destroyed" \in misuse[d] => /\ held = {}
                                   /\ pc \in {"destroy", "returned", "gone"}

\* Whenever the simulator connects, also before it was told to, a null writer
\* can only be met by the three kinds that start their server before they make
\* the writer their callback uses; never by the lidar, which makes it first.
OnlyLateWritersAreNull ==
  \A d \in D :
    "null" \in misuse[d] => Config[d].kind \in {"camera", "localization", "chassis"}

\* What Init's result says of the control connection: true means connected,
\* and every driver up; false with the drivers left running and a working
\* connection means that the connection came with the attempt after the last
\* counted one.
ResultMatchesControl ==
  pc = "returned" =>
    /\ result = "true" => control /\ retries < MaxRetries /\ held = D
    /\ result = "false" /\ control /\ held # {} => retries = MaxRetries

\* Init returns: the retries are bounded, and drivers_.clear() joins threads
\* that nobody is connected to yet.  The exception is an exception: one thrown
\* after the control connection is there makes Init join threads that the
\* simulator may keep in read().
InitReturns == <>(pc = "returned" \/ (pc = "destroy" /\ control))

=============================================================================
