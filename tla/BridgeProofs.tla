---------------------------- MODULE BridgeProofs ----------------------------
(***************************************************************************)
(* Bridge for every list of configured drivers, also one with names or     *)
(* sockets that clash: its types, that no server thread outlives its       *)
(* driver, and that nothing is left when the component is gone.  Then for  *)
(* every list with distinct names and sockets: what the command to the     *)
(* simulator means, what Init's result means, and which members a callback *)
(* can meet.                                                               *)
(***************************************************************************)
EXTENDS Bridge, TLAPS, SequenceTheorems

-----------------------------------------------------------------------------
(* What the eight drivers have in common                                   *)

MembersOf(r) == {r.members[i] : i \in 1..Len(r.members)}

\* The server is started right after it is bound, and only then; a step of
\* Init that is not the server's makes a member; the callback uses no others.
WellFormed(r) ==
  /\ Len(r.members) \in 1..5 /\ Len(r.init) \in 1..5
  /\ DOMAIN r.members = 1..Len(r.members)
  /\ {"server", "config"} \subseteq MembersOf(r)
  /\ \A i \in 1..Len(r.init) :
       /\ r.init[i] \in MembersOf(r) \cup {"bind", "start"}
       /\ r.init[i] = "bind" => i < Len(r.init) /\ r.init[i + 1] = "start"
       /\ r.init[i] = "start" => i > 1 /\ r.init[i - 1] = "bind"
  /\ \E i \in 1..Len(r.init) : r.init[i] = "start"
  /\ r.uses \subseteq {"config"} \cup {r.init[i] : i \in 1..Len(r.init)}
  /\ r.uses \cap {"server", "bind", "start"} = {}

LEMMA CameraFacts ==
  WellFormed([members |-> CameraMembers, init |-> CameraInit, uses |-> CameraUses])
BY DEF WellFormed, MembersOf, CameraMembers, CameraInit, CameraUses

LEMMA LidarFacts ==
  WellFormed([members |-> LidarMembers, init |-> LidarInit, uses |-> LidarUses])
BY DEF WellFormed, MembersOf, LidarMembers, LidarInit, LidarUses

LEMMA RadarFacts ==
  WellFormed([members |-> RadarMembers, init |-> RadarInit, uses |-> RadarUses])
BY DEF WellFormed, MembersOf, RadarMembers, RadarInit, RadarUses

LEMMA GnssFacts ==
  WellFormed([members |-> GnssMembers, init |-> GnssInit, uses |-> GnssUses])
BY DEF WellFormed, MembersOf, GnssMembers, GnssInit, GnssUses

LEMMA ImuFacts ==
  WellFormed([members |-> ImuMembers, init |-> ImuInit, uses |-> ImuUses])
BY DEF WellFormed, MembersOf, ImuMembers, ImuInit, ImuUses

LEMMA GroundTrueFacts ==
  WellFormed([members |-> GroundTrueMembers, init |-> GroundTrueInit,
              uses |-> GroundTrueUses])
BY DEF WellFormed, MembersOf, GroundTrueMembers, GroundTrueInit, GroundTrueUses

LEMMA LocalizationFacts ==
  WellFormed([members |-> LocalizationMembers, init |-> LocalizationInit,
              uses |-> LocalizationUses])
BY DEF WellFormed, MembersOf, LocalizationMembers, LocalizationInit, LocalizationUses

LEMMA ChassisFacts ==
  WellFormed([members |-> ChassisMembers, init |-> ChassisInit, uses |-> ChassisUses])
BY DEF WellFormed, MembersOf, ChassisMembers, ChassisInit, ChassisUses

LEMMA DriverFacts ==
  ASSUME NEW k \in DOMAIN Driver
  PROVE  WellFormed(Driver[k])
<1>1. k \in {"camera", "lidar", "radar", "gnss", "imu", "ground_true",
             "localization", "chassis"}
  BY DEF Driver
<1>2. CASE k = "camera"
  BY <1>2, CameraFacts DEF Driver
<1>3. CASE k = "lidar"
  BY <1>3, LidarFacts DEF Driver
<1>4. CASE k = "radar"
  BY <1>4, RadarFacts DEF Driver
<1>5. CASE k = "gnss"
  BY <1>5, GnssFacts DEF Driver
<1>6. CASE k = "imu"
  BY <1>6, ImuFacts DEF Driver
<1>7. CASE k = "ground_true"
  BY <1>7, GroundTrueFacts DEF Driver
<1>8. CASE k = "localization"
  BY <1>8, LocalizationFacts DEF Driver
<1>9. CASE k = "chassis"
  BY <1>9, ChassisFacts DEF Driver
<1>10. QED BY <1>1, <1>2, <1>3, <1>4, <1>5, <1>6, <1>7, <1>8, <1>9

MemberSet(d) == {Members(d)[i] : i \in 1..Len(Members(d))}

LEMMA ConfigFacts ==
  /\ Len(Config) \in Nat /\ D = 1..Len(Config) /\ NoDriver \notin D
  /\ \A d \in D : Config[d].kind \in DOMAIN Driver
<1>1. Config \in Seq([kind : DOMAIN Driver, name : STRING, url : STRING,
               refused : SUBSET {"writer", "status"}])
  BY BridgeAssumption
<1>2. Len(Config) \in Nat /\ D = 1..Len(Config)
  BY <1>1 DEF D
<1>3. ASSUME NEW d \in D PROVE Config[d].kind \in DOMAIN Driver
  <2>1. Config[d] \in [kind : DOMAIN Driver, name : STRING, url : STRING,
               refused : SUBSET {"writer", "status"}]
    BY <1>1, <1>2, ElementOfSeq
  <2>2. QED BY <2>1
<1>4. QED BY <1>2, <1>3 DEF NoDriver

LEMMA DriverOf ==
  ASSUME NEW d \in D
  PROVE  /\ Len(Members(d)) \in 1..5 /\ Len(Steps(d)) \in 1..5
         /\ MemberSet(d) \subseteq MemberNames
         /\ {"server", "config"} \subseteq MemberSet(d)
         /\ \A i \in 1..Len(Steps(d)) :
              /\ Steps(d)[i] \in MemberSet(d) \cup {"bind", "start"}
              /\ Steps(d)[i] = "bind" =>
                   i < Len(Steps(d)) /\ Steps(d)[i + 1] = "start"
              /\ Steps(d)[i] = "start" => i > 1 /\ Steps(d)[i - 1] = "bind"
         /\ \E i \in 1..Len(Steps(d)) : Steps(d)[i] = "start"
         /\ Uses(d) \subseteq {"config"} \cup {Steps(d)[i] : i \in 1..Len(Steps(d))}
         /\ Uses(d) \cap {"server", "bind", "start"} = {}
         /\ Url(d) \in Urls
<1>1. WellFormed(Driver[Config[d].kind])
  BY ConfigFacts, DriverFacts
<1>2. MemberSet(d) \subseteq MemberNames
  <2>1. DOMAIN Members(d) = 1..Len(Members(d))
    BY <1>1 DEF WellFormed, Members
  <2>2. QED BY <2>1 DEF MemberSet, MemberNames
<1>3. QED BY <1>1, <1>2 DEF WellFormed, MembersOf, MemberSet, Members, Steps, Uses, Url, Urls

-----------------------------------------------------------------------------
(* The invariant                                                           *)

\* Driver d is somewhere where its destruction is certain.
Kept(d) == d \in held \cup victims \cup {victim} \/ (pc = "init" /\ d = at)

\* The task and the destruction it may be in.
TaskOrder ==
  /\ pc # "destroy" => victim = NoDriver /\ victims = {}
  /\ victim = NoDriver => member = 0
  /\ victim # NoDriver => member <= Len(Members(victim))
  /\ pc = "load" \/ after = "init" => step = 1
  /\ pc = "init" /\ at \in D => step <= Len(Steps(at)) + 1
  /\ pc = "gone" \/ after = "gone" => held = {}
  /\ pc = "destroy" <=> after # "none"

\* The members of a driver die from last to first, and none is forgotten.
MembersKept ==
  /\ \A d \in D : alive[d] \subseteq MemberSet(d)
  /\ \A d \in D : alive[d] # {} => Kept(d)
  /\ victim # NoDriver =>
       alive[victim] \subseteq {Members(victim)[i] : i \in 1..member}

\* Driver at is between the bind and the start of its server.
JustBound(d) ==
  pc = "init" /\ d = at /\ step > 1 /\ Steps(d)[step - 1] = "bind"

\* Driver d's socket file is left for ever: its listen() failed.
LeftDeaf(d) ==
  LeftByListen(d) /\ pc \in {"destroy", "returned", "gone"} /\ after # "init"

\* A thread and a socket file belong to a server that is there to stop and
\* unlink them, but for the file of a driver whose listen() failed.
ServersKept ==
  \A d \in D :
    /\ Runs(d) => "server" \in alive[d]
    /\ JustBound(d) => "server" \in alive[d]
    /\ path[Url(d)] = d =>
         \/ "server" \in alive[d] /\ (thread[d] # "none" \/ JustBound(d))
         \/ LeftDeaf(d)

BridgeInv == TypeOK /\ TaskOrder /\ MembersKept /\ ServersKept

LEMMA BridgeInit == Init => BridgeInv
<1> SUFFICES ASSUME Init PROVE BridgeInv
  OBVIOUS
<1>1. TypeOK
  <2>1. at \in 1..(Len(Config) + 1) /\ retries \in 0..MaxRetries
    BY ConfigFacts, BridgeAssumption DEF Init
  <2>2. /\ made \in [D -> SUBSET MemberNames] /\ alive \in [D -> SUBSET MemberNames]
        /\ misuse \in [D -> SUBSET {"null", "destroyed", "refused"}]
    BY Zenon DEF Init
  <2>3. /\ running \in [D -> BOOLEAN]
        /\ thread \in [D -> {"none", "accept", "read", "callback", "exited"}]
        /\ conn \in [D -> {"none", "open", "closed"}]
    BY DEF Init
  <2>4. path \in [Urls -> D \cup {NoDriver}]
    BY DEF Init
  <2>5. step \in 1..6 /\ member \in 0..5
    BY DEF Init
  <2>6. /\ pc = "load" /\ held \subseteq D /\ victims \subseteq D
        /\ victim = NoDriver /\ after = "none" /\ result = "none"
        /\ control = FALSE /\ commanded = FALSE /\ controlUp = FALSE
    BY Zenon DEF Init
  <2>7. QED BY <2>1, <2>2, <2>3, <2>4, <2>5, <2>6 DEF TypeOK
<1>2. TaskOrder
  BY DEF Init, TaskOrder
<1>3. MembersKept
  BY DEF Init, MembersKept
<1>4. ServersKept
  BY ConfigFacts DEF Init, ServersKept, Runs, JustBound, Url, Urls
<1>5. QED BY <1>1, <1>2, <1>3, <1>4 DEF BridgeInv

-----------------------------------------------------------------------------
(* Steps that construct and destroy nothing                                *)

LEMMA InvQuiet ==
  ASSUME BridgeInv, TypeOK', UNCHANGED <<taskVars, alive, path>>,
         \A e \in D : Runs(e)' => Runs(e),
         \A e \in D : thread[e] = "none" <=> thread'[e] = "none"
  PROVE  BridgeInv'
<1>1. TaskOrder'
  BY DEF BridgeInv, TaskOrder, taskVars
<1>2. MembersKept'
  BY DEF BridgeInv, MembersKept, Kept, taskVars
<1>3. ServersKept'
  BY DEF BridgeInv, ServersKept, JustBound, LeftDeaf, LeftByListen, Steps, taskVars
<1>4. QED BY <1>1, <1>2, <1>3 DEF BridgeInv

LEMMA InvSimulator ==
  ASSUME BridgeInv, Simulator
  PROVE  BridgeInv'
<1>1. UNCHANGED <<taskVars, driverVars>>
  BY DEF Simulator, SimControlUp, SimConnect, SimClose
<1>2. commanded' \in BOOLEAN /\ controlUp' \in BOOLEAN
      /\ conn' \in [D -> {"none", "open", "closed"}]
  BY DEF Simulator, SimControlUp, SimConnect, SimClose, BridgeInv, TypeOK
<1>3. TypeOK'
  BY <1>1, <1>2 DEF BridgeInv, TypeOK, taskVars, driverVars
<1>4. QED BY <1>1, <1>3, InvQuiet DEF driverVars, Runs

LEMMA InvThread ==
  ASSUME BridgeInv, NEW d \in D, ServerThread(d)
  PROVE  BridgeInv'
<1>1. UNCHANGED <<taskVars, made, alive, running, path, commanded, controlUp>>
  BY DEF ServerThread, AcceptClient, AcceptTimeout, EnterCallback, LeaveCallback,
    ReadIncomplete, ReadEof, simVars
<1>2. PICK w \in {"accept", "read", "callback", "exited"} :
        thread' = [thread EXCEPT ![d] = w]
  BY DEF ServerThread, AcceptClient, AcceptTimeout, EnterCallback, LeaveCallback,
    ReadIncomplete, ReadEof, OrExits, Goes
<1>3. Runs(d)
  BY DEF ServerThread, AcceptClient, AcceptTimeout, EnterCallback, LeaveCallback,
    ReadIncomplete, ReadEof, Runs
<1>4. conn' \in [D -> {"none", "open", "closed"}]
  BY DEF ServerThread, AcceptClient, AcceptTimeout, EnterCallback, LeaveCallback,
    ReadIncomplete, ReadEof, simVars, BridgeInv, TypeOK
<1>5. misuse' \in [D -> SUBSET {"null", "destroyed", "refused"}]
  <2>1. misuse \in [D -> SUBSET {"null", "destroyed", "refused"}]
    BY DEF BridgeInv, TypeOK
  <2>2. CASE LeaveCallback(d)
    BY <2>1, <2>2 DEF LeaveCallback
  <2>3. CASE UNCHANGED misuse
    BY <2>1, <2>3
  <2>4. QED BY <2>2, <2>3 DEF ServerThread, AcceptClient, AcceptTimeout,
          EnterCallback, ReadIncomplete, ReadEof
<1>6. thread' \in [D -> {"none", "accept", "read", "callback", "exited"}]
  BY <1>2 DEF BridgeInv, TypeOK
<1>7. TypeOK'
  BY <1>1, <1>4, <1>5, <1>6 DEF BridgeInv, TypeOK, taskVars
<1>8. thread'[d] = w /\ \A e \in D : e # d => thread'[e] = thread[e]
  BY <1>2 DEF BridgeInv, TypeOK
<1>9. QED BY <1>1, <1>3, <1>7, <1>8, InvQuiet DEF Runs

\* Init goes on to its next part, or returns.
LEMMA InvTask ==
  ASSUME BridgeInv,
         LoadConfig \/ SendCommand \/ ControlAttempt \/ ControlThrows
           \/ SendTargetWaypoint
  PROVE  BridgeInv'
<1>1. UNCHANGED <<at, step, held, victim, member, victims, after, driverVars>>
  BY DEF LoadConfig, SendCommand, ControlAttempt, ControlThrows,
    SendTargetWaypoint, NoDestruction, simVars
<1>2. /\ pc \in {"load", "init", "control", "waypoint"}
      /\ pc = "init" => at \notin D
      /\ pc' \in {"init", "control", "waypoint", "returned"}
      /\ pc' = "init" => pc = "load"
  BY DEF LoadConfig, SendCommand, ControlAttempt, ControlThrows,
    SendTargetWaypoint
<1>3. /\ retries' \in 0..MaxRetries /\ control' \in BOOLEAN
      /\ result' \in {"none", "true", "false"}
      /\ commanded' \in BOOLEAN /\ controlUp' \in BOOLEAN
      /\ conn' \in [D -> {"none", "open", "closed"}]
  BY BridgeAssumption DEF LoadConfig, SendCommand, ControlAttempt, ControlThrows,
    SendTargetWaypoint, AnotherTry, simVars, BridgeInv, TypeOK
<1>4. TypeOK'
  BY <1>1, <1>2, <1>3 DEF BridgeInv, TypeOK, driverVars
<1>5. TaskOrder'
  <2>1. \A d \in D : Len(Steps(d)) \in 1..5
    BY DriverOf
  <2>2. QED BY <1>1, <1>2, <2>1 DEF BridgeInv, TaskOrder
<1>6. MembersKept'
  BY <1>1, <1>2 DEF BridgeInv, MembersKept, Kept, driverVars
<1>7. ServersKept'
  <2>1. \A d \in D : ~JustBound(d) /\ ~JustBound(d)'
    BY <1>1, <1>2 DEF JustBound, BridgeInv, TaskOrder
  <2>2. \A d \in D : ~LeftDeaf(d)
    BY <1>2 DEF LeftDeaf
  <2>3. QED BY <1>1, <2>1, <2>2 DEF BridgeInv, ServersKept, Runs, driverVars
<1>8. QED BY <1>4, <1>5, <1>6, <1>7 DEF BridgeInv

-----------------------------------------------------------------------------
(* A driver's Init                                                         *)

LEMMA MakeFacts ==
  ASSUME TypeOK, NEW d \in D, NEW ms \in SUBSET MemberSet(d), Make(d, ms)
  PROVE  /\ made' \in [D -> SUBSET MemberNames]
         /\ alive' \in [D -> SUBSET MemberNames]
         /\ alive'[d] = alive[d] \cup ms \cup {"config"}
         /\ \A e \in D : e # d => alive'[e] = alive[e]
<1>1. ms \cup {"config"} \subseteq MemberNames
  BY DriverOf
<1>2. /\ made \in [D -> SUBSET MemberNames] /\ alive \in [D -> SUBSET MemberNames]
      /\ made' = [made EXCEPT ![d] = @ \cup ms \cup {"config"}]
      /\ alive' = [alive EXCEPT ![d] = @ \cup ms \cup {"config"}]
  BY DEF TypeOK, Make
<1>3. made' \in [D -> SUBSET MemberNames]
  BY <1>1, <1>2, Zenon
<1>4. alive' \in [D -> SUBSET MemberNames]
  BY <1>1, <1>2, Zenon
<1>5. QED BY <1>2, <1>3, <1>4

LEMMA InvInitStep ==
  ASSUME BridgeInv, InitStep
  PROVE  BridgeInv'
<1> DEFINE s == Steps(at)[step]
<1>1. /\ pc = "init" /\ pc' = "init" /\ at \in D /\ step <= Len(Steps(at))
      /\ step' = step + 1
      /\ UNCHANGED <<at, held, victim, member, victims, after, retries, control,
                     result, misuse, simVars>>
  BY DEF InitStep, NoDestruction
<1>2. /\ step \in 1..Len(Steps(at)) /\ Len(Steps(at)) \in 1..5
      /\ s \in MemberSet(at) \cup {"bind", "start"}
      /\ s = "bind" => step < Len(Steps(at)) /\ Steps(at)[step + 1] = "start"
      /\ s = "start" => step > 1 /\ Steps(at)[step - 1] = "bind"
      /\ "server" \in MemberSet(at) /\ "config" \in MemberSet(at)
      /\ Url(at) \in Urls
  <2>1. step \in 1..6
    BY DEF BridgeInv, TypeOK
  <2>2. step \in 1..Len(Steps(at)) /\ Len(Steps(at)) \in 1..5
    BY <1>1, <2>1, DriverOf
  <2>3. QED BY <1>1, <2>2, DriverOf
<1>3. /\ alive' \in [D -> SUBSET MemberNames] /\ made' \in [D -> SUBSET MemberNames]
      /\ alive[at] \subseteq alive'[at] /\ alive'[at] \subseteq MemberSet(at)
      /\ \A e \in D : e # at => alive'[e] = alive[e]
      /\ s = "bind" => "server" \in alive'[at]
  <2>1. alive[at] \subseteq MemberSet(at) /\ TypeOK
    BY <1>1 DEF BridgeInv, MembersKept
  <2>2. CASE s = "bind"
    <3>1. Make(at, {"server"}) /\ {"server"} \in SUBSET MemberSet(at)
      BY <1>2, <2>2 DEF InitStep
    <3>2. QED BY <1>1, <1>2, <2>1, <3>1, MakeFacts
  <2>3. CASE s = "start"
    BY <2>1, <2>3 DEF InitStep, TypeOK
  <2>4. CASE s \notin {"bind", "start"}
    <3>1. Make(at, {s}) /\ {s} \in SUBSET MemberSet(at)
      BY <1>2, <2>4 DEF InitStep
    <3>2. QED BY <1>1, <1>2, <2>1, <2>4, <3>1, MakeFacts
  <2>5. QED BY <2>2, <2>3, <2>4
<1>4. /\ running' \in [D -> BOOLEAN]
      /\ thread' \in [D -> {"none", "accept", "read", "callback", "exited"}]
      /\ s # "start" => UNCHANGED thread
      /\ s = "start" => thread'[at] = "accept"
      /\ \A e \in D : e # at => thread'[e] = thread[e]
  BY <1>1 DEF InitStep, BridgeInv, TypeOK
<1>5. /\ path' \in [Urls -> D \cup {NoDriver}]
      /\ s # "bind" => UNCHANGED path
      /\ \A e \in D : e # at /\ path'[Url(e)] = e => path[Url(e)] = e
  <2>1. path \in [Urls -> D \cup {NoDriver}] /\ \A e \in D : Url(e) \in Urls
    BY DriverOf DEF BridgeInv, TypeOK
  <2>2. CASE s = "bind"
    <3>1. path' = [path EXCEPT ![Url(at)] = at]
      BY <2>2 DEF InitStep, Bound
    <3>2. path' \in [Urls -> D \cup {NoDriver}]
      BY <1>1, <2>1, <3>1
    <3>3. \A e \in D : path'[Url(e)] = path[Url(e)] \/ path'[Url(e)] = at
      BY <2>1, <3>1
    <3>4. QED BY <2>2, <3>2, <3>3
  <2>3. CASE s # "bind"
    <3>1. UNCHANGED path
      BY <2>3 DEF InitStep
    <3>2. QED BY <2>1, <2>3, <3>1
  <2>4. QED BY <2>2, <2>3
<1>6. TypeOK'
  <2>1. step' \in 1..6
    BY <1>1, <1>2
  <2>2. QED BY <1>1, <1>3, <1>4, <1>5, <2>1 DEF BridgeInv, TypeOK, simVars
<1>7. TaskOrder'
  BY <1>1, <1>2 DEF BridgeInv, TaskOrder
<1>8. MembersKept'
  <2>1. victim = NoDriver
    BY <1>1 DEF BridgeInv, TaskOrder
  <2>2. \A d \in D : alive'[d] \subseteq MemberSet(d)
    BY <1>3 DEF BridgeInv, MembersKept
  <2>3. \A d \in D : alive'[d] # {} => Kept(d)'
    BY <1>1, <1>3 DEF BridgeInv, MembersKept, Kept
  <2>4. QED BY <1>1, <2>1, <2>2, <2>3 DEF MembersKept
<1>9. ServersKept'
  <2>1. \A d \in D : JustBound(d)' <=> d = at /\ s = "bind"
    <3>1. step' - 1 = step /\ step' > 1
      BY <1>1, <1>2
    <3>2. QED BY <1>1, <3>1 DEF JustBound
  <2>2. s = "start" => JustBound(at)
    BY <1>1, <1>2 DEF JustBound
  <2>3. JustBound(at) => s = "start"
    <3>1. SUFFICES ASSUME step > 1, Steps(at)[step - 1] = "bind"
                   PROVE  s = "start"
      BY DEF JustBound
    <3>2. step - 1 \in 1..Len(Steps(at)) /\ (step - 1) + 1 = step
      BY <1>2, <3>1
    <3>3. QED BY <1>1, <3>1, <3>2, DriverOf
  <2>10. \A d \in D : ~LeftDeaf(d)
    BY <1>1 DEF LeftDeaf
  <2>4. SUFFICES ASSUME NEW d \in D
                 PROVE  /\ Runs(d)' => "server" \in alive'[d]
                        /\ JustBound(d)' => "server" \in alive'[d]
                        /\ path'[Url(d)] = d =>
                             "server" \in alive'[d]
                               /\ (thread'[d] # "none" \/ JustBound(d)')
    BY DEF ServersKept
  <2>5. CASE d # at
    <3>1. ~JustBound(d)
      BY <2>5 DEF JustBound
    <3>2. QED BY <1>3, <1>4, <1>5, <2>1, <2>10, <2>5, <3>1 DEF BridgeInv, ServersKept, Runs
  <2>6. CASE d = at /\ s = "bind"
    <3>1. "server" \in alive'[d]
      BY <1>3, <2>6
    <3>2. QED BY <2>1, <2>6, <3>1
  <2>7. CASE d = at /\ s = "start"
    <3>1. "server" \in alive[d]
      BY <2>2, <2>7 DEF BridgeInv, ServersKept
    <3>2. "server" \in alive'[d] /\ thread'[d] # "none"
      BY <1>3, <1>4, <2>7, <3>1
    <3>3. QED BY <3>2
  <2>8. CASE d = at /\ s \notin {"bind", "start"}
    <3>1. ~JustBound(d) /\ UNCHANGED <<thread, path>>
      BY <1>4, <1>5, <2>3, <2>8
    <3>2. QED BY <1>3, <2>1, <2>10, <2>8, <3>1 DEF BridgeInv, ServersKept, Runs
  <2>9. QED BY <2>5, <2>6, <2>7, <2>8
<1>10. QED BY <1>6, <1>7, <1>8, <1>9 DEF BridgeInv

-----------------------------------------------------------------------------
(* The beginning of a destruction                                          *)

LEMMA InvDestroy ==
  ASSUME BridgeInv, TypeOK', pc \notin {"destroy", "gone"},
         NEW d \in D \cup {NoDriver}, NEW S \in SUBSET D,
         NEW then \in {"init", "returned", "gone"}, Destroy(d, S, then),
         then = "init" => step' = 1, then = "gone" => held' = {},
         \A e \in D : alive'[e] \subseteq MemberSet(e),
         \A e \in D : alive'[e] # {} => alive[e] # {} \/ e = d,
         \A e \in D : e \in held \/ (pc = "init" /\ e = at) =>
                        e \in held' \cup S \cup {d}
  PROVE  TaskOrder' /\ MembersKept'
<1>1. /\ pc' = "destroy" /\ victim' = d /\ victims' = S /\ after' = then
      /\ member' = IF d = NoDriver THEN 0 ELSE Len(Members(d))
  BY DEF Destroy
<1>2. d # NoDriver => d \in D /\ Len(Members(d)) \in 1..5
  BY DriverOf
<1>3. TaskOrder'
  BY <1>1, <1>2 DEF TaskOrder
<1>4. victim = NoDriver /\ victims = {}
  BY DEF BridgeInv, TaskOrder
<1>5. \A e \in D : alive'[e] # {} => Kept(e)'
  <2>1. SUFFICES ASSUME NEW e \in D, alive'[e] # {}
                 PROVE  e \in held' \cup S \cup {d}
    BY <1>1 DEF Kept
  <2>2. CASE e = d
    BY <2>2
  <2>3. CASE alive[e] # {}
    <3>1. e # NoDriver
      BY ConfigFacts
    <3>2. e \in held \/ (pc = "init" /\ e = at)
      BY <1>4, <2>3, <3>1 DEF BridgeInv, MembersKept, Kept
    <3>3. QED BY <3>2
  <2>4. QED BY <2>1, <2>2, <2>3
<1>6. d # NoDriver => alive'[d] \subseteq {Members(d)[i] : i \in 1..member'}
  BY <1>1, <1>2 DEF MemberSet
<1>7. MembersKept'
  BY <1>1, <1>5, <1>6 DEF MembersKept, MemberSet, Members
<1>8. QED BY <1>3, <1>7

\* Nothing of a server changes, and none is between bind and start.
LEMMA ServersStay ==
  ASSUME BridgeInv, UNCHANGED <<alive, thread, path>>,
         \A d \in D : ~JustBound(d), \A d \in D : ~JustBound(d)',
         \A d \in D : LeftDeaf(d) => LeftDeaf(d)'
  PROVE  ServersKept'
BY DEF BridgeInv, ServersKept, Runs

\* Init is done with a driver whose name was taken, or with all of them.
LEMMA InvClear ==
  ASSUME BridgeInv, CommandFails \/ WaypointThrows \/ DestroyComponent
  PROVE  BridgeInv'
<1>1. PICK then \in {"returned", "gone"} : Destroy(NoDriver, held, then)
  BY DEF CommandFails, WaypointThrows, DestroyComponent
<1>2. /\ pc \in {"init", "waypoint", "returned"} /\ (pc = "init" => at \notin D)
      /\ held' = {} /\ result' \in {"none", "true", "false"}
      /\ UNCHANGED <<at, step, retries, control, driverVars, simVars>>
  BY DEF CommandFails, WaypointThrows, DestroyComponent, BridgeInv, TypeOK
<1>3. /\ pc' = "destroy" /\ victim' = NoDriver /\ victims' = held
      /\ after' = then /\ member' = 0
  BY <1>1 DEF Destroy
<1>4. TypeOK'
  BY <1>2, <1>3 DEF BridgeInv, TypeOK, driverVars, simVars
<1>5. TaskOrder' /\ MembersKept'
  <2>1. held \in SUBSET D /\ pc \notin {"destroy", "gone"}
    BY <1>2 DEF BridgeInv, TypeOK
  <2>2. \A e \in D : /\ alive'[e] \subseteq MemberSet(e)
                     /\ alive'[e] # {} => alive[e] # {}
    BY <1>2 DEF BridgeInv, MembersKept, driverVars
  <2>3. \A e \in D : e \in held \/ (pc = "init" /\ e = at) =>
                       e \in held' \cup held \cup {NoDriver}
    BY <1>2
  <2>4. QED BY <1>1, <1>2, <1>4, <2>1, <2>2, <2>3, InvDestroy
<1>6. ServersKept'
  <2>1. \A d \in D : ~JustBound(d) /\ ~JustBound(d)'
    BY <1>2, <1>3 DEF JustBound
  <2>2. \A d \in D : LeftDeaf(d) => LeftDeaf(d)'
    <3>1. pc = "returned" => UNCHANGED result
      BY DEF CommandFails, WaypointThrows, DestroyComponent
    <3>2. QED BY <1>2, <1>3, <3>1 DEF LeftDeaf, LeftByListen, Steps, driverVars
  <2>3. QED BY <1>2, <2>1, <2>2, ServersStay DEF driverVars
<1>7. QED BY <1>4, <1>5, <1>6 DEF BridgeInv

LEMMA InvInsertDriver ==
  ASSUME BridgeInv, InsertDriver
  PROVE  BridgeInv'
<1>1. /\ pc = "init" /\ at \in D /\ step > Len(Steps(at))
      /\ at' = at + 1 /\ step' = 1
      /\ UNCHANGED <<retries, control, result, driverVars, simVars>>
  BY DEF InsertDriver
<1>2. at' \in 1..(Len(Config) + 1) /\ Len(Steps(at)) \in 1..5 /\ step \in Nat
  BY <1>1, ConfigFacts, DriverOf DEF BridgeInv, TypeOK
<1>3. \A d \in D : ~JustBound(d)
  <2>1. SUFFICES ASSUME JustBound(at) PROVE FALSE
    BY DEF JustBound
  <2>2. step = Len(Steps(at)) + 1
    BY <1>1, <1>2 DEF BridgeInv, TaskOrder
  <2>3. step - 1 = Len(Steps(at)) /\ Len(Steps(at)) \in 1..Len(Steps(at))
        /\ ~(Len(Steps(at)) < Len(Steps(at)))
    <3>1. \A n \in 1..5 : (n + 1) - 1 = n /\ n \in 1..n /\ ~(n < n)
      OBVIOUS
    <3>2. QED BY <1>2, <2>2, <3>1
  <2>4. QED BY <1>1, <2>1, <2>3, DriverOf DEF JustBound
<1>4. \A d \in D : ~JustBound(d)'
  BY <1>1 DEF JustBound
<1>5. ServersKept'
  <2>1. \A d \in D : ~LeftDeaf(d)
    BY <1>1 DEF LeftDeaf
  <2>2. QED BY <1>1, <1>3, <1>4, <2>1, ServersStay DEF driverVars
<1>6. CASE NameTaken
  <2>1. Destroy(at, {}, "init") /\ held' = held
    BY <1>6 DEF InsertDriver
  <2>2. /\ pc' = "destroy" /\ victim' = at /\ victims' = {} /\ after' = "init"
        /\ member' = Len(Members(at))
    BY <1>1, <2>1, ConfigFacts DEF Destroy
  <2>3. TypeOK'
    <3>1. member' \in 0..5 /\ step' \in 1..6
      <4>1. Len(Members(at)) \in 1..5
        BY <1>1, DriverOf
      <4>2. QED BY <1>1, <2>2, <4>1
    <3>2. pc' \in {"destroy"} /\ victim' \in D /\ victims' \subseteq D
          /\ after' \in {"init"}
      BY <1>1, <2>2
    <3>3. UNCHANGED <<held, retries, control, result, driverVars, simVars>>
      BY <1>1, <2>1
    <3>4. QED BY <1>2, <3>1, <3>2, <3>3 DEF BridgeInv, TypeOK, driverVars, simVars
  <2>4. \A e \in D : /\ alive'[e] \subseteq MemberSet(e)
                     /\ alive'[e] # {} => alive[e] # {}
    BY <1>1 DEF BridgeInv, MembersKept, driverVars
  <2>5. TaskOrder' /\ MembersKept'
    BY <1>1, <2>1, <2>3, <2>4, InvDestroy
  <2>6. QED BY <1>5, <2>3, <2>5 DEF BridgeInv
<1>7. CASE ~NameTaken
  <2>1. /\ held' = held \cup {at} /\ pc' = pc
        /\ UNCHANGED <<victim, member, victims, after>>
    BY <1>7 DEF InsertDriver, NoDestruction
  <2>2. TypeOK'
    BY <1>1, <1>2, <2>1 DEF BridgeInv, TypeOK, driverVars, simVars
  <2>3. TaskOrder'
    <3>1. at' \in D => Len(Steps(at')) \in 1..5
      BY DriverOf
    <3>2. QED BY <1>1, <2>1, <3>1 DEF BridgeInv, TaskOrder
  <2>4. MembersKept'
    BY <1>1, <2>1 DEF BridgeInv, MembersKept, Kept, TaskOrder, driverVars
  <2>5. QED BY <1>5, <2>2, <2>3, <2>4 DEF BridgeInv
<1>8. QED BY <1>6, <1>7

LEMMA InvInitStepFails ==
  ASSUME BridgeInv, InitStepFails
  PROVE  BridgeInv'
<1> DEFINE s == Steps(at)[step]
<1>1. /\ pc = "init" /\ at \in D /\ step <= Len(Steps(at))
      /\ Destroy(at, held, "returned") /\ held' = {} /\ result' = "false"
      /\ UNCHANGED <<at, step, retries, control, misuse, simVars>>
  BY DEF InitStepFails
<1>2. /\ pc' = "destroy" /\ victim' = at /\ victims' = held
      /\ after' = "returned" /\ member' = Len(Members(at))
  BY <1>1, ConfigFacts DEF Destroy
<1>3. /\ step \in 1..Len(Steps(at)) /\ Len(Steps(at)) \in 1..5
      /\ s = "bind" => s # "start"
      /\ s = "start" => step > 1 /\ Steps(at)[step - 1] = "bind"
      /\ {"server"} \in SUBSET MemberSet(at) /\ {} \in SUBSET MemberSet(at)
      /\ "config" \in MemberSet(at) /\ Url(at) \in Urls
  <2>1. step \in 1..6
    BY DEF BridgeInv, TypeOK
  <2>2. step \in 1..Len(Steps(at)) /\ Len(Steps(at)) \in 1..5
    BY <1>1, <2>1, DriverOf
  <2>3. QED BY <1>1, <2>2, DriverOf
<1>4. /\ alive' \in [D -> SUBSET MemberNames] /\ made' \in [D -> SUBSET MemberNames]
      /\ alive[at] \subseteq alive'[at] /\ alive'[at] \subseteq MemberSet(at)
      /\ \A e \in D : e # at => alive'[e] = alive[e]
      /\ s = "bind" => "server" \in alive'[at]
  <2>1. alive[at] \subseteq MemberSet(at) /\ TypeOK
    BY <1>1 DEF BridgeInv, MembersKept
  <2>2. CASE s = "bind"
    <3>1. Make(at, {"server"})
      BY <2>2 DEF InitStepFails
    <3>2. QED BY <1>1, <1>3, <2>1, <3>1, MakeFacts
  <2>3. CASE s = "start"
    BY <2>1, <2>3 DEF InitStepFails, TypeOK
  <2>4. CASE s \notin {"bind", "start"}
    <3>1. Make(at, {})
      BY <2>4 DEF InitStepFails
    <3>2. QED BY <1>1, <1>3, <2>1, <2>4, <3>1, MakeFacts
  <2>5. QED BY <2>2, <2>3, <2>4
<1>5. /\ running' \in [D -> BOOLEAN]
      /\ thread' \in [D -> {"none", "accept", "read", "callback", "exited"}]
      /\ s # "start" => UNCHANGED thread
      /\ s = "start" => thread'[at] = "exited"
      /\ \A e \in D : e # at => thread'[e] = thread[e]
  BY <1>1 DEF InitStepFails, BridgeInv, TypeOK
<1>6. /\ path' \in [Urls -> D \cup {NoDriver}]
      /\ \A e \in D : path'[Url(e)] = e =>
                        path[Url(e)] = e \/ (e = at /\ s = "bind")
  <2>1. path \in [Urls -> D \cup {NoDriver}] /\ \A e \in D : Url(e) \in Urls
    BY DriverOf DEF BridgeInv, TypeOK
  <2>2. \/ path' = path \/ path' = [path EXCEPT ![Url(at)] = NoDriver]
        \/ s = "bind" /\ path' = [path EXCEPT ![Url(at)] = at]
    BY <1>1 DEF InitStepFails, Unlinked, Bound
  <2>3. QED BY <1>1, <2>1, <2>2, ConfigFacts
<1>7. TypeOK'
  <2>1. member' \in 0..5 /\ step' \in 1..6
    <3>1. Len(Members(at)) \in 1..5
      BY <1>1, DriverOf
    <3>2. QED BY <1>1, <1>2, <1>3, <3>1
  <2>2. pc' \in {"destroy"} /\ victim' \in D /\ victims' \subseteq D
        /\ after' \in {"returned"} /\ held' = {} /\ result' \in {"false"}
    BY <1>1, <1>2 DEF BridgeInv, TypeOK
  <2>3. QED BY <1>1, <1>4, <1>5, <1>6, <2>1, <2>2 DEF BridgeInv, TypeOK, simVars
<1>8. TaskOrder' /\ MembersKept'
  <2>1. \A e \in D : /\ alive'[e] \subseteq MemberSet(e)
                     /\ alive'[e] # {} => alive[e] # {} \/ e = at
    BY <1>4 DEF BridgeInv, MembersKept
  <2>2. held \in SUBSET D
    BY DEF BridgeInv, TypeOK
  <2>3. QED BY <1>1, <1>7, <2>1, <2>2, InvDestroy
<1>9. ServersKept'
  <2>1. JustBound(at) <=> s = "start"
    <3>1. ASSUME JustBound(at) PROVE s = "start"
      <4>1. step - 1 \in 1..Len(Steps(at)) /\ (step - 1) + 1 = step
        BY <1>3, <3>1 DEF JustBound
      <4>2. QED BY <1>1, <3>1, <4>1, DriverOf DEF JustBound
    <3>2. QED BY <1>1, <1>3, <3>1 DEF JustBound
  <2>2. \A d \in D : ~JustBound(d)'
    BY <1>2 DEF JustBound
  <2>3. SUFFICES ASSUME NEW d \in D
                 PROVE  /\ Runs(d)' => "server" \in alive'[d]
                        /\ path'[Url(d)] = d =>
                             \/ "server" \in alive'[d] /\ thread'[d] # "none"
                             \/ LeftDeaf(d)'
    BY <2>2 DEF ServersKept
  <2>8. \A e \in D : ~LeftDeaf(e)
    BY <1>1 DEF LeftDeaf
  <2>4. CASE d # at
    <3>1. ~JustBound(d)
      BY <2>4 DEF JustBound
    <3>2. QED BY <1>4, <1>5, <1>6, <2>4, <2>8, <3>1 DEF BridgeInv, ServersKept, Runs
  <2>5. CASE d = at /\ s = "start"
    BY <1>4, <1>5, <1>6, <2>1, <2>5, <2>8 DEF BridgeInv, ServersKept, Runs
  <2>6. CASE d = at /\ s \notin {"bind", "start"}
    BY <1>4, <1>5, <1>6, <2>1, <2>6, <2>8 DEF BridgeInv, ServersKept, Runs
  <2>9. CASE d = at /\ s = "bind"
    <3>1. "server" \in alive'[d]
      BY <1>4, <2>9
    <3>2. thread'[d] = "none" => LeftDeaf(d)'
      BY <1>1, <1>2, <2>9 DEF LeftDeaf, LeftByListen, Steps
    <3>3. QED BY <3>1, <3>2
  <2>7. QED BY <2>4, <2>5, <2>6, <2>9
<1>10. QED BY <1>7, <1>8, <1>9 DEF BridgeInv

-----------------------------------------------------------------------------
(* The destruction                                                         *)

LEMMA InvNextVictim ==
  ASSUME BridgeInv, NextVictim
  PROVE  BridgeInv'
<1>1. /\ pc = "destroy" /\ member = 0
      /\ UNCHANGED <<at, step, held, retries, control, result, driverVars, simVars>>
  BY DEF NextVictim
<1>2. victim # NoDriver => alive[victim] = {}
  <2>1. SUFFICES ASSUME victim # NoDriver, NEW m \in alive[victim] PROVE FALSE
    OBVIOUS
  <2>2. PICK i \in 1..member : m = Members(victim)[i]
    BY <2>1 DEF BridgeInv, MembersKept
  <2>3. QED BY <1>1, <2>2
<1>3. \A d \in D : ~JustBound(d)
  BY <1>1 DEF JustBound
<1>4. CASE \E d \in victims : /\ victim' = d /\ member' = Len(Members(d))
                              /\ victims' = victims \ {d}
                              /\ UNCHANGED <<pc, after>>
  <2>1. PICK d \in victims : /\ victim' = d /\ member' = Len(Members(d))
                             /\ victims' = victims \ {d}
                             /\ UNCHANGED <<pc, after>>
    BY <1>4
  <2>2. d \in D /\ Len(Members(d)) \in 1..5 /\ d # NoDriver
    BY DriverOf, ConfigFacts DEF BridgeInv, TypeOK
  <2>3. TypeOK'
    <3>1. member' \in 0..5 /\ victim' \in D /\ victims' \subseteq D
      BY <2>1, <2>2 DEF BridgeInv, TypeOK
    <3>2. QED BY <1>1, <2>1, <3>1 DEF BridgeInv, TypeOK, driverVars, simVars
  <2>4. TaskOrder'
    BY <1>1, <2>1, <2>2 DEF BridgeInv, TaskOrder
  <2>5. MembersKept'
    <3>1. UNCHANGED alive
      BY <1>1 DEF driverVars
    <3>2. alive[d] \subseteq {Members(d)[i] : i \in 1..Len(Members(d))}
      BY <2>2 DEF BridgeInv, MembersKept, MemberSet
    <3>3. \A e \in D : alive[e] # {} => Kept(e)'
      <4>1. SUFFICES ASSUME NEW e \in D, alive[e] # {} PROVE Kept(e)'
        OBVIOUS
      <4>2. e \in held \cup victims
        BY <1>1, <1>2, <4>1, ConfigFacts DEF BridgeInv, MembersKept, Kept
      <4>3. e \in held' \cup victims' \cup {victim'}
        BY <1>1, <2>1, <4>2
      <4>4. QED BY <4>3 DEF Kept
    <3>4. QED BY <2>1, <3>1, <3>2, <3>3 DEF BridgeInv, MembersKept, MemberSet, Members
  <2>6. ServersKept'
    <3>1. \A e \in D : ~JustBound(e)'
      BY <1>1, <2>1 DEF JustBound
    <3>2. \A e \in D : LeftDeaf(e) => LeftDeaf(e)'
      BY <1>1, <2>1 DEF LeftDeaf, LeftByListen, Steps, driverVars
    <3>3. QED BY <1>1, <1>3, <3>1, <3>2, ServersStay DEF driverVars
  <2>7. QED BY <2>3, <2>4, <2>5, <2>6 DEF BridgeInv
<1>5. CASE /\ victims = {} /\ victim' = NoDriver /\ pc' = after /\ after' = "none"
           /\ UNCHANGED <<member, victims>>
  <2>1. after \in {"init", "returned", "gone"}
    BY <1>1 DEF BridgeInv, TypeOK, TaskOrder
  <2>2. TypeOK'
    <3>1. pc' \in {"init", "returned", "gone"} /\ after' \in {"none"}
          /\ victim' = NoDriver
      BY <1>5, <2>1
    <3>2. QED BY <1>1, <1>5, <3>1 DEF BridgeInv, TypeOK, driverVars, simVars
  <2>3. TaskOrder'
    <3>1. at \in D => Len(Steps(at)) \in 1..5
      BY DriverOf
    <3>2. QED BY <1>1, <1>5, <2>1, <3>1 DEF BridgeInv, TaskOrder
  <2>4. MembersKept'
    <3>1. UNCHANGED alive
      BY <1>1 DEF driverVars
    <3>2. \A e \in D : alive[e] # {} => Kept(e)'
      BY <1>1, <1>2, <1>5 DEF BridgeInv, MembersKept, Kept
    <3>3. QED BY <1>5, <3>1, <3>2 DEF BridgeInv, MembersKept
  <2>5. ServersKept'
    <3>1. \A e \in D : ~JustBound(e)'
      BY <1>1, <1>5 DEF JustBound, BridgeInv, TaskOrder
    <3>2. \A e \in D : LeftDeaf(e) => LeftDeaf(e)'
      BY <1>1, <1>5, <2>1 DEF LeftDeaf, LeftByListen, Steps, driverVars
    <3>3. QED BY <1>1, <1>3, <3>1, <3>2, ServersStay DEF driverVars
  <2>6. QED BY <2>2, <2>3, <2>4, <2>5 DEF BridgeInv
<1>6. QED BY <1>4, <1>5 DEF NextVictim

\* One member of the victim is destroyed.
LEMMA InvMember ==
  ASSUME BridgeInv, pc = "destroy", member > 0,
         alive' = [alive EXCEPT ![victim] = @ \ {Dying}], member' = member - 1,
         UNCHANGED <<pc, at, step, held, victim, victims, after, retries,
                     control, result, made, running, thread, misuse, simVars>>,
         path' \in [Urls -> D \cup {NoDriver}]
  PROVE  /\ TypeOK' /\ TaskOrder' /\ MembersKept'
         /\ victim \in D
         /\ \A d \in D : d # victim => alive'[d] = alive[d]
         /\ alive'[victim] = alive[victim] \ {Dying}
<1>1. /\ alive \in [D -> SUBSET MemberNames] /\ member \in 0..5
      /\ victim \in D \cup {NoDriver}
  BY DEF BridgeInv, TypeOK
<1>2. victim \in D /\ victim # NoDriver /\ Len(Members(victim)) \in 1..5
      /\ member <= Len(Members(victim))
  BY <1>1, DriverOf, ConfigFacts DEF BridgeInv, TaskOrder
<1>3. /\ alive' \in [D -> SUBSET MemberNames]
      /\ alive'[victim] = alive[victim] \ {Dying}
      /\ \A d \in D : d # victim => alive'[d] = alive[d]
  BY <1>1, <1>2
<1>4. member' \in 0..5 /\ member' <= Len(Members(victim))
  BY <1>1, <1>2
<1>5. TypeOK'
  BY <1>3, <1>4 DEF BridgeInv, TypeOK, simVars
<1>6. TaskOrder'
  BY <1>2, <1>4 DEF BridgeInv, TaskOrder, Members
<1>7. MembersKept'
  <2>1. \A d \in D : alive'[d] \subseteq alive[d]
    BY <1>3
  <2>2. ASSUME NEW m \in alive'[victim]
        PROVE  \E i \in 1..member' : m = Members(victim)[i]
    <3>1. m \in alive[victim] /\ m # Members(victim)[member]
      BY <1>3, <2>2 DEF Dying
    <3>2. PICK i \in 1..member : m = Members(victim)[i]
      BY <1>2, <3>1 DEF BridgeInv, MembersKept
    <3>3. i \in 1..member'
      BY <1>1, <3>1, <3>2
    <3>4. QED BY <3>2, <3>3
  <2>3. alive'[victim] \subseteq {Members(victim)[i] : i \in 1..member'}
    BY <2>2
  <2>4. \A d \in D : alive'[d] # {} => Kept(d)'
    BY <2>1 DEF BridgeInv, MembersKept, Kept
  <2>5. \A d \in D : alive'[d] \subseteq MemberSet(d)
    BY <2>1 DEF BridgeInv, MembersKept
  <2>6. QED BY <2>3, <2>4, <2>5 DEF MembersKept, MemberSet, Members
<1>8. QED BY <1>2, <1>3, <1>5, <1>6, <1>7

LEMMA InvDestroyMember ==
  ASSUME BridgeInv, DestroyMember
  PROVE  BridgeInv'
<1>1. TypeOK' /\ TaskOrder' /\ MembersKept' /\ victim \in D
      /\ (\A d \in D : d # victim => alive'[d] = alive[d])
      /\ alive'[victim] = alive[victim] \ {Dying}
  BY InvMember DEF DestroyMember, BridgeInv, TypeOK
<1>2. \A d \in D : "server" \in alive[d] => "server" \in alive'[d]
  BY <1>1 DEF DestroyMember
<1>3. UNCHANGED <<thread, path, pc, at, step>>
  BY DEF DestroyMember
<1>4. ServersKept'
  <2>1. \A d \in D : LeftDeaf(d) => LeftDeaf(d)'
    BY DEF DestroyMember, LeftDeaf, LeftByListen, Steps
  <2>2. QED BY <1>2, <1>3, <2>1 DEF BridgeInv, ServersKept, Runs, JustBound
<1>5. QED BY <1>1, <1>4 DEF BridgeInv

LEMMA InvStopServer ==
  ASSUME BridgeInv, StopServer
  PROVE  BridgeInv'
<1>1. UNCHANGED <<taskVars, made, alive, thread, path, misuse, simVars>>
      /\ running' = [running EXCEPT ![victim] = FALSE]
  BY DEF StopServer
<1>2. TypeOK'
  <2>1. running' \in [D -> BOOLEAN]
    BY <1>1 DEF BridgeInv, TypeOK
  <2>2. QED BY <1>1, <2>1 DEF BridgeInv, TypeOK, taskVars, simVars
<1>3. QED BY <1>1, <1>2, InvQuiet DEF Runs

LEMMA InvJoinServer ==
  ASSUME BridgeInv, JoinServer
  PROVE  BridgeInv'
<1>1. /\ pc = "destroy" /\ member > 0 /\ Dying = "server"
      /\ thread[victim] \in {"none", "exited"}
      /\ alive' = [alive EXCEPT ![victim] = @ \ {Dying}]
      /\ path' = IF thread[victim] = "exited" THEN Unlinked(Url(victim)) ELSE path
      /\ UNCHANGED <<thread, pc, at, step>>
  BY DEF JoinServer
<1>2. victim \in D
  BY <1>1 DEF BridgeInv, TypeOK, TaskOrder
<1>3. /\ path' \in [Urls -> D \cup {NoDriver}]
      /\ \A d \in D : path'[Url(d)] = d => path[Url(d)] = d
      /\ thread[victim] = "exited" => path'[Url(victim)] # victim
  <2>1. path \in [Urls -> D \cup {NoDriver}] /\ \A d \in D : Url(d) \in Urls
    BY DriverOf DEF BridgeInv, TypeOK
  <2>2. CASE thread[victim] = "exited"
    <3>1. path' = [path EXCEPT ![Url(victim)] = NoDriver]
      BY <1>1, <2>2 DEF Unlinked
    <3>2. path' \in [Urls -> D \cup {NoDriver}]
      BY <2>1, <3>1
    <3>3. \A d \in D : path'[Url(d)] = path[Url(d)] \/ path'[Url(d)] = NoDriver
      BY <2>1, <3>1
    <3>4. path'[Url(victim)] = NoDriver
      BY <1>2, <2>1, <3>1
    <3>5. QED BY <1>2, <3>2, <3>3, <3>4, ConfigFacts
  <2>3. CASE thread[victim] = "none"
    BY <1>1, <2>1, <2>3
  <2>4. QED BY <1>1, <2>2, <2>3
<1>4. TypeOK' /\ TaskOrder' /\ MembersKept'
      /\ (\A d \in D : d # victim => alive'[d] = alive[d])
      /\ alive'[victim] = alive[victim] \ {Dying}
  BY <1>1, <1>3, InvMember DEF JoinServer
<1>5. \A d \in D : ~JustBound(d) /\ ~JustBound(d)'
  BY <1>1 DEF JustBound
<1>6. ServersKept'
  <2>1. SUFFICES ASSUME NEW d \in D
                 PROVE  /\ Runs(d)' => "server" \in alive'[d]
                        /\ path'[Url(d)] = d =>
                             \/ "server" \in alive'[d] /\ thread'[d] # "none"
                             \/ LeftDeaf(d)'
    BY <1>5 DEF ServersKept
  <2>2. LeftDeaf(d) => LeftDeaf(d)'
    BY DEF JoinServer, LeftDeaf, LeftByListen, Steps
  <2>3. CASE d = victim
    <3>1. ~Runs(d)'
      BY <1>1, <2>3 DEF Runs
    <3>2. path'[Url(d)] = d => LeftDeaf(d)
      BY <1>1, <1>2, <1>3, <1>5, <2>3 DEF BridgeInv, ServersKept
    <3>3. QED BY <2>2, <3>1, <3>2
  <2>4. CASE d # victim
    BY <1>1, <1>3, <1>4, <1>5, <2>2, <2>4 DEF BridgeInv, ServersKept, Runs
  <2>5. QED BY <2>3, <2>4
<1>7. QED BY <1>4, <1>6 DEF BridgeInv

LEMMA BridgeStep == BridgeInv /\ [Next]_vars => BridgeInv'
<1> SUFFICES ASSUME BridgeInv, [Next]_vars PROVE BridgeInv'
  OBVIOUS
<1>1. CASE UNCHANGED vars
  <2>1. UNCHANGED <<taskVars, driverVars, simVars>>
    BY <1>1 DEF vars
  <2>2. TypeOK'
    BY <2>1 DEF BridgeInv, TypeOK, taskVars, driverVars, simVars
  <2>3. QED BY <2>1, <2>2, InvQuiet DEF driverVars, Runs
<1>2. CASE Task
  BY <1>2, InvTask, InvInitStep, InvInitStepFails, InvInsertDriver, InvClear,
    InvNextVictim, InvDestroyMember, InvStopServer, InvJoinServer DEF Task
<1>3. QED BY <1>1, <1>2, InvSimulator, InvThread DEF Next

LEMMA BridgeAlways == Spec => []BridgeInv
BY BridgeInit, BridgeStep, PTL DEF Spec

\* The component, its drivers and their threads keep their types for every
\* list of configured drivers (apollo_dttf_component.h and .cc).
THEOREM BridgeTypeCorrect == Spec => []TypeOK
<1>1. BridgeInv => TypeOK
  BY DEF BridgeInv
<1>2. QED BY <1>1, BridgeAlways, PTL

\* No server thread outlives its driver, whatever is configured: every early
\* return of Init and every name that is taken leads to a destructor that
\* joins it (InitDriverComponent, apollo_dttf_component.cc).
THEOREM NoOrphanAlways == Spec => []NoOrphanThread
<1>1. BridgeInv => NoOrphanThread
  BY DEF BridgeInv, MembersKept, ServersKept, Kept, NoOrphanThread
<1>2. QED BY <1>1, BridgeAlways, PTL

\* When Init has failed and cleared drivers_, and when the component is gone,
\* no thread, no member of a driver and no socket file leading to one is left,
\* whatever is configured and wherever Init failed, but for the file of the
\* driver whose listen() failed (UnixSocketServer::Bind and Stop,
\* InitDriverComponent).
THEOREM TeardownAlwaysComplete == Spec => []TeardownIsComplete
<1>1. BridgeInv => TeardownIsComplete
  <2>1. SUFFICES ASSUME BridgeInv, NEW d \in D,
                        pc = "gone" \/ (pc = "returned" /\ held = {})
                 PROVE  /\ ~Runs(d) /\ alive[d] = {}
                        /\ path[Url(d)] = d => LeftByListen(d)
    BY DEF TeardownIsComplete
  <2>2. held = {} /\ victims = {} /\ victim = NoDriver
    BY <2>1 DEF BridgeInv, TaskOrder
  <2>3. alive[d] = {}
    BY <2>1, <2>2, ConfigFacts DEF BridgeInv, MembersKept, Kept
  <2>4. QED BY <2>1, <2>3 DEF BridgeInv, ServersKept, LeftDeaf
<1>2. QED BY <1>1, BridgeAlways, PTL

-----------------------------------------------------------------------------
(* Null writers                                                            *)

IsLidar(d) == Config[d].kind = "lidar"

\* The lidar's writer is there before its server is.
LidarReady ==
  /\ \A d \in D : IsLidar(d) /\ thread[d] # "none" => LidarUses \subseteq made[d]
  /\ pc = "init" /\ at \in D /\ IsLidar(at) /\ step > 1 =>
       LidarUses \subseteq made[at]

NullInv == LidarReady /\ OnlyLateWritersAreNull

LEMMA LateKinds ==
  ASSUME NEW d \in D, Config[d].kind \notin {"camera", "localization", "chassis"}
  PROVE  Uses(d) = {} \/ (IsLidar(d) /\ Uses(d) = LidarUses)
<1>1. Config[d].kind \in {"lidar", "radar", "gnss", "imu", "ground_true"}
  BY ConfigFacts DEF Driver
<1>2. QED BY <1>1 DEF Uses, Driver, IsLidar, RadarUses, GnssUses, ImuUses,
        GroundTrueUses

LEMMA NullInitStep ==
  ASSUME BridgeInv, NullInv, InitStep \/ InitStepFails
  PROVE  NullInv'
<1>1. /\ pc = "init" /\ at \in D /\ step \in 1..Len(Steps(at))
      /\ UNCHANGED <<at, misuse>>
  <2>1. step \in 1..6
    BY DEF BridgeInv, TypeOK
  <2>2. QED BY <2>1, DriverOf DEF InitStep, InitStepFails
<1>2. /\ made \in [D -> SUBSET MemberNames] /\ alive \in [D -> SUBSET MemberNames]
      /\ thread \in [D -> {"none", "accept", "read", "callback", "exited"}]
  BY DEF BridgeInv, TypeOK
<1>3. /\ \A d \in D : made[d] \subseteq made'[d]
      /\ \A d \in D : thread'[d] # "none" => thread[d] # "none"
                        \/ (d = at /\ Steps(at)[step] = "start")
  BY <1>1, <1>2 DEF InitStep, InitStepFails, Make
<1>4. ASSUME IsLidar(at)
      PROVE  /\ step > 1 => LidarUses \subseteq made[at]
             /\ Steps(at)[step] = "start" => step > 1
             /\ InitStep => LidarUses \subseteq made'[at]
  <2>1. Steps(at) = LidarInit
    BY <1>4 DEF Steps, IsLidar, Driver
  <2>2. step > 1 => LidarUses \subseteq made[at]
    BY <1>1, <1>4 DEF NullInv, LidarReady
  <2>3. CASE step = 1
    <3>1. Steps(at)[step] = "writer"
      BY <2>1, <2>3 DEF LidarInit
    <3>2. InitStep => made' = [made EXCEPT ![at] = @ \cup {"writer"} \cup {"config"}]
      BY <3>1 DEF InitStep, Make
    <3>3. QED BY <1>1, <1>2, <2>2, <3>1, <3>2 DEF LidarUses
  <2>4. CASE step # 1
    BY <1>1, <1>3, <2>2, <2>4
  <2>5. QED BY <2>3, <2>4
<1>5. \A d \in D : IsLidar(d) /\ thread'[d] # "none" => LidarUses \subseteq made'[d]
  BY <1>1, <1>3, <1>4 DEF NullInv, LidarReady
<1>6. pc' = "init" /\ IsLidar(at) => LidarUses \subseteq made'[at]
  BY <1>4 DEF InitStep, InitStepFails, Destroy
<1>7. LidarReady'
  BY <1>1, <1>5, <1>6 DEF LidarReady, IsLidar
<1>8. OnlyLateWritersAreNull'
  BY <1>1 DEF NullInv, OnlyLateWritersAreNull
<1>9. QED BY <1>7, <1>8 DEF NullInv

LEMMA NullTask ==
  ASSUME BridgeInv, NullInv, Task, ~InitStep, ~InitStepFails
  PROVE  NullInv'
<1>1. UNCHANGED <<made, thread, misuse>>
  BY DEF Task, LoadConfig, InsertDriver, CommandFails, SendCommand,
    ControlAttempt, ControlThrows, SendTargetWaypoint, WaypointThrows,
    DestroyComponent, NextVictim, DestroyMember, StopServer, JoinServer, driverVars
<1>2. pc' = "init" => step' = 1 \/ UNCHANGED <<pc, at, step>>
  BY DEF Task, LoadConfig, InsertDriver, CommandFails, SendCommand,
    ControlAttempt, ControlThrows, SendTargetWaypoint, WaypointThrows,
    DestroyComponent, NextVictim, DestroyMember, StopServer, JoinServer, Destroy,
    NoDestruction, taskVars, BridgeInv, TaskOrder
<1>3. LidarReady'
  BY <1>1, <1>2 DEF NullInv, LidarReady, IsLidar
<1>4. QED BY <1>1, <1>3 DEF NullInv, OnlyLateWritersAreNull

LEMMA NullThread ==
  ASSUME BridgeInv, NullInv, NEW d \in D, ServerThread(d)
  PROVE  NullInv'
<1>1. UNCHANGED <<pc, at, step, made>> /\ thread[d] # "none"
  BY DEF ServerThread, AcceptClient, AcceptTimeout, EnterCallback, LeaveCallback,
    ReadIncomplete, ReadEof, taskVars
<1>2. \A e \in D : thread'[e] # "none" => thread[e] # "none"
  BY <1>1 DEF ServerThread, AcceptClient, AcceptTimeout, EnterCallback,
    LeaveCallback, ReadIncomplete, ReadEof, OrExits, Goes, BridgeInv, TypeOK
<1>3. LidarReady'
  BY <1>1, <1>2 DEF NullInv, LidarReady, IsLidar
<1>4. OnlyLateWritersAreNull'
  <2>1. CASE UNCHANGED misuse
    BY <2>1 DEF NullInv, OnlyLateWritersAreNull
  <2>2. CASE LeaveCallback(d)
    <3>1. misuse \in [D -> SUBSET {"null", "destroyed", "refused"}]
      BY DEF BridgeInv, TypeOK
    <3>2. ASSUME Config[d].kind \notin {"camera", "localization", "chassis"}
          PROVE  Uses(d) \subseteq made[d]
      BY <1>1, <3>2, LateKinds DEF NullInv, LidarReady
    <3>3. "null" \in misuse'[d] =>
            "null" \in misuse[d] \/ ~(Uses(d) \subseteq made[d])
      BY <2>2, <3>1 DEF LeaveCallback
    <3>4. \A e \in D : e # d => misuse'[e] = misuse[e]
      BY <2>2, <3>1 DEF LeaveCallback
    <3>5. QED BY <3>2, <3>3, <3>4 DEF NullInv, OnlyLateWritersAreNull
  <2>3. QED BY <2>1, <2>2 DEF ServerThread, AcceptClient, AcceptTimeout,
          EnterCallback, ReadIncomplete, ReadEof
<1>5. QED BY <1>3, <1>4 DEF NullInv

\* Whatever is configured and whenever the simulator connects: only the
\* camera, localization and chassis can meet a writer that is not made yet
\* (their Init starts the server before it makes the writer; the lidar's does
\* not, lidar_component.cc).
THEOREM NullOnlyFromLateWriters == Spec => []OnlyLateWritersAreNull
<1>1. Init => NullInv
  BY DEF Init, NullInv, LidarReady, OnlyLateWritersAreNull
<1>2. BridgeInv /\ NullInv /\ [Next]_vars => NullInv'
  <2> SUFFICES ASSUME BridgeInv, NullInv, [Next]_vars PROVE NullInv'
    OBVIOUS
  <2>1. CASE UNCHANGED <<pc, at, step, made, thread, misuse>>
    BY <2>1 DEF NullInv, LidarReady, IsLidar, OnlyLateWritersAreNull
  <2>2. CASE Simulator \/ UNCHANGED vars
    BY <2>1, <2>2 DEF Simulator, SimControlUp, SimConnect, SimClose, vars,
      taskVars, driverVars
  <2>3. QED BY <2>2, NullInitStep, NullTask, NullThread DEF Next
<1>3. NullInv => OnlyLateWritersAreNull
  BY DEF NullInv
<1>4. QED BY <1>1, <1>2, <1>3, BridgeAlways, PTL DEF Spec

-----------------------------------------------------------------------------
(* Distinct names and sockets                                              *)

Distinct ==
  \A d, e \in D : d # e => Config[d].name # Config[e].name /\ Url(d) # Url(e)

Reachable(d) == running[d] /\ Runs(d) /\ path[Url(d)] = d

\* The drivers in drivers_ are those before at until Init has them all, and
\* then all of them until they are destroyed.
HeldInOrder ==
  /\ pc \in {"load", "init"} => held = {d \in D : d < at}
  /\ pc = "load" => held = {}
  /\ pc \in {"control", "waypoint"} => held = D
  /\ pc = "returned" => held \in {{}, D}
  /\ pc \in {"destroy", "gone"} => held = {}
  /\ commanded => pc \notin {"load", "init"}
  /\ after # "init"

\* They can be reached, and so can driver at as far as its Init has come.
HeldReachable ==
  /\ \A d \in held : Reachable(d)
  /\ pc = "init" /\ at \in D =>
       \A i \in 1..(step - 1) :
         /\ Steps(at)[i] = "start" => running[at] /\ Runs(at)
         /\ Steps(at)[i] = "bind" => path[Url(at)] = at

DistinctInv == HeldInOrder /\ HeldReachable

LEMMA DistinctInit == Init => DistinctInv
<1> SUFFICES ASSUME Init PROVE DistinctInv
  OBVIOUS
<1>1. D = 1..Len(Config) /\ Len(Config) \in Nat
  BY ConfigFacts
<1>2. HeldInOrder
  BY <1>1 DEF Init, HeldInOrder
<1>3. HeldReachable
  BY DEF Init, HeldReachable
<1>4. QED BY <1>2, <1>3 DEF DistinctInv

\* Init goes on to its next part, fails or returns; the drivers are left as
\* they are, in drivers_ or about to be destroyed.
LEMMA DistinctTask ==
  ASSUME BridgeInv, DistinctInv,
         LoadConfig \/ CommandFails \/ SendCommand \/ ControlAttempt
           \/ ControlThrows \/ SendTargetWaypoint \/ WaypointThrows
           \/ DestroyComponent
  PROVE  DistinctInv'
<1>1. /\ UNCHANGED <<at, step, driverVars>>
      /\ held' = held \/ held' = {}
  BY DEF LoadConfig, CommandFails, SendCommand, ControlAttempt, ControlThrows,
    SendTargetWaypoint, WaypointThrows, DestroyComponent
<1>2. pc' = "init" => pc = "load"
  BY DEF LoadConfig, CommandFails, SendCommand, ControlAttempt, ControlThrows,
    SendTargetWaypoint, WaypointThrows, DestroyComponent, Destroy
<1>3. pc = "init" => held = D
  <2>1. ASSUME pc = "init" PROVE at \notin D
    BY <2>1 DEF LoadConfig, CommandFails, SendCommand, ControlAttempt,
      ControlThrows, SendTargetWaypoint, WaypointThrows, DestroyComponent
  <2>2. at \in 1..(Len(Config) + 1) /\ D = 1..Len(Config) /\ Len(Config) \in Nat
    BY ConfigFacts DEF BridgeInv, TypeOK
  <2>3. ASSUME pc = "init" PROVE \A d \in D : d < at
    BY <2>1, <2>2, <2>3
  <2>4. pc = "init" => held = {d \in D : d < at}
    BY DEF DistinctInv, HeldInOrder
  <2>5. QED BY <2>3, <2>4
<1>4. HeldInOrder'
  <2>1. CASE LoadConfig
    BY <2>1, <1>1 DEF LoadConfig, NoDestruction, simVars, DistinctInv, HeldInOrder
  <2>2. CASE CommandFails \/ WaypointThrows \/ DestroyComponent
    BY <2>2 DEF CommandFails, WaypointThrows, DestroyComponent, Destroy, simVars,
      DistinctInv, HeldInOrder
  <2>3. CASE SendCommand \/ ControlAttempt \/ ControlThrows \/ SendTargetWaypoint
    BY <2>3, <1>3 DEF SendCommand, ControlAttempt, ControlThrows,
      SendTargetWaypoint, NoDestruction, simVars, DistinctInv, HeldInOrder
  <2>4. QED BY <2>1, <2>2, <2>3
<1>5. HeldReachable'
  <2>1. pc' = "init" => step' = 1
    BY <1>1, <1>2 DEF BridgeInv, TaskOrder
  <2>2. \A d \in held' : Reachable(d)'
    BY <1>1 DEF DistinctInv, HeldReachable, Reachable, Runs, driverVars
  <2>3. QED BY <2>1, <2>2 DEF HeldReachable
<1>6. QED BY <1>4, <1>5 DEF DistinctInv

LEMMA DistinctInitStep ==
  ASSUME Distinct, BridgeInv, DistinctInv, InitStep
  PROVE  DistinctInv'
<1> DEFINE s == Steps(at)[step]
<1>1. /\ pc = "init" /\ pc' = "init" /\ at \in D
      /\ step' = step + 1 /\ step \in 1..6
      /\ UNCHANGED <<at, held, after, commanded>>
  BY DEF InitStep, NoDestruction, simVars, BridgeInv, TypeOK
<1>2. HeldInOrder'
  BY <1>1 DEF DistinctInv, HeldInOrder
<1>3. /\ path \in [Urls -> D \cup {NoDriver}]
      /\ thread \in [D -> {"none", "accept", "read", "callback", "exited"}]
      /\ running \in [D -> BOOLEAN]
      /\ \A d \in D : Url(d) \in Urls
  BY DriverOf DEF BridgeInv, TypeOK
<1>4. /\ s = "bind" => path'[Url(at)] = at
      /\ s # "bind" => UNCHANGED path
      /\ s = "start" => running'[at] /\ Runs(at)'
      /\ s # "start" => UNCHANGED <<running, thread>>
  BY <1>1, <1>3 DEF InitStep, Runs, Bound
<1>5. /\ \A d \in D : d # at => path'[Url(d)] = path[Url(d)]
      /\ \A d \in D : d # at => running'[d] = running[d] /\ thread'[d] = thread[d]
  BY <1>1, <1>3 DEF InitStep, Distinct, Bound
<1>6. \A d \in held : d \in D /\ d # at
  <2>1. at \in Nat
    BY <1>1, ConfigFacts
  <2>2. QED BY <1>1, <2>1, ConfigFacts DEF DistinctInv, HeldInOrder
<1>7. \A d \in held' : Reachable(d)'
  BY <1>1, <1>5, <1>6 DEF DistinctInv, HeldReachable, Reachable, Runs
<1>8. ASSUME NEW i \in 1..(step' - 1)
      PROVE  /\ Steps(at)[i] = "start" => running'[at] /\ Runs(at)'
             /\ Steps(at)[i] = "bind" => path'[Url(at)] = at
  <2>1. CASE i = step
    BY <1>4, <2>1
  <2>2. CASE i # step
    <3>1. i \in 1..(step - 1)
      BY <1>1, <1>8, <2>2
    <3>2. /\ Steps(at)[i] = "start" => running[at] /\ Runs(at)
          /\ Steps(at)[i] = "bind" => path[Url(at)] = at
      BY <1>1, <3>1 DEF DistinctInv, HeldReachable
    <3>3. QED
      <4>1. CASE s = "bind"
        BY <1>1, <1>4, <3>2, <4>1 DEF Runs
      <4>2. CASE s = "start"
        BY <1>4, <3>2, <4>2
      <4>3. CASE s \notin {"bind", "start"}
        BY <1>1, <1>4, <3>2, <4>3 DEF Runs
      <4>4. QED BY <4>1, <4>2, <4>3
  <2>3. QED BY <2>1, <2>2
<1>9. HeldReachable'
  BY <1>1, <1>7, <1>8 DEF HeldReachable, Steps
<1>10. QED BY <1>2, <1>9 DEF DistinctInv

\* The name is free; the driver's Init is over, so its server is bound and
\* started.
LEMMA DistinctInsertDriver ==
  ASSUME Distinct, BridgeInv, DistinctInv, InsertDriver
  PROVE  DistinctInv'
<1>1. /\ pc = "init" /\ at \in D /\ step > Len(Steps(at))
      /\ at' = at + 1 /\ step' = 1 /\ UNCHANGED <<driverVars, simVars>>
  BY DEF InsertDriver
<1>2. D = 1..Len(Config) /\ Len(Config) \in Nat /\ at \in Nat
  BY <1>1, ConfigFacts
<1>3. held = {d \in D : d < at}
  BY <1>1 DEF DistinctInv, HeldInOrder
<1>4. ~NameTaken
  BY <1>1, <1>2, <1>3 DEF NameTaken, Distinct
<1>5. held' = held \cup {at} /\ pc' = pc /\ UNCHANGED after
  BY <1>4 DEF InsertDriver, NoDestruction
<1>6. held' = {d \in D : d < at'}
  BY <1>1, <1>2, <1>3, <1>5
<1>7. HeldInOrder'
  BY <1>1, <1>5, <1>6 DEF DistinctInv, HeldInOrder, simVars
<1>8. Reachable(at)
  <2>1. step \in 1..6 /\ step <= Len(Steps(at)) + 1 /\ Len(Steps(at)) \in 1..5
    BY <1>1, DriverOf DEF BridgeInv, TypeOK, TaskOrder
  <2>2. 1..(step - 1) = 1..Len(Steps(at))
    BY <1>1, <2>1
  <2>3. PICK i \in 1..Len(Steps(at)) : Steps(at)[i] = "start"
    BY <1>1, DriverOf
  <2>4. i > 1 /\ Steps(at)[i - 1] = "bind" /\ i - 1 \in 1..Len(Steps(at))
    BY <1>1, <2>1, <2>3, DriverOf
  <2>5. QED BY <1>1, <2>2, <2>3, <2>4 DEF DistinctInv, HeldReachable, Reachable
<1>9. \A d \in held' : Reachable(d)'
  BY <1>1, <1>5, <1>8 DEF DistinctInv, HeldReachable, Reachable, Runs, driverVars
<1>10. HeldReachable'
  BY <1>1, <1>9 DEF HeldReachable
<1>11. QED BY <1>7, <1>10 DEF DistinctInv

LEMMA DistinctDestruction ==
  ASSUME BridgeInv, DistinctInv,
         InitStepFails \/ NextVictim \/ DestroyMember \/ StopServer \/ JoinServer
  PROVE  DistinctInv'
<1>1. held' = {}
  BY DEF InitStepFails, NextVictim, DestroyMember, StopServer, JoinServer,
    taskVars, DistinctInv, HeldInOrder
<1>2. pc' \in {"destroy", "returned", "gone"} /\ after' # "init"
  <2>1. CASE InitStepFails
    BY <2>1 DEF InitStepFails, Destroy
  <2>2. CASE NextVictim
    <3>1. pc = "destroy" /\ after \in {"returned", "gone"}
      BY <2>2 DEF NextVictim, BridgeInv, TypeOK, TaskOrder, DistinctInv, HeldInOrder
    <3>2. (UNCHANGED <<pc, after>>) \/ (pc' = after /\ after' = "none")
      BY <2>2 DEF NextVictim
    <3>3. QED BY <3>1, <3>2
  <2>3. CASE DestroyMember \/ StopServer \/ JoinServer
    BY <2>3 DEF DestroyMember, StopServer, JoinServer, taskVars, DistinctInv,
      HeldInOrder
  <2>4. QED BY <2>1, <2>2, <2>3
<1>3. HeldInOrder'
  BY <1>1, <1>2 DEF HeldInOrder
<1>4. HeldReachable'
  BY <1>1, <1>2 DEF HeldReachable
<1>5. QED BY <1>3, <1>4 DEF DistinctInv

\* A thread exits only when running_ is cleared.
LEMMA DistinctThread ==
  ASSUME BridgeInv, DistinctInv, NEW d \in D, ServerThread(d)
  PROVE  DistinctInv'
<1>1. UNCHANGED <<taskVars, running, path, commanded>>
  BY DEF ServerThread, AcceptClient, AcceptTimeout, EnterCallback, LeaveCallback,
    ReadIncomplete, ReadEof, simVars
<1>2. PICK w \in {"accept", "read", "callback", "exited"} :
        /\ thread' = [thread EXCEPT ![d] = w]
        /\ running[d] => w # "exited"
  BY DEF ServerThread, AcceptClient, AcceptTimeout, EnterCallback, LeaveCallback,
    ReadIncomplete, ReadEof, OrExits, Goes
<1>3. thread \in [D -> {"none", "accept", "read", "callback", "exited"}]
  BY DEF BridgeInv, TypeOK
<1>4. \A e \in D : running[e] /\ Runs(e) => running'[e] /\ Runs(e)'
  BY <1>1, <1>2, <1>3 DEF Runs
<1>5. HeldInOrder'
  BY <1>1 DEF DistinctInv, HeldInOrder, taskVars
<1>6. held \subseteq D
  BY DEF BridgeInv, TypeOK
<1>7. HeldReachable'
  BY <1>1, <1>4, <1>6 DEF DistinctInv, HeldReachable, Reachable, taskVars, Steps, Url
<1>8. QED BY <1>5, <1>7 DEF DistinctInv

LEMMA DistinctStep ==
  ASSUME Distinct
  PROVE  BridgeInv /\ DistinctInv /\ [Next]_vars => DistinctInv'
<1> SUFFICES ASSUME BridgeInv, DistinctInv, [Next]_vars PROVE DistinctInv'
  OBVIOUS
<1>1. CASE UNCHANGED <<taskVars, driverVars, commanded>>
  BY <1>1 DEF DistinctInv, HeldInOrder, HeldReachable, Reachable, Runs, taskVars,
    driverVars
<1>2. CASE Simulator
  BY <1>1, <1>2 DEF Simulator, SimControlUp, SimConnect, SimClose
<1>4. CASE UNCHANGED vars
  BY <1>1, <1>4 DEF vars, simVars
<1>5. CASE Task
  BY <1>5, DistinctTask, DistinctInitStep, DistinctInsertDriver,
    DistinctDestruction DEF Task
<1>6. CASE \E d \in D : ServerThread(d)
  BY <1>6, DistinctThread
<1>7. QED BY <1>2, <1>4, <1>5, <1>6 DEF Next

LEMMA DistinctAlways == ASSUME Distinct PROVE Spec => []DistinctInv
<1>1. Init => DistinctInv
  BY DistinctInit
<1>2. BridgeInv /\ DistinctInv /\ [Next]_vars => DistinctInv'
  BY DistinctStep
<1>3. QED BY <1>1, <1>2, BridgeAlways, PTL DEF Spec

\* For every list of drivers with distinct names and sockets: the simulator
\* has the configuration only when every driver is in drivers_, served by a
\* running thread and reachable at its socket (Init and InitDriverComponent,
\* apollo_dttf_component.cc).
THEOREM CommandAlwaysMeansReachable ==
  ASSUME Distinct
  PROVE  Spec => []CommandMeansReachable
<1>1. BridgeInv /\ DistinctInv => CommandMeansReachable
  <2>1. SUFFICES ASSUME BridgeInv, DistinctInv, commanded, held # {}
                 PROVE  \A d \in D : d \in held /\ Runs(d) /\ path[Url(d)] = d
    BY DEF CommandMeansReachable
  <2>2. held = D
    BY <2>1 DEF BridgeInv, TypeOK, DistinctInv, HeldInOrder
  <2>3. QED BY <2>1, <2>2 DEF DistinctInv, HeldReachable, Reachable
<1>2. Spec => []DistinctInv
  BY DistinctAlways
<1>3. QED BY <1>1, <1>2, BridgeAlways, PTL

-----------------------------------------------------------------------------
(* What Init's result means                                                *)

\* InitControl is left with a connection below the limit, or not at all.
ResultInv ==
  /\ pc \in {"load", "init", "control"} => ~control
  /\ pc = "waypoint" => control /\ retries < MaxRetries
  /\ after = "returned" => result = "false"
  /\ ResultMatchesControl

LEMMA ResultStep ==
  ASSUME BridgeInv, DistinctInv, ResultInv, [Next]_vars
  PROVE  ResultInv'
<1>1. /\ pc = "destroy" <=> after # "none"
      /\ after \in {"none", "returned", "gone"}
      /\ pc \in {"load", "destroy"} => held = {}
      /\ pc \in {"control", "waypoint"} => held = D
      /\ retries \in Nat /\ MaxRetries \in Nat /\ retries <= MaxRetries
  BY BridgeAssumption DEF BridgeInv, TypeOK, TaskOrder, DistinctInv, HeldInOrder
<1>2. CASE UNCHANGED <<pc, held, after, retries, control, result>>
  BY <1>2 DEF ResultInv, ResultMatchesControl
<1>3. CASE UNCHANGED taskVars
  BY <1>2, <1>3 DEF taskVars
<1>4. CASE LoadConfig
  BY <1>1, <1>4 DEF LoadConfig, NoDestruction, ResultInv, ResultMatchesControl
<1>5. CASE InitStep \/ SendCommand
  BY <1>5 DEF InitStep, SendCommand, NoDestruction, ResultInv, ResultMatchesControl
<1>6. CASE InitStepFails \/ CommandFails \/ WaypointThrows \/ DestroyComponent
  BY <1>6 DEF InitStepFails, CommandFails, WaypointThrows, DestroyComponent,
    Destroy, ResultInv, ResultMatchesControl
<1>7. CASE InsertDriver
  BY <1>7 DEF InsertDriver, Destroy, NoDestruction, ResultInv, ResultMatchesControl
<1>8. CASE ControlAttempt
  <2>1. pc = "control" /\ control' = controlUp /\ UNCHANGED <<held, after>>
    BY <1>8 DEF ControlAttempt, NoDestruction
  <2>2. CASE AnotherTry /\ retries' = retries + 1 /\ UNCHANGED <<pc, result>>
    BY <1>1, <2>1, <2>2 DEF AnotherTry, ResultInv, ResultMatchesControl
  <2>3. CASE TooManyTries /\ pc' = "returned" /\ result' = "false"
             /\ UNCHANGED retries
    BY <1>1, <2>1, <2>3 DEF TooManyTries, ResultInv, ResultMatchesControl
  <2>4. CASE ~AnotherTry /\ ~TooManyTries /\ pc' = "waypoint"
             /\ UNCHANGED <<retries, result>>
    BY <1>1, <2>1, <2>4 DEF AnotherTry, TooManyTries, ResultInv,
      ResultMatchesControl
  <2>5. QED BY <1>8, <2>2, <2>3, <2>4 DEF ControlAttempt
<1>9. CASE ControlThrows \/ SendTargetWaypoint
  BY <1>1, <1>9 DEF ControlThrows, SendTargetWaypoint, NoDestruction, ResultInv,
    ResultMatchesControl
<1>10. CASE NextVictim
  BY <1>1, <1>10 DEF NextVictim, ResultInv, ResultMatchesControl
<1>11. CASE DestroyMember \/ StopServer \/ JoinServer
  BY <1>3, <1>2, <1>11 DEF DestroyMember, StopServer, JoinServer
<1>12. CASE Task
  BY <1>4, <1>5, <1>6, <1>7, <1>8, <1>9, <1>10, <1>11, <1>12 DEF Task
<1>13. CASE Simulator \/ \E d \in D : ServerThread(d)
  BY <1>3, <1>13 DEF Simulator, SimControlUp, SimConnect, SimClose, ServerThread,
    AcceptClient, AcceptTimeout, EnterCallback, LeaveCallback, ReadIncomplete, ReadEof
<1>14. CASE UNCHANGED vars
  BY <1>3, <1>14 DEF vars
<1>15. QED BY <1>12, <1>13, <1>14 DEF Next

\* For every list of drivers with distinct names and sockets and every limit
\* on the retries: Init returns true only with the control connection and all
\* drivers, and false with both only after the last counted retry
\* (InitControl, apollo_dttf_component.cc).
THEOREM ResultAlwaysMatches ==
  ASSUME Distinct
  PROVE  Spec => []ResultMatchesControl
<1>1. Init => ResultInv
  BY DEF Init, ResultInv, ResultMatchesControl
<1>2. BridgeInv /\ DistinctInv /\ ResultInv /\ [Next]_vars => ResultInv'
  BY ResultStep
<1>3. ResultInv => ResultMatchesControl
  BY DEF ResultInv
<1>4. Spec => []DistinctInv
  BY DistinctAlways
<1>5. QED BY <1>1, <1>2, <1>3, <1>4, BridgeAlways, PTL DEF Spec

-----------------------------------------------------------------------------
(* What a callback can meet                                                *)

\* The members a callback uses are there as far as Init has come, in the
\* drivers that drivers_ holds, and were there once the command was sent.
MembersMade ==
  /\ \A d \in D : alive[d] \subseteq made[d]
  /\ \A d \in held : Uses(d) \subseteq alive[d]
  /\ pc = "init" /\ at \in D =>
       /\ step > 1 => "config" \in alive[at]
       /\ \A i \in 1..(step - 1) :
            Steps(at)[i] \notin {"bind", "start"} => Steps(at)[i] \in alive[at]
  /\ commanded => \A d \in D : Uses(d) \subseteq made[d]

\* Nobody connects, and no callback runs, before the command.
QuietBeforeCommand ==
  \A d \in D :
    conn[d] # "none" \/ thread[d] \in {"read", "callback"} => commanded

MisuseInv == MembersMade /\ QuietBeforeCommand /\ MisuseOnlyInLateTeardown

LEMMA MisuseInit == Init => MisuseInv
<1> SUFFICES ASSUME Init PROVE MisuseInv
  OBVIOUS
<1>1. MembersMade
  BY DEF Init, MembersMade
<1>2. QuietBeforeCommand /\ MisuseOnlyInLateTeardown
  BY DEF Init, QuietBeforeCommand, MisuseOnlyInLateTeardown
<1>3. QED BY <1>1, <1>2 DEF MisuseInv

\* Init goes on, fails or returns.
LEMMA MisuseTask ==
  ASSUME BridgeInv, DistinctInv, MisuseInv,
         LoadConfig \/ CommandFails \/ SendCommand \/ ControlAttempt
           \/ ControlThrows \/ SendTargetWaypoint \/ WaypointThrows
           \/ DestroyComponent
  PROVE  MisuseInv'
<1>1. /\ UNCHANGED <<at, step, driverVars, conn>>
      /\ held' = held \/ held' = {}
      /\ commanded => commanded'
  BY DEF LoadConfig, CommandFails, SendCommand, ControlAttempt, ControlThrows,
    SendTargetWaypoint, WaypointThrows, DestroyComponent, simVars, DistinctInv,
    HeldInOrder
<1>2. pc' = "init" => pc = "load" /\ step = 1
  BY DEF LoadConfig, CommandFails, SendCommand, ControlAttempt, ControlThrows,
    SendTargetWaypoint, WaypointThrows, DestroyComponent, Destroy, BridgeInv,
    TaskOrder
<1>3. commanded' => \A d \in D : Uses(d) \subseteq made[d]
  <2>1. CASE UNCHANGED commanded
    BY <2>1 DEF MisuseInv, MembersMade
  <2>2. CASE SendCommand
    <3>1. held = D
      <4>1. D = 1..Len(Config) /\ Len(Config) \in Nat
            /\ at \in 1..(Len(Config) + 1) /\ at \notin D
        BY <2>2, ConfigFacts DEF SendCommand, BridgeInv, TypeOK
      <4>2. \A d \in D : d < at
        BY <4>1
      <4>3. held = {d \in D : d < at}
        BY <2>2 DEF SendCommand, DistinctInv, HeldInOrder
      <4>4. QED BY <4>2, <4>3
    <3>2. QED BY <3>1 DEF MisuseInv, MembersMade
  <2>3. QED BY <2>1, <2>2 DEF LoadConfig, CommandFails, ControlAttempt,
          ControlThrows, SendTargetWaypoint, WaypointThrows, DestroyComponent,
          simVars
<1>4. MembersMade'
  <2>1. UNCHANGED <<made, alive>> /\ \A d \in held' : d \in held
    BY <1>1 DEF driverVars
  <2>2. pc' = "init" => step' = 1
    BY <1>1, <1>2
  <2>3. \A d \in held' : Uses(d) \subseteq alive'[d]
    BY <2>1 DEF MisuseInv, MembersMade
  <2>4. QED BY <1>3, <2>1, <2>2, <2>3 DEF MisuseInv, MembersMade
<1>5. QuietBeforeCommand'
  BY <1>1 DEF MisuseInv, QuietBeforeCommand, driverVars
<1>6. MisuseOnlyInLateTeardown'
  <2>1. UNCHANGED misuse /\ (commanded => commanded')
    BY <1>1 DEF driverVars
  <2>2. pc \in {"destroy", "returned", "gone"} => pc' = "destroy"
    BY DEF LoadConfig, CommandFails, SendCommand, ControlAttempt,
      ControlThrows, SendTargetWaypoint, WaypointThrows, DestroyComponent, Destroy
  <2>3. QED BY <1>1, <2>1, <2>2 DEF MisuseInv, MisuseOnlyInLateTeardown
<1>7. QED BY <1>4, <1>5, <1>6 DEF MisuseInv

LEMMA MisuseInitStep ==
  ASSUME BridgeInv, DistinctInv, MisuseInv, InitStep
  PROVE  MisuseInv'
<1> DEFINE s == Steps(at)[step]
<1>1. /\ pc = "init" /\ pc' = "init" /\ at \in D
      /\ step' = step + 1 /\ step \in 1..6 /\ step <= Len(Steps(at))
      /\ UNCHANGED <<at, held, misuse, commanded, conn>>
  BY DEF InitStep, NoDestruction, simVars, BridgeInv, TypeOK
<1>2. ~commanded
  BY <1>1 DEF DistinctInv, HeldInOrder
<1>3. /\ s = "start" => UNCHANGED <<made, alive>> /\ step > 1
      /\ s = "bind" => Make(at, {"server"})
      /\ s \notin {"bind", "start"} => Make(at, {s})
  BY <1>1, DriverOf DEF InitStep
<1>4. /\ \A d \in D : alive[d] \subseteq alive'[d] /\ alive'[d] \subseteq made'[d]
      /\ "config" \in alive'[at]
      /\ s \notin {"bind", "start"} => s \in alive'[at]
  <2>1. /\ alive \in [D -> SUBSET MemberNames] /\ made \in [D -> SUBSET MemberNames]
        /\ \A d \in D : alive[d] \subseteq made[d]
    BY DEF BridgeInv, TypeOK, MisuseInv, MembersMade
  <2>2. CASE s = "start"
    BY <1>1, <1>3, <2>1, <2>2 DEF MisuseInv, MembersMade
  <2>3. CASE s # "start"
    <3>1. PICK m : Make(at, {m}) /\ (s # "bind" => m = s)
      BY <1>3, <2>3
    <3>2. /\ made'[at] = made[at] \cup {m, "config"}
          /\ alive'[at] = alive[at] \cup {m, "config"}
      BY <1>1, <2>1, <3>1 DEF Make
    <3>3. \A d \in D : d # at => made'[d] = made[d] /\ alive'[d] = alive[d]
      BY <1>1, <2>1, <3>1 DEF Make
    <3>4. QED BY <1>1, <2>1, <2>3, <3>1, <3>2, <3>3
  <2>4. QED BY <2>2, <2>3
<1>5. MembersMade'
  <2>1. held \subseteq D
    BY DEF BridgeInv, TypeOK
  <2>2. \A d \in held' : Uses(d) \subseteq alive'[d]
    BY <1>1, <1>4, <2>1 DEF MisuseInv, MembersMade
  <2>3. ASSUME NEW i \in 1..(step' - 1), Steps(at)[i] \notin {"bind", "start"}
        PROVE  Steps(at)[i] \in alive'[at]
    <3>1. CASE i = step
      BY <1>4, <2>3, <3>1
    <3>2. CASE i # step
      <4>1. i \in 1..(step - 1)
        BY <1>1, <2>3, <3>2
      <4>2. Steps(at)[i] \in alive[at]
        BY <1>1, <2>3, <4>1 DEF MisuseInv, MembersMade
      <4>3. QED BY <1>1, <1>4, <4>2
    <3>3. QED BY <3>1, <3>2
  <2>4. QED BY <1>1, <1>2, <1>4, <2>2, <2>3 DEF MembersMade, Uses, Steps
<1>6. QuietBeforeCommand'
  <2>1. \A d \in D : thread'[d] \in {"read", "callback"} => thread[d] \in {"read", "callback"}
    BY <1>1 DEF InitStep, BridgeInv, TypeOK
  <2>2. QED BY <1>1, <2>1 DEF MisuseInv, QuietBeforeCommand
<1>7. MisuseOnlyInLateTeardown'
  BY <1>1 DEF MisuseInv, MisuseOnlyInLateTeardown
<1>8. QED BY <1>5, <1>6, <1>7 DEF MisuseInv

LEMMA MisuseInsertDriver ==
  ASSUME Distinct, BridgeInv, DistinctInv, MisuseInv, InsertDriver
  PROVE  MisuseInv'
<1>1. /\ pc = "init" /\ at \in D /\ step > Len(Steps(at)) /\ step' = 1
      /\ UNCHANGED <<driverVars, simVars>>
  BY DEF InsertDriver
<1>2. held' \subseteq held \cup {at}
  BY DEF InsertDriver
<1>3. Uses(at) \subseteq alive[at]
  <2>1. /\ step \in 1..6 /\ step <= Len(Steps(at)) + 1 /\ Len(Steps(at)) \in 1..5
    BY <1>1, DriverOf DEF BridgeInv, TypeOK, TaskOrder
  <2>2. 1..(step - 1) = 1..Len(Steps(at)) /\ step > 1
    BY <1>1, <2>1
  <2>3. SUFFICES ASSUME NEW m \in Uses(at) PROVE m \in alive[at]
    OBVIOUS
  <2>4. CASE m = "config"
    BY <1>1, <2>2, <2>4 DEF MisuseInv, MembersMade
  <2>5. CASE m # "config"
    <3>1. PICK i \in 1..Len(Steps(at)) : m = Steps(at)[i]
      BY <1>1, <2>5, DriverOf
    <3>2. m \notin {"bind", "start"}
      BY <1>1, DriverOf
    <3>3. QED BY <1>1, <2>2, <3>1, <3>2 DEF MisuseInv, MembersMade
  <2>6. QED BY <2>4, <2>5
<1>4. MembersMade'
  <2>1. \A d \in held' : Uses(d) \subseteq alive'[d]
    BY <1>1, <1>2, <1>3 DEF MisuseInv, MembersMade, driverVars
  <2>2. QED BY <1>1, <2>1 DEF MisuseInv, MembersMade, driverVars, simVars
<1>5. QuietBeforeCommand'
  BY <1>1 DEF MisuseInv, QuietBeforeCommand, driverVars, simVars
<1>6. MisuseOnlyInLateTeardown'
  <2>1. UNCHANGED <<misuse, commanded>> /\ ~commanded
    BY <1>1 DEF driverVars, simVars, DistinctInv, HeldInOrder
  <2>2. QED BY <2>1 DEF MisuseInv, MisuseOnlyInLateTeardown
<1>7. QED BY <1>4, <1>5, <1>6 DEF MisuseInv

LEMMA MisuseDestruction ==
  ASSUME BridgeInv, DistinctInv, DistinctInv', MisuseInv,
         InitStepFails \/ NextVictim \/ DestroyMember \/ StopServer \/ JoinServer
  PROVE  MisuseInv'
<1>1. /\ held' = {} /\ pc' \in {"destroy", "returned", "gone"}
      /\ UNCHANGED <<misuse, commanded, conn>>
      /\ \A d \in D : thread'[d] \in {"read", "callback"} => thread[d] = thread'[d]
  <2>1. CASE InitStepFails
    BY <2>1 DEF InitStepFails, Destroy, simVars, BridgeInv, TypeOK
  <2>2. CASE NextVictim
    <3>1. pc' \in {"destroy", "returned", "gone"}
      BY <2>2 DEF NextVictim, BridgeInv, TypeOK, TaskOrder, DistinctInv, HeldInOrder
    <3>2. QED BY <2>2, <3>1 DEF NextVictim, driverVars, simVars, DistinctInv,
            HeldInOrder
  <2>3. CASE DestroyMember \/ StopServer \/ JoinServer
    BY <2>3 DEF DestroyMember, StopServer, JoinServer, taskVars, simVars,
      DistinctInv, HeldInOrder
  <2>4. QED BY <2>1, <2>2, <2>3
<1>2. \A d \in D : alive'[d] \subseteq made'[d] /\ made[d] \subseteq made'[d]
  <2>1. /\ alive \in [D -> SUBSET MemberNames] /\ made \in [D -> SUBSET MemberNames]
        /\ \A d \in D : alive[d] \subseteq made[d]
    BY DEF BridgeInv, TypeOK, MisuseInv, MembersMade
  <2>2. CASE InitStepFails
    <3>1. (UNCHANGED <<made, alive>>) \/ \E ms : Make(at, ms)
      BY <2>2 DEF InitStepFails
    <3>2. QED BY <2>1, <3>1 DEF Make
  <2>3. CASE NextVictim \/ StopServer
    BY <2>1, <2>3 DEF NextVictim, StopServer, driverVars
  <2>4. CASE DestroyMember \/ JoinServer
    BY <2>1, <2>4 DEF DestroyMember, JoinServer
  <2>5. QED BY <2>2, <2>3, <2>4
<1>3. MembersMade'
  <2>1. commanded' => \A d \in D : Uses(d) \subseteq made'[d]
    BY <1>1, <1>2 DEF MisuseInv, MembersMade
  <2>2. QED BY <1>1, <1>2, <2>1 DEF MembersMade
<1>4. QuietBeforeCommand'
  BY <1>1 DEF MisuseInv, QuietBeforeCommand
<1>5. MisuseOnlyInLateTeardown'
  BY <1>1 DEF MisuseInv, MisuseOnlyInLateTeardown
<1>6. QED BY <1>3, <1>4, <1>5 DEF MisuseInv

LEMMA MisuseThread ==
  ASSUME BridgeInv, DistinctInv, MisuseInv, NEW d \in D, ServerThread(d)
  PROVE  MisuseInv'
<1>1. /\ UNCHANGED <<taskVars, made, alive, commanded>>
      /\ conn' = conn \/ (conn' = [conn EXCEPT ![d] = "none"])
  BY DEF ServerThread, AcceptClient, AcceptTimeout, EnterCallback, LeaveCallback,
    ReadIncomplete, ReadEof, simVars
<1>2. MembersMade'
  BY <1>1 DEF MisuseInv, MembersMade, taskVars
<1>3. QuietBeforeCommand'
  <2>1. /\ conn \in [D -> {"none", "open", "closed"}]
        /\ thread \in [D -> {"none", "accept", "read", "callback", "exited"}]
    BY DEF BridgeInv, TypeOK
  <2>2. \A e \in D : conn'[e] # "none" => conn[e] # "none"
    BY <1>1, <2>1
  <2>3. PICK w \in {"accept", "read", "callback", "exited"} :
          /\ thread' = [thread EXCEPT ![d] = w]
          /\ w \in {"read", "callback"} =>
               conn[d] # "none" \/ thread[d] \in {"read", "callback"}
    BY DEF ServerThread, AcceptClient, AcceptTimeout, EnterCallback,
      LeaveCallback, ReadIncomplete, ReadEof, OrExits, Goes
  <2>4. QED BY <1>1, <2>1, <2>2, <2>3 DEF MisuseInv, QuietBeforeCommand
<1>4. MisuseOnlyInLateTeardown'
  <2>1. CASE UNCHANGED misuse
    BY <1>1, <2>1 DEF MisuseInv, MisuseOnlyInLateTeardown, taskVars
  <2>2. CASE LeaveCallback(d)
    <3>1. commanded
      BY <2>2 DEF LeaveCallback, MisuseInv, QuietBeforeCommand
    <3>2. Uses(d) \subseteq made[d]
      BY <3>1 DEF MisuseInv, MembersMade
    <3>3. misuse \in [D -> SUBSET {"null", "destroyed", "refused"}]
      BY DEF BridgeInv, TypeOK
    <3>4. /\ misuse'[d] \subseteq misuse[d] \cup {"destroyed", "refused"}
          /\ "destroyed" \in misuse'[d] =>
               "destroyed" \in misuse[d] \/ ~(Uses(d) \subseteq alive[d])
          /\ \A e \in D : e # d => misuse'[e] = misuse[e]
      <4>1. /\ misuse'[d] = misuse[d] \cup
                 (IF Uses(d) \cap made[d] \subseteq alive[d] THEN {}
                  ELSE {"destroyed"})
                 \cup (IF Uses(d) \cap Refused(d) = {} THEN {} ELSE {"refused"})
            /\ \A e \in D : e # d => misuse'[e] = misuse[e]
        BY <2>2, <3>2, <3>3 DEF LeaveCallback
      <4>2. ~(Uses(d) \cap made[d] \subseteq alive[d]) => ~(Uses(d) \subseteq alive[d])
        OBVIOUS
      <4>3. QED BY <4>1, <4>2
    <3>5. ASSUME ~(Uses(d) \subseteq alive[d])
          PROVE  held = {} /\ pc \in {"destroy", "returned", "gone"}
      <4>1. d \notin held
        BY <3>5 DEF MisuseInv, MembersMade
      <4>2. QED BY <3>1, <4>1 DEF BridgeInv, TypeOK, DistinctInv, HeldInOrder
    <3>6. QED BY <1>1, <3>1, <3>4, <3>5 DEF MisuseInv, MisuseOnlyInLateTeardown,
            taskVars
  <2>3. QED BY <2>1, <2>2 DEF ServerThread, AcceptClient, AcceptTimeout,
          EnterCallback, ReadIncomplete, ReadEof
<1>5. QED BY <1>2, <1>3, <1>4 DEF MisuseInv

LEMMA MisuseSimulator ==
  ASSUME ~EagerSim, BridgeInv, MisuseInv, Simulator
  PROVE  MisuseInv'
<1>1. UNCHANGED <<taskVars, driverVars, commanded>>
  BY DEF Simulator, SimControlUp, SimConnect, SimClose
<1>2. MembersMade' /\ MisuseOnlyInLateTeardown'
  BY <1>1 DEF MisuseInv, MembersMade, MisuseOnlyInLateTeardown, taskVars, driverVars
<1>3. conn \in [D -> {"none", "open", "closed"}]
  BY DEF BridgeInv, TypeOK
<1>4. \A d \in D : conn'[d] # "none" => conn[d] # "none" \/ commanded
  BY <1>3 DEF Simulator, SimControlUp, SimConnect, SimClose
<1>5. QuietBeforeCommand'
  BY <1>1, <1>4 DEF MisuseInv, QuietBeforeCommand, driverVars
<1>6. QED BY <1>2, <1>5 DEF MisuseInv

LEMMA MisuseStep ==
  ASSUME Distinct, ~EagerSim, BridgeInv, DistinctInv, MisuseInv, [Next]_vars
  PROVE  MisuseInv'
<1>1. DistinctInv'
  BY DistinctStep
<1>2. CASE UNCHANGED vars
  BY <1>2 DEF vars, taskVars, driverVars, simVars, MisuseInv, MembersMade,
    QuietBeforeCommand, MisuseOnlyInLateTeardown
<1>3. CASE Task
  BY <1>1, <1>3, MisuseTask, MisuseInitStep, MisuseInsertDriver,
    MisuseDestruction DEF Task
<1>4. QED BY <1>2, <1>3, MisuseThread, MisuseSimulator DEF Next

\* For every list of drivers with distinct names and sockets, and a simulator
\* that connects only when it has the command: no callback ever meets a
\* writer that is not made yet, although most drivers start their server
\* before they make it, and none meets a destroyed member before the teardown
\* that follows the command (the drivers' Init and DataCallback, and the order
\* in which their members are declared).  Nor does one meet a writer that
\* Cyber refused before the command.
THEOREM MisuseAlwaysLate ==
  ASSUME Distinct, ~EagerSim
  PROVE  Spec => []MisuseOnlyInLateTeardown
<1>1. Init => MisuseInv
  BY MisuseInit
<1>2. BridgeInv /\ DistinctInv /\ MisuseInv /\ [Next]_vars => MisuseInv'
  BY MisuseStep
<1>3. MisuseInv => MisuseOnlyInLateTeardown
  BY DEF MisuseInv
<1>4. Spec => []DistinctInv
  BY DistinctAlways
<1>5. QED BY <1>1, <1>2, <1>3, <1>4, BridgeAlways, PTL DEF Spec

=============================================================================
