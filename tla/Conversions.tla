----------------------------- MODULE Conversions -----------------------------
(***************************************************************************)
(* What the bridge makes of the numbers it passes on: control commands on  *)
(* their way to the simulator (Proc), the vehicle's state on its way back  *)
(* (ChassisDataCallback) and its pose (LocalizationDataCallback).  The     *)
(* bytes are read with the bridge's layout of what the simulator wrote     *)
(* with the protocol's; the vehicle's configuration is written with the    *)
(* bridge's schema and read with the simulator's.  What the other sensors' *)
(* callbacks make of their messages is here too.                           *)
(*                                                                         *)
(* Numbers are whole hundredths: 0.35 is 35, 35 percent is 3500.           *)
(***************************************************************************)
EXTENDS Geometry

CONSTANTS
  Commands,     \* Apollo's control commands: percentages and a gear
  Longitudes,   \* the longitudes the vehicle is at, in degrees
  PerUnit,      \* what the simulator calls 1: fractions 1, percentages 100
  SteerSign,    \* the sign of a right turn in its reports: 1 as in the
                \* ControlMessage, -1 as a ChassisMessage is documented
  MaxCommands,  \* bound: commands forwarded
  Nothing       \* in place of a message there is none of yet

\* Whole percents are whole hundredths as fractions too, so that dividing by
\* 100 is exact: what floating point would round is left out.
WholePercents == {n \in Int : n % 100 = 0}

ASSUME CommandsAssumption ==
  Commands \subseteq [throttle : WholePercents, brake : WholePercents,
                     steering_target : WholePercents, gear_location : Nat]

ASSUME LongitudesAssumption == Longitudes \subseteq -180..180

ASSUME ReportsAssumption == PerUnit \in Nat \ {0} /\ SteerSign \in {1, -1}

VARIABLES
  forwarded,    \* history: the commands Apollo has given to Proc
  socket,       \* the ControlMessages Proc has written, not yet read
  executed,     \* how many of them the simulator has read
  driven,       \* what it read last
  report,       \* a ChassisMessage on its way, or none
  published     \* what a callback has made of its message last

vars == <<forwarded, socket, executed, driven, report, published>>
controlVars == <<forwarded, socket, executed, driven>>

Layouts == INSTANCE Messages
Schemas == INSTANCE Configuration

\* The fields of each struct of the bridge, with what the simulator wrote
\* where each of them is read.
Found == [kind \in DOMAIN Layouts!Bridge |->
            Layouts!ReadAs(Layouts!Bridge[kind], Layouts!Protocol[kind])]

\* The fields of a struct as the program that reads it finds them.
ReadWith(found, message) ==
  [f \in {g \in DOMAIN found : found[g] \in DOMAIN message} |->
     message[found[f]]]

Received(kind, message) == ReadWith(Found[kind], message)

\* The same for the one struct that goes the other way.
Understood == Layouts!ReadAs(Layouts!Protocol.control, Layouts!Bridge.control)

\* History: which fields were read from where, the offset at which the bridge
\* expects the payload of a message, and where the simulator put it.
Reading(kind) ==
  [fields |-> Found[kind], payload |-> Layouts!SizeOf(Layouts!Bridge[kind]),
   written |-> Layouts!SizeOf(Layouts!Protocol[kind])]

Published(topic) == published.topic = topic

\* The gear positions of both sides.
Drive == 1
Reverse == 2

Standing == [throttle |-> 0, brake |-> 0, steer |-> 0, reverse |-> 0]

Init ==
  /\ forwarded = <<>> /\ socket = <<>> /\ executed = 0 /\ driven = Standing
  /\ report = Nothing /\ published = [topic |-> "none", reading |-> Nothing]

-----------------------------------------------------------------------------
(* Commands                                                                *)

\* Mutant: the sides of the steering wheel are not exchanged.
ControlMessageSameSide(c) ==
  [throttle |-> c.throttle \div 100, brake |-> c.brake \div 100,
   steer |-> c.steering_target \div 100,
   reverse |-> IF c.gear_location = Reverse THEN 1 ELSE 0]

\* Proc: percentages become fractions, left becomes negative.
ControlMessage(c) ==
  [throttle |-> c.throttle \div 100, brake |-> c.brake \div 100,
   steer |-> -(c.steering_target \div 100),
   reverse |-> IF c.gear_location = Reverse THEN 1 ELSE 0]

Proc(c) ==
  /\ Len(forwarded) < MaxCommands
  /\ forwarded' = Append(forwarded, c)
  /\ socket' = Append(socket, ControlMessage(c))
  /\ UNCHANGED <<executed, driven, report, published>>

SimExecute ==
  /\ socket # <<>>
  /\ executed' = executed + 1
  /\ driven' = ReadWith(Understood, Head(socket))
  /\ socket' = Tail(socket)
  /\ UNCHANGED <<forwarded, report, published>>

\* The simulator reports what it does and what it was last told, in its unit
\* and with its sign of the steering.
SimReport ==
  /\ report = Nothing
  /\ report' =
       [throttle_percentage |-> driven.throttle * PerUnit,
        brake_percentage |-> driven.brake * PerUnit,
        steering_percentage |-> SteerSign * driven.steer * PerUnit,
        gear_location |-> IF driven.reverse = 1 THEN Reverse ELSE Drive,
        throttle_percentage_cmd |-> driven.throttle * PerUnit,
        brake_percentage_cmd |-> driven.brake * PerUnit,
        steering_percentage_cmd |-> SteerSign * driven.steer * PerUnit,
        shows |-> executed]
  /\ UNCHANGED <<controlVars, published>>

ChassisDataCallback ==
  /\ report # Nothing
  /\ LET m == Received("chassis", report) IN
     published' =
       [topic |-> "chassis", reading |-> Reading("chassis"),
        throttle_percentage |-> m.throttle_percentage * 100,
        brake_percentage |-> m.brake_percentage * 100,
        steering_percentage |-> -m.steering_percentage * 100,
        gear_location |-> m.gear_location,
        throttle_percentage_cmd |-> m.throttle_percentage_cmd * 100,
        brake_percentage_cmd |-> m.brake_percentage_cmd * 100,
        steering_percentage_cmd |-> -m.steering_percentage_cmd * 100,
        shows |-> report.shows]
  /\ report' = Nothing
  /\ UNCHANGED controlVars

-----------------------------------------------------------------------------
(* Poses                                                                   *)

Rotations == [yaw : Quarters, roll : Quarters, pitch : Quarters]

\* Three vectors that differ in every part.
Vector(n) == [x |-> n, y |-> n + 1, z |-> n + 2]

\* A vehicle that moves: its rotation is kept in quarter turns, which is what
\* / 180 * M_PI makes of the degrees in the message, its heading in degrees.
Place(r, l) ==
  [rotation |-> r, lon |-> l, heading |-> 90 * r.yaw, speed |-> Vector(1),
   acceleration |-> Vector(4), angular_velocity |-> Vector(7)]

\* The vehicle turns at one place, and drives along a parallel.
Places ==
  {Place(r, 0) : r \in Rotations} \cup
  {Place([yaw |-> 0, roll |-> 0, pitch |-> 0], l) : l \in Longitudes}

QuarterLeft(v) == [x |-> -v.y, y |-> v.x, z |-> v.z]
Exchanged(v) == [x |-> v.y, y |-> v.x, z |-> v.z]

\* The position is projected to the zone of its longitude, whose number is
\* not published; only the distance from the central meridian is kept here.
LocalizationDataCallback(place) ==
  /\ LET r == place.rotation IN
     published' =
       [topic |-> "pose", reading |-> Reading("localization"),
        lon |-> place.lon,
        zone |-> Zone(place.lon),
        east |-> place.lon - CentralMeridian(Zone(place.lon)),
        orientation |-> eulerToQuaternion(r.yaw, r.roll, r.pitch),
        linear_velocity |-> QuarterLeft(place.speed),
        linear_acceleration |-> QuarterLeft(place.acceleration),
        angular_velocity |-> Exchanged(place.angular_velocity),
        heading |-> place.heading,
        euler_angles |-> [x |-> r.pitch, y |-> r.roll, z |-> r.yaw]]
  /\ UNCHANGED <<controlVars, report>>

-----------------------------------------------------------------------------
(* The other sensors                                                       *)

\* A cloud of two points, and an empty one.
Clouds == {<<>>, << <<1, 2, 3, 50>>, <<-4, -5, 6, 100>> >>}

\* The points lie behind the header: y changes its sign, the intensity its unit.
LidarDataCallback(cloud) ==
  /\ published' =
       [topic |-> "lidar", reading |-> Reading("lidar"), width |-> Len(cloud),
        point |-> [i \in DOMAIN cloud |->
                     LET p == cloud[i] IN
                     [x |-> p[1], y |-> -p[2], z |-> p[3],
                      intensity |-> p[4] * 255]]]
  /\ UNCHANGED <<controlVars, report>>

\* The pixels are passed on as they are.
ImageDataCallback(width, height) ==
  /\ published' =
       [topic |-> "camera", reading |-> Reading("camera"),
        width |-> width, height |-> height, step |-> 3 * width]
  /\ UNCHANGED <<controlVars, report>>

\* Of the objects behind the list only the first one's type is looked at.
GroundTrueDataCallback(object_count) ==
  /\ published' =
       [topic |-> "ground_true", reading |-> Reading("ground_true"),
        object_type |-> IF object_count > 0 THEN Found.object.object_type
                        ELSE Nothing]
  /\ UNCHANGED <<controlVars, report>>

\* These two only print what they read (that of the GNSS reads nothing).
PrintedKinds == {"imu", "radar"}

PrintingCallback(kind) ==
  /\ published' = [topic |-> kind, reading |-> Reading(kind)]
  /\ UNCHANGED <<controlVars, report>>

SensorDataCallback ==
  \/ \E cloud \in Clouds : LidarDataCallback(cloud)
  \/ \E width, height \in 1..2 : ImageDataCallback(width, height)
  \/ \E object_count \in 0..2 : GroundTrueDataCallback(object_count)
  \/ \E kind \in PrintedKinds : PrintingCallback(kind)

-----------------------------------------------------------------------------
(* The vehicle                                                             *)

\* The command carries every message of the configuration; the simulator
\* reads each with its own schema.
SendVehicleCommand(message) ==
  /\ published' = [topic |-> "vehicle", reading |-> Nothing,
                   message |-> message, parsed |-> Schemas!Parsed(message)]
  /\ UNCHANGED <<controlVars, report>>

Next ==
  \/ \E c \in Commands : Proc(c)
  \/ SimExecute \/ SimReport \/ ChassisDataCallback
  \/ \E place \in Places : LocalizationDataCallback(place)
  \/ SensorDataCallback
  \/ \E message \in DOMAIN Schemas!CommandRequired : SendVehicleCommand(message)

Spec == Init /\ [][Next]_vars

-----------------------------------------------------------------------------
(* Properties                                                              *)

\* What Apollo is shown as the command the vehicle obeys is a command Apollo
\* gave, as many times too large as the simulator's unit is and on the other
\* side of the wheel if its sign is: Proc's conversion and the callback's
\* cancel out just for a simulator that reports as it is told, in fractions
\* with the right side positive; apollo_dttf_component.cc:327-330 and
\* chassis_component.cc:66-75.
FeedbackMatchesCommand ==
  Published("chassis") /\ published.shows > 0 =>
    LET c == forwarded[published.shows] IN
    /\ published.throttle_percentage_cmd = PerUnit * c.throttle
    /\ published.brake_percentage_cmd = PerUnit * c.brake
    /\ published.steering_percentage_cmd = SteerSign * PerUnit * c.steering_target
    /\ published.gear_location = Reverse <=> c.gear_location = Reverse

\* Report r shows command c.
Shows(r, c) ==
  LET m == ControlMessage(c) IN
  /\ r.throttle_percentage_cmd = m.throttle * PerUnit
  /\ r.brake_percentage_cmd = m.brake * PerUnit
  /\ r.steering_percentage_cmd = SteerSign * m.steer * PerUnit
  /\ r.gear_location = IF m.reverse = 1 THEN Reverse ELSE Drive

SocketInOrder ==
  /\ forwarded \in Seq(Commands) /\ executed \in 0..Len(forwarded)
  /\ socket = [i \in 1..Len(forwarded) - executed |->
                 ControlMessage(forwarded[executed + i])]

DrivesByLast == executed > 0 => driven = ControlMessage(forwarded[executed])

ReportShowsOne ==
  report # Nothing =>
    /\ report.shows \in 0..executed
    /\ report.shows > 0 => Shows(report, forwarded[report.shows])

PublishedShowsOne == Published("chassis") => published.shows \in 0..executed

\* Behind FeedbackMatchesCommand: the socket holds the commands that the
\* simulator has not read, in order and converted, it drives by the last one
\* it has read, and its report shows one that was given before.
RoundTripInv ==
  SocketInOrder /\ DrivesByLast /\ ReportShowsOne /\ PublishedShowsOne
    /\ FeedbackMatchesCommand

\* The percentages of a ChassisMessage are "[0-100]", those of the steering
\* wheel "[-100, 100] Clockwise: negative, Counter-clockwise: positive"
\* (message-en.h:324-338, common/message.h:177-194), which are Apollo's range
\* and side too: so the callback keeps within the range and shows a command
\* to one side as one to that side.
ChassisAsDocumented ==
  Published("chassis") =>
    /\ published.throttle_percentage_cmd \in 0..10000
    /\ published.brake_percentage_cmd \in 0..10000
    /\ published.steering_percentage_cmd \in -10000..10000
    /\ published.shows > 0 =>
         LET given == forwarded[published.shows].steering_target
             shown == published.steering_percentage_cmd
         IN  (given > 0 => shown > 0) /\ (given < 0 => shown < 0)

\* The quaternion of an estimate turns every vector as the matrix of its
\* Euler angles does in the order Z, X, Y, once the angle published as y is
\* taken for the turn about X and the one published as x for that about Y:
\* localization_component.cc:99-101 against common.cc:92-93, where roll turns
\* about X and pitch about Y.  (Turning is 64 times a matrix.)
OrientationMatchesAngles ==
  Published("pose") =>
    LET e == published.euler_angles
        M == eulerToMatrixZXY(e.z, e.y, e.x)
    IN  \A i, j \in Axes : Turning(published.orientation)[i][j] = <<64 * M[i][j], 0>>

\* A position is never projected from further than 3 degrees off the central
\* meridian, and there are 60 zones; the antimeridian gets one of its own.
ZoneCoversLongitude ==
  Published("pose") =>
    /\ published.east \in -3..3
    /\ published.zone \in 1..60 \/ (published.lon = 180 /\ published.zone = 61)

\* Whatever the compiler adds as padding, the bridge finds under a name what
\* the simulator wrote under that name, and the payload (pixels, points,
\* objects) behind it, in every message that a callback reads.  What lies in
\* the payload is left out: of an object of the ground truth the bridge takes
\* the number for the type (message-en.h:263-267, message.h:141-142).
FieldsReadAsWritten ==
  published.reading # Nothing =>
    LET r == published.reading IN
    /\ \A f \in DOMAIN r.fields : r.fields[f] = f
    /\ r.payload = r.written

\* The simulator understands every vehicle the bridge can be configured with,
\* although their schemas are two files: a field that the simulator requires
\* is one that the bridge requires too, under the same number, of the same
\* type and for the same thing, and a device of the bridge is the same device
\* there.
CommandUnderstood ==
  Published("vehicle") =>
    LET p == published.parsed IN
    /\ \A f \in DOMAIN p.required : p.required[f] = {Schemas!Name(f)}
    /\ \A f \in DOMAIN p.others : p.others[f] = {Schemas!Name(f)}

=============================================================================
