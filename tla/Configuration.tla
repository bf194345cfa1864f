---------------------------- MODULE Configuration ----------------------------
(***************************************************************************)
(* The two protobuf schemas of a vehicle's configuration: the one by which *)
(* the bridge reads its file and serialises the command                    *)
(* (apollo_dttf.proto), and the one the simulator publishes for reading    *)
(* that command (autonomous_vehicle_creation_command.proto).  They meet on *)
(* the wire only, where a field is its number.                             *)
(***************************************************************************)
EXTENDS Integers

\* A field is its number, its name and its type.
Number(f) == f[1]
Name(f) == f[2]
Type(f) == f[3]

\* What both write alike in front of a device's own fields.
Named == {<<1, "name", "string">>}
Mounted == Named \cup {<<2, "location", "Location">>, <<3, "rotation", "Rotation">>}
Connected(n) == {<<n, "communication", "Communication">>}
Point == {<<1, "x", "double">>, <<2, "y", "double">>, <<3, "z", "double">>}
Turn == {<<1, "roll", "double">>, <<2, "yaw", "double">>, <<3, "pitch", "double">>}
Address == {<<1, "type", "CommunicationType">>, <<2, "url", "string">>}
Devices ==
  {<<6, "cameras", "CameraConfig">>, <<7, "lidars", "LidarConfig">>,
   <<8, "radars", "RadarConfig">>, <<9, "gnsses", "GnssConfig">>,
   <<10, "imus", "ImuConfig">>, <<11, "ground_true", "GroundTrueConfig">>,
   <<12, "localization", "LocalizationConfig">>}

-----------------------------------------------------------------------------
(* apollo_dttf.proto                                                       *)

Status == {<<22, "status_channel_name", "string">>}

\* Mutant: the camera's communication has the number it has elsewhere.
CameraConfigEleven ==
  Mounted \cup Connected(11) \cup
  {<<4, "fov", "uint32">>, <<5, "width", "uint32">>, <<6, "height", "uint32">>,
   <<7, "lens_flare_intensity", "double">>}

CameraConfig ==
  Mounted \cup Connected(8) \cup
  {<<4, "fov", "uint32">>, <<5, "width", "uint32">>, <<6, "height", "uint32">>,
   <<7, "lens_flare_intensity", "double">>}

LidarConfig ==
  Mounted \cup Connected(11) \cup
  {<<4, "channels", "uint32">>, <<5, "range", "uint32">>,
   <<6, "rotation_frequency", "uint32">>, <<7, "horizontal_fov", "uint32">>,
   <<8, "upper_fov", "int32">>, <<9, "lower_fov", "int32">>}

RadarConfig ==
  Mounted \cup Connected(11) \cup
  {<<4, "horizontal_fov", "uint32">>, <<5, "range", "uint32">>,
   <<6, "vertical_fov", "uint32">>}

AutonomousVehicleConfig ==
  Named \cup
  {<<2, "type", "string">>, <<3, "location", "Location">>,
   <<4, "rotation", "Rotation">>, <<13, "chassis", "ChassisConfig">>,
   <<14, "control", "ControlConfig">>,
   <<15, "lane_following_command", "LaneFollowCommandConfig">>}

\* The required fields of every message of the bridge.
Required ==
  [Communication |-> Address, Location |-> Point, Rotation |-> Turn,
   CameraConfig |-> CameraConfig, LidarConfig |-> LidarConfig,
   RadarConfig |-> RadarConfig,
   GnssConfig |-> Mounted \cup Connected(11) \cup Status,
   ImuConfig |-> Mounted \cup Connected(11),
   GroundTrueConfig |-> Named \cup Connected(11) \cup {<<2, "range", "uint32">>},
   LocalizationConfig |-> Mounted \cup Connected(11) \cup Status,
   ChassisConfig |-> Named \cup Connected(11),
   ControlConfig |-> Named \cup Connected(11),
   LaneFollowCommandConfig |->
     {<<2, "target_location", "Location">>, <<3, "target_heading", "double">>},
   AutonomousVehicleConfig |-> AutonomousVehicleConfig]

Channel(n) == {<<n, "channel_name", "string">>}

\* The fields that may be absent: optional and repeated ones.
Optional ==
  [m \in DOMAIN Required |->
     CASE m = "AutonomousVehicleConfig" -> Devices
       [] m = "LaneFollowCommandConfig" -> Channel(1)
       [] m \in {"Communication", "Location", "Rotation", "ControlConfig"} -> {}
       [] OTHER -> Channel(21)]

-----------------------------------------------------------------------------
(* autonomous_vehicle_creation_command.proto                               *)

CommandCamera ==
  Mounted \cup Connected(8) \cup
  {<<4, "fov", "uint32">>, <<5, "width", "uint32">>, <<6, "height", "uint32">>,
   <<7, "lens_flare_intensity", "double">>}

CommandLidar ==
  Mounted \cup Connected(11) \cup
  {<<4, "channels", "uint32">>, <<5, "range", "uint32">>,
   <<6, "rotation_frequency", "uint32">>, <<7, "horizontal_fov", "uint32">>,
   <<8, "upper_fov", "int32">>, <<9, "lower_fov", "int32">>}

CommandRadar ==
  Mounted \cup Connected(11) \cup
  {<<4, "horizontal_fov", "uint32">>, <<5, "range", "uint32">>,
   <<6, "vertical_fov", "uint32">>}

CommandVehicle ==
  Named \cup
  {<<2, "type", "string">>, <<3, "location", "Location">>,
   <<4, "rotation", "Rotation">>, <<13, "chassis", "ChassisConfig">>,
   <<14, "control", "ControlConfig">>}

CommandRequired ==
  [Communication |-> Address, Location |-> Point, Rotation |-> Turn,
   CameraConfig |-> CommandCamera, LidarConfig |-> CommandLidar,
   RadarConfig |-> CommandRadar,
   GnssConfig |-> Mounted \cup Connected(11),
   ImuConfig |-> Mounted \cup Connected(11),
   GroundTrueConfig |-> Named \cup Connected(11) \cup {<<2, "range", "uint32">>},
   LocalizationConfig |-> Mounted \cup Connected(11),
   ChassisConfig |-> Named \cup Connected(11),
   ControlConfig |-> Named \cup Connected(11),
   AutonomousVehicleConfig |-> CommandVehicle]

CommandOptional ==
  [m \in DOMAIN CommandRequired |->
     IF m = "AutonomousVehicleConfig" THEN Devices ELSE {}]

-----------------------------------------------------------------------------

Names(fields) == {Name(f) : f \in fields}

\* A message of a configuration file is read if it sets known fields only,
\* and initialised if it sets all required ones.
Unknown(message, names) ==
  names \ (Names(Required[message]) \cup Names(Optional[message]))
Initialised(message, names) == Names(Required[message]) \subseteq names

\* Under which name the bridge has put what the simulator finds as a field:
\* the names of the bridge's fields of that number and type.
Source(fields, f) ==
  {Name(g) : g \in {h \in fields : Number(h) = Number(f) /\ Type(h) = Type(f)}}

\* A message of the command as the simulator reads it: for each required
\* field what the bridge always sends there, for the others what it may send.
Parsed(message) ==
  [required |-> [f \in CommandRequired[message] |-> Source(Required[message], f)],
   others |-> [f \in CommandOptional[message] |-> Source(Optional[message], f)]]

=============================================================================
