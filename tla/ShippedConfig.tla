---------------------------- MODULE ShippedConfig ----------------------------
(***************************************************************************)
(* Init's first step on the file conf/apollo_dttf.pb.txt: GetProtoConfig   *)
(* parses it, a message at a time, against apollo_dttf.proto.              *)
(***************************************************************************)
EXTENDS Configuration, Sequences

VARIABLES
  at,           \* the messages read, in the order in which they begin
  incomplete,   \* those of them that lack a required field
  unknown,      \* the fields that the message they stand in does not have
  loaded        \* "reading", "ok" or "failed", the result of GetProtoConfig

vars == <<at, incomplete, unknown, loaded>>

Block(message, names) == [message |-> message, names |-> names]
Socket == Block("Communication", {"type", "url"})
Position(names) == Block("Location", names)
NoRotation == Block("Rotation", {})

ShippedCamera ==
  << Block("CameraConfig", {"name", "channel_name", "location", "fov",
           "lens_flare_intensity", "rotation", "width", "height",
           "communication"}),
     Position({"x", "y", "z"}), NoRotation, Socket >>

ShippedLidar ==
  << Block("LidarConfig", {"name", "channel_name", "location", "rotation",
           "channels", "range", "rotation_frequency", "horizontal_fov",
           "upper_fov", "lower_fov", "communication"}),
     Position({"z"}), NoRotation, Socket >>

ShippedLocalization ==
  << Block("LocalizationConfig", {"name", "location", "rotation",
           "communication", "channel_name", "status_channel_name"}),
     Position({"x", "y", "z"}), NoRotation, Socket >>

ShippedRest ==
  << Block("ChassisConfig", {"name", "communication", "channel_name"}), Socket,
     Block("ControlConfig", {"name", "communication", "channel_name"}), Socket,
     Block("LaneFollowCommandConfig", {"channel_name", "target_location",
           "heading"}),
     Position({"x", "y"}) >>

\* The whole file.  "route" is a field no message of the schema has.
Shipped ==
  << Block("AutonomousVehicleConfig", {"name", "type", "location", "rotation",
           "cameras", "lidars", "localization", "chassis", "control", "route",
           "lane_following_command", "grpc_url"}),
     Position({"x", "y", "z"}), NoRotation >>
  \o ShippedCamera \o ShippedCamera \o ShippedLidar \o ShippedLocalization
  \o ShippedRest

Init == at = 0 /\ incomplete = {} /\ unknown = {} /\ loaded = "reading"

Current == Shipped[at + 1]

\* The parser goes on although a message lacks a field.  It would stop at the
\* first field it does not know; here it reads on, to the same result, and
\* collects all the reasons.
ParseMessage ==
  /\ loaded = "reading" /\ at < Len(Shipped)
  /\ at' = at + 1
  /\ incomplete' = IF Initialised(Current.message, Current.names)
                   THEN incomplete ELSE incomplete \cup {at + 1}
  /\ unknown' = unknown \cup Unknown(Current.message, Current.names)
  /\ UNCHANGED loaded

\* At the end of the file every message has to be complete.
ParseEnd ==
  /\ loaded = "reading" /\ at = Len(Shipped)
  /\ loaded' = IF incomplete = {} /\ unknown = {} THEN "ok" ELSE "failed"
  /\ UNCHANGED <<at, incomplete, unknown>>

Next == ParseMessage \/ ParseEnd

Spec == Init /\ [][Next]_vars

\* The "Test configuration file" (readme.md:75) can be loaded: GetProtoConfig
\* succeeds on it and Init goes on to the drivers (apollo_dttf_component.cc:32).
ShippedConfigLoads == loaded # "failed"

=============================================================================
