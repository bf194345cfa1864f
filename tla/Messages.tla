------------------------------ MODULE Messages ------------------------------
(***************************************************************************)
(* The structs that the simulator and the bridge exchange as raw bytes:    *)
(* the bridge casts what it reads to the structs of common/message.h, the  *)
(* simulator writes those of proto/message-en.h (proto/message-cn.h is the *)
(* same with other comments).  A field is a name and a type; the compiler  *)
(* places each at the next multiple of its alignment (x86-64 and AArch64   *)
(* agree on these), and a payload begins where the struct ends.            *)
(***************************************************************************)
EXTENDS Integers, Sequences

\* Three doubles in a row are one vector, four are a quaternion.
Size == [u32 |-> 4, i32 |-> 4, f32 |-> 4, f64 |-> 8,
         text |-> 8, vec |-> 24, quat |-> 32]
Alignment == [u32 |-> 4, i32 |-> 4, f32 |-> 4, f64 |-> 8,
              text |-> 1, vec |-> 8, quat |-> 8]

RoundUp(n, a) == ((n + a - 1) \div a) * a

Name(field) == field[1]
Type(field) == field[2]

\* Where each field of the struct ends.
Ends(struct) ==
  LET end[j \in 0..Len(struct)] ==
        IF j = 0 THEN 0
        ELSE RoundUp(end[j - 1], Alignment[Type(struct[j])])
             + Size[Type(struct[j])]
  IN  end

\* The offset of the field numbered i.
Offset(struct, i) == Ends(struct)[i] - Size[Type(struct[i])]

\* Every message struct holds a double, so its size is a multiple of 8.
SizeOf(struct) ==
  LET n == Len(struct)
  IN  RoundUp(Offset(struct, n) + Size[Type(struct[n])], 8)

-----------------------------------------------------------------------------
(* common/message.h, what the bridge reads and writes                      *)

Header ==
  << <<"magic", "u32">>, <<"version", "text">>, <<"msg_len", "u32">>,
     <<"msg_type", "u32">>, <<"sim_frame", "u32">>, <<"sim_time", "f64">> >>

Localization == Header \o
  << <<"heading", "f64">>, <<"location", "vec">>, <<"rotation", "vec">>,
     <<"speed", "vec">>, <<"acceleration", "vec">>,
     <<"angular_velocity", "vec">>, <<"quaternion", "quat">> >>

\* Mutant: the heading is read as a double in front of the vectors.
ImuHeadingFirst == Header \o
  << <<"heading", "f64">>, <<"accelerometer", "vec">>, <<"gyroscope", "vec">> >>

Imu == Header \o
  << <<"accelerometer", "vec">>, <<"gyroscope", "vec">>, <<"heading", "f32">> >>

Camera == Header \o
  << <<"width", "u32">>, <<"height", "u32">>, <<"length", "u32">> >>

Lidar == Header \o
  << <<"horizontal_angle", "f64">>, <<"channels", "i32">>,
     <<"point_count", "i32">>, <<"point_size", "u32">> >>

Radar == Header \o << <<"point_count", "i32">>, <<"point_size", "u32">> >>

GroundTrueObject == Header \o << <<"range", "f64">>, <<"object_count", "u32">> >>

Object ==
  << <<"object_type", "i32">>, <<"relative_location", "vec">>, <<"speed", "vec">>,
     <<"rotation", "vec">>, <<"acceleration", "vec">>, <<"dimension", "vec">>,
     <<"heading", "f32">> >>

Chassis == Header \o
  << <<"engine_rpm", "f64">>, <<"speed", "f64">>, <<"odometer_m", "f64">>,
     <<"fuel_range_m", "f64">>, <<"throttle_percentage", "f64">>,
     <<"brake_percentage", "f64">>, <<"steering_percentage", "f64">>,
     <<"parking_brake", "i32">>, <<"gear_location", "i32">>,
     <<"throttle_percentage_cmd", "f64">>, <<"brake_percentage_cmd", "f64">>,
     <<"steering_percentage_cmd", "f64">> >>

Control == Header \o
  << <<"throttle", "f64">>, <<"brake", "f64">>, <<"steer", "f64">>,
     <<"reverse", "i32">> >>

Bridge ==
  [localization |-> Localization, imu |-> Imu,
   camera |-> Camera, lidar |-> Lidar, radar |-> Radar,
   ground_true |-> GroundTrueObject, object |-> Object, chassis |-> Chassis,
   control |-> Control]

-----------------------------------------------------------------------------
(* proto/message-en.h, what the simulator writes and reads                 *)

ProtocolHeader ==
  << <<"magic", "u32">>, <<"version", "text">>, <<"msg_len", "u32">>,
     <<"msg_type", "u32">>, <<"sim_frame", "u32">>, <<"sim_time", "f64">> >>

ProtocolLocalization == ProtocolHeader \o
  << <<"heading", "f64">>, <<"location", "vec">>, <<"rotation", "vec">>,
     <<"speed", "vec">>, <<"acceleration", "vec">>,
     <<"angular_velocity", "vec">>, <<"quaternion", "quat">> >>

ProtocolImu == ProtocolHeader \o
  << <<"accelerometer", "vec">>, <<"gyroscope", "vec">>, <<"heading", "f32">> >>

ProtocolCamera == ProtocolHeader \o
  << <<"width", "u32">>, <<"height", "u32">>, <<"length", "u32">> >>

ProtocolLidar == ProtocolHeader \o
  << <<"horizontal_angle", "f64">>, <<"channels", "i32">>,
     <<"point_count", "i32">>, <<"point_size", "u32">> >>

ProtocolRadar ==
  ProtocolHeader \o << <<"point_count", "i32">>, <<"point_size", "u32">> >>

ProtocolGroundTrueObject ==
  ProtocolHeader \o << <<"range", "f64">>, <<"object_count", "u32">> >>

ProtocolObject ==
  << <<"id", "u32">>, <<"object_type", "i32">>, <<"location", "vec">>,
     <<"speed", "vec">>, <<"rotation", "vec">>, <<"acceleration", "vec">>,
     <<"dimension", "vec">>, <<"heading", "f32">> >>

ProtocolChassis == ProtocolHeader \o
  << <<"engine_rpm", "f64">>, <<"speed", "f64">>, <<"odometer_m", "f64">>,
     <<"fuel_range_m", "f64">>, <<"throttle_percentage", "f64">>,
     <<"brake_percentage", "f64">>, <<"steering_percentage", "f64">>,
     <<"parking_brake", "i32">>, <<"gear_location", "i32">>,
     <<"throttle_percentage_cmd", "f64">>, <<"brake_percentage_cmd", "f64">>,
     <<"steering_percentage_cmd", "f64">> >>

ProtocolControl == ProtocolHeader \o
  << <<"throttle", "f64">>, <<"brake", "f64">>, <<"steer", "f64">>,
     <<"reverse", "i32">> >>

Protocol ==
  [localization |-> ProtocolLocalization,
   imu |-> ProtocolImu, camera |-> ProtocolCamera, lidar |-> ProtocolLidar,
   radar |-> ProtocolRadar, ground_true |-> ProtocolGroundTrueObject,
   object |-> ProtocolObject, chassis |-> ProtocolChassis,
   control |-> ProtocolControl]

-----------------------------------------------------------------------------

\* What the writer put where the reader looks for its field i: the name of a
\* field, or "" if there begins none of that type.
FoundAt(reader, writer, i) ==
  LET here == {j \in DOMAIN writer :
                 /\ Offset(writer, j) = Offset(reader, i)
                 /\ Type(writer[j]) = Type(reader[i])}
  IN  IF here = {} THEN "" ELSE Name(writer[CHOOSE j \in here : TRUE])

\* The fields of the reader's struct, each with what it finds there.
ReadAs(reader, writer) ==
  [f \in {Name(reader[i]) : i \in DOMAIN reader} |->
     FoundAt(reader, writer, CHOOSE i \in DOMAIN reader : Name(reader[i]) = f)]

=============================================================================
