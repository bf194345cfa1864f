------------------------------- MODULE Drivers -------------------------------
(***************************************************************************)
(* The eight sensor drivers, as far as the life of their members goes:     *)
(*   ...Members  the members in the order of their declaration; the        *)
(*               (defaulted) destructor unmakes them from last to first;   *)
(*   ...Init     what Init does, in order; "bind" and "start" are the      *)
(*               server's, and after "start" its thread is running;        *)
(*   ...Uses     the members the data callback uses, on that thread.       *)
(* "config" is made by the constructor, "server" by the step "bind".       *)
(***************************************************************************)
EXTENDS Integers, Sequences

CameraMembers == <<"config", "server", "writer", "broadcaster">>
CameraInit == <<"bind", "start", "writer", "broadcaster">>
CameraUses == {"config", "writer"}

LidarMembers == <<"server", "config", "writer">>

\* Mutant: the lidar starts its server before it makes its writer.
LidarServerFirst == <<"bind", "start", "writer">>

LidarInit == <<"writer", "bind", "start">>
LidarUses == {"config", "writer"}

RadarMembers == <<"server", "config">>
RadarInit == <<"bind", "start">>
RadarUses == {}

\* GnssDataCallback is commented out: its writers are made and never used.
GnssMembers == <<"server", "config", "writer", "status">>
GnssInit == <<"bind", "start", "writer", "status">>
GnssUses == {}

ImuMembers == <<"server", "config">>
ImuInit == <<"bind", "start">>
ImuUses == {}

GroundTrueMembers == <<"server", "config">>
GroundTrueInit == <<"bind", "start">>
GroundTrueUses == {}

LocalizationMembers == <<"server", "config", "writer", "status", "broadcaster">>
LocalizationInit == <<"bind", "start", "writer", "status", "broadcaster">>
LocalizationUses == {"writer", "status", "broadcaster"}

ChassisMembers == <<"server", "config", "writer">>
ChassisInit == <<"bind", "start", "writer">>
ChassisUses == {"config", "writer"}

-----------------------------------------------------------------------------
(* The kinds in the order in which InitDriverComponent creates them.       *)

KindOrder == <<"camera", "lidar", "radar", "gnss", "imu", "ground_true",
               "localization", "chassis">>

CreatedBefore(k, l) ==
  \E i, j \in DOMAIN KindOrder : i < j /\ KindOrder[i] = k /\ KindOrder[j] = l

Driver == [
  camera       |-> [members |-> CameraMembers, init |-> CameraInit,
                    uses |-> CameraUses],
  lidar        |-> [members |-> LidarMembers, init |-> LidarInit,
                    uses |-> LidarUses],
  radar        |-> [members |-> RadarMembers, init |-> RadarInit,
                    uses |-> RadarUses],
  gnss         |-> [members |-> GnssMembers, init |-> GnssInit,
                    uses |-> GnssUses],
  imu          |-> [members |-> ImuMembers, init |-> ImuInit,
                    uses |-> ImuUses],
  ground_true  |-> [members |-> GroundTrueMembers, init |-> GroundTrueInit,
                    uses |-> GroundTrueUses],
  localization |-> [members |-> LocalizationMembers,
                    init |-> LocalizationInit, uses |-> LocalizationUses],
  chassis      |-> [members |-> ChassisMembers, init |-> ChassisInit,
                    uses |-> ChassisUses]]

=============================================================================
