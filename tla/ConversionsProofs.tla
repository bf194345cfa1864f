-------------------------- MODULE ConversionsProofs --------------------------
(***************************************************************************)
(* Proofs about Conversions: the layout of any struct of the sizes used,   *)
(* so that every field is read as it was written; the schemas of a vehicle;*)
(* the zone of every longitude; that quaternions, matrices and angles of a *)
(* rotation agree; and the way of every command to the simulator and back, *)
(* for any number of commands under way.                                   *)
(***************************************************************************)
EXTENDS Conversions, TLAPS

-----------------------------------------------------------------------------
(* The layout of a struct                                                  *)

\* The most fields a struct here has: those of a ChassisMessage.
MostFields == 18

IsStruct(s) ==
  /\ Len(s) \in 0..MostFields /\ DOMAIN s = 1..Len(s)
  /\ \A i \in DOMAIN s : Layouts!Type(s[i]) \in DOMAIN Layouts!Size

\* Where field j ends when the one before it ends at x.
FieldEnd(s, j, x) ==
  Layouts!RoundUp(x, Layouts!Alignment[Layouts!Type(s[j])])
    + Layouts!Size[Layouts!Type(s[j])]

LEMMA RoundsUp ==
  ASSUME NEW n \in Nat, NEW a \in {1, 4, 8}
  PROVE  Layouts!RoundUp(n, a) \in Nat /\ Layouts!RoundUp(n, a) >= n
<1>1. CASE a = 1
  BY <1>1 DEF Layouts!RoundUp
<1>2. CASE a = 4
  BY <1>2 DEF Layouts!RoundUp
<1>3. CASE a = 8
  BY <1>3 DEF Layouts!RoundUp
<1>4. QED BY <1>1, <1>2, <1>3

LEMMA FieldEnds ==
  ASSUME NEW s, IsStruct(s), NEW j \in 1..Len(s), NEW x \in Nat
  PROVE  /\ FieldEnd(s, j, x) \in Nat
         /\ Layouts!Size[Layouts!Type(s[j])] \in Nat
         /\ Layouts!Size[Layouts!Type(s[j])] > 0
         /\ FieldEnd(s, j, x) >= x + Layouts!Size[Layouts!Type(s[j])]
<1>1. PICK t \in DOMAIN Layouts!Size : t = Layouts!Type(s[j])
  BY DEF IsStruct
<1>2. t \in {"u32", "i32", "f32", "f64", "text", "vec", "quat"}
  BY <1>1 DEF Layouts!Size
<1>3. Layouts!Size[t] \in {4, 8, 24, 32} /\ Layouts!Alignment[t] \in {1, 4, 8}
  BY <1>2 DEF Layouts!Size, Layouts!Alignment
<1>4. /\ Layouts!RoundUp(x, Layouts!Alignment[t]) \in Nat
      /\ Layouts!RoundUp(x, Layouts!Alignment[t]) >= x
  BY <1>3, RoundsUp
<1>5. QED BY <1>1, <1>3, <1>4 DEF FieldEnd

\* The recursive definition of Ends, for the first m fields.
EndsTo(s, m, T) ==
  T = [j \in 0..m |-> IF j = 0 THEN 0 ELSE FieldEnd(s, j, T[j - 1])]

LEMMA OneMoreField ==
  ASSUME NEW s, NEW m \in Nat, \E T : EndsTo(s, m, T)
  PROVE  \E T : EndsTo(s, m + 1, T)
<1>1. PICK T : EndsTo(s, m, T)
  OBVIOUS
<1> DEFINE U == [j \in 0..m + 1 |-> IF j = m + 1 THEN FieldEnd(s, m + 1, T[m]) ELSE T[j]]
<1>2. \A j \in 0..m : U[j] = T[j]
  OBVIOUS
<1>3. ASSUME NEW j \in 0..m + 1
      PROVE  U[j] = IF j = 0 THEN 0 ELSE FieldEnd(s, j, U[j - 1])
  <2>1. CASE j = m + 1
    <3>1. j # 0 /\ j - 1 = m /\ m \in 0..m
      BY <2>1
    <3>2. U[j - 1] = T[m]
      BY <1>2, <3>1
    <3>3. U[j] = FieldEnd(s, m + 1, T[m])
      BY <2>1
    <3>4. QED BY <2>1, <3>1, <3>2, <3>3
  <2>2. CASE j # m + 1
    <3>1. j \in 0..m
      BY <2>2
    <3>2. T[j] = IF j = 0 THEN 0 ELSE FieldEnd(s, j, T[j - 1])
      BY <1>1, <3>1 DEF EndsTo
    <3>3. j # 0 => j - 1 \in 0..m
      BY <3>1
    <3>4. QED BY <1>2, <3>1, <3>2, <3>3
  <2>3. QED BY <2>1, <2>2
<1>4. U = [j \in 0..m + 1 |-> U[j]]
  OBVIOUS
<1> HIDE DEF U
<1>5. [j \in 0..m + 1 |-> U[j]]
        = [j \in 0..m + 1 |-> IF j = 0 THEN 0 ELSE FieldEnd(s, j, U[j - 1])]
  BY <1>3
<1>6. EndsTo(s, m + 1, U)
  BY <1>4, <1>5 DEF EndsTo
<1>7. QED BY <1>6

\* Field by field, as no prover here does induction.
LEMMA EndsExist ==
  ASSUME NEW s, IsStruct(s)
  PROVE  \E T : EndsTo(s, Len(s), T)
<1> DEFINE E(m) == \E T : EndsTo(s, m, T)
<1>0. E(0)
  <2>1. EndsTo(s, 0, [j \in 0..0 |-> 0])
    BY DEF EndsTo
  <2>2. QED BY <2>1
<1>1. E(1) BY <1>0, OneMoreField
<1>2. E(2) BY <1>1, OneMoreField
<1>3. E(3) BY <1>2, OneMoreField
<1>4. E(4) BY <1>3, OneMoreField
<1>5. E(5) BY <1>4, OneMoreField
<1>6. E(6) BY <1>5, OneMoreField
<1>7. E(7) BY <1>6, OneMoreField
<1>8. E(8) BY <1>7, OneMoreField
<1>9. E(9) BY <1>8, OneMoreField
<1>10. E(10) BY <1>9, OneMoreField
<1>11. E(11) BY <1>10, OneMoreField
<1>12. E(12) BY <1>11, OneMoreField
<1>13. E(13) BY <1>12, OneMoreField
<1>14. E(14) BY <1>13, OneMoreField
<1>15. E(15) BY <1>14, OneMoreField
<1>16. E(16) BY <1>15, OneMoreField
<1>17. E(17) BY <1>16, OneMoreField
<1>18. E(18) BY <1>17, OneMoreField
<1> HIDE DEF E
<1>19. \A m \in 0..18 : E(m)
  BY <1>0, <1>1, <1>2, <1>3, <1>4, <1>5, <1>6, <1>7, <1>8, <1>9, <1>10, <1>11,
    <1>12, <1>13, <1>14, <1>15, <1>16, <1>17, <1>18
<1>20. E(Len(s))
  BY <1>19 DEF IsStruct, MostFields
<1>21. QED BY <1>20 DEF E

LEMMA EndsAre ==
  ASSUME NEW s, IsStruct(s)
  PROVE  /\ Layouts!Ends(s)[0] = 0
         /\ \A j \in 1..Len(s) :
              Layouts!Ends(s)[j] = FieldEnd(s, j, Layouts!Ends(s)[j - 1])
<1>1. PICK T : EndsTo(s, Len(s), T)
  BY EndsExist
<1>2. Layouts!Ends(s)
        = [j \in 0..Len(s) |-> IF j = 0 THEN 0 ELSE FieldEnd(s, j, Layouts!Ends(s)[j - 1])]
  BY <1>1 DEF EndsTo, FieldEnd, Layouts!Ends
<1> DEFINE D == Layouts!Ends(s)
<1> HIDE DEF D
<1>3. D = [j \in 0..Len(s) |-> IF j = 0 THEN 0 ELSE FieldEnd(s, j, D[j - 1])]
  BY <1>2 DEF D
<1>4. 0 \in 0..Len(s) /\ \A j \in 1..Len(s) : j \in 0..Len(s) /\ j # 0
  BY DEF IsStruct
<1>5. D[0] = 0 /\ \A j \in 1..Len(s) : D[j] = FieldEnd(s, j, D[j - 1])
  BY <1>3, <1>4
<1>6. QED BY <1>5 DEF D

\* The first m fields end one behind the other.
Rising(s, m) ==
  m <= Len(s) =>
    \A i \in 0..m : /\ Layouts!Ends(s)[i] \in Nat
                     /\ Layouts!Ends(s)[i] <= Layouts!Ends(s)[m]

LEMMA OneMoreEnd ==
  ASSUME NEW s, IsStruct(s), NEW m \in Nat, Rising(s, m)
  PROVE  Rising(s, m + 1)
<1> DEFINE D == Layouts!Ends(s)
<1> SUFFICES ASSUME m + 1 <= Len(s)
             PROVE  \A i \in 0..m + 1 : D[i] \in Nat /\ D[i] <= D[m + 1]
  BY DEF Rising
<1>1. Len(s) \in Nat /\ m + 1 \in 1..Len(s) /\ (m + 1) - 1 = m /\ m <= Len(s)
  BY DEF IsStruct
<1>2. D[m + 1] = FieldEnd(s, m + 1, D[m])
  BY <1>1, EndsAre
<1>3. \A i \in 0..m : D[i] \in Nat /\ D[i] <= D[m]
  BY <1>1 DEF Rising
<1> HIDE DEF D
<1>4. PICK x \in Nat : x = D[m]
  BY <1>3
<1>5. D[m + 1] \in Nat /\ D[m + 1] >= x
  <2>1. PICK z \in Nat : z = Layouts!Size[Layouts!Type(s[m + 1])]
    BY <1>1, <1>4, FieldEnds
  <2>2. FieldEnd(s, m + 1, x) \in Nat /\ FieldEnd(s, m + 1, x) >= x + z
    BY <1>1, <2>1, FieldEnds
  <2>3. QED BY <1>2, <1>4, <2>1, <2>2
<1>6. ASSUME NEW i \in 0..m + 1 PROVE D[i] \in Nat /\ D[i] <= D[m + 1]
  <2>1. CASE i = m + 1
    BY <1>5, <2>1
  <2>2. CASE i # m + 1
    <3>1. i \in 0..m
      BY <2>2
    <3>2. D[i] \in Nat /\ D[i] <= x
      BY <1>3, <1>4, <3>1
    <3>3. QED BY <1>5, <3>2
  <2>3. QED BY <2>1, <2>2
<1>7. QED BY <1>6

LEMMA AllRise ==
  ASSUME NEW s, IsStruct(s), NEW m \in 0..Len(s)
  PROVE  Rising(s, m)
<1> DEFINE R(n) == Rising(s, n)
<1>0. R(0)
  BY EndsAre DEF Rising
<1>1. R(1) BY <1>0, OneMoreEnd
<1>2. R(2) BY <1>1, OneMoreEnd
<1>3. R(3) BY <1>2, OneMoreEnd
<1>4. R(4) BY <1>3, OneMoreEnd
<1>5. R(5) BY <1>4, OneMoreEnd
<1>6. R(6) BY <1>5, OneMoreEnd
<1>7. R(7) BY <1>6, OneMoreEnd
<1>8. R(8) BY <1>7, OneMoreEnd
<1>9. R(9) BY <1>8, OneMoreEnd
<1>10. R(10) BY <1>9, OneMoreEnd
<1>11. R(11) BY <1>10, OneMoreEnd
<1>12. R(12) BY <1>11, OneMoreEnd
<1>13. R(13) BY <1>12, OneMoreEnd
<1>14. R(14) BY <1>13, OneMoreEnd
<1>15. R(15) BY <1>14, OneMoreEnd
<1>16. R(16) BY <1>15, OneMoreEnd
<1>17. R(17) BY <1>16, OneMoreEnd
<1>18. R(18) BY <1>17, OneMoreEnd
<1> HIDE DEF R
<1>19. \A n \in 0..18 : R(n)
  BY <1>0, <1>1, <1>2, <1>3, <1>4, <1>5, <1>6, <1>7, <1>8, <1>9, <1>10, <1>11, <1>12,
    <1>13, <1>14, <1>15, <1>16, <1>17, <1>18
<1>20. m \in 0..18
  BY DEF IsStruct, MostFields
<1>21. QED BY <1>19, <1>20 DEF R

\* No two fields of a struct begin at one offset: each begins behind the
\* end of the one before.
LEMMA FieldsApart ==
  ASSUME NEW s, IsStruct(s), NEW i \in DOMAIN s, NEW j \in DOMAIN s,
         Layouts!Offset(s, i) = Layouts!Offset(s, j)
  PROVE  i = j
<1>1. ASSUME NEW a \in DOMAIN s, NEW b \in DOMAIN s, a < b
      PROVE  Layouts!Offset(s, a) # Layouts!Offset(s, b)
  <2> DEFINE D == Layouts!Ends(s)
  <2> HIDE DEF D
  <2>1. /\ Len(s) \in Nat /\ a \in 1..Len(s) /\ b \in 1..Len(s)
        /\ a - 1 \in 0..Len(s) /\ b - 1 \in 0..Len(s) /\ a \in 0..b - 1
        /\ a - 1 \in 0..a - 1 /\ b - 1 \in 0..b - 1
    BY <1>1 DEF IsStruct
  <2>2. PICK x \in Nat : x = D[b - 1] /\ D[a] \in Nat /\ D[a] <= x
    BY <2>1, AllRise DEF Rising, D
  <2>3. PICK y \in Nat : y = D[a - 1]
    BY <2>1, AllRise DEF Rising, D
  <2>4. D[a] = FieldEnd(s, a, y) /\ D[b] = FieldEnd(s, b, x)
    BY <2>1, <2>2, <2>3, EndsAre DEF D
  <2>5. PICK u \in Nat : u = Layouts!Size[Layouts!Type(s[a])] /\ u > 0
    BY <2>1, <2>3, FieldEnds
  <2>6. PICK v \in Nat : v = Layouts!Size[Layouts!Type(s[b])]
    BY <2>1, <2>2, FieldEnds
  <2>7. D[b] \in Nat /\ D[b] >= x + v
    BY <2>1, <2>2, <2>4, <2>6, FieldEnds
  <2>8. D[a] - u # D[b] - v
    BY <2>2, <2>5, <2>6, <2>7
  <2>9. QED BY <2>5, <2>6, <2>8 DEF Layouts!Offset, D
<1>2. i \in Nat /\ j \in Nat
  BY DEF IsStruct
<1>3. QED BY <1>1, <1>2

\* A struct that both sides lay out alike is read as it was written.
LEMMA ReadsItself ==
  ASSUME NEW s, IsStruct(s)
  PROVE  Layouts!ReadAs(s, s) = [f \in {Layouts!Name(s[i]) : i \in DOMAIN s} |-> f]
<1> DEFINE Names == {Layouts!Name(s[i]) : i \in DOMAIN s}
<1>1. ASSUME NEW i \in DOMAIN s
      PROVE  Layouts!FoundAt(s, s, i) = Layouts!Name(s[i])
  <2> DEFINE here == {j \in DOMAIN s : /\ Layouts!Offset(s, j) = Layouts!Offset(s, i)
                                       /\ Layouts!Type(s[j]) = Layouts!Type(s[i])}
  <2>1. here = {i}
    BY FieldsApart
  <2>2. (CHOOSE j \in here : TRUE) = i
    BY <2>1
  <2>3. QED BY <2>1, <2>2 DEF Layouts!FoundAt
<1>2. ASSUME NEW f \in Names
      PROVE  Layouts!FoundAt(s, s, CHOOSE i \in DOMAIN s : Layouts!Name(s[i]) = f) = f
  <2>1. PICK i : i = (CHOOSE n \in DOMAIN s : Layouts!Name(s[n]) = f)
    OBVIOUS
  <2>2. i \in DOMAIN s /\ Layouts!Name(s[i]) = f
    BY <1>2, <2>1
  <2>3. QED BY <1>1, <2>1, <2>2
<1>3. QED BY <1>2 DEF Layouts!ReadAs

\* The messages of the sensors that a callback reads.
Kinds == {"imu", "camera", "lidar", "radar", "ground_true"}

\* The structs that both sides declare alike: all but the object's.
LEMMA LaidOutAlike ==
  \A kind \in Kinds \cup {"localization", "chassis", "control"} :
    Layouts!Bridge[kind] = Layouts!Protocol[kind]
<1> USE DEF Layouts!Header, Layouts!ProtocolHeader
<1>1. Layouts!Localization = Layouts!ProtocolLocalization
  BY DEF Layouts!Localization, Layouts!ProtocolLocalization
<1>2. Layouts!Imu = Layouts!ProtocolImu
  BY DEF Layouts!Imu, Layouts!ProtocolImu
<1>3. Layouts!Camera = Layouts!ProtocolCamera
  BY DEF Layouts!Camera, Layouts!ProtocolCamera
<1>4. Layouts!Lidar = Layouts!ProtocolLidar
  BY DEF Layouts!Lidar, Layouts!ProtocolLidar
<1>5. Layouts!Radar = Layouts!ProtocolRadar
  BY DEF Layouts!Radar, Layouts!ProtocolRadar
<1>6. Layouts!GroundTrueObject = Layouts!ProtocolGroundTrueObject
  BY DEF Layouts!GroundTrueObject, Layouts!ProtocolGroundTrueObject
<1>7. Layouts!Chassis = Layouts!ProtocolChassis
  BY DEF Layouts!Chassis, Layouts!ProtocolChassis
<1>8. Layouts!Control = Layouts!ProtocolControl
  BY DEF Layouts!Control, Layouts!ProtocolControl
<1>9. QED
  BY <1>1, <1>2, <1>3, <1>4, <1>5, <1>6, <1>7, <1>8
    DEF Kinds, Layouts!Bridge, Layouts!Protocol

LEMMA Structs ==
  \A kind \in Kinds \cup {"localization", "chassis", "control"} :
    IsStruct(Layouts!Bridge[kind])
<1>1. IsStruct(Layouts!Localization)
  BY DEF IsStruct, MostFields, Layouts!Type, Layouts!Size, Layouts!Header, Layouts!Localization
<1>2. IsStruct(Layouts!Imu)
  BY DEF IsStruct, MostFields, Layouts!Type, Layouts!Size, Layouts!Header, Layouts!Imu
<1>3. IsStruct(Layouts!Camera)
  BY DEF IsStruct, MostFields, Layouts!Type, Layouts!Size, Layouts!Header, Layouts!Camera
<1>4. IsStruct(Layouts!Lidar)
  BY DEF IsStruct, MostFields, Layouts!Type, Layouts!Size, Layouts!Header, Layouts!Lidar
<1>5. IsStruct(Layouts!Radar)
  BY DEF IsStruct, MostFields, Layouts!Type, Layouts!Size, Layouts!Header, Layouts!Radar
<1>6. IsStruct(Layouts!GroundTrueObject)
  BY DEF IsStruct, MostFields, Layouts!Type, Layouts!Size, Layouts!Header, Layouts!GroundTrueObject
<1>7. IsStruct(Layouts!Chassis)
  BY DEF IsStruct, MostFields, Layouts!Type, Layouts!Size, Layouts!Header, Layouts!Chassis
<1>8. IsStruct(Layouts!Control)
  BY DEF IsStruct, MostFields, Layouts!Type, Layouts!Size, Layouts!Header, Layouts!Control
<1>9. QED
  BY <1>1, <1>2, <1>3, <1>4, <1>5, <1>6, <1>7, <1>8 DEF Kinds, Layouts!Bridge

\* The bridge finds under each name what the simulator wrote under it.
LEMMA FoundItself ==
  ASSUME NEW kind \in Kinds \cup {"localization", "chassis"}
  PROVE  /\ Found[kind] = [f \in {Layouts!Name(Layouts!Bridge[kind][i]) :
                                    i \in DOMAIN Layouts!Bridge[kind]} |-> f]
         /\ Layouts!SizeOf(Layouts!Bridge[kind]) = Layouts!SizeOf(Layouts!Protocol[kind])
<1>1. /\ Layouts!Bridge[kind] = Layouts!Protocol[kind]
      /\ IsStruct(Layouts!Bridge[kind])
  BY LaidOutAlike, Structs
<1>2. Found[kind] = Layouts!ReadAs(Layouts!Bridge[kind], Layouts!Protocol[kind])
  BY DEF Found, Kinds, Layouts!Bridge
<1>3. QED BY <1>1, <1>2, ReadsItself

LEMMA ReadingIsRight ==
  ASSUME NEW kind \in Kinds \cup {"localization", "chassis"}
  PROVE  LET r == Reading(kind) IN
         /\ \A f \in DOMAIN r.fields : r.fields[f] = f
         /\ r.payload = r.written
BY FoundItself DEF Reading

\* A sensor's callback publishes under the name of its own struct.
LEMMA SensorPublishes ==
  ASSUME SensorDataCallback
  PROVE  /\ UNCHANGED <<controlVars, report>>
         /\ \E kind \in Kinds :
              published'.topic = kind /\ published'.reading = Reading(kind)
<1>1. CASE \E cloud \in Clouds : LidarDataCallback(cloud)
  BY <1>1 DEF LidarDataCallback, Kinds
<1>2. CASE \E width, height \in 1..2 : ImageDataCallback(width, height)
  BY <1>2 DEF ImageDataCallback, Kinds
<1>3. CASE \E object_count \in 0..2 : GroundTrueDataCallback(object_count)
  BY <1>3 DEF GroundTrueDataCallback, Kinds
<1>4. CASE \E kind \in PrintedKinds : PrintingCallback(kind)
  BY <1>4 DEF PrintingCallback, PrintedKinds, Kinds
<1>5. QED BY <1>1, <1>2, <1>3, <1>4 DEF SensorDataCallback

\* Whatever the compiler pads, every callback finds under a name what the
\* simulator wrote under it, and the payload where it was put, in the struct
\* that its message begins with (common/message.h against
\* proto/message-en.h).  Of the objects behind that of the ground truth it is
\* false.
THEOREM FieldsFound == Spec => []FieldsReadAsWritten
<1>1. Init => FieldsReadAsWritten
  BY DEF Init, FieldsReadAsWritten
<1>2. FieldsReadAsWritten /\ [Next]_vars => FieldsReadAsWritten'
  <2> SUFFICES ASSUME FieldsReadAsWritten, [Next]_vars PROVE FieldsReadAsWritten'
    OBVIOUS
  <2>1. CASE UNCHANGED published
    BY <2>1 DEF FieldsReadAsWritten
  <2>2. ASSUME NEW kind \in Kinds \cup {"localization", "chassis"},
               published'.reading = Reading(kind)
        PROVE  FieldsReadAsWritten'
    BY <2>2, ReadingIsRight DEF FieldsReadAsWritten
  <2>3. CASE ChassisDataCallback
    <3>1. published'.reading = Reading("chassis")
      BY <2>3 DEF ChassisDataCallback
    <3>2. QED BY <2>2, <3>1
  <2>4. CASE \E place \in Places : LocalizationDataCallback(place)
    <3>1. published'.reading = Reading("localization")
      BY <2>4 DEF LocalizationDataCallback
    <3>2. QED BY <2>2, <3>1
  <2>5. CASE SensorDataCallback
    <3>1. PICK kind \in Kinds : published'.reading = Reading(kind)
      BY <2>5, SensorPublishes
    <3>2. QED BY <2>2, <3>1
  <2>6. CASE \E message \in DOMAIN Schemas!CommandRequired : SendVehicleCommand(message)
    BY <2>6 DEF SendVehicleCommand, FieldsReadAsWritten
  <2>7. CASE (\E c \in Commands : Proc(c)) \/ SimExecute \/ SimReport \/ UNCHANGED vars
    BY <2>1, <2>7 DEF Proc, SimExecute, SimReport, vars
  <2>8. QED BY <2>3, <2>4, <2>5, <2>6, <2>7 DEF Next
<1>3. QED BY <1>1, <1>2, PTL DEF Spec

-----------------------------------------------------------------------------
(* The zone of a longitude                                                 *)

LEMMA ZoneOf ==
  ASSUME NEW l \in -180..180
  PROVE  /\ l - CentralMeridian(Zone(l)) \in -3..3
         /\ Zone(l) \in 1..60 \/ (l = 180 /\ Zone(l) = 61)
<1>1. Zone(l) = ((l + 180) \div 6) + 1
  BY DEF Zone, Truncated
<1>2. PICK z \in Int : /\ z = (l + 180) \div 6
                       /\ 6 * z <= l + 180 /\ l + 180 < 6 * z + 6
  OBVIOUS
<1>3. CentralMeridian(Zone(l)) = 6 * z - 177
  BY <1>1, <1>2 DEF CentralMeridian
<1>4. QED BY <1>1, <1>2, <1>3

-----------------------------------------------------------------------------
(* Rotations                                                               *)

\* The parts of q are numbers a + b * sqrt(2).
IsWhole(q) ==
  /\ q.w \in Int \X Int /\ q.x \in Int \X Int
  /\ q.y \in Int \X Int /\ q.z \in Int \X Int

\* What the rotation matrix T of a quaternion is, written out.
WrittenOut(T, w, x, y, z) ==
  LET w1 == w[1]  w2 == w[2]  x1 == x[1]  x2 == x[2]
      y1 == y[1]  y2 == y[2]  z1 == z[1]  z2 == z[2]
  IN
  /\ T[1][1] = <<w1*w1 + 2*w2*w2 + x1*x1 + 2*x2*x2 - y1*y1 - 2*y2*y2 - z1*z1 - 2*z2*z2,
                 2*w1*w2 + 2*x1*x2 - 2*y1*y2 - 2*z1*z2>>
  /\ T[2][2] = <<w1*w1 + 2*w2*w2 - x1*x1 - 2*x2*x2 + y1*y1 + 2*y2*y2 - z1*z1 - 2*z2*z2,
                 2*w1*w2 - 2*x1*x2 + 2*y1*y2 - 2*z1*z2>>
  /\ T[3][3] = <<w1*w1 + 2*w2*w2 - x1*x1 - 2*x2*x2 - y1*y1 - 2*y2*y2 + z1*z1 + 2*z2*z2,
                 2*w1*w2 - 2*x1*x2 - 2*y1*y2 + 2*z1*z2>>
  /\ T[1][2] = <<2*(x1*y1 + 2*x2*y2 - w1*z1 - 2*w2*z2),
                 2*(x1*y2 + x2*y1 - w1*z2 - w2*z1)>>
  /\ T[2][1] = <<2*(x1*y1 + 2*x2*y2 + w1*z1 + 2*w2*z2),
                 2*(x1*y2 + x2*y1 + w1*z2 + w2*z1)>>
  /\ T[1][3] = <<2*(x1*z1 + 2*x2*z2 + w1*y1 + 2*w2*y2),
                 2*(x1*z2 + x2*z1 + w1*y2 + w2*y1)>>
  /\ T[3][1] = <<2*(x1*z1 + 2*x2*z2 - w1*y1 - 2*w2*y2),
                 2*(x1*z2 + x2*z1 - w1*y2 - w2*y1)>>
  /\ T[2][3] = <<2*(y1*z1 + 2*y2*z2 - w1*x1 - 2*w2*x2),
                 2*(y1*z2 + y2*z1 - w1*x2 - w2*x1)>>
  /\ T[3][2] = <<2*(y1*z1 + 2*y2*z2 + w1*x1 + 2*w2*x2),
                 2*(y1*z2 + y2*z1 + w1*x2 + w2*x1)>>

\* The rotation matrix of a quaternion, entry by entry.
LEMMA TurningParts ==
  ASSUME NEW q
  PROVE  LET T == Turning(q)
             Sq(a) == Times(a, a)
             Twice(a) == Plus(a, a)
         IN
         /\ T[1][1] = Minus(Plus(Sq(q.w), Sq(q.x)), Plus(Sq(q.y), Sq(q.z)))
         /\ T[2][2] = Minus(Plus(Sq(q.w), Sq(q.y)), Plus(Sq(q.x), Sq(q.z)))
         /\ T[3][3] = Minus(Plus(Sq(q.w), Sq(q.z)), Plus(Sq(q.x), Sq(q.y)))
         /\ T[1][2] = Twice(Minus(Times(q.x, q.y), Times(q.w, q.z)))
         /\ T[2][1] = Twice(Plus(Times(q.x, q.y), Times(q.w, q.z)))
         /\ T[1][3] = Twice(Plus(Times(q.x, q.z), Times(q.w, q.y)))
         /\ T[3][1] = Twice(Minus(Times(q.x, q.z), Times(q.w, q.y)))
         /\ T[2][3] = Twice(Minus(Times(q.y, q.z), Times(q.w, q.x)))
         /\ T[3][2] = Twice(Plus(Times(q.y, q.z), Times(q.w, q.x)))
BY DEF Turning

LEMMA TurningIs ==
  ASSUME NEW q, IsWhole(q)
  PROVE  WrittenOut(Turning(q), q.w, q.x, q.y, q.z)
<1> DEFINE T == Turning(q)
<1>1. PICK w1 \in Int, w2 \in Int : q.w = <<w1, w2>>
  BY DEF IsWhole
<1>2. PICK x1 \in Int, x2 \in Int : q.x = <<x1, x2>>
  BY DEF IsWhole
<1>3. PICK y1 \in Int, y2 \in Int : q.y = <<y1, y2>>
  BY DEF IsWhole
<1>4. PICK z1 \in Int, z2 \in Int : q.z = <<z1, z2>>
  BY DEF IsWhole
<1>5. T[1][1] =
       <<w1*w1 + 2*w2*w2 + x1*x1 + 2*x2*x2 - y1*y1 - 2*y2*y2 - z1*z1 - 2*z2*z2,
         2*w1*w2 + 2*x1*x2 - 2*y1*y2 - 2*z1*z2>>
  BY <1>1, <1>2, <1>3, <1>4, TurningParts DEF Times, Plus, Minus
<1>6. T[2][2] =
       <<w1*w1 + 2*w2*w2 - x1*x1 - 2*x2*x2 + y1*y1 + 2*y2*y2 - z1*z1 - 2*z2*z2,
         2*w1*w2 - 2*x1*x2 + 2*y1*y2 - 2*z1*z2>>
  BY <1>1, <1>2, <1>3, <1>4, TurningParts DEF Times, Plus, Minus
<1>7. T[3][3] =
       <<w1*w1 + 2*w2*w2 - x1*x1 - 2*x2*x2 - y1*y1 - 2*y2*y2 + z1*z1 + 2*z2*z2,
         2*w1*w2 - 2*x1*x2 - 2*y1*y2 + 2*z1*z2>>
  BY <1>1, <1>2, <1>3, <1>4, TurningParts DEF Times, Plus, Minus
<1>8. T[1][2] =
       <<2*(x1*y1 + 2*x2*y2 - w1*z1 - 2*w2*z2),
         2*(x1*y2 + x2*y1 - w1*z2 - w2*z1)>>
  <2>1. T[1][2] = Plus(Minus(Times(q.x, q.y), Times(q.w, q.z)),
                       Minus(Times(q.x, q.y), Times(q.w, q.z)))
    BY TurningParts
  <2>2. Times(q.x, q.y) = <<x1*y1 + 2*x2*y2, x1*y2 + x2*y1>>
    BY <1>2, <1>3 DEF Times
  <2>3. Times(q.w, q.z) = <<w1*z1 + 2*w2*z2, w1*z2 + w2*z1>>
    BY <1>1, <1>4 DEF Times
  <2>4. QED BY <2>1, <2>2, <2>3 DEF Plus, Minus
<1>9. T[2][1] =
       <<2*(x1*y1 + 2*x2*y2 + w1*z1 + 2*w2*z2),
         2*(x1*y2 + x2*y1 + w1*z2 + w2*z1)>>
  <2>1. T[2][1] = Plus(Plus(Times(q.x, q.y), Times(q.w, q.z)),
                       Plus(Times(q.x, q.y), Times(q.w, q.z)))
    BY TurningParts
  <2>2. Times(q.x, q.y) = <<x1*y1 + 2*x2*y2, x1*y2 + x2*y1>>
    BY <1>2, <1>3 DEF Times
  <2>3. Times(q.w, q.z) = <<w1*z1 + 2*w2*z2, w1*z2 + w2*z1>>
    BY <1>1, <1>4 DEF Times
  <2>4. QED BY <2>1, <2>2, <2>3 DEF Plus, Minus
<1>10. T[1][3] =
       <<2*(x1*z1 + 2*x2*z2 + w1*y1 + 2*w2*y2),
         2*(x1*z2 + x2*z1 + w1*y2 + w2*y1)>>
  <2>1. T[1][3] = Plus(Plus(Times(q.x, q.z), Times(q.w, q.y)),
                       Plus(Times(q.x, q.z), Times(q.w, q.y)))
    BY TurningParts
  <2>2. Times(q.x, q.z) = <<x1*z1 + 2*x2*z2, x1*z2 + x2*z1>>
    BY <1>2, <1>4 DEF Times
  <2>3. Times(q.w, q.y) = <<w1*y1 + 2*w2*y2, w1*y2 + w2*y1>>
    BY <1>1, <1>3 DEF Times
  <2>4. QED BY <2>1, <2>2, <2>3 DEF Plus, Minus
<1>11. T[3][1] =
       <<2*(x1*z1 + 2*x2*z2 - w1*y1 - 2*w2*y2),
         2*(x1*z2 + x2*z1 - w1*y2 - w2*y1)>>
  <2>1. T[3][1] = Plus(Minus(Times(q.x, q.z), Times(q.w, q.y)),
                       Minus(Times(q.x, q.z), Times(q.w, q.y)))
    BY TurningParts
  <2>2. Times(q.x, q.z) = <<x1*z1 + 2*x2*z2, x1*z2 + x2*z1>>
    BY <1>2, <1>4 DEF Times
  <2>3. Times(q.w, q.y) = <<w1*y1 + 2*w2*y2, w1*y2 + w2*y1>>
    BY <1>1, <1>3 DEF Times
  <2>4. QED BY <2>1, <2>2, <2>3 DEF Plus, Minus
<1>12. T[2][3] =
       <<2*(y1*z1 + 2*y2*z2 - w1*x1 - 2*w2*x2),
         2*(y1*z2 + y2*z1 - w1*x2 - w2*x1)>>
  <2>1. T[2][3] = Plus(Minus(Times(q.y, q.z), Times(q.w, q.x)),
                       Minus(Times(q.y, q.z), Times(q.w, q.x)))
    BY TurningParts
  <2>2. Times(q.y, q.z) = <<y1*z1 + 2*y2*z2, y1*z2 + y2*z1>>
    BY <1>3, <1>4 DEF Times
  <2>3. Times(q.w, q.x) = <<w1*x1 + 2*w2*x2, w1*x2 + w2*x1>>
    BY <1>1, <1>2 DEF Times
  <2>4. QED BY <2>1, <2>2, <2>3 DEF Plus, Minus
<1>13. T[3][2] =
       <<2*(y1*z1 + 2*y2*z2 + w1*x1 + 2*w2*x2),
         2*(y1*z2 + y2*z1 + w1*x2 + w2*x1)>>
  <2>1. T[3][2] = Plus(Plus(Times(q.y, q.z), Times(q.w, q.x)),
                       Plus(Times(q.y, q.z), Times(q.w, q.x)))
    BY TurningParts
  <2>2. Times(q.y, q.z) = <<y1*z1 + 2*y2*z2, y1*z2 + y2*z1>>
    BY <1>3, <1>4 DEF Times
  <2>3. Times(q.w, q.x) = <<w1*x1 + 2*w2*x2, w1*x2 + w2*x1>>
    BY <1>1, <1>2 DEF Times
  <2>4. QED BY <2>1, <2>2, <2>3 DEF Plus, Minus
<1> HIDE DEF T
<1>14. WrittenOut(T, q.w, q.x, q.y, q.z)
  BY <1>1, <1>2, <1>3, <1>4, <1>5, <1>6, <1>7, <1>8, <1>9, <1>10, <1>11, <1>12, <1>13
    DEF WrittenOut
<1>15. QED BY <1>14 DEF T

\* Hamilton's product, part by part.
LEMMA ProductParts ==
  ASSUME NEW p, NEW q
  PROVE  LET r == Product(p, q)
             Neg(e) == Minus(Zero, e)
         IN
         /\ r.w = Plus(Plus(Times(p.w, q.w), Neg(Times(p.x, q.x))),
                       Plus(Neg(Times(p.y, q.y)), Neg(Times(p.z, q.z))))
         /\ r.x = Plus(Plus(Times(p.w, q.x), Times(p.x, q.w)),
                       Plus(Times(p.y, q.z), Neg(Times(p.z, q.y))))
         /\ r.y = Plus(Plus(Times(p.w, q.y), Neg(Times(p.x, q.z))),
                       Plus(Times(p.y, q.w), Times(p.z, q.x)))
         /\ r.z = Plus(Plus(Times(p.w, q.z), Times(p.x, q.y)),
                       Plus(Neg(Times(p.y, q.x)), Times(p.z, q.w)))
BY DEF Product

\* A quarter turn, its sine and cosine, and twice those of its half.
LEMMA QuarterTurns ==
  /\ Quarters = {-1, 0, 1, 2}
  /\ Cos(0) = 1 /\ Sin(0) = 0 /\ HalfCos(0) = <<2, 0>> /\ HalfSin(0) = <<0, 0>>
  /\ Cos(1) = 0 /\ Sin(1) = 1 /\ HalfCos(1) = <<0, 1>> /\ HalfSin(1) = <<0, 1>>
  /\ Cos(2) = -1 /\ Sin(2) = 0 /\ HalfCos(2) = <<0, 0>> /\ HalfSin(2) = <<2, 0>>
  /\ Cos(-1) = 0 /\ Sin(-1) = -1 /\ HalfCos(-1) = <<0, 1>> /\ HalfSin(-1) = <<0, -1>>
<1>1. Quarters = {-1, 0, 1, 2}
  BY DEF Quarters
<1>2. /\ Cos(0) = 1 /\ Sin(0) = 0 /\ Cos(1) = 0 /\ Sin(1) = 1
      /\ Cos(2) = -1 /\ Sin(2) = 0 /\ Cos(-1) = 0 /\ Sin(-1) = -1
  BY DEF Cos, Sin
<1>3. /\ HalfCos(0) = <<2, 0>> /\ HalfSin(0) = <<0, 0>>
      /\ HalfCos(1) = <<0, 1>> /\ HalfSin(1) = <<0, 1>>
      /\ HalfCos(2) = <<0, 0>> /\ HalfSin(2) = <<2, 0>>
  BY DEF HalfCos, HalfSin, Zero
<1>4. HalfCos(-1) = <<0, 1>> /\ HalfSin(-1) = <<0, -1>>
  BY DEF HalfCos, HalfSin, Zero
<1>5. QED BY <1>1, <1>2, <1>3, <1>4

\* The rotation of q is n times that of the matrix M.
Turns(q, n, M) ==
  /\ IsWhole(q)
  /\ \A i, j \in Axes : M[i][j] \in Int /\ Turning(q)[i][j] = <<n * M[i][j], 0>>

LEMMA Scaled ==
  ASSUME NEW n \in Int, NEW m \in Int, NEW t, t = <<n * m, 0>>
  PROVE  /\ <<4 * t[1], 4 * t[2]>> = <<(4 * n) * m, 0>>
         /\ <<(-4) * t[1], (-4) * t[2]>> = <<(4 * n) * (-m), 0>>
<1>1. (4 * n) * m = 4 * (n * m) /\ (4 * n) * (-m) = (-4) * (n * m)
  OBVIOUS
<1>2. QED BY <1>1

LEMMA MatrixEntries ==
  ASSUME NEW A, NEW B, NEW i \in Axes, NEW j \in Axes
  PROVE  multiplyMatrices(A, B)[i][j] =
           A[i][1] * B[1][j] + A[i][2] * B[2][j] + A[i][3] * B[3][j]
BY DEF multiplyMatrices

\* One more factor about X is one more rotation about X.
LEMMA TurnsAboutX ==
  ASSUME NEW q, NEW n \in Int, NEW M, Turns(q, n, M), NEW p \in Quarters
  PROVE  Turns(Product(q, AboutX(p)), 4 * n, multiplyMatrices(M, rotateX(p)))
<1> DEFINE r == Product(q, AboutX(p))
           T == Turning(q)
           U == Turning(r)
           N == multiplyMatrices(M, rotateX(p))
<1>1. PICK w1 \in Int, w2 \in Int : q.w = <<w1, w2>>
  BY DEF Turns, IsWhole
<1>2. PICK x1 \in Int, x2 \in Int : q.x = <<x1, x2>>
  BY DEF Turns, IsWhole
<1>3. PICK y1 \in Int, y2 \in Int : q.y = <<y1, y2>>
  BY DEF Turns, IsWhole
<1>4. PICK z1 \in Int, z2 \in Int : q.z = <<z1, z2>>
  BY DEF Turns, IsWhole
<1>5. WrittenOut(T, <<w1, w2>>, <<x1, x2>>, <<y1, y2>>, <<z1, z2>>)
  BY <1>1, <1>2, <1>3, <1>4, TurningIs DEF Turns
<1>6. \A i, j \in Axes : M[i][j] \in Int /\ T[i][j] = <<n * M[i][j], 0>>
  BY DEF Turns
<1>7. CASE p = 0
  <2>1. /\ AboutX(p).w = <<2, 0>> /\ AboutX(p).x = <<0, 0>>
        /\ AboutX(p).y = <<0, 0>> /\ AboutX(p).z = <<0, 0>>
    BY <1>7, QuarterTurns DEF AboutX, Zero
  <2>2. /\ r.w = <<2 * w1, 2 * w2>> /\ r.x = <<2 * x1, 2 * x2>>
        /\ r.y = <<2 * y1, 2 * y2>> /\ r.z = <<2 * z1, 2 * z2>>
    BY <1>1, <1>2, <1>3, <1>4, <2>1, ProductParts, SMTT(30) DEF Times, Plus, Minus, Zero
  <2> HIDE DEF r
  <2>3. IsWhole(r)
    BY <2>2 DEF IsWhole
  <2>4. WrittenOut(U, <<2 * w1, 2 * w2>>, <<2 * x1, 2 * x2>>,
                    <<2 * y1, 2 * y2>>, <<2 * z1, 2 * z2>>)
    BY <2>2, <2>3, TurningIs
  <2> HIDE DEF U, T
  <2>5. \A i \in Axes :
          /\ U[i][1] = <<4 * T[i][1][1], 4 * T[i][1][2]>>
          /\ U[i][2] = <<4 * T[i][2][1], 4 * T[i][2][2]>>
          /\ U[i][3] = <<4 * T[i][3][1], 4 * T[i][3][2]>>
    <3>1. /\ U[1][1] = <<4 * T[1][1][1], 4 * T[1][1][2]>>
          /\ U[1][2] = <<4 * T[1][2][1], 4 * T[1][2][2]>>
          /\ U[1][3] = <<4 * T[1][3][1], 4 * T[1][3][2]>>
      BY <1>1, <1>2, <1>3, <1>4, <1>5, <2>4, SMTT(30) DEF WrittenOut
    <3>2. /\ U[2][1] = <<4 * T[2][1][1], 4 * T[2][1][2]>>
          /\ U[2][2] = <<4 * T[2][2][1], 4 * T[2][2][2]>>
          /\ U[2][3] = <<4 * T[2][3][1], 4 * T[2][3][2]>>
      BY <1>1, <1>2, <1>3, <1>4, <1>5, <2>4, SMTT(30) DEF WrittenOut
    <3>3. /\ U[3][1] = <<4 * T[3][1][1], 4 * T[3][1][2]>>
          /\ U[3][2] = <<4 * T[3][2][1], 4 * T[3][2][2]>>
          /\ U[3][3] = <<4 * T[3][3][1], 4 * T[3][3][2]>>
      BY <1>1, <1>2, <1>3, <1>4, <1>5, <2>4, SMTT(30) DEF WrittenOut
    <3>4. QED BY <3>1, <3>2, <3>3 DEF Axes
  <2>6. rotateX(p) = << <<1, 0, 0>>, <<0, 1, 0>>, <<0, 0, 1>> >>
    BY <1>7, QuarterTurns DEF rotateX
  <2>7. \A i \in Axes : N[i][1] = M[i][1] /\ N[i][2] = M[i][2] /\ N[i][3] = M[i][3]
    BY <1>6, <2>6, MatrixEntries DEF Axes
  <2> HIDE DEF N
  <2>8. \A i, j \in Axes : N[i][j] \in Int /\ U[i][j] = <<(4 * n) * N[i][j], 0>>
    <3>1. \A i \in Axes : N[i][1] \in Int /\ U[i][1] = <<(4 * n) * N[i][1], 0>>
      BY <1>6, <2>5, <2>7, Scaled DEF Axes
    <3>2. \A i \in Axes : N[i][2] \in Int /\ U[i][2] = <<(4 * n) * N[i][2], 0>>
      BY <1>6, <2>5, <2>7, Scaled DEF Axes
    <3>3. \A i \in Axes : N[i][3] \in Int /\ U[i][3] = <<(4 * n) * N[i][3], 0>>
      BY <1>6, <2>5, <2>7, Scaled DEF Axes
    <3>4. QED BY <3>1, <3>2, <3>3 DEF Axes
  <2>9. QED BY <2>3, <2>8 DEF Turns, U, N, r
<1>8. CASE p = 1
  <2>1. /\ AboutX(p).w = <<0, 1>> /\ AboutX(p).x = <<0, 1>>
        /\ AboutX(p).y = <<0, 0>> /\ AboutX(p).z = <<0, 0>>
    BY <1>8, QuarterTurns DEF AboutX, Zero
  <2>2. /\ r.w = <<2 * (w2 - x2), w1 - x1>> /\ r.x = <<2 * (w2 + x2), w1 + x1>>
        /\ r.y = <<2 * (y2 + z2), y1 + z1>> /\ r.z = <<2 * (z2 - y2), z1 - y1>>
    BY <1>1, <1>2, <1>3, <1>4, <2>1, ProductParts, SMTT(30) DEF Times, Plus, Minus, Zero
  <2> HIDE DEF r
  <2>3. IsWhole(r)
    BY <2>2 DEF IsWhole
  <2>4. WrittenOut(U, <<2 * (w2 - x2), w1 - x1>>, <<2 * (w2 + x2), w1 + x1>>,
                    <<2 * (y2 + z2), y1 + z1>>, <<2 * (z2 - y2), z1 - y1>>)
    BY <2>2, <2>3, TurningIs
  <2> HIDE DEF U, T
  <2>5. \A i \in Axes :
          /\ U[i][1] = <<4 * T[i][1][1], 4 * T[i][1][2]>>
          /\ U[i][2] = <<4 * T[i][3][1], 4 * T[i][3][2]>>
          /\ U[i][3] = <<(-4) * T[i][2][1], (-4) * T[i][2][2]>>
    <3>1. /\ U[1][1] = <<4 * T[1][1][1], 4 * T[1][1][2]>>
          /\ U[1][2] = <<4 * T[1][3][1], 4 * T[1][3][2]>>
          /\ U[1][3] = <<(-4) * T[1][2][1], (-4) * T[1][2][2]>>
      BY <1>1, <1>2, <1>3, <1>4, <1>5, <2>4, SMTT(30) DEF WrittenOut
    <3>2. /\ U[2][1] = <<4 * T[2][1][1], 4 * T[2][1][2]>>
          /\ U[2][2] = <<4 * T[2][3][1], 4 * T[2][3][2]>>
          /\ U[2][3] = <<(-4) * T[2][2][1], (-4) * T[2][2][2]>>
      BY <1>1, <1>2, <1>3, <1>4, <1>5, <2>4, SMTT(30) DEF WrittenOut
    <3>3. /\ U[3][1] = <<4 * T[3][1][1], 4 * T[3][1][2]>>
          /\ U[3][2] = <<4 * T[3][3][1], 4 * T[3][3][2]>>
          /\ U[3][3] = <<(-4) * T[3][2][1], (-4) * T[3][2][2]>>
      BY <1>1, <1>2, <1>3, <1>4, <1>5, <2>4, SMTT(30) DEF WrittenOut
    <3>4. QED BY <3>1, <3>2, <3>3 DEF Axes
  <2>6. rotateX(p) = << <<1, 0, 0>>, <<0, 0, -1>>, <<0, 1, 0>> >>
    BY <1>8, QuarterTurns DEF rotateX
  <2>7. \A i \in Axes : N[i][1] = M[i][1] /\ N[i][2] = M[i][3] /\ N[i][3] = -M[i][2]
    BY <1>6, <2>6, MatrixEntries DEF Axes
  <2> HIDE DEF N
  <2>8. \A i, j \in Axes : N[i][j] \in Int /\ U[i][j] = <<(4 * n) * N[i][j], 0>>
    <3>1. \A i \in Axes : N[i][1] \in Int /\ U[i][1] = <<(4 * n) * N[i][1], 0>>
      BY <1>6, <2>5, <2>7, Scaled DEF Axes
    <3>2. \A i \in Axes : N[i][2] \in Int /\ U[i][2] = <<(4 * n) * N[i][2], 0>>
      BY <1>6, <2>5, <2>7, Scaled DEF Axes
    <3>3. \A i \in Axes : N[i][3] \in Int /\ U[i][3] = <<(4 * n) * N[i][3], 0>>
      BY <1>6, <2>5, <2>7, Scaled DEF Axes
    <3>4. QED BY <3>1, <3>2, <3>3 DEF Axes
  <2>9. QED BY <2>3, <2>8 DEF Turns, U, N, r
<1>9. CASE p = 2
  <2>1. /\ AboutX(p).w = <<0, 0>> /\ AboutX(p).x = <<2, 0>>
        /\ AboutX(p).y = <<0, 0>> /\ AboutX(p).z = <<0, 0>>
    BY <1>9, QuarterTurns DEF AboutX, Zero
  <2>2. /\ r.w = <<-2 * x1, -2 * x2>> /\ r.x = <<2 * w1, 2 * w2>>
        /\ r.y = <<2 * z1, 2 * z2>> /\ r.z = <<-2 * y1, -2 * y2>>
    BY <1>1, <1>2, <1>3, <1>4, <2>1, ProductParts, SMTT(30) DEF Times, Plus, Minus, Zero
  <2> HIDE DEF r
  <2>3. IsWhole(r)
    BY <2>2 DEF IsWhole
  <2>4. WrittenOut(U, <<-2 * x1, -2 * x2>>, <<2 * w1, 2 * w2>>,
                    <<2 * z1, 2 * z2>>, <<-2 * y1, -2 * y2>>)
    BY <2>2, <2>3, TurningIs
  <2> HIDE DEF U, T
  <2>5. \A i \in Axes :
          /\ U[i][1] = <<4 * T[i][1][1], 4 * T[i][1][2]>>
          /\ U[i][2] = <<(-4) * T[i][2][1], (-4) * T[i][2][2]>>
          /\ U[i][3] = <<(-4) * T[i][3][1], (-4) * T[i][3][2]>>
    <3>1. /\ U[1][1] = <<4 * T[1][1][1], 4 * T[1][1][2]>>
          /\ U[1][2] = <<(-4) * T[1][2][1], (-4) * T[1][2][2]>>
          /\ U[1][3] = <<(-4) * T[1][3][1], (-4) * T[1][3][2]>>
      BY <1>1, <1>2, <1>3, <1>4, <1>5, <2>4, SMTT(30) DEF WrittenOut
    <3>2. /\ U[2][1] = <<4 * T[2][1][1], 4 * T[2][1][2]>>
          /\ U[2][2] = <<(-4) * T[2][2][1], (-4) * T[2][2][2]>>
          /\ U[2][3] = <<(-4) * T[2][3][1], (-4) * T[2][3][2]>>
      BY <1>1, <1>2, <1>3, <1>4, <1>5, <2>4, SMTT(30) DEF WrittenOut
    <3>3. /\ U[3][1] = <<4 * T[3][1][1], 4 * T[3][1][2]>>
          /\ U[3][2] = <<(-4) * T[3][2][1], (-4) * T[3][2][2]>>
          /\ U[3][3] = <<(-4) * T[3][3][1], (-4) * T[3][3][2]>>
      BY <1>1, <1>2, <1>3, <1>4, <1>5, <2>4, SMTT(30) DEF WrittenOut
    <3>4. QED BY <3>1, <3>2, <3>3 DEF Axes
  <2>6. rotateX(p) = << <<1, 0, 0>>, <<0, -1, 0>>, <<0, 0, -1>> >>
    BY <1>9, QuarterTurns DEF rotateX
  <2>7. \A i \in Axes : N[i][1] = M[i][1] /\ N[i][2] = -M[i][2] /\ N[i][3] = -M[i][3]
    BY <1>6, <2>6, MatrixEntries DEF Axes
  <2> HIDE DEF N
  <2>8. \A i, j \in Axes : N[i][j] \in Int /\ U[i][j] = <<(4 * n) * N[i][j], 0>>
    <3>1. \A i \in Axes : N[i][1] \in Int /\ U[i][1] = <<(4 * n) * N[i][1], 0>>
      BY <1>6, <2>5, <2>7, Scaled DEF Axes
    <3>2. \A i \in Axes : N[i][2] \in Int /\ U[i][2] = <<(4 * n) * N[i][2], 0>>
      BY <1>6, <2>5, <2>7, Scaled DEF Axes
    <3>3. \A i \in Axes : N[i][3] \in Int /\ U[i][3] = <<(4 * n) * N[i][3], 0>>
      BY <1>6, <2>5, <2>7, Scaled DEF Axes
    <3>4. QED BY <3>1, <3>2, <3>3 DEF Axes
  <2>9. QED BY <2>3, <2>8 DEF Turns, U, N, r
<1>10. CASE p = -1
  <2>1. /\ AboutX(p).w = <<0, 1>> /\ AboutX(p).x = <<0, -1>>
        /\ AboutX(p).y = <<0, 0>> /\ AboutX(p).z = <<0, 0>>
    BY <1>10, QuarterTurns DEF AboutX, Zero
  <2>2. /\ r.w = <<2 * (w2 + x2), w1 + x1>> /\ r.x = <<2 * (x2 - w2), x1 - w1>>
        /\ r.y = <<2 * (y2 - z2), y1 - z1>> /\ r.z = <<2 * (z2 + y2), z1 + y1>>
    BY <1>1, <1>2, <1>3, <1>4, <2>1, ProductParts, SMTT(30) DEF Times, Plus, Minus, Zero
  <2> HIDE DEF r
  <2>3. IsWhole(r)
    BY <2>2 DEF IsWhole
  <2>4. WrittenOut(U, <<2 * (w2 + x2), w1 + x1>>, <<2 * (x2 - w2), x1 - w1>>,
                    <<2 * (y2 - z2), y1 - z1>>, <<2 * (z2 + y2), z1 + y1>>)
    BY <2>2, <2>3, TurningIs
  <2> HIDE DEF U, T
  <2>5. \A i \in Axes :
          /\ U[i][1] = <<4 * T[i][1][1], 4 * T[i][1][2]>>
          /\ U[i][2] = <<(-4) * T[i][3][1], (-4) * T[i][3][2]>>
          /\ U[i][3] = <<4 * T[i][2][1], 4 * T[i][2][2]>>
    <3>1. /\ U[1][1] = <<4 * T[1][1][1], 4 * T[1][1][2]>>
          /\ U[1][2] = <<(-4) * T[1][3][1], (-4) * T[1][3][2]>>
          /\ U[1][3] = <<4 * T[1][2][1], 4 * T[1][2][2]>>
      BY <1>1, <1>2, <1>3, <1>4, <1>5, <2>4, SMTT(30) DEF WrittenOut
    <3>2. /\ U[2][1] = <<4 * T[2][1][1], 4 * T[2][1][2]>>
          /\ U[2][2] = <<(-4) * T[2][3][1], (-4) * T[2][3][2]>>
          /\ U[2][3] = <<4 * T[2][2][1], 4 * T[2][2][2]>>
      BY <1>1, <1>2, <1>3, <1>4, <1>5, <2>4, SMTT(30) DEF WrittenOut
    <3>3. /\ U[3][1] = <<4 * T[3][1][1], 4 * T[3][1][2]>>
          /\ U[3][2] = <<(-4) * T[3][3][1], (-4) * T[3][3][2]>>
          /\ U[3][3] = <<4 * T[3][2][1], 4 * T[3][2][2]>>
      BY <1>1, <1>2, <1>3, <1>4, <1>5, <2>4, SMTT(30) DEF WrittenOut
    <3>4. QED BY <3>1, <3>2, <3>3 DEF Axes
  <2>6. rotateX(p) = << <<1, 0, 0>>, <<0, 0, 1>>, <<0, -1, 0>> >>
    BY <1>10, QuarterTurns DEF rotateX
  <2>7. \A i \in Axes : N[i][1] = M[i][1] /\ N[i][2] = -M[i][3] /\ N[i][3] = M[i][2]
    BY <1>6, <2>6, MatrixEntries DEF Axes
  <2> HIDE DEF N
  <2>8. \A i, j \in Axes : N[i][j] \in Int /\ U[i][j] = <<(4 * n) * N[i][j], 0>>
    <3>1. \A i \in Axes : N[i][1] \in Int /\ U[i][1] = <<(4 * n) * N[i][1], 0>>
      BY <1>6, <2>5, <2>7, Scaled DEF Axes
    <3>2. \A i \in Axes : N[i][2] \in Int /\ U[i][2] = <<(4 * n) * N[i][2], 0>>
      BY <1>6, <2>5, <2>7, Scaled DEF Axes
    <3>3. \A i \in Axes : N[i][3] \in Int /\ U[i][3] = <<(4 * n) * N[i][3], 0>>
      BY <1>6, <2>5, <2>7, Scaled DEF Axes
    <3>4. QED BY <3>1, <3>2, <3>3 DEF Axes
  <2>9. QED BY <2>3, <2>8 DEF Turns, U, N, r
<1>11. QED BY <1>7, <1>8, <1>9, <1>10, QuarterTurns

\* One more factor about Y is one more rotation about Y.
LEMMA TurnsAboutY ==
  ASSUME NEW q, NEW n \in Int, NEW M, Turns(q, n, M), NEW p \in Quarters
  PROVE  Turns(Product(q, AboutY(p)), 4 * n, multiplyMatrices(M, rotateY(p)))
<1> DEFINE r == Product(q, AboutY(p))
           T == Turning(q)
           U == Turning(r)
           N == multiplyMatrices(M, rotateY(p))
<1>1. PICK w1 \in Int, w2 \in Int : q.w = <<w1, w2>>
  BY DEF Turns, IsWhole
<1>2. PICK x1 \in Int, x2 \in Int : q.x = <<x1, x2>>
  BY DEF Turns, IsWhole
<1>3. PICK y1 \in Int, y2 \in Int : q.y = <<y1, y2>>
  BY DEF Turns, IsWhole
<1>4. PICK z1 \in Int, z2 \in Int : q.z = <<z1, z2>>
  BY DEF Turns, IsWhole
<1>5. WrittenOut(T, <<w1, w2>>, <<x1, x2>>, <<y1, y2>>, <<z1, z2>>)
  BY <1>1, <1>2, <1>3, <1>4, TurningIs DEF Turns
<1>6. \A i, j \in Axes : M[i][j] \in Int /\ T[i][j] = <<n * M[i][j], 0>>
  BY DEF Turns
<1>7. CASE p = 0
  <2>1. /\ AboutY(p).w = <<2, 0>> /\ AboutY(p).y = <<0, 0>>
        /\ AboutY(p).x = <<0, 0>> /\ AboutY(p).z = <<0, 0>>
    BY <1>7, QuarterTurns DEF AboutY, Zero
  <2>2. /\ r.w = <<2 * w1, 2 * w2>> /\ r.x = <<2 * x1, 2 * x2>>
        /\ r.y = <<2 * y1, 2 * y2>> /\ r.z = <<2 * z1, 2 * z2>>
    BY <1>1, <1>2, <1>3, <1>4, <2>1, ProductParts, SMTT(30) DEF Times, Plus, Minus, Zero
  <2> HIDE DEF r
  <2>3. IsWhole(r)
    BY <2>2 DEF IsWhole
  <2>4. WrittenOut(U, <<2 * w1, 2 * w2>>, <<2 * x1, 2 * x2>>,
                    <<2 * y1, 2 * y2>>, <<2 * z1, 2 * z2>>)
    BY <2>2, <2>3, TurningIs
  <2> HIDE DEF U, T
  <2>5. \A i \in Axes :
          /\ U[i][1] = <<4 * T[i][1][1], 4 * T[i][1][2]>>
          /\ U[i][2] = <<4 * T[i][2][1], 4 * T[i][2][2]>>
          /\ U[i][3] = <<4 * T[i][3][1], 4 * T[i][3][2]>>
    <3>1. /\ U[1][1] = <<4 * T[1][1][1], 4 * T[1][1][2]>>
          /\ U[1][2] = <<4 * T[1][2][1], 4 * T[1][2][2]>>
          /\ U[1][3] = <<4 * T[1][3][1], 4 * T[1][3][2]>>
      BY <1>1, <1>2, <1>3, <1>4, <1>5, <2>4, SMTT(30) DEF WrittenOut
    <3>2. /\ U[2][1] = <<4 * T[2][1][1], 4 * T[2][1][2]>>
          /\ U[2][2] = <<4 * T[2][2][1], 4 * T[2][2][2]>>
          /\ U[2][3] = <<4 * T[2][3][1], 4 * T[2][3][2]>>
      BY <1>1, <1>2, <1>3, <1>4, <1>5, <2>4, SMTT(30) DEF WrittenOut
    <3>3. /\ U[3][1] = <<4 * T[3][1][1], 4 * T[3][1][2]>>
          /\ U[3][2] = <<4 * T[3][2][1], 4 * T[3][2][2]>>
          /\ U[3][3] = <<4 * T[3][3][1], 4 * T[3][3][2]>>
      BY <1>1, <1>2, <1>3, <1>4, <1>5, <2>4, SMTT(30) DEF WrittenOut
    <3>4. QED BY <3>1, <3>2, <3>3 DEF Axes
  <2>6. rotateY(p) = << <<1, 0, 0>>, <<0, 1, 0>>, <<0, 0, 1>> >>
    BY <1>7, QuarterTurns DEF rotateY
  <2>7. \A i \in Axes : N[i][1] = M[i][1] /\ N[i][2] = M[i][2] /\ N[i][3] = M[i][3]
    BY <1>6, <2>6, MatrixEntries DEF Axes
  <2> HIDE DEF N
  <2>8. \A i, j \in Axes : N[i][j] \in Int /\ U[i][j] = <<(4 * n) * N[i][j], 0>>
    <3>1. \A i \in Axes : N[i][1] \in Int /\ U[i][1] = <<(4 * n) * N[i][1], 0>>
      BY <1>6, <2>5, <2>7, Scaled DEF Axes
    <3>2. \A i \in Axes : N[i][2] \in Int /\ U[i][2] = <<(4 * n) * N[i][2], 0>>
      BY <1>6, <2>5, <2>7, Scaled DEF Axes
    <3>3. \A i \in Axes : N[i][3] \in Int /\ U[i][3] = <<(4 * n) * N[i][3], 0>>
      BY <1>6, <2>5, <2>7, Scaled DEF Axes
    <3>4. QED BY <3>1, <3>2, <3>3 DEF Axes
  <2>9. QED BY <2>3, <2>8 DEF Turns, U, N, r
<1>8. CASE p = 1
  <2>1. /\ AboutY(p).w = <<0, 1>> /\ AboutY(p).y = <<0, 1>>
        /\ AboutY(p).x = <<0, 0>> /\ AboutY(p).z = <<0, 0>>
    BY <1>8, QuarterTurns DEF AboutY, Zero
  <2>2. /\ r.w = <<2 * (w2 - y2), w1 - y1>> /\ r.x = <<2 * (x2 - z2), x1 - z1>>
        /\ r.y = <<2 * (w2 + y2), w1 + y1>> /\ r.z = <<2 * (x2 + z2), x1 + z1>>
    <3>1. r.w = <<2 * (w2 - y2), w1 - y1>>
      BY <1>1, <1>2, <1>3, <1>4, <2>1, ProductParts DEF Times, Plus, Minus, Zero
    <3>2. r.x = <<2 * (x2 - z2), x1 - z1>>
      BY <1>1, <1>2, <1>3, <1>4, <2>1, ProductParts DEF Times, Plus, Minus, Zero
    <3>3. r.y = <<2 * (w2 + y2), w1 + y1>>
      BY <1>1, <1>2, <1>3, <1>4, <2>1, ProductParts DEF Times, Plus, Minus, Zero
    <3>4. r.z = <<2 * (x2 + z2), x1 + z1>>
      BY <1>1, <1>2, <1>3, <1>4, <2>1, ProductParts DEF Times, Plus, Minus, Zero
    <3>5. QED BY <3>1, <3>2, <3>3, <3>4
  <2> HIDE DEF r
  <2>3. IsWhole(r)
    BY <2>2 DEF IsWhole
  <2>4. WrittenOut(U, <<2 * (w2 - y2), w1 - y1>>, <<2 * (x2 - z2), x1 - z1>>,
                    <<2 * (w2 + y2), w1 + y1>>, <<2 * (x2 + z2), x1 + z1>>)
    BY <2>2, <2>3, TurningIs
  <2> HIDE DEF U, T
  <2>5. \A i \in Axes :
          /\ U[i][1] = <<(-4) * T[i][3][1], (-4) * T[i][3][2]>>
          /\ U[i][2] = <<4 * T[i][2][1], 4 * T[i][2][2]>>
          /\ U[i][3] = <<4 * T[i][1][1], 4 * T[i][1][2]>>
    <3>1. /\ U[1][1] = <<(-4) * T[1][3][1], (-4) * T[1][3][2]>>
          /\ U[1][2] = <<4 * T[1][2][1], 4 * T[1][2][2]>>
          /\ U[1][3] = <<4 * T[1][1][1], 4 * T[1][1][2]>>
      BY <1>1, <1>2, <1>3, <1>4, <1>5, <2>4, SMTT(30) DEF WrittenOut
    <3>2. /\ U[2][1] = <<(-4) * T[2][3][1], (-4) * T[2][3][2]>>
          /\ U[2][2] = <<4 * T[2][2][1], 4 * T[2][2][2]>>
          /\ U[2][3] = <<4 * T[2][1][1], 4 * T[2][1][2]>>
      BY <1>1, <1>2, <1>3, <1>4, <1>5, <2>4, SMTT(30) DEF WrittenOut
    <3>3. /\ U[3][1] = <<(-4) * T[3][3][1], (-4) * T[3][3][2]>>
          /\ U[3][2] = <<4 * T[3][2][1], 4 * T[3][2][2]>>
          /\ U[3][3] = <<4 * T[3][1][1], 4 * T[3][1][2]>>
      BY <1>1, <1>2, <1>3, <1>4, <1>5, <2>4, SMTT(30) DEF WrittenOut
    <3>4. QED BY <3>1, <3>2, <3>3 DEF Axes
  <2>6. rotateY(p) = << <<0, 0, 1>>, <<0, 1, 0>>, <<-1, 0, 0>> >>
    BY <1>8, QuarterTurns DEF rotateY
  <2>7. \A i \in Axes : N[i][1] = -M[i][3] /\ N[i][2] = M[i][2] /\ N[i][3] = M[i][1]
    BY <1>6, <2>6, MatrixEntries DEF Axes
  <2> HIDE DEF N
  <2>8. \A i, j \in Axes : N[i][j] \in Int /\ U[i][j] = <<(4 * n) * N[i][j], 0>>
    <3>1. \A i \in Axes : N[i][1] \in Int /\ U[i][1] = <<(4 * n) * N[i][1], 0>>
      BY <1>6, <2>5, <2>7, Scaled DEF Axes
    <3>2. \A i \in Axes : N[i][2] \in Int /\ U[i][2] = <<(4 * n) * N[i][2], 0>>
      BY <1>6, <2>5, <2>7, Scaled DEF Axes
    <3>3. \A i \in Axes : N[i][3] \in Int /\ U[i][3] = <<(4 * n) * N[i][3], 0>>
      BY <1>6, <2>5, <2>7, Scaled DEF Axes
    <3>4. QED BY <3>1, <3>2, <3>3 DEF Axes
  <2>9. QED BY <2>3, <2>8 DEF Turns, U, N, r
<1>9. CASE p = 2
  <2>1. /\ AboutY(p).w = <<0, 0>> /\ AboutY(p).y = <<2, 0>>
        /\ AboutY(p).x = <<0, 0>> /\ AboutY(p).z = <<0, 0>>
    BY <1>9, QuarterTurns DEF AboutY, Zero
  <2>2. /\ r.w = <<-2 * y1, -2 * y2>> /\ r.x = <<-2 * z1, -2 * z2>>
        /\ r.y = <<2 * w1, 2 * w2>> /\ r.z = <<2 * x1, 2 * x2>>
    BY <1>1, <1>2, <1>3, <1>4, <2>1, ProductParts, SMTT(30) DEF Times, Plus, Minus, Zero
  <2> HIDE DEF r
  <2>3. IsWhole(r)
    BY <2>2 DEF IsWhole
  <2>4. WrittenOut(U, <<-2 * y1, -2 * y2>>, <<-2 * z1, -2 * z2>>,
                    <<2 * w1, 2 * w2>>, <<2 * x1, 2 * x2>>)
    BY <2>2, <2>3, TurningIs
  <2> HIDE DEF U, T
  <2>5. \A i \in Axes :
          /\ U[i][1] = <<(-4) * T[i][1][1], (-4) * T[i][1][2]>>
          /\ U[i][2] = <<4 * T[i][2][1], 4 * T[i][2][2]>>
          /\ U[i][3] = <<(-4) * T[i][3][1], (-4) * T[i][3][2]>>
    <3>1. /\ U[1][1] = <<(-4) * T[1][1][1], (-4) * T[1][1][2]>>
          /\ U[1][2] = <<4 * T[1][2][1], 4 * T[1][2][2]>>
          /\ U[1][3] = <<(-4) * T[1][3][1], (-4) * T[1][3][2]>>
      BY <1>1, <1>2, <1>3, <1>4, <1>5, <2>4, SMTT(30) DEF WrittenOut
    <3>2. /\ U[2][1] = <<(-4) * T[2][1][1], (-4) * T[2][1][2]>>
          /\ U[2][2] = <<4 * T[2][2][1], 4 * T[2][2][2]>>
          /\ U[2][3] = <<(-4) * T[2][3][1], (-4) * T[2][3][2]>>
      BY <1>1, <1>2, <1>3, <1>4, <1>5, <2>4, SMTT(30) DEF WrittenOut
    <3>3. /\ U[3][1] = <<(-4) * T[3][1][1], (-4) * T[3][1][2]>>
          /\ U[3][2] = <<4 * T[3][2][1], 4 * T[3][2][2]>>
          /\ U[3][3] = <<(-4) * T[3][3][1], (-4) * T[3][3][2]>>
      BY <1>1, <1>2, <1>3, <1>4, <1>5, <2>4, SMTT(30) DEF WrittenOut
    <3>4. QED BY <3>1, <3>2, <3>3 DEF Axes
  <2>6. rotateY(p) = << <<-1, 0, 0>>, <<0, 1, 0>>, <<0, 0, -1>> >>
    BY <1>9, QuarterTurns DEF rotateY
  <2>7. \A i \in Axes : N[i][1] = -M[i][1] /\ N[i][2] = M[i][2] /\ N[i][3] = -M[i][3]
    BY <1>6, <2>6, MatrixEntries DEF Axes
  <2> HIDE DEF N
  <2>8. \A i, j \in Axes : N[i][j] \in Int /\ U[i][j] = <<(4 * n) * N[i][j], 0>>
    <3>1. \A i \in Axes : N[i][1] \in Int /\ U[i][1] = <<(4 * n) * N[i][1], 0>>
      BY <1>6, <2>5, <2>7, Scaled DEF Axes
    <3>2. \A i \in Axes : N[i][2] \in Int /\ U[i][2] = <<(4 * n) * N[i][2], 0>>
      BY <1>6, <2>5, <2>7, Scaled DEF Axes
    <3>3. \A i \in Axes : N[i][3] \in Int /\ U[i][3] = <<(4 * n) * N[i][3], 0>>
      BY <1>6, <2>5, <2>7, Scaled DEF Axes
    <3>4. QED BY <3>1, <3>2, <3>3 DEF Axes
  <2>9. QED BY <2>3, <2>8 DEF Turns, U, N, r
<1>10. CASE p = -1
  <2>1. /\ AboutY(p).w = <<0, 1>> /\ AboutY(p).y = <<0, -1>>
        /\ AboutY(p).x = <<0, 0>> /\ AboutY(p).z = <<0, 0>>
    BY <1>10, QuarterTurns DEF AboutY, Zero
  <2>2. /\ r.w = <<2 * (w2 + y2), w1 + y1>> /\ r.x = <<2 * (x2 + z2), x1 + z1>>
        /\ r.y = <<2 * (y2 - w2), y1 - w1>> /\ r.z = <<2 * (z2 - x2), z1 - x1>>
    BY <1>1, <1>2, <1>3, <1>4, <2>1, ProductParts, SMTT(30) DEF Times, Plus, Minus, Zero
  <2> HIDE DEF r
  <2>3. IsWhole(r)
    BY <2>2 DEF IsWhole
  <2>4. WrittenOut(U, <<2 * (w2 + y2), w1 + y1>>, <<2 * (x2 + z2), x1 + z1>>,
                    <<2 * (y2 - w2), y1 - w1>>, <<2 * (z2 - x2), z1 - x1>>)
    BY <2>2, <2>3, TurningIs
  <2> HIDE DEF U, T
  <2>5. \A i \in Axes :
          /\ U[i][1] = <<4 * T[i][3][1], 4 * T[i][3][2]>>
          /\ U[i][2] = <<4 * T[i][2][1], 4 * T[i][2][2]>>
          /\ U[i][3] = <<(-4) * T[i][1][1], (-4) * T[i][1][2]>>
    <3>1. /\ U[1][1] = <<4 * T[1][3][1], 4 * T[1][3][2]>>
          /\ U[1][2] = <<4 * T[1][2][1], 4 * T[1][2][2]>>
          /\ U[1][3] = <<(-4) * T[1][1][1], (-4) * T[1][1][2]>>
      BY <1>1, <1>2, <1>3, <1>4, <1>5, <2>4, SMTT(30) DEF WrittenOut
    <3>2. /\ U[2][1] = <<4 * T[2][3][1], 4 * T[2][3][2]>>
          /\ U[2][2] = <<4 * T[2][2][1], 4 * T[2][2][2]>>
          /\ U[2][3] = <<(-4) * T[2][1][1], (-4) * T[2][1][2]>>
      BY <1>1, <1>2, <1>3, <1>4, <1>5, <2>4, SMTT(30) DEF WrittenOut
    <3>3. /\ U[3][1] = <<4 * T[3][3][1], 4 * T[3][3][2]>>
          /\ U[3][2] = <<4 * T[3][2][1], 4 * T[3][2][2]>>
          /\ U[3][3] = <<(-4) * T[3][1][1], (-4) * T[3][1][2]>>
      BY <1>1, <1>2, <1>3, <1>4, <1>5, <2>4, SMTT(30) DEF WrittenOut
    <3>4. QED BY <3>1, <3>2, <3>3 DEF Axes
  <2>6. rotateY(p) = << <<0, 0, -1>>, <<0, 1, 0>>, <<1, 0, 0>> >>
    BY <1>10, QuarterTurns DEF rotateY
  <2>7. \A i \in Axes : N[i][1] = M[i][3] /\ N[i][2] = M[i][2] /\ N[i][3] = -M[i][1]
    BY <1>6, <2>6, MatrixEntries DEF Axes
  <2> HIDE DEF N
  <2>8. \A i, j \in Axes : N[i][j] \in Int /\ U[i][j] = <<(4 * n) * N[i][j], 0>>
    <3>1. \A i \in Axes : N[i][1] \in Int /\ U[i][1] = <<(4 * n) * N[i][1], 0>>
      BY <1>6, <2>5, <2>7, Scaled DEF Axes
    <3>2. \A i \in Axes : N[i][2] \in Int /\ U[i][2] = <<(4 * n) * N[i][2], 0>>
      BY <1>6, <2>5, <2>7, Scaled DEF Axes
    <3>3. \A i \in Axes : N[i][3] \in Int /\ U[i][3] = <<(4 * n) * N[i][3], 0>>
      BY <1>6, <2>5, <2>7, Scaled DEF Axes
    <3>4. QED BY <3>1, <3>2, <3>3 DEF Axes
  <2>9. QED BY <2>3, <2>8 DEF Turns, U, N, r
<1>11. QED BY <1>7, <1>8, <1>9, <1>10, QuarterTurns

\* The first factor, a rotation about Z.
LEMMA TurnsAboutZ ==
  ASSUME NEW p \in Quarters
  PROVE  Turns(AboutZ(p), 4, rotateZ(p))
<1> DEFINE r == AboutZ(p)
           U == Turning(r)
           N == rotateZ(p)
<1>1. /\ r.w = HalfCos(p) /\ r.x = <<0, 0>> /\ r.y = <<0, 0>> /\ r.z = HalfSin(p)
  BY DEF AboutZ, Zero
<1>2. IsWhole(r)
  BY <1>1, QuarterTurns DEF IsWhole
<1>3. WrittenOut(U, r.w, r.x, r.y, r.z)
  BY <1>2, TurningIs
<1> HIDE DEF U, r
<1>4. CASE p = 0
  <2>1. N = << <<1, 0, 0>>, <<0, 1, 0>>, <<0, 0, 1>> >>
    BY <1>4, QuarterTurns DEF rotateZ
  <2> HIDE DEF N
  <2>2. WrittenOut(U, <<2, 0>>, <<0, 0>>, <<0, 0>>, <<0, 0>>)
    BY <1>1, <1>3, <1>4, QuarterTurns
  <2>3. \A i, j \in Axes : N[i][j] \in Int /\ U[i][j] = <<4 * N[i][j], 0>>
    BY <2>1, <2>2 DEF WrittenOut, Axes
  <2>4. QED BY <1>2, <2>3 DEF Turns, U, r, N
<1>5. CASE p = 1
  <2>1. N = << <<0, -1, 0>>, <<1, 0, 0>>, <<0, 0, 1>> >>
    BY <1>5, QuarterTurns DEF rotateZ
  <2> HIDE DEF N
  <2>2. WrittenOut(U, <<0, 1>>, <<0, 0>>, <<0, 0>>, <<0, 1>>)
    BY <1>1, <1>3, <1>5, QuarterTurns
  <2>3. \A i, j \in Axes : N[i][j] \in Int /\ U[i][j] = <<4 * N[i][j], 0>>
    BY <2>1, <2>2 DEF WrittenOut, Axes
  <2>4. QED BY <1>2, <2>3 DEF Turns, U, r, N
<1>6. CASE p = 2
  <2>1. N = << <<-1, 0, 0>>, <<0, -1, 0>>, <<0, 0, 1>> >>
    BY <1>6, QuarterTurns DEF rotateZ
  <2> HIDE DEF N
  <2>2. WrittenOut(U, <<0, 0>>, <<0, 0>>, <<0, 0>>, <<2, 0>>)
    BY <1>1, <1>3, <1>6, QuarterTurns
  <2>3. \A i, j \in Axes : N[i][j] \in Int /\ U[i][j] = <<4 * N[i][j], 0>>
    BY <2>1, <2>2 DEF WrittenOut, Axes
  <2>4. QED BY <1>2, <2>3 DEF Turns, U, r, N
<1>7. CASE p = -1
  <2>1. N = << <<0, 1, 0>>, <<-1, 0, 0>>, <<0, 0, 1>> >>
    BY <1>7, QuarterTurns DEF rotateZ
  <2> HIDE DEF N
  <2>2. WrittenOut(U, <<0, 1>>, <<0, 0>>, <<0, 0>>, <<0, -1>>)
    BY <1>1, <1>3, <1>7, QuarterTurns
  <2>3. \A i, j \in Axes : N[i][j] \in Int /\ U[i][j] = <<4 * N[i][j], 0>>
    BY <2>1, <2>2 DEF WrittenOut, Axes
  <2>4. QED BY <1>2, <2>3 DEF Turns, U, r, N
<1>8. QED BY <1>4, <1>5, <1>6, <1>7, QuarterTurns

LEMMA QuaternionTurns ==
  ASSUME NEW yaw \in Quarters, NEW roll \in Quarters, NEW pitch \in Quarters
  PROVE  Turns(eulerToQuaternion(yaw, roll, pitch), 64,
               eulerToMatrixZXY(yaw, roll, pitch))
<1>1. Turns(AboutZ(yaw), 4, rotateZ(yaw))
  BY TurnsAboutZ
<1>2. Turns(Product(AboutZ(yaw), AboutX(roll)), 16,
            multiplyMatrices(rotateZ(yaw), rotateX(roll)))
  <2>1. Turns(Product(AboutZ(yaw), AboutX(roll)), 4 * 4,
              multiplyMatrices(rotateZ(yaw), rotateX(roll)))
    BY <1>1, TurnsAboutX
  <2>2. QED BY <2>1
<1>3. Turns(Product(Product(AboutZ(yaw), AboutX(roll)), AboutY(pitch)), 4 * 16,
            multiplyMatrices(multiplyMatrices(rotateZ(yaw), rotateX(roll)),
                             rotateY(pitch)))
  BY <1>2, TurnsAboutY
<1>4. QED BY <1>3 DEF eulerToQuaternion, eulerToMatrixZXY

-----------------------------------------------------------------------------
(* What is published of a pose                                             *)

\* Only the localization driver publishes poses.
LEMMA PosesPublished ==
  ASSUME [Next]_vars
  PROVE  \/ UNCHANGED published
         \/ published'.topic # "pose"
         \/ \E place \in Places : LocalizationDataCallback(place)
<1>1. CASE ChassisDataCallback
  BY <1>1 DEF ChassisDataCallback
<1>2. CASE SensorDataCallback
  BY <1>2, SensorPublishes DEF Kinds
<1>3. CASE \E message \in DOMAIN Schemas!CommandRequired : SendVehicleCommand(message)
  BY <1>3 DEF SendVehicleCommand
<1>4. CASE (\E c \in Commands : Proc(c)) \/ SimExecute \/ SimReport \/ UNCHANGED vars
  BY <1>4 DEF Proc, SimExecute, SimReport, vars
<1>5. QED BY <1>1, <1>2, <1>3, <1>4 DEF Next

LEMMA PlacesAre ==
  ASSUME NEW place \in Places
  PROVE  /\ place.lon \in -180..180
         /\ place.rotation \in Rotations
BY LongitudesAssumption DEF Places, Place, Rotations, Quarters

\* No vehicle is projected from further than 3 degrees off the central
\* meridian of its zone, wherever it is (LocalizationDataCallback).
THEOREM ZoneAlways == Spec => []ZoneCoversLongitude
<1>1. Init => ZoneCoversLongitude
  BY DEF Init, ZoneCoversLongitude, Published
<1>2. ZoneCoversLongitude /\ [Next]_vars => ZoneCoversLongitude'
  <2> SUFFICES ASSUME ZoneCoversLongitude, [Next]_vars PROVE ZoneCoversLongitude'
    OBVIOUS
  <2>1. CASE UNCHANGED published \/ published'.topic # "pose"
    BY <2>1 DEF ZoneCoversLongitude, Published
  <2>2. ASSUME NEW place \in Places, LocalizationDataCallback(place)
        PROVE  ZoneCoversLongitude'
    <3>1. /\ published'.lon = place.lon /\ published'.zone = Zone(place.lon)
          /\ published'.east = place.lon - CentralMeridian(Zone(place.lon))
      BY <2>2 DEF LocalizationDataCallback
    <3>2. PICK l \in -180..180 : l = place.lon
      BY PlacesAre
    <3>3. /\ l - CentralMeridian(Zone(l)) \in -3..3
          /\ Zone(l) \in 1..60 \/ (l = 180 /\ Zone(l) = 61)
      BY ZoneOf
    <3>4. QED BY <3>1, <3>2, <3>3 DEF ZoneCoversLongitude
  <2>3. QED BY <2>1, <2>2, PosesPublished
<1>3. QED BY <1>1, <1>2, PTL DEF Spec

\* The quaternion of every estimate turns vectors as its angles do, in the
\* order Z, X, Y, with the published y about X and the published x about Y
\* (LocalizationDataCallback, eulerToQuaternion against eulerToMatrixZXY).
THEOREM OrientationAlways == Spec => []OrientationMatchesAngles
<1>1. Init => OrientationMatchesAngles
  BY DEF Init, OrientationMatchesAngles, Published
<1>2. OrientationMatchesAngles /\ [Next]_vars => OrientationMatchesAngles'
  <2> SUFFICES ASSUME OrientationMatchesAngles, [Next]_vars
               PROVE  OrientationMatchesAngles'
    OBVIOUS
  <2>1. CASE UNCHANGED published \/ published'.topic # "pose"
    BY <2>1 DEF OrientationMatchesAngles, Published
  <2>2. ASSUME NEW place \in Places, LocalizationDataCallback(place)
        PROVE  OrientationMatchesAngles'
    <3> DEFINE r == place.rotation
    <3>1. /\ published'.orientation = eulerToQuaternion(r.yaw, r.roll, r.pitch)
          /\ published'.euler_angles = [x |-> r.pitch, y |-> r.roll, z |-> r.yaw]
      BY <2>2 DEF LocalizationDataCallback
    <3>2. r.yaw \in Quarters /\ r.roll \in Quarters /\ r.pitch \in Quarters
      BY PlacesAre DEF Rotations
    <3> HIDE DEF r
    <3>3. Turns(eulerToQuaternion(r.yaw, r.roll, r.pitch), 64,
                eulerToMatrixZXY(r.yaw, r.roll, r.pitch))
      BY <3>2, QuaternionTurns
    <3>4. QED BY <3>1, <3>3 DEF OrientationMatchesAngles, Turns
  <2>3. QED BY <2>1, <2>2, PosesPublished
<1>3. QED BY <1>1, <1>2, PTL DEF Spec

-----------------------------------------------------------------------------
(* The way of a command to the simulator and back                          *)

CommandFields == {"throttle", "brake", "steer", "reverse"}

\* The simulator reads the command that Proc wrote.
LEMMA UnderstoodAsSent ==
  ASSUME NEW c \in Commands
  PROVE  ReadWith(Understood, ControlMessage(c)) = ControlMessage(c)
<1> DEFINE m == ControlMessage(c)
           names == {Layouts!Name(Layouts!Control[i]) : i \in DOMAIN Layouts!Control}
<1>1. Understood = [f \in names |-> f]
  <2>1. /\ Layouts!Bridge.control = Layouts!Control
        /\ Layouts!Protocol.control = Layouts!Control
        /\ IsStruct(Layouts!Control)
    BY LaidOutAlike, Structs DEF Layouts!Bridge
  <2>2. QED BY <2>1, ReadsItself DEF Understood
<1>2. DOMAIN m = CommandFields /\ m = [f \in CommandFields |-> m[f]]
  BY DEF ControlMessage, CommandFields
<1>3. CommandFields \subseteq names
  <2>1. /\ 7 \in DOMAIN Layouts!Control /\ 8 \in DOMAIN Layouts!Control
        /\ 9 \in DOMAIN Layouts!Control /\ 10 \in DOMAIN Layouts!Control
        /\ Layouts!Name(Layouts!Control[7]) = "throttle"
        /\ Layouts!Name(Layouts!Control[8]) = "brake"
        /\ Layouts!Name(Layouts!Control[9]) = "steer"
        /\ Layouts!Name(Layouts!Control[10]) = "reverse"
    BY DEF Layouts!Control, Layouts!Header, Layouts!Name
  <2>2. QED BY <2>1 DEF CommandFields
<1> HIDE DEF m, names
<1>4. {g \in names : g \in CommandFields} = CommandFields
  BY <1>3
<1>5. ReadWith([f \in names |-> f], m) = [f \in CommandFields |-> m[f]]
  BY <1>2, <1>3, <1>4 DEF ReadWith
<1>6. QED BY <1>1, <1>2, <1>5 DEF m

FeedbackFields ==
  {"throttle_percentage_cmd", "brake_percentage_cmd", "steering_percentage_cmd",
   "gear_location"}

\* The callback reads the fields of the report.
LEMMA ReceivedAsReported ==
  ASSUME NEW m, FeedbackFields \subseteq DOMAIN m, NEW f \in FeedbackFields
  PROVE  Received("chassis", m)[f] = m[f]
<1> DEFINE names == {Layouts!Name(Layouts!Chassis[i]) : i \in DOMAIN Layouts!Chassis}
<1>1. Found["chassis"] = [g \in names |-> g]
  <2>1. Layouts!Bridge["chassis"] = Layouts!Chassis
    BY DEF Layouts!Bridge
  <2>2. QED BY <2>1, FoundItself
<1>2. FeedbackFields \subseteq names
  <2>1. /\ 15 \in DOMAIN Layouts!Chassis /\ 16 \in DOMAIN Layouts!Chassis
        /\ 17 \in DOMAIN Layouts!Chassis /\ 18 \in DOMAIN Layouts!Chassis
        /\ Layouts!Name(Layouts!Chassis[15]) = "gear_location"
        /\ Layouts!Name(Layouts!Chassis[16]) = "throttle_percentage_cmd"
        /\ Layouts!Name(Layouts!Chassis[17]) = "brake_percentage_cmd"
        /\ Layouts!Name(Layouts!Chassis[18]) = "steering_percentage_cmd"
    BY DEF Layouts!Chassis, Layouts!Header, Layouts!Name
  <2>2. QED BY <2>1 DEF FeedbackFields
<1> HIDE DEF names
<1>3. f \in {g \in names : g \in DOMAIN m}
  BY <1>2
<1>4. Received("chassis", m) = [g \in {h \in names : h \in DOMAIN m} |-> m[g]]
  BY <1>1 DEF Received, ReadWith
<1>5. QED BY <1>3, <1>4

-----------------------------------------------------------------------------
(* The schemas of a vehicle                                                *)

\* No two fields of a message have one number.
NumbersApart(fields) ==
  \A g, h \in fields : Schemas!Number(g) = Schemas!Number(h) => g = h

LEMMA SourceIsName ==
  ASSUME NEW fields, NumbersApart(fields), NEW f \in fields
  PROVE  Schemas!Source(fields, f) = {Schemas!Name(f)}
<1>1. {h \in fields : /\ Schemas!Number(h) = Schemas!Number(f)
                      /\ Schemas!Type(h) = Schemas!Type(f)} = {f}
  BY DEF NumbersApart
<1>2. QED BY <1>1 DEF Schemas!Source

\* Every field that the simulator requires is one that the bridge requires.
LEMMA RequiredShared ==
  ASSUME NEW m \in DOMAIN Schemas!CommandRequired
  PROVE  /\ Schemas!CommandRequired[m] \subseteq Schemas!Required[m]
         /\ NumbersApart(Schemas!Required[m])
<1> USE DEF NumbersApart, Schemas!Number, Schemas!Named, Schemas!Mounted, Schemas!Connected
<1>1. NumbersApart(Schemas!Address) /\ NumbersApart(Schemas!Point) /\ NumbersApart(Schemas!Turn)
  BY DEF Schemas!Address, Schemas!Point, Schemas!Turn
<1>2. /\ NumbersApart(Schemas!CameraConfig)
      /\ Schemas!CommandCamera \subseteq Schemas!CameraConfig
  BY DEF Schemas!CameraConfig, Schemas!CommandCamera
<1>3. /\ NumbersApart(Schemas!LidarConfig)
      /\ Schemas!CommandLidar \subseteq Schemas!LidarConfig
  BY DEF Schemas!LidarConfig, Schemas!CommandLidar
<1>4. /\ NumbersApart(Schemas!RadarConfig)
      /\ Schemas!CommandRadar \subseteq Schemas!RadarConfig
  BY DEF Schemas!RadarConfig, Schemas!CommandRadar
<1>5. /\ NumbersApart(Schemas!AutonomousVehicleConfig)
      /\ Schemas!CommandVehicle \subseteq Schemas!AutonomousVehicleConfig
  BY DEF Schemas!AutonomousVehicleConfig, Schemas!CommandVehicle
<1>6. NumbersApart(Schemas!Named \cup Schemas!Connected(11) \cup {<<2, "range", "uint32">>})
  OBVIOUS
<1>7. /\ NumbersApart(Schemas!Mounted \cup Schemas!Connected(11))
      /\ NumbersApart(Schemas!Named \cup Schemas!Connected(11))
  OBVIOUS
<1>8. NumbersApart(Schemas!Mounted \cup Schemas!Connected(11) \cup Schemas!Status)
  BY DEF Schemas!Status
<1> HIDE DEF NumbersApart, Schemas!Number, Schemas!Named, Schemas!Mounted, Schemas!Connected
<1> USE DEF Schemas!CommandRequired, Schemas!Required
<1>9. CASE m \in {"Communication", "Location", "Rotation"}
  BY <1>1, <1>9
<1>10. CASE m \in {"CameraConfig"}
  BY <1>2, <1>10
<1>11. CASE m \in {"LidarConfig"}
  BY <1>3, <1>11
<1>12. CASE m \in {"RadarConfig"}
  BY <1>4, <1>12
<1>13. CASE m \in {"AutonomousVehicleConfig"}
  BY <1>5, <1>13
<1>14. CASE m \in {"GroundTrueConfig", "ImuConfig", "ChassisConfig", "ControlConfig"}
  <2>1. CASE m = "GroundTrueConfig"
    <3>1. Schemas!Required[m]
            = Schemas!Named \cup Schemas!Connected(11) \cup {<<2, "range", "uint32">>}
      BY <2>1
    <3>2. Schemas!CommandRequired[m] = Schemas!Required[m]
      BY <2>1
    <3>3. QED BY <1>6, <3>1, <3>2
  <2>2. CASE m = "ImuConfig"
    <3>1. Schemas!Required[m] = Schemas!Mounted \cup Schemas!Connected(11)
      BY <2>2
    <3>2. Schemas!CommandRequired[m] = Schemas!Required[m]
      BY <2>2
    <3>3. QED BY <1>7, <3>1, <3>2
  <2>3. CASE m \in {"ChassisConfig", "ControlConfig"}
    <3>1. Schemas!Required[m] = Schemas!Named \cup Schemas!Connected(11)
      BY <2>3
    <3>2. Schemas!CommandRequired[m] = Schemas!Named \cup Schemas!Connected(11)
      BY <2>3
    <3>3. QED BY <1>7, <3>1, <3>2
  <2>4. QED BY <1>14, <2>1, <2>2, <2>3
<1>15. CASE m \in {"GnssConfig", "LocalizationConfig"}
  BY <1>8, <1>15
<1>16. QED BY <1>9, <1>10, <1>11, <1>12, <1>13, <1>14, <1>15

\* The devices of a vehicle are the same list on both sides, and no other
\* message has a field that the simulator may find absent.
LEMMA OptionalShared ==
  ASSUME NEW m \in DOMAIN Schemas!CommandRequired
  PROVE  /\ Schemas!CommandOptional[m] \subseteq Schemas!Optional[m]
         /\ NumbersApart(Schemas!Optional[m]) \/ Schemas!CommandOptional[m] = {}
<1>1. m \in DOMAIN Schemas!Required
  BY DEF Schemas!CommandRequired, Schemas!Required
<1>2. CASE m = "AutonomousVehicleConfig"
  <2>1. Schemas!CommandOptional[m] = Schemas!Devices
    BY <1>2 DEF Schemas!CommandOptional
  <2>2. Schemas!Optional[m] = Schemas!Devices
    BY <1>1, <1>2 DEF Schemas!Optional
  <2>3. NumbersApart(Schemas!Devices)
    BY DEF NumbersApart, Schemas!Devices, Schemas!Number
  <2>4. QED BY <2>1, <2>2, <2>3
<1>3. CASE m # "AutonomousVehicleConfig"
  BY <1>3 DEF Schemas!CommandOptional
<1>4. QED BY <1>2, <1>3

\* Every required field of every message of the command comes from the field
\* of the same name of the bridge, and so does every device.
LEMMA ParsedByName ==
  ASSUME NEW m \in DOMAIN Schemas!CommandRequired
  PROVE  LET p == Schemas!Parsed(m) IN
         /\ \A f \in DOMAIN p.required : p.required[f] = {Schemas!Name(f)}
         /\ \A f \in DOMAIN p.others : p.others[f] = {Schemas!Name(f)}
<1>1. \A f \in Schemas!CommandRequired[m] :
        Schemas!Source(Schemas!Required[m], f) = {Schemas!Name(f)}
  BY RequiredShared, SourceIsName
<1>2. \A f \in Schemas!CommandOptional[m] :
        Schemas!Source(Schemas!Optional[m], f) = {Schemas!Name(f)}
  BY OptionalShared, SourceIsName
<1>3. QED BY <1>1, <1>2 DEF Schemas!Parsed

\* The simulator understands every message of the command, by whatever two
\* schema files it is written and read (SendVehicleCommand).
THEOREM CommandAlwaysUnderstood == Spec => []CommandUnderstood
<1>1. Init => CommandUnderstood
  BY DEF Init, CommandUnderstood, Published
<1>2. CommandUnderstood /\ [Next]_vars => CommandUnderstood'
  <2> SUFFICES ASSUME CommandUnderstood, [Next]_vars PROVE CommandUnderstood'
    OBVIOUS
  <2>1. CASE \E message \in DOMAIN Schemas!CommandRequired : SendVehicleCommand(message)
    <3>1. PICK message \in DOMAIN Schemas!CommandRequired : SendVehicleCommand(message)
      BY <2>1
    <3>2. published'.parsed = Schemas!Parsed(message)
      BY <3>1 DEF SendVehicleCommand
    <3>3. QED BY <3>2, ParsedByName DEF CommandUnderstood
  <2>2. CASE UNCHANGED published
    BY <2>2 DEF CommandUnderstood, Published
  <2>3. CASE published'.topic # "vehicle"
    BY <2>3 DEF CommandUnderstood, Published
  <2>4. CASE ChassisDataCallback
    BY <2>3, <2>4 DEF ChassisDataCallback
  <2>5. CASE \E place \in Places : LocalizationDataCallback(place)
    BY <2>3, <2>5 DEF LocalizationDataCallback
  <2>6. CASE SensorDataCallback
    BY <2>3, <2>6, SensorPublishes DEF Kinds
  <2>7. CASE (\E c \in Commands : Proc(c)) \/ SimExecute \/ SimReport \/ UNCHANGED vars
    BY <2>2, <2>7 DEF Proc, SimExecute, SimReport, vars
  <2>8. QED BY <2>1, <2>4, <2>5, <2>6, <2>7 DEF Next
<1>3. QED BY <1>1, <1>2, PTL DEF Spec

-----------------------------------------------------------------------------
(* The commands under way, for any number of them                          *)

\* A report has the fields that the callback looks at.
Reported == report # Nothing => FeedbackFields \subseteq DOMAIN report

\* A command consists of whole numbers, of percent and after the conversion.
LEMMA CommandNumbers ==
  ASSUME NEW c \in Commands
  PROVE  LET m == ControlMessage(c) IN
         /\ m.throttle \in Int /\ m.throttle * 100 = c.throttle
         /\ m.brake \in Int /\ m.brake * 100 = c.brake
         /\ m.steer \in Int /\ -m.steer * 100 = c.steering_target
         /\ m.reverse = 1 <=> c.gear_location = Reverse
<1>1. /\ c.throttle \in WholePercents /\ c.brake \in WholePercents
      /\ c.steering_target \in WholePercents
  BY CommandsAssumption
<1>2. \A n \in WholePercents : n \in Int /\ n \div 100 \in Int /\ (n \div 100) * 100 = n
  BY DEF WholePercents
<1>3. QED BY <1>1, <1>2 DEF ControlMessage

\* A hundredth of a number, in the simulator's unit, times a hundred.
LEMMA ThereAndBack ==
  ASSUME NEW n \in Int, NEW g, n * 100 = g
  PROVE  /\ (n * PerUnit) * 100 = PerUnit * g
         /\ -(SteerSign * n * PerUnit) * 100 = SteerSign * PerUnit * (-g)
<1>1. PerUnit \in Int /\ SteerSign \in {1, -1}
  BY ReportsAssumption
<1>2. (n * PerUnit) * 100 = PerUnit * (n * 100)
  BY <1>1
<1>3. CASE SteerSign = 1
  <2>1. SteerSign * n * PerUnit = n * PerUnit
    BY <1>1, <1>3
  <2>2. SteerSign * PerUnit * (-g) = PerUnit * (-g)
    BY <1>1, <1>3
  <2>3. PerUnit * (-g) = -(PerUnit * g) /\ n * PerUnit \in Int
    BY <1>1
  <2>4. QED BY <1>2, <2>1, <2>2, <2>3
<1>4. CASE SteerSign = -1
  <2>1. SteerSign * n * PerUnit = -(n * PerUnit)
    BY <1>1, <1>4
  <2>2. SteerSign * PerUnit * (-g) = PerUnit * g
    BY <1>1, <1>4
  <2>3. n * PerUnit \in Int
    BY <1>1
  <2>4. QED BY <1>2, <2>1, <2>2, <2>3
<1>5. QED BY <1>1, <1>2, <1>3, <1>4

\* What the callback publishes of a report that shows a command is that
\* command: the factors and signs of the two directions cancel out, but for
\* the unit and the sign of the simulator.
LEMMA PublishedAsGiven ==
  ASSUME Reported, report # Nothing, ChassisDataCallback,
         NEW c \in Commands, Shows(report, c)
  PROVE  /\ published'.throttle_percentage_cmd = PerUnit * c.throttle
         /\ published'.brake_percentage_cmd = PerUnit * c.brake
         /\ published'.steering_percentage_cmd = SteerSign * PerUnit * c.steering_target
         /\ published'.gear_location = Reverse <=> c.gear_location = Reverse
<1> DEFINE m == ControlMessage(c)
           r == Received("chassis", report)
<1>1. /\ r.throttle_percentage_cmd = report.throttle_percentage_cmd
      /\ r.brake_percentage_cmd = report.brake_percentage_cmd
      /\ r.steering_percentage_cmd = report.steering_percentage_cmd
      /\ r.gear_location = report.gear_location
  BY ReceivedAsReported DEF Reported, FeedbackFields
<1>2. /\ report.throttle_percentage_cmd = m.throttle * PerUnit
      /\ report.brake_percentage_cmd = m.brake * PerUnit
      /\ report.steering_percentage_cmd = SteerSign * m.steer * PerUnit
      /\ report.gear_location = IF m.reverse = 1 THEN Reverse ELSE Drive
  BY DEF Shows
<1>3. /\ published'.throttle_percentage_cmd = r.throttle_percentage_cmd * 100
      /\ published'.brake_percentage_cmd = r.brake_percentage_cmd * 100
      /\ published'.steering_percentage_cmd = -r.steering_percentage_cmd * 100
      /\ published'.gear_location = r.gear_location
  BY DEF ChassisDataCallback
<1>4. /\ m.throttle \in Int /\ m.throttle * 100 = c.throttle
      /\ m.brake \in Int /\ m.brake * 100 = c.brake
      /\ m.steer \in Int /\ -m.steer * 100 = c.steering_target
      /\ m.reverse = 1 <=> c.gear_location = Reverse
  BY CommandNumbers
<1> HIDE DEF m, r
<1>5. /\ (m.throttle * PerUnit) * 100 = PerUnit * c.throttle
      /\ (m.brake * PerUnit) * 100 = PerUnit * c.brake
  BY <1>4, ThereAndBack
<1>6. -(SteerSign * m.steer * PerUnit) * 100 = SteerSign * PerUnit * c.steering_target
  <2>1. PICK g \in Int : m.steer * 100 = g /\ -g = c.steering_target
    BY <1>4
  <2>2. QED BY <1>4, <2>1, ThereAndBack
<1>7. Reverse # Drive
  BY DEF Reverse, Drive
<1>8. r.gear_location = Reverse <=> c.gear_location = Reverse
  BY <1>1, <1>2, <1>4, <1>7
<1>9. QED BY <1>1, <1>2, <1>3, <1>5, <1>6, <1>8

LEMMA RoundTripInit == Init => RoundTripInv /\ Reported
<1> SUFFICES ASSUME Init PROVE RoundTripInv /\ Reported
  OBVIOUS
<1>1. forwarded \in Seq(Commands) /\ Len(forwarded) = 0 /\ socket = <<>>
  BY DEF Init
<1>2. executed = 0 /\ report = Nothing /\ ~Published("chassis")
  BY DEF Init, Published
<1>3. socket = [i \in 1..Len(forwarded) - executed |-> ControlMessage(forwarded[executed + i])]
  BY <1>1, <1>2
<1>4. QED
  BY <1>1, <1>2, <1>3 DEF RoundTripInv, SocketInOrder, DrivesByLast, ReportShowsOne, PublishedShowsOne,
    FeedbackMatchesCommand, Reported

\* The socket is a sequence of the converted commands.
LEMMA SocketIsSeq ==
  ASSUME RoundTripInv
  PROVE  /\ socket \in Seq({ControlMessage(c) : c \in Commands})
         /\ Len(socket) = Len(forwarded) - executed
         /\ \A i \in 1..Len(forwarded) - executed :
              socket[i] = ControlMessage(forwarded[executed + i])
<1> DEFINE n == Len(forwarded) - executed
<1>1. /\ forwarded \in Seq(Commands) /\ executed \in 0..Len(forwarded)
      /\ socket = [i \in 1..n |-> ControlMessage(forwarded[executed + i])]
  BY DEF RoundTripInv, SocketInOrder
<1>2. n \in Nat /\ executed \in Nat
  BY <1>1
<1>3. ASSUME NEW i \in 1..n
      PROVE  forwarded[executed + i] \in Commands
  BY <1>1, <1>3
<1>4. socket \in [1..n -> {ControlMessage(c) : c \in Commands}]
  BY <1>1, <1>3
<1>5. \A i \in 1..n : socket[i] = ControlMessage(forwarded[executed + i])
  BY <1>1
<1> HIDE DEF n
<1>6. socket \in Seq({ControlMessage(c) : c \in Commands}) /\ Len(socket) = n
  BY <1>2, <1>4
<1>7. QED BY <1>5, <1>6 DEF n

\* What was published stays true when another command is given.
LEMMA RoundTripProc ==
  ASSUME RoundTripInv, NEW c \in Commands, Proc(c)
  PROVE  RoundTripInv'
<1> DEFINE l == Len(forwarded)
<1>1. /\ forwarded' = Append(forwarded, c) /\ socket' = Append(socket, ControlMessage(c))
      /\ UNCHANGED <<executed, driven, report, published>>
  BY DEF Proc
<1>2. /\ forwarded \in Seq(Commands) /\ executed \in 0..l /\ l \in Nat
  BY DEF RoundTripInv, SocketInOrder
<1>3. forwarded' \in Seq(Commands) /\ Len(forwarded') = l + 1 /\ executed' \in 0..Len(forwarded')
  BY <1>1, <1>2
<1>4. /\ \A i \in 1..l : forwarded'[i] = forwarded[i]
      /\ forwarded'[l + 1] = c
  BY <1>1, <1>2
<1>5. /\ socket \in Seq({ControlMessage(d) : d \in Commands}) /\ Len(socket) = l - executed
      /\ \A i \in 1..l - executed : socket[i] = ControlMessage(forwarded[executed + i])
  BY SocketIsSeq
<1> HIDE DEF l
<1>6. PICK n \in Nat : n = l - executed
  BY <1>2
<1>7. socket' \in Seq({ControlMessage(d) : d \in Commands}) /\ Len(socket') = n + 1
      /\ (\A i \in 1..n : socket'[i] = socket[i]) /\ socket'[n + 1] = ControlMessage(c)
  BY <1>1, <1>5, <1>6
<1>8. ASSUME NEW i \in 1..n + 1
      PROVE  socket'[i] = ControlMessage(forwarded'[executed + i])
  <2>1. CASE i = n + 1
    BY <1>2, <1>4, <1>6, <1>7, <2>1
  <2>2. CASE i # n + 1
    <3>1. i \in 1..n /\ executed + i \in 1..l
      BY <1>2, <1>6, <2>2
    <3>2. QED BY <1>4, <1>5, <1>6, <1>7, <3>1
  <2>3. QED BY <2>1, <2>2
<1>9. socket' = [i \in 1..n + 1 |-> ControlMessage(forwarded'[executed + i])]
  <2>1. socket' = [i \in 1..n + 1 |-> socket'[i]]
    BY <1>7
  <2>2. QED BY <1>8, <2>1
<1>10. n + 1 = Len(forwarded') - executed'
  BY <1>1, <1>2, <1>3, <1>6
<1>11. DrivesByLast'
  <2>1. executed > 0 => executed \in 1..l /\ driven = ControlMessage(forwarded[executed])
    BY <1>2 DEF RoundTripInv, DrivesByLast
  <2>2. QED BY <1>1, <1>4, <2>1 DEF DrivesByLast
<1>12. \A s \in 0..executed : s > 0 => forwarded'[s] = forwarded[s]
  BY <1>2, <1>4
<1>13. ReportShowsOne'
  BY <1>1, <1>12 DEF RoundTripInv, ReportShowsOne
<1>14. PublishedShowsOne'
  BY <1>1 DEF RoundTripInv, PublishedShowsOne, Published
<1>15. FeedbackMatchesCommand'
  BY <1>1, <1>12 DEF RoundTripInv, PublishedShowsOne, FeedbackMatchesCommand, Published
<1>16. SocketInOrder'
  BY <1>1, <1>3, <1>9, <1>10 DEF SocketInOrder
<1>17. QED
  BY <1>11, <1>13, <1>14, <1>15, <1>16 DEF RoundTripInv

LEMMA RoundTripExecute ==
  ASSUME RoundTripInv, SimExecute
  PROVE  RoundTripInv'
<1> DEFINE l == Len(forwarded)
<1>1. /\ socket # <<>> /\ executed' = executed + 1
      /\ driven' = ReadWith(Understood, Head(socket)) /\ socket' = Tail(socket)
      /\ UNCHANGED <<forwarded, report, published>>
  BY DEF SimExecute
<1>2. forwarded \in Seq(Commands) /\ executed \in 0..l /\ l \in Nat
  BY DEF RoundTripInv, SocketInOrder
<1>3. /\ socket \in Seq({ControlMessage(d) : d \in Commands}) /\ Len(socket) = l - executed
      /\ \A i \in 1..l - executed : socket[i] = ControlMessage(forwarded[executed + i])
  BY SocketIsSeq
<1>4. l = Len(forwarded)
  OBVIOUS
<1> HIDE DEF l
<1>5. PICK n \in Nat : n + 1 = l - executed
  <2>1. Len(socket) # 0
    BY <1>1, <1>3
  <2>2. l - executed - 1 \in Nat
    BY <1>2, <1>3, <2>1
  <2>3. QED BY <1>2, <2>2
<1>6. executed' \in 0..l /\ executed' \in 1..l /\ l - executed' = n
  BY <1>1, <1>2, <1>5
<1>7. driven' = ControlMessage(forwarded[executed'])
  <2>1. Head(socket) = socket[1] /\ 1 \in 1..l - executed
    BY <1>1, <1>3, <1>5
  <2>2. Head(socket) = ControlMessage(forwarded[executed + 1])
    BY <1>3, <2>1
  <2>3. forwarded[executed + 1] \in Commands
    BY <1>1, <1>2, <1>4, <1>6
  <2>4. QED BY <1>1, <2>2, <2>3, UnderstoodAsSent
<1>8. socket' \in Seq({ControlMessage(d) : d \in Commands}) /\ Len(socket') = n
      /\ \A i \in 1..n : socket'[i] = socket[i + 1]
  BY <1>1, <1>3, <1>5
<1>9. ASSUME NEW i \in 1..n
      PROVE  socket'[i] = ControlMessage(forwarded[executed' + i])
  <2>1. i + 1 \in 1..l - executed /\ executed + (i + 1) = executed' + i
    BY <1>1, <1>2, <1>5
  <2>2. QED BY <1>3, <1>8, <2>1
<1>10. socket' = [i \in 1..n |-> ControlMessage(forwarded[executed' + i])]
  <2>1. socket' = [i \in 1..n |-> socket'[i]]
    BY <1>8
  <2>2. QED BY <1>9, <2>1
<1>11. ReportShowsOne'
  <2>1. \A s \in 0..executed : s \in 0..executed'
    BY <1>1, <1>2
  <2>2. QED BY <1>1, <2>1 DEF RoundTripInv, ReportShowsOne
<1>12. PublishedShowsOne'
  <2>1. \A s \in 0..executed : s \in 0..executed'
    BY <1>1, <1>2
  <2>2. QED BY <1>1, <2>1 DEF RoundTripInv, PublishedShowsOne, Published
<1>13. FeedbackMatchesCommand'
  BY <1>1 DEF RoundTripInv, FeedbackMatchesCommand, Published
<1>14. SocketInOrder'
  BY <1>1, <1>2, <1>4, <1>6, <1>10 DEF SocketInOrder
<1>15. DrivesByLast'
  BY <1>1, <1>7 DEF DrivesByLast
<1>16. QED
  BY <1>11, <1>12, <1>13, <1>14, <1>15 DEF RoundTripInv

\* The report shows the last command that was read.
LEMMA RoundTripReport ==
  ASSUME RoundTripInv, SimReport
  PROVE  RoundTripInv' /\ Reported'
<1>1. UNCHANGED <<forwarded, socket, executed, driven, published>>
  BY DEF SimReport, controlVars
<1>2. executed \in Nat
  BY DEF RoundTripInv, SocketInOrder
<1>3. /\ report'.shows = executed
      /\ report'.throttle_percentage_cmd = driven.throttle * PerUnit
      /\ report'.brake_percentage_cmd = driven.brake * PerUnit
      /\ report'.steering_percentage_cmd = SteerSign * driven.steer * PerUnit
      /\ report'.gear_location = IF driven.reverse = 1 THEN Reverse ELSE Drive
  BY DEF SimReport
<1>4. Reported'
  BY DEF SimReport, Reported, FeedbackFields
<1>5. report'.shows > 0 => Shows(report', forwarded'[report'.shows])
  BY <1>1, <1>3 DEF RoundTripInv, DrivesByLast, Shows
<1>6. report'.shows \in 0..executed'
  BY <1>1, <1>2, <1>3
<1>7. FeedbackMatchesCommand'
  BY <1>1 DEF RoundTripInv, FeedbackMatchesCommand, Published
<1>8. ReportShowsOne'
  BY <1>5, <1>6 DEF ReportShowsOne
<1>9. SocketInOrder' /\ DrivesByLast' /\ PublishedShowsOne'
  BY <1>1 DEF RoundTripInv, SocketInOrder, DrivesByLast, PublishedShowsOne, Published
<1>10. QED BY <1>4, <1>7, <1>8, <1>9 DEF RoundTripInv

\* The callback publishes the command that the report shows.
LEMMA RoundTripCallback ==
  ASSUME RoundTripInv, Reported, ChassisDataCallback
  PROVE  RoundTripInv' /\ Reported'
<1>1. /\ report # Nothing /\ report' = Nothing /\ published'.shows = report.shows
      /\ UNCHANGED <<forwarded, socket, executed, driven>>
  BY DEF ChassisDataCallback, controlVars
<1>2. report.shows \in 0..executed /\ executed \in 0..Len(forwarded)
  BY <1>1 DEF RoundTripInv, SocketInOrder, ReportShowsOne
<1>3. report.shows > 0 =>
        forwarded[report.shows] \in Commands /\ Shows(report, forwarded[report.shows])
  <2>1. forwarded \in Seq(Commands) /\ Len(forwarded) \in Nat
    BY DEF RoundTripInv, SocketInOrder
  <2>2. report.shows > 0 => report.shows \in 1..Len(forwarded)
    BY <1>2, <2>1
  <2>3. QED BY <1>1, <2>1, <2>2 DEF RoundTripInv, ReportShowsOne
<1>4. FeedbackMatchesCommand'
  <2> SUFFICES ASSUME report.shows > 0
               PROVE  LET c == forwarded[report.shows] IN
                      /\ published'.throttle_percentage_cmd = PerUnit * c.throttle
                      /\ published'.brake_percentage_cmd = PerUnit * c.brake
                      /\ published'.steering_percentage_cmd =
                           SteerSign * PerUnit * c.steering_target
                      /\ published'.gear_location = Reverse <=> c.gear_location = Reverse
    BY <1>1 DEF FeedbackMatchesCommand
  <2>1. QED BY <1>1, <1>3, PublishedAsGiven
<1>5. QED
  BY <1>1, <1>2, <1>4 DEF RoundTripInv, SocketInOrder, DrivesByLast, ReportShowsOne, PublishedShowsOne,
    Reported

\* No other step touches the commands, the report or a published feedback.
LEMMA RoundTripOthers ==
  ASSUME RoundTripInv, Reported, UNCHANGED <<controlVars, report>>,
         ~Published("chassis")' \/ UNCHANGED published
  PROVE  RoundTripInv' /\ Reported'
<1>1. Published("chassis")' => UNCHANGED published /\ Published("chassis")
  BY DEF Published
<1>2. PublishedShowsOne'
  BY <1>1 DEF RoundTripInv, PublishedShowsOne, controlVars
<1>3. FeedbackMatchesCommand'
  BY <1>1 DEF RoundTripInv, FeedbackMatchesCommand, controlVars
<1>4. SocketInOrder' /\ DrivesByLast' /\ ReportShowsOne' /\ Reported'
  BY DEF RoundTripInv, SocketInOrder, DrivesByLast, ReportShowsOne, Reported, controlVars
<1>5. QED BY <1>2, <1>3, <1>4 DEF RoundTripInv

LEMMA RoundTripStep ==
  ASSUME RoundTripInv, Reported, [Next]_vars
  PROVE  RoundTripInv' /\ Reported'
<1>1. ASSUME NEW c \in Commands, Proc(c) PROVE RoundTripInv' /\ Reported'
  BY <1>1, RoundTripProc DEF Proc, Reported
<1>2. CASE SimExecute
  BY <1>2, RoundTripExecute DEF SimExecute, Reported
<1>3. CASE SimReport
  BY <1>3, RoundTripReport
<1>4. CASE ChassisDataCallback
  BY <1>4, RoundTripCallback
<1>5. ASSUME NEW place \in Places, LocalizationDataCallback(place)
      PROVE  RoundTripInv' /\ Reported'
  BY <1>5, RoundTripOthers DEF LocalizationDataCallback, Published
<1>6. CASE SensorDataCallback
  BY <1>6, SensorPublishes, RoundTripOthers DEF Kinds, Published
<1>7. ASSUME NEW message \in DOMAIN Schemas!CommandRequired, SendVehicleCommand(message)
      PROVE  RoundTripInv' /\ Reported'
  BY <1>7, RoundTripOthers DEF SendVehicleCommand, Published
<1>8. CASE UNCHANGED vars
  BY <1>8, RoundTripOthers DEF vars, controlVars
<1>9. QED BY <1>1, <1>2, <1>3, <1>4, <1>5, <1>6, <1>7, <1>8 DEF Next

\* However many commands Apollo gives and the simulator has not read yet, the
\* socket holds just these, in order, and every report shows a command given
\* before (Proc, ChassisDataCallback).
THEOREM RoundTripAlways == Spec => []RoundTripInv
<1>1. RoundTripInv /\ Reported /\ [Next]_vars => (RoundTripInv /\ Reported)'
  BY RoundTripStep
<1>2. QED BY <1>1, RoundTripInit, PTL DEF Spec

\* What Apollo is shown as the command the vehicle obeys is a command it gave,
\* for every set of whole percentages (chassis_component.cc:66-76).
THEOREM FeedbackAlways == Spec => []FeedbackMatchesCommand
<1>1. RoundTripInv => FeedbackMatchesCommand
  BY DEF RoundTripInv
<1>2. QED BY <1>1, RoundTripAlways, PTL

=============================================================================
