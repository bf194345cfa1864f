------------------------------ MODULE Geometry ------------------------------
(***************************************************************************)
(* common.cc in exact arithmetic.  Angles are whole quarter turns, so that *)
(* sines and cosines are -1, 0 and 1, and those of the half angles in a    *)
(* quaternion are halves of 0, 2 and sqrt(2).  A number a + b * sqrt(2) is *)
(* the pair <<a, b>>.  Longitudes are whole degrees.                       *)
(***************************************************************************)
EXTENDS Integers, Sequences

Quarters == -1..2
Axes == 1..3

\* Of q quarter turns, q in Quarters.
Cos(q) == CASE q = 0 -> 1 [] q = 2 -> -1 [] OTHER -> 0
Sin(q) == IF q \in {0, 2} THEN 0 ELSE q

-----------------------------------------------------------------------------
(* Rotation matrices                                                       *)

rotateX(q) == << <<1, 0, 0>>, <<0, Cos(q), -Sin(q)>>, <<0, Sin(q), Cos(q)>> >>
rotateY(q) == << <<Cos(q), 0, Sin(q)>>, <<0, 1, 0>>, <<-Sin(q), 0, Cos(q)>> >>
rotateZ(q) == << <<Cos(q), -Sin(q), 0>>, <<Sin(q), Cos(q), 0>>, <<0, 0, 1>> >>

multiplyMatrices(A, B) ==
  [i \in Axes |-> [j \in Axes |->
     A[i][1] * B[1][j] + A[i][2] * B[2][j] + A[i][3] * B[3][j]]]

eulerToMatrixZXY(yaw, roll, pitch) ==
  multiplyMatrices(multiplyMatrices(rotateZ(yaw), rotateX(roll)), rotateY(pitch))

-----------------------------------------------------------------------------
(* Quaternions, as the numerators of halves: twice w, x, y, z              *)

Plus(a, b) == <<a[1] + b[1], a[2] + b[2]>>
Minus(a, b) == <<a[1] - b[1], a[2] - b[2]>>
Times(a, b) == <<a[1] * b[1] + 2 * a[2] * b[2], a[1] * b[2] + a[2] * b[1]>>
Zero == <<0, 0>>

\* Twice the cosine and sine of half of q quarter turns, q in Quarters.
HalfCos(q) == CASE q = 0 -> <<2, 0>> [] q = 2 -> Zero [] OTHER -> <<0, 1>>
HalfSin(q) == CASE q = 0 -> Zero [] q = 2 -> <<2, 0>> [] OTHER -> <<0, q>>

\* p * q, Hamilton's product.
Product(p, q) ==
  LET Dot(a, b, c, d) == Plus(Plus(a, b), Plus(c, d))
      Neg(a) == Minus(Zero, a)
  IN [w |-> Dot(Times(p.w, q.w), Neg(Times(p.x, q.x)),
                Neg(Times(p.y, q.y)), Neg(Times(p.z, q.z))),
      x |-> Dot(Times(p.w, q.x), Times(p.x, q.w),
                Times(p.y, q.z), Neg(Times(p.z, q.y))),
      y |-> Dot(Times(p.w, q.y), Neg(Times(p.x, q.z)),
                Times(p.y, q.w), Times(p.z, q.x)),
      z |-> Dot(Times(p.w, q.z), Times(p.x, q.y),
                Neg(Times(p.y, q.x)), Times(p.z, q.w))]

AboutX(q) == [w |-> HalfCos(q), x |-> HalfSin(q), y |-> Zero, z |-> Zero]
AboutY(q) == [w |-> HalfCos(q), x |-> Zero, y |-> HalfSin(q), z |-> Zero]
AboutZ(q) == [w |-> HalfCos(q), x |-> Zero, y |-> Zero, z |-> HalfSin(q)]

\* Mutant: the factors are multiplied in the order X, Z, Y.
eulerToQuaternionXZY(yaw, roll, pitch) ==
  Product(Product(AboutX(roll), AboutZ(yaw)), AboutY(pitch))

\* Eight times the quaternion: the product of three halves.
eulerToQuaternion(yaw, roll, pitch) ==
  Product(Product(AboutZ(yaw), AboutX(roll)), AboutY(pitch))

\* The rotation matrix of a quaternion, times the square of its norm.
Turning(q) ==
  LET Sq(a) == Times(a, a)
      Twice(a) == Plus(a, a)
      Diagonal(a, b, c) == Minus(Plus(Sq(q.w), Sq(a)), Plus(Sq(b), Sq(c)))
      Sum2(a, b, c) == Twice(Plus(Times(a, b), Times(q.w, c)))
      Diff2(a, b, c) == Twice(Minus(Times(a, b), Times(q.w, c)))
  IN << <<Diagonal(q.x, q.y, q.z), Diff2(q.x, q.y, q.z), Sum2(q.x, q.z, q.y)>>,
        <<Sum2(q.x, q.y, q.z), Diagonal(q.y, q.x, q.z), Diff2(q.y, q.z, q.x)>>,
        <<Diff2(q.x, q.z, q.y), Sum2(q.y, q.z, q.x), Diagonal(q.z, q.x, q.y)>> >>

-----------------------------------------------------------------------------
(* UTM                                                                     *)

\* C++ division of integers and conversion to int: towards zero.
Truncated(n, d) == IF n < 0 THEN -((-n) \div d) ELSE n \div d

\* Mutant: the truncation is left to do what only rounding down does.
ZoneFromGreenwich(lon) == Truncated(lon, 6) + 31

Zone(lon) == Truncated(lon + 180, 6) + 1

CentralMeridian(zone) == (zone - 1) * 6 - 180 + 3

=============================================================================
