---------------------------- MODULE MCConversions ----------------------------
(* Conversions for TLC: some commands, and the longitudes of the zones at  *)
(* Greenwich and on both sides of the antimeridian.                        *)
EXTENDS Conversions

Percent(t, b, s, g) ==
  [throttle |-> t * 100, brake |-> b * 100, steering_target |-> s * 100,
   gear_location |-> g]

SomeCommands ==
  {Percent(100, 0, 70, Drive), Percent(0, 100, 0, Drive),
   Percent(20, 5, -100, Reverse)}

Degrees == {-180, -179, -175, -174, -173, -7, -6, -5, -1, 0, 1, 5, 6, 7,
            173, 174, 175, 179, 180}

FewDegrees == {0}

\* One command with a throttle and a side.
FullThrottleLeft == {Percent(100, 0, 70, Drive)}

\* The simulator of message-en.h: percentages, clockwise negative.
RightIsNegative == -1

=============================================================================
