------------------------------ MODULE MCBridge ------------------------------
(* Bridge for TLC: which drivers are configured.                           *)
EXTENDS Bridge

Entry(k, n, u) == [kind |-> k, name |-> n, url |-> u, refused |-> {}]

Refuses(e, ms) == [e EXCEPT !.refused = ms]

\* A driver that makes its writer first, one that uses three members made
\* after the start, the second of which Cyber refuses, and one that makes a
\* single writer after it.
ThreeDrivers ==
  <<Entry("lidar", "a", "x"),
    Refuses(Entry("localization", "b", "y"), {"status"}),
    Entry("chassis", "c", "z")>>

\* Two drivers share a name, another two a socket.
Clash ==
  <<Entry("camera", "a", "x"), Entry("lidar", "a", "y"),
    Entry("localization", "b", "x")>>

=============================================================================
