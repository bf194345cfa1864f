--------------------------- MODULE MCStreamServer ---------------------------
(***************************************************************************)
(* StreamServer for TLC: headers of two cells, so that a read can split    *)
(* one, and a buffer that takes more than one message but not all of them. *)
(***************************************************************************)
EXTENDS StreamServerInv

OneLength == {3}
TwoLengths == {2, 3}
ThreeLengths == {2, 3, 5}

=============================================================================
