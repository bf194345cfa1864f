------------------------------ MODULE MCRestart ------------------------------
(* Restart for TLC: which bridge processes there are.                      *)
EXTENDS Restart

TwoBridges == 1..2

=============================================================================
