--------------------------- MODULE MessageChannel ---------------------------
(***************************************************************************)
(* What a sensor stream promises to the driver behind it, without bytes,   *)
(* sockets or threads: numbered messages are sent, some of them are handed *)
(* to the driver whole, in the order of sending and at most once.  The     *)
(* last ones may be cut off by the sender's death, and are then never      *)
(* handed over.  A lossy channel may also skip messages; a reliable one    *)
(* skips only those cut off.                                               *)
(***************************************************************************)
EXTENDS Integers, Sequences

VARIABLES
  sent,   \* how many messages were sent; they are numbered from 1
  got,    \* the numbers of the messages handed over, in order
  cut     \* the numbers of the messages cut off

vars == <<sent, got, cut>>

HandedOver == {got[i] : i \in DOMAIN got}

Init == sent = 0 /\ got = <<>> /\ cut = {}

Send == sent' = sent + 1 /\ UNCHANGED <<got, cut>>

\* Some messages, and all that were sent after them.
CutOff ==
  /\ \E ks \in SUBSET (1..sent) :
       /\ \A k \in ks : k..sent \subseteq ks \ HandedOver
       /\ cut' = cut \cup ks
  /\ UNCHANGED <<sent, got>>

HandOver(k) ==
  /\ \A j \in HandedOver : j < k
  /\ k \notin cut
  /\ got' = Append(got, k)
  /\ UNCHANGED <<sent, cut>>

NothingSkipped(k) == \A j \in 1..(k - 1) : j \in HandedOver \cup cut

LossyNext == Send \/ CutOff \/ \E k \in 1..sent : HandOver(k)

ReliableNext ==
  Send \/ CutOff \/ \E k \in 1..sent : NothingSkipped(k) /\ HandOver(k)

LossySpec == Init /\ [][LossyNext]_vars
ReliableSpec == Init /\ [][ReliableNext]_vars

=============================================================================
