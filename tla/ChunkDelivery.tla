---------------------------- MODULE ChunkDelivery ----------------------------
(***************************************************************************)
(* What a chunk transfer promises, without window, timers or network: the  *)
(* receiver collects packets one at a time and never loses one again, and  *)
(* the sender counts as acknowledged only packets the receiver holds.      *)
(***************************************************************************)
EXTENDS Integers

CONSTANT Packets

VARIABLES
  delivered,    \* packets the receiver has stored
  acked         \* packets the sender will not send again on its own

vars == <<delivered, acked>>

Init == delivered = {} /\ acked = {}

(* The receiver stores a packet it did not have. *)
Deliver(i) ==
  /\ i \notin delivered
  /\ delivered' = delivered \cup {i}
  /\ UNCHANGED acked

(* The sender learns that some packets arrived. *)
Acknowledge ==
  /\ acked' \in SUBSET delivered
  /\ acked \subseteq acked'
  /\ UNCHANGED delivered

(* The sender starts again: it forgets what it knew. *)
Restart ==
  /\ acked' = {}
  /\ UNCHANGED delivered

Next == (\E i \in Packets : Deliver(i)) \/ Acknowledge \/ Restart

Spec == Init /\ [][Next]_vars
=============================================================================
