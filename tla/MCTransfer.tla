----------------------------- MODULE MCTransfer -----------------------------
(***************************************************************************)
(* A transfer whose sender may find anything in the memory malloc returns. *)
(* The receiver acknowledges 1..N, so handle_ack sees 0..N-1 and N stands  *)
(* for every other value of prev_ack.                                      *)
(***************************************************************************)
EXTENDS Transfer

MCGarbage == [prev : 0..N, count : 0..DupLimit]
=============================================================================
