------------------------------ MODULE Protocol ------------------------------
(***************************************************************************)
(* What every part of a peer shares: the packets a chunk is cut into, the  *)
(* ids of the other peers and the offsets of the chunks in the master      *)
(* chunk file.                                                             *)
(*                                                                         *)
(* A chunk is sent as N data packets.  The code indexes them 0..N-1 in its *)
(* arrays and numbers them 1..N on the wire (header.seq_num).  What the C  *)
(* code calls a "socket" is the id of the peer at the other end.           *)
(***************************************************************************)
EXTENDS Integers

CONSTANTS
  N,          \* CHUNK_PACKET_NUMBER: data packets in a chunk (512 in the code)
  Peers,      \* ids of the peers in nodes.map
  Offsets     \* chunk offsets in the master chunk file

(***************************************************************************)
(* A peer whose identity is 0 refuses to start, so no packet ever comes    *)
(* from a peer with that id.                                               *)
(***************************************************************************)
ASSUME ProtocolAssumption ==
  /\ N \in Nat \ {0}
  /\ Peers \subseteq Nat \ {0}

Idx  == 0..(N - 1)
Seqs == 1..N
=============================================================================
