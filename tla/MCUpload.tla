------------------------------ MODULE MCUpload ------------------------------
(***************************************************************************)
(* A sender whose memory from malloc looks like no ACK seen or like two    *)
(* earlier ACKs of the first packet.  Chunks are interchangeable.          *)
(***************************************************************************)
EXTENDS Upload, TLC

MCGarbage == {[prev |-> N + 1, count |-> 0], [prev |-> 0, count |-> 1]}

MCSymmetry == Permutations(Offsets)
=============================================================================
