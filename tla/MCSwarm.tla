------------------------------ MODULE MCSwarm ------------------------------
(***************************************************************************)
(* A file of two chunks and two placements of them at the providers; c2 is *)
(* a chunk nobody asks for.                                                *)
(* Memory from malloc is zero here; module Transfer covers the rest.       *)
(***************************************************************************)
EXTENDS Swarm, TLC

CONSTANTS c0, c1, c2

MCOffsets == {c0, c1}
MCOffsets3 == {c0, c1, c2}
MCJobs == {<<c0, c1>>}
Fresh == {[prev |-> 0, count |-> 0]}
Disjoint == 1 :> <<c0, c2>> @@ 2 :> <<c1>>
Single == 1 :> <<c0, c1>>
============================================================================
