--------------------------- MODULE MCInputBuffer ---------------------------
(***************************************************************************)
(* Two characters, so that a line made of the wrong bytes shows.           *)
(***************************************************************************)
EXTENDS InputBuffer
=============================================================================
