----------------------------- MODULE MCDownload -----------------------------
(***************************************************************************)
(* Two chunk files over two chunks: one with both, one with the second.    *)
(***************************************************************************)
EXTENDS Download

CONSTANTS c0, c1

MCOffsets == {c0, c1}
MCJobs == {<<c0, c1>>, <<c1>>}
=============================================================================
