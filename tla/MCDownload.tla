----------------------------- MODULE MCDownload -----------------------------
(***************************************************************************)
(* Download on a file of four blocks that the server may replace, first by *)
(* a version of six blocks, then by one of two.                            *)
(***************************************************************************)
EXTENDS Download

Lengths == [v \in 1..Versions |-> <<4, 6, 2>>[v]]
=============================================================================
