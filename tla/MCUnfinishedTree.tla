-------------------------- MODULE MCUnfinishedTree --------------------------
(***************************************************************************)
(* The tree of unfinished states with more states than the pool has nodes. *)
(***************************************************************************)
EXTENDS UnfinishedTree

MCStateNumbers == 0 .. 3
============================================================================
