------------------------------ MODULE MCBitSet ------------------------------
(***************************************************************************)
(* Two sets, of words of two bits: two words at first, four for element 4. *)
(***************************************************************************)
EXTENDS BitSet

MCHandles == {"a", "b"}
MCElements == {0, 3, 4}
============================================================================
