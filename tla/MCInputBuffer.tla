--------------------------- MODULE MCInputBuffer ---------------------------
(***************************************************************************)
(* The input system with a buffer of 8 characters, on files up to twice    *)
(* that size: the empty one, one that ends with a full read, ones that do  *)
(* not, and one with a byte above 127.                                     *)
(***************************************************************************)
EXTENDS InputBuffer

File(length, bytes) ==
  [i \in 1 .. length |-> IF i \in DOMAIN bytes THEN bytes[i] ELSE IF i % 4 = 2 THEN 10 ELSE 64 + i]

MCFiles ==
  {File(length, <<>>) : length \in {0, 6, 8, 12}} \cup {File(9, [i \in {3} |-> -61])}

MCUnputChar == 35

MCUnputPlaces == {8}
============================================================================
