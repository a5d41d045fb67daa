--------------------------- MODULE MCActionTable ---------------------------
(***************************************************************************)
(* Every state with up to three productions, the goal's included, that     *)
(* reduce, shared out in every way between kernel and epsilon items, with  *)
(* one token under every precedence and one that has none.  Its row is     *)
(* printed in a table of four rows; the row of a state that has nothing    *)
(* but a shift, an accepting item, or both, at every place among all rows  *)
(* that share prefixes, symbols and actions with it.                       *)
(***************************************************************************)
EXTENDS ActionTable

MCTokens  == {0, 1}
MCSymbols == {0, 1, 2}

Item(p, end, set) == [prod_num |-> p, prec |-> 0, at_end |-> end, lookaheads |-> set]

\* An item list of up to two productions, in ascending order.
Lists(prods, sets) ==
  {<<>>}
  \cup {<<Item(p, TRUE, set)>> : p \in prods, set \in sets}
  \cup {<<Item(pair[1], TRUE, set), Item(pair[2], TRUE, {1})>> :
          pair \in {q \in prods \X prods : q[1] < q[2]}, set \in sets}

ItemLists ==
  {<<Item(3, FALSE, {0})>> \o pair[1] \o pair[2] :
     pair \in {q \in Lists({0, 1, 2}, {{1}, {0, 1}}) \X Lists({1, 2}, {{1}, {0}}) :
       \A m \in DOMAIN q[1], n \in DOMAIN q[2] : q[1][m].prod_num # q[2][n].prod_num}}

WithPrec(items, prec) ==
  [n \in DOMAIN items |-> [items[n] EXCEPT !.prec = prec[items[n].prod_num]]]

Machine(shifts, items, tlevel, assoc, verbose) ==
  [shifts |-> shifts, items |-> items,
   level |-> [t \in MCTokens |-> t * tlevel],
   assoc |-> [t \in MCTokens |-> IF t = 1 THEN assoc ELSE "none"],
   Verbose |-> verbose]

Shifts == {[t \in {} |-> 0], [t \in {1} |-> 5]}

\* A state without conflicts, for each combination of a shift and an accepting item.
Simple ==
  {Machine(shifts, items, 0, "n", 0) :
     shifts \in Shifts, items \in {<<>>, <<Item(0, TRUE, {0})>>}}

MCMachines ==
  Simple \cup
  {Machine(shifts, WithPrec(items, prec), tlevel, assoc, verbose) :
     prec \in {p \in [0 .. 3 -> 0 .. 2] : p[3] = 0}, items \in ItemLists, shifts \in Shifts,
     tlevel \in 0 .. 2, assoc \in {"l", "r", "n"}, verbose \in 0 .. 1}

Rows ==
  {<<>>, << <<1, 5>> >>, << <<1, 2>> >>, << <<0, 0>> >>, << <<1, 5>>, <<2, -1>> >>,
   << <<2, -1>>, <<1, 5>> >>, << <<1, 5>>, <<0, 0>> >>}

\* The rows of any state, too.
MCChains ==
  Rows \cup UNION {ChainsOf(row) : row \in UNION {[tokens1 -> {5, 0, -1, -2, -3}] :
                                                   tokens1 \in SUBSET MCTokens}}

Mixed == [n \in States |-> IF n % 2 = 0 THEN << <<1, -1>> >> ELSE << <<1, -1>>, <<0, 0>> >>]

\* Where the state's own row stands, any will do: BeginPrinting replaces it.
\* Verbose has no part in the rows.
MCTables(M) ==
  IF M \in Simple THEN [States -> Rows] ELSE IF M.Verbose = 0 THEN {Mixed} ELSE {}

MCPlaces(M) == IF M \in Simple THEN States ELSE {1}
============================================================================
