------------------------------ MODULE MCFirst ------------------------------
(***************************************************************************)
(* first() on every grammar with two terminals, three nonterminals and an  *)
(* action in the productions below: 256 -> x y, 257 with two right-hand    *)
(* sides, and 258 -> z, each right-hand side of at most two symbols.       *)
(***************************************************************************)
EXTENDS First

Nonterms == {256, 257, 258}
Terms    == {1, 2}
Action   == 512

Sides(symbols) == {<<>>} \cup {<<a>> : a \in symbols} \cup {<<a, b>> : a, b \in symbols}

GoalSides   == {<<a, b>> : a, b \in {1, 257, 258}}
MiddleSides == Sides({1, 257, 258, Action}) \ {<<257>>, <<Action, Action>>}
LastSides   == Sides({2, 257, Action}) \ {<<Action, Action>>}

MCGrammars ==
  {[terms |-> Terms, nonterms |-> Nonterms,
    lhs   |-> [p \in 0 .. 3 |-> IF p = 0 THEN 256 ELSE IF p = 3 THEN 258 ELSE 257],
    rhs   |-> [p \in 0 .. 3 |-> CASE p = 0 -> goal [] p = 1 -> mid1 [] p = 2 -> mid2
                                  [] OTHER -> last],
    first |-> [A \in Nonterms |-> {}]] :
     goal \in GoalSides, mid1 \in MiddleSides,
     mid2 \in {<<>>, <<1>>, <<258, 1>>}, last \in LastSides}
============================================================================
