--------------------------- MODULE LalrReference ---------------------------
(***************************************************************************)
(* LALR(1) tables of given grammars, computed as operators: the reference  *)
(* the runs compare lr() with, and the tables the parser runs on.          *)
(***************************************************************************)
EXTENDS LalrTable, FirstSets

\* A grammar from its productions, pairs of a left-hand side and a right-hand side.
Build(terms, nonterms, prods) ==
  LET bare == [terms |-> terms, nonterms |-> nonterms,
               lhs   |-> [p \in 0 .. Len(prods) - 1 |-> prods[p + 1][1]],
               rhs   |-> [p \in 0 .. Len(prods) - 1 |-> prods[p + 1][2]],
               first |-> [A \in nonterms |-> {}]]
  IN WithFirst(bare, CodeFirst(bare))

----------------------------------------------------------------------------
\* The least set of triples closed under the rules of LalrClosed, by adding what the
\* rules bring to the triples found last.
Brought(G, entry) ==
  {<<entry[1], new, token>> : new \in Derived(G, entry[2]),
                              token \in Follow(G, entry[2], {entry[3]}) \cup {PRESENT}}
  \cup IF AtEnd(G, entry[2]) THEN {}
       ELSE {<<GotoCore(G, entry[1], RightOfDot(G, entry[2])), MoveDot(entry[2]), entry[3]>>}

\* Rounds enough for every grammar here: a table is at most this deep.
MaxRounds == 60

LeastTable(G) ==
  LET start == {<<StartCore, StartItem, token>> : token \in {EOI, WHITESPACE, PRESENT}}
      grown[k \in 0 .. MaxRounds] ==
        IF k = 0 THEN [table |-> start, latest |-> start]
        ELSE LET old == grown[k - 1]
                 new == UNION {Brought(G, entry) : entry \in old.latest} \ old.table
             IN IF new = {} THEN old ELSE [table |-> old.table \cup new, latest |-> new]
  IN grown[MaxRounds].table

\* The same table by the textbook: the canonical collection of LR(1) item sets, with
\* PRESENT as one more lookahead, and the sets with equal cores merged.
Lr1Closure(G, set) ==
  LET grown[k \in 0 .. MaxRounds] ==
        IF k = 0 THEN set
        ELSE LET old == grown[k - 1]
             IN old \cup UNION {{<<new, token>> : new \in Derived(G, pair[1]),
                                   token \in Follow(G, pair[1], {pair[2]}) \cup {PRESENT}} :
                                  pair \in old}
  IN grown[Cardinality(G.nonterms) * Cardinality(G.terms) + 2]

Lr1Successors(G, set) ==
  {Lr1Closure(G, {<<MoveDot(pair[1]), pair[2]>> :
                    pair \in {q \in set : ~AtEnd(G, q[1]) /\ RightOfDot(G, q[1]) = sym}}) :
     sym \in {RightOfDot(G, q[1]) : q \in {r \in set : ~AtEnd(G, r[1])}}}

CanonicalLr1(G) ==
  LET start == Lr1Closure(G, {<<StartItem, token>> : token \in {EOI, WHITESPACE, PRESENT}})
      grown[k \in 0 .. MaxRounds] ==
        IF k = 0 THEN [sets |-> {start}, latest |-> {start}]
        ELSE LET old == grown[k - 1]
                 new == UNION {Lr1Successors(G, set) : set \in old.latest} \ old.sets
             IN IF new = {} THEN old ELSE [sets |-> old.sets \cup new, latest |-> new]
  IN grown[MaxRounds].sets

CoreOf(set) ==
  {pair[1] : pair \in {q \in set : q[1][2] > 0 \/ q[1] = StartItem}}

MergedLr1(G) ==
  UNION {{<<CoreOf(set), pair[1], pair[2]>> : pair \in set} : set \in CanonicalLr1(G)}
============================================================================
