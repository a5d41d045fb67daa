------------------------------ MODULE Grammar ------------------------------
(***************************************************************************)
(* The grammar rbison works on, as first(), lr() and the table makers read *)
(* it from the symbol table (parser.h, acts.c).  A grammar is a record     *)
(*                                                                         *)
(*   terms     the `val' of every terminal, 1 .. Cur_term                  *)
(*   nonterms  the `val' of every nonterminal, from MINNONTERM on          *)
(*   lhs       production number -> its left-hand side                     *)
(*   rhs       production number -> its right-hand side, rhs[] up to NULL  *)
(*   first     nonterminal -> SYMBOL.first                                 *)
(*                                                                         *)
(* Production 0 is the only production of the goal symbol.  Everything     *)
(* here is a pure operator on such a record; modules with variables carry  *)
(* the record in the variable `grammar'.                                   *)
(***************************************************************************)
EXTENDS Naturals, Sequences

\* parser.h, llout.h: the end-of-input token, where the values of nonterminals and of
\* actions begin, and the token of LLama's own scanner that make_parse_tables() also uses.
EOI        == 0
MINNONTERM == 256
MINACT     == 512
WHITESPACE == 16

Symbols(G)     == G.terms \cup G.nonterms
Productions(G) == DOMAIN G.lhs

\* Cur_term + 1, one more than the largest terminal in use.
EPSILON(G) ==
  IF G.terms = {} THEN 1 ELSE (CHOOSE t \in G.terms : \A u \in G.terms : u <= t) + 1

\* Every value a lookahead set or the action table can hold.
Tokens(G) == G.terms \cup {EOI, WHITESPACE}

\* for (prod = lhs->productions; prod; prod = prod->next)
ProductionsOf(G, sym) == {p \in Productions(G) : G.lhs[p] = sym}

ISTERM(G, sym)    == sym \in G.terms
ISNONTERM(G, sym) == sym \in G.nonterms
ISACT(sym)        == sym >= MINACT

\* Mutant: actions are not skipped.
FirstOfAnything(G, sym) == IF ISNONTERM(G, sym) THEN G.first[sym] ELSE {sym}

\* What a symbol adds to a FIRST set: an action nothing, a terminal its own value, a
\* nonterminal all of its `first', EPSILON included.
FirstOf(G, sym) ==
  IF ISACT(sym) THEN {} ELSE IF ISNONTERM(G, sym) THEN G.first[sym] ELSE {sym}

NULLABLE(G, sym) == ISNONTERM(G, sym) /\ EPSILON(G) \in G.first[sym]

\* The objects of rhs from position `from' up to `to' are all actions or nullable.
NullableRun(G, rhs, from, to) ==
  \A i \in from .. to : ISACT(rhs[i]) \/ NULLABLE(G, rhs[i])

\* What first_rhs() adds to `dest' for rhs[from], rhs[from + 1], ...: the loop stops
\* behind the first object that is not nullable.
FirstRhs(G, rhs, from) ==
  IF from > Len(rhs)
  THEN {EPSILON(G)}
  ELSE UNION {FirstOf(G, rhs[i]) :
                i \in {j \in from .. Len(rhs) : NullableRun(G, rhs, from, j - 1)}}

\* What first_rhs() returns.
RhsIsNullable(G, rhs, from) == NullableRun(G, rhs, from, Len(rhs))

----------------------------------------------------------------------------
(***************************************************************************)
(* LR(0) items <<production, dot position>>.                               *)
(***************************************************************************)
Items(G) == UNION {{<<p, d>> : d \in 0 .. Len(G.rhs[p])} : p \in Productions(G)}

StartItem == <<0, 0>>

\* right_of_dot is NULL: nothing is left to read.
AtEnd(G, item) == item[2] >= Len(G.rhs[item[1]])

RightOfDot(G, item) == G.rhs[item[1]][item[2] + 1]

MoveDot(item) == <<item[1], item[2] + 1>>
MoveBack(item) == <<item[1], item[2] - 1>>

\* The items do_close() looks at for one item: every production of the nonterminal
\* to the right of the dot, with the dot at its start.
Derived(G, item) ==
  {<<p, 0>> : p \in {q \in Productions(G) :
                       ~AtEnd(G, item) /\ G.lhs[q] = RightOfDot(G, item)}}

\* Mutant: EPSILON stays in the set.
FollowWithEpsilon(G, item, lookaheads) ==
  IF RhsIsNullable(G, G.rhs[item[1]], item[2] + 2)
  THEN FirstRhs(G, G.rhs[item[1]], item[2] + 2) \cup lookaheads
  ELSE FirstRhs(G, G.rhs[item[1]], item[2] + 2)

\* The lookaheads do_close() hands them, FIRST(de) for [A -> b.Cd, e]: REMOVE takes
\* EPSILON out before the item's own lookaheads are united with the rest.
Follow(G, item, lookaheads) ==
  IF RhsIsNullable(G, G.rhs[item[1]], item[2] + 2)
  THEN (FirstRhs(G, G.rhs[item[1]], item[2] + 2) \ {EPSILON(G)}) \cup lookaheads
  ELSE FirstRhs(G, G.rhs[item[1]], item[2] + 2) \ {EPSILON(G)}

\* An item of a production that goes to epsilon.
IsEpsilonItem(G, item) == G.rhs[item[1]] = <<>>

----------------------------------------------------------------------------
(***************************************************************************)
(* What a grammar must be for the modules that use it: the shape of the    *)
(* symbol table, and a goal symbol with one right-hand side                *)
(* (make_parse_tables() stops otherwise) that no production mentions.      *)
(***************************************************************************)
IsSymbolTable(G) ==
  /\ G.terms \subseteq 1 .. MINNONTERM - 2
  /\ G.nonterms \subseteq MINNONTERM .. MINACT - 1
  /\ 0 \in Productions(G)
  /\ Productions(G) \subseteq Nat
  /\ G.lhs \in [Productions(G) -> G.nonterms]
  /\ DOMAIN G.rhs = Productions(G)
  /\ G.first \in [G.nonterms -> SUBSET (G.terms \cup {EPSILON(G)})]

IsGrammar(G) ==
  /\ IsSymbolTable(G)
  /\ G.rhs \in [Productions(G) -> Seq(Symbols(G))]
  /\ ProductionsOf(G, G.lhs[0]) = {0}
  /\ \A p \in Productions(G) : \A i \in 1 .. Len(G.rhs[p]) : G.rhs[p][i] # G.lhs[0]
============================================================================
