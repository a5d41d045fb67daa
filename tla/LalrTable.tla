----------------------------- MODULE LalrTable -----------------------------
(***************************************************************************)
(* What an LALR(1) state machine is, apart from how lr() builds it.        *)
(*                                                                         *)
(* A state is named by its core, the set of its kernel items.  A set of    *)
(* triples <<core, item, token>> says which lookaheads the items of which  *)
(* states have; the least set closed under the three rules of LalrClosed   *)
(* is the LALR(1) table of the grammar.  The token PRESENT, which is no    *)
(* token of any grammar, only says that the item is there: an item whose   *)
(* lookahead set is empty still hands FIRST sets on.                       *)
(***************************************************************************)
EXTENDS Grammar

PRESENT == MINNONTERM - 1

StartCore == {StartItem}

\* A set of nonterminals with everything right of a dot in `core' and everything its
\* own productions begin with.
LeftClosed(G, core, N) ==
  /\ \A item \in core :
       ~AtEnd(G, item) /\ ISNONTERM(G, RightOfDot(G, item)) => RightOfDot(G, item) \in N
  /\ \A p \in Productions(G) :
       G.lhs[p] \in N /\ ~AtEnd(G, <<p, 0>>) /\ ISNONTERM(G, RightOfDot(G, <<p, 0>>))
         => RightOfDot(G, <<p, 0>>) \in N

\* The items LR(0) closure adds to a core.
ClosureItems(G, core) ==
  {<<p, 0>> : p \in {q \in Productions(G) :
     \A N \in SUBSET G.nonterms : LeftClosed(G, core, N) => G.lhs[q] \in N}}

AllItems(G, core) == core \cup ClosureItems(G, core)

\* The symbols a state has a transition on, and the core each one leads to.
OutSymbols(G, core) ==
  {RightOfDot(G, item) : item \in {i \in AllItems(G, core) : ~AtEnd(G, i)}}

GotoCore(G, core, sym) ==
  {MoveDot(item) : item \in {i \in AllItems(G, core) :
                               ~AtEnd(G, i) /\ RightOfDot(G, i) = sym}}

----------------------------------------------------------------------------
\* The start item has the two lookaheads make_parse_tables() gives it.
StartRule(L) ==
  \A token \in {EOI, WHITESPACE, PRESENT} : <<StartCore, StartItem, token>> \in L

\* [A -> b.Cd, e] brings [C -> .x, FIRST(de)].
ClosureRule(G, L) ==
  \A entry \in L : \A new \in Derived(G, entry[2]) :
    \A token \in Follow(G, entry[2], {entry[3]}) \cup {PRESENT} :
      <<entry[1], new, token>> \in L

\* [A -> b.Xd, e] goes on as [A -> bX.d, e] in the state behind X.
GotoRule(G, L) ==
  \A entry \in L : ~AtEnd(G, entry[2]) =>
    <<GotoCore(G, entry[1], RightOfDot(G, entry[2])), MoveDot(entry[2]), entry[3]>> \in L

LalrClosed(G, L) == StartRule(L) /\ ClosureRule(G, L) /\ GotoRule(G, L)
============================================================================
