---------------------------- MODULE MCLrStates ----------------------------
(***************************************************************************)
(* lr() on grammars that are known to be awkward, and on every grammar of  *)
(* a small family.  Their FIRST sets are those first() leaves (FirstSets). *)
(***************************************************************************)
EXTENDS LrStatesInv, LalrReference

\* e: e + t | t;  t: t * NUM | NUM, the shape of the calculators in test/
Expr == Build(1 .. 4, 256 .. 258,
  << <<256, <<257, 4>>>>, <<257, <<257, 1, 258>>>>, <<257, <<258>>>>,
     <<258, <<258, 2, 3>>>>, <<258, <<3>>>> >>)

\* s: l = r | r;  l: * r | ID;  r: l, which is LALR(1) and not SLR(1)
Assign == Build(1 .. 3, 256 .. 259,
  << <<256, <<257>>>>, <<257, <<258, 1, 259>>>>, <<257, <<259>>>>,
     <<258, <<2, 259>>>>, <<258, <<3>>>>, <<259, <<258>>>> >>)

\* a A d | b B d | a B e | b A e;  A: c;  B: c: merging LR(1) states brings conflicts
Merged == Build(1 .. 5, 256 .. 259,
  << <<256, <<257>>>>, <<257, <<1, 258, 3>>>>, <<257, <<2, 259, 3>>>>,
     <<257, <<1, 259, 4>>>>, <<257, <<2, 258, 4>>>>, <<258, <<5>>>>, <<259, <<5>>>> >>)

\* Epsilon items in states that are closed again: an optional prefix that nests.
Nested == Build(1 .. 3, 256 .. 258,
  << <<256, <<257>>>>, <<257, <<258, 257, 1>>>>, <<257, <<2>>>>, <<258, <<>>>>,
     <<258, <<3>>>> >>)

\* A state gains lookaheads after it was closed, for one of its two items, and has to
\* hand them on to a state that has left the tree, too.
Regained == Build(1 .. 6, 256 .. 259,
  << <<256, <<257>>>>, <<257, <<258, 2>>>>, <<257, <<259>>>>, <<257, <<4, 258, 3>>>>,
     <<257, <<4, 259>>>>, <<258, <<1, 5>>>>, <<259, <<1, 5, 6>>>> >>)

\* A nonterminal without productions, which nothing reports (main.c, do_file()).
Undefined == Build(1 .. 2, 256 .. 259,
  << <<256, <<257>>>>, <<257, <<258, 259, 1>>>>, <<258, <<257, 2>>>>, <<258, <<>>>> >>)

\* e: {action} NUM e | NUM: patch() has made the action a nonterminal, after first().
Action == [Build({1}, {256, 257, 258},
             << <<256, <<257>>>>, <<257, <<258, 1, 257>>>>, <<257, <<1>>>>, <<258, <<>>>> >>)
           EXCEPT !.first[257] = {1}, !.first[256] = {1}]

Sides(symbols) == {<<>>} \cup {<<a>> : a \in symbols} \cup {<<a, b>> : a, b \in symbols}

\* 256: 257;  257: two sides;  258: two sides
Family ==
  {Build(1 .. 2, 256 .. 258,
     << <<256, <<257>>>>, <<257, x>>, <<257, y>>, <<258, z>>, <<258, w>> >>) :
     x \in Sides({1, 257, 258}) \ {<<257>>}, y \in {<<>>, <<258, 2>>},
     z \in {<<257>>, <<258, 1>>}, w \in {<<>>, <<2>>}}

\* One grammar for each table of lr() that can fill up: the states, the kernel items of
\* one, its closure items, its epsilon items, the unfinished states.
Long == Build(1 .. 2, {256}, << <<256, [i \in 1 .. 14 |-> 1]>> >>)

WideKernel == Build(1 .. 4, {256, 257},
  << <<256, <<257>>>>, <<257, <<1, 1>>>>, <<257, <<1, 2>>>>, <<257, <<1, 3>>>>,
     <<257, <<1, 4>>>> >>)

WideClosure == Build(1 .. 3, {256, 257, 258},
  << <<256, <<257, 258>>>>, <<257, <<1>>>>, <<257, <<2>>>>, <<257, <<3>>>>,
     <<257, <<1, 1>>>>, <<257, <<2, 2>>>>, <<257, <<2, 1>>>>, <<257, <<3, 3>>>>,
     <<257, <<3, 1>>>> >>)

Epsilons == Build({1}, 256 .. 259,
  << <<256, <<257>>>>, <<257, <<258, 1>>>>, <<257, <<259, 1>>>>, <<257, <<>>>>,
     <<258, <<>>>>, <<259, <<>>>> >>)

WideNode == Build(1 .. 7, {256, 257},
  << <<256, <<257>>>>, <<257, <<1>>>>, <<257, <<2>>>>, <<257, <<3>>>>,
     <<257, <<4>>>>, <<257, <<5>>>>, <<257, <<6>>>>, <<257, <<7>>>> >>)

Limits == {Long, WideKernel, WideClosure, Epsilons, WideNode}

MCGrammars == {Expr, Assign, Merged, Nested, Regained, Undefined, Action} \cup Limits \cup Family

----------------------------------------------------------------------------
ASSUME LeastTableIsMergedLr1 == \A G \in MCGrammars : LeastTable(G) = MergedLr1(G)

MCReference == [G \in MCGrammars |-> LeastTable(G)]
============================================================================
