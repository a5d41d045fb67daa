------------------------------ MODULE MCParser ------------------------------
(***************************************************************************)
(* Parsers for small grammars, with the LALR(1) tables of LalrReference,   *)
(* on every input up to a length.                                          *)
(***************************************************************************)
EXTENDS Parser, LalrReference

\* The states, numbered from 0, as the sequence of their cores.
Numbered(cores) ==
  LET grown[k \in 1 .. Cardinality(cores)] ==
        IF k = 1 THEN <<StartCore>>
        ELSE LET left == cores \ {grown[k - 1][n] : n \in 1 .. k - 1}
             IN Append(grown[k - 1], CHOOSE core \in left : TRUE)
  IN grown[Cardinality(cores)]

\* One row: shifts, and the reductions the items at their end ask for. Where both are
\* there, or two reductions, `reduceFirst' says whether a reduction beats a shift, as
\* left-associative tokens of equal precedence have it; see Reductions.
ActionRow(G, table, cores, core, reduceFirst) ==
  LET number(c) == (CHOOSE n \in DOMAIN cores : cores[n] = c) - 1
      shifts == OutSymbols(G, core) \cap G.terms
      reduces(t) == {e[2][1] : e \in {f \in table : f[1] = core /\ f[3] = t /\ AtEnd(G, f[2])}}
      reducing == {t \in Tokens(G) : reduces(t) # {}}
  IN [t \in shifts \cup reducing |->
        IF t \in reducing /\ (reduceFirst \/ t \notin shifts)
        THEN -(CHOOSE p \in reduces(t) : \A q \in reduces(t) : p <= q)
        ELSE number(GotoCore(G, core, t))]

\* The strings of at most `max' tokens each symbol derives, with the height of the first
\* derivation found.
StringsOf(G, max) ==
  LET joined(A, B) == {s \o t : s \in A, t \in B}
      short(A) == {s \in A : Len(s) <= max}
      ofRhs(F, rhs) ==
        LET upTo[n \in 0 .. Len(rhs)] ==
              IF n = 0 THEN {<<>>} ELSE short(joined(upTo[n - 1], DOMAIN F[rhs[n]]))
        IN upTo[Len(rhs)]
      longer(F, A, k) ==
        LET new == UNION {ofRhs(F, G.rhs[p]) : p \in ProductionsOf(G, A)}
        IN [s \in DOMAIN F[A] \cup new |-> IF s \in DOMAIN F[A] THEN F[A][s] ELSE k]
      grown[k \in 0 .. 4 * max] ==
        IF k = 0
        THEN [A \in Symbols(G) |-> [s \in IF A \in G.terms THEN {<<A>>} ELSE {} |-> 0]]
        ELSE LET old == grown[k - 1]
                 new == [A \in Symbols(G) |-> longer(old, A, k)]
             IN IF new = old THEN old ELSE new
  IN grown[4 * max]

\* The token strings derived from what is behind each dot of a right-hand side.
AfterDots(rhs, derived, max) ==
  LET behind[k \in 0 .. Len(rhs)] ==
        IF k = 0 THEN {<<>>}
        ELSE {s \in {u \o v : u \in DOMAIN derived[rhs[Len(rhs) - k + 1]], v \in behind[k - 1]} :
                Len(s) <= max}
  IN [d \in 0 .. Len(rhs) |-> behind[Len(rhs) - d]]

\* The least costs of what a state begins: as many rounds as there are productions.
Costs(G, after, items) ==
  LET least(S) == CHOOSE x \in S : \A y \in S : x <= y
      shortest(item) == least({Len(s) : s \in after[item[1]][item[2]]})
      begun == {item[1] : item \in {i \in items : i[2] = 0}} \ {0}
      never == 1000
      offers(F, p) ==
        {IF item[2] > 0 \/ item[1] = 0 THEN shortest(<<item[1], item[2] + 1>>)
         ELSE shortest(<<item[1], item[2] + 1>>) + F[item[1]] + 1 :
           item \in {i \in items : i[2] < Len(G.rhs[i[1]]) /\ G.rhs[i[1]][i[2] + 1] = G.lhs[p]}}
      round[k \in 0 .. Cardinality(begun)] ==
        [p \in begun |-> IF k = 0 THEN never ELSE least(offers(round[k - 1], p))]
  IN [cost |-> round[Cardinality(begun)],
      end |-> least({shortest(item) : item \in items})]

\* The parser of a grammar, from its table of LALR(1) items, its numbered states and what
\* its symbols derive. (What is computed once comes as a parameter: under coverage, TLC
\* keeps a node for every place a definition is used at.)
Assembled(G, reduceFirst, table, cores, derived, maxInput, maxSentence) ==
  LET states == 0 .. Len(cores) - 1
      after == [p \in Productions(G) |-> AfterDots(G.rhs[p], derived, maxSentence)]
      items == [n \in states |->
                  {<<e[2][1], e[2][2], e[3]>> : e \in {f \in table : f[1] = cores[n + 1]}}]
      costs == [n \in states |-> Costs(G, after, items[n])]
      all == UNION {{costs[n].end} \cup {costs[n].cost[p] : p \in DOMAIN costs[n].cost} :
                      n \in states}
      number(c) == (CHOOSE n \in DOMAIN cores : cores[n] = c) - 1
  IN [Yy_action |-> [n \in states |-> ActionRow(G, table, cores, cores[n + 1], reduceFirst)],
      Yy_goto |-> [n \in states |->
                     [A \in OutSymbols(G, cores[n + 1]) \cap G.nonterms |->
                        number(GotoCore(G, cores[n + 1], A))]],
      Yy_lhs |-> G.lhs,
      Yy_reduce |-> [p \in Productions(G) |-> Len(G.rhs[p])],
      tokens |-> G.terms,
      rhs |-> G.rhs,
      items |-> items,
      accessing |-> [n \in states \ {0} |->
                       LET item == CHOOSE i \in cores[n + 1] : TRUE
                       IN G.rhs[item[1]][item[2]]],
      longest |-> maxSentence,
      strings |-> [A \in Symbols(G) |-> DOMAIN derived[A]],
      after |-> after,
      rank |-> derived,
      cost |-> [n \in states |-> costs[n].cost],
      most |-> CHOOSE x \in all : \A y \in all : y <= x,
      maxInput |-> maxInput]

WithStates(G, reduceFirst, table, maxInput, maxSentence) ==
  Assembled(G, reduceFirst, table, Numbered({entry[1] : entry \in table}),
            StringsOf(G, maxSentence), maxInput, maxSentence)

ParserFor(g) ==
  WithStates(g.grammar, g.reduceFirst, LeastTable(g.grammar), g.maxInput, g.maxSentence)

\* s: ( s ) | epsilon; deep enough to fill the stacks, by a shift and by a reduction
Parens == Build({1, 2}, {256, 257},
  << <<256, <<257>>>>, <<257, <<1, 257, 2>>>>, <<257, <<>>>> >>)

\* e: e + t | t;  t: t * NUM | NUM
Expr == Build(1 .. 3, 256 .. 258,
  << <<256, <<257>>>>, <<257, <<257, 1, 258>>>>, <<257, <<258>>>>,
     <<258, <<258, 2, 3>>>>, <<258, <<3>>>> >>)

\* a A c | b A d;  A: x | epsilon: one state reduces by A -> x on c and on d
Merged == Build(1 .. 5, 256 .. 258,
  << <<256, <<257>>>>, <<257, <<1, 258, 3>>>>, <<257, <<2, 258, 4>>>>,
     <<258, <<5>>>>, <<258, <<>>>> >>)

\* s: s e ; | epsilon;  e: e + e | NUM, with %left
Lines == Build(1 .. 3, 256 .. 258,
  << <<256, <<257>>>>, <<257, <<257, 258, 1>>>>, <<257, <<>>>>,
     <<258, <<258, 2, 258>>>>, <<258, <<3>>>> >>)

\* (The comparison is there for TLC, which then computes each table once, and so are the
\* definitions of their own the constants are replaced by.)
Evaluated(programs) == CHOOSE P \in {programs} : P = programs

Sized(G, reduceFirst, maxInput, maxSentence) ==
  [grammar |-> G, reduceFirst |-> reduceFirst, maxInput |-> maxInput, maxSentence |-> maxSentence]

SmallGrammars ==
  [parens |-> Sized(Parens, FALSE, 7, 14), expr |-> Sized(Expr, FALSE, 5, 11),
   merged |-> Sized(Merged, FALSE, 4, 16), lines |-> Sized(Lines, TRUE, 6, 12)]

ParsersFor(small) == Evaluated([name \in DOMAIN small |-> ParserFor(small[name])])

SmallParsers == ParsersFor(SmallGrammars)

MCPrograms == SmallParsers

\* What the theorems of ParserProofs assume of a parser besides IsParser: every one of the
\* parsers here accepts at the end only and has sentences as long as that asks for, and those
\* without conflicts are so.
ASSUME HypothesesHold ==
  /\ \A name \in DOMAIN MCPrograms :
       LET P == MCPrograms[name]
       IN /\ AcceptsAtEnd(P)
          /\ CanFinish(P)
          /\ P.maxInput + (YYMAXDEPTH + 1) * P.most <= P.longest
  /\ \A name \in {"parens", "expr", "merged"} : ConflictFree(MCPrograms[name])

\* s: # NUM, where # is the sixteenth of the grammar's terminals, the number of llout.h's
\* WHITESPACE; the terminals between are left out.
Sixteenth == Build({1, WHITESPACE}, {256, 257},
  << <<256, <<257>>>>, <<257, <<WHITESPACE, 1>>>> >>)

SixteenthParser == ParsersFor([sixteenth |-> Sized(Sixteenth, FALSE, 5, 5)])

SixteenthPrograms == SixteenthParser
============================================================================
