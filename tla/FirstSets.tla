----------------------------- MODULE FirstSets -----------------------------
(***************************************************************************)
(* FIRST sets as functions of a grammar: the set one call of               *)
(* first_closure() computes, the least fixpoint of these calls, and, for   *)
(* comparison, FIRST as textbooks define it.                               *)
(***************************************************************************)
EXTENDS Grammar, FiniteSets

\* prod->non_acts is zero.
NoSymbols(rhs) == \A i \in 1 .. Len(rhs) : ISACT(rhs[i])

\* What first_closure() adds for one production.
FirstOfProduction(G, p) ==
  IF NoSymbols(G.rhs[p]) THEN {EPSILON(G)} ELSE FirstRhs(G, G.rhs[p], 1)

\* lhs->first after first_closure(lhs).
FirstClosure(G, lhs) ==
  G.first[lhs] \cup UNION {FirstOfProduction(G, p) : p \in ProductionsOf(G, lhs)}

\* The grammar with other FIRST sets.
WithFirst(G, F) == [G EXCEPT !.first = F]

NoFirst(G) == [A \in G.nonterms |-> {}]

FirstFamilies(G) == [G.nonterms -> SUBSET (G.terms \cup {EPSILON(G)})]

\* A step on families of FIRST sets, applied to the empty sets as often as it can still
\* change something: EPSILON and every terminal can enter every set once.
Iterate(G, step) ==
  LET rounds == Cardinality(G.nonterms) * (Cardinality(G.terms) + 1)
      f[k \in 0 .. rounds] == IF k = 0 THEN NoFirst(G) ELSE step[f[k - 1]]
  IN f[rounds]

CodeStep(G) ==
  [F \in FirstFamilies(G) |-> [A \in G.nonterms |-> FirstClosure(WithFirst(G, F), A)]]

\* The least family of sets every call of first_closure() leaves as it is.
CodeFirst(G) == Iterate(G, CodeStep(G))

----------------------------------------------------------------------------
(***************************************************************************)
(* FIRST by definition: EPSILON is in FIRST(A) just when A derives the     *)
(* empty string, which only a production all of whose symbols do brings.   *)
(***************************************************************************)
TrueOfProduction(G, p) ==
  (FirstOfProduction(G, p) \ {EPSILON(G)})
  \cup (IF RhsIsNullable(G, G.rhs[p], 1) THEN {EPSILON(G)} ELSE {})

TrueStep(G) ==
  [F \in FirstFamilies(G) |->
     [A \in G.nonterms |->
        F[A] \cup UNION {TrueOfProduction(WithFirst(G, F), p) : p \in ProductionsOf(G, A)}]]

TrueFirst(G) == Iterate(G, TrueStep(G))

\* No production goes on behind a nullable nonterminal to a symbol that is not
\* nullable: here first_closure()'s UNION adds no EPSILON that does not belong there.
PlainGrammar(G) ==
  LET H == WithFirst(G, TrueFirst(G))
  IN \A p \in Productions(G) :
       LET rhs == G.rhs[p]
       IN \/ RhsIsNullable(H, rhs, 1)
          \/ \A i \in 1 .. Len(rhs) : NULLABLE(H, rhs[i]) => ~NullableRun(H, rhs, 1, i - 1)
============================================================================
