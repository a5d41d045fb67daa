------------------------------- MODULE First -------------------------------
(***************************************************************************)
(* first() of first.c: FIRST sets for all nonterminals, by calls of        *)
(* first_closure() on every symbol of the table, repeated as long as one   *)
(* of them changed a set.                                                  *)
(*                                                                         *)
(* ptab() visits the symbols in the order of the hash table, which depends *)
(* on their names: here the order is arbitrary, and may differ from one    *)
(* pass to the next.                                                       *)
(***************************************************************************)
EXTENDS FirstSets

CONSTANTS Grammars    \* grammars with no FIRST sets yet

ASSUME GrammarsAssumption ==
  \A G \in Grammars :
    /\ G = [terms |-> G.terms, nonterms |-> G.nonterms, lhs |-> G.lhs, rhs |-> G.rhs,
            first |-> NoFirst(G)]
    /\ IsSymbolTable(G)
    /\ \A p \in Productions(G) :
         /\ G.rhs[p] \in Seq(Nat)
         /\ \A i \in DOMAIN G.rhs[p] : G.rhs[p][i] \in Symbols(G) \/ ISACT(G.rhs[p][i])

VARIABLES
  grammar,    \* the symbol table; only `first' of its symbols changes
  unvisited,  \* the nonterminals ptab() has still to visit in this pass
  diff,       \* a set changed in this pass
  at          \* "pass" in a pass, "done" when first() has returned

firstVars == <<grammar, unvisited, diff, at>>

FirstInit ==
  /\ grammar \in Grammars
  /\ unvisited = grammar.nonterms
  /\ diff = FALSE
  /\ at = "pass"

\* The change of one symbol: first_closure() as it is now.
UpdateFirst(G, lhs) == [G.first EXCEPT ![lhs] = FirstClosure(G, lhs)]

\* first_closure() on the next symbol of the table.
VisitSymbol ==
  /\ at = "pass"
  /\ \E lhs \in unvisited :
       LET new == UpdateFirst(grammar, lhs)
       IN /\ grammar' = WithFirst(grammar, new)
          /\ diff' = (diff \/ new # grammar.first)
          /\ unvisited' = unvisited \ {lhs}
  /\ UNCHANGED at

\* Mutant: diff is not reset between the passes.
NextPassKeepingDiff ==
  /\ at = "pass"
  /\ unvisited = {}
  /\ diff
  /\ unvisited' = grammar.nonterms
  /\ UNCHANGED <<grammar, diff, at>>

\* do { diff = 0; ptab(...); } while (diff)
NextPass ==
  /\ at = "pass"
  /\ unvisited = {}
  /\ diff
  /\ diff' = FALSE
  /\ unvisited' = grammar.nonterms
  /\ UNCHANGED <<grammar, at>>

\* Mutant: one pass is taken for enough.
OnePass == TRUE

NothingChanged == ~diff

FirstReturns ==
  /\ at = "pass"
  /\ unvisited = {}
  /\ NothingChanged
  /\ at' = "done"
  /\ UNCHANGED <<grammar, unvisited, diff>>

FirstNext == VisitSymbol \/ NextPass \/ FirstReturns

\* first() runs in the one process there is, and nothing stops it.
FirstFairness == WF_firstVars(FirstNext)

FirstSpec == FirstInit /\ [][FirstNext]_firstVars /\ FirstFairness

----------------------------------------------------------------------------
(***************************************************************************)
(* Properties.                                                             *)
(***************************************************************************)

\* The grammar as first() got it.
Given == WithFirst(grammar, NoFirst(grammar))

FirstTypeOK ==
  /\ IsSymbolTable(grammar)
  /\ unvisited \subseteq grammar.nonterms
  /\ diff \in BOOLEAN
  /\ at \in {"pass", "done"}

\* first_closure() adds nothing to any of the sets.
Closed(G, F) == \A A \in G.nonterms : FirstClosure(WithFirst(G, F), A) \subseteq F[A]

\* The order of the hash table does not matter: first() ends with the least family of
\* sets that first_closure() leaves as it is, whatever order ptab() visits symbols in.
OrderIndependent ==
  at = "done" =>
    /\ Closed(grammar, grammar.first)
    /\ \A F \in FirstFamilies(grammar) :
         Closed(grammar, F) => \A A \in grammar.nonterms : grammar.first[A] \subseteq F[A]

\* Nothing is missing: every terminal a nonterminal's strings can begin with, and
\* EPSILON when it derives the empty string, is in its set, however far the terminal is
\* behind nullable nonterminals and actions. (rules 1 and 2 of first_closure())  Where no
\* production goes on behind a nullable nonterminal to a symbol that is not nullable, the
\* sets are FIRST exactly.
FirstComplete ==
  at = "done" =>
    /\ \A A \in grammar.nonterms : TrueFirst(Given)[A] \subseteq grammar.first[A]
    /\ PlainGrammar(Given) => grammar.first = TrueFirst(Given)

\* Both, and CodeFirst is that family.
FirstSetsRight ==
  /\ OrderIndependent
  /\ FirstComplete
  /\ at = "done" => grammar.first = CodeFirst(Given)

\* first() returns: a pass that changes nothing comes.
FirstTermination == <>(at = "done")
============================================================================
