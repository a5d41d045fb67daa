----------------------------- MODULE Generator -----------------------------
(***************************************************************************)
(* do_file() of main.c up to the point where lr() begins: the grammar file *)
(* is parsed (GrammarFile), first() finds the FIRST sets, patch() turns    *)
(* embedded actions into nonterminals and prints the cases of yy_act(),    *)
(* and make_parse_tables() looks whether there is one start production.    *)
(*                                                                         *)
(* first() is one step here; First has its loops, and shows that they end  *)
(* in CodeFirst.  ptab() hands dopatch() the symbols in the order of the   *)
(* hash table, which is arbitrary.                                         *)
(***************************************************************************)
EXTENDS GrammarFile, FileMeaning

VARIABLES
  first,      \* nonterminal -> SYMBOL.first
  cases,      \* the cases printed: case_val, action, rhs_size, prod, fields
  todo,       \* the nonterminals ptab() has still to hand to dopatch()
  chain       \* what is left of the productions of the one it has

allVars == <<vars, first, cases, todo, chain>>

\* The grammar in the symbol table, as first() and lr() read it up to the last symbol of a
\* right-hand side; they go on as far as rhs_len counts.
GrammarOf(t, sets) ==
  [terms    |-> 1 .. t.Cur_term,
   nonterms |-> {v \in DOMAIN t.symbols : IsNonterm(v)},
   lhs      |-> [p \in DOMAIN t.productions |-> t.productions[p].lhs],
   rhs      |-> [p \in DOMAIN t.productions |-> t.productions[p].rhs],
   first    |-> sets]

GeneratorInit ==
  /\ Init
  /\ first = [v \in {} |-> {}]
  /\ cases = {}
  /\ todo = {}
  /\ chain = <<>>

Parsing == Parse /\ UNCHANGED <<first, cases, todo, chain>>

\* if (!sym->set && !ISACT(sym)), whether the symbol was used or not
Unset(t) ==
  {v \in DOMAIN t.symbols : ~IsAct(v) /\ ~t.symbols[v].set}

\* problems(): one error for each symbol without a definition.
Problems(t) == [t EXCEPT !.yynerrs = @ + Cardinality(Unset(t))]

\* if (!yynerrs || problems()).  problems() is only called after an error, and then
\* returns the number of all errors: the analysis always goes on.
CheckProblems ==
  /\ pc = "parsed"
  /\ LET checked == IF tables.yynerrs = 0 THEN tables ELSE Problems(tables)
     IN /\ tables' = checked
        /\ pc' = IF tables.yynerrs = 0 \/ checked.yynerrs # 0 THEN "first" ELSE "done"
  /\ UNCHANGED <<input, rest, Lookahead, Locals, first, cases, todo, chain>>

AfterParsing == UNCHANGED <<input, rest, Lookahead, Locals>>

\* rhs_len counts the symbols that did not fit, too (acts.c:406), although parser.h:121 calls
\* it the number of elements in rhs[].
TooLong(t) ==
  {p \in DOMAIN t.productions : t.productions[p].rhs_len > Len(t.productions[p].rhs)}

\* first_closure() comes to the NULL behind a right-hand side that is too long, when there
\* is nothing in it to stop at, and something else than actions to begin for.
RunsOut(t, sets) ==
  LET G == GrammarOf(t, sets)
  IN \E p \in TooLong(t) :
       ~NoSymbols(G.rhs[p]) /\ NullableRun(G, G.rhs[p], 1, Len(G.rhs[p]))

\* first(), and Last_real_nonterm = Cur_nonterm at the beginning of patch().
FindFirst ==
  /\ pc = "first"
  /\ LET G    == GrammarOf(tables, <<>>)
         sets == CodeFirst(G)
     IN \/ /\ RunsOut(tables, sets)
           /\ Call([tables EXCEPT !.status = "undefined"], "first")
           /\ UNCHANGED <<first, todo>>
        \/ /\ ~RunsOut(tables, sets)
           /\ first' = sets
           /\ todo' = G.nonterms
           /\ pc' = "patch"
           /\ UNCHANGED tables
  /\ AfterParsing
  /\ UNCHANGED <<cases, chain>>

\* ptab() goes on to another symbol; terminals, actions and the nonterminals that were
\* actions are passed over.
PatchSymbol ==
  /\ pc = "patch"
  /\ chain = <<>>
  /\ \E sym \in todo :
       /\ todo' = todo \ {sym}
       /\ chain' = tables.symbols[sym].productions
  /\ AfterParsing
  /\ UNCHANGED <<tables, pc, first, cases>>

----------------------------------------------------------------------------
(***************************************************************************)
(* dopatch() on one production.                                            *)
(***************************************************************************)

\* The rightmost symbol is an action.  Where symbols were dropped from a right-hand side
\* that is too long, rhs_len counts them, and the symbol looked at is the NULL behind it.
EndsWithAction(prod) ==
  /\ prod.rhs_len \in 1 .. Len(prod.rhs)
  /\ IsAct(prod.rhs[prod.rhs_len])

\* The positions of the actions that become nonterminals.
Embedded(prod) ==
  {i \in 1 .. Len(prod.rhs) :
     IsAct(prod.rhs[i]) /\ ~(EndsWithAction(prod) /\ i = prod.rhs_len)}

\* How many of them lie to the right, and are dealt with before.
Rank(prod, i) == Cardinality({j \in Embedded(prod) : j > i})

NewSymbol(t, prod, i)     == t.Cur_nonterm + 1 + Rank(prod, i)
NewProduction(t, prod, i) == t.Num_productions + Rank(prod, i)

\* rhs_size of print_one_case(): the elements in front of the action.
RhsSize(prod, i) == i - 1

\* The members of the union that do_dollar() names behind $$ and each $n, if there is one.
FieldsOf(t, prod, i) ==
  [n \in 0 .. RhsSize(prod, i) |->
     t.symbols[IF n = 0 THEN prod.lhs ELSE prod.rhs[n]].field]

CasesOf(t, p) ==
  LET prod == t.productions[p]
      case(i, val) == [case_val |-> val, action |-> t.symbols[prod.rhs[i]].name,
                       rhs_size |-> RhsSize(prod, i), prod |-> p,
                       fields |-> FieldsOf(t, prod, i)]
  IN {case(i, NewProduction(t, prod, i)) : i \in Embedded(prod)}
     \cup (IF EndsWithAction(prod) THEN {case(prod.rhs_len, p)} ELSE {})

\* An action symbol gets the value of a nonterminal with one production, which goes to
\* epsilon; the trailing one goes.
SymbolsAfter(t, prod) ==
  LET actions == {prod.rhs[i] : i \in {j \in DOMAIN prod.rhs : IsAct(prod.rhs[j])}}
      new == {NewSymbol(t, prod, i) : i \in Embedded(prod)}
      position(v) == CHOOSE i \in Embedded(prod) : NewSymbol(t, prod, i) = v
  IN [v \in (DOMAIN t.symbols \ actions) \cup new |->
        IF v \in new
        THEN [t.symbols[prod.rhs[position(v)]] EXCEPT
                !.productions = <<NewProduction(t, prod, position(v))>>]
        ELSE t.symbols[v]]

RhsAfter(t, prod) ==
  LET kept == Len(prod.rhs) - (IF EndsWithAction(prod) THEN 1 ELSE 0)
  IN [i \in 1 .. kept |->
        IF i \in Embedded(prod) THEN NewSymbol(t, prod, i) ELSE prod.rhs[i]]

ProductionsAfter(t, p) ==
  LET prod == t.productions[p]
      new == {NewProduction(t, prod, i) : i \in Embedded(prod)}
      position(q) == CHOOSE i \in Embedded(prod) : NewProduction(t, prod, i) = q
  IN [q \in DOMAIN t.productions \cup new |->
        CASE q \in new -> [lhs |-> NewSymbol(t, prod, position(q)), rhs |-> <<>>,
                           rhs_len |-> 0, prec |-> 0]
          [] q = p -> [prod EXCEPT !.rhs = RhsAfter(t, prod),
                                   !.rhs_len = @ - (IF EndsWithAction(prod) THEN 1 ELSE 0)]
          [] OTHER -> t.productions[q]]

Patched(t, p) ==
  LET prod == t.productions[p]
      embedded == Cardinality(Embedded(prod))
  IN [t EXCEPT !.symbols = SymbolsAfter(t, prod),
               !.productions = ProductionsAfter(t, p),
               !.Cur_nonterm = @ + embedded,
               !.Num_productions = @ + embedded]

\* Mutant: FIRST of the new nonterminal stays empty.
NothingFirst(t) == {}

\* ADD(cur->first, EPSILON)
FirstOfAction(t) == {EPSILON(GrammarOf(t, <<>>))}

\* Behind a right-hand side that is too long by more than one symbol, dopatch() reads
\* what lies behind the array.
PatchProduction ==
  /\ pc = "patch"
  /\ chain # <<>>
  /\ LET p == Head(chain)
         prod == tables.productions[p]
         new == {NewSymbol(tables, prod, i) : i \in Embedded(prod)}
     IN CASE prod.rhs_len > MAXRHS + 1 ->
               /\ Call([tables EXCEPT !.status = "undefined"], "patch")
               /\ UNCHANGED <<first, cases>>
          [] prod.rhs_len <= MAXRHS + 1
             /\ tables.Cur_nonterm + Cardinality(new) > MAXNONTERM ->
               /\ Call(Fatal(tables), "patch")
               /\ UNCHANGED <<first, cases>>
          [] OTHER ->
               /\ Call(Patched(tables, p), "patch")
               /\ cases' = cases \cup CasesOf(tables, p)
               /\ first' = [v \in DOMAIN first \cup new |->
                              IF v \in new THEN FirstOfAction(tables) ELSE first[v]]
  /\ chain' = Tail(chain)
  /\ AfterParsing
  /\ UNCHANGED todo

PatchReturns ==
  /\ pc = "patch"
  /\ chain = <<>>
  /\ todo = {}
  /\ pc' = "tables"
  /\ AfterParsing
  /\ UNCHANGED <<tables, first, cases, todo, chain>>

\* What make_parse_tables() asks before it makes the start item.
MakeParseTables ==
  /\ pc = "tables"
  /\ LET goal == tables.Goal_symbol
     IN Call(IF goal = NULL \/ Len(tables.symbols[goal].productions) > 1
             THEN Fatal(tables) ELSE tables, "lr")
  /\ AfterParsing
  /\ UNCHANGED <<first, cases, todo, chain>>

Next ==
  \/ Parsing
  \/ CheckProblems
  \/ FindFirst
  \/ PatchSymbol
  \/ PatchProduction
  \/ PatchReturns
  \/ MakeParseTables

\* One process, which waits for nobody.
Fairness == WF_allVars(Next)

Spec == GeneratorInit /\ [][Next]_allVars /\ Fairness

----------------------------------------------------------------------------
(***************************************************************************)
(* Properties.                                                             *)
(***************************************************************************)
Values(t) ==
  1 .. t.Cur_term \cup MINNONTERM .. t.Cur_nonterm
  \cup {v \in MINACT .. t.Cur_act : v \in DOMAIN t.symbols}

\* The tables keep their limits, numbers of symbols and productions have no gaps, and
\* every production hangs in the chain of its left-hand side, once, newest first.
TypeOK ==
  /\ pc \in {"definitions", "union", "names", "lookfor", "body", "skipped", "colon", "rhs",
             "prec", "right_side", "parsed", "first", "patch", "tables", "lr", "exit",
             "undefined"}
  /\ tables.Cur_term \in 0 .. MAXTERM
  /\ tables.Cur_nonterm \in MINNONTERM - 1 .. MAXNONTERM
  /\ DOMAIN tables.symbols = Values(tables)
  /\ DOMAIN tables.productions = 0 .. tables.Num_productions - 1
  /\ \A p \in DOMAIN tables.productions :
       /\ IsNonterm(tables.productions[p].lhs)
       /\ Len(tables.productions[p].rhs) <= MAXRHS
       /\ \A i \in DOMAIN tables.productions[p].rhs :
            tables.productions[p].rhs[i] \in DOMAIN tables.symbols
  /\ \A v \in DOMAIN tables.symbols :
       LET linked == tables.symbols[v].productions
       IN /\ {linked[i] : i \in DOMAIN linked}
               = {p \in DOMAIN tables.productions : tables.productions[p].lhs = v}
          /\ \A i, j \in DOMAIN linked : i < j => linked[i] > linked[j]
  /\ first \in [DOMAIN first -> SUBSET (0 .. tables.Cur_term + 1)]

\* The actions that are not the last symbol of their right-hand side.
Inner(s) ==
  {i \in Objects(s) : KindAt(s, i) = "ACTION"
                      /\ Place(s, i) < Cardinality(ObjectsOf(s, StartOf(s, i)))}

\* Parsing a file that has a %%, with whatever recoveries it takes, ends without an error
\* counted just when the file is correct. A correct file only makes rbison stop, and then
\* with a single message, where there is no goal symbol, the goal has several right-hand
\* sides, or the actions inside right-hand sides are more than the nonterminals left.
\* (A file without %% is not correct by parser.c:288, but no error is counted for it.)
NoErrorIffCorrect ==
  /\ pc = "parsed" /\ HasSeparator(input) => (tables.yynerrs = 0 <=> CorrectFile(input))
  /\ pc \in {"exit", "undefined"} /\ CorrectFile(input) =>
       /\ pc = "exit" /\ tables.yynerrs = 1
       /\ \/ Starts(input) = {}
          \/ Cardinality({p \in Starts(input) :
                            LhsOf(input, p) = TextAt(input, Min(Lhss(input)))}) > 1
          \/ Cardinality(Nonterminals(input)) + Cardinality(Inner(input))
               > MAXNONTERM - MINNONTERM + 1

\* The symbol table of a file without errors is what the file says: productions in order,
\* with their left-hand sides and symbols, precedences from the last terminal or %prec,
\* and the first left-hand side as the goal. After patch() every action of the file is one
\* case of yy_act(), with the fields that were named for the symbols of $$ and $n (but for
\* symbols behind a list that named a field: see FieldsAsDeclared), under the production
\* that is reduced where the action stood: its own production if it was the last symbol,
\* and otherwise the only one of the nonterminal in its place, which is empty. The size $n
\* is counted from is the number of symbols in front of the action.
SymbolsAsDeclared ==
  pc = "parsed" /\ tables.yynerrs = 0 =>
    LET name(v) == tables.symbols[v].name
    IN /\ tables.Num_productions = Cardinality(Starts(input))
       /\ \A start \in Starts(input) :
            LET prod == tables.productions[Number(input, start)]
            IN /\ name(prod.lhs) = LhsOf(input, start)
               /\ prod.rhs_len = Cardinality(ObjectsOf(input, start))
               /\ prod.rhs_len = Len(prod.rhs)
               /\ prod.prec = PrecOf(input, start)
               /\ \A i \in ObjectsOf(input, start) :
                    LET v == prod.rhs[Place(input, i)]
                    IN /\ name(v) = TextAt(input, i)
                       /\ IsAct(v) <=> KindAt(input, i) = "ACTION"
                       /\ IsTerm(v) <=> KindAt(input, i) # "ACTION" /\ name(v) \in Terminals(input)
       /\ \A v \in 1 .. tables.Cur_term :
            tables.Precedence[v] =
              [level |-> LevelOf(input, name(v)), assoc |-> AssocOf(input, name(v))]
       /\ Lhss(input) # {} =>
            name(tables.Goal_symbol) = TextAt(input, Min(Lhss(input)))

ActionsPlaced ==
  pc = "tables" /\ tables.yynerrs = 0 =>
    LET actions == {i \in Objects(input) : KindAt(input, i) = "ACTION"}
        object(i, n) == CHOOSE j \in ObjectsOf(input, StartOf(input, i)) : Place(input, j) = n
        named(i, n) == IF n = 0 THEN LhsOf(input, StartOf(input, i))
                       ELSE TextAt(input, object(i, n))
        field(c, i, n) ==
          IF n # 0 /\ object(i, n) \in actions THEN c.fields[n] = ""
          ELSE FieldLeft(input, named(i, n)) \/ c.fields[n] = FieldOf(input, named(i, n))
        printed(i, val) ==
          \E c \in cases : /\ c.case_val = val
                           /\ c.action = TextAt(input, i)
                           /\ c.rhs_size = Place(input, i) - 1
                           /\ c.prod = Number(input, StartOf(input, i))
                           /\ \A n \in 0 .. Place(input, i) - 1 : field(c, i, n)
    IN /\ Cardinality(cases) = Cardinality(actions)
       /\ \A i \in actions :
            LET own == Number(input, StartOf(input, i))
                rhs == tables.productions[own].rhs
            IN IF Place(input, i) = Cardinality(ObjectsOf(input, StartOf(input, i)))
               THEN /\ printed(i, own)
                    /\ Len(rhs) = Place(input, i) - 1
               ELSE \E q \in DOMAIN tables.productions :
                      /\ tables.productions[q].lhs = rhs[Place(input, i)]
                      /\ tables.symbols[rhs[Place(input, i)]].productions = <<q>>
                      /\ tables.productions[q].rhs = <<>>
                      /\ printed(i, q)

TableIsFile == SymbolsAsDeclared /\ ActionsPlaced

\* What lr() begins with is a grammar as it needs it, without errors in the file and after
\* any but a right-hand side that is too long: only terminals and nonterminals on right-hand
\* sides, as many as rhs_len counts there, production 0 the only one of the goal symbol, and
\* sets that are still FIRST after patch() changed the productions (where first() was exact).
\* With rhs_len above what rhs[] holds, do_close() may follow the NULL behind the symbols.
ReadyForLr ==
  pc = "lr" /\ (tables.yynerrs = 0 \/ TooLong(tables) = {}) =>
    LET G == GrammarOf(tables, first)
    IN /\ IsSymbolTable(G)
       /\ \A p \in Productions(G) : tables.productions[p].rhs_len = Len(G.rhs[p])
       /\ \A p \in Productions(G) : \A i \in DOMAIN G.rhs[p] : G.rhs[p][i] \in Symbols(G)
       /\ tables.Goal_symbol = G.lhs[0]
       /\ ProductionsOf(G, G.lhs[0]) = {0}
       /\ PlainGrammar(G) => G.first = TrueFirst(G)

\* The generator gets to lr() or stops, whatever is in the file.
Termination == <>(pc \in {"lr", "exit", "undefined"})

(***************************************************************************)
(* What comments promise, and the code does not keep.                      *)
(***************************************************************************)

\* do_file() and problems(): the grammar is analysed if there are no problems in the input
\* file, and a symbol that is used but not defined is one.
UndefinedReported == pc = "lr" /\ tables.yynerrs = 0 => Undefined(input) = {}

\* definitions(): new_field("") behind each list, so that a field holds inside of it only.
FieldsAsDeclared ==
  pc = "lr" /\ tables.yynerrs = 0 =>
    \A v \in DOMAIN tables.symbols :
      tables.symbols[v].name \in Names(input) =>
        tables.symbols[v].field = FieldOf(input, tables.symbols[v].name)
============================================================================
