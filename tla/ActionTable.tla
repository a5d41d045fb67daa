---------------------------- MODULE ActionTable ----------------------------
(***************************************************************************)
(* What make_parse_tables() does behind lr(): reductions() completes the   *)
(* rows of the action table (Reductions, for one state), and then          *)
(* print_tab() prints all of them (PrintTab).  The row of that state is    *)
(* one chain of the table, at any place; the rows of the other states are  *)
(* given.                                                                  *)
(***************************************************************************)
EXTENDS Reductions, PrintTab

CONSTANTS
  Tables(_),       \* machine -> the tables its row may stand in
  Places(_)        \* machine -> the numbers its state may have

NotPrinted == -1

VARIABLES
  state         \* the number of the state whose row it is, once that is printed

tableVars == <<vars, printVars, state>>

\* add_action() puts an action in front of a row: its order is that in which they came.
ChainsOf(row) ==
  {chain \in [1 .. Cardinality(DOMAIN row) -> {<<token, row[token]>> : token \in DOMAIN row}] :
     \A token \in DOMAIN row : \E n \in DOMAIN chain : chain[n][1] = token}

\* What lr() and addreductions() put into the row of a state.
ActionsOf(M) ==
  {M.shifts[token] : token \in DOMAIN M.shifts}
  \cup {-M.items[n].prod_num : n \in DOMAIN M.items}

ASSUME ActionTableAssumption ==
  /\ Tokens \subseteq Symbols
  /\ \A M \in Machines : Tables(M) \subseteq [States -> Chains]
  /\ \A some \in SUBSET Tokens, values \in {ActionsOf(M) : M \in Machines} :
       \A row \in [some -> values] : ChainsOf(row) \subseteq Chains

TableInit ==
  /\ Init
  /\ chains = [n \in States |-> <<>>]
  /\ PrintInit
  /\ state = NotPrinted

\* Mutant: printed before the last item is visited.
BeforeTheLast == k >= Len(machine.items)

\* reductions() returns before anything is printed.
ReductionsDone == Done

ReducingStep ==
  /\ state = NotPrinted
  /\ Next
  /\ UNCHANGED <<printVars, state>>

\* print_tab(Actions, ...) begins.
BeginPrinting ==
  /\ state = NotPrinted
  /\ ReductionsDone
  /\ \E others \in Tables(machine), chain \in ChainsOf(actions) :
       \E n \in Places(machine) \cap States :
         /\ state' = n
         /\ chains' = [others EXCEPT ![n] = chain]
  /\ UNCHANGED <<vars, table, redundant, i, j, rows, pointers, pc>>

Printing ==
  /\ state # NotPrinted
  /\ PrintNext
  /\ UNCHANGED <<vars, state>>

TableNext == ReducingStep \/ BeginPrinting \/ Printing

TableSpec == TableInit /\ [][TableNext]_tableVars

\* The row holds shifts and reductions of its state only, elements of the table lead to
\* elements of it, and what is printed are chains.
TableTypeOK ==
  /\ TypeOK
  /\ PrintTypeOK
  /\ state \in States \cup {NotPrinted}

\* From the items to the parser: what yy_next() reads for a state and a token in the printed
\* tables is the outcome of the disambiguating rules for its shifts and items, and an error
\* where it has neither.
ParserReadsRules ==
  state # NotPrinted /\ pc = "done" =>
    \A token \in Tokens :
      yy_next(state, token) =
        IF token \in DOMAIN machine.shifts \/ Reducing(token) # {} THEN Outcome(token) ELSE YYF
============================================================================
