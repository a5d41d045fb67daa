------------------------------ MODULE PrintTab ------------------------------
(***************************************************************************)
(* print_tab() of yystate.c, which prints the action and the goto table as *)
(* compressed rows and an array of pointers to them, and yy_next() of      *)
(* rbison.par, which reads them.                                           *)
(*                                                                         *)
(* A chain of ACTs is a sequence of pairs <<sym, do_this>>.  A table       *)
(* element is the state whose chain it leads to: its own, or, where        *)
(* print_tab() has made it point at another element, that one's.  A        *)
(* pointer that may be NULL is a set of at most one row.                   *)
(***************************************************************************)
EXTENDS Integers, Sequences

CONSTANTS
  Nstates,      \* number of rows
  Chains,       \* the chains lr() and reductions() may leave in a row
  Symbols       \* what yy_next() may be asked about

ASSUME TableAssumption ==
  /\ Nstates \in Nat
  /\ Chains \subseteq Seq(Symbols \X Int)

States == 0 .. Nstates - 1

VARIABLES
  chains,       \* state -> its chain
  table,        \* state -> the state whose chain its element leads to
  redundant,    \* the rows marked as duplicates
  i, j,         \* loop counters: the template row and the row compared with it
  rows,         \* printed rows, by the number in their name
  pointers,     \* elements of the pointer array printed so far
  pc            \* "mark", "rows", "pointers" or "done"

printVars == <<chains, table, redundant, i, j, rows, pointers, pc>>

PrintInit ==
  /\ chains \in [States -> Chains]
  /\ table = [n \in States |-> n]
  /\ redundant = {}
  /\ i = 0
  /\ j = 1
  /\ rows = [n \in {} |-> <<>>]
  /\ pointers = [n \in {} |-> {}]
  /\ pc = "mark"

----------------------------------------------------------------------------
\* Mutant: one chain may go on where the other ends.
SamePrefix(m, n) ==
  \A k \in 1 .. Len(chains[m]) : k <= Len(chains[n]) => chains[m][k] = chains[n][k]

\* for (; ele && e; ele = ele->next, e = e->next), and both chains end there
SameChain(m, n) == chains[m] = chains[n]

\* MEMBER(redundant, n)
IsMarked(n) == n \in redundant

\* Mutant: the pointer is one element behind.
ElementBefore(n) == n - 1

\* The table element a marked row is made to point at: elep.
TemplateElement(n) == n

\* Row j is compared with row i, and marked when it is the same.
CompareRows ==
  /\ pc = "mark"
  /\ i < Nstates
  /\ j < Nstates
  /\ ~IsMarked(i)
  /\ IF ~IsMarked(j) /\ chains[i] # <<>> /\ chains[j] # <<>> /\ SameChain(i, j)
     THEN /\ redundant' = redundant \cup {j}
          /\ table' = [table EXCEPT ![j] = TemplateElement(i)]
     ELSE UNCHANGED <<redundant, table>>
  /\ j' = j + 1
  /\ UNCHANGED <<chains, i, rows, pointers, pc>>

\* On to the next template: `continue', or the end of the inner loop.
NextTemplate ==
  /\ pc = "mark"
  /\ i < Nstates
  /\ IsMarked(i) \/ j >= Nstates
  /\ i' = i + 1
  /\ j' = i + 2
  /\ UNCHANGED <<chains, table, redundant, rows, pointers, pc>>

RowsMarked ==
  /\ pc = "mark"
  /\ i >= Nstates
  /\ i' = 0
  /\ pc' = "rows"
  /\ UNCHANGED <<chains, table, redundant, j, rows, pointers>>

\* !*elep || MEMBER(redundant, i) skips the row
PrintsRow(n) == chains[n] # <<>> /\ ~IsMarked(n)

\* Yya000[] = { ... }
PrintRow ==
  /\ pc = "rows"
  /\ i < Nstates
  /\ rows' = IF PrintsRow(i)
             THEN [n \in DOMAIN rows \cup {i} |-> IF n = i THEN chains[i] ELSE rows[n]]
             ELSE rows
  /\ i' = i + 1
  /\ UNCHANGED <<chains, table, redundant, j, pointers, pc>>

RowsPrinted ==
  /\ pc = "rows"
  /\ i >= Nstates
  /\ i' = 0
  /\ pc' = "pointers"
  /\ UNCHANGED <<chains, table, redundant, j, rows, pointers>>

\* Mutant: an element gets the name of its own row, printed or not.
OwnRow(n) == IF chains[n] # <<>> THEN {n} ELSE {}

\* The element printed for a state.
PointerTo(n) ==
  IF IsMarked(n) THEN {table[n]} ELSE IF chains[n] # <<>> THEN {n} ELSE {}

\* Yy_action[] = { ... }
PrintPointer ==
  /\ pc = "pointers"
  /\ i < Nstates
  /\ pointers' = [n \in DOMAIN pointers \cup {i} |->
                    IF n = i THEN PointerTo(i) ELSE pointers[n]]
  /\ i' = i + 1
  /\ UNCHANGED <<chains, table, redundant, j, rows, pc>>

PrintTabReturns ==
  /\ pc = "pointers"
  /\ i >= Nstates
  /\ pc' = "done"
  /\ UNCHANGED <<chains, table, redundant, i, j, rows, pointers>>

PrintNext ==
  \/ CompareRows
  \/ NextTemplate
  \/ RowsMarked
  \/ PrintRow
  \/ RowsPrinted
  \/ PrintPointer
  \/ PrintTabReturns

PrintSpec == PrintInit /\ [][PrintNext]_printVars

----------------------------------------------------------------------------
\* The error transition.
YYF == 32767

\* The first pair with the input, searched from the front.
Lookup(chain, input, default) ==
  IF \E k \in 1 .. Len(chain) : chain[k][1] = input
  THEN chain[CHOOSE k \in 1 .. Len(chain) :
               chain[k][1] = input /\ \A m \in 1 .. k - 1 : chain[m][1] # input][2]
  ELSE default

\* What p_action() and p_goto() find in the chains.
ActionOf(state, input) == Lookup(chains[state], input, YYF)

\* yy_next() on what was printed.
yy_next(state, input) ==
  IF pointers[state] = {} THEN YYF
  ELSE Lookup(rows[CHOOSE name \in pointers[state] : TRUE], input, YYF)

----------------------------------------------------------------------------
(***************************************************************************)
(* Properties.                                                             *)
(***************************************************************************)
PrintTypeOK ==
  /\ chains \in [States -> Chains]
  /\ table \in [States -> States]
  /\ redundant \subseteq States
  /\ i \in 0 .. Nstates
  /\ j \in 1 .. Nstates + 1
  /\ DOMAIN rows \subseteq States
  /\ \A n \in DOMAIN rows : rows[n] \in Chains
  /\ DOMAIN pointers \subseteq States
  /\ \A n \in DOMAIN pointers : pointers[n] \subseteq States
  /\ pc \in {"mark", "rows", "pointers", "done"}

\* Compression changes nothing: the parser finds in the printed tables, for every state
\* and every input, what the chains of that state hold, and the error transition where
\* they hold nothing. (print_tab(), yy_next())
LookupAgrees ==
  pc = "done" =>
    \A state \in States, input \in Symbols : yy_next(state, input) = ActionOf(state, input)

\* What is printed compiles and is as small as print_tab() claims: the pointer array names
\* only rows printed before it, each of the static rows is used by it, and no row is
\* printed twice (`only one copy of it is kept around').
NamesDeclared ==
  /\ \A m, n \in DOMAIN rows : rows[m] = rows[n] => m = n
  /\ \A n \in DOMAIN pointers : pointers[n] \subseteq DOMAIN rows
  /\ pc = "done" => \A name \in DOMAIN rows : \E n \in States : name \in pointers[n]
============================================================================
