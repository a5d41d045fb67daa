------------------------------ MODULE LrStates ------------------------------
(***************************************************************************)
(* lr() of yystate.c: the construction of the LALR(1) state machine.       *)
(*                                                                         *)
(* lr() takes the unfinished state with the smallest number, closes its    *)
(* kernel (closure() and do_close()), adds the shifting kernel items       *)
(* (kclosure()), moves the epsilon items into the state (move_eps()), and  *)
(* then makes or finds the successor state for one symbol after another,   *)
(* merging lookaheads into the successors that exist already and putting   *)
(* those that gained some back among the unfinished states.                *)
(*                                                                         *)
(* One state is one iteration of one of these loops.  Item lists are       *)
(* functions from items to lookahead sets: items of equal production and   *)
(* dot never occur twice in a list, since the goal symbol is on no         *)
(* right-hand side (IsGrammar).  do_close() visits the items of a list in  *)
(* an arbitrary order here.  The Actions and Gotos chains are one function *)
(* `transitions', as a symbol's value says to which of them it belongs.    *)
(***************************************************************************)
EXTENDS LalrTable, FiniteSets

CONSTANTS
  Grammars,         \* the grammars a behaviour may start from
  Reference,        \* grammar -> a set of triples closed under the LALR(1) rules
  MAXSTATE,         \* yystate.c: the array sizes that end the run when exceeded
  MAXKERNEL,
  MAXCLOSE,
  MAXEPSILON,
  MAX_UNFINISHED

ASSUME GrammarsAssumption == \A G \in Grammars : IsGrammar(G)

ASSUME ReferenceAssumption == \A G \in Grammars : LalrClosed(G, Reference[G])

ASSUME LimitsAssumption ==
  /\ MAXSTATE \in Nat \ {0}
  /\ MAXKERNEL \in Nat \ {0}
  /\ MAXCLOSE \in Nat
  /\ MAXEPSILON \in Nat
  /\ MAX_UNFINISHED \in Nat \ {0}

VARIABLES
  grammar,          \* the symbol table, fixed while lr() runs
  Nstates,          \* number of states made
  kernel,           \* state -> its kernel items with their lookaheads
  epsilon,          \* state -> its epsilon items with their lookaheads
  closed,           \* the states whose `closed' flag is set
  transitions,      \* state -> symbol -> next state (Actions[] and Gotos[])
  Unfinished,       \* the states in the tree of unfinished states
  pc,               \* where lr() is
  cur_state,        \* the state being worked on
  closure_items,    \* closure_items[], with lookaheads
  todo,             \* items the running loop of closure() has still to visit
  did_something,    \* closure()'s flag
  pending,          \* items from p on: those whose successor is still to be made
  closed_items      \* history: state -> all its items when it was last closed

vars == <<grammar, Nstates, kernel, epsilon, closed, transitions, Unfinished, pc,
          cur_state, closure_items, todo, did_something, pending, closed_items>>

tables == <<Nstates, kernel, epsilon, closed, transitions, Unfinished, closed_items>>

States == 0 .. Nstates - 1

NoItems == [item \in {} |-> {}]

Core(n) == DOMAIN kernel[n]

----------------------------------------------------------------------------
(***************************************************************************)
(* Item lists.                                                             *)
(***************************************************************************)

IsItemList(G, list) ==
  /\ DOMAIN list \subseteq Items(G)
  /\ \A item \in DOMAIN list : list[item] \subseteq Tokens(G)

\* The lookaheads an item has in a list; none when it is not there.
LookaheadsIn(list, item) == IF item \in DOMAIN list THEN list[item] ELSE {}

\* UNION of the lookaheads of equal items of two lists.
MergeLists(list1, list2) ==
  [item \in DOMAIN list1 \cup DOMAIN list2 |->
     LookaheadsIn(list1, item) \cup LookaheadsIn(list2, item)]

\* The part of a list whose items satisfy membership of a set.
RestrictTo(list, items) == [item \in DOMAIN list \cap items |-> list[item]]

\* Mutant: the item's lookaheads are handed on whether or not the rest is nullable.
DoCloseIgnoringRest(G, list, item, lookaheads) ==
  MergeLists(list, [new \in Derived(G, item) |-> Follow(G, item, lookaheads) \cup lookaheads])

\* The list without some items.
Without(list, items) == [item \in DOMAIN list \ items |-> list[item]]

\* The list do_close() leaves: every derived item is in it and has the lookaheads.
DoCloseResult(G, list, item, lookaheads) ==
  MergeLists(list, [new \in Derived(G, item) |-> Follow(G, item, lookaheads)])

\* kclosure(): the kernel items that are not at their end join the closure items.
KClosure(G, list, ker) ==
  MergeLists(list, RestrictTo(ker, {item \in DOMAIN ker : ~AtEnd(G, item)}))

EpsilonItemsOf(G, list) == {item \in DOMAIN list : IsEpsilonItem(G, item)}

\* Mutant: epsilon items that are there already do not get the new lookaheads.
MoveEpsOnce(G, list, eps) ==
  IF DOMAIN eps # {} THEN eps ELSE RestrictTo(list, EpsilonItemsOf(G, list))

\* move_eps(): the epsilon items of the closure, merged into those the state has.
MoveEps(G, list, eps) == MergeLists(eps, RestrictTo(list, EpsilonItemsOf(G, list)))

\* qsort() orders the items by the value of the symbol right of the dot, so the
\* least symbol among those left comes next.
SymbolsOf(G, list) == {RightOfDot(G, item) : item \in DOMAIN list}

IsNextSymbol(G, list, sym) ==
  sym \in SymbolsOf(G, list) /\ \A other \in SymbolsOf(G, list) : sym <= other

ItemsOn(G, list, sym) == {item \in DOMAIN list : RightOfDot(G, item) = sym}

\* movedot() on every item with that symbol right of the dot: the kernel items[] that
\* newstate() gets.
Successor(G, list, sym) ==
  [item \in {MoveDot(old) : old \in ItemsOn(G, list, sym)} |-> list[MoveBack(item)]]

\* Mutants: a closed state is taken for finished; the last item alone decides; the
\* answer is always yes.
GainsWhenUnclosed(n, items) ==
  n \notin closed /\ \E item \in DOMAIN items : ~(items[item] \subseteq kernel[n][item])

GainsInEveryItem(n, items) ==
  \A item \in DOMAIN items : ~(items[item] \subseteq kernel[n][item])

GainsAlways(n, items) == TRUE

\* merge_lookaheads() found a lookahead the existing state did not have.
GainsLookahead(n, items) == \E item \in DOMAIN items : ~(items[item] \subseteq kernel[n][item])

----------------------------------------------------------------------------
Init ==
  /\ grammar \in Grammars
  /\ Nstates = 1
  /\ kernel = [n \in {0} |-> [item \in {StartItem} |-> {EOI, WHITESPACE}]]
  /\ epsilon = [n \in {0} |-> NoItems]
  /\ closed = {}
  /\ transitions = [n \in {0} |-> [sym \in {} |-> 0]]
  /\ Unfinished = {0}
  /\ pc = "next"
  /\ cur_state = 0
  /\ closure_items = NoItems
  /\ todo = {}
  /\ did_something = FALSE
  /\ pending = NoItems
  /\ closed_items = [n \in {0} |-> NoItems]

\* while (cur_state = get_unfinished()): the smallest number leaves the tree, and
\* closure() starts with its loop over the kernel items.
GetUnfinished ==
  /\ pc = "next"
  /\ \E n \in Unfinished :
       /\ \A other \in Unfinished : n <= other
       /\ cur_state' = n
       /\ Unfinished' = Unfinished \ {n}
       /\ todo' = Core(n)
  /\ closure_items' = NoItems
  /\ did_something' = FALSE
  /\ pc' = "close_kernel"
  /\ UNCHANGED <<grammar, Nstates, kernel, epsilon, closed, transitions, pending,
                 closed_items>>

\* do_close() on one item, with the lookaheads it has at that moment.
DoClose(item, lookaheads) ==
  LET result == DoCloseResult(grammar, closure_items, item, lookaheads)
  IN /\ Cardinality(DOMAIN result) <= MAXCLOSE
     /\ closure_items' = result
     /\ did_something' = (did_something \/ result # closure_items)

\* (1) for (each kernel item) do LR(1) closure on that item
CloseKernelItem ==
  /\ pc = "close_kernel"
  /\ \E item \in todo :
       /\ DoClose(item, kernel[cur_state][item])
       /\ todo' = todo \ {item}
  /\ UNCHANGED <<grammar, tables, pc, cur_state, pending>>

\* (2) while (did_something): another pass over the closure items found so far
StartPass ==
  /\ pc \in {"close_kernel", "close_items"}
  /\ todo = {}
  /\ did_something
  /\ did_something' = FALSE
  /\ todo' = DOMAIN closure_items
  /\ pc' = "close_items"
  /\ UNCHANGED <<grammar, tables, cur_state, closure_items, pending>>

CloseClosureItem ==
  /\ pc = "close_items"
  /\ \E item \in todo :
       /\ DoClose(item, closure_items[item])
       /\ todo' = todo \ {item}
  /\ UNCHANGED <<grammar, tables, pc, cur_state, pending>>

\* closure() returns; kclosure(), qsort() and move_eps() follow.
ClosureDone ==
  LET all == KClosure(grammar, closure_items, kernel[cur_state])
  IN /\ pc \in {"close_kernel", "close_items"}
     /\ todo = {}
     /\ ~did_something
     /\ Cardinality(DOMAIN all) <= MAXCLOSE
     /\ Cardinality(EpsilonItemsOf(grammar, all)) <= MAXEPSILON
     /\ epsilon' = [epsilon EXCEPT ![cur_state] = MoveEps(grammar, all, epsilon[cur_state])]
     /\ pending' = Without(all, EpsilonItemsOf(grammar, all))
     /\ closed_items' = [closed_items EXCEPT
                           ![cur_state] = MergeLists(closure_items, kernel[cur_state])]
     /\ pc' = "transitions"
     /\ UNCHANGED <<grammar, Nstates, kernel, closed, transitions, Unfinished, cur_state,
                    closure_items, todo, did_something>>

\* add_action() or add_goto(), for a state that is not closed yet.
AddTransition(n, sym, next) ==
  IF n \in closed
  THEN transitions[n]
  ELSE [s \in DOMAIN transitions[n] \cup {sym} |->
          IF s = sym THEN next ELSE transitions[n][s]]

\* Mutant: state_cmp() compares the given items only, not how many the state has.
StatesIncluding(core) == {n \in States : core \subseteq Core(n)}

\* States with exactly the given kernel items: what newstate() looks for in `States'.
StatesWith(core) == {n \in States : Core(n) = core}

\* newstate() makes a new state, (3) which is put among the unfinished ones.
MakeNewState ==
  /\ pc = "transitions"
  /\ Nstates < MAXSTATE
  /\ Cardinality(Unfinished) < MAX_UNFINISHED
  /\ \E sym \in SymbolsOf(grammar, pending) :
       LET items == Successor(grammar, pending, sym)
       IN /\ IsNextSymbol(grammar, pending, sym)
          /\ Cardinality(DOMAIN items) <= MAXKERNEL
          /\ StatesWith(DOMAIN items) = {}
          /\ kernel' = [n \in 0 .. Nstates |-> IF n = Nstates THEN items ELSE kernel[n]]
          /\ transitions' = [n \in 0 .. Nstates |->
                               IF n = Nstates THEN [s \in {} |-> 0]
                               ELSE IF n = cur_state THEN AddTransition(n, sym, Nstates)
                               ELSE transitions[n]]
          /\ pending' = Without(pending, ItemsOn(grammar, pending, sym))
  /\ epsilon' = [n \in 0 .. Nstates |-> IF n = Nstates THEN NoItems ELSE epsilon[n]]
  /\ closed_items' = [n \in 0 .. Nstates |->
                        IF n = Nstates THEN NoItems ELSE closed_items[n]]
  /\ Nstates' = Nstates + 1
  /\ Unfinished' = Unfinished \cup {Nstates}
  /\ UNCHANGED <<grammar, closed, pc, cur_state, closure_items, todo, did_something>>

\* newstate() finds the state; (4) its lookaheads are merged, and (5) it becomes
\* unfinished when it gained any.
UseExistingState ==
  /\ pc = "transitions"
  /\ \E sym \in SymbolsOf(grammar, pending) :
       LET items == Successor(grammar, pending, sym)
       IN /\ IsNextSymbol(grammar, pending, sym)
          /\ Cardinality(DOMAIN items) <= MAXKERNEL
          /\ \E next \in StatesWith(DOMAIN items) :
               /\ transitions' = [transitions EXCEPT
                                    ![cur_state] = AddTransition(cur_state, sym, next)]
               /\ kernel' = [kernel EXCEPT ![next] = MergeLists(kernel[next], items)]
               /\ Unfinished' = IF GainsLookahead(next, items)
                                THEN Unfinished \cup {next}
                                ELSE Unfinished
               /\ Cardinality(Unfinished') <= MAX_UNFINISHED
          /\ pending' = Without(pending, ItemsOn(grammar, pending, sym))
  /\ UNCHANGED <<grammar, Nstates, epsilon, closed, pc, cur_state, closure_items, todo,
                 did_something, closed_items>>

\* cur_state->closed = 1, and on to the next unfinished state.
CloseState ==
  /\ pc = "transitions"
  /\ DOMAIN pending = {}
  /\ closed' = closed \cup {cur_state}
  /\ pc' = "next"
  /\ UNCHANGED <<grammar, Nstates, kernel, epsilon, transitions, Unfinished, cur_state,
                 closure_items, todo, did_something, pending, closed_items>>

\* The tree is empty: lr() returns.
LrReturns ==
  /\ pc = "next"
  /\ Unfinished = {}
  /\ pc' = "done"
  /\ UNCHANGED <<grammar, tables, cur_state, closure_items, todo, did_something, pending>>

----------------------------------------------------------------------------
(***************************************************************************)
(* error(FATAL, ...): a table is full, and rbison exits.                   *)
(***************************************************************************)
ClosureTooLarge ==
  /\ pc \in {"close_kernel", "close_items"}
  /\ \E item \in todo :
       LET list == IF pc = "close_kernel" THEN kernel[cur_state] ELSE closure_items
       IN Cardinality(DOMAIN DoCloseResult(grammar, closure_items, item, list[item])) > MAXCLOSE

ClosedSetTooLarge ==
  LET all == KClosure(grammar, closure_items, kernel[cur_state])
  IN /\ pc \in {"close_kernel", "close_items"}
     /\ todo = {}
     /\ ~did_something
     /\ \/ Cardinality(DOMAIN all) > MAXCLOSE
        \/ Cardinality(EpsilonItemsOf(grammar, all)) > MAXEPSILON

StateTableFull ==
  /\ pc = "transitions"
  /\ \E sym \in SymbolsOf(grammar, pending) :
       LET items == Successor(grammar, pending, sym)
           found == StatesWith(DOMAIN items)
       IN /\ IsNextSymbol(grammar, pending, sym)
          /\ \/ Cardinality(DOMAIN items) > MAXKERNEL
             \/ found = {} /\ Nstates >= MAXSTATE
             \/ found = {} /\ Cardinality(Unfinished) >= MAX_UNFINISHED
             \/ \E next \in found : /\ GainsLookahead(next, items)
                                    /\ next \notin Unfinished
                                    /\ Cardinality(Unfinished) >= MAX_UNFINISHED

FatalError ==
  /\ ClosureTooLarge \/ ClosedSetTooLarge \/ StateTableFull
  /\ pc' = "fatal"
  /\ UNCHANGED <<grammar, tables, cur_state, closure_items, todo, did_something, pending>>

----------------------------------------------------------------------------
Next ==
  \/ GetUnfinished
  \/ CloseKernelItem
  \/ StartPass
  \/ CloseClosureItem
  \/ ClosureDone
  \/ MakeNewState
  \/ UseExistingState
  \/ CloseState
  \/ LrReturns
  \/ FatalError

\* The generator is one sequential process that nothing stops.
Fairness == WF_vars(Next)

Spec == Init /\ [][Next]_vars /\ Fairness

----------------------------------------------------------------------------
(***************************************************************************)
(* Properties.                                                             *)
(***************************************************************************)
\* Every variable has its type: lists of items of the grammar with lookaheads that
\* are tokens, one of each per state made so far.
TypeOK ==
  /\ grammar \in Grammars
  /\ Nstates \in 1 .. MAXSTATE
  /\ DOMAIN kernel = States
  /\ DOMAIN epsilon = States
  /\ DOMAIN closed_items = States
  /\ DOMAIN transitions = States
  /\ \A n \in States :
       /\ IsItemList(grammar, kernel[n])
       /\ IsItemList(grammar, epsilon[n])
       /\ IsItemList(grammar, closed_items[n])
  /\ \A n \in States : \A sym \in DOMAIN transitions[n] :
       sym \in Symbols(grammar) /\ transitions[n][sym] \in States
  /\ closed \subseteq States
  /\ Unfinished \subseteq States
  /\ pc \in {"next", "close_kernel", "close_items", "transitions", "done", "fatal"}
  /\ cur_state \in States
  /\ IsItemList(grammar, closure_items)
  /\ IsItemList(grammar, pending)
  /\ todo \subseteq Items(grammar)
  /\ did_something \in BOOLEAN

\* The entries of the finished table: kernel and epsilon items with the lookaheads the
\* reductions will use, and the remaining items as the last closure left them.
Lookaheads(n, item) ==
  IF item \in Core(n) THEN kernel[n][item]
  ELSE IF item \in DOMAIN epsilon[n] THEN epsilon[n][item]
  ELSE closed_items[n][item]

Entries(core, list) ==
  UNION {{<<core, item, token>> : token \in list[item] \cup {PRESENT}} :
           item \in DOMAIN list}

Table ==
  UNION {Entries(Core(n), [item \in DOMAIN closed_items[n] |-> Lookaheads(n, item)]) :
           n \in States}

EntriesOfStates ==
  UNION {Entries(Core(n), kernel[n]) \cup Entries(Core(n), epsilon[n])
         \cup Entries(Core(n), closed_items[n]) : n \in States}

\* No lookahead is invented: at every moment, whatever order states are closed and
\* closed again in, the items of a state carry only lookaheads of the LALR(1) table.
\* (lr(), merge_lookaheads(), move_eps())
LookaheadsSound == EntriesOfStates \subseteq Reference[grammar]

\* No lookahead is lost: the table lr() returns is closed under the LALR(1) rules. With
\* LookaheadsSound, it is the least such table when Reference is. (lr())
TableClosed == pc = "done" => LalrClosed(grammar, Table)

\* The states are the canonical LR(0) collection: a closed state has a transition on
\* exactly the symbols to the right of a dot in its LR(0) closure, each to the state
\* with the core behind that symbol, and no two states have the same core. add_action()
\* and add_goto() never stop rbison with `duplicate action': a state that is not closed
\* has no transition yet on a symbol whose successor is still to be made. (newstate(),
\* add_action() and add_goto() under `if (!cur_state->closed)')
NoDuplicateTransition ==
  pc = "transitions" /\ cur_state \notin closed =>
    SymbolsOf(grammar, pending) \cap DOMAIN transitions[cur_state] = {}

CanonicalStates ==
  /\ \A n \in closed :
       /\ DOMAIN transitions[n] = OutSymbols(grammar, Core(n))
       /\ \A sym \in DOMAIN transitions[n] :
            Core(transitions[n][sym]) = GotoCore(grammar, Core(n), sym)
  /\ \A m, n \in States : Core(m) = Core(n) => m = n
  /\ NoDuplicateTransition

\* A state that is neither unfinished nor being worked on has handed all of its
\* lookaheads on: its items were last closed with the lookaheads its kernel has now, and
\* each successor has them. (the condition (5) under which lr() calls add_unfinished())
Working == pc \notin {"next", "done"}

Settled(n) == n \in closed /\ n \notin Unfinished /\ ~(Working /\ n = cur_state)

SettledStates ==
  \A n \in States : Settled(n) =>
    /\ \A item \in Core(n) : closed_items[n][item] = kernel[n][item]
    /\ \A item \in DOMAIN closed_items[n] : ~AtEnd(grammar, item) =>
         closed_items[n][item] \subseteq
           kernel[transitions[n][RightOfDot(grammar, item)]][MoveDot(item)]

\* A closed state that is worked on again keeps its transitions, gets no other epsilon
\* items than it has (move_eps() merges into them by position), and no state ever loses
\* a lookahead.
OnlyLookaheadsGrow ==
  [][/\ \A n \in closed :
          /\ transitions'[n] = transitions[n]
          /\ DOMAIN epsilon'[n] = DOMAIN epsilon[n]
     /\ \A n \in States :
          /\ \A item \in Core(n) : kernel[n][item] \subseteq kernel'[n][item]
          /\ \A item \in DOMAIN epsilon[n] : epsilon[n][item] \subseteq epsilon'[n][item]]_vars

\* lr() returns, or stops with a message that a table is full: re-adding states that
\* gained lookaheads comes to an end.
Termination == <>(pc \in {"done", "fatal"})
============================================================================
