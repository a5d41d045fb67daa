---------------------------- MODULE LrStatesInv ----------------------------
(***************************************************************************)
(* An inductive invariant of LrStates.  It says of every state which of    *)
(* the promises of the finished table hold already: all of them once the   *)
(* state is closed, not unfinished and not being worked on.                *)
(***************************************************************************)
EXTENDS LrStates

Closing == pc \in {"close_kernel", "close_items"}

\* A state whose items are being computed, again or for the first time, or were when
\* rbison stopped.
InClosure(n) == n = cur_state /\ pc \in {"close_kernel", "close_items", "fatal"}

\* The state's items and transitions have been computed, or its items have and its
\* transitions are being made.
Expanded(n) == n \in closed \/ (pc = "transitions" /\ n = cur_state)

\* The symbols whose successor the running iteration has still to make for a state.
Awaited(n) ==
  IF pc = "transitions" /\ n = cur_state THEN SymbolsOf(grammar, pending) ELSE {}

\* An item with these lookaheads has been visited by do_close(): list holds all it brings.
HandedOn(G, list, item, lookaheads) ==
  \A new \in Derived(G, item) :
    new \in DOMAIN list /\ Follow(G, item, lookaheads) \subseteq list[new]

\* Kernels are the start item alone, or have the dot behind the first symbol.
KernelShapes ==
  /\ Core(0) = StartCore
  /\ {EOI, WHITESPACE} \subseteq kernel[0][StartItem]
  /\ \A n \in States : Core(n) = StartCore \/ \A item \in Core(n) : item[2] > 0
  /\ \A m, n \in States : Core(m) = Core(n) => m = n

\* closure() so far.
ClosureProgress ==
  /\ Closing => DOMAIN closure_items \subseteq ClosureItems(grammar, Core(cur_state))
  /\ pc = "close_kernel" =>
       /\ todo \subseteq Core(cur_state)
       /\ did_something \/ DOMAIN closure_items = {}
       /\ \A item \in Core(cur_state) \ todo :
            HandedOn(grammar, closure_items, item, kernel[cur_state][item])
  /\ pc = "close_items" =>
       /\ todo \subseteq DOMAIN closure_items
       /\ \A item \in Core(cur_state) :
            HandedOn(grammar, closure_items, item, kernel[cur_state][item])
       /\ ~did_something =>
            \A item \in DOMAIN closure_items \ todo :
              HandedOn(grammar, closure_items, item, closure_items[item])

\* The epsilon items in the closure of a state.
EpsilonItems(n) ==
  {item \in ClosureItems(grammar, Core(n)) : IsEpsilonItem(grammar, item)}

\* No state has other epsilon items than its own; one whose closure has been computed has
\* all of its items, and its kernel's lookaheads unless it is to be closed again.
EpsilonItemsOnly == \A n \in States : DOMAIN epsilon[n] \subseteq EpsilonItems(n)

ExpandedItems ==
  \A n \in States : Expanded(n) =>
    /\ DOMAIN closed_items[n] = AllItems(grammar, Core(n))
    /\ \A item \in DOMAIN closed_items[n] :
         HandedOn(grammar, closed_items[n], item, closed_items[n][item])
    /\ \A item \in Core(n) : closed_items[n][item] \subseteq kernel[n][item]
    /\ n \notin Unfinished /\ ~InClosure(n) =>
         \A item \in Core(n) : closed_items[n][item] = kernel[n][item]
    /\ DOMAIN epsilon[n] = EpsilonItems(n)
    /\ \A item \in DOMAIN epsilon[n] : closed_items[n][item] \subseteq epsilon[n][item]

\* What is left of the sorted item list is all of the items on the symbols left.
PendingItems ==
  pc = "transitions" =>
    /\ \A item \in DOMAIN pending :
         /\ item \in DOMAIN closed_items[cur_state]
         /\ ~AtEnd(grammar, item)
         /\ pending[item] = closed_items[cur_state][item]
    /\ \A item \in DOMAIN closed_items[cur_state] :
         ~AtEnd(grammar, item) /\ RightOfDot(grammar, item) \in SymbolsOf(grammar, pending)
           => item \in DOMAIN pending

\* Transitions lead to the right cores, and there is one per symbol already dealt with.
TransitionShapes ==
  \A n \in States :
    /\ \A sym \in DOMAIN transitions[n] :
         Core(transitions[n][sym]) = GotoCore(grammar, Core(n), sym)
    /\ n \in closed => DOMAIN transitions[n] = OutSymbols(grammar, Core(n))
    /\ n \notin closed /\ pc = "transitions" /\ n = cur_state =>
         DOMAIN transitions[n] = OutSymbols(grammar, Core(n)) \ Awaited(n)
    /\ n \notin closed /\ ~(pc \in {"transitions", "fatal"} /\ n = cur_state) =>
         DOMAIN transitions[n] = {}

\* The lookaheads the items of a state had when it was last closed are in its successors,
\* unless the state is to be closed again.
Propagated ==
  \A n \in States :
    /\ Expanded(n)
    /\ n \notin Unfinished \/ (pc = "transitions" /\ n = cur_state)
    /\ ~InClosure(n)
    =>
    \A item \in DOMAIN closed_items[n] :
      ~AtEnd(grammar, item) /\ RightOfDot(grammar, item) \notin Awaited(n) =>
        closed_items[n][item] \subseteq
          kernel[transitions[n][RightOfDot(grammar, item)]][MoveDot(item)]

\* No state is forgotten.
Accounted ==
  /\ \A n \in States : n \in closed \/ n \in Unfinished \/ (Working /\ n = cur_state)
  /\ pc = "done" => Unfinished = {}
  /\ Closing => cur_state \notin Unfinished

\* Every lookahead found so far, those of the running closure() included, is one of the
\* LALR(1) table.
FoundSound ==
  /\ LookaheadsSound
  /\ Closing => Entries(Core(cur_state), closure_items) \subseteq Reference[grammar]

\* The whole of it: what every reachable state of lr() satisfies and every step keeps.
IInv ==
  /\ TypeOK
  /\ KernelShapes
  /\ ClosureProgress
  /\ EpsilonItemsOnly
  /\ ExpandedItems
  /\ PendingItems
  /\ TransitionShapes
  /\ Propagated
  /\ Accounted
  /\ FoundSound
============================================================================
