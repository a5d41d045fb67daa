---------------------------- MODULE UnfinishedTree ----------------------------
(***************************************************************************)
(* The tree of unfinished states of yystate.c: TNODEs from a fixed pool,   *)
(* linked into a binary search tree or, through `left', into a free list.  *)
(*                                                                         *)
(* A node is its index in Heap[].  A TNODE ** is the place it points to:   *)
(* the variable Unfinished, or the `left' or `right' field of a node.  One *)
(* step is one iteration of a loop, or the code behind it.                 *)
(***************************************************************************)
EXTENDS Naturals, FiniteSets

CONSTANTS
  StateNumbers,      \* the states lr() may add
  MAX_UNFINISHED     \* size of Heap[]

ASSUME TreeAssumption == StateNumbers \subseteq Nat /\ MAX_UNFINISHED \in Nat \ {0}

NIL   == 0           \* the null pointer; nodes are counted from 1
Nodes == 1 .. MAX_UNFINISHED

TOP == <<"Unfinished", NIL>>

VARIABLES
  state,             \* node -> number of the state it stands for
  left, right,       \* node -> node
  Unfinished,        \* root of the tree
  Available,         \* head of the free list
  Next_allocate,     \* first node of Heap[] never used so far
  parent,            \* where the link to `root' is, as <<field, node>>
  root,              \* the node the running call looks at
  adding,            \* the state add_unfinished() was called with
  pc,                \* "idle", in "add", in "get", or "exit"
  result             \* what the last get_unfinished() returned: {n}, or {} for NULL

vars == <<state, left, right, Unfinished, Available, Next_allocate, parent, root, adding,
          pc, result>>

Init ==
  /\ state = [node \in Nodes |-> 0]
  /\ left = [node \in Nodes |-> NIL]
  /\ right = [node \in Nodes |-> NIL]
  /\ Unfinished = NIL
  /\ Available = NIL
  /\ Next_allocate = 1
  /\ parent = TOP
  /\ root = NIL
  /\ adding = 0
  /\ pc = "idle"
  /\ result = {}

----------------------------------------------------------------------------
\* *place = node, where some nodes' left or right have new values already.
StoreLeft(place, node, links) ==
  IF place[1] = "left" THEN [links EXCEPT ![place[2]] = node] ELSE links

StoreRight(place, node, links) ==
  IF place[1] = "right" THEN [links EXCEPT ![place[2]] = node] ELSE links

StoreTop(place, node) == IF place = TOP THEN node ELSE Unfinished

\* lr() calls add_unfinished(n).
CallAdd(n) ==
  /\ pc = "idle"
  /\ adding' = n
  /\ parent' = TOP
  /\ root' = Unfinished
  /\ pc' = "add"
  /\ UNCHANGED <<state, left, right, Unfinished, Available, Next_allocate, result>>

\* while (root): not this node, on to the left or right.
DescendToAdd ==
  /\ pc = "add"
  /\ root # NIL
  /\ state[root] # adding
  /\ IF adding < state[root]
     THEN parent' = <<"left", root>> /\ root' = left[root]
     ELSE parent' = <<"right", root>> /\ root' = right[root]
  /\ UNCHANGED <<state, left, right, Unfinished, Available, Next_allocate, adding, pc, result>>

\* The state is in the tree already.
AddFindsState ==
  /\ pc = "add"
  /\ root # NIL
  /\ state[root] = adding
  /\ pc' = "idle"
  /\ UNCHANGED <<state, left, right, Unfinished, Available, Next_allocate, parent, root,
                 adding, result>>

\* Mutants: the test is one node late; the links of a node used again are not cleared.
HeapExhaustedLate == Next_allocate > MAX_UNFINISHED + 1

\* Next_allocate >= &Heap[MAX_UNFINISHED]
HeapExhausted == Next_allocate > MAX_UNFINISHED

KeepLink(links, node) == links

\* (*parent)->left = (*parent)->right = NULL
ClearLink(links, node) == [links EXCEPT ![node] = NIL]

\* The new node, from the free list if that has any.
LinkNewNode ==
  /\ pc = "add"
  /\ root = NIL
  /\ \E node \in Nodes \cup {MAX_UNFINISHED + 1} :
       /\ IF Available # NIL
          THEN /\ node = Available
               /\ Available' = left[Available]
               /\ UNCHANGED Next_allocate
          ELSE /\ ~HeapExhausted
               /\ node = Next_allocate
               /\ Next_allocate' = Next_allocate + 1
               /\ UNCHANGED Available
       /\ Unfinished' = StoreTop(parent, node)
       /\ state' = [state EXCEPT ![node] = adding]
       /\ left' = ClearLink(StoreLeft(parent, node, left), node)
       /\ right' = ClearLink(StoreRight(parent, node, right), node)
  /\ pc' = "idle"
  /\ UNCHANGED <<parent, root, adding, result>>

HeapOverflow ==
  /\ pc = "add"
  /\ root = NIL
  /\ Available = NIL
  /\ HeapExhausted
  /\ pc' = "exit"
  /\ UNCHANGED <<state, left, right, Unfinished, Available, Next_allocate, parent, root,
                 adding, result>>

\* lr() calls get_unfinished(), which returns NULL when the tree is empty.
CallGet ==
  /\ pc = "idle"
  /\ IF Unfinished = NIL
     THEN /\ result' = {}
          /\ UNCHANGED <<parent, root, pc>>
     ELSE /\ parent' = TOP
          /\ root' = Unfinished
          /\ pc' = "get"
          /\ UNCHANGED result
  /\ UNCHANGED <<state, left, right, Unfinished, Available, Next_allocate, adding>>

\* while (root->left)
DescendToGet ==
  /\ pc = "get"
  /\ left[root] # NIL
  /\ parent' = <<"left", root>>
  /\ root' = left[root]
  /\ UNCHANGED <<state, left, right, Unfinished, Available, Next_allocate, adding, pc, result>>

\* Mutants: the subtree of larger numbers is cut off with the node; the node is put at
\* the head of the free list without its link to the rest.
NothingBehind(node) == NIL

SubtreeBehind(node) == right[node]

HeadOnly(links, node) == links

LinkToRest(links, node) == [links EXCEPT ![node] = Available]

\* The leftmost node leaves the tree for the free list.
RemoveLeftmost ==
  /\ pc = "get"
  /\ left[root] = NIL
  /\ Unfinished' = StoreTop(parent, SubtreeBehind(root))
  /\ left' = LinkToRest(StoreLeft(parent, SubtreeBehind(root), left), root)
  /\ Available' = root
  /\ result' = {state[root]}
  /\ pc' = "idle"
  /\ UNCHANGED <<state, right, Next_allocate, parent, root, adding>>

Next ==
  \/ \E n \in StateNumbers : CallAdd(n)
  \/ DescendToAdd
  \/ AddFindsState
  \/ LinkNewNode
  \/ HeapOverflow
  \/ CallGet
  \/ DescendToGet
  \/ RemoveLeftmost

\* lr() need not call again, but a call runs to its end.
Fairness == WF_vars(DescendToAdd \/ AddFindsState \/ LinkNewNode \/ HeapOverflow
                    \/ DescendToGet \/ RemoveLeftmost)

Spec == Init /\ [][Next]_vars /\ Fairness

----------------------------------------------------------------------------
(***************************************************************************)
(* Properties.                                                             *)
(***************************************************************************)
Pointers == Nodes \cup {NIL}

TypeOK ==
  /\ state \in [Nodes -> StateNumbers \cup {0}]
  /\ left \in [Nodes -> Pointers]
  /\ right \in [Nodes -> Pointers]
  /\ {Unfinished, Available, root} \subseteq Pointers
  /\ Next_allocate \in 1 .. MAX_UNFINISHED + 1
  /\ parent = TOP \/ parent \in {"left", "right"} \X Nodes
  /\ adding \in StateNumbers \cup {0}
  /\ pc \in {"idle", "add", "get", "exit"}
  /\ result \subseteq StateNumbers

\* The nodes behind a pointer, in the least set closed under the links.
ClosedUnder(links, nodes) == \A node \in nodes : \A next \in links[node] : next \in nodes \cup {NIL}

Behind(links, start) ==
  {node \in Nodes : \A nodes \in SUBSET Nodes :
     start \in nodes \cup {NIL} /\ ClosedUnder(links, nodes) => node \in nodes}

TreeNodes == Behind([node \in Nodes |-> {left[node], right[node]}], Unfinished)
FreeNodes == Behind([node \in Nodes |-> {left[node]}], Available)

\* No node is lost, and none is in the tree and free at once: nodes taken from Heap[] are
\* in exactly one of the two, also between the steps of a call.
NodesAccounted ==
  /\ TreeNodes \cap FreeNodes = {}
  /\ TreeNodes \cup FreeNodes = {node \in Nodes : node < Next_allocate}

\* The tree is the set of unfinished states that lr() counts on: adding a state twice
\* changes nothing, the least number is the one taken, and rbison stops with `no memory
\* for unfinished state' only when MAX_UNFINISHED states are in the tree.
Abstract == INSTANCE UnfinishedSet WITH
  members <- {state[node] : node \in TreeNodes},
  fatal   <- pc = "exit"

ImplementsSet == Abstract!Spec

\* Every call comes to its end: no loop goes round in the links.
CallsReturn == pc \in {"add", "get"} ~> pc \in {"idle", "exit"}
============================================================================
