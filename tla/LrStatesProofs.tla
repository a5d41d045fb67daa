-------------------------- MODULE LrStatesProofs --------------------------
(***************************************************************************)
(* Proofs about lr(), for every set of grammars, every size of its tables  *)
(* and every table closed under the LALR(1) rules.                         *)
(***************************************************************************)
EXTENDS LrStatesInv, TLAPS

----------------------------------------------------------------------------
(***************************************************************************)
(* Facts about the operators of Grammar and LalrTable, for every grammar.  *)
(***************************************************************************)
\* An item is a production and a dot position in it.
LEMMA ItemParts ==
  ASSUME NEW G, NEW item \in Items(G)
  PROVE  /\ item[1] \in Productions(G)
         /\ item[2] \in 0 .. Len(G.rhs[item[1]])
         /\ item = <<item[1], item[2]>>
  BY DEF Items

LEMMA MakeItem ==
  ASSUME NEW G, NEW p \in Productions(G), NEW d \in 0 .. Len(G.rhs[p])
  PROVE  <<p, d>> \in Items(G)
  BY DEF Items

\* Right-hand sides are sequences of symbols of the grammar.
LEMMA RhsType ==
  ASSUME NEW G, IsGrammar(G), NEW p \in Productions(G)
  PROVE  /\ G.rhs[p] \in Seq(Symbols(G))
         /\ Len(G.rhs[p]) \in Nat
         /\ \A i \in 1 .. Len(G.rhs[p]) : G.rhs[p][i] \in Symbols(G)
  BY DEF IsGrammar

\* The dot at the start is a position of every production.
LEMMA StartOfProduction ==
  ASSUME NEW G, IsGrammar(G), NEW p \in Productions(G)
  PROVE  <<p, 0>> \in Items(G)
  BY RhsType, MakeItem

\* movedot() on an item that is not at its end gives an item.
LEMMA MoveDotType ==
  ASSUME NEW G, IsGrammar(G), NEW item \in Items(G), ~AtEnd(G, item)
  PROVE  /\ MoveDot(item) \in Items(G)
         /\ MoveBack(MoveDot(item)) = item
         /\ MoveDot(item)[2] > 0
         /\ RightOfDot(G, item) \in Symbols(G)
<1>1. item[1] \in Productions(G) /\ item[2] \in 0 .. Len(G.rhs[item[1]])
      /\ item = <<item[1], item[2]>>
  BY ItemParts
<1>2. Len(G.rhs[item[1]]) \in Nat
  BY <1>1, RhsType
<1>3. item[2] + 1 \in 1 .. Len(G.rhs[item[1]]) /\ item[2] \in Nat
  BY <1>1, <1>2 DEF AtEnd
<1>4. MoveDot(item) \in Items(G)
  BY <1>1, <1>3, MakeItem DEF MoveDot
<1>5. MoveBack(MoveDot(item)) = item
  BY <1>1, <1>3 DEF MoveBack, MoveDot
<1>6. MoveDot(item)[2] > 0
  BY <1>3 DEF MoveDot
<1>7. RightOfDot(G, item) \in Symbols(G)
  BY <1>1, <1>3, RhsType DEF RightOfDot
<1> QED BY <1>4, <1>5, <1>6, <1>7

\* What do_close() brings are items with the dot at the start.
LEMMA DerivedType ==
  ASSUME NEW G, IsGrammar(G), NEW item, NEW new \in Derived(G, item)
  PROVE  /\ new \in Items(G)
         /\ new[1] \in Productions(G)
         /\ new = <<new[1], 0>>
         /\ ~AtEnd(G, item)
         /\ G.lhs[new[1]] = RightOfDot(G, item)
  BY StartOfProduction DEF Derived

\* FIRST sets hold terminals and EPSILON only.
LEMMA FirstOfType ==
  ASSUME NEW G, IsGrammar(G), NEW sym \in Symbols(G)
  PROVE  FirstOf(G, sym) \subseteq G.terms \cup {EPSILON(G)}
  BY DEF FirstOf, IsGrammar, IsSymbolTable, Symbols, ISNONTERM

LEMMA FirstRhsType ==
  ASSUME NEW G, IsGrammar(G), NEW p \in Productions(G), NEW from \in Nat \ {0}
  PROVE  FirstRhs(G, G.rhs[p], from) \subseteq G.terms \cup {EPSILON(G)}
<1>1. \A i \in from .. Len(G.rhs[p]) : FirstOf(G, G.rhs[p][i]) \subseteq G.terms \cup {EPSILON(G)}
  BY RhsType, FirstOfType
<1> QED BY <1>1 DEF FirstRhs

\* The lookaheads do_close() hands on are tokens.
LEMMA FollowType ==
  ASSUME NEW G, IsGrammar(G), NEW item \in Items(G), NEW lookaheads
  PROVE  Follow(G, item, lookaheads) \subseteq Tokens(G) \cup lookaheads
<1>1. item[1] \in Productions(G) /\ item[2] + 2 \in Nat \ {0}
  <2>1. item[1] \in Productions(G) /\ item[2] \in 0 .. Len(G.rhs[item[1]])
    BY ItemParts
  <2> QED BY <2>1, RhsType
<1>2. FirstRhs(G, G.rhs[item[1]], item[2] + 2) \subseteq G.terms \cup {EPSILON(G)}
  BY <1>1, FirstRhsType
<1> QED BY <1>2 DEF Follow, Tokens

\* What an item with several lookaheads hands on, it hands on for one of them, or
\* because it is there.
LEMMA FollowOfOne ==
  ASSUME NEW G, NEW item, NEW lookaheads, NEW token \in Follow(G, item, lookaheads)
  PROVE  \E one \in lookaheads \cup {PRESENT} : token \in Follow(G, item, {one})
<1>1. CASE token \in lookaheads /\ RhsIsNullable(G, G.rhs[item[1]], item[2] + 2)
  BY <1>1 DEF Follow
<1>2. CASE token \in FirstRhs(G, G.rhs[item[1]], item[2] + 2) \ {EPSILON(G)}
  BY <1>2 DEF Follow
<1> QED BY <1>1, <1>2 DEF Follow

LEMMA FollowOfMember ==
  ASSUME NEW G, NEW item, NEW lookaheads, NEW one \in lookaheads \cup {PRESENT},
         NEW token \in Follow(G, item, {one})
  PROVE  token \in Follow(G, item, lookaheads) \cup {PRESENT}
  BY DEF Follow

LEMMA FollowMonotone ==
  ASSUME NEW G, NEW item, NEW few, NEW many, few \subseteq many
  PROVE  Follow(G, item, few) \subseteq Follow(G, item, many)
  BY DEF Follow

----------------------------------------------------------------------------
(***************************************************************************)
(* LR(0) closure.                                                          *)
(***************************************************************************)
LEMMA ClosureItemsType ==
  ASSUME NEW G, IsGrammar(G), NEW core
  PROVE  /\ ClosureItems(G, core) \subseteq Items(G)
         /\ \A item \in ClosureItems(G, core) : item[2] = 0
  BY StartOfProduction DEF ClosureItems

\* The start item is in no closure: no production mentions the goal symbol.
LEMMA StartItemNotInClosure ==
  ASSUME NEW G, IsGrammar(G), NEW core, core \subseteq Items(G)
  PROVE  StartItem \notin ClosureItems(G, core)
<1> DEFINE N == G.nonterms \ {G.lhs[0]}
<1>1. \A item \in Items(G) : ~AtEnd(G, item) => RightOfDot(G, item) # G.lhs[0]
  <2> SUFFICES ASSUME NEW item \in Items(G), ~AtEnd(G, item)
               PROVE  RightOfDot(G, item) # G.lhs[0]
    OBVIOUS
  <2>1. item[1] \in Productions(G) /\ item[2] \in 0 .. Len(G.rhs[item[1]])
    BY ItemParts
  <2>2. item[2] + 1 \in 1 .. Len(G.rhs[item[1]])
    BY <2>1, RhsType DEF AtEnd
  <2> QED BY <2>1, <2>2 DEF RightOfDot, IsGrammar
<1>2. LeftClosed(G, core, N)
  BY <1>1, StartOfProduction DEF LeftClosed, ISNONTERM
<1>3. N \in SUBSET G.nonterms
  OBVIOUS
<1>4. SUFFICES ASSUME StartItem \in ClosureItems(G, core) PROVE FALSE
  OBVIOUS
<1>5. PICK q \in Productions(G) :
        /\ StartItem = <<q, 0>>
        /\ \A M \in SUBSET G.nonterms : LeftClosed(G, core, M) => G.lhs[q] \in M
  BY <1>4 DEF ClosureItems
<1>6. q = 0
  BY <1>5 DEF StartItem
<1>7. G.lhs[0] \in N
  BY <1>2, <1>3, <1>5, <1>6
<1> QED BY <1>7

\* Closing an item of a state brings items of the state only.
LEMMA DerivedInClosure ==
  ASSUME NEW G, IsGrammar(G), NEW core, NEW item \in AllItems(G, core)
  PROVE  Derived(G, item) \subseteq ClosureItems(G, core)
<1> SUFFICES ASSUME NEW new \in Derived(G, item), NEW N \in SUBSET G.nonterms,
                    LeftClosed(G, core, N)
             PROVE  G.lhs[new[1]] \in N
  BY DerivedType DEF ClosureItems
<1>1. new[1] \in Productions(G) /\ ~AtEnd(G, item) /\ G.lhs[new[1]] = RightOfDot(G, item)
  BY DerivedType
<1>2. G.lhs[new[1]] \in G.nonterms
  BY <1>1 DEF IsGrammar, IsSymbolTable
<1>3. CASE item \in core
  BY <1>1, <1>2, <1>3 DEF LeftClosed, ISNONTERM
<1>4. CASE item \in ClosureItems(G, core)
  <2>1. PICK q \in Productions(G) : item = <<q, 0>> /\ G.lhs[q] \in N
    BY <1>4 DEF ClosureItems
  <2> QED BY <1>1, <1>2, <2>1 DEF LeftClosed, ISNONTERM
<1> QED BY <1>3, <1>4 DEF AllItems

\* A set of items that closing brings nothing new to holds all of the closure.
LEMMA ClosureIsLeast ==
  ASSUME NEW G, IsGrammar(G), NEW core, NEW found,
         \A item \in core \cup found : Derived(G, item) \subseteq found
  PROVE  ClosureItems(G, core) \subseteq found
<1> DEFINE N == {A \in G.nonterms : \A p \in Productions(G) : G.lhs[p] = A => <<p, 0>> \in found}
<1>1. ASSUME NEW item \in core \cup found, ~AtEnd(G, item),
             ISNONTERM(G, RightOfDot(G, item))
      PROVE  RightOfDot(G, item) \in N
  <2>1. \A p \in Productions(G) : G.lhs[p] = RightOfDot(G, item) => <<p, 0>> \in Derived(G, item)
    BY <1>1 DEF Derived
  <2> QED BY <1>1, <2>1 DEF ISNONTERM
<1>2. LeftClosed(G, core, N)
  <2>1. \A p \in Productions(G) : G.lhs[p] \in N => <<p, 0>> \in found
    OBVIOUS
  <2> QED BY <1>1, <2>1 DEF LeftClosed
<1>3. \A q \in Productions(G) :
        (\A M \in SUBSET G.nonterms : LeftClosed(G, core, M) => G.lhs[q] \in M) => G.lhs[q] \in N
  BY <1>2
<1> QED BY <1>3 DEF ClosureItems

----------------------------------------------------------------------------
(***************************************************************************)
(* Facts about lr().                                                       *)
(***************************************************************************)
LEMMA GrammarFacts ==
  ASSUME TypeOK
  PROVE  IsGrammar(grammar) /\ LalrClosed(grammar, Reference[grammar])
  BY GrammarsAssumption, ReferenceAssumption DEF TypeOK

LEMMA StartItemType ==
  ASSUME NEW G, IsGrammar(G)
  PROVE  StartItem \in Items(G)
  BY StartOfProduction DEF StartItem, IsGrammar, IsSymbolTable

----------------------------------------------------------------------------
(***************************************************************************)
(* Item lists.                                                             *)
(***************************************************************************)
LEMMA MergeListsFacts ==
  ASSUME NEW list1, NEW list2
  PROVE  /\ DOMAIN MergeLists(list1, list2) = DOMAIN list1 \cup DOMAIN list2
         /\ \A item \in DOMAIN list1 : list1[item] \subseteq MergeLists(list1, list2)[item]
         /\ \A item \in DOMAIN list2 : list2[item] \subseteq MergeLists(list1, list2)[item]
         /\ \A item \in DOMAIN list1 \ DOMAIN list2 : MergeLists(list1, list2)[item] = list1[item]
         /\ \A item \in DOMAIN list2 \ DOMAIN list1 : MergeLists(list1, list2)[item] = list2[item]
         /\ \A item \in DOMAIN list1 \cap DOMAIN list2 :
              MergeLists(list1, list2)[item] = list1[item] \cup list2[item]
  BY DEF MergeLists, LookaheadsIn

LEMMA MergeListsType ==
  ASSUME NEW G, NEW list1, NEW list2, IsItemList(G, list1), IsItemList(G, list2)
  PROVE  IsItemList(G, MergeLists(list1, list2))
  BY DEF MergeLists, LookaheadsIn, IsItemList

LEMMA RestrictToFacts ==
  ASSUME NEW list, NEW items
  PROVE  /\ DOMAIN RestrictTo(list, items) = DOMAIN list \cap items
         /\ \A item \in DOMAIN list \cap items : RestrictTo(list, items)[item] = list[item]
         /\ \A G : IsItemList(G, list) => IsItemList(G, RestrictTo(list, items))
  BY DEF RestrictTo, IsItemList

LEMMA WithoutFacts ==
  ASSUME NEW list, NEW items
  PROVE  /\ DOMAIN Without(list, items) = DOMAIN list \ items
         /\ \A item \in DOMAIN list \ items : Without(list, items)[item] = list[item]
         /\ \A G : IsItemList(G, list) => IsItemList(G, Without(list, items))
  BY DEF Without, IsItemList

LEMMA NoItemsFacts ==
  /\ DOMAIN NoItems = {}
  /\ \A G : IsItemList(G, NoItems)
  /\ \A core : Entries(core, NoItems) = {}
  BY DEF NoItems, IsItemList, Entries

\* do_close(): the list it leaves has what the item brings, and keeps what was there.
LEMMA DoCloseFacts ==
  ASSUME NEW G, NEW list, NEW item, NEW lookaheads
  PROVE  LET result == DoCloseResult(G, list, item, lookaheads)
         IN /\ DOMAIN result = DOMAIN list \cup Derived(G, item)
            /\ \A old \in DOMAIN list : list[old] \subseteq result[old]
            /\ HandedOn(G, result, item, lookaheads)
            /\ \A i \in DOMAIN result : \A token \in result[i] :
                 \/ i \in DOMAIN list /\ token \in list[i]
                 \/ i \in Derived(G, item) /\ token \in Follow(G, item, lookaheads)
  BY DEF DoCloseResult, MergeLists, LookaheadsIn, HandedOn

LEMMA DoCloseType ==
  ASSUME NEW G, IsGrammar(G), NEW list, IsItemList(G, list), NEW item \in Items(G),
         NEW lookaheads, lookaheads \subseteq Tokens(G)
  PROVE  IsItemList(G, DoCloseResult(G, list, item, lookaheads))
<1>1. Derived(G, item) \subseteq Items(G)
  BY DerivedType
<1>2. Follow(G, item, lookaheads) \subseteq Tokens(G)
  BY FollowType
<1> QED BY <1>1, <1>2 DEF DoCloseResult, MergeLists, LookaheadsIn, IsItemList

\* A longer list still holds what an item brings.
LEMMA HandedOnMonotone ==
  ASSUME NEW G, NEW few, NEW many, NEW item, NEW lookaheads,
         HandedOn(G, few, item, lookaheads),
         DOMAIN few \subseteq DOMAIN many,
         \A i \in DOMAIN few : few[i] \subseteq many[i]
  PROVE  HandedOn(G, many, item, lookaheads)
  BY DEF HandedOn

\* The kernel items newstate() gets for a symbol.
LEMMA SuccessorFacts ==
  ASSUME NEW G, IsGrammar(G), NEW list, IsItemList(G, list), NEW sym,
         \A item \in DOMAIN list : ~AtEnd(G, item)
  PROVE  /\ DOMAIN Successor(G, list, sym) = {MoveDot(item) : item \in ItemsOn(G, list, sym)}
         /\ \A item \in ItemsOn(G, list, sym) : Successor(G, list, sym)[MoveDot(item)] = list[item]
         /\ \A new \in DOMAIN Successor(G, list, sym) : new[2] > 0
         /\ IsItemList(G, Successor(G, list, sym))
<1>1. \A item \in DOMAIN list :
        /\ MoveDot(item) \in Items(G)
        /\ MoveBack(MoveDot(item)) = item
        /\ MoveDot(item)[2] > 0
  BY MoveDotType DEF IsItemList
<1>2. ItemsOn(G, list, sym) \subseteq DOMAIN list
  BY DEF ItemsOn
<1>3. DOMAIN Successor(G, list, sym) = {MoveDot(item) : item \in ItemsOn(G, list, sym)}
  BY DEF Successor
<1>4. \A item \in ItemsOn(G, list, sym) : Successor(G, list, sym)[MoveDot(item)] = list[item]
  BY <1>1, <1>2 DEF Successor
<1>5. \A new \in DOMAIN Successor(G, list, sym) : new[2] > 0
  BY <1>1, <1>2, <1>3
<1>6. IsItemList(G, Successor(G, list, sym))
  BY <1>1, <1>2, <1>3, <1>4 DEF IsItemList
<1> QED BY <1>3, <1>4, <1>5, <1>6

----------------------------------------------------------------------------
(***************************************************************************)
(* The initial states.                                                     *)
(***************************************************************************)
LEMMA InitKeepsIInv ==
  ASSUME Init
  PROVE  IInv
<1> USE DEF Init
<1>0. States = {0} /\ Core(0) = StartCore /\ kernel[0][StartItem] = {EOI, WHITESPACE}
  BY DEF States, Core, StartCore
<1>1. IsGrammar(grammar) /\ LalrClosed(grammar, Reference[grammar])
  BY GrammarsAssumption, ReferenceAssumption
<1>2. TypeOK
  <2>1. IsItemList(grammar, kernel[0])
    BY <1>1, StartItemType DEF IsItemList, Tokens
  <2>2. IsItemList(grammar, NoItems)
    BY NoItemsFacts
  <2>3. Nstates \in 1 .. MAXSTATE
    BY LimitsAssumption
  <2>4. DOMAIN kernel = {0} /\ DOMAIN epsilon = {0} /\ DOMAIN closed_items = {0}
        /\ DOMAIN transitions = {0}
    OBVIOUS
  <2>5. epsilon[0] = NoItems /\ closed_items[0] = NoItems /\ DOMAIN transitions[0] = {}
    OBVIOUS
  <2> QED BY <1>0, <2>1, <2>2, <2>3, <2>4, <2>5 DEF TypeOK
<1>3. KernelShapes
  BY <1>0 DEF KernelShapes
<1>4. ClosureProgress /\ PendingItems /\ Accounted
  BY <1>0 DEF ClosureProgress, PendingItems, Accounted, Closing
<1>5. EpsilonItemsOnly /\ ExpandedItems /\ Propagated
  BY <1>0, NoItemsFacts DEF EpsilonItemsOnly, ExpandedItems, Propagated, Expanded
<1>6. TransitionShapes
  BY <1>0 DEF TransitionShapes
<1>7. FoundSound
  <2>1. Entries(Core(0), kernel[0]) \subseteq Reference[grammar]
    <3>1. DOMAIN kernel[0] = {StartItem} /\ kernel[0][StartItem] = {EOI, WHITESPACE}
      OBVIOUS
    <3>2. \A token \in {EOI, WHITESPACE, PRESENT} :
            <<StartCore, StartItem, token>> \in Reference[grammar]
      BY <1>1 DEF LalrClosed, StartRule
    <3> HIDE DEF Init
    <3> QED BY <1>0, <3>1, <3>2 DEF Entries
  <2>2. Entries(Core(0), epsilon[0]) = {} /\ Entries(Core(0), closed_items[0]) = {}
    BY NoItemsFacts
  <2> QED BY <1>0, <2>1, <2>2 DEF FoundSound, LookaheadsSound, EntriesOfStates, Closing
<1> QED BY <1>2, <1>3, <1>4, <1>5, <1>6, <1>7 DEF IInv

----------------------------------------------------------------------------
(***************************************************************************)
(* One lemma per action: it keeps the invariant.                           *)
(***************************************************************************)
LEMMA GetUnfinishedKeepsIInv ==
  ASSUME IInv, GetUnfinished
  PROVE  IInv'
<1> USE DEF IInv
<1>0. PICK n0 \in Unfinished :
        /\ cur_state' = n0
        /\ Unfinished' = Unfinished \ {n0}
        /\ todo' = Core(n0)
  BY DEF GetUnfinished
<1>1. /\ pc = "next" /\ pc' = "close_kernel"
      /\ closure_items' = NoItems
      /\ did_something' = FALSE
      /\ UNCHANGED <<grammar, Nstates, kernel, epsilon, closed, transitions, pending,
                     closed_items>>
  BY DEF GetUnfinished
<1>2. TypeOK'
  BY <1>0, <1>1, NoItemsFacts DEF TypeOK, States, Core, IsItemList
<1>3. KernelShapes'
  BY <1>1 DEF KernelShapes, States, Core
<1>4. ClosureProgress'
  BY <1>0, <1>1, NoItemsFacts DEF ClosureProgress, Core, Closing
<1>5. EpsilonItemsOnly' /\ ExpandedItems'
  BY <1>0, <1>1 DEF EpsilonItemsOnly, ExpandedItems, EpsilonItems, States, Core, Expanded,
                    InClosure
<1>6. PendingItems'
  BY <1>1 DEF PendingItems
<1>7. TransitionShapes'
  BY <1>0, <1>1 DEF TransitionShapes, States, Core, Awaited
<1>8. Propagated'
  BY <1>0, <1>1 DEF Propagated, States, Expanded, InClosure, Awaited
<1>9. Accounted'
  BY <1>0, <1>1 DEF Accounted, States, Working, Closing
<1>10. FoundSound'
  BY <1>0, <1>1, NoItemsFacts DEF FoundSound, LookaheadsSound, EntriesOfStates, States, Core, Closing
<1> QED BY <1>2, <1>3, <1>4, <1>5, <1>6, <1>7, <1>8, <1>9, <1>10

\* What holds of the tables outlasts any step of closure().
LEMMA ClosingStep ==
  ASSUME IInv, Closing, Closing', UNCHANGED <<grammar, tables, cur_state, pending>>
  PROVE  /\ KernelShapes' /\ EpsilonItemsOnly' /\ ExpandedItems' /\ PendingItems'
         /\ TransitionShapes' /\ Propagated' /\ Accounted' /\ LookaheadsSound'
<1> USE DEF IInv
<1>0. /\ pc \in {"close_kernel", "close_items"} /\ pc' \in {"close_kernel", "close_items"}
      /\ UNCHANGED <<grammar, Nstates, kernel, epsilon, closed, transitions, Unfinished,
                     closed_items, cur_state, pending>>
  BY DEF Closing, tables
<1>1. KernelShapes'
  BY <1>0 DEF KernelShapes, States, Core
<1>2. EpsilonItemsOnly' /\ ExpandedItems'
  BY <1>0 DEF EpsilonItemsOnly, ExpandedItems, EpsilonItems, States, Core, Expanded, InClosure
<1>3. PendingItems'
  BY <1>0 DEF PendingItems
<1>4. TransitionShapes'
  BY <1>0 DEF TransitionShapes, States, Core, Awaited
<1>5. Propagated'
  BY <1>0 DEF Propagated, States, Expanded, InClosure, Awaited
<1>6. Accounted'
  BY <1>0 DEF Accounted, States, Working, Closing
<1>7. LookaheadsSound'
  BY <1>0 DEF FoundSound, LookaheadsSound, EntriesOfStates, States, Core
<1> QED BY <1>1, <1>2, <1>3, <1>4, <1>5, <1>6, <1>7

\* An entry of a list is one of its items with one of its lookaheads, or with PRESENT.
LEMMA EntriesFacts ==
  ASSUME NEW core, NEW list, NEW L
  PROVE  Entries(core, list) \subseteq L <=>
           \A item \in DOMAIN list : \A token \in list[item] \cup {PRESENT} :
             <<core, item, token>> \in L
  BY DEF Entries

\* do_close() on an item of the LALR(1) table brings only items of the table.
LEMMA DoCloseSound ==
  ASSUME NEW G, NEW L, LalrClosed(G, L), NEW core, NEW list, Entries(core, list) \subseteq L,
         NEW item, NEW lookaheads,
         \A token \in lookaheads \cup {PRESENT} : <<core, item, token>> \in L
  PROVE  Entries(core, DoCloseResult(G, list, item, lookaheads)) \subseteq L
<1> DEFINE result == DoCloseResult(G, list, item, lookaheads)
<1> SUFFICES ASSUME NEW i \in DOMAIN result, NEW token \in result[i] \cup {PRESENT}
             PROVE  <<core, i, token>> \in L
  BY EntriesFacts
<1>1. /\ DOMAIN result = DOMAIN list \cup Derived(G, item)
      /\ \A t \in result[i] : \/ i \in DOMAIN list /\ t \in list[i]
                              \/ i \in Derived(G, item) /\ t \in Follow(G, item, lookaheads)
  BY DoCloseFacts
<1> HIDE DEF result
<1>2. CASE i \in DOMAIN list /\ token \in list[i] \cup {PRESENT}
  BY <1>2, EntriesFacts
<1>3. CASE i \in Derived(G, item) /\ token = PRESENT
  <2>1. <<core, item, PRESENT>> \in L
    OBVIOUS
  <2> QED BY <1>3, <2>1 DEF LalrClosed, ClosureRule
<1>4. CASE i \in Derived(G, item) /\ token \in Follow(G, item, lookaheads)
  <2>1. PICK one \in lookaheads \cup {PRESENT} : token \in Follow(G, item, {one})
    BY <1>4, FollowOfOne
  <2>2. <<core, item, one>> \in L
    OBVIOUS
  <2> QED BY <1>4, <2>1, <2>2 DEF LalrClosed, ClosureRule
<1> QED BY <1>1, <1>2, <1>3, <1>4

\* The entries of each list of each state are in the table.
LEMMA SoundLists ==
  ASSUME LookaheadsSound, NEW n \in States
  PROVE  /\ Entries(Core(n), kernel[n]) \subseteq Reference[grammar]
         /\ Entries(Core(n), epsilon[n]) \subseteq Reference[grammar]
         /\ Entries(Core(n), closed_items[n]) \subseteq Reference[grammar]
  BY DEF LookaheadsSound, EntriesOfStates

LEMMA CloseKernelItemKeepsIInv ==
  ASSUME IInv, CloseKernelItem
  PROVE  IInv'
<1> USE DEF IInv
<1>0. PICK item \in todo : DoClose(item, kernel[cur_state][item]) /\ todo' = todo \ {item}
  BY DEF CloseKernelItem
<1>1. /\ pc = "close_kernel" /\ pc' = pc
      /\ UNCHANGED <<grammar, tables, pc, cur_state, pending>>
      /\ UNCHANGED kernel
  BY DEF CloseKernelItem, tables
<1> DEFINE result == DoCloseResult(grammar, closure_items, item, kernel[cur_state][item])
<1>2. /\ closure_items' = result
      /\ did_something' = (did_something \/ result # closure_items)
  BY <1>0 DEF DoClose
<1>3. /\ IsGrammar(grammar) /\ LalrClosed(grammar, Reference[grammar])
      /\ cur_state \in States
      /\ item \in Core(cur_state)
      /\ IsItemList(grammar, kernel[cur_state])
      /\ item \in Items(grammar)
      /\ kernel[cur_state][item] \subseteq Tokens(grammar)
  <2>1. item \in Core(cur_state)
    BY <1>0, <1>1 DEF ClosureProgress
  <2> QED BY <2>1, GrammarFacts DEF TypeOK, IsItemList, Core
<1>4. /\ DOMAIN result = DOMAIN closure_items \cup Derived(grammar, item)
      /\ \A old \in DOMAIN closure_items : closure_items[old] \subseteq result[old]
      /\ HandedOn(grammar, result, item, kernel[cur_state][item])
  BY DoCloseFacts
<1>5. IsItemList(grammar, result)
  BY <1>3, DoCloseType DEF TypeOK
<1>6. Entries(Core(cur_state), result) \subseteq Reference[grammar]
  <2>1. Entries(Core(cur_state), kernel[cur_state]) \subseteq Reference[grammar]
    BY <1>3, SoundLists DEF FoundSound
  <2>2. \A token \in kernel[cur_state][item] \cup {PRESENT} :
          <<Core(cur_state), item, token>> \in Reference[grammar]
    BY <1>3, <2>1, EntriesFacts DEF Core
  <2>3. Entries(Core(cur_state), closure_items) \subseteq Reference[grammar]
    BY <1>1 DEF FoundSound, Closing
  <2> QED BY <1>3, <2>2, <2>3, DoCloseSound
<1>7. Derived(grammar, item) \subseteq ClosureItems(grammar, Core(cur_state))
  BY <1>3, DerivedInClosure DEF AllItems
<1> HIDE DEF result
<1>8. TypeOK'
  BY <1>0, <1>1, <1>2, <1>5 DEF TypeOK, States, tables
<1>9. ClosureProgress'
  <2>1. Core(cur_state)' = Core(cur_state)
    BY <1>1 DEF Core
  <2>2. DOMAIN result \subseteq ClosureItems(grammar, Core(cur_state))
    BY <1>1, <1>4, <1>7 DEF ClosureProgress, Closing
  <2>3. did_something' \/ DOMAIN result = {}
    BY <1>1, <1>2 DEF ClosureProgress
  <2>4. ASSUME NEW i \in Core(cur_state) \ (todo \ {item})
        PROVE  HandedOn(grammar, result, i, kernel[cur_state][i])
    <3>1. CASE i = item
      BY <1>4, <3>1
    <3>2. CASE i # item
      <4>1. HandedOn(grammar, closure_items, i, kernel[cur_state][i])
        BY <1>1, <2>4, <3>2 DEF ClosureProgress
      <4> QED BY <1>4, <4>1, HandedOnMonotone
    <3> QED BY <3>1, <3>2
  <2>5. todo' \subseteq Core(cur_state)
    BY <1>0, <1>1 DEF ClosureProgress
  <2> QED BY <1>0, <1>1, <1>2, <2>1, <2>2, <2>3, <2>4, <2>5 DEF ClosureProgress, Closing
<1>10. FoundSound' /\ KernelShapes' /\ EpsilonItemsOnly' /\ ExpandedItems' /\ PendingItems'
       /\ TransitionShapes' /\ Propagated' /\ Accounted'
  <2>1. Closing /\ Closing'
    BY <1>1 DEF Closing
  <2>2. (Entries(Core(cur_state), closure_items) \subseteq Reference[grammar])'
    BY <1>1, <1>2, <1>6 DEF Core
  <2> QED BY <1>1, <2>1, <2>2, ClosingStep DEF FoundSound
<1> QED BY <1>8, <1>9, <1>10

LEMMA StartPassKeepsIInv ==
  ASSUME IInv, StartPass
  PROVE  IInv'
<1> USE DEF IInv
<1>1. /\ pc \in {"close_kernel", "close_items"} /\ pc' = "close_items"
      /\ todo = {} /\ todo' = DOMAIN closure_items
      /\ did_something' = FALSE
      /\ UNCHANGED <<grammar, tables, cur_state, closure_items, pending>>
      /\ UNCHANGED kernel
  BY DEF StartPass, tables
<1>2. TypeOK'
  BY <1>1 DEF TypeOK, States, tables, IsItemList
<1>3. ClosureProgress'
  BY <1>1 DEF ClosureProgress, Closing, Core
<1>4. KernelShapes' /\ EpsilonItemsOnly' /\ ExpandedItems' /\ PendingItems'
      /\ TransitionShapes' /\ Propagated' /\ Accounted' /\ FoundSound'
  <2>1. Closing /\ Closing'
    BY <1>1 DEF Closing
  <2>2. (Entries(Core(cur_state), closure_items) \subseteq Reference[grammar])'
    BY <1>1, <2>1 DEF Core, FoundSound
  <2> QED BY <1>1, <2>1, <2>2, ClosingStep DEF FoundSound
<1> QED BY <1>2, <1>3, <1>4

LEMMA CloseClosureItemKeepsIInv ==
  ASSUME IInv, CloseClosureItem
  PROVE  IInv'
<1> USE DEF IInv
<1>0. PICK item \in todo : DoClose(item, closure_items[item]) /\ todo' = todo \ {item}
  BY DEF CloseClosureItem
<1>1. /\ pc = "close_items" /\ pc' = pc
      /\ UNCHANGED <<grammar, tables, pc, cur_state, pending>>
      /\ UNCHANGED kernel
  BY DEF CloseClosureItem, tables
<1> DEFINE result == DoCloseResult(grammar, closure_items, item, closure_items[item])
<1>2. /\ closure_items' = result
      /\ did_something' = (did_something \/ result # closure_items)
  BY <1>0 DEF DoClose
<1>3. /\ IsGrammar(grammar) /\ LalrClosed(grammar, Reference[grammar])
      /\ item \in DOMAIN closure_items
      /\ item \in Items(grammar)
      /\ closure_items[item] \subseteq Tokens(grammar)
      /\ item \in ClosureItems(grammar, Core(cur_state))
  <2>1. item \in DOMAIN closure_items
    BY <1>0, <1>1 DEF ClosureProgress
  <2>2. item \in ClosureItems(grammar, Core(cur_state))
    BY <1>1, <2>1 DEF ClosureProgress, Closing
  <2> QED BY <2>1, <2>2, GrammarFacts DEF TypeOK, IsItemList
<1>4. /\ DOMAIN result = DOMAIN closure_items \cup Derived(grammar, item)
      /\ \A old \in DOMAIN closure_items : closure_items[old] \subseteq result[old]
      /\ HandedOn(grammar, result, item, closure_items[item])
  BY DoCloseFacts
<1>5. IsItemList(grammar, result)
  BY <1>3, DoCloseType DEF TypeOK
<1>6. Entries(Core(cur_state), result) \subseteq Reference[grammar]
  <2>1. Entries(Core(cur_state), closure_items) \subseteq Reference[grammar]
    BY <1>1 DEF FoundSound, Closing
  <2>2. \A token \in closure_items[item] \cup {PRESENT} :
          <<Core(cur_state), item, token>> \in Reference[grammar]
    BY <1>3, <2>1, EntriesFacts
  <2> QED BY <1>3, <2>1, <2>2, DoCloseSound
<1>7. Derived(grammar, item) \subseteq ClosureItems(grammar, Core(cur_state))
  BY <1>3, DerivedInClosure DEF AllItems
<1> HIDE DEF result
<1>8. TypeOK'
  BY <1>0, <1>1, <1>2, <1>5 DEF TypeOK, States, tables
<1>9. ClosureProgress'
  <2>1. Core(cur_state)' = Core(cur_state)
    BY <1>1 DEF Core
  <2>2. DOMAIN result \subseteq ClosureItems(grammar, Core(cur_state))
    BY <1>1, <1>4, <1>7 DEF ClosureProgress, Closing
  <2>3. todo' \subseteq DOMAIN result
    BY <1>0, <1>1, <1>4 DEF ClosureProgress
  <2>4. ASSUME NEW i \in Core(cur_state)
        PROVE  HandedOn(grammar, result, i, kernel[cur_state][i])
    <3>1. HandedOn(grammar, closure_items, i, kernel[cur_state][i])
      BY <1>1 DEF ClosureProgress
    <3> QED BY <1>4, <3>1, HandedOnMonotone
  <2>5. ASSUME ~did_something', NEW i \in DOMAIN result \ (todo \ {item})
        PROVE  HandedOn(grammar, result, i, result[i])
    <3>1. ~did_something /\ result = closure_items
      BY <1>2, <2>5
    <3>2. CASE i = item
      BY <1>4, <3>1, <3>2
    <3>3. CASE i # item
      BY <1>1, <2>5, <3>1, <3>3 DEF ClosureProgress
    <3> QED BY <3>2, <3>3
  <2> QED BY <1>0, <1>1, <1>2, <2>1, <2>2, <2>3, <2>4, <2>5 DEF ClosureProgress, Closing
<1>10. FoundSound' /\ KernelShapes' /\ EpsilonItemsOnly' /\ ExpandedItems' /\ PendingItems'
       /\ TransitionShapes' /\ Propagated' /\ Accounted'
  <2>1. Closing /\ Closing'
    BY <1>1 DEF Closing
  <2>2. (Entries(Core(cur_state), closure_items) \subseteq Reference[grammar])'
    BY <1>1, <1>2, <1>6 DEF Core
  <2> QED BY <1>1, <2>1, <2>2, ClosingStep DEF FoundSound
<1> QED BY <1>8, <1>9, <1>10

\* When a pass over the items changes nothing, the items found are the whole closure, all
\* of them have been visited, and none is in the kernel.
LEMMA ClosureComplete ==
  ASSUME IInv, Closing, todo = {}, ~did_something
  PROVE  LET core == Core(cur_state)
             all  == MergeLists(closure_items, kernel[cur_state])
         IN /\ DOMAIN closure_items = ClosureItems(grammar, core)
            /\ core \cap DOMAIN closure_items = {}
            /\ DOMAIN all = AllItems(grammar, core)
            /\ \A item \in core : all[item] = kernel[cur_state][item]
            /\ \A item \in DOMAIN closure_items : all[item] = closure_items[item]
            /\ \A item \in DOMAIN all : HandedOn(grammar, all, item, all[item])
<1> USE DEF IInv
<1> DEFINE core == Core(cur_state)
           all  == MergeLists(closure_items, kernel[cur_state])
<1>1. /\ IsGrammar(grammar) /\ cur_state \in States
      /\ core \subseteq Items(grammar)
  BY GrammarFacts DEF TypeOK, IsItemList, Core
<1>2. /\ \A item \in core : HandedOn(grammar, closure_items, item, kernel[cur_state][item])
      /\ \A item \in DOMAIN closure_items :
           HandedOn(grammar, closure_items, item, closure_items[item])
  BY DEF ClosureProgress, Closing
<1>3. DOMAIN closure_items \subseteq ClosureItems(grammar, core)
  BY DEF ClosureProgress
<1>4. ClosureItems(grammar, core) \subseteq DOMAIN closure_items
  <2>1. \A item \in core \cup DOMAIN closure_items :
          Derived(grammar, item) \subseteq DOMAIN closure_items
    BY <1>2 DEF HandedOn
  <2> QED BY <1>1, <2>1, ClosureIsLeast
<1>5. core \cap ClosureItems(grammar, core) = {}
  <2>1. CASE core = StartCore
    BY <1>1, <2>1, StartItemNotInClosure DEF StartCore
  <2>2. CASE \A item \in core : item[2] > 0
    BY <1>1, <2>2, ClosureItemsType
  <2> QED BY <1>1, <2>1, <2>2 DEF KernelShapes
<1>6. DOMAIN kernel[cur_state] = core
  BY DEF Core
<1>7. /\ DOMAIN all = core \cup DOMAIN closure_items
      /\ \A item \in core : all[item] = kernel[cur_state][item]
      /\ \A item \in DOMAIN closure_items : all[item] = closure_items[item]
  BY <1>3, <1>5, <1>6 DEF MergeLists, LookaheadsIn
<1>8. \A item \in DOMAIN all : HandedOn(grammar, all, item, all[item])
  <2> HIDE DEF all, core
  <2>1. \A i \in DOMAIN closure_items : closure_items[i] \subseteq all[i]
    BY <1>7
  <2>2. ASSUME NEW item \in DOMAIN all
        PROVE  HandedOn(grammar, closure_items, item, all[item])
    BY <1>2, <1>7
  <2> QED BY <1>7, <2>1, <2>2, HandedOnMonotone
<1> HIDE DEF all, core
<1>9. DOMAIN all = AllItems(grammar, core)
  BY <1>3, <1>4, <1>7 DEF AllItems
<1> QED BY <1>3, <1>4, <1>5, <1>7, <1>8, <1>9 DEF all, core

LEMMA ClosureDoneKeepsIInv ==
  ASSUME IInv, ClosureDone
  PROVE  IInv'
<1> USE DEF IInv
<1> DEFINE core == Core(cur_state)
           all  == KClosure(grammar, closure_items, kernel[cur_state])
           eps  == EpsilonItemsOf(grammar, all)
           snap == MergeLists(closure_items, kernel[cur_state])
<1>1. /\ pc \in {"close_kernel", "close_items"} /\ pc' = "transitions"
      /\ todo = {} /\ ~did_something
      /\ epsilon' = [epsilon EXCEPT ![cur_state] = MoveEps(grammar, all, epsilon[cur_state])]
      /\ pending' = Without(all, eps)
      /\ closed_items' = [closed_items EXCEPT ![cur_state] = snap]
      /\ UNCHANGED <<grammar, Nstates, kernel, closed, transitions, Unfinished, cur_state,
                     closure_items, todo, did_something>>
  BY DEF ClosureDone
<1>2. Closing
  BY <1>1 DEF Closing
<1>3. /\ IsGrammar(grammar)
      /\ cur_state \in States
      /\ core = DOMAIN kernel[cur_state]
      /\ core \subseteq Items(grammar)
      /\ IsItemList(grammar, kernel[cur_state])
      /\ IsItemList(grammar, closure_items)
      /\ IsItemList(grammar, epsilon[cur_state])
  BY GrammarFacts DEF TypeOK, IsItemList, Core
<1>4. /\ DOMAIN closure_items = ClosureItems(grammar, core)
      /\ core \cap DOMAIN closure_items = {}
      /\ DOMAIN snap = AllItems(grammar, core)
      /\ \A item \in core : snap[item] = kernel[cur_state][item]
      /\ \A item \in DOMAIN closure_items : snap[item] = closure_items[item]
      /\ \A item \in DOMAIN snap : HandedOn(grammar, snap, item, snap[item])
  BY <1>1, <1>2, ClosureComplete
<1>5. IsItemList(grammar, snap)
  BY <1>3, MergeListsType
\* What kclosure() leaves.
<1>6. /\ DOMAIN all = {item \in core : ~AtEnd(grammar, item)} \cup DOMAIN closure_items
      /\ \A item \in DOMAIN all : all[item] = snap[item]
      /\ IsItemList(grammar, all)
  <2> DEFINE some == RestrictTo(kernel[cur_state], {item \in core : ~AtEnd(grammar, item)})
  <2>1. /\ DOMAIN some = {item \in core : ~AtEnd(grammar, item)}
        /\ \A item \in DOMAIN some : some[item] = kernel[cur_state][item]
        /\ IsItemList(grammar, some)
    BY <1>3 DEF RestrictTo, IsItemList
  <2>2. all = MergeLists(closure_items, some)
    BY <1>3 DEF KClosure
  <2> HIDE DEF some, all
  <2>3. IsItemList(grammar, all)
    BY <1>3, <2>1, <2>2, MergeListsType
  <2>4. DOMAIN all = DOMAIN closure_items \cup DOMAIN some
    BY <2>2, MergeListsFacts
  <2>5. \A item \in DOMAIN all : all[item] = snap[item]
    <3>1. DOMAIN some \subseteq core
      BY <2>1
    <3>2. \A item \in DOMAIN some : all[item] = some[item]
      BY <1>4, <2>2, <3>1 DEF MergeLists, LookaheadsIn
    <3>3. \A item \in DOMAIN closure_items : all[item] = closure_items[item]
      BY <1>4, <2>2, <3>1 DEF MergeLists, LookaheadsIn
    <3>4. \A item \in DOMAIN some : snap[item] = some[item]
      BY <1>4, <2>1
    <3>5. \A item \in DOMAIN closure_items : snap[item] = closure_items[item]
      BY <1>4
    <3> HIDE DEF core
    <3> QED BY <2>4, <3>2, <3>3, <3>4, <3>5
  <2> QED BY <2>1, <2>3, <2>4, <2>5
<1> HIDE DEF snap, all
\* The epsilon items among them are those of the closure, and are the ones at their end.
<1>7. /\ eps = EpsilonItems(cur_state)
      /\ eps \subseteq DOMAIN closure_items
      /\ \A item \in DOMAIN closure_items : item \in eps <=> AtEnd(grammar, item)
  <2>1. \A item \in Items(grammar) : IsEpsilonItem(grammar, item) => AtEnd(grammar, item)
    <3> SUFFICES ASSUME NEW item \in Items(grammar), IsEpsilonItem(grammar, item)
                 PROVE  AtEnd(grammar, item)
      OBVIOUS
    <3>1. item[2] \in Nat
      BY <1>3, ItemParts, RhsType
    <3> QED BY <3>1 DEF IsEpsilonItem, AtEnd
  <2>2. \A item \in DOMAIN closure_items :
          item \in Items(grammar) /\ item[1] \in Productions(grammar) /\ item[2] = 0
    BY <1>3, <1>4, ClosureItemsType, ItemParts
  <2>3. \A item \in DOMAIN closure_items :
          AtEnd(grammar, item) => IsEpsilonItem(grammar, item)
    <3> SUFFICES ASSUME NEW item \in DOMAIN closure_items, AtEnd(grammar, item)
                 PROVE  IsEpsilonItem(grammar, item)
      OBVIOUS
    <3>1. grammar.rhs[item[1]] \in Seq(Symbols(grammar)) /\ Len(grammar.rhs[item[1]]) = 0
      BY <1>3, <2>2, RhsType DEF AtEnd
    <3> QED BY <3>1 DEF IsEpsilonItem
  <2> QED BY <1>3, <1>4, <1>6, <2>1, <2>2, <2>3 DEF EpsilonItemsOf, EpsilonItems
<1>8. /\ DOMAIN pending' = {item \in DOMAIN snap : ~AtEnd(grammar, item)}
      /\ \A item \in DOMAIN pending' : pending'[item] = snap[item]
      /\ IsItemList(grammar, pending')
  <2> HIDE DEF eps
  <2>1. DOMAIN pending' = DOMAIN all \ eps
    BY <1>1 DEF Without
  <2>2. \A item \in DOMAIN pending' : pending'[item] = all[item]
    BY <1>1 DEF Without
  <2>3. IsItemList(grammar, pending')
    BY <1>6, <2>1, <2>2 DEF IsItemList
  <2> QED BY <1>4, <1>6, <1>7, <2>1, <2>2, <2>3 DEF AllItems
<1> DEFINE neweps == MoveEps(grammar, all, epsilon[cur_state])
<1>9. /\ DOMAIN neweps = eps
      /\ \A item \in DOMAIN epsilon[cur_state] : epsilon[cur_state][item] \subseteq neweps[item]
      /\ \A item \in eps : snap[item] \subseteq neweps[item]
      /\ \A item \in eps : \A token \in neweps[item] :
           \/ item \in DOMAIN epsilon[cur_state] /\ token \in epsilon[cur_state][item]
           \/ token \in snap[item]
      /\ IsItemList(grammar, neweps)
  <2> DEFINE moved == RestrictTo(all, eps)
  <2>1. /\ DOMAIN moved = eps
        /\ \A item \in eps : moved[item] = snap[item]
        /\ IsItemList(grammar, moved)
    <3> HIDE DEF eps
    <3>1. eps \subseteq DOMAIN all
      BY <1>6, <1>7
    <3> QED BY <1>6, <3>1 DEF RestrictTo, IsItemList
  <2>2. neweps = MergeLists(epsilon[cur_state], moved)
    BY DEF MoveEps
  <2>3. DOMAIN epsilon[cur_state] \subseteq eps
    BY <1>3, <1>7 DEF EpsilonItemsOnly
  <2> HIDE DEF moved, neweps, eps
  <2>4. DOMAIN neweps = eps
    BY <2>1, <2>2, <2>3 DEF MergeLists
  <2>5. \A item \in DOMAIN epsilon[cur_state] : epsilon[cur_state][item] \subseteq neweps[item]
    BY <2>2, MergeListsFacts
  <2>6. \A item \in eps : snap[item] \subseteq neweps[item]
    BY <2>1, <2>2, MergeListsFacts
  <2>7. ASSUME NEW item \in eps, NEW token \in neweps[item]
        PROVE  \/ item \in DOMAIN epsilon[cur_state] /\ token \in epsilon[cur_state][item]
               \/ token \in snap[item]
    BY <2>1, <2>2, <2>7 DEF MergeLists, LookaheadsIn
  <2>8. IsItemList(grammar, neweps)
    BY <1>3, <2>1, <2>2, MergeListsType
  <2> QED BY <2>4, <2>5, <2>6, <2>7, <2>8
<1> HIDE DEF neweps, eps
<1>10. /\ DOMAIN epsilon' = States /\ DOMAIN closed_items' = States
       /\ epsilon'[cur_state] = neweps
       /\ closed_items'[cur_state] = snap
       /\ \A n \in States \ {cur_state} :
            epsilon'[n] = epsilon[n] /\ closed_items'[n] = closed_items[n]
  BY <1>1, <1>3 DEF TypeOK, neweps
<1>11. States' = States /\ \A n : Core(n)' = Core(n) /\ EpsilonItems(n)' = EpsilonItems(n)
  BY <1>1 DEF States, Core, EpsilonItems
<1>12. TypeOK'
  BY <1>1, <1>5, <1>8, <1>9, <1>10, <1>11 DEF TypeOK, IsItemList
<1>13. KernelShapes'
  BY <1>1, <1>11 DEF KernelShapes
<1>14. ClosureProgress' /\ Accounted'
  BY <1>1, <1>2, <1>11 DEF ClosureProgress, Accounted, Closing, Working
<1>15. EpsilonItemsOnly'
  BY <1>7, <1>9, <1>10, <1>11 DEF EpsilonItemsOnly
<1>16. ExpandedItems'
  <2> SUFFICES ASSUME NEW n \in States, Expanded(n)'
               PROVE  (/\ DOMAIN closed_items[n] = AllItems(grammar, Core(n))
                       /\ \A item \in DOMAIN closed_items[n] :
                            HandedOn(grammar, closed_items[n], item, closed_items[n][item])
                       /\ \A item \in Core(n) : closed_items[n][item] \subseteq kernel[n][item]
                       /\ n \notin Unfinished /\ ~InClosure(n) =>
                            \A item \in Core(n) : closed_items[n][item] = kernel[n][item]
                       /\ DOMAIN epsilon[n] = EpsilonItems(n)
                       /\ \A item \in DOMAIN epsilon[n] :
                            closed_items[n][item] \subseteq epsilon[n][item])'
    BY <1>11 DEF ExpandedItems
  <2>1. CASE n = cur_state
    BY <1>1, <1>4, <1>7, <1>9, <1>10, <1>11, <2>1
  <2>2. CASE n # cur_state
    <3>1. Expanded(n) /\ ~InClosure(n)
      BY <1>1, <2>2 DEF Expanded, InClosure
    <3> QED BY <1>1, <1>10, <1>11, <2>2, <3>1 DEF ExpandedItems
  <2> QED BY <2>1, <2>2
<1>17. PendingItems'
  BY <1>1, <1>3, <1>8, <1>10, <1>11 DEF PendingItems
<1>18. SymbolsOf(grammar, pending)' = OutSymbols(grammar, core)
  BY <1>1, <1>4, <1>8 DEF SymbolsOf, OutSymbols
<1>19. TransitionShapes'
  <2>1. \A n : Awaited(n) = {}
    BY <1>1 DEF Awaited
  <2>2. Awaited(cur_state)' = OutSymbols(grammar, core)
    BY <1>1, <1>18 DEF Awaited
  <2> QED BY <1>1, <1>11, <2>1, <2>2 DEF TransitionShapes
<1>20. Propagated'
  <2> SUFFICES ASSUME NEW n \in States, Expanded(n)', ~InClosure(n)',
                      (n \notin Unfinished \/ (pc = "transitions" /\ n = cur_state))',
                      NEW item \in DOMAIN closed_items'[n], ~AtEnd(grammar, item),
                      RightOfDot(grammar, item) \notin Awaited(n)'
               PROVE  closed_items'[n][item] \subseteq
                        kernel[transitions[n][RightOfDot(grammar, item)]][MoveDot(item)]
    BY <1>1, <1>11 DEF Propagated
  <2>1. CASE n = cur_state
    <3>1. RightOfDot(grammar, item) \in OutSymbols(grammar, core)
      BY <1>4, <1>10, <2>1 DEF OutSymbols
    <3> QED BY <1>1, <1>18, <2>1, <3>1 DEF Awaited
  <2>2. CASE n # cur_state
    BY <1>1, <1>10, <2>2 DEF Propagated, Expanded, InClosure, Awaited
  <2> QED BY <2>1, <2>2
<1>21. FoundSound'
  <2>1. /\ Entries(core, kernel[cur_state]) \subseteq Reference[grammar]
        /\ Entries(core, epsilon[cur_state]) \subseteq Reference[grammar]
    BY <1>3, SoundLists DEF FoundSound
  <2>2. Entries(core, closure_items) \subseteq Reference[grammar]
    BY <1>2 DEF FoundSound
  <2> HIDE DEF core
  <2>3. Entries(core, snap) \subseteq Reference[grammar]
    <3>1. ASSUME NEW item \in DOMAIN snap, NEW token \in snap[item] \cup {PRESENT}
          PROVE  <<core, item, token>> \in Reference[grammar]
      <4>1. CASE item \in core
        BY <1>3, <1>4, <2>1, <3>1, <4>1 DEF Entries
      <4>2. CASE item \in DOMAIN closure_items
        BY <1>4, <2>2, <3>1, <4>2 DEF Entries
      <4> QED BY <1>4, <4>1, <4>2 DEF AllItems
    <3> QED BY <3>1, EntriesFacts
  <2>4. Entries(core, neweps) \subseteq Reference[grammar]
    <3>1. eps \subseteq DOMAIN snap
      BY <1>4, <1>7 DEF AllItems
    <3>2. ASSUME NEW item \in eps, NEW token \in neweps[item] \cup {PRESENT}
          PROVE  <<core, item, token>> \in Reference[grammar]
      <4>1. CASE item \in DOMAIN epsilon[cur_state] /\ token \in epsilon[cur_state][item]
        BY <2>1, <4>1 DEF Entries
      <4>2. CASE token \in snap[item] \cup {PRESENT}
        BY <2>3, <3>1, <3>2, <4>2 DEF Entries
      <4> QED BY <1>9, <3>2, <4>1, <4>2
    <3> QED BY <1>9, <3>2, EntriesFacts
  <2> USE DEF core
  <2>5. \A n \in States :
          /\ Entries(Core(n), kernel[n]) \subseteq Reference[grammar]
          /\ Entries(Core(n), epsilon'[n]) \subseteq Reference[grammar]
          /\ Entries(Core(n), closed_items'[n]) \subseteq Reference[grammar]
    BY <1>10, <2>3, <2>4, SoundLists DEF FoundSound
  <2> QED BY <1>1, <1>11, <2>5 DEF FoundSound, LookaheadsSound, EntriesOfStates, Closing
<1> QED BY <1>12, <1>13, <1>14, <1>15, <1>16, <1>17, <1>19, <1>20, <1>21

LEMMA CloseStateKeepsIInv ==
  ASSUME IInv, CloseState
  PROVE  IInv'
<1> USE DEF IInv
<1>1. /\ pc = "transitions" /\ pc' = "next"
      /\ DOMAIN pending = {}
      /\ closed' = closed \cup {cur_state}
      /\ UNCHANGED <<grammar, Nstates, kernel, epsilon, transitions, Unfinished, cur_state,
                     closure_items, todo, did_something, pending, closed_items>>
  BY DEF CloseState
<1>2. /\ States' = States
      /\ \A n : Core(n)' = Core(n) /\ EpsilonItems(n)' = EpsilonItems(n)
      /\ \A n : Awaited(n) = {} /\ Awaited(n)' = {}
      /\ \A n : Expanded(n)' = Expanded(n) /\ ~InClosure(n) /\ ~InClosure(n)'
  BY <1>1 DEF States, Core, EpsilonItems, Awaited, SymbolsOf, Expanded, InClosure
<1>3. TypeOK'
  BY <1>1, <1>2 DEF TypeOK, IsItemList
<1>4. KernelShapes' /\ EpsilonItemsOnly' /\ ExpandedItems'
  BY <1>1, <1>2 DEF KernelShapes, EpsilonItemsOnly, ExpandedItems
<1>5. ClosureProgress' /\ PendingItems' /\ Accounted'
  BY <1>1, <1>2 DEF ClosureProgress, PendingItems, Accounted, Closing, Working
<1>6. TransitionShapes'
  BY <1>1, <1>2 DEF TransitionShapes
<1>7. Propagated'
  BY <1>1, <1>2 DEF Propagated
<1>8. FoundSound'
  BY <1>1, <1>2 DEF FoundSound, LookaheadsSound, EntriesOfStates, Closing
<1> QED BY <1>3, <1>4, <1>5, <1>6, <1>7, <1>8

LEMMA LrReturnsKeepsIInv ==
  ASSUME IInv, LrReturns
  PROVE  IInv'
<1> USE DEF IInv
<1>1. /\ pc = "next" /\ pc' = "done"
      /\ Unfinished = {}
      /\ UNCHANGED <<grammar, Nstates, kernel, epsilon, closed, transitions, Unfinished,
                     closed_items, cur_state, closure_items, todo, did_something, pending>>
  BY DEF LrReturns, tables
<1>2. /\ States' = States
      /\ \A n : Core(n)' = Core(n) /\ EpsilonItems(n)' = EpsilonItems(n)
      /\ \A n : Awaited(n) = {} /\ Awaited(n)' = {}
      /\ \A n : Expanded(n)' = Expanded(n) /\ ~InClosure(n) /\ ~InClosure(n)'
  BY <1>1 DEF States, Core, EpsilonItems, Awaited, Expanded, InClosure
<1>3. TypeOK'
  BY <1>1, <1>2 DEF TypeOK, IsItemList
<1>4. KernelShapes' /\ EpsilonItemsOnly' /\ ExpandedItems'
  BY <1>1, <1>2 DEF KernelShapes, EpsilonItemsOnly, ExpandedItems
<1>5. ClosureProgress' /\ PendingItems' /\ Accounted'
  BY <1>1, <1>2 DEF ClosureProgress, PendingItems, Accounted, Closing, Working
<1>6. TransitionShapes' /\ Propagated'
  BY <1>1, <1>2 DEF TransitionShapes, Propagated
<1>7. FoundSound'
  BY <1>1, <1>2 DEF FoundSound, LookaheadsSound, EntriesOfStates, Closing
<1> QED BY <1>3, <1>4, <1>5, <1>6, <1>7

LEMMA FatalErrorKeepsIInv ==
  ASSUME IInv, FatalError
  PROVE  IInv'
<1> USE DEF IInv
<1>1. /\ pc \in {"close_kernel", "close_items", "transitions"} /\ pc' = "fatal"
      /\ UNCHANGED <<grammar, Nstates, kernel, epsilon, closed, transitions, Unfinished,
                     closed_items, cur_state, closure_items, todo, did_something, pending>>
  BY DEF FatalError, ClosureTooLarge, ClosedSetTooLarge, StateTableFull, tables
<1>2. /\ States' = States
      /\ \A n : Core(n)' = Core(n) /\ EpsilonItems(n)' = EpsilonItems(n)
      /\ \A n : Awaited(n)' = {}
      /\ \A n : Expanded(n)' => Expanded(n)
      /\ \A n : n # cur_state => Awaited(n) = {} /\ ~InClosure(n) /\ ~InClosure(n)'
      /\ InClosure(cur_state)'
  BY <1>1 DEF States, Core, EpsilonItems, Awaited, Expanded, InClosure
<1>3. TypeOK'
  BY <1>1, <1>2 DEF TypeOK, IsItemList
<1>4. KernelShapes' /\ EpsilonItemsOnly' /\ ExpandedItems'
  BY <1>1, <1>2 DEF KernelShapes, EpsilonItemsOnly, ExpandedItems
<1>5. ClosureProgress' /\ PendingItems' /\ Accounted'
  BY <1>1, <1>2 DEF ClosureProgress, PendingItems, Accounted, Closing, Working
<1>6. TransitionShapes'
  BY <1>1, <1>2 DEF TransitionShapes
<1>7. Propagated'
  BY <1>1, <1>2 DEF Propagated
<1>8. FoundSound'
  BY <1>1, <1>2 DEF FoundSound, LookaheadsSound, EntriesOfStates, Closing
<1> QED BY <1>3, <1>4, <1>5, <1>6, <1>7, <1>8

\* The items newstate() and merge_lookaheads() get for the next symbol: the kernel of the
\* successor state, with the lookaheads the items have before the dot moves.
LEMMA SuccessorOfCurrent ==
  ASSUME IInv, pc = "transitions", NEW sym \in SymbolsOf(grammar, pending)
  PROVE  LET core  == Core(cur_state)
             items == Successor(grammar, pending, sym)
             rest  == Without(pending, ItemsOn(grammar, pending, sym))
         IN /\ DOMAIN items = GotoCore(grammar, core, sym)
            /\ \A item \in DOMAIN closed_items[cur_state] :
                 ~AtEnd(grammar, item) /\ RightOfDot(grammar, item) = sym =>
                   /\ MoveDot(item) \in DOMAIN items
                   /\ closed_items[cur_state][item] = items[MoveDot(item)]
            /\ \A new \in DOMAIN items : new[2] > 0
            /\ IsItemList(grammar, items)
            /\ Entries(DOMAIN items, items) \subseteq Reference[grammar]
            /\ sym \in Symbols(grammar)
            /\ sym \in OutSymbols(grammar, core)
            /\ IsItemList(grammar, rest)
            /\ SymbolsOf(grammar, rest) = SymbolsOf(grammar, pending) \ {sym}
            /\ \A item \in DOMAIN rest : item \in DOMAIN pending /\ rest[item] = pending[item]
            /\ \A item \in DOMAIN pending :
                 RightOfDot(grammar, item) # sym => item \in DOMAIN rest
<1> USE DEF IInv
<1> DEFINE core  == Core(cur_state)
           items == Successor(grammar, pending, sym)
           on    == ItemsOn(grammar, pending, sym)
           rest  == Without(pending, on)
<1>1. /\ IsGrammar(grammar) /\ LalrClosed(grammar, Reference[grammar])
      /\ cur_state \in States
      /\ IsItemList(grammar, pending)
      /\ IsItemList(grammar, closed_items[cur_state])
  BY GrammarFacts DEF TypeOK
<1>2. DOMAIN closed_items[cur_state] = AllItems(grammar, core)
  BY <1>1 DEF ExpandedItems, Expanded
<1>3. /\ \A item \in DOMAIN pending : /\ item \in AllItems(grammar, core)
                                      /\ ~AtEnd(grammar, item)
                                      /\ pending[item] = closed_items[cur_state][item]
      /\ \A item \in AllItems(grammar, core) :
           ~AtEnd(grammar, item) /\ RightOfDot(grammar, item) \in SymbolsOf(grammar, pending)
             => item \in DOMAIN pending
  BY <1>2 DEF PendingItems
<1>4. on = {item \in AllItems(grammar, core) :
              ~AtEnd(grammar, item) /\ RightOfDot(grammar, item) = sym}
  BY <1>3 DEF ItemsOn
<1>5. /\ DOMAIN items = {MoveDot(item) : item \in on}
      /\ \A item \in on : items[MoveDot(item)] = pending[item]
      /\ \A new \in DOMAIN items : new[2] > 0
      /\ IsItemList(grammar, items)
  BY <1>1, <1>3, SuccessorFacts
<1>6. on \subseteq DOMAIN pending
  BY DEF ItemsOn
<1> HIDE DEF items, on
<1>7. DOMAIN items = GotoCore(grammar, core, sym)
  BY <1>4, <1>5 DEF GotoCore
<1>8. \A item \in DOMAIN closed_items[cur_state] :
        ~AtEnd(grammar, item) /\ RightOfDot(grammar, item) = sym =>
          MoveDot(item) \in DOMAIN items /\ closed_items[cur_state][item] = items[MoveDot(item)]
  BY <1>2, <1>3, <1>4, <1>5, <1>6
<1>9. Entries(DOMAIN items, items) \subseteq Reference[grammar]
  <2> SUFFICES ASSUME NEW new \in DOMAIN items, NEW token \in items[new] \cup {PRESENT}
               PROVE  <<DOMAIN items, new, token>> \in Reference[grammar]
    BY EntriesFacts
  <2>1. PICK item \in on : new = MoveDot(item)
    BY <1>5
  <2>2. token \in closed_items[cur_state][item] \cup {PRESENT}
    BY <1>3, <1>5, <1>6, <2>1
  <2>3. item \in DOMAIN closed_items[cur_state] /\ ~AtEnd(grammar, item)
        /\ RightOfDot(grammar, item) = sym
    BY <1>2, <1>4
  <2>4. <<core, item, token>> \in Reference[grammar]
    <3>1. Entries(core, closed_items[cur_state]) \subseteq Reference[grammar]
      BY <1>1, SoundLists DEF FoundSound
    <3> QED BY <2>2, <2>3, <3>1 DEF Entries
  <2> HIDE DEF core
  <2>5. <<GotoCore(grammar, core, sym), MoveDot(item), token>> \in Reference[grammar]
    BY <1>1, <2>3, <2>4 DEF LalrClosed, GotoRule
  <2> QED BY <1>7, <2>1, <2>5
<1>10. PICK one \in DOMAIN pending : RightOfDot(grammar, one) = sym
  BY DEF SymbolsOf
<1>11. sym \in Symbols(grammar)
  BY <1>1, <1>3, <1>10, MoveDotType DEF IsItemList
<1>12. sym \in OutSymbols(grammar, core)
  BY <1>3, <1>10 DEF OutSymbols
<1>13. /\ DOMAIN rest = {item \in DOMAIN pending : RightOfDot(grammar, item) # sym}
       /\ \A item \in DOMAIN rest : rest[item] = pending[item]
  BY DEF Without, on, ItemsOn
<1>14. IsItemList(grammar, rest)
  BY <1>1, <1>13 DEF IsItemList
<1> HIDE DEF rest
<1>15. SymbolsOf(grammar, rest) = SymbolsOf(grammar, pending) \ {sym}
  BY <1>13 DEF SymbolsOf
<1> QED BY <1>5, <1>7, <1>8, <1>9, <1>11, <1>12, <1>13, <1>14, <1>15 DEF items, on, rest

LEMMA MakeNewStateKeepsIInv ==
  ASSUME IInv, MakeNewState
  PROVE  IInv'
<1> USE DEF IInv
<1>0. PICK sym \in SymbolsOf(grammar, pending) :
        LET items == Successor(grammar, pending, sym)
        IN /\ StatesWith(DOMAIN items) = {}
           /\ kernel' = [n \in 0 .. Nstates |-> IF n = Nstates THEN items ELSE kernel[n]]
           /\ transitions' = [n \in 0 .. Nstates |->
                                IF n = Nstates THEN [s \in {} |-> 0]
                                ELSE IF n = cur_state THEN AddTransition(n, sym, Nstates)
                                ELSE transitions[n]]
           /\ pending' = Without(pending, ItemsOn(grammar, pending, sym))
  BY DEF MakeNewState
<1> DEFINE core  == Core(cur_state)
           items == Successor(grammar, pending, sym)
<1>1. /\ pc = "transitions" /\ pc' = pc
      /\ Nstates < MAXSTATE
      /\ epsilon' = [n \in 0 .. Nstates |-> IF n = Nstates THEN NoItems ELSE epsilon[n]]
      /\ closed_items' = [n \in 0 .. Nstates |->
                            IF n = Nstates THEN NoItems ELSE closed_items[n]]
      /\ Nstates' = Nstates + 1
      /\ Unfinished' = Unfinished \cup {Nstates}
      /\ UNCHANGED <<grammar, closed, pc, cur_state, closure_items, todo, did_something>>
  BY DEF MakeNewState
<1>2. /\ DOMAIN items = GotoCore(grammar, core, sym)
      /\ \A item \in DOMAIN closed_items[cur_state] :
           ~AtEnd(grammar, item) /\ RightOfDot(grammar, item) = sym =>
             /\ MoveDot(item) \in DOMAIN items
             /\ closed_items[cur_state][item] = items[MoveDot(item)]
      /\ \A new \in DOMAIN items : new[2] > 0
      /\ IsItemList(grammar, items)
      /\ Entries(DOMAIN items, items) \subseteq Reference[grammar]
      /\ sym \in Symbols(grammar)
      /\ sym \in OutSymbols(grammar, core)
      /\ IsItemList(grammar, pending')
      /\ SymbolsOf(grammar, pending') = SymbolsOf(grammar, pending) \ {sym}
      /\ \A item \in DOMAIN pending' : item \in DOMAIN pending /\ pending'[item] = pending[item]
      /\ \A item \in DOMAIN pending :
           RightOfDot(grammar, item) # sym => item \in DOMAIN pending'
  BY <1>0, <1>1, SuccessorOfCurrent
<1> HIDE DEF items
<1>a. PICK new : new = Nstates
  OBVIOUS
<1>3. /\ Nstates \in Nat \ {0} /\ Nstates \in 1 .. MAXSTATE /\ MAXSTATE \in Nat
      /\ cur_state \in States
      /\ closed \subseteq States /\ Unfinished \subseteq States
      /\ new \notin States
      /\ 0 .. Nstates = States \cup {new}
      /\ States' = States \cup {new}
      /\ 0 \in States
  BY <1>1, <1>a, LimitsAssumption DEF TypeOK, States
<1>4. /\ DOMAIN kernel' = States'
      /\ kernel'[new] = items
      /\ \A n \in States : kernel'[n] = kernel[n]
  BY <1>0, <1>3, <1>a DEF items
<1>5. /\ DOMAIN epsilon' = States' /\ DOMAIN closed_items' = States'
      /\ epsilon'[new] = NoItems /\ closed_items'[new] = NoItems
      /\ \A n \in States : epsilon'[n] = epsilon[n] /\ closed_items'[n] = closed_items[n]
  BY <1>1, <1>3, <1>a
<1>6. /\ DOMAIN transitions' = States'
      /\ DOMAIN transitions'[new] = {}
      /\ transitions'[cur_state] = AddTransition(cur_state, sym, new)
      /\ \A n \in States \ {cur_state} : transitions'[n] = transitions[n]
  BY <1>0, <1>3, <1>a
<1>7. /\ \A n \in States : Core(n)' = Core(n) /\ EpsilonItems(n)' = EpsilonItems(n)
      /\ Core(new)' = DOMAIN items
  <2>1. Core(new)' = DOMAIN items
    BY <1>4 DEF Core
  <2>2. \A n \in States : Core(n)' = Core(n)
    BY <1>4 DEF Core
  <2> QED BY <1>1, <2>1, <2>2 DEF EpsilonItems
<1>8. \A n \in States : Core(n) # DOMAIN items
  BY <1>0 DEF StatesWith, items
\* A closed state never makes a new one.
<1>9. cur_state \notin closed
  <2> SUFFICES ASSUME cur_state \in closed PROVE FALSE
    OBVIOUS
  <2>1. sym \in DOMAIN transitions[cur_state]
    BY <1>2, <1>3 DEF TransitionShapes
  <2>2. transitions[cur_state][sym] \in States
    BY <1>3, <2>1 DEF TypeOK
  <2>3. Core(transitions[cur_state][sym]) = DOMAIN items
    BY <1>2, <1>3, <2>1 DEF TransitionShapes
  <2> QED BY <1>8, <2>2, <2>3
<1>10. /\ DOMAIN transitions'[cur_state] = DOMAIN transitions[cur_state] \cup {sym}
       /\ transitions'[cur_state][sym] = new
       /\ \A s \in DOMAIN transitions[cur_state] \ {sym} :
            transitions'[cur_state][s] = transitions[cur_state][s]
  BY <1>6, <1>9 DEF AddTransition
<1>11. DOMAIN transitions[cur_state] = OutSymbols(grammar, core) \ SymbolsOf(grammar, pending)
  BY <1>1, <1>3, <1>9 DEF TransitionShapes, Awaited
<1>12. /\ \A n \in States : Expanded(n)' = Expanded(n) /\ InClosure(n)' = InClosure(n)
       /\ ~Expanded(new)'
       /\ \A n \in States : n # cur_state => Awaited(n) = {} /\ Awaited(n)' = {}
       /\ Awaited(new)' = {}
       /\ Awaited(cur_state)' = SymbolsOf(grammar, pending) \ {sym}
  BY <1>1, <1>2, <1>3 DEF Expanded, InClosure, Awaited
<1>13. TypeOK'
  <2>1. Nstates' \in 1 .. MAXSTATE
    BY <1>1, <1>3
  <2>2. \A n \in States' : /\ IsItemList(grammar, kernel'[n])
                            /\ IsItemList(grammar, epsilon'[n])
                            /\ IsItemList(grammar, closed_items'[n])
    BY <1>2, <1>3, <1>4, <1>5, NoItemsFacts DEF TypeOK
  <2>3. \A n \in States' : \A s \in DOMAIN transitions'[n] :
          s \in Symbols(grammar) /\ transitions'[n][s] \in States'
    <3> SUFFICES ASSUME NEW n \in States', NEW s \in DOMAIN transitions'[n]
                 PROVE  s \in Symbols(grammar) /\ transitions'[n][s] \in States'
      OBVIOUS
    <3>1. CASE n = new
      BY <1>6, <3>1
    <3>2. CASE n = cur_state
      BY <1>2, <1>3, <1>10, <3>2 DEF TypeOK
    <3>3. CASE n \in States \ {cur_state}
      BY <1>3, <1>6, <3>3 DEF TypeOK
    <3> QED BY <1>3, <3>1, <3>2, <3>3
  <2>4. grammar' \in Grammars /\ pc' \in {"next", "close_kernel", "close_items", "transitions", "done", "fatal"}
        /\ cur_state' \in States' /\ closed' \subseteq States' /\ Unfinished' \subseteq States'
        /\ did_something' \in BOOLEAN /\ todo' \subseteq Items(grammar')
        /\ IsItemList(grammar', closure_items')
    BY <1>1, <1>3 DEF TypeOK
  <2>5. grammar' = grammar
    BY <1>1
  <2> QED BY <1>2, <1>4, <1>5, <1>6, <2>1, <2>2, <2>3, <2>4, <2>5 DEF TypeOK
<1>14. KernelShapes'
  <2>1. (\A n \in States : Core(n) = StartCore \/ \A item \in Core(n) : item[2] > 0)'
    BY <1>2, <1>3, <1>7 DEF KernelShapes
  <2>2. (\A m, n \in States : Core(m) = Core(n) => m = n)'
    BY <1>3, <1>7, <1>8 DEF KernelShapes
  <2> QED BY <1>3, <1>4, <1>7, <2>1, <2>2 DEF KernelShapes
<1>15. ClosureProgress' /\ Accounted'
  BY <1>1, <1>3, <1>a DEF ClosureProgress, Accounted, Closing, Working
<1>16. EpsilonItemsOnly'
  BY <1>3, <1>5, <1>7, NoItemsFacts DEF EpsilonItemsOnly
<1>17. ExpandedItems'
  <2> SUFFICES ASSUME NEW n \in States, Expanded(n)
               PROVE  (/\ DOMAIN closed_items[n] = AllItems(grammar, Core(n))
                       /\ \A item \in DOMAIN closed_items[n] :
                            HandedOn(grammar, closed_items[n], item, closed_items[n][item])
                       /\ \A item \in Core(n) : closed_items[n][item] \subseteq kernel[n][item]
                       /\ n \notin Unfinished /\ ~InClosure(n) =>
                            \A item \in Core(n) : closed_items[n][item] = kernel[n][item]
                       /\ DOMAIN epsilon[n] = EpsilonItems(n)
                       /\ \A item \in DOMAIN epsilon[n] :
                            closed_items[n][item] \subseteq epsilon[n][item])'
    BY <1>3, <1>12 DEF ExpandedItems
  <2>1. /\ kernel'[n] = kernel[n] /\ epsilon'[n] = epsilon[n]
        /\ closed_items'[n] = closed_items[n]
        /\ Core(n)' = Core(n) /\ EpsilonItems(n)' = EpsilonItems(n)
        /\ InClosure(n)' = InClosure(n)
        /\ n \notin Unfinished' => n \notin Unfinished
    BY <1>1, <1>4, <1>5, <1>7, <1>12
  <2> QED BY <1>1, <2>1 DEF ExpandedItems
<1>18. PendingItems'
  <2>1. closed_items'[cur_state] = closed_items[cur_state]
    BY <1>3, <1>5
  <2>2. \A item \in DOMAIN pending' :
          /\ item \in DOMAIN closed_items[cur_state]
          /\ ~AtEnd(grammar, item)
          /\ pending'[item] = closed_items[cur_state][item]
    BY <1>1, <1>2 DEF PendingItems
  <2>3. \A item \in DOMAIN closed_items[cur_state] :
          ~AtEnd(grammar, item) /\ RightOfDot(grammar, item) \in SymbolsOf(grammar, pending')
            => item \in DOMAIN pending'
    BY <1>1, <1>2 DEF PendingItems
  <2> QED BY <1>1, <2>1, <2>2, <2>3 DEF PendingItems
<1>19. TransitionShapes'
  <2> SUFFICES ASSUME NEW n \in States'
               PROVE  (/\ \A s \in DOMAIN transitions[n] :
                            Core(transitions[n][s]) = GotoCore(grammar, Core(n), s)
                       /\ n \in closed => DOMAIN transitions[n] = OutSymbols(grammar, Core(n))
                       /\ n \notin closed /\ pc = "transitions" /\ n = cur_state =>
                            DOMAIN transitions[n] = OutSymbols(grammar, Core(n)) \ Awaited(n)
                       /\ n \notin closed /\ ~(pc \in {"transitions", "fatal"} /\ n = cur_state)
                            => DOMAIN transitions[n] = {})'
    BY DEF TransitionShapes
  <2>1. CASE n = new
    BY <1>1, <1>3, <1>6, <2>1
  <2>2. CASE n = cur_state
    <3>1. DOMAIN transitions'[n] = OutSymbols(grammar, core) \ Awaited(n)'
      BY <1>1, <1>2, <1>10, <1>11, <1>12, <2>2
    <3>2. ASSUME NEW s \in DOMAIN transitions'[n]
          PROVE  DOMAIN kernel'[transitions'[n][s]] = GotoCore(grammar, core, s)
      <4>1. CASE s = sym
        BY <1>2, <1>4, <1>10, <2>2, <4>1
      <4>2. CASE s # sym
        <5>1. s \in DOMAIN transitions[n] /\ transitions'[n][s] = transitions[n][s]
          BY <1>10, <2>2, <3>2, <4>2
        <5>2. transitions[n][s] \in States
              /\ Core(transitions[n][s]) = GotoCore(grammar, core, s)
          BY <1>3, <2>2, <5>1 DEF TypeOK, TransitionShapes
        <5> QED BY <1>4, <5>1, <5>2 DEF Core
      <4> QED BY <4>1, <4>2
    <3> QED BY <1>1, <1>3, <1>7, <1>9, <2>2, <3>1, <3>2 DEF Core
  <2>3. CASE n \in States \ {cur_state}
    <3>1. transitions'[n] = transitions[n]
      BY <1>6, <2>3
    <3>2. \A s \in DOMAIN transitions[n] : transitions[n][s] \in States
      BY <2>3 DEF TypeOK
    <3>3. \A s \in DOMAIN transitions[n] :
            DOMAIN kernel'[transitions'[n][s]] = GotoCore(grammar, Core(n), s)
      BY <1>4, <2>3, <3>1, <3>2 DEF TransitionShapes, Core
    <3> QED BY <1>1, <1>7, <2>3, <3>1, <3>3 DEF TransitionShapes, Core
  <2> QED BY <1>3, <2>1, <2>2, <2>3
<1>20. Propagated'
  <2> SUFFICES ASSUME NEW n \in States, Expanded(n), ~InClosure(n),
                      n \notin Unfinished' \/ n = cur_state,
                      NEW item \in DOMAIN closed_items[n], ~AtEnd(grammar, item),
                      RightOfDot(grammar, item) \notin Awaited(n)'
               PROVE  closed_items[n][item] \subseteq
                        kernel'[transitions'[n][RightOfDot(grammar, item)]][MoveDot(item)]
    BY <1>1, <1>3, <1>5, <1>12 DEF Propagated
  <2> DEFINE s == RightOfDot(grammar, item)
  <2>0. s \in OutSymbols(grammar, Core(n))
    BY DEF OutSymbols, ExpandedItems
  <2>1. CASE n = cur_state /\ s = sym
    BY <1>2, <1>4, <1>10, <2>1
  <2>2. CASE n = cur_state /\ s # sym
    <3>1. s \notin Awaited(n)
      BY <1>1, <1>12, <2>2 DEF Awaited
    <3>2. s \in DOMAIN transitions[n] /\ transitions'[n][s] = transitions[n][s]
      BY <1>1, <1>10, <1>11, <2>0, <2>2, <3>1 DEF Awaited
    <3>3. transitions[n][s] \in States
      BY <3>2 DEF TypeOK
    <3>4. closed_items[n][item] \subseteq kernel[transitions[n][s]][MoveDot(item)]
      BY <1>1, <2>2, <3>1 DEF Propagated
    <3> QED BY <1>4, <3>2, <3>3, <3>4
  <2>3. CASE n # cur_state
    <3>1. n \in closed /\ n \notin Unfinished
      BY <1>1, <2>3 DEF Expanded
    <3>2. s \in DOMAIN transitions[n] /\ transitions'[n] = transitions[n]
      BY <1>6, <2>0, <2>3, <3>1 DEF TransitionShapes
    <3>3. transitions[n][s] \in States
      BY <3>2 DEF TypeOK
    <3>4. closed_items[n][item] \subseteq kernel[transitions[n][s]][MoveDot(item)]
      BY <1>12, <2>3, <3>1 DEF Propagated
    <3> QED BY <1>4, <3>2, <3>3, <3>4
  <2> QED BY <2>1, <2>2, <2>3
<1>21. FoundSound'
  <2>1. \A n \in States' :
          /\ Entries(Core(n)', kernel'[n]) \subseteq Reference[grammar]
          /\ Entries(Core(n)', epsilon'[n]) \subseteq Reference[grammar]
          /\ Entries(Core(n)', closed_items'[n]) \subseteq Reference[grammar]
    BY <1>2, <1>3, <1>4, <1>5, <1>7, SoundLists, NoItemsFacts DEF FoundSound
  <2> QED BY <1>1, <2>1 DEF FoundSound, LookaheadsSound, EntriesOfStates, Closing
<1> QED BY <1>13, <1>14, <1>15, <1>16, <1>17, <1>18, <1>19, <1>20, <1>21

LEMMA UseExistingStateKeepsIInv ==
  ASSUME IInv, UseExistingState
  PROVE  IInv'
<1> USE DEF IInv
<1>a. PICK sym \in SymbolsOf(grammar, pending) :
        /\ \E next \in StatesWith(DOMAIN Successor(grammar, pending, sym)) :
             LET items == Successor(grammar, pending, sym)
             IN /\ transitions' = [transitions EXCEPT
                                     ![cur_state] = AddTransition(cur_state, sym, next)]
                /\ kernel' = [kernel EXCEPT ![next] = MergeLists(kernel[next], items)]
                /\ Unfinished' = IF GainsLookahead(next, items)
                                 THEN Unfinished \cup {next}
                                 ELSE Unfinished
        /\ pending' = Without(pending, ItemsOn(grammar, pending, sym))
  BY DEF UseExistingState
<1>0. PICK next \in StatesWith(DOMAIN Successor(grammar, pending, sym)) :
        LET items == Successor(grammar, pending, sym)
        IN /\ transitions' = [transitions EXCEPT
                                ![cur_state] = AddTransition(cur_state, sym, next)]
           /\ kernel' = [kernel EXCEPT ![next] = MergeLists(kernel[next], items)]
           /\ Unfinished' = IF GainsLookahead(next, items)
                            THEN Unfinished \cup {next}
                            ELSE Unfinished
  BY <1>a
<1> DEFINE core  == Core(cur_state)
           items == Successor(grammar, pending, sym)
<1>1. /\ pc = "transitions" /\ pc' = pc
      /\ UNCHANGED <<grammar, Nstates, epsilon, closed, pc, cur_state, closure_items, todo,
                     did_something, closed_items>>
  BY DEF UseExistingState
<1>2. /\ DOMAIN items = GotoCore(grammar, core, sym)
      /\ \A item \in DOMAIN closed_items[cur_state] :
           ~AtEnd(grammar, item) /\ RightOfDot(grammar, item) = sym =>
             /\ MoveDot(item) \in DOMAIN items
             /\ closed_items[cur_state][item] = items[MoveDot(item)]
      /\ IsItemList(grammar, items)
      /\ Entries(DOMAIN items, items) \subseteq Reference[grammar]
      /\ sym \in Symbols(grammar)
      /\ sym \in OutSymbols(grammar, core)
      /\ IsItemList(grammar, pending')
      /\ SymbolsOf(grammar, pending') = SymbolsOf(grammar, pending) \ {sym}
      /\ \A item \in DOMAIN pending' : item \in DOMAIN pending /\ pending'[item] = pending[item]
      /\ \A item \in DOMAIN pending :
           RightOfDot(grammar, item) # sym => item \in DOMAIN pending'
  BY <1>a, <1>1, SuccessorOfCurrent
<1>3. /\ cur_state \in States /\ next \in States
      /\ Core(next) = DOMAIN items /\ DOMAIN kernel[next] = DOMAIN items
      /\ DOMAIN kernel = States /\ DOMAIN transitions = States
  BY <1>0 DEF TypeOK, StatesWith, Core
<1>4. Unfinished \subseteq Unfinished' /\ Unfinished' \subseteq Unfinished \cup {next}
  BY <1>0
<1> DEFINE merged == MergeLists(kernel[next], items)
<1>5. /\ DOMAIN merged = DOMAIN items
      /\ \A item \in DOMAIN items : merged[item] = kernel[next][item] \cup items[item]
      /\ next \notin Unfinished' =>
           \A item \in DOMAIN items : merged[item] = kernel[next][item]
  <2>1. /\ DOMAIN merged = DOMAIN items
        /\ \A item \in DOMAIN items : merged[item] = kernel[next][item] \cup items[item]
    BY <1>3 DEF MergeLists, LookaheadsIn
  <2>2. next \notin Unfinished' =>
          \A item \in DOMAIN items : items[item] \subseteq kernel[next][item]
    BY <1>0 DEF GainsLookahead
  <2> HIDE DEF merged, items
  <2> QED BY <2>1, <2>2
<1>6. IsItemList(grammar, merged)
  BY <1>2, <1>3, MergeListsType DEF TypeOK
<1>7. kernel' = [kernel EXCEPT ![next] = merged]
  BY <1>0
<1> HIDE DEF items, merged
<1>8. /\ DOMAIN kernel' = States
      /\ kernel'[next] = merged
      /\ \A n \in States \ {next} : kernel'[n] = kernel[n]
      /\ \A n \in States : \A item \in DOMAIN kernel[n] : kernel[n][item] \subseteq kernel'[n][item]
  <2>1. /\ DOMAIN kernel' = States
        /\ kernel'[next] = merged
        /\ \A n \in States \ {next} : kernel'[n] = kernel[n]
    BY <1>3, <1>7
  <2> QED BY <1>3, <1>5, <2>1
<1>9. /\ States' = States
      /\ \A n \in States : Core(n)' = Core(n) /\ EpsilonItems(n)' = EpsilonItems(n)
  <2>1. \A n \in States : Core(n)' = Core(n)
    BY <1>3, <1>5, <1>8 DEF Core
  <2> QED BY <1>1, <2>1 DEF States, EpsilonItems
\* A closed state finds the successor it has.
<1>10. /\ transitions'[cur_state] = AddTransition(cur_state, sym, next)
       /\ DOMAIN transitions' = States
       /\ \A n \in States \ {cur_state} : transitions'[n] = transitions[n]
  BY <1>0, <1>3
<1>11. /\ cur_state \in closed =>
            /\ DOMAIN transitions[cur_state] = OutSymbols(grammar, core)
            /\ transitions[cur_state][sym] = next
            /\ transitions'[cur_state] = transitions[cur_state]
       /\ cur_state \notin closed =>
            DOMAIN transitions[cur_state] =
              OutSymbols(grammar, core) \ SymbolsOf(grammar, pending)
  <2>1. ASSUME cur_state \in closed
        PROVE  /\ DOMAIN transitions[cur_state] = OutSymbols(grammar, core)
               /\ transitions[cur_state][sym] = next
               /\ transitions'[cur_state] = transitions[cur_state]
    <3>1. DOMAIN transitions[cur_state] = OutSymbols(grammar, core)
      BY <1>3, <2>1 DEF TransitionShapes
    <3>2. transitions[cur_state][sym] \in States
      BY <1>2, <1>3, <3>1 DEF TypeOK
    <3>3. Core(transitions[cur_state][sym]) = Core(next)
      BY <1>2, <1>3, <3>1 DEF TransitionShapes
    <3>4. transitions[cur_state][sym] = next
      BY <1>3, <3>2, <3>3 DEF KernelShapes
    <3> QED BY <1>10, <2>1, <3>1, <3>4 DEF AddTransition
  <2>2. ASSUME cur_state \notin closed
        PROVE  DOMAIN transitions[cur_state] =
                 OutSymbols(grammar, core) \ SymbolsOf(grammar, pending)
    BY <1>1, <1>3, <2>2 DEF TransitionShapes, Awaited
  <2> QED BY <2>1, <2>2
<1>12. /\ DOMAIN transitions'[cur_state] = DOMAIN transitions[cur_state] \cup {sym}
       /\ transitions'[cur_state][sym] = next
       /\ \A s \in DOMAIN transitions[cur_state] \ {sym} :
            transitions'[cur_state][s] = transitions[cur_state][s]
  BY <1>2, <1>10, <1>11 DEF AddTransition
<1>13. /\ \A n \in States : Expanded(n)' = Expanded(n) /\ InClosure(n)' = InClosure(n)
       /\ \A n \in States : n # cur_state => Awaited(n) = {} /\ Awaited(n)' = {}
       /\ Awaited(cur_state) = SymbolsOf(grammar, pending)
       /\ Awaited(cur_state)' = SymbolsOf(grammar, pending) \ {sym}
  BY <1>1, <1>2 DEF Expanded, InClosure, Awaited
<1>14. TypeOK'
  <2>1. \A n \in States : IsItemList(grammar, kernel'[n])
    BY <1>6, <1>8 DEF TypeOK
  <2>2. \A n \in States : \A s \in DOMAIN transitions'[n] :
          s \in Symbols(grammar) /\ transitions'[n][s] \in States
    <3> SUFFICES ASSUME NEW n \in States, NEW s \in DOMAIN transitions'[n]
                 PROVE  s \in Symbols(grammar) /\ transitions'[n][s] \in States
      OBVIOUS
    <3>1. CASE n = cur_state
      BY <1>2, <1>3, <1>12, <3>1 DEF TypeOK
    <3>2. CASE n # cur_state
      BY <1>10, <3>2 DEF TypeOK
    <3> QED BY <3>1, <3>2
  <2>3. Unfinished' \subseteq States
    BY <1>3, <1>4 DEF TypeOK
  <2>4. grammar' = grammar /\ Nstates' = Nstates
    BY <1>1
  <2> QED BY <1>1, <1>2, <1>8, <1>9, <1>10, <2>1, <2>2, <2>3, <2>4 DEF TypeOK
<1>15. KernelShapes'
  <2>1. 0 \in States
    BY DEF TypeOK, States
  <2>2. {EOI, WHITESPACE} \subseteq kernel'[0][StartItem]
    BY <1>8, <2>1 DEF KernelShapes, Core, StartCore
  <2> QED BY <1>9, <2>1, <2>2 DEF KernelShapes
<1>16. ClosureProgress' /\ Accounted'
  BY <1>1, <1>4, <1>9 DEF ClosureProgress, Accounted, Closing, Working
<1>17. EpsilonItemsOnly'
  BY <1>1, <1>9 DEF EpsilonItemsOnly
<1>18. ExpandedItems'
  <2> SUFFICES ASSUME NEW n \in States, Expanded(n)
               PROVE  (/\ DOMAIN closed_items[n] = AllItems(grammar, Core(n))
                       /\ \A item \in DOMAIN closed_items[n] :
                            HandedOn(grammar, closed_items[n], item, closed_items[n][item])
                       /\ \A item \in Core(n) : closed_items[n][item] \subseteq kernel[n][item]
                       /\ n \notin Unfinished /\ ~InClosure(n) =>
                            \A item \in Core(n) : closed_items[n][item] = kernel[n][item]
                       /\ DOMAIN epsilon[n] = EpsilonItems(n)
                       /\ \A item \in DOMAIN epsilon[n] :
                            closed_items[n][item] \subseteq epsilon[n][item])'
    BY <1>9, <1>13 DEF ExpandedItems
  <2>1. /\ Core(n)' = Core(n) /\ EpsilonItems(n)' = EpsilonItems(n)
        /\ InClosure(n)' = InClosure(n)
        /\ n \notin Unfinished' => n \notin Unfinished
    BY <1>4, <1>9, <1>13
  <2>2. \A item \in Core(n) : closed_items[n][item] \subseteq kernel'[n][item]
    BY <1>8 DEF ExpandedItems, Core
  <2>3. n \notin Unfinished' => \A item \in Core(n) : kernel'[n][item] = kernel[n][item]
    BY <1>3, <1>5, <1>8
  <2> QED BY <1>1, <2>1, <2>2, <2>3 DEF ExpandedItems
<1>19. PendingItems'
  <2>1. \A item \in DOMAIN pending' :
          /\ item \in DOMAIN closed_items[cur_state]
          /\ ~AtEnd(grammar, item)
          /\ pending'[item] = closed_items[cur_state][item]
    BY <1>1, <1>2 DEF PendingItems
  <2>2. \A item \in DOMAIN closed_items[cur_state] :
          ~AtEnd(grammar, item) /\ RightOfDot(grammar, item) \in SymbolsOf(grammar, pending')
            => item \in DOMAIN pending'
    BY <1>1, <1>2 DEF PendingItems
  <2> QED BY <1>1, <2>1, <2>2 DEF PendingItems
<1>20. TransitionShapes'
  <2> SUFFICES ASSUME NEW n \in States
               PROVE  (/\ \A s \in DOMAIN transitions[n] :
                            Core(transitions[n][s]) = GotoCore(grammar, Core(n), s)
                       /\ n \in closed => DOMAIN transitions[n] = OutSymbols(grammar, Core(n))
                       /\ n \notin closed /\ pc = "transitions" /\ n = cur_state =>
                            DOMAIN transitions[n] = OutSymbols(grammar, Core(n)) \ Awaited(n)
                       /\ n \notin closed /\ ~(pc \in {"transitions", "fatal"} /\ n = cur_state)
                            => DOMAIN transitions[n] = {})'
    BY <1>9 DEF TransitionShapes
  <2>1. \A s \in DOMAIN transitions'[n] : transitions'[n][s] \in States
    BY <1>9, <1>14 DEF TypeOK
  <2>2. CASE n = cur_state
    <3>1. \A s \in DOMAIN transitions'[n] :
            Core(transitions'[n][s]) = GotoCore(grammar, Core(n), s)
      BY <1>2, <1>3, <1>12, <2>2 DEF TransitionShapes
    <3>2. \A s \in DOMAIN transitions'[n] :
            DOMAIN kernel'[transitions'[n][s]] = GotoCore(grammar, Core(n), s)
      BY <1>9, <2>1, <3>1 DEF Core
    <3>3. /\ n \in closed => DOMAIN transitions'[n] = OutSymbols(grammar, Core(n))
          /\ n \notin closed =>
               DOMAIN transitions'[n] = OutSymbols(grammar, Core(n)) \ Awaited(n)'
      BY <1>1, <1>2, <1>11, <1>12, <1>13, <2>2
    <3> QED BY <1>1, <1>9, <2>2, <3>2, <3>3 DEF Core
  <2>3. CASE n # cur_state
    <3>1. transitions'[n] = transitions[n]
      BY <1>10, <2>3
    <3>2. \A s \in DOMAIN transitions[n] :
            DOMAIN kernel'[transitions'[n][s]] = GotoCore(grammar, Core(n), s)
      BY <1>9, <2>1, <3>1 DEF TransitionShapes, Core
    <3> QED BY <1>1, <1>9, <2>3, <3>1, <3>2 DEF TransitionShapes, Core
  <2> QED BY <2>2, <2>3
<1>21. Propagated'
  <2> SUFFICES ASSUME NEW n \in States, Expanded(n), ~InClosure(n),
                      n \notin Unfinished' \/ n = cur_state,
                      NEW item \in DOMAIN closed_items[n], ~AtEnd(grammar, item),
                      RightOfDot(grammar, item) \notin Awaited(n)'
               PROVE  closed_items[n][item] \subseteq
                        kernel'[transitions'[n][RightOfDot(grammar, item)]][MoveDot(item)]
    BY <1>1, <1>9, <1>13 DEF Propagated
  <2> DEFINE s == RightOfDot(grammar, item)
             target == transitions[n][s]
  <2>0. /\ s \in OutSymbols(grammar, Core(n))
        /\ MoveDot(item) \in GotoCore(grammar, Core(n), s)
    BY DEF OutSymbols, ExpandedItems, GotoCore
  <2>1. CASE n = cur_state /\ s = sym
    <3>1. MoveDot(item) \in DOMAIN items /\ closed_items[n][item] = items[MoveDot(item)]
      BY <1>2, <2>1
    <3> QED BY <1>5, <1>8, <1>12, <2>1, <3>1
  <2>2. CASE n # cur_state \/ s # sym
    <3>1. s \notin Awaited(n)
      BY <1>1, <1>13, <2>2 DEF Awaited
    <3>2. n \notin Unfinished \/ (pc = "transitions" /\ n = cur_state)
      BY <1>1, <1>4
    <3>3. s \in DOMAIN transitions[n]
      <4>1. CASE n \in closed
        BY <2>0, <4>1 DEF TransitionShapes
      <4>2. CASE n \notin closed
        BY <1>11, <1>13, <2>0, <3>1, <4>2 DEF Expanded
      <4> QED BY <4>1, <4>2
    <3>4. transitions'[n][s] = target
      BY <1>10, <1>12, <2>2, <3>3
    <3>5. target \in States /\ Core(target) = GotoCore(grammar, Core(n), s)
      BY <3>3 DEF TypeOK, TransitionShapes
    <3>6. closed_items[n][item] \subseteq kernel[target][MoveDot(item)]
      BY <3>1, <3>2 DEF Propagated
    <3> HIDE DEF s, target
    <3>7. kernel[target][MoveDot(item)] \subseteq kernel'[target][MoveDot(item)]
      BY <1>8, <2>0, <3>5 DEF Core
    <3> QED BY <3>4, <3>6, <3>7 DEF s
  <2> QED BY <2>1, <2>2
<1>22. FoundSound'
  <2>1. Entries(DOMAIN items, merged) \subseteq Reference[grammar]
    <3>1. Entries(DOMAIN items, kernel[next]) \subseteq Reference[grammar]
      BY <1>3, SoundLists DEF FoundSound
    <3>2. ASSUME NEW item \in DOMAIN merged, NEW token \in merged[item] \cup {PRESENT}
          PROVE  <<DOMAIN items, item, token>> \in Reference[grammar]
      <4>1. CASE token \in kernel[next][item] \cup {PRESENT}
        BY <1>3, <1>5, <3>1, <4>1 DEF Entries
      <4>2. CASE token \in items[item]
        BY <1>2, <1>5, <4>2 DEF Entries
      <4> QED BY <1>5, <3>2, <4>1, <4>2
    <3> QED BY <3>2, EntriesFacts
  <2>2. \A n \in States :
          /\ Entries(Core(n), kernel'[n]) \subseteq Reference[grammar]
          /\ Entries(Core(n), epsilon[n]) \subseteq Reference[grammar]
          /\ Entries(Core(n), closed_items[n]) \subseteq Reference[grammar]
    BY <1>3, <1>8, <2>1, SoundLists DEF FoundSound
  <2> QED BY <1>1, <1>9, <2>2 DEF FoundSound, LookaheadsSound, EntriesOfStates, Closing
<1> QED BY <1>14, <1>15, <1>16, <1>17, <1>18, <1>19, <1>20, <1>21, <1>22

LEMMA StepKeepsIInv ==
  ASSUME IInv, [Next]_vars
  PROVE  IInv'
<1>1. CASE GetUnfinished
  BY <1>1, GetUnfinishedKeepsIInv
<1>2. CASE CloseKernelItem
  BY <1>2, CloseKernelItemKeepsIInv
<1>3. CASE StartPass
  BY <1>3, StartPassKeepsIInv
<1>4. CASE CloseClosureItem
  BY <1>4, CloseClosureItemKeepsIInv
<1>5. CASE ClosureDone
  BY <1>5, ClosureDoneKeepsIInv
<1>6. CASE MakeNewState
  BY <1>6, MakeNewStateKeepsIInv
<1>7. CASE UseExistingState
  BY <1>7, UseExistingStateKeepsIInv
<1>8. CASE CloseState
  BY <1>8, CloseStateKeepsIInv
<1>9. CASE LrReturns
  BY <1>9, LrReturnsKeepsIInv
<1>10. CASE FatalError
  BY <1>10, FatalErrorKeepsIInv
<1>11. CASE UNCHANGED vars
  <2>1. UNCHANGED <<grammar, Nstates, kernel, epsilon, closed, transitions, Unfinished, pc,
                    cur_state, closure_items, todo, did_something, pending, closed_items>>
    BY <1>11 DEF vars
  <2>2. /\ States' = States
        /\ \A n : /\ Core(n)' = Core(n) /\ EpsilonItems(n)' = EpsilonItems(n)
                  /\ Awaited(n)' = Awaited(n) /\ Expanded(n)' = Expanded(n)
                  /\ InClosure(n)' = InClosure(n)
        /\ Core(cur_state)' = Core(cur_state)
        /\ Closing' = Closing /\ Working' = Working
    BY <2>1 DEF States, Core, EpsilonItems, Awaited, Expanded, InClosure, Closing, Working
  <2>3. TypeOK'
    BY <2>1, <2>2 DEF IInv, TypeOK
  <2>4. KernelShapes' /\ EpsilonItemsOnly' /\ ExpandedItems'
    BY <2>1, <2>2 DEF IInv, KernelShapes, EpsilonItemsOnly, ExpandedItems
  <2>5. ClosureProgress' /\ PendingItems' /\ Accounted'
    BY <2>1, <2>2 DEF IInv, ClosureProgress, PendingItems, Accounted
  <2>6. TransitionShapes' /\ Propagated'
    BY <2>1, <2>2 DEF IInv, TransitionShapes, Propagated
  <2>7. FoundSound'
    BY <2>1, <2>2 DEF IInv, FoundSound, LookaheadsSound, EntriesOfStates
  <2> QED BY <2>3, <2>4, <2>5, <2>6, <2>7 DEF IInv
<1> QED BY <1>1, <1>2, <1>3, <1>4, <1>5, <1>6, <1>7, <1>8, <1>9, <1>10, <1>11 DEF Next

\* The inductive invariant holds throughout every run of lr(), whatever the grammars, the
\* table sizes and the table of reference.
THEOREM InductiveInvariant == Spec => []IInv
<1>1. Init => IInv
  BY InitKeepsIInv
<1>2. IInv /\ [Next]_vars => IInv'
  BY StepKeepsIInv
<1> QED BY <1>1, <1>2, PTL DEF Spec

----------------------------------------------------------------------------
(***************************************************************************)
(* What follows from it.                                                   *)
(***************************************************************************)
\* lr() keeps its data well-formed: one kernel, one list of epsilon items and one row of
\* transitions per state, of items of the grammar with tokens for lookaheads.
THEOREM TypeCorrect == Spec => []TypeOK
<1>1. IInv => TypeOK
  BY DEF IInv
<1> QED BY <1>1, InductiveInvariant, PTL

\* lr() invents no lookahead: a state's items have none that any table closed under the
\* LALR(1) rules lacks.
THEOREM Soundness == Spec => []LookaheadsSound
<1>1. IInv => LookaheadsSound
  BY DEF IInv, FoundSound
<1> QED BY <1>1, InductiveInvariant, PTL

\* newstate(), add_action() and add_goto() make the canonical LR(0) collection.
THEOREM Canonical == Spec => []CanonicalStates
<1>1. IInv => CanonicalStates
  BY DEF IInv, CanonicalStates, NoDuplicateTransition, KernelShapes, TransitionShapes, Awaited,
         TypeOK
<1> QED BY <1>1, InductiveInvariant, PTL

\* add_action() and add_goto() never find the transition there already.
THEOREM OneTransition == Spec => []NoDuplicateTransition
<1>1. IInv => NoDuplicateTransition
  BY DEF IInv, NoDuplicateTransition, TransitionShapes, Awaited, TypeOK
<1> QED BY <1>1, InductiveInvariant, PTL

\* A state that waits for nothing has handed all of its lookaheads on.
LEMMA SettledFacts ==
  ASSUME IInv, NEW n \in States, Settled(n)
  PROVE  /\ DOMAIN closed_items[n] = AllItems(grammar, Core(n))
         /\ \A item \in DOMAIN closed_items[n] :
              HandedOn(grammar, closed_items[n], item, closed_items[n][item])
         /\ \A item \in Core(n) : closed_items[n][item] = kernel[n][item]
         /\ DOMAIN epsilon[n] = EpsilonItems(n)
         /\ \A item \in DOMAIN epsilon[n] : closed_items[n][item] \subseteq epsilon[n][item]
         /\ \A item \in DOMAIN closed_items[n] : ~AtEnd(grammar, item) =>
              closed_items[n][item] \subseteq
                kernel[transitions[n][RightOfDot(grammar, item)]][MoveDot(item)]
<1>1. /\ Expanded(n) /\ ~InClosure(n) /\ Awaited(n) = {} /\ n \notin Unfinished
      /\ n \in closed
  BY DEF Settled, Working, Expanded, InClosure, Awaited
<1> QED BY <1>1 DEF IInv, ExpandedItems, Propagated

\* No propagation is forgotten: what lr() does not take up again needs no further closure.
THEOREM Settlement == Spec => []SettledStates
<1>1. IInv => SettledStates
  <2> SUFFICES ASSUME IInv PROVE SettledStates
    OBVIOUS
  <2> QED BY SettledFacts DEF SettledStates
<1> QED BY <1>1, InductiveInvariant, PTL

\* The entries of the finished table, state by state.
LEMMA TableEntries ==
  ASSUME NEW entry
  PROVE  entry \in Table <=>
           \E n \in States : \E item \in DOMAIN closed_items[n] :
             \E token \in Lookaheads(n, item) \cup {PRESENT} : entry = <<Core(n), item, token>>
<1> DEFINE list(n) == [item \in DOMAIN closed_items[n] |-> Lookaheads(n, item)]
<1>1. entry \in Table <=> \E n \in States : entry \in Entries(Core(n), list(n))
  BY DEF Table
<1>2. ASSUME NEW n
      PROVE  entry \in Entries(Core(n), list(n)) <=>
               \E item \in DOMAIN closed_items[n] :
                 \E token \in Lookaheads(n, item) \cup {PRESENT} :
                   entry = <<Core(n), item, token>>
  <2>1. /\ DOMAIN list(n) = DOMAIN closed_items[n]
        /\ \A item \in DOMAIN closed_items[n] : list(n)[item] = Lookaheads(n, item)
    OBVIOUS
  <2> HIDE DEF list
  <2>2. entry \in Entries(Core(n), list(n)) <=>
          \E item \in DOMAIN list(n) : \E token \in list(n)[item] \cup {PRESENT} :
            entry = <<Core(n), item, token>>
    BY DEF Entries
  <2> QED BY <2>1, <2>2
<1> HIDE DEF list
<1> QED BY <1>1, <1>2

\* When lr() returns, its table is closed under the LALR(1) rules.
LEMMA DoneIsClosed ==
  ASSUME IInv, pc = "done"
  PROVE  LalrClosed(grammar, Table)
<1>1. IsGrammar(grammar)
  BY GrammarFacts DEF IInv
<1>2. \A n \in States : Settled(n)
  BY DEF IInv, Accounted, Settled, Working
<1>3. \A n \in States : DOMAIN closed_items[n] = AllItems(grammar, Core(n))
  BY <1>2, SettledFacts
\* Only epsilon items have more lookaheads than the last closure gave them, and an epsilon
\* item hands nothing on.
<1>4. ASSUME NEW n \in States, NEW item \in DOMAIN closed_items[n]
      PROVE  /\ closed_items[n][item] \subseteq Lookaheads(n, item)
             /\ ~AtEnd(grammar, item) => Lookaheads(n, item) = closed_items[n][item]
  <2>1. CASE item \in Core(n)
    BY <1>2, <2>1, SettledFacts DEF Lookaheads
  <2>2. CASE item \notin Core(n) /\ item \in DOMAIN epsilon[n]
    <3>1. closed_items[n][item] \subseteq epsilon[n][item] /\ item \in EpsilonItems(n)
      BY <1>2, <2>2, SettledFacts
    <3>2. AtEnd(grammar, item)
      <4>1. item[2] = 0 /\ grammar.rhs[item[1]] = <<>>
        BY <1>1, <3>1, ClosureItemsType DEF EpsilonItems, IsEpsilonItem
      <4> QED BY <4>1 DEF AtEnd
    <3> QED BY <2>2, <3>1, <3>2 DEF Lookaheads
  <2>3. CASE item \notin Core(n) /\ item \notin DOMAIN epsilon[n]
    BY <2>3 DEF Lookaheads
  <2> QED BY <2>1, <2>2, <2>3
<1>5. StartRule(Table)
  <2>1. 0 \in States /\ Core(0) = StartCore /\ {EOI, WHITESPACE} \subseteq kernel[0][StartItem]
        /\ StartItem \in Core(0)
    BY DEF IInv, TypeOK, KernelShapes, States, StartCore
  <2>2. StartItem \in DOMAIN closed_items[0]
    BY <1>3, <2>1 DEF AllItems
  <2>3. Lookaheads(0, StartItem) = kernel[0][StartItem]
    BY <2>1 DEF Lookaheads
  <2> QED BY <2>1, <2>2, <2>3, TableEntries DEF StartRule
<1>6. ClosureRule(grammar, Table)
  <2> SUFFICES ASSUME NEW entry \in Table, NEW new \in Derived(grammar, entry[2]),
                      NEW token \in Follow(grammar, entry[2], {entry[3]}) \cup {PRESENT}
               PROVE  <<entry[1], new, token>> \in Table
    BY DEF ClosureRule
  <2>a. PICK n \in States : \E item \in DOMAIN closed_items[n] :
          \E one \in Lookaheads(n, item) \cup {PRESENT} : entry = <<Core(n), item, one>>
    BY TableEntries
  <2>b. PICK item \in DOMAIN closed_items[n] :
          \E one \in Lookaheads(n, item) \cup {PRESENT} : entry = <<Core(n), item, one>>
    BY <2>a
  <2>1. PICK one \in Lookaheads(n, item) \cup {PRESENT} : entry = <<Core(n), item, one>>
    BY <2>b
  <2>2. ~AtEnd(grammar, item)
    BY <1>1, <2>1, DerivedType
  <2>3. one \in closed_items[n][item] \cup {PRESENT}
    BY <1>4, <2>1, <2>2
  <2>4. HandedOn(grammar, closed_items[n], item, closed_items[n][item])
    BY <1>2, <2>1, SettledFacts
  <2>5. /\ new \in DOMAIN closed_items[n]
        /\ Follow(grammar, item, closed_items[n][item]) \subseteq closed_items[n][new]
    BY <2>1, <2>4 DEF HandedOn
  <2>6. token \in closed_items[n][new] \cup {PRESENT}
    BY <2>1, <2>3, <2>5, FollowOfMember
  <2>7. token \in Lookaheads(n, new) \cup {PRESENT}
    BY <1>4, <2>5, <2>6
  <2> QED BY <2>1, <2>5, <2>7, TableEntries
<1>7. GotoRule(grammar, Table)
  <2> SUFFICES ASSUME NEW entry \in Table, ~AtEnd(grammar, entry[2])
               PROVE  <<GotoCore(grammar, entry[1], RightOfDot(grammar, entry[2])),
                        MoveDot(entry[2]), entry[3]>> \in Table
    BY DEF GotoRule
  <2>a. PICK n \in States : \E item \in DOMAIN closed_items[n] :
          \E token \in Lookaheads(n, item) \cup {PRESENT} : entry = <<Core(n), item, token>>
    BY TableEntries
  <2>b. PICK item \in DOMAIN closed_items[n] :
          \E token \in Lookaheads(n, item) \cup {PRESENT} : entry = <<Core(n), item, token>>
    BY <2>a
  <2>1. PICK token \in Lookaheads(n, item) \cup {PRESENT} : entry = <<Core(n), item, token>>
    BY <2>b
  <2> DEFINE sym == RightOfDot(grammar, item)
             next == transitions[n][sym]
  <2>2. ~AtEnd(grammar, item)
    BY <2>1
  <2>3. sym \in OutSymbols(grammar, Core(n)) /\ MoveDot(item) \in GotoCore(grammar, Core(n), sym)
    BY <1>3, <2>2 DEF OutSymbols, GotoCore
  <2>4. sym \in DOMAIN transitions[n]
    BY <1>2, <2>3 DEF IInv, TransitionShapes, Settled
  <2>5. next \in States /\ Core(next) = GotoCore(grammar, Core(n), sym)
    BY <2>4 DEF IInv, TypeOK, TransitionShapes
  <2>6. closed_items[n][item] \subseteq kernel[next][MoveDot(item)]
    BY <1>2, <2>2, SettledFacts
  <2>7. token \in kernel[next][MoveDot(item)] \cup {PRESENT}
    BY <1>4, <2>1, <2>2, <2>6
  <2> HIDE DEF sym, next
  <2>8. MoveDot(item) \in DOMAIN closed_items[next]
        /\ Lookaheads(next, MoveDot(item)) = kernel[next][MoveDot(item)]
    BY <1>3, <2>3, <2>5 DEF Lookaheads, AllItems
  <2>9. <<Core(next), MoveDot(item), token>> \in Table
    BY <2>5, <2>7, <2>8, TableEntries
  <2> QED BY <2>1, <2>5, <2>9 DEF sym
<1> QED BY <1>5, <1>6, <1>7 DEF LalrClosed

\* lr() loses no lookahead: the table it returns is closed under the LALR(1) rules. With
\* Soundness, it is the least table that is.
THEOREM Completeness == Spec => []TableClosed
<1>1. IInv => TableClosed
  BY DoneIsClosed DEF TableClosed
<1> QED BY <1>1, InductiveInvariant, PTL

----------------------------------------------------------------------------
(***************************************************************************)
(* What no step does.                                                      *)
(***************************************************************************)
\* Merging keeps what every list has.
LEMMA GrowingKernels ==
  ASSUME NEW n \in States, NEW next \in States, NEW items, DOMAIN kernel = States,
         kernel' = [kernel EXCEPT ![next] = MergeLists(kernel[next], items)]
  PROVE  \A item \in Core(n) : kernel[n][item] \subseteq kernel'[n][item]
<1>1. CASE n = next
  BY <1>1, MergeListsFacts DEF Core
<1>2. CASE n # next
  BY <1>2
<1> QED BY <1>1, <1>2

\* One step takes no transition, no epsilon item and no lookahead from a state.
LEMMA StepOnlyGrows ==
  ASSUME IInv, IInv', Next
  PROVE  /\ \A n \in closed : /\ transitions'[n] = transitions[n]
                              /\ DOMAIN epsilon'[n] = DOMAIN epsilon[n]
         /\ \A n \in States :
              /\ \A item \in Core(n) : kernel[n][item] \subseteq kernel'[n][item]
              /\ \A item \in DOMAIN epsilon[n] : epsilon[n][item] \subseteq epsilon'[n][item]
<1> DEFINE Grows ==
             /\ \A n \in closed : /\ transitions'[n] = transitions[n]
                                  /\ DOMAIN epsilon'[n] = DOMAIN epsilon[n]
             /\ \A n \in States :
                  /\ \A item \in Core(n) : kernel[n][item] \subseteq kernel'[n][item]
                  /\ \A item \in DOMAIN epsilon[n] :
                       epsilon[n][item] \subseteq epsilon'[n][item]
<1>0. /\ cur_state \in States /\ closed \subseteq States
      /\ DOMAIN kernel = States /\ DOMAIN epsilon = States /\ DOMAIN transitions = States
      /\ Nstates \notin States /\ 0 .. Nstates = States \cup {Nstates}
  BY LimitsAssumption DEF IInv, TypeOK, States
<1>1. CASE UNCHANGED <<kernel, epsilon, transitions>>
  BY <1>1
<1>2. CASE ClosureDone
  <2> DEFINE all == KClosure(grammar, closure_items, kernel[cur_state])
             moved == RestrictTo(all, EpsilonItemsOf(grammar, all))
  <2>1. /\ epsilon' = [epsilon EXCEPT ![cur_state] = MergeLists(epsilon[cur_state], moved)]
        /\ UNCHANGED <<grammar, Nstates, kernel, transitions, closed>>
    BY <1>2 DEF ClosureDone, MoveEps
  <2> HIDE DEF moved, all
  <2>2. /\ epsilon'[cur_state] = MergeLists(epsilon[cur_state], moved)
        /\ \A n \in States \ {cur_state} : epsilon'[n] = epsilon[n]
    BY <1>0, <2>1
  <2>3. \A item \in DOMAIN epsilon[cur_state] :
          epsilon[cur_state][item] \subseteq epsilon'[cur_state][item]
    BY <2>2 DEF MergeLists, LookaheadsIn
  <2>4. \A n \in closed : DOMAIN epsilon'[n] = DOMAIN epsilon[n]
    <3> SUFFICES ASSUME NEW n \in closed PROVE DOMAIN epsilon'[n] = DOMAIN epsilon[n]
      OBVIOUS
    <3>1. Expanded(n) /\ Expanded(n)' /\ States' = States
      BY <2>1 DEF Expanded, States
    <3>2. DOMAIN epsilon[n] = EpsilonItems(n)
      BY <1>0, <3>1 DEF IInv, ExpandedItems
    <3>3. DOMAIN epsilon'[n] = EpsilonItems(n)'
      BY <1>0, <3>1 DEF IInv, ExpandedItems
    <3>4. EpsilonItems(n)' = EpsilonItems(n)
      BY <2>1 DEF EpsilonItems, Core
    <3> QED BY <3>2, <3>3, <3>4
  <2> QED BY <2>1, <2>2, <2>3, <2>4
<1>3. CASE MakeNewState
  <2>1. PICK sym, items :
          /\ kernel' = [n \in 0 .. Nstates |-> IF n = Nstates THEN items ELSE kernel[n]]
          /\ transitions' = [n \in 0 .. Nstates |->
                               IF n = Nstates THEN [s \in {} |-> 0]
                               ELSE IF n = cur_state THEN AddTransition(n, sym, Nstates)
                               ELSE transitions[n]]
    BY <1>3 DEF MakeNewState
  <2>2. epsilon' = [n \in 0 .. Nstates |-> IF n = Nstates THEN NoItems ELSE epsilon[n]]
    BY <1>3 DEF MakeNewState
  <2>3. \A n \in States : kernel'[n] = kernel[n] /\ epsilon'[n] = epsilon[n]
    BY <1>0, <2>1, <2>2
  <2>4. \A n \in closed : transitions'[n] = transitions[n]
    BY <1>0, <2>1 DEF AddTransition
  <2> QED BY <1>0, <2>3, <2>4
<1>4. CASE UseExistingState
  <2>1. PICK sym, items, next :
          /\ next \in States
          /\ transitions' = [transitions EXCEPT
                               ![cur_state] = AddTransition(cur_state, sym, next)]
          /\ kernel' = [kernel EXCEPT ![next] = MergeLists(kernel[next], items)]
    BY <1>4 DEF UseExistingState, StatesWith
  <2>2. epsilon' = epsilon
    BY <1>4 DEF UseExistingState
  <2>3. \A n \in States : \A item \in Core(n) : kernel[n][item] \subseteq kernel'[n][item]
    BY <1>0, <2>1, GrowingKernels
  <2>4. \A n \in closed : transitions'[n] = transitions[n]
    BY <1>0, <2>1 DEF AddTransition
  <2> QED BY <2>2, <2>3, <2>4
<1>5. \/ ClosureDone \/ MakeNewState \/ UseExistingState
      \/ UNCHANGED <<kernel, epsilon, transitions>>
  BY DEF Next, GetUnfinished, CloseKernelItem, StartPass, CloseClosureItem, CloseState,
         LrReturns, FatalError, tables
<1> QED BY <1>1, <1>2, <1>3, <1>4, <1>5

\* No step of lr() takes anything from a state: transitions and epsilon items of a closed
\* state stay as they are, and lookahead sets only grow.
THEOREM Monotone == Spec => OnlyLookaheadsGrow
<1>1. IInv /\ IInv' /\ [Next]_vars =>
        [/\ \A n \in closed :
              /\ transitions'[n] = transitions[n]
              /\ DOMAIN epsilon'[n] = DOMAIN epsilon[n]
         /\ \A n \in States :
              /\ \A item \in Core(n) : kernel[n][item] \subseteq kernel'[n][item]
              /\ \A item \in DOMAIN epsilon[n] :
                   epsilon[n][item] \subseteq epsilon'[n][item]]_vars
  BY StepOnlyGrows
<1> QED BY <1>1, InductiveInvariant, PTL DEF Spec, OnlyLookaheadsGrow
============================================================================
