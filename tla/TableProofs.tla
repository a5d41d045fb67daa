----------------------------- MODULE TableProofs -----------------------------
(***************************************************************************)
(* Proofs about the action table.  For every state and all precedences,    *)
(* the row addreductions() leaves behind is the one the disambiguating     *)
(* rules give, and what it does not count is settled by precedence         *)
(* (Reductions).  For tables of every size, what print_tab() makes of the  *)
(* rows answers every lookup as they do (PrintTab).                        *)
(***************************************************************************)
EXTENDS ActionTable, FiniteSetTheorems, WellFoundedInduction, TLAPS

----------------------------------------------------------------------------
(***************************************************************************)
(* The inductive invariant: the rules hold of what has been seen so far.   *)
(***************************************************************************)

\* The items that have been visited with a token.
Seen(token) == {n \in Reducing(token) : n < k \/ (n = k /\ token \notin tokens)}

SeenWinning(token) == Seen(token) \cap Winning(token)

\* The first item that has won, and those behind it.
Counting(token) == {n \in Seen(token) : \E w \in SeenWinning(token) : w <= n}

IsLeast(p, positions) ==
  /\ \E n \in positions : p = machine.items[n].prod_num
  /\ \A n \in positions : p <= machine.items[n].prod_num

CellRight(token) ==
  /\ token \in DOMAIN actions <=> token \in DOMAIN machine.shifts \/ Seen(token) # {}
  /\ token \notin DOMAIN machine.shifts /\ Seen(token) # {} =>
       \E p \in Nat : actions[token] = -p /\ IsLeast(p, Seen(token))
  /\ token \in DOMAIN machine.shifts /\ SeenWinning(token) = {} =>
       actions[token] = machine.shifts[token]
  /\ token \in DOMAIN machine.shifts /\ SeenWinning(token) # {} =>
       \E p \in Nat : actions[token] = -p /\ IsLeast(p, Counting(token))

Row == DOMAIN actions \subseteq Tokens /\ \A token \in Tokens : CellRight(token)

\* No conflict has been passed over but by precedence.
SilentOn(token) ==
  /\ token \notin DOMAIN machine.shifts => \A m, n \in Seen(token) : m = n
  /\ token \in DOMAIN machine.shifts =>
       /\ Seen(token) # {} => machine.level[token] # 0
       /\ \A n \in Seen(token) : machine.items[n].prec # 0
       /\ \A n \in SeenWinning(token) : \A m \in Seen(token) : m <= n

Silent == Shift_reduce + Reduce_reduce = 0 => \A token \in Tokens : SilentOn(token)

Progress ==
  /\ machine \in Machines
  /\ k \in 1 .. Len(machine.items) + 1
  /\ tokens \subseteq LookaheadsOf(machine, k)
  /\ Shift_reduce \in Nat
  /\ Reduce_reduce \in Nat

IInv == Progress /\ Row /\ Silent

----------------------------------------------------------------------------
(***************************************************************************)
(* Lemmas.                                                                 *)
(***************************************************************************)
LEMMA Machine ==
  ASSUME Progress
  PROVE  /\ IsMachine(machine)
         /\ Len(machine.items) \in Nat
         /\ DOMAIN machine.items = 1 .. Len(machine.items)
         /\ \A n \in 1 .. Len(machine.items) :
              /\ machine.items[n].prod_num \in Nat
              /\ machine.items[n].prec \in Nat
              /\ machine.items[n].lookaheads \subseteq Tokens
         /\ \A token \in Tokens : machine.level[token] \in Nat
         /\ \A token \in DOMAIN machine.shifts : machine.shifts[token] \in Nat \ {0}
         /\ DOMAIN machine.shifts \subseteq Tokens
<1>. DEFINE S == {item \in {machine.items[n] : n \in DOMAIN machine.items} : IsItem(item)}
<1>1. IsMachine(machine) /\ machine.items \in Seq(S)
  BY MachinesAssumption DEF Progress, IsMachine
<1>2. \A item \in S : IsItem(item)
  OBVIOUS
<1>. HIDE DEF S
<1>3. \A n \in 1 .. Len(machine.items) : machine.items[n] \in S
  BY <1>1
<1>4. Len(machine.items) \in Nat /\ DOMAIN machine.items = 1 .. Len(machine.items)
  BY <1>1
<1>. QED
  BY <1>1, <1>2, <1>3, <1>4 DEF IsMachine, IsItem

\* Where a token is among the lookaheads of items.
LEMMA Positions ==
  ASSUME Progress, NEW token
  PROVE  /\ Reducing(token) \subseteq 1 .. Len(machine.items)
         /\ Seen(token) \subseteq Reducing(token)
         /\ Winning(token) \subseteq Reducing(token)
         /\ Reducing(token) # {} => token \in Tokens
<1>1. \A n \in Reducing(token) : token \in machine.items[n].lookaheads
  BY DEF Reducing, LookaheadsOf
<1>. QED
  BY <1>1, Machine DEF Reducing, Seen, Winning

\* The token that is visited next is seen with item k.
LEMMA Visited ==
  ASSUME Progress, NEW token \in tokens,
         tokens' = tokens \ {token}, k' = k, machine' = machine
  PROVE  /\ token \in Tokens
         /\ k \in Reducing(token)
         /\ machine.items[k].prod_num \in Nat
         /\ Seen(token)' = Seen(token) \cup {k}
         /\ \A n \in Seen(token) : n < k
         /\ \A other : other # token => Seen(other)' = Seen(other)
         /\ \A t : Reducing(t)' = Reducing(t) /\ Winning(t)' = Winning(t)
<1>1. k \in Nat /\ Len(machine.items) \in Nat
  BY Machine DEF Progress
<1>2. token \in LookaheadsOf(machine, k)
  BY DEF Progress
<1>3. k <= Len(machine.items) /\ token \in machine.items[k].lookaheads
  BY <1>2 DEF LookaheadsOf
<1>4. k \in 1 .. Len(machine.items)
  BY <1>1, <1>3 DEF Progress
<1>5. k \in Reducing(token)
  BY <1>2, <1>4 DEF Reducing
<1>6. token \in Tokens /\ machine.items[k].prod_num \in Nat
  BY <1>3, <1>4, Machine
<1>7. \A t : Reducing(t)' = Reducing(t) /\ Winning(t)' = Winning(t)
  BY DEF Reducing, Winning
<1>8. \A n \in Reducing(token) : n \in Nat
  BY <1>1, Positions
<1>9. Seen(token)' = Seen(token) \cup {k}
  BY <1>1, <1>5, <1>7, <1>8 DEF Seen
<1>10. \A n \in Seen(token) : n < k
  BY DEF Seen
<1>11. \A other : other # token => Seen(other)' = Seen(other)
  BY <1>7 DEF Seen
<1>. QED
  BY <1>5, <1>6, <1>7, <1>9, <1>10, <1>11

\* The other tokens are not concerned.
LEMMA Others ==
  ASSUME Progress, NEW token \in tokens, NEW other \in Tokens, other # token,
         tokens' = tokens \ {token}, k' = k, machine' = machine,
         other \in DOMAIN actions' <=> other \in DOMAIN actions,
         actions'[other] = actions[other]
  PROVE  /\ CellRight(other) => CellRight(other)'
         /\ SilentOn(other) => SilentOn(other)'
<1>1. /\ Seen(other)' = Seen(other) /\ SeenWinning(other)' = SeenWinning(other)
      /\ Counting(other)' = Counting(other)
  BY Visited DEF SeenWinning, Counting
<1>2. \A p, positions : IsLeast(p, positions)' <=> IsLeast(p, positions)
  BY DEF IsLeast
<1>. QED
  BY <1>1, <1>2 DEF CellRight, SilentOn

\* The invariant behind one of the three visits.
LEMMA Visit ==
  ASSUME IInv, NEW token \in tokens,
         tokens' = tokens \ {token}, k' = k, machine' = machine,
         DOMAIN actions' = DOMAIN actions \cup {token},
         \A other \in DOMAIN actions \ {token} : actions'[other] = actions[other],
         Shift_reduce' \in Nat, Shift_reduce' >= Shift_reduce,
         Reduce_reduce' \in Nat, Reduce_reduce' >= Reduce_reduce,
         CellRight(token)',
         Shift_reduce' + Reduce_reduce' = 0 => SilentOn(token)'
  PROVE  IInv'
<1>1. Progress'
  BY DEF IInv, Progress
<1>2. token \in Tokens
  BY Visited DEF IInv
<1>3. ASSUME NEW other \in Tokens, other # token
      PROVE  CellRight(other)' /\ (SilentOn(other) => SilentOn(other)')
  <2>1. other \in DOMAIN actions' <=> other \in DOMAIN actions
    BY <1>3
  <2>2. CASE other \in DOMAIN actions
    <3>1. actions'[other] = actions[other]
      BY <1>3, <2>2
    <3>. QED
      BY <1>3, <2>1, <3>1, Others DEF IInv, Row
  <2>3. CASE other \notin DOMAIN actions
    <3>1. Seen(other)' = Seen(other) /\ SeenWinning(other)' = SeenWinning(other)
      BY <1>3, Visited DEF IInv, SeenWinning
    <3>2. CellRight(other)
      BY DEF IInv, Row
    <3>3. CellRight(other)'
      BY <2>1, <2>3, <3>1, <3>2 DEF CellRight
    <3>4. SilentOn(other) => SilentOn(other)'
      BY <3>1 DEF SilentOn
    <3>. QED
      BY <3>3, <3>4
  <2>. QED
    BY <2>2, <2>3
<1>4. Row'
  BY <1>2, <1>3 DEF IInv, Row
<1>5. Shift_reduce' + Reduce_reduce' = 0 => Shift_reduce + Reduce_reduce = 0
  <2>1. Shift_reduce \in Nat /\ Reduce_reduce \in Nat
    BY DEF IInv, Progress
  <2>2. PICK s \in Nat, r \in Nat : s = Shift_reduce' /\ r = Reduce_reduce'
    OBVIOUS
  <2>3. s >= Shift_reduce /\ r >= Reduce_reduce
    BY <2>2
  <2>4. s + r = 0 => Shift_reduce + Reduce_reduce = 0
    BY <2>1, <2>3
  <2>. QED
    BY <2>2, <2>4
<1>6. Silent'
  BY <1>3, <1>5 DEF IInv, Silent
<1>. QED
  BY <1>1, <1>4, <1>6 DEF IInv

----------------------------------------------------------------------------
(***************************************************************************)
(* The steps.                                                              *)
(***************************************************************************)
LEMMA AddStep ==
  ASSUME IInv, AddReduction
  PROVE  IInv'
<1>1. PICK token \in tokens :
        /\ token \notin DOMAIN actions
        /\ actions' = [t \in DOMAIN actions \cup {token} |->
                         IF t = token THEN -machine.items[k].prod_num ELSE actions[t]]
        /\ tokens' = tokens \ {token}
  BY DEF AddReduction
<1>2. /\ machine' = machine /\ k' = k
      /\ Shift_reduce' = Shift_reduce /\ Reduce_reduce' = Reduce_reduce
  BY DEF AddReduction
<1>3. Progress
  BY DEF IInv
<1>4. /\ token \in Tokens /\ k \in Reducing(token) /\ machine.items[k].prod_num \in Nat
      /\ Seen(token)' = Seen(token) \cup {k}
  BY <1>1, <1>2, <1>3, Visited
<1>5. token \notin DOMAIN machine.shifts /\ Seen(token) = {}
  BY <1>1, <1>4 DEF IInv, Row, CellRight
<1>6. actions'[token] = -machine.items[k].prod_num
  BY <1>1
<1>7. IsLeast(machine.items[k].prod_num, {k})'
  BY <1>2, <1>4 DEF IsLeast
<1>8. CellRight(token)'
  BY <1>1, <1>2, <1>4, <1>5, <1>6, <1>7 DEF CellRight
<1>9. SilentOn(token)'
  BY <1>2, <1>4, <1>5 DEF SilentOn
<1>. QED
  BY <1>1, <1>2, <1>3, <1>8, <1>9, Visit DEF Progress

LEMMA ReduceStep ==
  ASSUME IInv, ReduceReduce
  PROVE  IInv'
<1>. DEFINE q == machine.items[k].prod_num
<1>1. PICK token \in tokens :
        /\ token \in DOMAIN actions
        /\ actions[token] <= 0
        /\ actions' = [actions EXCEPT ![token] = -ReduceBy(actions[token], q)]
        /\ tokens' = tokens \ {token}
  BY DEF ReduceReduce
<1>2. /\ machine' = machine /\ k' = k
      /\ Shift_reduce' = Shift_reduce /\ Reduce_reduce' = Reduce_reduce + 1
  BY DEF ReduceReduce
<1>3. Progress
  BY DEF IInv
<1>4. /\ token \in Tokens /\ k \in Reducing(token) /\ q \in Nat
      /\ Seen(token)' = Seen(token) \cup {k}
      /\ \A n \in Seen(token) : n < k
      /\ Winning(token)' = Winning(token)
  BY <1>1, <1>2, <1>3, Visited
<1>5. CellRight(token)
  BY <1>4 DEF IInv, Row
<1>6. \A n \in Seen(token) : n \in Nat /\ machine.items[n].prod_num \in Nat
  BY <1>3, Positions, Machine
<1>. HIDE DEF q
<1>7. ASSUME NEW S, S \subseteq Seen(token), NEW p \in Nat, actions[token] = -p, IsLeast(p, S)
      PROVE  \E r \in Nat : actions'[token] = -r /\ IsLeast(r, S \cup {k})
  <2>. DEFINE r == IF p < q THEN p ELSE q
  <2>1. ReduceBy(actions[token], q) = r
    BY <1>7, <1>4 DEF ReduceBy, Min2
  <2>2. actions'[token] = -r
    BY <1>1, <2>1
  <2>3. r \in Nat /\ r <= p /\ r <= q /\ r \in {p, q}
    BY <1>4
  <2>. HIDE DEF r
  <2>4. \A n \in S : r <= machine.items[n].prod_num
    BY <1>6, <1>7, <2>3 DEF IsLeast
  <2>5. IsLeast(r, S \cup {k})
    BY <1>7, <2>3, <2>4 DEF IsLeast, q
  <2>. QED
    BY <2>2, <2>3, <2>5
<1>12. \A p, positions : IsLeast(p, positions)' <=> IsLeast(p, positions)
  BY <1>2 DEF IsLeast
<1>8. ASSUME token \notin DOMAIN machine.shifts
      PROVE  CellRight(token)'
  <2>1. Seen(token) # {}
    BY <1>1, <1>5, <1>8 DEF CellRight
  <2>2. \E r \in Nat : actions'[token] = -r /\ IsLeast(r, Seen(token) \cup {k})
    BY <1>5, <1>7, <1>8, <2>1 DEF CellRight
  <2>. QED
    BY <1>1, <1>2, <1>4, <1>8, <1>12, <2>2 DEF CellRight
<1>9. ASSUME token \in DOMAIN machine.shifts
      PROVE  CellRight(token)'
  <2>1. SeenWinning(token) # {}
    <3>1. machine.shifts[token] \in Nat \ {0}
      BY <1>3, <1>9, Machine
    <3>. QED
      BY <1>1, <1>5, <1>9, <3>1 DEF CellRight
  <2>2. Counting(token) \subseteq Seen(token)
    BY DEF Counting
  <2>3. \E r \in Nat : actions'[token] = -r /\ IsLeast(r, Counting(token) \cup {k})
    BY <1>5, <1>7, <1>9, <2>1, <2>2 DEF CellRight
  <2>4. k \in Nat
    BY <1>3, Machine DEF Progress
  <2>5. Counting(token)' = Counting(token) \cup {k} /\ SeenWinning(token)' # {}
    BY <1>4, <1>6, <2>1, <2>4 DEF Counting, SeenWinning
  <2>. QED
    BY <1>1, <1>2, <1>4, <1>9, <1>12, <2>3, <2>5 DEF CellRight
<1>10. CellRight(token)'
  BY <1>8, <1>9
<1>11. Shift_reduce' \in Nat /\ Reduce_reduce' \in Nat /\ Reduce_reduce' # 0
       /\ Shift_reduce' >= Shift_reduce /\ Reduce_reduce' >= Reduce_reduce
       /\ Shift_reduce' + Reduce_reduce' # 0
  BY <1>2, <1>3 DEF Progress
<1>. QED
  BY <1>1, <1>2, <1>10, <1>11, Visit

LEMMA ShiftStep ==
  ASSUME IInv, ShiftReduce
  PROVE  IInv'
<1>. DEFINE item == machine.items[k]
<1>1. PICK token \in tokens :
        /\ token \in DOMAIN actions
        /\ actions[token] > 0
        /\ actions' = IF BeatsShift(item, token)
                      THEN [actions EXCEPT ![token] = -item.prod_num]
                      ELSE actions
        /\ Shift_reduce' = IF CountsConflict(item, token)
                           THEN Shift_reduce + 1 ELSE Shift_reduce
        /\ tokens' = tokens \ {token}
  BY DEF ShiftReduce
<1>2. machine' = machine /\ k' = k /\ Reduce_reduce' = Reduce_reduce
  BY DEF ShiftReduce
<1>3. Progress
  BY DEF IInv
<1>4. /\ token \in Tokens /\ k \in Reducing(token) /\ item.prod_num \in Nat
      /\ Seen(token)' = Seen(token) \cup {k}
      /\ \A n \in Seen(token) : n < k
      /\ Winning(token)' = Winning(token)
  BY <1>1, <1>2, <1>3, Visited
<1>5. CellRight(token)
  BY <1>4 DEF IInv, Row
<1>6. /\ item.prec \in Nat /\ machine.level[token] \in Nat /\ k \in Nat
      /\ \A n \in Seen(token) : n \in Nat
  BY <1>3, <1>4, Positions, Machine DEF Progress
<1>7. token \in DOMAIN machine.shifts /\ SeenWinning(token) = {}
  BY <1>1, <1>5 DEF CellRight
<1>8. k \in Winning(token) <=> BeatsShift(item, token)
  BY <1>4, <1>6 DEF Winning, BeatsShift, Resolved
<1>. HIDE DEF item
<1>9. ASSUME BeatsShift(item, token)
      PROVE  CellRight(token)'
  <2>1. SeenWinning(token)' = {k}
    BY <1>4, <1>7, <1>8, <1>9 DEF SeenWinning
  <2>2. Counting(token)' = {k}
    BY <1>4, <1>6, <2>1 DEF Counting
  <2>3. actions'[token] = -item.prod_num
    BY <1>1, <1>9
  <2>4. IsLeast(item.prod_num, {k})
    BY <1>4 DEF IsLeast, item
  <2>5. \A p, positions : IsLeast(p, positions)' <=> IsLeast(p, positions)
    BY <1>2 DEF IsLeast
  <2>6. token \in DOMAIN actions'
    BY <1>1, <1>9
  <2>. QED
    BY <1>2, <1>4, <1>7, <2>1, <2>2, <2>3, <2>4, <2>5, <2>6 DEF CellRight
<1>10. ASSUME ~BeatsShift(item, token)
       PROVE  CellRight(token)'
  <2>1. SeenWinning(token)' = {}
    BY <1>4, <1>7, <1>8, <1>10 DEF SeenWinning
  <2>. QED
    BY <1>1, <1>2, <1>4, <1>5, <1>7, <1>10, <2>1 DEF CellRight
<1>11. /\ Shift_reduce \in Nat /\ Reduce_reduce \in Nat
       /\ Shift_reduce' \in Nat /\ Shift_reduce' >= Shift_reduce
  BY <1>1, <1>3 DEF Progress
<1>12. ASSUME Shift_reduce' + Reduce_reduce' = 0
       PROVE  SilentOn(token)'
  <2>1. Shift_reduce + Reduce_reduce = 0 /\ ~CountsConflict(item, token)
    BY <1>1, <1>2, <1>11, <1>12
  <2>2. SilentOn(token)
    BY <1>4, <2>1 DEF IInv, Silent
  <2>3. item.prec # 0 /\ machine.level[token] # 0
    BY <2>1 DEF CountsConflict, Resolved
  <2>4. SeenWinning(token)' \subseteq {k}
    BY <1>4, <1>7 DEF SeenWinning
  <2>5. \A n \in SeenWinning(token)' : \A m \in Seen(token)' : m <= n
    BY <1>4, <1>6, <2>4
  <2>6. \A n \in Seen(token)' : machine.items[n].prec # 0
    BY <1>4, <1>7, <2>2, <2>3 DEF SilentOn, item
  <2>. QED
    BY <1>2, <1>7, <2>3, <2>5, <2>6 DEF SilentOn
<1>13. /\ DOMAIN actions' = DOMAIN actions \cup {token}
       /\ \A other \in DOMAIN actions \ {token} : actions'[other] = actions[other]
  BY <1>1
<1>14. Reduce_reduce' \in Nat /\ Reduce_reduce' >= Reduce_reduce
  BY <1>2, <1>11
<1>. QED
  BY <1>1, <1>2, <1>9, <1>10, <1>11, <1>12, <1>13, <1>14, Visit

LEMMA NextItemStep ==
  ASSUME IInv, NextItem
  PROVE  IInv'
<1>1. /\ tokens = {} /\ k <= Len(machine.items) /\ k' = k + 1
      /\ tokens' = LookaheadsOf(machine, k + 1)
      /\ machine' = machine /\ actions' = actions
      /\ Shift_reduce' = Shift_reduce /\ Reduce_reduce' = Reduce_reduce
  BY DEF NextItem
<1>2. Progress /\ k \in Nat /\ Len(machine.items) \in Nat
  BY Machine DEF IInv, Progress
<1>3. Progress'
  BY <1>1, <1>2 DEF Progress
<1>4. ASSUME NEW token
      PROVE  Seen(token)' = Seen(token) /\ SeenWinning(token)' = SeenWinning(token)
             /\ Counting(token)' = Counting(token)
  <2>1. \A n \in Reducing(token) : n \in Nat /\ (n = k + 1 => token \in LookaheadsOf(machine, k + 1))
    BY <1>2, Positions DEF Reducing
  <2>2. Reducing(token)' = Reducing(token) /\ Winning(token)' = Winning(token)
    BY <1>1 DEF Reducing, Winning
  <2>3. Seen(token)' = Seen(token)
    BY <1>1, <1>2, <2>1, <2>2 DEF Seen
  <2>. QED
    BY <2>2, <2>3 DEF SeenWinning, Counting
<1>5. \A p, positions : IsLeast(p, positions)' <=> IsLeast(p, positions)
  BY <1>1 DEF IsLeast
<1>6. Row'
  BY <1>1, <1>4, <1>5 DEF IInv, Row, CellRight
<1>7. Silent'
  BY <1>1, <1>4 DEF IInv, Silent, SilentOn
<1>. QED
  BY <1>3, <1>6, <1>7 DEF IInv

LEMMA Starts ==
  ASSUME Init
  PROVE  IInv
<1>1. Progress
  <2>1. \A M \in Machines : Len(M.items) \in Nat
    BY MachinesAssumption DEF IsMachine
  <2>. QED
    BY <2>1 DEF Init, Progress
<1>2. ASSUME NEW token
      PROVE  Seen(token) = {} /\ SeenWinning(token) = {} /\ Counting(token) = {}
  <2>1. \A n \in Reducing(token) : n \in 1 .. Len(machine.items) /\ token \in LookaheadsOf(machine, n)
    BY DEF Reducing
  <2>2. Seen(token) = {}
    BY <1>1, <2>1, Machine DEF Seen, Init
  <2>. QED
    BY <2>2 DEF SeenWinning, Counting
<1>3. Row
  BY <1>1, <1>2, Machine DEF Init, Row, CellRight
<1>4. Silent
  BY <1>2 DEF Silent, SilentOn
<1>. QED
  BY <1>1, <1>3, <1>4 DEF IInv

----------------------------------------------------------------------------
(***************************************************************************)
(* Theorems.                                                               *)
(***************************************************************************)

LEMMA ReductionsStep ==
  ASSUME IInv, [Next]_vars
  PROVE  IInv'
<1>1. CASE UNCHANGED vars
  <2>1. \A token : /\ Seen(token)' = Seen(token) /\ SeenWinning(token)' = SeenWinning(token)
                   /\ Counting(token)' = Counting(token)
    BY <1>1 DEF vars, Seen, SeenWinning, Counting, Reducing, Winning
  <2>2. \A p, positions : IsLeast(p, positions)' <=> IsLeast(p, positions)
    BY <1>1 DEF vars, IsLeast
  <2>3. Row'
    BY <1>1, <2>1, <2>2 DEF vars, IInv, Row, CellRight
  <2>4. Silent'
    BY <1>1, <2>1 DEF vars, IInv, Silent, SilentOn
  <2>. QED
    BY <1>1, <2>3, <2>4 DEF vars, IInv, Progress
<1>. QED
  BY <1>1, AddStep, ReduceStep, ShiftStep, NextItemStep DEF Next

\* After every item and token, the row is what the rules make of the items and tokens
\* visited so far.
THEOREM InductiveInvariant == Spec => []IInv
<1>1. Init => IInv
  BY Starts
<1>2. IInv /\ [Next]_vars => IInv'
  BY ReductionsStep
<1>. QED
  BY <1>1, <1>2, PTL DEF Spec

\* When all items have been visited, all of them have been seen with all their tokens.
LEMMA AllSeen ==
  ASSUME Progress, Done, NEW token
  PROVE  Seen(token) = Reducing(token) /\ SeenWinning(token) = Winning(token)
<1>1. \A n \in Reducing(token) : n \in Nat /\ n < k
  BY Positions, Machine DEF Done, Progress
<1>. QED
  BY <1>1, Positions DEF Seen, SeenWinning

LEMMA LeastIsChosen ==
  ASSUME Progress, NEW positions \in SUBSET (1 .. Len(machine.items)), NEW p \in Nat,
         IsLeast(p, positions)
  PROVE  p = LeastProduction(positions)
<1>. DEFINE P(q) == q \in {machine.items[n].prod_num : n \in positions}
                    /\ \A n \in positions : q <= machine.items[n].prod_num
<1>1. P(p)
  BY DEF IsLeast
<1>2. ASSUME NEW q, P(q)
      PROVE  q = p
  <2>1. PICK n \in positions : q = machine.items[n].prod_num
    BY <1>2
  <2>2. q \in Nat
    BY <2>1, Machine
  <2>3. q <= p /\ p <= q
    BY <1>2, <2>1 DEF IsLeast
  <2>. QED
    BY <2>2, <2>3
<1>3. P(LeastProduction(positions))
  BY <1>1 DEF LeastProduction
<1>. QED
  BY <1>2, <1>3

LEMMA RowIsRight ==
  ASSUME IInv
  PROVE  RowByRules
<1>. SUFFICES ASSUME Done
              PROVE  /\ DOMAIN actions = DOMAIN machine.shifts
                                           \cup {t \in Tokens : Reducing(t) # {}}
                     /\ \A token \in DOMAIN actions : actions[token] = Outcome(token)
  BY DEF RowByRules
<1>1. Progress
  BY DEF IInv
<1>2. \A token : Seen(token) = Reducing(token) /\ SeenWinning(token) = Winning(token)
  BY <1>1, AllSeen
<1>3. DOMAIN machine.shifts \subseteq Tokens /\ DOMAIN actions \subseteq Tokens
  BY <1>1, Machine DEF IInv, Row
<1>4. \A token \in Tokens :
        token \in DOMAIN actions <=> token \in DOMAIN machine.shifts \/ Reducing(token) # {}
  BY <1>2 DEF IInv, Row, CellRight
<1>5. ASSUME NEW token \in DOMAIN actions
      PROVE  actions[token] = Outcome(token)
  <2>1. CellRight(token) /\ token \in Tokens
    BY <1>3, <1>5 DEF IInv, Row
  <2>2. Reducing(token) \in SUBSET (1 .. Len(machine.items))
    BY <1>1, Positions
  <2>3. CASE token \notin DOMAIN machine.shifts
    <3>1. PICK p \in Nat : actions[token] = -p /\ IsLeast(p, Reducing(token))
      BY <1>2, <1>5, <2>1, <2>3 DEF CellRight
    <3>2. p = LeastProduction(Reducing(token))
      BY <1>1, <2>2, <3>1, LeastIsChosen
    <3>. QED
      BY <2>3, <3>1, <3>2 DEF Outcome
  <2>4. CASE token \in DOMAIN machine.shifts /\ Winning(token) = {}
    BY <1>2, <2>1, <2>4 DEF CellRight, Outcome
  <2>5. CASE token \in DOMAIN machine.shifts /\ Winning(token) # {}
    <3>. DEFINE S == {n \in Reducing(token) : \E w \in Winning(token) : w <= n}
    <3>1. Counting(token) = S
      BY <1>2 DEF Counting
    <3>2. PICK p \in Nat : actions[token] = -p /\ IsLeast(p, S)
      BY <1>2, <2>1, <2>5, <3>1 DEF CellRight
    <3>3. S \in SUBSET (1 .. Len(machine.items))
      BY <2>2
    <3>. HIDE DEF S
    <3>4. p = LeastProduction(S)
      BY <1>1, <3>2, <3>3, LeastIsChosen
    <3>. QED
      BY <2>5, <3>2, <3>4 DEF Outcome, S
  <2>. QED
    BY <2>3, <2>4, <2>5
<1>. QED
  BY <1>3, <1>4, <1>5

\* The row of every state is the one the disambiguating rules give, whichever items reduce
\* on a token and in whatever order they come.
THEOREM RowRight == Spec => []RowByRules
<1>1. IInv => RowByRules
  BY RowIsRight
<1>. QED
  BY <1>1, InductiveInvariant, PTL

LEMMA SilenceIsRight ==
  ASSUME IInv
  PROVE  NothingSilent
<1>. SUFFICES ASSUME Done, Shift_reduce + Reduce_reduce = 0, NEW token \in Tokens
              PROVE  \/ Cardinality(Reducing(token)) <= 1 /\ token \notin DOMAIN machine.shifts
                     \/ /\ machine.level[token] # 0 \/ Reducing(token) = {}
                        /\ \A n \in Reducing(token) : machine.items[n].prec # 0
                        /\ \A n \in Winning(token) : \A m \in Reducing(token) : m <= n
  BY DEF NothingSilent
<1>1. SilentOn(token)
  BY DEF IInv, Silent
<1>2. Seen(token) = Reducing(token) /\ SeenWinning(token) = Winning(token)
  BY AllSeen DEF IInv
<1>3. CASE token \notin DOMAIN machine.shifts
  <2>1. Reducing(token) = {} \/ \E n : Reducing(token) = {n}
    BY <1>1, <1>2, <1>3 DEF SilentOn
  <2>2. Cardinality(Reducing(token)) \in {0, 1}
    BY <2>1, FS_EmptySet, FS_Singleton
  <2>. QED
    BY <1>3, <2>2
<1>4. CASE token \in DOMAIN machine.shifts
  BY <1>1, <1>2, <1>4 DEF SilentOn
<1>. QED
  BY <1>3, <1>4

\* When lr_conflicts() has nothing to report, precedences have settled all there was, in
\* every state.
THEOREM NothingPassedOver == Spec => []NothingSilent
<1>1. IInv => NothingSilent
  BY SilenceIsRight
<1>. QED
  BY <1>1, InductiveInvariant, PTL

LEMMA TypeFromIInv ==
  ASSUME IInv
  PROVE  TypeOK
<1>1. Progress /\ IsMachine(machine) /\ DOMAIN machine.items = 1 .. Len(machine.items)
  BY Machine DEF IInv
<1>2. \A token : Seen(token) \subseteq DOMAIN machine.items /\ Counting(token) \subseteq Seen(token)
  BY <1>1, Positions DEF Counting
<1>3. ASSUME NEW token \in DOMAIN actions
      PROVE  \/ token \in DOMAIN machine.shifts /\ actions[token] = machine.shifts[token]
             \/ \E n \in DOMAIN machine.items : actions[token] = -machine.items[n].prod_num
  <2>1. CellRight(token)
    BY <1>3 DEF IInv, Row
  <2>. QED
    BY <1>2, <1>3, <2>1 DEF CellRight, IsLeast
<1>. QED
  BY <1>1, <1>3 DEF TypeOK, IInv, Row, Progress

\* An action is the state's own shift or one of its productions.
THEOREM TypeCorrect == Spec => []TypeOK
<1>1. IInv => TypeOK
  BY TypeFromIInv
<1>. QED
  BY <1>1, InductiveInvariant, PTL

----------------------------------------------------------------------------
(***************************************************************************)
(* print_tab().                                                            *)
(***************************************************************************)

\* A marked row has a template before it: one that leads to the same chain, is not marked
\* itself and, while rows are still compared, will not be marked any more.
MarkedRows ==
  \A r \in redundant :
    /\ table[r] < r
    /\ table[r] \notin redundant
    /\ chains[table[r]] = chains[r]
    /\ chains[r] # <<>>
    /\ pc = "mark" => table[r] <= i

\* Rows compared so far and not marked differ.
Compared(m, n) == pc # "mark" \/ m < i \/ (m = i /\ n < j)

ComparedRows ==
  /\ pc = "mark" => i < j
  /\ \A m, n \in States :
       /\ m < n
       /\ PrintsRow(m) /\ PrintsRow(n)
       /\ Compared(m, n)
       => chains[m] # chains[n]

\* The rows and pointers printed so far.
Passed(phase) ==
  IF pc = phase THEN {n \in States : n < i}
  ELSE IF pc = "mark" \/ (pc = "rows" /\ phase = "pointers") THEN {}
  ELSE States

PrintedRows ==
  /\ DOMAIN rows = {n \in Passed("rows") : PrintsRow(n)}
  /\ \A n \in DOMAIN rows : rows[n] = chains[n]

PrintedPointers ==
  /\ DOMAIN pointers = Passed("pointers")
  /\ \A n \in DOMAIN pointers : pointers[n] = PointerTo(n)

\* The inductive invariant.
PrintIInv == PrintTypeOK /\ MarkedRows /\ ComparedRows /\ PrintedRows /\ PrintedPointers

----------------------------------------------------------------------------
LEMMA InitHasIInv ==
  ASSUME PrintInit
  PROVE  PrintIInv
<1> USE TableAssumption DEF PrintInit
<1>1. PrintTypeOK
  BY DEF PrintTypeOK, States
<1>2. MarkedRows /\ PrintedRows /\ PrintedPointers
  BY DEF MarkedRows, PrintedRows, PrintedPointers, Passed
<1>3. ComparedRows
  BY DEF ComparedRows, Compared, States
<1> QED
  BY <1>1, <1>2, <1>3 DEF PrintIInv

LEMMA CompareRowsKeepsIInv ==
  ASSUME PrintIInv, CompareRows
  PROVE  PrintIInv'
<1> USE TableAssumption DEF PrintIInv, CompareRows
<1>1. /\ i \in States /\ j \in States /\ i < j
      /\ pc = "mark" /\ pc' = "mark"
      /\ table \in [States -> States]
      /\ redundant \subseteq States
  <2>1. /\ table \in [States -> States]
        /\ redundant \subseteq States
        /\ i \in 0 .. Nstates /\ j \in 1 .. Nstates + 1
    BY DEF PrintTypeOK
  <2>2. i \in States /\ j \in States
    BY <2>1 DEF States
  <2> QED
    BY <2>1, <2>2 DEF ComparedRows
<1>2. PrintTypeOK'
  <2>1. /\ chains' \in [States -> Chains]
        /\ i' \in 0 .. Nstates
        /\ j' \in 1 .. Nstates + 1
    BY <1>1 DEF PrintTypeOK, States
  <2>2. table' \in [States -> States] /\ redundant' \subseteq States
    BY <1>1 DEF TemplateElement
  <2> QED
    BY <2>1, <2>2 DEF PrintTypeOK
<1>3. MarkedRows'
  <2> SUFFICES ASSUME NEW r \in redundant'
               PROVE  /\ table'[r] < r
                      /\ table'[r] \notin redundant'
                      /\ chains'[table'[r]] = chains'[r]
                      /\ chains'[r] # <<>>
                      /\ table'[r] <= i'
    BY DEF MarkedRows
  <2>1. CASE redundant' = redundant /\ table' = table
    BY <1>1, <2>1 DEF MarkedRows
  <2>2. CASE /\ ~IsMarked(i) /\ ~IsMarked(j) /\ chains[i] # <<>> /\ chains[i] = chains[j]
             /\ redundant' = redundant \cup {j}
             /\ table' = [table EXCEPT ![j] = i]
    <3>1. CASE r = j
      BY <1>1, <2>2, <3>1 DEF IsMarked
    <3>2. CASE r # j
      <4>1. r \in redundant /\ table'[r] = table[r] /\ table[r] \in States
        BY <1>1, <2>2, <3>2
      <4>2. table[r] # j
        BY <1>1, <4>1 DEF MarkedRows, States
      <4> QED
        BY <1>1, <2>2, <4>1, <4>2 DEF MarkedRows
    <3> QED
      BY <3>1, <3>2
  <2> QED
    BY <2>1, <2>2 DEF SameChain, TemplateElement
<1>4. ComparedRows'
  <2>1. i' < j'
    BY <1>1 DEF States
  <2>2. ASSUME NEW m \in States, NEW n \in States,
               m < n, PrintsRow(m)', PrintsRow(n)', Compared(m, n)'
        PROVE  chains'[m] # chains'[n]
    <3>1. PrintsRow(m) /\ PrintsRow(n)
      BY <2>2 DEF PrintsRow, IsMarked
    <3>2. CASE Compared(m, n)
      BY <2>2, <3>1, <3>2 DEF ComparedRows
    <3>3. CASE m = i /\ n = j
      BY <1>1, <2>2, <3>1, <3>3 DEF PrintsRow, IsMarked, SameChain
    <3> QED
      BY <1>1, <2>2, <3>2, <3>3 DEF Compared, States
  <2> QED
    BY <2>1, <2>2 DEF ComparedRows
<1>5. PrintedRows' /\ PrintedPointers'
  BY <1>1 DEF PrintedRows, PrintedPointers, Passed
<1> QED
  BY <1>2, <1>3, <1>4, <1>5

LEMMA NextTemplateKeepsIInv ==
  ASSUME PrintIInv, NextTemplate
  PROVE  PrintIInv'
<1> USE TableAssumption DEF PrintIInv, NextTemplate
<1>1. PrintTypeOK'
  BY DEF PrintTypeOK
<1>2. MarkedRows'
  <2> SUFFICES ASSUME NEW r \in redundant PROVE table[r] <= i + 1
    BY DEF MarkedRows
  <2>1. table[r] \in Int /\ i \in Int
    BY DEF PrintTypeOK, States
  <2> QED
    BY <2>1 DEF MarkedRows
<1>3. ComparedRows'
  <2>1. i' < j'
    BY DEF PrintTypeOK
  <2>2. ASSUME NEW m \in States, NEW n \in States,
               m < n, PrintsRow(m)', PrintsRow(n)', Compared(m, n)'
        PROVE  chains'[m] # chains'[n]
    <3>1. PrintsRow(m) /\ PrintsRow(n)
      BY <2>2 DEF PrintsRow, IsMarked
    <3>2. m \in Int /\ n \in Int /\ i \in Int /\ j \in Int
      BY DEF PrintTypeOK, States
    <3>3. m <= i
      <4>1. m < i' \/ (m = i' /\ n < j')
        BY <2>2 DEF Compared
      <4> QED
        BY <2>2, <3>2, <4>1
    <3>4. IsMarked(i) \/ n < j
      BY <3>2 DEF States
    <3>5. Compared(m, n)
      BY <3>1, <3>2, <3>3, <3>4 DEF Compared, PrintsRow
    <3> QED
      BY <2>2, <3>1, <3>5 DEF ComparedRows
  <2> QED
    BY <2>1, <2>2 DEF ComparedRows
<1>4. PrintedRows' /\ PrintedPointers'
  BY DEF PrintedRows, PrintedPointers, Passed
<1> QED
  BY <1>1, <1>2, <1>3, <1>4

\* What the steps behind the comparisons leave as it is.
LEMMA MarkingStays ==
  ASSUME PrintIInv, UNCHANGED <<chains, table, redundant>>, pc' # "mark", pc # "mark"
  PROVE  MarkedRows' /\ ComparedRows'
BY DEF PrintIInv, MarkedRows, ComparedRows, Compared, PrintsRow, IsMarked

LEMMA RowsMarkedKeepsIInv ==
  ASSUME PrintIInv, RowsMarked
  PROVE  PrintIInv'
<1> USE TableAssumption DEF PrintIInv, RowsMarked
<1>1. PrintTypeOK'
  BY DEF PrintTypeOK
<1>2. MarkedRows'
  BY DEF MarkedRows
<1>3. ComparedRows'
  <2> SUFFICES ASSUME NEW m \in States, NEW n \in States,
                      m < n, PrintsRow(m), PrintsRow(n)
               PROVE  chains[m] # chains[n]
    BY DEF ComparedRows, PrintsRow, IsMarked
  <2>1. Compared(m, n)
    BY DEF Compared, PrintTypeOK, States
  <2> QED
    BY <2>1 DEF ComparedRows
<1>4. Passed("rows")' = {} /\ Passed("pointers")' = {}
  BY DEF Passed, States
<1>5. PrintedRows' /\ PrintedPointers'
  BY <1>4 DEF PrintedRows, PrintedPointers, Passed
<1> QED
  BY <1>1, <1>2, <1>3, <1>5

LEMMA PrintRowKeepsIInv ==
  ASSUME PrintIInv, PrintRow
  PROVE  PrintIInv'
<1> USE TableAssumption DEF PrintIInv, PrintRow
<1>1. i \in States /\ chains[i] \in Chains
  BY DEF PrintTypeOK, States
<1>2. /\ Passed("rows") = {n \in States : n < i}
      /\ Passed("rows")' = {n \in States : n < i} \cup {i}
      /\ Passed("pointers") = {} /\ Passed("pointers")' = {}
  BY <1>1 DEF Passed, States
<1>3. PrintedRows'
  <2>1. CASE PrintsRow(i)
    <3>1. rows' = [n \in DOMAIN rows \cup {i} |-> IF n = i THEN chains[i] ELSE rows[n]]
      BY <2>1
    <3>2. DOMAIN rows' = {n \in Passed("rows")' : PrintsRow(n)'}
      BY <1>2, <2>1, <3>1 DEF PrintedRows, PrintsRow, IsMarked
    <3> QED
      BY <3>1, <3>2 DEF PrintedRows
  <2>2. CASE ~PrintsRow(i)
    BY <1>2, <2>2 DEF PrintedRows, PrintsRow, IsMarked
  <2> QED
    BY <2>1, <2>2
<1>4. PrintTypeOK'
  <2>1. \A n \in DOMAIN rows' : n \in States /\ rows'[n] \in Chains
    BY <1>1, <1>2, <1>3 DEF PrintedRows, PrintTypeOK
  <2>2. i' \in 0 .. Nstates
    BY <1>1 DEF States
  <2> QED
    BY <2>1, <2>2 DEF PrintTypeOK
<1>5. PrintedPointers'
  BY <1>2 DEF PrintedPointers, PointerTo
<1> QED
  BY <1>3, <1>4, <1>5, MarkingStays

LEMMA RowsPrintedKeepsIInv ==
  ASSUME PrintIInv, RowsPrinted
  PROVE  PrintIInv'
<1> USE TableAssumption DEF PrintIInv, RowsPrinted
<1>1. PrintTypeOK'
  BY DEF PrintTypeOK
<1>2. /\ Passed("rows") = States /\ Passed("rows")' = States
      /\ Passed("pointers") = {} /\ Passed("pointers")' = {}
  BY DEF Passed, PrintTypeOK, States
<1>3. PrintedRows' /\ PrintedPointers'
  BY <1>2 DEF PrintedRows, PrintedPointers, PrintsRow, IsMarked
<1> QED
  BY <1>1, <1>3, MarkingStays

LEMMA PrintPointerKeepsIInv ==
  ASSUME PrintIInv, PrintPointer
  PROVE  PrintIInv'
<1> USE TableAssumption DEF PrintIInv, PrintPointer
<1>1. i \in States /\ PointerTo(i) \subseteq States
  BY DEF PointerTo, PrintTypeOK, States
<1>2. /\ Passed("rows") = States /\ Passed("rows")' = States
      /\ Passed("pointers") = {n \in States : n < i}
      /\ Passed("pointers")' = {n \in States : n < i} \cup {i}
  BY <1>1 DEF Passed, States
<1>3. PrintedRows'
  BY <1>2 DEF PrintedRows, PrintsRow, IsMarked
<1>4. PrintedPointers'
  BY <1>2 DEF PrintedPointers, PointerTo, IsMarked
<1>5. PrintTypeOK'
  <2>1. \A n \in DOMAIN pointers' : n \in States /\ pointers'[n] \subseteq States
    BY <1>1 DEF PrintTypeOK
  <2>2. i' \in 0 .. Nstates
    BY <1>1 DEF States
  <2> QED
    BY <2>1, <2>2 DEF PrintTypeOK
<1> QED
  BY <1>3, <1>4, <1>5, MarkingStays

LEMMA PrintTabReturnsKeepsIInv ==
  ASSUME PrintIInv, PrintTabReturns
  PROVE  PrintIInv'
<1> USE TableAssumption DEF PrintIInv, PrintTabReturns
<1>1. PrintTypeOK'
  BY DEF PrintTypeOK
<1>2. /\ Passed("rows") = States /\ Passed("rows")' = States
      /\ Passed("pointers") = States /\ Passed("pointers")' = States
  BY DEF Passed, PrintTypeOK, States
<1>3. PrintedRows' /\ PrintedPointers'
  BY <1>2 DEF PrintedRows, PrintedPointers, PrintsRow, PointerTo, IsMarked
<1> QED
  BY <1>1, <1>3, MarkingStays

LEMMA StutteringKeepsIInv ==
  ASSUME PrintIInv, UNCHANGED printVars
  PROVE  PrintIInv'
BY DEF PrintIInv, printVars, PrintTypeOK, MarkedRows, ComparedRows, Compared, PrintedRows, PrintedPointers,
       Passed, PrintsRow, PointerTo, IsMarked

LEMMA PrintStep ==
  ASSUME PrintIInv, [PrintNext]_printVars
  PROVE  PrintIInv'
BY CompareRowsKeepsIInv, NextTemplateKeepsIInv, RowsMarkedKeepsIInv, PrintRowKeepsIInv,
   RowsPrintedKeepsIInv, PrintPointerKeepsIInv, PrintTabReturnsKeepsIInv,
   StutteringKeepsIInv DEF PrintNext

\* Tables of every size, with any chains: the invariant of print_tab().
THEOREM PrintInvariant == PrintSpec => []PrintIInv
<1>1. PrintInit => PrintIInv
  BY InitHasIInv
<1>2. PrintIInv /\ [PrintNext]_printVars => PrintIInv'
  BY PrintStep
<1> QED
  BY <1>1, <1>2, PTL DEF PrintSpec

\* For tables of every size: elements are elements of the table, rows are chains.
THEOREM PrintTypeCorrect == PrintSpec => []PrintTypeOK
BY PrintInvariant, PTL DEF PrintIInv

----------------------------------------------------------------------------
\* The element printed for a state names a printed row with the state's chain, or is NULL
\* where the chain is empty. (the three branches of print_tab()'s last loop)
LEMMA PointerLeadsToChain ==
  ASSUME PrintIInv, pc \in {"pointers", "done"}, NEW n \in DOMAIN pointers
  PROVE  \/ pointers[n] = {} /\ chains[n] = <<>>
         \/ \E name \in DOMAIN rows : pointers[n] = {name} /\ rows[name] = chains[n]
<1> USE DEF PrintIInv
<1>1. n \in States /\ pointers[n] = PointerTo(n) /\ Passed("rows") = States
  BY DEF PrintedPointers, Passed, PrintTypeOK
<1>2. CASE n \in redundant
  <2>1. table[n] \in States /\ PrintsRow(table[n]) /\ chains[table[n]] = chains[n]
    BY <1>1, <1>2 DEF MarkedRows, PrintsRow, IsMarked, PrintTypeOK
  <2> QED
    BY <1>1, <1>2, <2>1 DEF PrintedRows, PointerTo, IsMarked
<1>3. CASE n \notin redundant
  BY <1>1, <1>3 DEF PrintedRows, PointerTo, PrintsRow, IsMarked
<1> QED
  BY <1>2, <1>3

LEMMA LookupsAgree ==
  ASSUME PrintIInv
  PROVE  LookupAgrees
<1> SUFFICES ASSUME pc = "done", NEW row \in States, NEW input \in Symbols
             PROVE  yy_next(row, input) = ActionOf(row, input)
  BY DEF LookupAgrees
<1>1. row \in DOMAIN pointers
  BY DEF PrintIInv, PrintedPointers, Passed
<1>2. CASE pointers[row] = {} /\ chains[row] = <<>>
  BY <1>2 DEF yy_next, ActionOf, Lookup
<1>3. CASE \E name \in DOMAIN rows : pointers[row] = {name} /\ rows[name] = chains[row]
  <2> PICK name \in DOMAIN rows : pointers[row] = {name} /\ rows[name] = chains[row]
    BY <1>3
  <2>1. (CHOOSE one \in pointers[row] : TRUE) = name
    OBVIOUS
  <2> QED
    BY <2>1 DEF yy_next, ActionOf
<1> QED
  BY <1>1, <1>2, <1>3, PointerLeadsToChain

\* For tables of every size: yy_next() finds in the printed tables what p_action() and
\* p_goto() find in the chains.
THEOREM Lossless == PrintSpec => []LookupAgrees
<1>1. PrintIInv => LookupAgrees
  BY LookupsAgree
<1> QED
  BY <1>1, PrintInvariant, PTL

\* No two of the printed rows are the same.
LEMMA RowsDiffer ==
  ASSUME PrintIInv, NEW m \in DOMAIN rows, NEW n \in DOMAIN rows, rows[m] = rows[n]
  PROVE  m = n
<1>1. /\ m \in States /\ n \in States /\ m \in Int /\ n \in Int
      /\ PrintsRow(m) /\ PrintsRow(n)
      /\ chains[m] = chains[n] /\ pc # "mark"
  BY TableAssumption DEF PrintIInv, PrintedRows, Passed, States
<1>2. m < n \/ n < m \/ m = n
  BY <1>1
<1> QED
  BY <1>1, <1>2 DEF PrintIInv, ComparedRows, Compared

LEMMA NamesAreRows ==
  ASSUME PrintIInv
  PROVE  NamesDeclared
<1>1. ASSUME NEW n \in DOMAIN pointers
      PROVE  pointers[n] \subseteq DOMAIN rows
  <2>1. pc \in {"pointers", "done"}
    BY <1>1 DEF PrintIInv, PrintTypeOK, PrintedPointers, Passed
  <2> QED
    BY <2>1, PointerLeadsToChain
<1>2. ASSUME pc = "done", NEW name \in DOMAIN rows
      PROVE  \E n \in States : name \in pointers[n]
  <2>1. name \in States /\ PrintsRow(name) /\ pointers[name] = PointerTo(name)
    BY <1>2 DEF PrintIInv, PrintedRows, PrintedPointers, Passed
  <2> QED
    BY <2>1 DEF PrintsRow, PointerTo
<1> QED
  BY <1>1, <1>2, RowsDiffer DEF NamesDeclared

\* For tables of every size: the pointer array names printed rows only, and all of them,
\* and no row is there twice.
THEOREM Declared == PrintSpec => []NamesDeclared
<1>1. PrintIInv => NamesDeclared
  BY NamesAreRows
<1> QED
  BY <1>1, PrintInvariant, PTL

----------------------------------------------------------------------------
(***************************************************************************)
(* Both, one behind the other (ActionTable).                               *)
(***************************************************************************)

\* print_tab() has not begun.
Unprinted ==
  /\ table = [n \in States |-> n]
  /\ redundant = {}
  /\ i = 0
  /\ j = 1
  /\ rows = [n \in {} |-> <<>>]
  /\ pointers = [n \in {} |-> {}]
  /\ pc = "mark"

\* The row is a function, and once it is printed it is one of the chains.
TableIInv ==
  /\ IInv
  /\ PrintIInv
  /\ actions = [token \in DOMAIN actions |-> actions[token]]
  /\ state = NotPrinted => Unprinted
  /\ state # NotPrinted => state \in States /\ Done /\ chains[state] \in ChainsOf(actions)

LEMMA RowStaysFunction ==
  ASSUME IInv, Next, actions = [token \in DOMAIN actions |-> actions[token]]
  PROVE  actions' = [token \in DOMAIN actions' |-> actions'[token]]
BY DEF Next, AddReduction, ReduceReduce, ShiftReduce, NextItem

\* The row of a state is one of the chains print_tab() may be given.
LEMMA RowsAreChains ==
  ASSUME IInv, actions = [token \in DOMAIN actions |-> actions[token]]
  PROVE  ChainsOf(actions) \subseteq Chains
<1>1. TypeOK /\ machine \in Machines
  BY TypeFromIInv DEF IInv, Progress
<1>2. DOMAIN actions \in SUBSET Tokens /\ actions \in [DOMAIN actions -> ActionsOf(machine)]
  BY <1>1 DEF TypeOK, ActionsOf
<1>. QED
  BY <1>1, <1>2, ActionTableAssumption

LEMMA BeginHasIInv == PrintInit' => PrintIInv'
<1>1. PrintInit => PrintIInv
  BY InitHasIInv
<1>. QED
  BY <1>1, PTL

LEMMA BeginPrintingKeepsIInv ==
  ASSUME TableIInv, BeginPrinting
  PROVE  TableIInv'
<1>. USE DEF TableIInv
<1>1. PICK others \in Tables(machine), chain \in ChainsOf(actions), n \in Places(machine) \cap States :
        state' = n /\ chains' = [others EXCEPT ![n] = chain]
  BY DEF BeginPrinting
<1>2. /\ state = NotPrinted /\ Done /\ UNCHANGED vars
      /\ UNCHANGED <<table, redundant, i, j, rows, pointers, pc>>
  BY DEF BeginPrinting, ReductionsDone
<1>3. IInv'
  BY <1>2, ReductionsStep
<1>4. others \in [States -> Chains] /\ chain \in Chains
  BY RowsAreChains, ActionTableAssumption DEF IInv, Progress
<1>5. chains' \in [States -> Chains] /\ chains'[n] = chain
  BY <1>1, <1>4
<1>6. PrintInit'
  BY <1>2, <1>5 DEF PrintInit, Unprinted
<1>7. PrintIInv'
  BY <1>6, BeginHasIInv
<1>8. actions' = actions /\ Done'
  BY <1>2 DEF vars, Done
<1>9. n \in States /\ n # NotPrinted
  BY <1>1, TableAssumption DEF States, NotPrinted
<1>10. actions' = [token \in DOMAIN actions' |-> actions'[token]]
  BY <1>8
<1>11. chains'[state'] \in ChainsOf(actions)'
  BY <1>1, <1>5, <1>8 DEF ChainsOf
<1>. QED
  BY <1>1, <1>3, <1>7, <1>8, <1>9, <1>10, <1>11

\* The rows of all machines in all tables: what is printed is the finished row of the state.
THEOREM TableInvariant == TableSpec => []TableIInv
<1>1. TableInit => TableIInv
  <2>. SUFFICES ASSUME TableInit
                PROVE  TableIInv
    OBVIOUS
  <2>1. IInv /\ PrintIInv
    BY Starts, InitHasIInv DEF TableInit
  <2>2. actions = [token \in DOMAIN actions |-> actions[token]]
    BY MachinesAssumption DEF TableInit, Init, IsMachine
  <2>. QED
    BY <2>1, <2>2 DEF TableIInv, TableInit, PrintInit, Unprinted
<1>2. TableIInv /\ [TableNext]_tableVars => TableIInv'
  <2>. SUFFICES ASSUME TableIInv, [TableNext]_tableVars
                PROVE  TableIInv'
    OBVIOUS
  <2>1. CASE ReducingStep
    <3>1. IInv'
      BY <2>1, ReductionsStep DEF TableIInv, ReducingStep
    <3>2. PrintIInv'
      BY <2>1, PrintStep DEF TableIInv, ReducingStep
    <3>3. actions' = [token \in DOMAIN actions' |-> actions'[token]]
      BY <2>1, RowStaysFunction DEF TableIInv, ReducingStep
    <3>4. state' = NotPrinted /\ Unprinted'
      BY <2>1 DEF TableIInv, ReducingStep, Unprinted, printVars
    <3>. QED
      BY <3>1, <3>2, <3>3, <3>4 DEF TableIInv
  <2>2. CASE BeginPrinting
    BY <2>2, BeginPrintingKeepsIInv
  <2>3. CASE Printing
    <3>1. UNCHANGED vars /\ state' = state /\ state # NotPrinted /\ PrintNext
      BY <2>3 DEF Printing
    <3>2. IInv'
      BY <3>1, ReductionsStep DEF TableIInv
    <3>3. PrintIInv'
      BY <3>1, PrintStep DEF TableIInv
    <3>4. chains' = chains
      BY <3>1 DEF PrintNext, CompareRows, NextTemplate, RowsMarked, PrintRow, RowsPrinted,
                  PrintPointer, PrintTabReturns
    <3>5. actions' = actions /\ (Done' <=> Done) /\ ChainsOf(actions)' = ChainsOf(actions)
      BY <3>1 DEF vars, Done, ChainsOf
    <3>. QED
      BY <3>1, <3>2, <3>3, <3>4, <3>5 DEF TableIInv
  <2>4. CASE UNCHANGED tableVars
    <3>1. IInv' /\ PrintIInv'
      BY <2>4, ReductionsStep, PrintStep DEF TableIInv, tableVars
    <3>2. /\ actions' = actions /\ state' = state /\ chains' = chains
          /\ (Done' <=> Done) /\ ChainsOf(actions)' = ChainsOf(actions)
          /\ (Unprinted => Unprinted')
      BY <2>4 DEF tableVars, vars, printVars, Done, ChainsOf, Unprinted
    <3>. QED
      BY <3>1, <3>2 DEF TableIInv
  <2>. QED
    BY <2>1, <2>2, <2>3, <2>4 DEF TableNext
<1>. QED
  BY <1>1, <1>2, PTL DEF TableSpec

\* For all states and tables: the row has actions of its state, the table elements of its own.
THEOREM TableTypeCorrect == TableSpec => []TableTypeOK
<1>1. TableIInv => TableTypeOK
  BY TypeFromIInv DEF TableIInv, PrintIInv, TableTypeOK
<1>. QED
  BY <1>1, TableInvariant, PTL

\* What holds of either holds of both, one behind the other.
THEOREM TableParts ==
  TableSpec => [](RowByRules /\ NothingSilent /\ LookupAgrees /\ NamesDeclared)
<1>1. TableIInv => RowByRules /\ NothingSilent /\ LookupAgrees /\ NamesDeclared
  BY RowIsRight, SilenceIsRight, LookupsAgree, NamesAreRows DEF TableIInv
<1>. QED
  BY <1>1, TableInvariant, PTL

LEMMA FirstPlace ==
  ASSUME NEW S \in SUBSET Nat, S # {}
  PROVE  \E n \in S : \A m \in S : n <= m
<1>. DEFINE R == {ss \in Nat \X Nat : ss[1] < ss[2]}
<1>1. IsWellFoundedOn(R, Nat)
  BY NatLessThanWellFounded DEF OpToRel
<1>2. PICK n \in S : \A m \in S : ~(<<m, n>> \in R)
  <2>1. S \subseteq Nat
    OBVIOUS
  <2>. HIDE DEF R
  <2>. QED
    BY <1>1, <2>1, WFMin
<1>3. \A m \in S : ~(m < n)
  BY <1>2
<1>. QED
  BY <1>3

\* A row can be looked up in any chain of it.
LEMMA LookupInChain ==
  ASSUME NEW row, NEW chain \in ChainsOf(row), chain \in Seq(Symbols \X Int), NEW token
  PROVE  Lookup(chain, token, YYF) = IF token \in DOMAIN row THEN row[token] ELSE YYF
<1>. DEFINE P == {n \in 1 .. Len(chain) : chain[n][1] = token}
<1>1. DOMAIN chain = 1 .. Len(chain) /\ Len(chain) \in Nat
  OBVIOUS
<1>2. \A n \in 1 .. Len(chain) : \E other \in DOMAIN row : chain[n] = <<other, row[other]>>
  <2>1. chain \in [1 .. Cardinality(DOMAIN row) -> {<<other, row[other]>> : other \in DOMAIN row}]
    BY DEF ChainsOf
  <2>2. \A n \in DOMAIN chain : chain[n] \in {<<other, row[other]>> : other \in DOMAIN row}
    BY <2>1
  <2>. QED
    BY <1>1, <2>2
<1>3. \A n \in P : token \in DOMAIN row /\ chain[n][2] = row[token]
  BY <1>2
<1>4. CASE token \notin DOMAIN row
  BY <1>3, <1>4 DEF Lookup
<1>5. CASE token \in DOMAIN row
  <2>1. P # {}
    BY <1>1, <1>5 DEF ChainsOf
  <2>2. PICK n \in P : \A m \in P : n <= m
    <3>1. P \in SUBSET Nat
      BY <1>1
    <3>. QED
      BY <2>1, <3>1, FirstPlace
  <2>. DEFINE C(q) == chain[q][1] = token /\ \A m \in 1 .. q - 1 : chain[m][1] # token
              c    == CHOOSE q \in 1 .. Len(chain) : C(q)
  <2>3. C(n)
    BY <1>1, <2>2
  <2>4. c \in P
    BY <2>3
  <2>5. Lookup(chain, token, YYF) = chain[c][2]
    BY <2>2 DEF Lookup
  <2>. QED
    BY <1>3, <1>5, <2>4, <2>5
<1>. QED
  BY <1>4, <1>5

\* For every state, any precedences and a table of any size: between the items lr() has left
\* and what yy_next() reads, nothing is lost and nothing added.
THEOREM ReadsRules == TableSpec => []ParserReadsRules
<1>1. TableIInv => ParserReadsRules
  <2>. SUFFICES ASSUME TableIInv, state # NotPrinted, pc = "done", NEW token \in Tokens
                PROVE  yy_next(state, token) =
                         IF token \in DOMAIN machine.shifts \/ Reducing(token) # {}
                         THEN Outcome(token) ELSE YYF
    BY DEF ParserReadsRules
  <2>1. state \in States /\ Done /\ chains[state] \in ChainsOf(actions)
    BY DEF TableIInv
  <2>2. yy_next(state, token) = Lookup(chains[state], token, YYF)
    BY <2>1, LookupsAgree, ActionTableAssumption DEF TableIInv, LookupAgrees, ActionOf
  <2>3. chains[state] \in Seq(Symbols \X Int)
    BY <2>1, TableAssumption DEF TableIInv, PrintIInv, PrintTypeOK
  <2>4. yy_next(state, token) = IF token \in DOMAIN actions THEN actions[token] ELSE YYF
    BY <2>1, <2>2, <2>3, LookupInChain
  <2>5. RowByRules
    BY RowIsRight DEF TableIInv
  <2>. QED
    BY <2>1, <2>4, <2>5 DEF RowByRules
<1>. QED
  BY <1>1, TableInvariant, PTL
=============================================================================
