----------------------------- MODULE Reductions -----------------------------
(***************************************************************************)
(* addreductions() and reduce_one_item() of yystate.c: the reductions of   *)
(* one state join the shifts lr() has put into its row of the action       *)
(* table, and conflicts are settled.                                       *)
(*                                                                         *)
(* The state's items come in the order addreductions() takes them: the     *)
(* kernel items, then the epsilon items, each list by production number.   *)
(* An action is the number do_this of the code: a state to shift to, or    *)
(* minus a production to reduce by; 0 accepts.                             *)
(***************************************************************************)
EXTENDS Integers, Sequences, FiniteSets

CONSTANTS
  Machines,         \* the states and precedences a behaviour may start from
  Tokens            \* what lookahead sets and rows are made of

(***************************************************************************)
(* A machine is a record                                                   *)
(*   shifts   token -> next state, for the tokens the state shifts         *)
(*   items    sequence of records: prod_num, prec (of the production),     *)
(*            at_end (nothing is right of the dot) and lookaheads          *)
(*   level    token -> Precedence[token].level, 0 for none                 *)
(*   assoc    token -> Precedence[token].assoc                             *)
(*   Verbose  0, 1 or 2                                                    *)
(***************************************************************************)
IsItem(item) ==
  /\ item.prod_num \in Nat
  /\ item.prec \in Nat
  /\ item.at_end \in BOOLEAN
  /\ item.lookaheads \subseteq Tokens

IsMachine(M) ==
  /\ DOMAIN M.shifts \subseteq Tokens
  /\ M.shifts \in [DOMAIN M.shifts -> Nat \ {0}]
  /\ M.items \in Seq({item \in {M.items[k] : k \in DOMAIN M.items} : IsItem(item)})
  /\ M.level \in [Tokens -> Nat]
  /\ M.assoc \in [Tokens -> {"l", "r", "n", "none"}]
  /\ M.Verbose \in Nat

ASSUME MachinesAssumption == Tokens \subseteq Nat /\ \A M \in Machines : IsMachine(M)

VARIABLES
  machine,          \* what the state and the precedences are, fixed
  k,                \* the item addreductions() is at
  tokens,           \* the lookaheads of that item still to be visited
  actions,          \* token -> do_this: the row of the action table
  Shift_reduce,     \* conflicts counted so far
  Reduce_reduce

vars == <<machine, k, tokens, actions, Shift_reduce, Reduce_reduce>>

LookaheadsOf(M, n) ==
  IF n <= Len(M.items) /\ M.items[n].at_end THEN M.items[n].lookaheads ELSE {}

Init ==
  /\ machine \in Machines
  /\ k = 1
  /\ tokens = LookaheadsOf(machine, 1)
  /\ actions = machine.shifts
  /\ Shift_reduce = 0
  /\ Reduce_reduce = 0

----------------------------------------------------------------------------
\* next_member() delivers the tokens in ascending order.
IsNextToken(token) == token \in tokens /\ \A other \in tokens : token <= other

Min2(a, b) == IF a < b THEN a ELSE b

\* resolved = (pprec && tprec)
Resolved(item, token) == item.prec # 0 /\ machine.level[token] # 0

\* Mutant: the token's own associativity does not count at equal levels.
BeatsWithoutAssoc(item, token) ==
  Resolved(item, token) /\ machine.level[token] <= item.prec

\* The production wins over the shift.
BeatsShift(item, token) ==
  /\ Resolved(item, token)
  /\ \/ machine.level[token] < item.prec
     \/ machine.level[token] = item.prec /\ machine.assoc[token] = "l"

\* No action on the token yet.
AddReduction ==
  /\ \E token \in tokens :
       /\ IsNextToken(token)
       /\ token \notin DOMAIN actions
       /\ actions' = [t \in DOMAIN actions \cup {token} |->
                        IF t = token THEN -machine.items[k].prod_num ELSE actions[t]]
       /\ tokens' = tokens \ {token}
  /\ UNCHANGED <<machine, k, Shift_reduce, Reduce_reduce>>

\* Mutant: the minus is forgotten.
LeastNumber(action, prod_num) == Min2(action, prod_num)

\* reduce_by = min(-(ap->do_this), item->prod_num)
ReduceBy(action, prod_num) == Min2(-action, prod_num)

\* A reduction is there.
ReduceReduce ==
  /\ \E token \in tokens :
       /\ IsNextToken(token)
       /\ token \in DOMAIN actions
       /\ actions[token] <= 0
       /\ actions' = [actions EXCEPT
                        ![token] = -ReduceBy(actions[token], machine.items[k].prod_num)]
       /\ tokens' = tokens \ {token}
  /\ Reduce_reduce' = Reduce_reduce + 1
  /\ UNCHANGED <<machine, k, Shift_reduce>>

\* Mutant: conflicts with a token that has a precedence are passed over in silence.
CountsIfNoLevel(item, token) == machine.Verbose > 0 \/ machine.level[token] = 0

\* Verbose > 0 || !resolved
CountsConflict(item, token) == machine.Verbose > 0 \/ ~Resolved(item, token)

\* A shift is there.
ShiftReduce ==
  /\ \E token \in tokens :
       LET item == machine.items[k]
       IN /\ IsNextToken(token)
          /\ token \in DOMAIN actions
          /\ actions[token] > 0
          /\ actions' = IF BeatsShift(item, token)
                        THEN [actions EXCEPT ![token] = -item.prod_num]
                        ELSE actions
          /\ Shift_reduce' = IF CountsConflict(item, token)
                             THEN Shift_reduce + 1
                             ELSE Shift_reduce
          /\ tokens' = tokens \ {token}
  /\ UNCHANGED <<machine, k, Reduce_reduce>>

\* On to the next item.
NextItem ==
  /\ tokens = {}
  /\ k <= Len(machine.items)
  /\ k' = k + 1
  /\ tokens' = LookaheadsOf(machine, k + 1)
  /\ UNCHANGED <<machine, actions, Shift_reduce, Reduce_reduce>>

Next ==
  \/ AddReduction
  \/ ReduceReduce
  \/ ShiftReduce
  \/ NextItem

Spec == Init /\ [][Next]_vars

----------------------------------------------------------------------------
(***************************************************************************)
(* Properties.                                                             *)
(***************************************************************************)
Done == k > Len(machine.items)

TypeOK ==
  /\ IsMachine(machine)
  /\ k \in 1 .. Len(machine.items) + 1
  /\ tokens \subseteq LookaheadsOf(machine, k)
  /\ DOMAIN actions \subseteq Tokens
  /\ \A token \in DOMAIN actions :
       \/ token \in DOMAIN machine.shifts /\ actions[token] = machine.shifts[token]
       \/ \E n \in DOMAIN machine.items : actions[token] = -machine.items[n].prod_num
  /\ Shift_reduce \in Nat
  /\ Reduce_reduce \in Nat

\* The items that reduce on a token, and the first of them that wins over a shift.
Reducing(token) ==
  {n \in 1 .. Len(machine.items) : token \in LookaheadsOf(machine, n)}

Winning(token) ==
  {n \in Reducing(token) :
     LET level == machine.level[token]
         prec  == machine.items[n].prec
     IN level # 0 /\ (prec > level \/ (prec = level /\ machine.assoc[token] = "l"))}

LeastProduction(positions) ==
  CHOOSE p \in {machine.items[n].prod_num : n \in positions} :
    \A n \in positions : p <= machine.items[n].prod_num

\* The action the disambiguating rules give a token: the smallest production where
\* nothing is shifted; the shift where no production wins over it; otherwise the smallest
\* among the first that wins and all that come after it, whether they would win or not.
Outcome(token) ==
  IF token \notin DOMAIN machine.shifts
  THEN -LeastProduction(Reducing(token))
  ELSE IF Winning(token) = {}
  THEN machine.shifts[token]
  ELSE -LeastProduction({n \in Reducing(token) : \E w \in Winning(token) : w <= n})

\* The finished row has an action for the tokens something shifts or reduces on, the one
\* the rules give. (reduce_one_item(), one item and one token at a time)
RowByRules ==
  Done =>
    /\ DOMAIN actions = DOMAIN machine.shifts \cup {t \in Tokens : Reducing(t) # {}}
    /\ \A token \in DOMAIN actions : actions[token] = Outcome(token)

\* What lr_conflicts() reports misses nothing but precedence: when it reports no conflict,
\* a token with several candidates has one shift, all its productions and the token have
\* precedences, and only the last production can have won.
NothingSilent ==
  Done /\ Shift_reduce + Reduce_reduce = 0 =>
    \A token \in Tokens :
      \/ Cardinality(Reducing(token)) <= 1 /\ token \notin DOMAIN machine.shifts
      \/ /\ machine.level[token] # 0 \/ Reducing(token) = {}
         /\ \A n \in Reducing(token) : machine.items[n].prec # 0
         /\ \A n \in Winning(token) : \A m \in Reducing(token) : m <= n
============================================================================
