---------------------------- MODULE ParserTables ----------------------------
(***************************************************************************)
(* What yyparse() is linked with: the tables make_parse_tables() and       *)
(* make_yy_lhs(), make_yy_reduce() print, and, for the properties only,    *)
(* the grammar they were made from.  A parser is a record                  *)
(*                                                                         *)
(*   Yy_action   state -> token -> n > 0: shift to state n; n <= 0: reduce *)
(*               by production -n; no entry: error                         *)
(*   Yy_goto     state -> nonterminal -> state                             *)
(*   Yy_lhs      production -> its left-hand side                          *)
(*   Yy_reduce   production -> number of symbols on its right-hand side    *)
(*                                                                         *)
(*   tokens      what yylex() may deliver, other than 0                    *)
(*   rhs         production -> its right-hand side                         *)
(*   items       state -> its LR(1) items <<production, dot, lookahead>>   *)
(*   accessing   state other than 0 -> the symbol its transitions are on   *)
(*   longest     length up to which the next three are complete            *)
(*   strings     symbol -> the token strings derived from it               *)
(*   after       production -> dot -> the token strings derived from what  *)
(*               is behind the dot                                         *)
(*   rank        symbol -> string -> height of a derivation                *)
(*   cost        state -> production it begins -> how many tokens end, if  *)
(*               need be, what the state began it for                      *)
(*   most        the largest of these, and of what ends an item            *)
(*   maxInput    length of the longest input considered                    *)
(***************************************************************************)
EXTENDS Integers, Sequences

YYF == 32767

\* A transition, by a shift or by the goto after a reduction.
Leads(P, m, sym, n) ==
  \/ sym \in DOMAIN P.Yy_goto[m] /\ n = P.Yy_goto[m][sym]
  \/ sym \in DOMAIN P.Yy_action[m] /\ n = P.Yy_action[m][sym] /\ n > 0

\* The tables by themselves: no entry is YYF, and production 0 is the goal symbol's only one.
TablesFit(P) ==
  /\ 0 \in DOMAIN P.Yy_action
  /\ DOMAIN P.Yy_action \subseteq 0 .. YYF - 1
  /\ DOMAIN P.Yy_goto = DOMAIN P.Yy_action
  /\ 0 \in DOMAIN P.Yy_reduce
  /\ DOMAIN P.Yy_reduce \subseteq Nat
  /\ \A p \in DOMAIN P.Yy_reduce :
       P.Yy_reduce[p] \in Nat /\ (P.Yy_lhs[p] = P.Yy_lhs[0] => p = 0)
  /\ P.tokens \subseteq Nat \ {0}
  /\ \A n \in DOMAIN P.Yy_action : \A token \in DOMAIN P.Yy_action[n] :
       \/ P.Yy_action[n][token] \in DOMAIN P.Yy_action \ {0} /\ token \in P.tokens
       \/ P.Yy_action[n][token] \in Int /\ -P.Yy_action[n][token] \in DOMAIN P.Yy_reduce
  /\ \A n \in DOMAIN P.Yy_goto : \A sym \in DOMAIN P.Yy_goto[n] :
       P.Yy_goto[n][sym] \in DOMAIN P.Yy_action \ {0} /\ sym \notin P.tokens

\* The tables are those of LR(0) item sets, whatever conflicts were resolved and however:
\* an item with the dot behind a symbol comes from the states before, a state with the dot
\* in front of a right-hand side goes on with its left-hand side, except for production 0,
\* which only state 0 begins, and a reduction is by an item with the dot at its end.
FollowsItems(P) ==
  /\ \A n \in DOMAIN P.Yy_action : \A item \in P.items[n] :
       /\ item[1] \in DOMAIN P.Yy_reduce
       /\ item[2] \in 0 .. P.Yy_reduce[item[1]]
       /\ n = 0 => item[2] = 0
       /\ item[2] = 0 =>
            IF item[1] = 0 THEN n = 0 ELSE P.Yy_lhs[item[1]] \in DOMAIN P.Yy_goto[n]
  /\ \A m, n \in DOMAIN P.Yy_action : \A sym \in DOMAIN P.strings :
       Leads(P, m, sym, n) =>
         /\ P.accessing[n] = sym
         /\ \A item \in P.items[n] : item[2] > 0 =>
              /\ P.rhs[item[1]][item[2]] = sym
              /\ \E before \in P.items[m] : before[1] = item[1] /\ before[2] = item[2] - 1
  /\ \A n \in DOMAIN P.Yy_action : \A token \in DOMAIN P.Yy_action[n] :
       P.Yy_action[n][token] <= 0 =>
         \E item \in P.items[n] :
           item[1] = -P.Yy_action[n][token] /\ item[2] = P.Yy_reduce[item[1]]

Joined(A, B, max) == {s \in {u \o v : u \in A, v \in B} : Len(s) <= max}

\* `after' a dot and `strings' have what a production derives,
DerivesForward(P, p) ==
  /\ P.Yy_lhs[p] \in DOMAIN P.strings \ P.tokens
  /\ P.after[p][P.Yy_reduce[p]] = {<<>>}
  /\ P.after[p][0] \subseteq P.strings[P.Yy_lhs[p]]
  /\ \A d \in 0 .. P.Yy_reduce[p] - 1 :
       /\ P.rhs[p][d + 1] \in DOMAIN P.strings
       /\ P.after[p][d] = Joined(P.strings[P.rhs[p][d + 1]], P.after[p][d + 1], P.longest)

\* and nothing that none derives: each string has a derivation whose first step leaves its
\* first symbol a lower one.
DerivedBy(P, A, s, p) ==
  /\ P.Yy_lhs[p] = A
  /\ s \in P.after[p][0]
  /\ P.Yy_reduce[p] > 0 =>
       \E u \in P.strings[P.rhs[p][1]], v \in P.after[p][1] :
         s = u \o v /\ P.rank[P.rhs[p][1]][u] < P.rank[A][s]

\* `strings' is what the productions derive, up to a length.
DerivesStrings(P) ==
  /\ P.longest \in Nat
  /\ \A X \in DOMAIN P.strings : \A s \in P.strings[X] :
       s \in Seq(P.tokens) /\ Len(s) <= P.longest /\ P.rank[X][s] \in Nat
  /\ \A token \in P.tokens : token \in DOMAIN P.strings /\ P.strings[token] = {<<token>>}
  /\ \A n \in DOMAIN P.Yy_goto : DOMAIN P.Yy_goto[n] \subseteq DOMAIN P.strings
  /\ \A p \in DOMAIN P.Yy_reduce : DerivesForward(P, p)
  /\ \A A \in DOMAIN P.strings \ P.tokens : \A s \in P.strings[A] :
       \E p \in DOMAIN P.Yy_reduce : DerivedBy(P, A, s, p)

IsParser(P) == TablesFit(P) /\ FollowsItems(P) /\ DerivesStrings(P)

\* The items are closed under the LR(1) rules, with 0 behind the goal symbol, and the
\* tables do all that they ask for: nothing was lost to a conflict.
ConflictFree(P) ==
  /\ <<0, 0, 0>> \in P.items[0]
  /\ \A n \in DOMAIN P.Yy_action : \A item \in P.items[n] :
       IF item[2] = P.Yy_reduce[item[1]]
       THEN item[3] \in P.tokens \cup {0} =>
              item[3] \in DOMAIN P.Yy_action[n] /\ P.Yy_action[n][item[3]] = -item[1]
       ELSE LET sym == P.rhs[item[1]][item[2] + 1]
            IN /\ \E m \in DOMAIN P.Yy_action :
                    Leads(P, n, sym, m) /\ <<item[1], item[2] + 1, item[3]>> \in P.items[m]
               /\ \A p \in DOMAIN P.Yy_reduce : \A s \in P.after[item[1]][item[2] + 1] :
                    P.Yy_lhs[p] = sym =>
                      <<p, 0, IF s = <<>> THEN item[3] ELSE s[1]>> \in P.items[n]

\* The parser accepts at the end of input and nowhere else.
AcceptsAtEnd(P) ==
  \A n \in DOMAIN P.Yy_action : \A token \in DOMAIN P.Yy_action[n] :
    P.Yy_action[n][token] = 0 => token \notin P.tokens

\* In state n, production p is begun for item: what is behind that one's next symbol, and
\* what the state began it for in turn, if it did, is no more than what p costs.
BegunFor(P, n, p, item) ==
  /\ item[2] < P.Yy_reduce[item[1]]
  /\ P.rhs[item[1]][item[2] + 1] = P.Yy_lhs[p]
  /\ \E s \in P.after[item[1]][item[2] + 1] :
       IF item[2] > 0 \/ item[1] = 0
       THEN Len(s) <= P.cost[n][p]
       ELSE Len(s) + P.cost[n][item[1]] < P.cost[n][p]

\* Every state can be left: all that is begun is begun for something, and ends.
CanFinish(P) ==
  /\ P.most \in Nat
  /\ \A n \in DOMAIN P.Yy_action :
       /\ \E item \in P.items[n] : \E s \in P.after[item[1]][item[2]] : Len(s) <= P.most
       /\ \A begun \in P.items[n] : begun[2] = 0 /\ begun[1] # 0 =>
            /\ P.cost[n][begun[1]] \in 0 .. P.most
            /\ \E item \in P.items[n] : BegunFor(P, n, begun[1], item)

\* All input up to a length.
Inputs(P) == UNION {[1 .. n -> P.tokens] : n \in 0 .. P.maxInput}
============================================================================
