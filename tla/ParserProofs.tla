---------------------------- MODULE ParserProofs ----------------------------
(***************************************************************************)
(* Proofs about yyparse(), for all tables made from item sets, every input *)
(* and every size of the stacks: the stacks stay in step through all       *)
(* recoveries, what is accepted without a message is a sentence, and, for  *)
(* tables without conflicts, a sentence gives no message and the first     *)
(* message comes at the first token that no sentence goes on with.         *)
(***************************************************************************)
EXTENDS Parser, SequenceTheorems, WellFoundedInduction, TLAPS

LEMMA LeastOne ==
  ASSUME NEW S \in SUBSET Nat, S # {}
  PROVE  \E n \in S : \A m \in S : n <= m
<1>. DEFINE R == {ss \in Nat \X Nat : ss[1] < ss[2]}
<1>1. IsWellFoundedOn(R, Nat)
  BY NatLessThanWellFounded DEF OpToRel
<1>2. PICK n \in S : \A m \in S : ~(<<m, n>> \in R)
  <2>1. S \subseteq Nat
    OBVIOUS
  <2>. HIDE DEF R
  <2>. QED
    BY <1>1, <2>1, WFMin
<1>3. \A m \in S : ~(m < n)
  BY <1>2
<1>. QED
  BY <1>3

\* Induction up to a number.
LEMMA UpTo ==
  ASSUME NEW n \in Nat, NEW S, 0 \in S, \A i \in S : i \in 0 .. n - 1 => i + 1 \in S
  PROVE  0 .. n \subseteq S
<1>. DEFINE Bad == {i \in 0 .. n : i \notin S}
<1>1. SUFFICES ASSUME Bad # {}
               PROVE  FALSE
  OBVIOUS
<1>2. PICK i \in Bad : \A j \in Bad : i <= j
  <2>1. Bad \in SUBSET Nat
    OBVIOUS
  <2>. HIDE DEF Bad
  <2>. QED
    BY <1>1, <2>1, LeastOne
<1>3. i - 1 \in 0 .. n - 1 /\ i - 1 \in 0 .. n /\ i - 1 + 1 = i /\ ~(i <= i - 1)
  OBVIOUS
<1>4. i - 1 \in S
  BY <1>2, <1>3
<1>5. i - 1 + 1 \in S
  BY <1>3, <1>4
<1>. QED
  BY <1>3, <1>5

----------------------------------------------------------------------------
(***************************************************************************)
(* Pieces of a sequence, named by the positions they end at.               *)
(***************************************************************************)
Piece(s, i, j) == SubSeq(s, i + 1, j)

LEMMA PieceFacts ==
  ASSUME NEW T, NEW s \in Seq(T), NEW i \in 0 .. Len(s), NEW j \in i .. Len(s)
  PROVE  /\ Piece(s, i, j) \in Seq(T)
         /\ Len(Piece(s, i, j)) = j - i
         /\ \A x \in 1 .. j - i : Piece(s, i, j)[x] = s[i + x]
<1>1. /\ i \in Int /\ j \in Int /\ i + 1 \in Int /\ Len(s) \in Nat
      /\ \A x \in i + 1 .. j : s[x] \in T
  BY LenProperties, ElementOfSeq
<1>2. /\ Piece(s, i, j) \in Seq(T)
      /\ Len(Piece(s, i, j)) = IF i + 1 <= j THEN j - (i + 1) + 1 ELSE 0
      /\ \A x \in 1 .. j - (i + 1) + 1 : Piece(s, i, j)[x] = s[i + 1 + x - 1]
  BY <1>1, SubSeqProperties DEF Piece
<1>. QED
  BY <1>1, <1>2

LEMMA PieceJoin ==
  ASSUME NEW T, NEW s \in Seq(T),
         NEW i \in 0 .. Len(s), NEW j \in i .. Len(s), NEW k \in j .. Len(s)
  PROVE  Piece(s, i, j) \o Piece(s, j, k) = Piece(s, i, k)
<1>1. Len(s) \in Nat /\ i + 1 \in 1 .. Len(s) + 1 /\ j \in (i + 1) - 1 .. Len(s)
  BY LenProperties
<1>. QED
  BY <1>1, ConcatAdjacentSubSeq DEF Piece

LEMMA PieceEmpty ==
  ASSUME NEW s, NEW i \in Int
  PROVE  Piece(s, i, i) = <<>>
  BY SubSeqEmpty DEF Piece

LEMMA PieceWhole ==
  ASSUME NEW T, NEW s \in Seq(T)
  PROVE  Piece(s, 0, Len(s)) = s
<1>1. 0 + 1 = 1
  OBVIOUS
<1>. QED
  BY <1>1, SubSeqFull DEF Piece

\* A piece only depends on what it consists of.
LEMMA PieceSame ==
  ASSUME NEW T, NEW s \in Seq(T), NEW t \in Seq(T), NEW i \in Nat, NEW j \in Nat,
         i <= j, j <= Len(s), j <= Len(t), \A x \in i + 1 .. j : s[x] = t[x]
  PROVE  Piece(s, i, j) = Piece(t, i, j)
<1>1. /\ Len(s) \in Nat /\ i \in 0 .. Len(s) /\ j \in i .. Len(s)
      /\ Len(t) \in Nat /\ i \in 0 .. Len(t) /\ j \in i .. Len(t)
  BY LenProperties
<1>2. /\ Piece(s, i, j) \in Seq(T) /\ Piece(t, i, j) \in Seq(T)
      /\ Len(Piece(s, i, j)) = j - i /\ Len(Piece(t, i, j)) = j - i
      /\ \A x \in 1 .. j - i : Piece(s, i, j)[x] = s[i + x] /\ Piece(t, i, j)[x] = t[i + x]
  BY <1>1, PieceFacts
<1>3. \A x \in 1 .. j - i : i + x \in i + 1 .. j
  OBVIOUS
<1>. QED
  BY <1>2, <1>3, SeqEqual

\* A piece of one element.
LEMMA PieceOne ==
  ASSUME NEW T, NEW s \in Seq(T), NEW i \in 0 .. Len(s) - 1, NEW j, j = i + 1
  PROVE  Piece(s, i, j) = <<s[j]>>
<1>1. /\ Len(s) \in Nat /\ i \in 0 .. Len(s) /\ j \in i .. Len(s) /\ j - i = 1
      /\ j \in 1 .. Len(s)
  BY LenProperties
<1>2. s[j] \in T
  BY <1>1, ElementOfSeq
<1>3. /\ Piece(s, i, j) \in Seq(T) /\ Len(Piece(s, i, j)) = j - i
      /\ \A x \in 1 .. j - i : Piece(s, i, j)[x] = s[i + x]
  BY <1>1, PieceFacts
<1>4. \A x \in 1 .. 1 : Piece(s, i, j)[x] = s[j]
  <2>1. \A x \in 1 .. 1 : x \in 1 .. j - i /\ i + x = j
    BY <1>1
  <2>. QED
    BY <1>3, <2>1
<1>5. <<s[j]>> \in Seq(T) /\ Len(<<s[j]>>) = 1 /\ \A x \in 1 .. 1 : <<s[j]>>[x] = s[j]
  BY <1>2
<1>. QED
  BY <1>1, <1>3, <1>4, <1>5, SeqEqual

\* s is u and then v.
Joins(s, u, v) == s = u \o v

\* Where a piece that is made of two divides.
LEMMA PieceSplit ==
  ASSUME NEW T, NEW s \in Seq(T), NEW i \in 0 .. Len(s), NEW j \in i .. Len(s),
         NEW u \in Seq(T), NEW v \in Seq(T), Joins(Piece(s, i, j), u, v)
  PROVE  /\ i + Len(u) \in i .. j
         /\ u = Piece(s, i, i + Len(u))
         /\ v = Piece(s, i + Len(u), j)
<1>. DEFINE k == i + Len(u)
<1>1. Len(s) \in Nat /\ Len(u) \in Nat /\ Len(v) \in Nat
  BY LenProperties
<1>2. /\ Len(u \o v) = Len(u) + Len(v)
      /\ \A x \in 1 .. Len(u) + Len(v) :
           (u \o v)[x] = IF x <= Len(u) THEN u[x] ELSE v[x - Len(u)]
  BY ConcatProperties
<1>3. /\ Len(Piece(s, i, j)) = j - i
      /\ \A x \in 1 .. j - i : Piece(s, i, j)[x] = s[i + x]
      /\ Piece(s, i, j) = u \o v
  BY PieceFacts DEF Joins
<1>4. k \in i .. j /\ Len(v) = j - k
  BY <1>1, <1>2, <1>3
<1>5. /\ Piece(s, i, k) \in Seq(T) /\ Len(Piece(s, i, k)) = Len(u)
      /\ \A x \in 1 .. Len(u) : Piece(s, i, k)[x] = s[i + x]
  <2>1. k \in i .. Len(s) /\ k - i = Len(u)
    BY <1>1, <1>4
  <2>. QED
    BY <2>1, PieceFacts
<1>6. /\ Piece(s, k, j) \in Seq(T) /\ Len(Piece(s, k, j)) = Len(v)
      /\ \A x \in 1 .. Len(v) : Piece(s, k, j)[x] = s[k + x]
  <2>1. k \in 0 .. Len(s) /\ j \in k .. Len(s)
    BY <1>1, <1>4
  <2>. QED
    BY <2>1, <1>4, PieceFacts
<1>7. \A x \in 1 .. Len(u) : u[x] = Piece(s, i, k)[x]
  BY <1>1, <1>2, <1>3, <1>4, <1>5
<1>8. \A x \in 1 .. Len(v) : v[x] = Piece(s, k, j)[x]
  <2>1. ASSUME NEW x \in 1 .. Len(v)
        PROVE  v[x] = Piece(s, k, j)[x]
    <3>1. Len(u) + x \in 1 .. Len(u) + Len(v) /\ ~(Len(u) + x <= Len(u))
          /\ Len(u) + x - Len(u) = x /\ Len(u) + x \in 1 .. j - i
          /\ i + (Len(u) + x) = k + x
      BY <1>1, <1>4
    <3>2. (u \o v)[Len(u) + x] = v[x]
      BY <3>1, <1>2
    <3>3. Piece(s, i, j)[Len(u) + x] = s[k + x]
      BY <3>1, <1>3
    <3>4. Piece(s, k, j)[x] = s[k + x]
      BY <1>6
    <3>. QED
      BY <1>3, <3>2, <3>3, <3>4
  <2>. QED
    BY <2>1
<1>9. u = Piece(s, i, k)
  BY <1>5, <1>7, SeqEqual
<1>10. v = Piece(s, k, j)
  BY <1>6, <1>8, SeqEqual
<1>. QED
  BY <1>4, <1>9, <1>10

----------------------------------------------------------------------------
(***************************************************************************)
(* The tables.                                                             *)
(***************************************************************************)
States(P) == DOMAIN P.Yy_action

LEMMA LeadsFacts ==
  ASSUME NEW P, IsParser(P), NEW m \in States(P), NEW sym, NEW n, Leads(P, m, sym, n)
  PROVE  /\ n \in States(P) \ {0}
         /\ sym \in DOMAIN P.strings
         /\ P.accessing[n] = sym
         /\ \A item \in P.items[n] : item[2] > 0 =>
              /\ P.rhs[item[1]][item[2]] = sym
              /\ \E before \in P.items[m] : before[1] = item[1] /\ before[2] = item[2] - 1
<1>1. n \in States(P) \ {0} /\ sym \in DOMAIN P.strings
  <2>1. CASE sym \in DOMAIN P.Yy_goto[m] /\ n = P.Yy_goto[m][sym]
    BY <2>1 DEF IsParser, TablesFit, DerivesStrings, States
  <2>2. CASE sym \in DOMAIN P.Yy_action[m] /\ n = P.Yy_action[m][sym] /\ n > 0
    <3>1. \/ n \in DOMAIN P.Yy_action \ {0} /\ sym \in P.tokens
          \/ n \in Int /\ -n \in DOMAIN P.Yy_reduce
      BY <2>2 DEF IsParser, TablesFit, States
    <3>2. ~(n \in Int /\ -n \in DOMAIN P.Yy_reduce)
      BY <2>2 DEF IsParser, TablesFit
    <3>. QED
      BY <3>1, <3>2 DEF IsParser, DerivesStrings, States
  <2>. QED
    BY <2>1, <2>2 DEF Leads
<1>. QED
  BY <1>1 DEF IsParser, FollowsItems, States

LEMMA ItemFacts ==
  ASSUME NEW P, IsParser(P), NEW n \in States(P), NEW item \in P.items[n]
  PROVE  /\ item[1] \in DOMAIN P.Yy_reduce
         /\ P.Yy_reduce[item[1]] \in Nat
         /\ item[2] \in 0 .. P.Yy_reduce[item[1]]
         /\ n = 0 => item[2] = 0
         /\ item[2] = 0 /\ item[1] = 0 => n = 0
         /\ item[2] = 0 /\ item[1] # 0 => P.Yy_lhs[item[1]] \in DOMAIN P.Yy_goto[n]
  BY DEF IsParser, FollowsItems, TablesFit, States

\* A stack of states from state 0 along transitions.
Path(P, stack, top) ==
  /\ stack[1] = 0
  /\ \A n \in 2 .. top : \E sym \in DOMAIN P.strings : Leads(P, stack[n - 1], sym, stack[n])

LEMMA PathFacts ==
  ASSUME NEW P, IsParser(P), NEW top \in Nat \ {0}, NEW stack, Path(P, stack, top),
         \A n \in 1 .. top : stack[n] \in States(P)
  PROVE  \A n \in 2 .. top : /\ stack[n] # 0
                             /\ Leads(P, stack[n - 1], P.accessing[stack[n]], stack[n])
                             /\ n - 1 \in 1 .. top
<1>. SUFFICES ASSUME NEW n \in 2 .. top
              PROVE  /\ stack[n] # 0
                     /\ Leads(P, stack[n - 1], P.accessing[stack[n]], stack[n])
                     /\ n - 1 \in 1 .. top
  OBVIOUS
<1>1. n - 1 \in 1 .. top
  OBVIOUS
<1>2. stack[n - 1] \in States(P)
  BY <1>1
<1>3. PICK sym \in DOMAIN P.strings : Leads(P, stack[n - 1], sym, stack[n])
  BY DEF Path
<1>4. stack[n] \in States(P) \ {0} /\ P.accessing[stack[n]] = sym
  BY <1>2, <1>3, LeadsFacts
<1>. QED
  BY <1>1, <1>3, <1>4

\* An item of the state on top whose dot is behind i symbols: the i states on top were
\* entered on these symbols, and the state below them has the item with the dot at its
\* start. So the stack is high enough for a reduction, and its goto is there.
LEMMA Backwards ==
  ASSUME NEW P, IsParser(P), NEW top \in Nat \ {0}, NEW stack, Path(P, stack, top),
         \A n \in 1 .. top : stack[n] \in States(P), NEW item \in P.items[stack[top]]
  PROVE  \A i \in 0 .. item[2] :
           /\ i < top
           /\ \E before \in P.items[stack[top - i]] :
                before[1] = item[1] /\ before[2] = item[2] - i
           /\ i < item[2] => P.accessing[stack[top - i]] = P.rhs[item[1]][item[2] - i]
<1>. DEFINE Holds(i) ==
       /\ i < top
       /\ \E before \in P.items[stack[top - i]] : before[1] = item[1] /\ before[2] = item[2] - i
       Entered(i) == i < item[2] => P.accessing[stack[top - i]] = P.rhs[item[1]][item[2] - i]
<1>1. item[2] \in Nat
  <2>1. stack[top] \in States(P)
    OBVIOUS
  <2>. QED
    BY <2>1, ItemFacts
<1>2. Holds(0)
  BY <1>1
\* A position with the item is not the first one as long as the dot is not at its start.
<1>3. ASSUME NEW i \in 0 .. item[2], Holds(i), i < item[2]
      PROVE  /\ top - i \in 2 .. top
             /\ Entered(i)
             /\ Holds(i + 1)
  <2>1. PICK before \in P.items[stack[top - i]] : before[1] = item[1] /\ before[2] = item[2] - i
    BY <1>3
  <2>2. top - i \in 1 .. top /\ i \in Nat
    BY <1>1, <1>3
  <2>3. stack[top - i] \in States(P) /\ before[2] > 0 /\ before[2] # 0
    BY <2>1, <2>2, <1>1, <1>3
  <2>4. stack[top - i] # 0
    BY <2>3, ItemFacts
  <2>5. top - i \in 2 .. top /\ top - i - 1 \in 1 .. top /\ top - i - 1 = top - (i + 1)
    BY <2>2, <2>4 DEF Path
  <2>6. /\ stack[top - i - 1] \in States(P)
        /\ Leads(P, stack[top - i - 1], P.accessing[stack[top - i]], stack[top - i])
    BY <2>5, PathFacts
  <2>7. /\ P.rhs[before[1]][before[2]] = P.accessing[stack[top - i]]
        /\ \E b \in P.items[stack[top - i - 1]] : b[1] = before[1] /\ b[2] = before[2] - 1
    BY <2>3, <2>6, LeadsFacts
  <2>8. before[2] - 1 = item[2] - (i + 1)
    BY <2>1, <2>2, <1>1
  <2>9. i + 1 < top
    BY <2>2, <2>5
  <2>. QED
    BY <2>1, <2>5, <2>7, <2>8, <2>9
<1>. HIDE DEF Holds, Entered
<1>4. \A i \in 0 .. item[2] : Holds(i)
  <2>. DEFINE Bad == {i \in 0 .. item[2] : ~Holds(i)}
  <2>1. SUFFICES ASSUME Bad # {}
                 PROVE  FALSE
    OBVIOUS
  <2>2. PICK i \in Bad : \A j \in Bad : i <= j
    <3>1. Bad \in SUBSET Nat
      BY <1>1
    <3>. HIDE DEF Bad
    <3>. QED
      BY <2>1, <3>1, LeastOne
  <2>3. i # 0 /\ i \in 0 .. item[2]
    BY <1>2
  <2>4. i - 1 \in 0 .. item[2] /\ i - 1 < item[2] /\ i - 1 + 1 = i /\ ~(i <= i - 1)
    BY <1>1, <2>3
  <2>5. Holds(i - 1)
    BY <2>2, <2>4
  <2>6. \A k \in 0 .. item[2] : Holds(k) /\ k < item[2] => Holds(k + 1)
    BY <1>3
  <2>7. Holds(i - 1 + 1)
    BY <2>4, <2>5, <2>6
  <2>. QED
    BY <2>4, <2>7
<1>. QED
  BY <1>3, <1>4 DEF Holds, Entered

----------------------------------------------------------------------------
(***************************************************************************)
(* The value stack beside the state stack.                                 *)
(***************************************************************************)

\* The values up to `top' are pieces of `held', which at[n] tokens of are on the stack up
\* to element n, and each is a string of the symbol of the state beside it.
Spells(P, stack, vstack, top, held, at) ==
  /\ held \in Seq(P.tokens)
  /\ Len(held) <= P.longest
  /\ at \in [1 .. top -> 0 .. Len(held)]
  /\ at[1] = 0
  /\ at[top] = Len(held)
  /\ \A n \in 2 .. top :
       /\ at[n - 1] <= at[n]
       /\ vstack[n] = Piece(held, at[n - 1], at[n])
       /\ vstack[n] \in P.strings[P.accessing[stack[n]]]

LEMMA SpellsOrder ==
  ASSUME NEW P, NEW top \in Nat \ {0}, NEW stack, NEW vstack, NEW held, NEW at,
         Spells(P, stack, vstack, top, held, at)
  PROVE  /\ Len(held) \in Nat
         /\ \A n \in 1 .. top : at[n] \in 0 .. Len(held) /\ at[n] \in Nat
         /\ \A n \in 2 .. top : n - 1 \in 1 .. top /\ at[n - 1] \in 0 .. at[n]
<1>1. Len(held) \in Nat
  BY LenProperties DEF Spells
<1>2. \A n \in 1 .. top : at[n] \in 0 .. Len(held) /\ at[n] \in Nat
  BY <1>1 DEF Spells
<1>3. ASSUME NEW n \in 2 .. top
      PROVE  n - 1 \in 1 .. top /\ at[n - 1] \in 0 .. at[n]
  <2>1. n - 1 \in 1 .. top /\ n \in 1 .. top
    OBVIOUS
  <2>2. at[n - 1] <= at[n]
    BY DEF Spells
  <2>. QED
    BY <1>2, <2>1, <2>2
<1>. QED
  BY <1>1, <1>2, <1>3

LEMMA SpellsMonotone ==
  ASSUME NEW P, NEW top \in Nat \ {0}, NEW stack, NEW vstack, NEW held, NEW at,
         Spells(P, stack, vstack, top, held, at), NEW m \in 1 .. top, NEW n \in m .. top
  PROVE  at[m] <= at[n]
<1>. DEFINE Bad == {x \in m .. top : ~(at[m] <= at[x])}
<1>0. /\ \A y \in 1 .. top : at[y] \in 0 .. Len(held) /\ at[y] \in Nat
      /\ \A y \in 2 .. top : y - 1 \in 1 .. top /\ at[y - 1] \in 0 .. at[y]
  BY SpellsOrder
<1>1. SUFFICES ASSUME Bad # {}
               PROVE  FALSE
  OBVIOUS
<1>2. PICK x \in Bad : \A y \in Bad : x <= y
  <2>1. Bad \in SUBSET Nat
    OBVIOUS
  <2>. HIDE DEF Bad
  <2>. QED
    BY <1>1, <2>1, LeastOne
<1>3. x \in m .. top /\ x # m
  <2>1. at[m] \in Nat
    BY <1>0
  <2>. QED
    BY <2>1
<1>4. x - 1 \in m .. top /\ ~(x <= x - 1) /\ x \in 2 .. top /\ x - 1 \in 1 .. top
  BY <1>3
<1>5. at[m] <= at[x - 1]
  BY <1>2, <1>4
<1>6. at[m] \in Nat /\ at[x - 1] \in 0 .. at[x] /\ at[x] \in Nat
  <2>1. x \in 1 .. top
    BY <1>4
  <2>. QED
    BY <1>0, <1>4, <2>1
<1>. QED
  BY <1>2, <1>5, <1>6

LEMMA JoinedFacts ==
  ASSUME NEW A, NEW B, NEW max
  PROVE  /\ \A u \in A, v \in B : Len(u \o v) <= max => u \o v \in Joined(A, B, max)
         /\ \A s \in Joined(A, B, max) : \E u \in A, v \in B : Joins(s, u, v)
  BY DEF Joined, Joins

LEMMA AfterFacts ==
  ASSUME NEW P, IsParser(P), NEW p \in DOMAIN P.Yy_reduce
  PROVE  /\ P.Yy_reduce[p] \in Nat
         /\ P.after[p][P.Yy_reduce[p]] = {<<>>}
         /\ \A d \in 0 .. P.Yy_reduce[p] - 1 :
              /\ P.rhs[p][d + 1] \in DOMAIN P.strings
              /\ \A u \in P.strings[P.rhs[p][d + 1]], v \in P.after[p][d + 1] :
                   Len(u \o v) <= P.longest => u \o v \in P.after[p][d]
              /\ \A s \in P.after[p][d] :
                   \E u \in P.strings[P.rhs[p][d + 1]], v \in P.after[p][d + 1] : Joins(s, u, v)
         /\ P.Yy_lhs[p] \in DOMAIN P.strings \ P.tokens
         /\ P.after[p][0] \subseteq P.strings[P.Yy_lhs[p]]
<1>1. DerivesForward(P, p)
  BY DEF IsParser, DerivesStrings
<1>2. P.Yy_reduce[p] \in Nat
  BY DEF IsParser, TablesFit
<1>3. ASSUME NEW d \in 0 .. P.Yy_reduce[p] - 1
      PROVE  /\ P.rhs[p][d + 1] \in DOMAIN P.strings
             /\ \A u \in P.strings[P.rhs[p][d + 1]], v \in P.after[p][d + 1] :
                  Len(u \o v) <= P.longest => u \o v \in P.after[p][d]
             /\ \A s \in P.after[p][d] :
                  \E u \in P.strings[P.rhs[p][d + 1]], v \in P.after[p][d + 1] : Joins(s, u, v)
  <2>. DEFINE U == P.strings[P.rhs[p][d + 1]]
              V == P.after[p][d + 1]
  <2>1. P.rhs[p][d + 1] \in DOMAIN P.strings /\ P.after[p][d] = Joined(U, V, P.longest)
    BY <1>1 DEF DerivesForward
  <2>. HIDE DEF U, V
  <2>2. \A u \in U, v \in V : Len(u \o v) <= P.longest => u \o v \in P.after[p][d]
    BY <2>1, JoinedFacts
  <2>3. \A s \in P.after[p][d] : \E u \in U, v \in V : Joins(s, u, v)
    BY <2>1, JoinedFacts
  <2>. QED
    BY <2>1, <2>2, <2>3 DEF U, V
<1>4. /\ P.after[p][P.Yy_reduce[p]] = {<<>>}
      /\ P.Yy_lhs[p] \in DOMAIN P.strings \ P.tokens
      /\ P.after[p][0] \subseteq P.strings[P.Yy_lhs[p]]
  BY <1>1 DEF DerivesForward
<1>. QED
  BY <1>2, <1>3, <1>4

\* What is behind a dot stands for strings of tokens.
LEMMA AfterStrings ==
  ASSUME NEW P, IsParser(P), NEW p \in DOMAIN P.Yy_reduce, NEW d \in 0 .. P.Yy_reduce[p]
  PROVE  P.after[p][d] \subseteq Seq(P.tokens)
<1>. DEFINE n == P.Yy_reduce[p]
            S == {i \in 0 .. n : P.after[p][n - i] \subseteq Seq(P.tokens)}
<1>1. n \in Nat /\ P.after[p][n] = {<<>>}
  BY AfterFacts
<1>2. 0 \in S
  <2>1. n - 0 = n /\ 0 \in 0 .. n
    BY <1>1
  <2>2. {<<>>} \subseteq Seq(P.tokens)
    BY EmptySeq
  <2>3. P.after[p][n] \subseteq Seq(P.tokens)
    BY <1>1, <2>2
  <2>. QED
    BY <2>1, <2>3
<1>3. ASSUME NEW i \in S, i \in 0 .. n - 1
      PROVE  i + 1 \in S
  <2>. DEFINE e == n - (i + 1)
  <2>1. e \in 0 .. n - 1 /\ e + 1 = n - i /\ i + 1 \in 0 .. n
    BY <1>1, <1>3
  <2>2. P.after[p][e + 1] \subseteq Seq(P.tokens)
    BY <1>3, <2>1
  <2>. HIDE DEF e
  <2>3. /\ P.rhs[p][e + 1] \in DOMAIN P.strings
        /\ \A t \in P.after[p][e] :
             \E u \in P.strings[P.rhs[p][e + 1]], v \in P.after[p][e + 1] : Joins(t, u, v)
    BY <2>1, AfterFacts
  <2>4. P.strings[P.rhs[p][e + 1]] \subseteq Seq(P.tokens)
    BY <2>3 DEF IsParser, DerivesStrings
  <2>5. P.after[p][e] \subseteq Seq(P.tokens)
    <3>1. \A u \in Seq(P.tokens), v \in Seq(P.tokens) : u \o v \in Seq(P.tokens)
      BY ConcatProperties
    <3>2. ASSUME NEW t \in P.after[p][e]
          PROVE  t \in Seq(P.tokens)
      <4>1. PICK u \in P.strings[P.rhs[p][e + 1]], v \in P.after[p][e + 1] : Joins(t, u, v)
        BY <2>3
      <4>2. u \in Seq(P.tokens) /\ v \in Seq(P.tokens)
        BY <2>2, <2>4
      <4>. QED
        BY <3>1, <4>1, <4>2 DEF Joins
    <3>. QED
      BY <3>2
  <2>. QED
    BY <2>1, <2>5 DEF e
<1>4. 0 .. n \subseteq S
  <2>. HIDE DEF S
  <2>. QED
    BY <1>1, <1>2, <1>3, UpTo
<1>5. n - d \in 0 .. n /\ n - (n - d) = d
  BY <1>1
<1>6. P.after[p][n - (n - d)] \subseteq Seq(P.tokens)
  BY <1>4, <1>5
<1>. QED
  BY <1>5, <1>6

\* Positions next to each other.
LEMMA StepBack ==
  ASSUME NEW x \in Nat, NEW z \in Nat, x <= z, NEW y \in 0 .. x - 1
  PROVE  /\ y + 1 \in 0 .. x /\ x - y - 1 \in 0 .. z - 1 /\ x - y - 1 + 1 = x - y
         /\ x - (y + 1) = x - y - 1 /\ y \in 0 .. x /\ y < x
  OBVIOUS

\* Folded up: the provers go round in an equation like this.
Associative(T) ==
  \A r \in Seq(T), s \in Seq(T), t \in Seq(T) : (r \o s) \o t = r \o (s \o t)

LEMMA ConcatIsAssociative ==
  ASSUME NEW T
  PROVE  Associative(T)
  BY ConcatAssociative DEF Associative

\* Where the dot of an item is: w is a string of what is behind the dot, and with the values
\* of what is in front of it a string of the right-hand side.
LEMMA HandleSoFar ==
  ASSUME NEW P, IsParser(P), NEW top \in Nat \ {0}, NEW stack, Path(P, stack, top),
         \A n \in 1 .. top : stack[n] \in States(P),
         NEW vstack, NEW held, NEW at, Spells(P, stack, vstack, top, held, at),
         NEW m \in 1 .. top, NEW item \in P.items[stack[m]],
         NEW w \in P.after[item[1]][item[2]], at[m] + Len(w) <= P.longest
  PROVE  /\ m - item[2] \in 1 .. m
         /\ Piece(held, at[m - item[2]], at[m]) \o w \in P.after[item[1]][0]
<1>. DEFINE p == item[1]
            k == item[2]
            S == {i \in 0 .. k : Piece(held, at[m - i], at[m]) \o w \in P.after[p][k - i]}
<1>1. /\ p \in DOMAIN P.Yy_reduce /\ k \in Nat /\ k \in 0 .. P.Yy_reduce[p]
      /\ P.Yy_reduce[p] \in Nat /\ m \in Nat \ {0} /\ P.longest \in Nat
  <2>1. stack[m] \in States(P)
    OBVIOUS
  <2>. QED
    BY <2>1, ItemFacts DEF IsParser, DerivesStrings
<1>2. /\ Len(held) \in Nat /\ held \in Seq(P.tokens)
      /\ \A n \in 1 .. top : at[n] \in 0 .. Len(held) /\ at[n] \in Nat
      /\ \A n \in 2 .. top : n - 1 \in 1 .. top /\ at[n - 1] \in 0 .. at[n]
      /\ \A n \in 1 .. m : at[n] <= at[m] /\ n \in 1 .. top
  <2>1. ASSUME NEW n \in 1 .. m
        PROVE  at[n] <= at[m] /\ n \in 1 .. top
    <3>1. n \in 1 .. top /\ m \in n .. top
      BY <1>1
    <3>. QED
      BY <3>1, SpellsMonotone
  <2>. QED
    BY <2>1, SpellsOrder DEF Spells
<1>3. /\ \A i \in 0 .. k : i < m
      /\ \A i \in 0 .. k : i < k => P.accessing[stack[m - i]] = P.rhs[p][k - i]
  <2>1. (\A n \in 1 .. m : n \in 1 .. top) /\ \A n \in 2 .. m : n \in 2 .. top
    BY <1>1
  <2>2. Path(P, stack, m) /\ \A n \in 1 .. m : stack[n] \in States(P)
    BY <2>1 DEF Path
  <2>. QED
    BY <1>1, <2>2, Backwards
<1>4. w \in Seq(P.tokens) /\ Len(w) \in Nat
  BY <1>1, AfterStrings, LenProperties
<1>5. 0 \in S
  <2>1. Piece(held, at[m], at[m]) = <<>>
    BY <1>2, PieceEmpty
  <2>2. m - 0 = m /\ k - 0 = k /\ 0 \in 0 .. k /\ <<>> \o w = w
    BY <1>1, <1>4, ConcatEmptySeq
  <2>. QED
    BY <2>1, <2>2
<1>. HIDE DEF S
<1>6. \A x \in 0 .. Len(held) : \A y \in x .. Len(held) :
       /\ Piece(held, x, y) \in Seq(P.tokens)
       /\ Len(Piece(held, x, y)) = y - x
       /\ \A z \in y .. Len(held) : Piece(held, x, y) \o Piece(held, y, z) = Piece(held, x, z)
  <2>1. \A x \in 0 .. Len(held) : \A y \in x .. Len(held) :
          Piece(held, x, y) \in Seq(P.tokens) /\ Len(Piece(held, x, y)) = y - x
    BY <1>2, PieceFacts
  <2>2. \A x \in 0 .. Len(held) : \A y \in x .. Len(held) : \A z \in y .. Len(held) :
          Piece(held, x, y) \o Piece(held, y, z) = Piece(held, x, z)
    BY <1>2, PieceJoin
  <2>. QED
    BY <2>1, <2>2
<1>7. Associative(P.tokens)
  BY ConcatIsAssociative
<1>8. ASSUME NEW i \in 0 .. k - 1, i \in S
      PROVE  i + 1 \in S
  <2>. DEFINE n == m - i
              rest1 == Piece(held, at[n], at[m]) \o w
  <2>1. i + 1 \in 0 .. k /\ k - i - 1 \in 0 .. P.Yy_reduce[p] - 1 /\ k - i - 1 + 1 = k - i
        /\ k - (i + 1) = k - i - 1 /\ i \in 0 .. k /\ i < k
    <3>1. k <= P.Yy_reduce[p]
      BY <1>1
    <3>. QED
      BY <1>1, <3>1, StepBack
  <2>2. n \in 2 .. m /\ n - 1 = m - (i + 1) /\ n \in 1 .. m /\ n - 1 \in 1 .. m /\ n \in 2 .. top
    <3>1. i + 1 < m /\ m <= top /\ i \in Nat
      BY <1>3, <2>1
    <3>2. ASSUME NEW x \in Nat, x + 1 < m
          PROVE  /\ m - x \in 2 .. m /\ m - x - 1 = m - (x + 1) /\ m - x \in 1 .. m
                 /\ m - x - 1 \in 1 .. m /\ (m <= top => m - x \in 2 .. top)
      BY <1>1, <3>2
    <3>. QED
      BY <3>1, <3>2
  <2>3. P.accessing[stack[n]] = P.rhs[p][k - i]
    BY <1>3, <2>1
  <2>4. vstack[n] \in P.strings[P.rhs[p][k - i]] /\ vstack[n] = Piece(held, at[n - 1], at[n])
    BY <2>2, <2>3 DEF Spells
  <2>5. rest1 \in P.after[p][k - i]
    BY <1>8 DEF S
  <2>. HIDE DEF n
  <2>6. /\ at[n - 1] \in 0 .. Len(held) /\ at[n] \in at[n - 1] .. Len(held)
        /\ at[m] \in at[n] .. Len(held) /\ at[m] \in at[n - 1] .. Len(held)
        /\ at[n] \in 0 .. Len(held)
    BY <1>2, <2>2
  <2>7. /\ Piece(held, at[n - 1], at[n]) \in Seq(P.tokens)
        /\ Piece(held, at[n], at[m]) \in Seq(P.tokens)
        /\ Piece(held, at[n - 1], at[m]) \in Seq(P.tokens)
        /\ Len(Piece(held, at[n - 1], at[m])) = at[m] - at[n - 1]
        /\ Piece(held, at[n - 1], at[n]) \o Piece(held, at[n], at[m]) = Piece(held, at[n - 1], at[m])
    BY <1>6, <2>6
  <2>8. vstack[n] \o rest1 = Piece(held, at[n - 1], at[m]) \o w
    <3>. DEFINE A == Piece(held, at[n - 1], at[n])
                B == Piece(held, at[n], at[m])
    <3>1. A \in Seq(P.tokens) /\ B \in Seq(P.tokens)
      BY <2>7
    <3>2. A \o (B \o w) = (A \o B) \o w
      BY <1>4, <1>7, <3>1, Zenon DEF Associative
    <3>. QED
      BY <2>4, <2>7, <3>2
  <2>9. Len(vstack[n] \o rest1) <= P.longest
    <3>1. Len(Piece(held, at[n - 1], at[m]) \o w) = at[m] - at[n - 1] + Len(w)
      BY <1>4, <2>7, ConcatProperties
    <3>2. at[n - 1] \in Nat /\ at[m] \in Nat
      BY <1>2, <2>2
    <3>. QED
      BY <1>1, <1>4, <2>8, <3>1, <3>2
  <2>10. \A u \in P.strings[P.rhs[p][k - i]], v \in P.after[p][k - i] :
           Len(u \o v) <= P.longest => u \o v \in P.after[p][k - i - 1]
    BY <1>1, <2>1, AfterFacts
  <2>11. vstack[n] \o rest1 \in P.after[p][k - i - 1]
    BY <2>4, <2>5, <2>9, <2>10
  <2>. QED
    BY <2>1, <2>2, <2>8, <2>11 DEF S
<1>9. k \in S
  <2>1. 0 .. k \subseteq S
    BY <1>1, <1>5, <1>8, UpTo
  <2>. QED
    BY <1>1, <2>1
<1>10. k - k = 0 /\ m - k \in 1 .. m
  BY <1>1, <1>3
<1>. QED
  BY <1>9, <1>10 DEF S

\* What a right-hand side on top of the stack stands for is a string of its left-hand side.
LEMMA Handle ==
  ASSUME NEW P, IsParser(P), NEW top \in Nat \ {0}, NEW stack, Path(P, stack, top),
         \A n \in 1 .. top : stack[n] \in States(P), NEW item \in P.items[stack[top]],
         item[2] = P.Yy_reduce[item[1]],
         NEW vstack, NEW held, NEW at, Spells(P, stack, vstack, top, held, at)
  PROVE  /\ top - item[2] \in 1 .. top
         /\ Piece(held, at[top - item[2]], Len(held)) \in P.after[item[1]][0]
<1>1. item[1] \in DOMAIN P.Yy_reduce
  <2>1. stack[top] \in States(P)
    OBVIOUS
  <2>. QED
    BY <2>1, ItemFacts
<1>2. <<>> \in P.after[item[1]][item[2]]
  <2>1. P.after[item[1]][P.Yy_reduce[item[1]]] = {<<>>}
    BY <1>1, AfterFacts
  <2>. QED
    BY <2>1
<1>3. /\ top \in 1 .. top /\ at[top] = Len(held) /\ Len(held) \in Nat /\ Len(<<>>) = 0
      /\ Len(held) <= P.longest /\ held \in Seq(P.tokens)
      /\ at[top] + Len(<<>>) <= P.longest
  BY SpellsOrder DEF Spells
<1>4. /\ top - item[2] \in 1 .. top
      /\ Piece(held, at[top - item[2]], at[top]) \o <<>> \in P.after[item[1]][0]
  BY <1>2, <1>3, HandleSoFar
<1>5. Piece(held, at[top - item[2]], at[top]) \in Seq(P.tokens)
  <2>1. at[top - item[2]] \in 0 .. Len(held)
    BY <1>4, SpellsOrder
  <2>2. Len(held) \in at[top - item[2]] .. Len(held)
    BY <1>3, <2>1
  <2>3. \A x \in 0 .. Len(held) : \A y \in x .. Len(held) : Piece(held, x, y) \in Seq(P.tokens)
    BY <1>3, PieceFacts
  <2>. QED
    BY <1>3, <2>1, <2>2, <2>3
<1>6. Piece(held, at[top - item[2]], at[top]) \o <<>> = Piece(held, at[top - item[2]], at[top])
  BY <1>5, ConcatEmptySeq
<1>. QED
  BY <1>3, <1>4, <1>6

----------------------------------------------------------------------------
(***************************************************************************)
(* A stack with another element pushed above element `base', and a stack   *)
(* cut off.                                                                *)
(***************************************************************************)
OnStack(P, stack, vstack, top, held, at) ==
  /\ top \in Elements
  /\ stack \in [Elements -> States(P)]
  /\ DOMAIN vstack = Elements
  /\ Path(P, stack, top)
  /\ Spells(P, stack, vstack, top, held, at)

LEMMA ElementsFacts ==
  /\ YYMAXDEPTH \in Nat \ {0}
  /\ \A top \in Elements : /\ top \in Nat \ {0}
                           /\ \A n \in 1 .. top : n \in Elements
                           /\ \A n \in 2 .. top : n \in 1 .. top /\ n - 1 \in 1 .. top
                                                  /\ n \in Elements /\ n - 1 \in Elements
  BY LimitsAssumption DEF Elements

LEMMA Push ==
  ASSUME NEW P, IsParser(P), NEW stack, NEW vstack, NEW top, NEW held, NEW at,
         OnStack(P, stack, vstack, top, held, at),
         NEW base \in 1 .. top, base + 1 \in Elements,
         NEW sym, NEW n, Leads(P, stack[base], sym, n),
         NEW held2 \in Seq(P.tokens), Len(held2) <= P.longest, at[base] <= Len(held2),
         \A x \in 1 .. at[base] : held2[x] = held[x],
         NEW value \in P.strings[sym], value = Piece(held2, at[base], Len(held2))
  PROVE  \E at2 : OnStack(P, [stack EXCEPT ![base + 1] = n], [vstack EXCEPT ![base + 1] = value],
                          base + 1, held2, at2)
<1>. DEFINE stack2 == [stack EXCEPT ![base + 1] = n]
            vstack2 == [vstack EXCEPT ![base + 1] = value]
            at2 == [x \in 1 .. base + 1 |-> IF x = base + 1 THEN Len(held2) ELSE at[x]]
<1>1. /\ top \in Nat \ {0} /\ base \in Nat \ {0} /\ base \in Elements
      /\ stack \in [Elements -> States(P)] /\ stack[base] \in States(P)
      /\ Path(P, stack, top) /\ Spells(P, stack, vstack, top, held, at)
      /\ DOMAIN vstack = Elements
  BY ElementsFacts DEF OnStack
<1>2. n \in States(P) /\ sym \in DOMAIN P.strings /\ P.accessing[n] = sym
  BY <1>1, LeadsFacts
<1>3. /\ Len(held) \in Nat /\ Len(held2) \in Nat
      /\ \A x \in 1 .. top : at[x] \in 0 .. Len(held) /\ at[x] \in Nat
      /\ \A x \in 2 .. top : x - 1 \in 1 .. top /\ at[x - 1] \in 0 .. at[x]
      /\ \A x \in 1 .. base : at[x] <= at[base]
  <2>1. /\ Len(held) \in Nat /\ Len(held2) \in Nat
        /\ \A x \in 1 .. top : at[x] \in 0 .. Len(held) /\ at[x] \in Nat
        /\ \A x \in 2 .. top : x - 1 \in 1 .. top /\ at[x - 1] \in 0 .. at[x]
    BY <1>1, SpellsOrder, LenProperties
  <2>2. ASSUME NEW x \in 1 .. base
        PROVE  at[x] <= at[base]
    <3>1. x \in 1 .. top /\ base \in x .. top
      BY <1>1
    <3>. QED
      BY <1>1, <3>1, SpellsMonotone
  <2>. QED
    BY <2>1, <2>2
<1>4. /\ stack2 \in [Elements -> States(P)] /\ DOMAIN vstack2 = Elements
      /\ stack2[base + 1] = n /\ vstack2[base + 1] = value
      /\ \A x \in 1 .. base : stack2[x] = stack[x] /\ vstack2[x] = vstack[x]
                              /\ x \in Elements /\ x \in 1 .. top
  <2>1. \A x \in 1 .. base : x # base + 1 /\ x \in Elements /\ x \in 1 .. top
    BY <1>1, ElementsFacts
  <2>. QED
    BY <1>1, <1>2, <2>1
<1>5. /\ \A x \in 1 .. base : at2[x] = at[x]
      /\ at2[base + 1] = Len(held2)
  BY <1>1
<1>6. \A x \in 2 .. base + 1 :
        \/ x \in 2 .. base /\ x - 1 \in 1 .. base /\ x \in 1 .. base /\ x \in 2 .. top
        \/ x = base + 1 /\ x - 1 = base /\ base \in 1 .. base
  BY <1>1
<1>. HIDE DEF stack2, vstack2
<1>7. Path(P, stack2, base + 1)
  <2>1. stack2[1] = 0
    BY <1>1, <1>4 DEF Path
  <2>2. ASSUME NEW x \in 2 .. base + 1
        PROVE  \E s \in DOMAIN P.strings : Leads(P, stack2[x - 1], s, stack2[x])
    <3>1. CASE x = base + 1
      BY <3>1, <1>2, <1>4, <1>6
    <3>2. CASE x # base + 1
      <4>1. x \in 2 .. base /\ x - 1 \in 1 .. base /\ x \in 1 .. base /\ x \in 2 .. top
        BY <1>6, <3>2
      <4>2. stack2[x - 1] = stack[x - 1] /\ stack2[x] = stack[x]
        BY <1>4, <4>1
      <4>. QED
        BY <1>1, <4>1, <4>2 DEF Path
    <3>. QED
      BY <3>1, <3>2
  <2>. QED
    BY <2>1, <2>2 DEF Path
<1>8. Spells(P, stack2, vstack2, base + 1, held2, at2)
  <2>1. at2 \in [1 .. base + 1 -> 0 .. Len(held2)]
    <3>1. ASSUME NEW x \in 1 .. base + 1
          PROVE  (IF x = base + 1 THEN Len(held2) ELSE at[x]) \in 0 .. Len(held2)
      <4>1. CASE x = base + 1
        BY <1>3, <4>1
      <4>2. CASE x # base + 1
        <5>1. x \in 1 .. base /\ x \in 1 .. top /\ base \in 1 .. top
          BY <1>1, <4>2
        <5>2. at[x] \in Nat /\ at[base] \in Nat /\ at[x] <= at[base]
          BY <1>3, <5>1
        <5>. QED
          BY <1>3, <4>2, <5>2
      <4>. QED
        BY <4>1, <4>2
    <3>. QED
      BY <3>1
  <2>2. at2[1] = 0
    BY <1>1, <1>5 DEF Spells
  <2>. HIDE DEF at2
  <2>3. ASSUME NEW x \in 2 .. base + 1
        PROVE  /\ at2[x - 1] <= at2[x]
               /\ vstack2[x] = Piece(held2, at2[x - 1], at2[x])
               /\ vstack2[x] \in P.strings[P.accessing[stack2[x]]]
    <3>1. CASE x = base + 1
      BY <3>1, <1>2, <1>4, <1>5, <1>6
    <3>2. CASE x # base + 1
      <4>1. x \in 2 .. base /\ x - 1 \in 1 .. base /\ x \in 1 .. base /\ x \in 2 .. top
        BY <1>6, <3>2
      <4>2. /\ stack2[x] = stack[x] /\ vstack2[x] = vstack[x]
            /\ at2[x - 1] = at[x - 1] /\ at2[x] = at[x]
        BY <1>4, <1>5, <4>1
      <4>3. /\ at[x - 1] <= at[x] /\ vstack[x] = Piece(held, at[x - 1], at[x])
            /\ vstack[x] \in P.strings[P.accessing[stack[x]]]
        BY <1>1, <4>1 DEF Spells
      <4>4. Piece(held, at[x - 1], at[x]) = Piece(held2, at[x - 1], at[x])
        <5>1. x \in 1 .. top /\ x - 1 \in 1 .. top /\ base \in 1 .. top
          BY <1>1, <4>1
        <5>2. /\ at[x - 1] \in Nat /\ at[x] \in Nat /\ at[base] \in Nat
              /\ at[x] <= at[base] /\ at[x] <= Len(held)
          BY <1>3, <4>1, <5>1
        <5>3. at[x] <= Len(held2) /\ \A y \in at[x - 1] + 1 .. at[x] : y \in 1 .. at[base]
          BY <1>3, <5>2
        <5>4. held \in Seq(P.tokens)
          BY <1>1 DEF Spells
        <5>5. ASSUME NEW i \in Nat, NEW j \in Nat, i <= j, j <= Len(held), j <= Len(held2),
                     \A y \in i + 1 .. j : held[y] = held2[y]
              PROVE  Piece(held, i, j) = Piece(held2, i, j)
          BY <5>4, <5>5, PieceSame
        <5>. QED
          BY <4>3, <5>2, <5>3, <5>5
      <4>. QED
        BY <4>2, <4>3, <4>4
    <3>. QED
      BY <3>1, <3>2
  <2>. QED
    BY <1>5, <2>1, <2>2, <2>3 DEF Spells
<1>9. OnStack(P, stack2, vstack2, base + 1, held2, at2)
  BY <1>4, <1>7, <1>8 DEF OnStack
<1>. QED
  BY <1>9 DEF stack2, vstack2

LEMMA CutOff ==
  ASSUME NEW P, IsParser(P), NEW stack, NEW vstack, NEW top, NEW held, NEW at,
         OnStack(P, stack, vstack, top, held, at), NEW base \in 1 .. top
  PROVE  \E held2, at2 : OnStack(P, stack, vstack, base, held2, at2) /\ Len(held2) <= Len(held)
<1>. DEFINE held2 == Piece(held, 0, at[base])
            at2 == [x \in 1 .. base |-> at[x]]
<1>1. /\ top \in Nat \ {0} /\ base \in Nat \ {0} /\ base \in Elements
      /\ Path(P, stack, top) /\ Spells(P, stack, vstack, top, held, at)
      /\ held \in Seq(P.tokens) /\ Len(held) <= P.longest /\ P.longest \in Nat
  BY ElementsFacts DEF OnStack, Spells, IsParser, DerivesStrings
<1>2. /\ Len(held) \in Nat
      /\ \A x \in 1 .. top : at[x] \in 0 .. Len(held) /\ at[x] \in Nat
      /\ \A x \in 2 .. top : x - 1 \in 1 .. top /\ at[x - 1] \in 0 .. at[x]
  BY <1>1, SpellsOrder
<1>3. \A x \in 1 .. base : at[x] <= at[base] /\ x \in 1 .. top
  <2>1. ASSUME NEW x \in 1 .. base
        PROVE  at[x] <= at[base] /\ x \in 1 .. top
    <3>1. x \in 1 .. top /\ base \in x .. top
      BY <1>1
    <3>. QED
      BY <1>1, <3>1, SpellsMonotone
  <2>. QED
    BY <2>1
<1>4. /\ held2 \in Seq(P.tokens) /\ Len(held2) = at[base]
      /\ \A x \in 1 .. at[base] : held2[x] = held[x]
  <2>1. at[base] \in 0 .. Len(held) /\ 0 \in 0 .. Len(held)
    BY <1>2
  <2>2. \A j \in 0 .. Len(held) : /\ Piece(held, 0, j) \in Seq(P.tokens)
                                  /\ Len(Piece(held, 0, j)) = j - 0
                                  /\ \A x \in 1 .. j - 0 : Piece(held, 0, j)[x] = held[0 + x]
    BY <1>1, <2>1, PieceFacts
  <2>3. at[base] - 0 = at[base] /\ \A x \in 1 .. at[base] : 0 + x = x
    BY <2>1
  <2>. QED
    BY <2>1, <2>2, <2>3
<1>. HIDE DEF held2
<1>5. Path(P, stack, base)
  BY <1>1 DEF Path
<1>6. Spells(P, stack, vstack, base, held2, at2)
  <2>1. at2 \in [1 .. base -> 0 .. Len(held2)]
    <3>1. \A x \in 1 .. base : at[x] \in 0 .. at[base]
      BY <1>2, <1>3
    <3>. QED
      BY <1>4, <3>1
  <2>2. at2[1] = 0 /\ at2[base] = Len(held2) /\ Len(held2) <= P.longest
    BY <1>1, <1>2, <1>4 DEF Spells
  <2>3. \A x \in 1 .. base : at2[x] = at[x]
    OBVIOUS
  <2>. HIDE DEF at2
  <2>4. ASSUME NEW x \in 2 .. base
        PROVE  /\ at2[x - 1] <= at2[x]
               /\ vstack[x] = Piece(held2, at2[x - 1], at2[x])
               /\ vstack[x] \in P.strings[P.accessing[stack[x]]]
    <3>1. x \in 1 .. base /\ x - 1 \in 1 .. base /\ x \in 2 .. top
      BY <1>1
    <3>2. at2[x - 1] = at[x - 1] /\ at2[x] = at[x]
      BY <2>3, <3>1
    <3>3. /\ at[x - 1] <= at[x] /\ vstack[x] = Piece(held, at[x - 1], at[x])
          /\ vstack[x] \in P.strings[P.accessing[stack[x]]]
      BY <1>1, <3>1 DEF Spells
    <3>4. Piece(held, at[x - 1], at[x]) = Piece(held2, at[x - 1], at[x])
      <4>1. /\ at[x - 1] \in Nat /\ at[x] \in Nat /\ at[x] <= Len(held) /\ at[x] <= Len(held2)
        BY <1>2, <1>3, <1>4, <3>1
      <4>2. \A y \in at[x - 1] + 1 .. at[x] : y \in 1 .. at[base]
        BY <1>2, <1>3, <3>1, <4>1
      <4>. QED
        BY <1>1, <1>4, <3>3, <4>1, <4>2, PieceSame
    <3>. QED
      BY <3>2, <3>3, <3>4
  <2>. QED
    BY <1>4, <2>1, <2>2, <2>4 DEF Spells
<1>7. Len(held2) <= Len(held)
  BY <1>2, <1>4
<1>8. OnStack(P, stack, vstack, base, held2, at2)
  BY <1>1, <1>5, <1>6 DEF OnStack
<1>. QED
  BY <1>7, <1>8

----------------------------------------------------------------------------
(***************************************************************************)
(* What yy_next() finds.                                                   *)
(***************************************************************************)
LEMMA EntryFacts ==
  ASSUME NEW P, IsParser(P), NEW n \in States(P), NEW token
  PROVE  LET act == yy_next(P.Yy_action, n, token)
         IN /\ act \in Int
            /\ act = YYF <=> token \notin DOMAIN P.Yy_action[n]
            /\ token \in DOMAIN P.Yy_action[n] => act = P.Yy_action[n][token]
            /\ act # YYF /\ act > 0 => Leads(P, n, token, act) /\ token \in P.tokens
            /\ act <= 0 =>
                 /\ -act \in DOMAIN P.Yy_reduce
                 /\ \E item \in P.items[n] : item[1] = -act /\ item[2] = P.Yy_reduce[item[1]]
<1>. DEFINE act == yy_next(P.Yy_action, n, token)
            row == P.Yy_action[n]
<1>1. CASE token \notin DOMAIN row
  <2>1. act = YYF /\ YYF \in Int /\ ~(YYF <= 0)
    BY <1>1 DEF yy_next, YYF
  <2>. QED
    BY <1>1, <2>1
<1>2. CASE token \in DOMAIN row
  <2>1. act = row[token]
    BY <1>2 DEF yy_next
  <2>2. \/ row[token] \in States(P) \ {0} /\ token \in P.tokens
        \/ row[token] \in Int /\ -row[token] \in DOMAIN P.Yy_reduce
    BY <1>2 DEF IsParser, TablesFit, States
  <2>3. CASE row[token] \in States(P) \ {0} /\ token \in P.tokens
    <3>1. row[token] \in 0 .. YYF - 1 /\ row[token] # 0
      BY <2>3 DEF IsParser, TablesFit, States
    <3>2. act \in Int /\ act > 0 /\ act # YYF
      <4>1. \A x \in 0 .. YYF - 1 : x # 0 => x \in Int /\ x > 0 /\ x # YYF
        BY DEF YYF
      <4>. HIDE DEF act
      <4>. QED
        BY <2>1, <3>1, <4>1
    <3>3. Leads(P, n, token, act)
      BY <1>2, <2>1, <3>2 DEF Leads
    <3>. QED
      BY <1>2, <2>1, <2>3, <3>2, <3>3
  <2>4. CASE row[token] \in Int /\ -row[token] \in DOMAIN P.Yy_reduce
    <3>1. -row[token] \in Nat
      BY <2>4 DEF IsParser, TablesFit
    <3>2. act \in Int /\ act <= 0 /\ act # YYF
      BY <2>1, <2>4, <3>1 DEF YYF
    <3>3. \E item \in P.items[n] : item[1] = -act /\ item[2] = P.Yy_reduce[item[1]]
      BY <1>2, <2>1, <3>2 DEF IsParser, FollowsItems, States
    <3>. QED
      BY <1>2, <2>1, <2>4, <3>2, <3>3
  <2>. QED
    BY <2>2, <2>3, <2>4
<1>. QED
  BY <1>1, <1>2

\* The tokens the states on the stack have transitions on.
LEMMA TokenString ==
  ASSUME NEW P, IsParser(P), NEW token \in P.tokens
  PROVE  token \in DOMAIN P.strings /\ P.strings[token] = {<<token>>} /\ token \in Nat \ {0}
  BY DEF IsParser, DerivesStrings, TablesFit

\* The action of a production gets what its right-hand side stands for.
LEMMA ValueOfHandle ==
  ASSUME NEW P, NEW stack, NEW held, NEW at, vsp \in Elements,
         Spells(P, stack, Yy_vstack, vsp, held, at),
         NEW amount \in Nat, amount < vsp
  PROVE  ActionValue(amount) = Piece(held, at[vsp - amount], Len(held))
<1>. DEFINE base == vsp - amount
            Rule(f) == [n \in 0 .. amount |->
                          IF n = 0 THEN <<>>
                          ELSE f[n - 1] \o Yy_vstack[DollarElement(n, amount)]]
            joined == CHOOSE f : f = Rule(f)
            whole == [n \in 0 .. amount |-> Piece(held, at[base], at[base + n])]
<1>1. /\ vsp \in Nat \ {0} /\ base \in 1 .. vsp /\ base \in Int /\ base + amount = vsp
      /\ held \in Seq(P.tokens) /\ at[vsp] = Len(held)
  <2>1. vsp \in Nat \ {0}
    BY ElementsFacts
  <2>2. base \in 1 .. vsp /\ base \in Int /\ base + amount = vsp
    BY <2>1
  <2>3. held \in Seq(P.tokens) /\ at[vsp] = Len(held)
    BY DEF Spells
  <2>. QED
    BY <2>1, <2>2, <2>3
<1>2. /\ Len(held) \in Nat
      /\ \A n \in 1 .. vsp : at[n] \in 0 .. Len(held) /\ at[n] \in Nat
      /\ \A n \in 2 .. vsp : n - 1 \in 1 .. vsp /\ at[n - 1] \in 0 .. at[n]
  BY <1>1, SpellsOrder
<1>3. \A n \in 0 .. amount : at[base] <= at[base + n] /\ base + n \in 1 .. vsp
  <2>1. ASSUME NEW n \in 0 .. amount
        PROVE  at[base] <= at[base + n] /\ base + n \in 1 .. vsp
    <3>1. base + n \in base .. vsp
      BY <1>1
    <3>. QED
      BY <1>1, <3>1, SpellsMonotone
  <2>. QED
    BY <2>1
<1>4. whole[0] = <<>>
  <2>1. base + 0 = base /\ at[base] \in Int
    BY <1>1, <1>2
  <2>. QED
    BY <2>1, PieceEmpty
<1>5. ASSUME NEW n \in 1 .. amount
      PROVE  whole[n] = whole[n - 1] \o Yy_vstack[DollarElement(n, amount)]
  <2>1. /\ n - 1 \in 0 .. amount /\ n \in 0 .. amount /\ base + n \in 2 .. vsp
        /\ base + (n - 1) = base + n - 1 /\ DollarElement(n, amount) = base + n
    BY <1>1 DEF DollarElement
  <2>2. Yy_vstack[base + n] = Piece(held, at[base + n - 1], at[base + n])
    <3>1. \A x \in 2 .. vsp : Yy_vstack[x] = Piece(held, at[x - 1], at[x])
      BY DEF Spells
    <3>. HIDE DEF base
    <3>. QED
      BY <1>1, <2>1, <3>1
  <2>3. /\ at[base] \in 0 .. Len(held) /\ at[base + n - 1] \in at[base] .. Len(held)
        /\ at[base + n] \in at[base + n - 1] .. Len(held)
    <3>1. base + n - 1 \in 1 .. vsp /\ base + n \in 1 .. vsp
      BY <1>1, <2>1
    <3>2. at[base] <= at[base + n - 1]
      BY <1>3, <2>1
    <3>3. /\ at[base] \in 0 .. Len(held) /\ at[base + n - 1] \in 0 .. Len(held)
          /\ at[base + n] \in 0 .. Len(held) /\ at[base + n - 1] \in 0 .. at[base + n]
      BY <1>1, <1>2, <2>1, <3>1
    <3>. QED
      BY <1>2, <3>2, <3>3
  <2>4. \A i \in 0 .. Len(held) : \A j \in i .. Len(held) : \A k \in j .. Len(held) :
          Piece(held, i, j) \o Piece(held, j, k) = Piece(held, i, k)
    BY <1>1, PieceJoin
  <2>5. whole[n - 1] = Piece(held, at[base], at[base + n - 1])
    BY <2>1
  <2>6. whole[n] = Piece(held, at[base], at[base + n])
    BY <2>1
  <2>. HIDE DEF whole
  <2>. QED
    BY <2>1, <2>2, <2>3, <2>4, <2>5, <2>6
<1>6. whole = Rule(whole)
  <2>1. \A n \in 0 .. amount : n # 0 => n \in 1 .. amount
    OBVIOUS
  <2>2. \A n \in 0 .. amount :
          whole[n] = IF n = 0 THEN <<>> ELSE whole[n - 1] \o Yy_vstack[DollarElement(n, amount)]
    BY <1>4, <1>5, <2>1
  <2>3. whole = [n \in 0 .. amount |-> whole[n]]
    OBVIOUS
  <2>. HIDE DEF whole
  <2>. QED
    BY <2>2, <2>3
<1>. HIDE DEF whole
<1>7. joined = Rule(joined)
  BY <1>6
<1>8. ActionValue(amount) = joined[amount]
  BY DEF ActionValue
<1>. HIDE DEF joined
<1>9. /\ joined[0] = <<>>
      /\ \A n \in 1 .. amount :
           joined[n] = joined[n - 1] \o Yy_vstack[DollarElement(n, amount)]
  <2>1. 0 \in 0 .. amount /\ \A n \in 1 .. amount : n \in 0 .. amount /\ n # 0
    OBVIOUS
  <2>2. \A n \in 0 .. amount : Rule(joined)[n] =
          IF n = 0 THEN <<>> ELSE joined[n - 1] \o Yy_vstack[DollarElement(n, amount)]
    OBVIOUS
  <2>. HIDE DEF Rule
  <2>. QED
    BY <1>7, <2>1, <2>2
<1>10. \A n \in 0 .. amount : joined[n] = whole[n]
  <2>. DEFINE Bad == {n \in 0 .. amount : joined[n] # whole[n]}
  <2>1. SUFFICES ASSUME Bad # {}
                 PROVE  FALSE
    OBVIOUS
  <2>2. PICK n \in Bad : \A m \in Bad : n <= m
    <3>1. Bad \in SUBSET Nat
      OBVIOUS
    <3>. HIDE DEF Bad
    <3>. QED
      BY <2>1, <3>1, LeastOne
  <2>3. n \in 1 .. amount /\ n - 1 \in 0 .. amount /\ ~(n <= n - 1)
    BY <1>4, <1>9
  <2>4. joined[n - 1] = whole[n - 1]
    BY <2>2, <2>3
  <2>. QED
    BY <1>5, <1>9, <2>3, <2>4
<1>11. amount \in 0 .. amount /\ whole[amount] = Piece(held, at[base], at[base + amount])
  BY DEF whole
<1>. QED
  BY <1>1, <1>8, <1>10, <1>11

----------------------------------------------------------------------------
(***************************************************************************)
(* The invariant.  What yylex() has still to deliver is a piece of the     *)
(* input, of which yylookahead is the token before; the tokens shifted are *)
(* the ones before that, as long as none was skipped.                      *)
(***************************************************************************)
TokenAt(s, n) == IF n \in 1 .. Len(s) THEN s[n] ELSE 0

InSystem ==
  /\ program \in DOMAIN Programs
  /\ input \in Seq(Tables.tokens)
  /\ Len(input) <= Tables.longest

ReadTo(k) ==
  /\ rest = Piece(input, k + 1, Len(input))
  /\ yylookahead = TokenAt(input, k + 1)
  /\ Len(shifted) <= k
  /\ yynerrs = 0 => shifted = Piece(input, 0, k)

Reading ==
  /\ shifted \in Seq(Tables.tokens)
  /\ \E k \in 0 .. Len(input) : ReadTo(k)

\* The stack pointers: yy_recover() pops states only, and may restore them.
Pointers ==
  /\ sp \in 0 .. YYMAXDEPTH
  /\ vsp \in 1 .. YYMAXDEPTH
  /\ old_sp \in 1 .. YYMAXDEPTH
  /\ pc = "parse" => sp >= 1 /\ vsp = sp
  /\ pc = "recover" => sp <= old_sp /\ vsp = old_sp

\* The counters: messages are suppressed, and yy_recover() runs, after a message only.
Counters ==
  /\ pc \in {"parse", "recover", "accept", "abort", "user", "overflow", "undefined"}
  /\ suppress_err \in 0 .. YYCASCADE
  /\ yynerrs \in 0 .. YYMAXERR + 1
  /\ Running => yynerrs <= YYMAXERR
  /\ suppress_err > 0 => yynerrs > 0
  /\ pc \in {"recover", "abort"} => yynerrs > 0

Arrays ==
  /\ Yy_stack \in [Elements -> States(Tables)]
  /\ DOMAIN Yy_vstack = Elements

\* Beside the states are the values of some of the tokens shifted, of all of them before
\* the first error.
Holding(held, at) ==
  /\ OnStack(Tables, Yy_stack, Yy_vstack, vsp, held, at)
  /\ Len(held) <= Len(shifted)
  /\ yynerrs = 0 => held = shifted

StacksHold == Running => \E held, at : Holding(held, at)

\* What yy_recover() has popped could not go on with the token.
Hopeless ==
  pc = "recover" =>
    \A n \in sp + 1 .. old_sp : yy_next(Tables.Yy_action, Yy_stack[n], yylookahead) = YYF

Accepted ==
  AcceptsAtEnd(Tables) /\ pc = "accept" /\ yynerrs = 0 => Sentence /\ Yy_val = input

IInv ==
  /\ InSystem
  /\ Reading
  /\ Pointers
  /\ Counters
  /\ Arrays
  /\ StacksHold
  /\ Hopeless
  /\ Accepted

LEMMA TablesFacts ==
  ASSUME InSystem
  PROVE  /\ IsParser(Tables)
         /\ 0 \in States(Tables)
         /\ Tables.tokens \subseteq Nat \ {0}
         /\ Tables.longest \in Nat
         /\ Len(input) \in Nat
<1>1. IsParser(Tables)
  BY ProgramsAssumption DEF InSystem, Tables
<1>2. Len(input) \in Nat
  BY LenProperties DEF InSystem
<1>. QED
  BY <1>1, <1>2 DEF IsParser, TablesFit, DerivesStrings, States

LEMMA TokenAtFacts ==
  ASSUME NEW T \in SUBSET (Nat \ {0}), NEW s \in Seq(T), NEW n \in Nat
  PROVE  /\ TokenAt(s, n) \in Nat
         /\ TokenAt(s, n) \in T \cup {0}
         /\ TokenAt(s, n) # 0 <=> n \in 1 .. Len(s)
<1>1. n \in 1 .. Len(s) => s[n] \in T
  BY ElementOfSeq
<1>. QED
  BY <1>1 DEF TokenAt

\* One call of yylex().
LEMMA NextReading ==
  ASSUME NEW T \in SUBSET (Nat \ {0}), input \in Seq(T), NEW k \in 0 .. Len(input),
         rest = Piece(input, k + 1, Len(input))
  PROVE  LET k2 == IF k < Len(input) THEN k + 1 ELSE k
         IN /\ k2 \in 0 .. Len(input)
            /\ AfterNext = Piece(input, k2 + 1, Len(input))
            /\ NextToken = TokenAt(input, k2 + 1)
<1>1. Len(input) \in Nat /\ k \in Nat
  BY LenProperties
<1>2. CASE k + 1 < Len(input)
  <2>1. /\ k + 1 \in 0 .. Len(input) /\ Len(input) \in k + 1 .. Len(input)
        /\ k + 2 \in 1 .. Len(input) /\ k + 1 + 1 = k + 2 /\ k < Len(input)
    BY <1>1, <1>2
  <2>2. /\ rest \in Seq(T) /\ Len(rest) = Len(input) - (k + 1)
        /\ \A x \in 1 .. Len(input) - (k + 1) : rest[x] = input[k + 1 + x]
    <3>1. \A i \in 0 .. Len(input) : \A j \in i .. Len(input) :
            /\ Piece(input, i, j) \in Seq(T) /\ Len(Piece(input, i, j)) = j - i
            /\ \A x \in 1 .. j - i : Piece(input, i, j)[x] = input[i + x]
      BY PieceFacts
    <3>. QED
      BY <2>1, <3>1
  <2>3. rest # <<>> /\ Head(rest) = input[k + 2]
    <3>1. Len(rest) > 0 /\ 1 \in 1 .. Len(input) - (k + 1) /\ k + 1 + 1 = k + 2
      BY <1>1, <1>2, <2>2
    <3>2. rest[1] = input[k + 2]
      BY <2>2, <3>1
    <3>. QED
      BY <2>2, <3>1, <3>2, EmptySeq, HeadTailProperties
  <2>4. Tail(rest) = Piece(input, k + 2, Len(input))
    <3>1. k + 2 \in 0 .. Len(input) /\ Len(input) \in k + 2 .. Len(input)
      BY <2>1
    <3>2. /\ Piece(input, k + 2, Len(input)) \in Seq(T)
          /\ Len(Piece(input, k + 2, Len(input))) = Len(input) - (k + 2)
          /\ \A x \in 1 .. Len(input) - (k + 2) :
               Piece(input, k + 2, Len(input))[x] = input[k + 2 + x]
      BY <3>1, PieceFacts
    <3>3. /\ Tail(rest) \in Seq(T) /\ Len(Tail(rest)) = Len(rest) - 1
          /\ \A x \in 1 .. Len(Tail(rest)) : Tail(rest)[x] = rest[x + 1]
      BY <2>2, <2>3, HeadTailProperties
    <3>4. \A x \in 1 .. Len(input) - (k + 2) :
            /\ x + 1 \in 1 .. Len(input) - (k + 1) /\ k + 1 + (x + 1) = k + 2 + x
      BY <1>1
    <3>5. \A x \in 1 .. Len(input) - (k + 2) : rest[x + 1] = input[k + 2 + x]
      BY <2>2, <3>4
    <3>6. Len(Tail(rest)) = Len(input) - (k + 2)
      BY <1>1, <2>2, <3>3
    <3>7. \A x \in 1 .. Len(Tail(rest)) : Tail(rest)[x] = Piece(input, k + 2, Len(input))[x]
      BY <3>2, <3>3, <3>5, <3>6
    <3>8. Tail(rest) \in Seq(T) /\ Len(Tail(rest)) = Len(Piece(input, k + 2, Len(input)))
      BY <3>2, <3>3, <3>6
    <3>. QED
      BY <3>2, <3>7, <3>8, SeqEqual
  <2>. QED
    BY <2>1, <2>3, <2>4 DEF NextToken, AfterNext, TokenAt
<1>3. CASE ~(k + 1 < Len(input))
  <2>1. \A x \in Nat : x + 1 > Len(input) => Piece(input, x, Len(input)) = <<>>
    <3>1. ASSUME NEW x \in Nat, x + 1 > Len(input)
          PROVE  SubSeq(input, x + 1, Len(input)) = <<>>
      BY <1>1, <3>1, SubSeqEmpty
    <3>. QED
      BY <3>1 DEF Piece
  <2>2. rest = <<>>
    BY <1>1, <1>3, <2>1
  <2>3. CASE k < Len(input)
    <3>1. k + 1 \in 0 .. Len(input) /\ k + 1 + 1 > Len(input) /\ k + 1 \in Nat
          /\ ~(k + 1 + 1 \in 1 .. Len(input)) /\ k + 1 + 1 \in Nat
          /\ k + 1 + 1 + 1 > Len(input)
      BY <1>1, <1>3, <2>3
    <3>2. Piece(input, k + 1 + 1, Len(input)) = <<>>
      BY <2>1, <3>1
    <3>. QED
      BY <2>2, <2>3, <3>1, <3>2 DEF NextToken, AfterNext, TokenAt
  <2>4. CASE ~(k < Len(input))
    <3>1. ~(k + 1 \in 1 .. Len(input))
      BY <1>1, <2>4
    <3>. QED
      BY <2>2, <2>4, <3>1 DEF NextToken, AfterNext, TokenAt
  <2>. QED
    BY <2>3, <2>4
<1>. QED
  BY <1>2, <1>3

----------------------------------------------------------------------------
(***************************************************************************)
(* What the next action is, and what a reduction finds on the stacks.      *)
(***************************************************************************)
LEMMA ActionFacts ==
  ASSUME IInv, sp >= 1
  PROVE  /\ sp \in Elements /\ Yy_stack[sp] \in States(Tables)
         /\ Action \in Int
         /\ Action = YYF <=> yylookahead \notin DOMAIN Tables.Yy_action[Yy_stack[sp]]
         /\ Action # YYF => Action = Tables.Yy_action[Yy_stack[sp]][yylookahead]
         /\ Action # YYF /\ Action > 0 =>
              Leads(Tables, Yy_stack[sp], yylookahead, Action) /\ yylookahead \in Tables.tokens
         /\ Action <= 0 =>
              /\ -Action \in DOMAIN Tables.Yy_reduce
              /\ \E item \in Tables.items[Yy_stack[sp]] :
                   item[1] = -Action /\ item[2] = Tables.Yy_reduce[item[1]]
<1>1. IsParser(Tables)
  BY TablesFacts DEF IInv
<1>2. sp \in Elements
  BY LimitsAssumption DEF IInv, Pointers, Elements
<1>3. Yy_stack[sp] \in States(Tables)
  BY <1>2 DEF IInv, Arrays
<1>. QED
  BY <1>1, <1>2, <1>3, EntryFacts DEF Action

LEMMA OnTop ==
  ASSUME IInv, pc = "parse", NEW held, NEW at, Holding(held, at)
  PROVE  /\ sp \in Nat \ {0} /\ sp \in Elements /\ vsp = sp
         /\ \A n \in 1 .. sp : n \in Elements /\ Yy_stack[n] \in States(Tables)
         /\ Path(Tables, Yy_stack, sp)
         /\ Spells(Tables, Yy_stack, Yy_vstack, sp, held, at)
         /\ OnStack(Tables, Yy_stack, Yy_vstack, sp, held, at)
         /\ held \in Seq(Tables.tokens)
         /\ at[sp] = Len(held)
<1>1. vsp = sp /\ OnStack(Tables, Yy_stack, Yy_vstack, sp, held, at)
  BY DEF IInv, Pointers, Holding
<1>2. sp \in Elements
  BY <1>1 DEF OnStack
<1>3. sp \in Nat \ {0} /\ \A n \in 1 .. sp : n \in Elements
  BY <1>2, ElementsFacts
<1>. QED
  BY <1>1, <1>2, <1>3 DEF OnStack, Spells

LEMMA ReductionFacts ==
  ASSUME IInv, pc = "parse", Action <= 0, NEW held, NEW at, Holding(held, at)
  PROVE  LET p == -Action
             amount == Tables.Yy_reduce[p]
             base == sp - amount
         IN /\ p \in DOMAIN Tables.Yy_reduce
            /\ amount \in Nat
            /\ base \in 1 .. sp
            /\ ActionValue(amount) = Piece(held, at[base], Len(held))
            /\ ActionValue(amount) \in Tables.after[p][0]
            /\ p # 0 => Leads(Tables, Yy_stack[base], Tables.Yy_lhs[p],
                              yy_next(Tables.Yy_goto, Yy_stack[base], Tables.Yy_lhs[p]))
            /\ p = 0 => Yy_stack[base] = 0
<1>. DEFINE p == -Action
            amount == Tables.Yy_reduce[p]
            base == sp - amount
<1>1. /\ sp \in Nat \ {0} /\ sp \in Elements /\ vsp = sp
      /\ \A n \in 1 .. sp : n \in Elements /\ Yy_stack[n] \in States(Tables)
      /\ Path(Tables, Yy_stack, sp)
      /\ Spells(Tables, Yy_stack, Yy_vstack, sp, held, at)
  BY OnTop
<1>2. IsParser(Tables)
  BY TablesFacts DEF IInv
<1>3. PICK item \in Tables.items[Yy_stack[sp]] : item[1] = p /\ item[2] = Tables.Yy_reduce[item[1]]
  BY <1>1, ActionFacts
<1>4. p \in DOMAIN Tables.Yy_reduce /\ p \in Nat /\ amount \in Nat /\ item[2] = amount
  <2>1. p \in DOMAIN Tables.Yy_reduce
    BY <1>1, ActionFacts
  <2>. QED
    BY <1>2, <1>3, <2>1 DEF IsParser, TablesFit
<1>. HIDE DEF p
<1>5. amount < sp /\ base \in 1 .. sp /\ base \in Elements
  <2>1. amount \in 0 .. item[2]
    BY <1>4
  <2>2. amount < sp
    BY <1>1, <1>2, <1>4, <2>1, Backwards
  <2>. QED
    BY <1>1, <1>4, <2>2
<1>6. ActionValue(amount) = Piece(held, at[base], Len(held))
  BY <1>1, <1>4, <1>5, ValueOfHandle
<1>7. Piece(held, at[base], Len(held)) \in Tables.after[p][0]
  BY <1>1, <1>2, <1>3, <1>4, Handle
<1>8. PICK first \in Tables.items[Yy_stack[base]] : first[1] = p /\ first[2] = 0
  <2>1. amount \in 0 .. item[2] /\ item[2] - amount = 0
    BY <1>4
  <2>2. \E before \in Tables.items[Yy_stack[sp - amount]] :
          before[1] = item[1] /\ before[2] = item[2] - amount
    BY <1>1, <1>2, <2>1, Backwards
  <2>. QED
    BY <1>3, <2>1, <2>2
<1>9. Yy_stack[base] \in States(Tables)
  BY <1>1, <1>5
<1>10. p # 0 => Tables.Yy_lhs[p] \in DOMAIN Tables.Yy_goto[Yy_stack[base]]
  BY <1>2, <1>8, <1>9, ItemFacts
<1>11. p = 0 => Yy_stack[base] = 0
  BY <1>2, <1>8, <1>9, ItemFacts
<1>12. p # 0 => Leads(Tables, Yy_stack[base], Tables.Yy_lhs[p],
                      yy_next(Tables.Yy_goto, Yy_stack[base], Tables.Yy_lhs[p]))
  BY <1>10 DEF Leads, yy_next
<1>. QED
  BY <1>4, <1>5, <1>6, <1>7, <1>11, <1>12 DEF p

----------------------------------------------------------------------------
(***************************************************************************)
(* The invariant holds initially, and every action keeps it.               *)
(***************************************************************************)
LEMMA InitKeepsIInv ==
  ASSUME Init
  PROVE  IInv
<1>1. InSystem
  <2>1. program \in DOMAIN Programs /\ IsParser(Tables)
        /\ Tables.maxInput \in 0 .. Tables.longest /\ Tables.longest \in Nat
    BY ProgramsAssumption DEF Init, Tables, IsParser, DerivesStrings
  <2>2. PICK n \in 0 .. Tables.maxInput : input \in [1 .. n -> Tables.tokens]
    BY DEF Init, Inputs
  <2>3. n \in Nat /\ n <= Tables.longest
    BY <2>1, <2>2
  <2>4. input \in Seq(Tables.tokens) /\ Len(input) = n
    <3>1. input \in Seq(Tables.tokens)
      BY <2>2, <2>3, SeqDef
    <3>. QED
      BY <2>2, <2>3, <3>1, LenProperties
  <2>. QED
    BY <2>1, <2>3, <2>4 DEF InSystem
<1>. DEFINE P == Tables
<1>2. /\ IsParser(P) /\ 0 \in States(P) /\ Len(input) \in Nat /\ P.longest \in Nat
      /\ input \in Seq(P.tokens)
  BY <1>1, TablesFacts DEF InSystem
<1>3. YYMAXDEPTH \in Nat \ {0} /\ 1 \in Elements /\ YYMAXERR \in Nat /\ YYCASCADE \in Nat
  BY LimitsAssumption DEF Elements
<1>4. Reading
  <2>1. Piece(input, 0, 0) = <<>>
    BY PieceEmpty
  <2>2. CASE input = <<>>
    <3>1. Len(input) = 0
      BY <2>2
    <3>2. SubSeq(input, 2, 0) = <<>>
      BY <2>2, SubSeqEmpty
    <3>3. ReadTo(0)
      <4>1. 0 + 1 + 1 = 2 /\ ~(0 + 1 \in 1 .. 0) /\ Len(<<>>) <= 0
        OBVIOUS
      <4>. QED
        BY <2>1, <2>2, <3>1, <3>2, <4>1 DEF ReadTo, Init, Piece, TokenAt
    <3>. QED
      BY <1>2, <3>3 DEF Reading, Init
  <2>3. CASE input # <<>>
    <3>1. Len(input) > 0 /\ 1 \in 1 .. Len(input)
      BY <1>2, <2>3, EmptySeq
    <3>2. Head(input) = input[1] /\ Tail(input) = SubSeq(input, 2, Len(input))
      BY <1>2, <2>3, HeadTailProperties, TailIsSubSeq
    <3>3. ReadTo(0)
      <4>1. 0 + 1 + 1 = 2 /\ 0 + 1 = 1 /\ Len(<<>>) <= 0
        OBVIOUS
      <4>. QED
        BY <2>1, <2>3, <3>1, <3>2, <4>1 DEF ReadTo, Init, Piece, TokenAt
    <3>. QED
      BY <1>2, <3>3 DEF Reading, Init
  <2>. QED
    BY <2>2, <2>3
<1>5. Pointers /\ Counters /\ Hopeless /\ Accepted
  BY <1>3 DEF Init, Pointers, Counters, Hopeless, Accepted, Running
<1>6. Arrays
  BY <1>2 DEF Init, Arrays
<1>7. StacksHold
  <2>. DEFINE at == [n \in 1 .. 1 |-> 0]
  <2>1. Spells(P, Yy_stack, Yy_vstack, vsp, <<>>, at)
    <3>1. vsp = 1 /\ ~(\E n \in 2 .. 1 : TRUE) /\ 1 \in 1 .. 1
      BY DEF Init
    <3>2. <<>> \in Seq(P.tokens) /\ Len(<<>>) = 0 /\ 0 <= P.longest /\ 0 \in 0 .. 0
      BY <1>2
    <3>. QED
      BY <3>1, <3>2 DEF Spells
  <2>2. Path(P, Yy_stack, vsp)
    BY <1>3 DEF Path, Init
  <2>3. Holding(<<>>, at)
    <3>1. vsp \in Elements /\ Len(<<>>) <= Len(<<>>) /\ shifted = <<>>
      BY <1>3 DEF Init
    <3>. HIDE DEF at
    <3>. QED
      BY <1>6, <2>1, <2>2, <3>1 DEF Holding, OnStack, Arrays
  <2>. HIDE DEF at
  <2>. QED
    BY <2>3 DEF StacksHold
<1>. QED
  BY <1>1, <1>4, <1>5, <1>6, <1>7 DEF IInv

LEMMA InSystemStep ==
  ASSUME IInv, [Next]_vars
  PROVE  program' = program /\ input' = input /\ Tables' = Tables /\ InSystem'
<1>1. program' = program /\ input' = input
  BY DEF Next, vars, given, Shift, StackOverflow, Reduce, WriteOutside, Accept, ActionReturns,
         ErrorFound, PopState, Recovered, SkipToken
<1>. QED
  BY <1>1 DEF IInv, InSystem, Tables

LEMMA ReadingStep ==
  ASSUME IInv, [Next]_vars
  PROVE  Reading'
<1>1. input' = input /\ Tables' = Tables
  BY InSystemStep
<1>2. PICK k \in 0 .. Len(input) : ReadTo(k)
  BY DEF IInv, Reading
<1>. DEFINE T == Tables.tokens
            k2 == IF k < Len(input) THEN k + 1 ELSE k
<1>3. /\ T \subseteq Nat \ {0} /\ input \in Seq(T) /\ shifted \in Seq(T)
      /\ Len(input) \in Nat /\ Len(shifted) \in Nat
  BY TablesFacts, LenProperties DEF IInv, InSystem, Reading
<1>4. /\ k2 \in 0 .. Len(input)
      /\ AfterNext = Piece(input, k2 + 1, Len(input))
      /\ NextToken = TokenAt(input, k2 + 1)
  BY <1>2, <1>3, NextReading DEF ReadTo
<1>5. CASE Shift
  <2>1. yylookahead \in T
    BY <1>5, ActionFacts DEF Shift, IInv, Pointers
  <2>2. k + 1 \in 1 .. Len(input) /\ yylookahead = input[k + 1]
    BY <1>2, <1>3, <2>1 DEF ReadTo, TokenAt
  <2>3. k2 = k + 1 /\ k \in 0 .. Len(input) - 1
    BY <1>3, <2>2
  <2>4. /\ shifted' = Append(shifted, yylookahead) /\ shifted' \in Seq(T)
        /\ Len(shifted') = Len(shifted) + 1 /\ yynerrs' = yynerrs
        /\ rest' = AfterNext /\ yylookahead' = NextToken
    BY <1>3, <1>5, <2>1, AppendProperties DEF Shift
  <2>5. Len(shifted') <= k2
    BY <1>2, <1>3, <2>3, <2>4 DEF ReadTo
  <2>6. yynerrs = 0 => shifted' = Piece(input, 0, k2)
    <3>1. Piece(input, k, k + 1) = <<input[k + 1]>>
      BY <1>3, <2>3, PieceOne
    <3>2. Piece(input, 0, k) \o Piece(input, k, k + 1) = Piece(input, 0, k + 1)
      <4>1. 0 \in 0 .. Len(input) /\ k \in 0 .. Len(input) /\ k + 1 \in k .. Len(input)
        BY <1>3, <2>2
      <4>. QED
        BY <1>3, <4>1, PieceJoin
    <3>3. Append(shifted, yylookahead) = shifted \o <<yylookahead>>
      BY <1>3, <2>1, AppendIsConcat
    <3>. QED
      BY <1>2, <2>2, <2>3, <2>4, <3>1, <3>2, <3>3 DEF ReadTo
  <2>7. ReadTo(k2)'
    BY <1>1, <1>4, <2>4, <2>5, <2>6 DEF ReadTo
  <2>. QED
    BY <1>1, <1>4, <2>4, <2>7 DEF Reading
<1>6. CASE SkipToken
  <2>1. /\ shifted' = shifted /\ yynerrs' = yynerrs /\ yynerrs # 0
        /\ rest' = AfterNext /\ yylookahead' = NextToken
    BY <1>6 DEF SkipToken, IInv, Counters
  <2>2. Len(shifted) <= k2
    BY <1>2, <1>3 DEF ReadTo
  <2>3. ReadTo(k2)'
    BY <1>1, <1>4, <2>1, <2>2 DEF ReadTo
  <2>. QED
    BY <1>1, <1>3, <1>4, <2>1, <2>3 DEF Reading
<1>7. CASE ~Shift /\ ~SkipToken
  <2>1. shifted' = shifted /\ rest' = rest /\ yylookahead' = yylookahead
        /\ (yynerrs' = 0 => yynerrs = 0)
    <3>1. CASE ErrorFound
      BY <3>1 DEF ErrorFound, IInv, Counters
    <3>2. CASE ~ErrorFound
      BY <1>7, <3>2 DEF Next, vars, StackOverflow, Reduce, WriteOutside, Accept, ActionReturns,
         PopState, Recovered
    <3>. QED
      BY <3>1, <3>2
  <2>2. ReadTo(k)'
    BY <1>1, <1>2, <2>1 DEF ReadTo
  <2>. QED
    BY <1>1, <1>3, <2>1, <2>2 DEF Reading
<1>. QED
  BY <1>5, <1>6, <1>7

LEMMA PointersStep ==
  ASSUME IInv, [Next]_vars
  PROVE  Pointers'
<1>1. YYMAXDEPTH \in Nat \ {0} /\ sp \in Int /\ vsp \in Int /\ old_sp \in Int
  BY LimitsAssumption DEF IInv, Pointers
<1>2. CASE Shift
  BY <1>1, <1>2 DEF Shift, StackFull, IInv, Pointers
<1>3. CASE Reduce
  <2>1. PICK held, at : Holding(held, at)
    BY <1>3 DEF Reduce, IInv, StacksHold, Running
  <2>. DEFINE amount == Tables.Yy_reduce[-Action]
  <2>2. Action \in Int /\ Action < 0 /\ pc = "parse"
    BY <1>3, ActionFacts DEF Reduce, IInv, Pointers
  <2>3. amount \in Nat /\ sp - amount \in 1 .. sp
    BY <2>1, <2>2, ReductionFacts
  <2>4. /\ sp - amount + 1 <= YYMAXDEPTH
        /\ sp' = sp - amount + 1 /\ vsp' = vsp - amount + 1 /\ old_sp' = old_sp /\ pc' = pc
    BY <1>3 DEF Reduce
  <2>. HIDE DEF amount
  <2>5. vsp = sp /\ old_sp \in 1 .. YYMAXDEPTH
    BY <2>2 DEF IInv, Pointers
  <2>. QED
    BY <1>1, <2>2, <2>3, <2>4, <2>5 DEF Pointers
<1>4. CASE ErrorFound \/ PopState \/ SkipToken \/ Recovered
  BY <1>1, <1>4 DEF ErrorFound, PopState, SkipToken, Recovered, RestoredPointer, AlignedValues,
                    stacks, IInv, Pointers
<1>5. CASE StackOverflow \/ WriteOutside \/ Accept \/ ActionReturns
  BY <1>1, <1>5 DEF StackOverflow, WriteOutside, Accept, ActionReturns, stacks, IInv, Pointers
<1>6. CASE UNCHANGED vars
  BY <1>6 DEF vars, IInv, Pointers
<1>. QED
  BY <1>2, <1>3, <1>4, <1>5, <1>6 DEF Next

LEMMA CountersStep ==
  ASSUME IInv, [Next]_vars
  PROVE  Counters'
<1>1. /\ YYMAXERR \in Nat /\ YYCASCADE \in Nat /\ suppress_err \in Nat /\ yynerrs \in Nat
      /\ Suppressed \in 0 .. YYCASCADE /\ (Suppressed > 0 => suppress_err > 0)
  BY LimitsAssumption DEF IInv, Counters, Suppressed
<1>2. CASE Shift \/ Reduce \/ Accept
  BY <1>1, <1>2 DEF Shift, Reduce, Accept, IInv, Counters, Running
<1>3. CASE ErrorFound
  BY <1>1, <1>3 DEF ErrorFound, IInv, Counters, Running
<1>4. CASE PopState \/ Recovered \/ SkipToken
  BY <1>1, <1>4 DEF PopState, Recovered, SkipToken, IInv, Counters, Running
<1>5. CASE StackOverflow \/ WriteOutside \/ ActionReturns
  BY <1>1, <1>5 DEF StackOverflow, WriteOutside, ActionReturns, IInv, Counters, Running
<1>6. CASE UNCHANGED vars
  BY <1>6 DEF vars, IInv, Counters, Running
<1>. QED
  BY <1>2, <1>3, <1>4, <1>5, <1>6 DEF Next

LEMMA ArraysStep ==
  ASSUME IInv, [Next]_vars
  PROVE  Arrays'
<1>1. Tables' = Tables /\ Yy_stack \in [Elements -> States(Tables)] /\ DOMAIN Yy_vstack = Elements
  BY InSystemStep DEF IInv, Arrays
<1>2. IsParser(Tables)
  BY TablesFacts DEF IInv
<1>3. CASE Shift
  <2>1. Yy_stack[sp] \in States(Tables) /\ Leads(Tables, Yy_stack[sp], yylookahead, Action)
    BY <1>3, ActionFacts DEF Shift, IInv, Pointers
  <2>2. Action \in States(Tables)
    BY <1>2, <2>1, LeadsFacts
  <2>. QED
    BY <1>1, <1>3, <2>2 DEF Shift, Arrays
<1>4. CASE Reduce
  <2>1. PICK held, at : Holding(held, at)
    BY <1>4 DEF Reduce, IInv, StacksHold, Running
  <2>. DEFINE p == -Action
              amount == Tables.Yy_reduce[p]
              goto == yy_next(Tables.Yy_goto, Yy_stack[sp - amount], Tables.Yy_lhs[p])
  <2>2. Action \in Int /\ Action < 0 /\ pc = "parse"
    BY <1>4, ActionFacts DEF Reduce, IInv, Pointers
  <2>3. p # 0
    BY <2>2
  <2>4. sp - amount \in 1 .. sp /\ Leads(Tables, Yy_stack[sp - amount], Tables.Yy_lhs[p], goto)
    BY <2>1, <2>2, <2>3, ReductionFacts
  <2>5. Yy_stack[sp - amount] \in States(Tables)
    BY <2>1, <2>2, <2>4, OnTop
  <2>6. goto \in States(Tables)
    BY <1>2, <2>4, <2>5, LeadsFacts
  <2>7. /\ Yy_stack' = [Yy_stack EXCEPT ![sp - amount + 1] = goto]
        /\ Yy_vstack' = [Yy_vstack EXCEPT ![vsp - amount + 1] = ActionValue(amount)]
    BY <1>4 DEF Reduce, UncoveredState
  <2>. HIDE DEF goto, amount, p
  <2>. QED
    BY <1>1, <2>6, <2>7 DEF Arrays
<1>5. CASE ~Shift /\ ~Reduce
  <2>1. Yy_stack' = Yy_stack /\ Yy_vstack' = Yy_vstack
    BY <1>5 DEF Next, vars, stacks, StackOverflow, WriteOutside, Accept, ActionReturns,
                ErrorFound, PopState, Recovered, SkipToken
  <2>. QED
    BY <1>1, <2>1 DEF Arrays
<1>. QED
  BY <1>3, <1>4, <1>5

LEMMA HopelessStep ==
  ASSUME IInv, [Next]_vars
  PROVE  Hopeless'
<1>1. /\ Tables' = Tables /\ sp \in Int /\ old_sp \in Int
      /\ \A x \in Int : ~(\E n \in x + 1 .. x : TRUE)
  BY InSystemStep DEF IInv, Pointers
<1>2. CASE ErrorFound
  <2>1. old_sp' = sp /\ sp' = sp
    BY <1>2 DEF ErrorFound, stacks
  <2>. QED
    BY <1>1, <2>1 DEF Hopeless
<1>3. CASE PopState
  <2>1. \A n \in sp - 1 + 1 .. old_sp : n = sp \/ n \in sp + 1 .. old_sp
    BY <1>1
  <2>2. yy_next(Tables.Yy_action, Yy_stack[sp], yylookahead) = YYF
    BY <1>3 DEF PopState, Action
  <2>3. /\ sp' = sp - 1 /\ old_sp' = old_sp /\ Yy_stack' = Yy_stack
        /\ yylookahead' = yylookahead
    BY <1>3 DEF PopState
  <2>4. \A n \in sp + 1 .. old_sp : yy_next(Tables.Yy_action, Yy_stack[n], yylookahead) = YYF
    BY <1>3 DEF PopState, IInv, Hopeless
  <2>5. \A n \in sp - 1 + 1 .. old_sp : yy_next(Tables.Yy_action, Yy_stack[n], yylookahead) = YYF
    BY <2>1, <2>2, <2>4
  <2>. QED
    BY <1>1, <2>3, <2>5 DEF Hopeless, yy_next
<1>4. CASE SkipToken
  <2>1. sp' = old_sp /\ old_sp' = old_sp
    BY <1>4 DEF SkipToken, RestoredPointer
  <2>. QED
    BY <1>1, <2>1 DEF Hopeless
<1>5. CASE Shift \/ StackOverflow \/ Reduce \/ WriteOutside \/ Accept \/ ActionReturns \/ Recovered
  <2>1. pc' # "recover"
    BY <1>5 DEF Shift, StackOverflow, Reduce, WriteOutside, Accept, ActionReturns, Recovered
  <2>. QED
    BY <2>1 DEF Hopeless
<1>6. CASE UNCHANGED vars
  BY <1>1, <1>6 DEF vars, IInv, Hopeless, yy_next
<1>. QED
  BY <1>2, <1>3, <1>4, <1>5, <1>6 DEF Next

\* What is on the stacks after a shift.
LEMMA ShiftHolds ==
  ASSUME IInv, Shift, Reading', NEW held, NEW at, Holding(held, at)
  PROVE  \E held2, at2 : Holding(held2, at2)'
<1>. DEFINE P == Tables
            held2 == Append(held, yylookahead)
            value == <<yylookahead>>
<1>1. /\ sp \in Nat \ {0} /\ vsp = sp /\ OnStack(P, Yy_stack, Yy_vstack, sp, held, at)
      /\ held \in Seq(P.tokens) /\ at[sp] = Len(held)
  BY OnTop DEF Shift
<1>2. /\ Leads(P, Yy_stack[sp], yylookahead, Action) /\ yylookahead \in P.tokens
  BY <1>1, ActionFacts DEF Shift
<1>3. /\ IsParser(P) /\ Tables' = P /\ input' = input
      /\ Len(input) \in Nat /\ Len(input) <= P.longest /\ P.longest \in Nat
  BY TablesFacts, InSystemStep DEF IInv, InSystem, Shift, Next
<1>4. /\ held2 \in Seq(P.tokens) /\ Len(held2) = Len(held) + 1
      /\ \A x \in 1 .. Len(held) : held2[x] = held[x]
      /\ held2[Len(held) + 1] = yylookahead /\ Len(held) \in Nat
  BY <1>1, <1>2, AppendProperties, LenProperties
<1>5. /\ shifted' = Append(shifted, yylookahead) /\ yynerrs' = yynerrs
      /\ Len(shifted') = Len(shifted) + 1 /\ Len(shifted) \in Nat
      /\ Len(shifted') <= Len(input)
  <2>1. shifted \in Seq(P.tokens) /\ shifted' = Append(shifted, yylookahead)
    BY DEF IInv, Reading, Shift
  <2>2. Len(shifted') = Len(shifted) + 1 /\ Len(shifted) \in Nat
    BY <1>2, <2>1, AppendProperties, LenProperties
  <2>3. PICK k \in 0 .. Len(input)' : ReadTo(k)'
    BY DEF Reading
  <2>4. Len(shifted') <= Len(input)
    BY <1>3, <2>2, <2>3 DEF ReadTo
  <2>. QED
    BY <2>1, <2>2, <2>4 DEF Shift
<1>6. Len(held) <= Len(shifted) /\ (yynerrs = 0 => held = shifted)
  BY DEF Holding
<1>7. value = Piece(held2, at[sp], Len(held2)) /\ value \in P.strings[yylookahead]
  <2>1. Len(held) \in 0 .. Len(held2) - 1 /\ Len(held2) = Len(held) + 1
    BY <1>4
  <2>2. Piece(held2, Len(held), Len(held2)) = <<held2[Len(held2)]>>
    BY <1>4, <2>1, PieceOne
  <2>. QED
    BY <1>1, <1>2, <1>3, <1>4, <2>2, TokenString
<1>8. sp + 1 \in Elements /\ sp \in 1 .. sp
  BY <1>1, LimitsAssumption DEF Shift, StackFull, Elements, IInv, Pointers
<1>9. Len(held2) <= P.longest /\ at[sp] <= Len(held2)
  BY <1>1, <1>3, <1>4, <1>5, <1>6
<1>10. \A x \in 1 .. at[sp] : held2[x] = held[x]
  BY <1>1, <1>4
<1>. DEFINE n == Action
<1>0. Leads(P, Yy_stack[sp], yylookahead, n)
  BY <1>2
<1>. HIDE DEF held2, value, P, n
<1>11. PICK at2 : OnStack(P, [Yy_stack EXCEPT ![sp + 1] = n],
                          [Yy_vstack EXCEPT ![sp + 1] = value], sp + 1, held2, at2)
  <2>1. IsParser(P) /\ OnStack(P, Yy_stack, Yy_vstack, sp, held, at) /\ held2 \in Seq(P.tokens)
    BY <1>1, <1>3, <1>4
  <2>. QED
    BY <2>1, <1>0, <1>7, <1>8, <1>9, <1>10, Push
<1>12. /\ Yy_stack' = [Yy_stack EXCEPT ![sp + 1] = n]
       /\ Yy_vstack' = [Yy_vstack EXCEPT ![sp + 1] = value]
       /\ vsp' = sp + 1
  BY <1>1 DEF Shift, value, n
<1>13. Len(held2) <= Len(shifted') /\ (yynerrs = 0 => held2 = shifted')
  BY <1>4, <1>5, <1>6 DEF held2
<1>14. PICK h : h = held2
  OBVIOUS
<1>15. Holding(h, at2)'
  BY <1>3, <1>5, <1>11, <1>12, <1>13, <1>14 DEF Holding
<1>. QED
  BY <1>15

\* What is on the stacks after a reduction.
LEMMA ReduceHolds ==
  ASSUME IInv, Reduce, NEW held, NEW at, Holding(held, at)
  PROVE  \E at2 : Holding(held, at2)'
<1>. DEFINE P == Tables
            p == -Action
            amount == P.Yy_reduce[p]
            base == sp - amount
            goto == yy_next(P.Yy_goto, Yy_stack[base], P.Yy_lhs[p])
            value == ActionValue(amount)
<1>1. /\ sp \in Nat \ {0} /\ vsp = sp /\ OnStack(P, Yy_stack, Yy_vstack, sp, held, at)
      /\ Spells(P, Yy_stack, Yy_vstack, sp, held, at)
      /\ held \in Seq(P.tokens) /\ Len(held) <= P.longest
  BY OnTop DEF Reduce, Spells
<1>2. IsParser(P) /\ Tables' = P
  BY TablesFacts, InSystemStep DEF IInv, Next
<1>3. Action \in Int /\ Action < 0 /\ Action <= 0 /\ pc = "parse" /\ p # 0
  <2>1. Action \in Int /\ Action < 0 /\ pc = "parse"
    BY <1>1, ActionFacts DEF Reduce
  <2>. QED
    BY <2>1
<1>4. /\ p \in DOMAIN P.Yy_reduce
      /\ amount \in Nat
      /\ base \in 1 .. sp
      /\ value = Piece(held, at[base], Len(held))
      /\ value \in P.after[p][0]
      /\ Leads(P, Yy_stack[base], P.Yy_lhs[p], goto)
  BY <1>3, ReductionFacts
<1>5. value \in P.strings[P.Yy_lhs[p]]
  BY <1>2, <1>4, AfterFacts
<1>6. base + 1 \in Elements /\ base + 1 = sp - amount + 1 /\ base \in Nat
  BY <1>1, <1>4, LimitsAssumption DEF Reduce, Elements
<1>7. at[base] \in 0 .. Len(held) /\ Len(held) \in Nat
  BY <1>1, <1>4, SpellsOrder
<1>8. at[base] <= Len(held) /\ \A x \in 1 .. at[base] : held[x] = held[x]
  BY <1>7
<1>9. /\ Yy_stack' = [Yy_stack EXCEPT ![base + 1] = goto]
      /\ Yy_vstack' = [Yy_vstack EXCEPT ![base + 1] = value]
      /\ vsp' = base + 1 /\ shifted' = shifted /\ yynerrs' = yynerrs
  BY <1>1, <1>6 DEF Reduce, UncoveredState
<1>. HIDE DEF P, p, amount, base, goto, value
<1>10. PICK at2 : OnStack(P, [Yy_stack EXCEPT ![base + 1] = goto],
                          [Yy_vstack EXCEPT ![base + 1] = value], base + 1, held, at2)
  BY <1>1, <1>2, <1>4, <1>5, <1>6, <1>8, Push
<1>11. Holding(held, at2)'
  BY <1>2, <1>9, <1>10 DEF Holding
<1>. QED
  BY <1>11

LEMMA StacksHoldStep ==
  ASSUME IInv, [Next]_vars, Reading'
  PROVE  StacksHold'
<1>1. Tables' = Tables /\ IsParser(Tables)
  BY TablesFacts, InSystemStep DEF IInv
<1>2. CASE Shift
  <2>1. PICK held, at : Holding(held, at)
    BY <1>2 DEF Shift, IInv, StacksHold, Running
  <2>. QED
    BY <1>2, <2>1, ShiftHolds DEF StacksHold
<1>3. CASE Reduce
  <2>1. PICK held, at : Holding(held, at)
    BY <1>3 DEF Reduce, IInv, StacksHold, Running
  <2>. QED
    BY <1>3, <2>1, ReduceHolds DEF StacksHold
<1>4. CASE ErrorFound \/ PopState \/ SkipToken \/ UNCHANGED vars
  <2>1. /\ Yy_stack' = Yy_stack /\ Yy_vstack' = Yy_vstack /\ vsp' = vsp /\ shifted' = shifted
        /\ (yynerrs' = 0 => yynerrs = 0) /\ (Running' => Running)
    <3>1. CASE ErrorFound
      BY <3>1 DEF ErrorFound, stacks, Running, IInv, Counters
    <3>2. CASE PopState \/ SkipToken \/ UNCHANGED vars
      BY <3>2 DEF PopState, SkipToken, vars, Running
    <3>. QED
      BY <1>4, <3>1, <3>2
  <2>2. SUFFICES ASSUME Running'
                 PROVE  StacksHold'
    BY DEF StacksHold
  <2>3. PICK held, at : Holding(held, at)
    BY <2>1, <2>2 DEF IInv, StacksHold
  <2>4. Holding(held, at)'
    BY <1>1, <2>1, <2>3 DEF Holding
  <2>. QED
    BY <2>4 DEF StacksHold
<1>5. CASE Recovered
  <2>1. PICK held, at : Holding(held, at)
    BY <1>5 DEF Recovered, IInv, StacksHold, Running
  <2>2. sp \in 1 .. vsp /\ yynerrs # 0
    BY <1>5 DEF Recovered, IInv, Pointers, Counters
  <2>3. PICK held2, at2 : /\ OnStack(Tables, Yy_stack, Yy_vstack, sp, held2, at2)
                          /\ Len(held2) <= Len(held)
    BY <1>1, <2>1, <2>2, CutOff DEF Holding
  <2>4. Len(held2) <= Len(shifted)
    <3>1. Len(held2) \in Nat /\ Len(held) \in Nat /\ Len(shifted) \in Nat
      BY <2>1, <2>3, LenProperties DEF OnStack, Spells, Holding, IInv, Reading
    <3>2. Len(held) <= Len(shifted)
      BY <2>1 DEF Holding
    <3>. QED
      BY <2>3, <3>1, <3>2
  <2>5. /\ Yy_stack' = Yy_stack /\ Yy_vstack' = Yy_vstack /\ vsp' = sp /\ shifted' = shifted
        /\ yynerrs' = yynerrs
    BY <1>5 DEF Recovered, AlignedValues
  <2>6. Holding(held2, at2)'
    BY <1>1, <2>2, <2>3, <2>4, <2>5 DEF Holding
  <2>. QED
    BY <2>6 DEF StacksHold
<1>6. CASE StackOverflow \/ WriteOutside \/ Accept \/ ActionReturns
  <2>1. ~Running'
    BY <1>6 DEF StackOverflow, WriteOutside, Accept, ActionReturns, Running
  <2>. QED
    BY <2>1 DEF StacksHold
<1>. QED
  BY <1>2, <1>3, <1>4, <1>5, <1>6 DEF Next

\* A reduction by production 0 is by an item of state 0, so by all that is on the stacks;
\* and the parser does not accept before the end of input.
LEMMA AcceptHolds ==
  ASSUME IInv, Accept, AcceptsAtEnd(Tables), yynerrs = 0
  PROVE  Sentence /\ ActionValue(Tables.Yy_reduce[0]) = input
<1>. DEFINE P == Tables
            base == sp - P.Yy_reduce[0]
<1>1. /\ IsParser(P) /\ P.tokens \subseteq Nat \ {0} /\ Len(input) \in Nat
      /\ input \in Seq(P.tokens)
  BY TablesFacts DEF IInv, InSystem
<1>2. PICK held, at : Holding(held, at)
  BY DEF Accept, IInv, StacksHold, Running
<1>3. /\ sp \in Nat \ {0} /\ vsp = sp
      /\ \A n \in 1 .. sp : Yy_stack[n] \in States(P)
      /\ Path(P, Yy_stack, sp) /\ Spells(P, Yy_stack, Yy_vstack, sp, held, at)
      /\ held \in Seq(P.tokens)
  BY <1>2, OnTop DEF Accept
<1>4. /\ Action = 0 /\ -Action = 0 /\ Action <= 0 /\ Action # YYF
      /\ Action = P.Yy_action[Yy_stack[sp]][yylookahead]
      /\ yylookahead \in DOMAIN P.Yy_action[Yy_stack[sp]]
      /\ Yy_stack[sp] \in States(P)
  <2>1. Action = 0 /\ Action \in Int
    BY DEF Accept
  <2>2. Action <= 0 /\ Action # YYF
    BY <2>1 DEF YYF
  <2>3. -Action = 0
    <3>. DEFINE n == -Action
    <3>1. n \in Int /\ n <= 0 /\ n >= 0
      BY <2>1
    <3>. HIDE DEF n
    <3>2. n = 0
      BY <3>1
    <3>. QED
      BY <3>2 DEF n
  <2>4. sp >= 1
    BY <1>3
  <2>. QED
    BY <1>3, <2>1, <2>2, <2>3, <2>4, ActionFacts
<1>5. yylookahead \notin P.tokens
  BY <1>4 DEF AcceptsAtEnd, States
<1>6. shifted = input
  <2>1. PICK k \in 0 .. Len(input) : ReadTo(k)
    BY DEF IInv, Reading
  <2>2. k + 1 \in Nat /\ TokenAt(input, k + 1) \notin P.tokens
    BY <1>1, <1>5, <2>1 DEF ReadTo
  <2>3. ~(k + 1 \in 1 .. Len(input))
    BY <1>1, <2>2, TokenAtFacts
  <2>4. k = Len(input)
    BY <1>1, <2>1, <2>3
  <2>. QED
    BY <1>1, <2>1, <2>4, PieceWhole DEF ReadTo
<1>7. /\ base \in 1 .. sp
      /\ ActionValue(P.Yy_reduce[0]) = Piece(held, at[base], Len(held))
      /\ ActionValue(P.Yy_reduce[0]) \in P.after[0][0]
      /\ Yy_stack[base] = 0
  BY <1>2, <1>4, ReductionFacts DEF Accept
<1>8. at[base] = 0
  <2>1. base = 1
    <3>1. \A n \in 2 .. sp : Yy_stack[n] # 0
      BY <1>1, <1>3, PathFacts
    <3>. HIDE DEF base
    <3>. QED
      BY <1>3, <1>7, <3>1
  <2>. QED
    BY <1>3, <2>1 DEF Spells
<1>9. held = input
  BY <1>2, <1>6 DEF Holding
<1>10. ActionValue(P.Yy_reduce[0]) = input
  BY <1>1, <1>7, <1>8, <1>9, PieceWhole
<1>11. P.after[0][0] \subseteq P.strings[P.Yy_lhs[0]]
  <2>1. 0 \in DOMAIN P.Yy_reduce
    BY <1>1 DEF IsParser, TablesFit
  <2>. QED
    BY <1>1, <2>1, AfterFacts
<1>. QED
  BY <1>7, <1>10, <1>11 DEF Sentence, Sentences

LEMMA AcceptedStep ==
  ASSUME IInv, [Next]_vars
  PROVE  Accepted'
<1>1. Tables' = Tables /\ input' = input
  BY InSystemStep
<1>2. SUFFICES ASSUME AcceptsAtEnd(Tables), pc' = "accept", yynerrs' = 0
               PROVE  Sentence /\ Yy_val' = input
  BY <1>1 DEF Accepted, Sentence, Sentences
<1>3. CASE Accept
  BY <1>2, <1>3, AcceptHolds DEF Accept
<1>4. CASE UNCHANGED vars
  BY <1>2, <1>4 DEF vars, IInv, Accepted
<1>5. CASE Shift \/ StackOverflow \/ Reduce \/ WriteOutside \/ ActionReturns \/ ErrorFound
           \/ PopState \/ Recovered \/ SkipToken
  BY <1>2, <1>5 DEF Shift, StackOverflow, Reduce, WriteOutside, ActionReturns, ErrorFound,
                    PopState, Recovered, SkipToken
<1>. QED
  BY <1>3, <1>4, <1>5 DEF Next

LEMMA StepKeepsIInv ==
  ASSUME IInv, [Next]_vars
  PROVE  IInv'
<1>1. InSystem' /\ Reading' /\ Pointers' /\ Counters' /\ Arrays' /\ Hopeless' /\ Accepted'
  BY InSystemStep, ReadingStep, PointersStep, CountersStep, ArraysStep, HopelessStep, AcceptedStep
<1>2. StacksHold'
  BY <1>1, StacksHoldStep
<1>. QED
  BY <1>1, <1>2 DEF IInv

\* The inductive invariant of the parser: what has been read, what is on the stacks, and
\* that yy_recover() drops hopeless states only.
THEOREM Invariance == Spec => []IInv
<1>1. Init => IInv
  BY InitKeepsIInv
<1>2. IInv /\ [Next]_vars => IInv'
  BY StepKeepsIInv
<1>. QED
  BY <1>1, <1>2, PTL DEF Spec

\* yyparse(): every entry of the tables that is looked at exists, and the stack pointers
\* stay within the arrays, whatever the tables, the input and the sizes of the stacks.
THEOREM TypeCorrect == Spec => []TypeOK
<1>1. IInv => TypeOK
  <2>1. SUFFICES ASSUME IInv
                 PROVE  TypeOK
    OBVIOUS
  <2>2. PICK k \in 0 .. Len(input) : ReadTo(k)
    BY <2>1 DEF IInv, Reading
  <2>3. /\ Tables.tokens \subseteq Nat \ {0} /\ Len(input) \in Nat
        /\ input \in Seq(Tables.tokens)
    BY <2>1, TablesFacts DEF IInv, InSystem
  <2>4. yylookahead \in Nat
    <3>1. k + 1 \in Nat
      BY <2>3
    <3>. QED
      BY <2>2, <2>3, <3>1, TokenAtFacts DEF ReadTo
  <2>5. rest \in Seq(Nat)
    <3>1. \A x \in k + 1 + 1 .. Len(input) : input[x] \in Nat
      <4>1. \A x \in 1 .. Len(input) : input[x] \in Tables.tokens
        BY <2>3, ElementOfSeq
      <4>. QED
        BY <2>3, <4>1
    <3>2. k + 1 + 1 \in Int /\ Len(input) \in Int
      BY <2>3
    <3>. QED
      BY <2>2, <3>1, <3>2, SubSeqProperties DEF ReadTo, Piece
  <2>. QED
    BY <2>1, <2>4, <2>5 DEF IInv, TypeOK, Pointers, Counters, Arrays, States
<1>. QED
  BY <1>1, Invariance, PTL

\* $1, $2, ... in yy_act() and the states below a reduction: through every shift, reduction
\* and recovery the state stack is a path in the tables, and the value beside each state is
\* a string of the symbol the state was entered on.
THEOREM StacksStayInStep == Spec => []StacksInStep
<1>1. IInv => StacksInStep
  <2>1. SUFFICES ASSUME IInv, Running
                 PROVE  StacksInStep
    BY DEF StacksInStep, StateStackIsPath, ValuesMatchStates, Running
  <2>2. PICK held, at : Holding(held, at)
    BY <2>1 DEF IInv, StacksHold
  <2>3. /\ Path(Tables, Yy_stack, vsp) /\ Spells(Tables, Yy_stack, Yy_vstack, vsp, held, at)
        /\ (pc = "recover" => vsp = old_sp) /\ (pc # "recover" => vsp = sp)
    BY <2>1, <2>2 DEF Holding, OnStack, IInv, Pointers, Running
  <2>4. StateStackIsPath
    BY <2>3 DEF StateStackIsPath, Path
  <2>5. ValuesMatchStates
    BY <2>3 DEF ValuesMatchStates, Spells
  <2>. QED
    BY <2>4, <2>5 DEF StacksInStep
<1>. QED
  BY <1>1, Invariance, PTL

\* yy_recover(): a token is skipped only when no state on the stack could go on with it.
THEOREM OnlyHopelessTokensSkipped == Spec => SkipsOnlyHopeless
<1>1. ASSUME IInv, [Next]_vars, pc = "recover", rest' # rest
      PROVE  \A n \in 1 .. old_sp : yy_next(Tables.Yy_action, Yy_stack[n], yylookahead) = YYF
  <2>1. SkipToken
    BY <1>1 DEF Next, vars, Shift, StackOverflow, Reduce, WriteOutside, Accept, ActionReturns,
                ErrorFound, PopState, Recovered
  <2>2. sp = 0 /\ sp + 1 = 1
    BY <2>1 DEF SkipToken
  <2>. QED
    BY <1>1, <2>2 DEF IInv, Hopeless
<1>2. IInv /\ [Next]_vars =>
        [pc = "recover" /\ rest' # rest =>
           \A n \in 1 .. old_sp :
             yy_next(Tables.Yy_action, Yy_stack[n], yylookahead) = YYF]_vars
  BY <1>1
<1>. QED
  BY <1>2, Invariance, PTL DEF Spec, SkipsOnlyHopeless

----------------------------------------------------------------------------
(***************************************************************************)
(* Tables without conflicts keep to the derivation of a sentence.          *)
(***************************************************************************)

\* An open item of a parse of s: where its dot is on the stack, and the position in s its
\* right-hand side will end at.
Open(P, stack, top, s, pos, item) ==
  /\ item.rule \in DOMAIN P.Yy_reduce
  /\ item.at \in 1 .. top
  /\ item.end \in pos .. Len(s)
  /\ <<item.rule, item.dot, TokenAt(s, item.end + 1)>> \in P.items[stack[item.at]]

\* An open item is there for the symbol behind the dot of another, and what follows that
\* symbol stands for what is between the ends of the two.
Calls(P, s, outer, inner) ==
  /\ inner.at - inner.dot = outer.at
  /\ outer.dot < P.Yy_reduce[outer.rule]
  /\ P.Yy_lhs[inner.rule] = P.rhs[outer.rule][outer.dot + 1]
  /\ Piece(s, inner.end, outer.end) \in P.after[outer.rule][outer.dot + 1]

Nested(outer, inner) == outer.at <= inner.at /\ inner.end <= outer.end

\* The parser has open[1], ..., open[k] open after pos tokens of s, and what is behind the
\* dot of the last one stands for the tokens up to its end.
Course(P, stack, top, s, pos, open, k) ==
  /\ k \in Nat \ {0}
  /\ open[1].rule = 0
  /\ \A i \in 1 .. k : Open(P, stack, top, s, pos, open[i])
  /\ \A i \in 1 .. k - 1 : Calls(P, s, open[i], open[i + 1])
  /\ \A i \in 1 .. k : \A j \in i .. k : Nested(open[i], open[j])
  /\ open[k].at = top
  /\ Piece(s, pos, open[k].end) \in P.after[open[k].rule][open[k].dot]

\* What the lemmas are about.
Situation(P, stack, top, s, pos) ==
  /\ IsParser(P)
  /\ ConflictFree(P)
  /\ top \in Elements
  /\ stack \in [Elements -> States(P)]
  /\ s \in Seq(P.tokens)
  /\ pos \in 0 .. Len(s)

LEMMA OpenFacts ==
  ASSUME NEW P, NEW stack, NEW top, NEW s, NEW pos, Situation(P, stack, top, s, pos),
         NEW item, Open(P, stack, top, s, pos, item)
  PROVE  /\ item.rule \in DOMAIN P.Yy_reduce /\ P.Yy_reduce[item.rule] \in Nat
         /\ item.dot \in 0 .. P.Yy_reduce[item.rule]
         /\ item.at \in Elements /\ item.at \in 1 .. top /\ stack[item.at] \in States(P)
         /\ item.end \in pos .. Len(s) /\ item.end \in Nat /\ pos \in Nat /\ Len(s) \in Nat
         /\ pos \in 0 .. Len(s)
         /\ TokenAt(s, item.end + 1) \in P.tokens \cup {0}
<1>1. Len(s) \in Nat /\ pos \in 0 .. Len(s) /\ s \in Seq(P.tokens) /\ IsParser(P)
  BY LenProperties DEF Situation
<1>2. item.end \in pos .. Len(s) /\ item.end \in Nat /\ item.end + 1 \in Nat /\ pos \in Nat
  BY <1>1 DEF Open
<1>3. item.at \in Elements /\ item.at \in 1 .. top /\ stack[item.at] \in States(P)
  BY ElementsFacts DEF Open, Situation
<1>4. /\ item.rule \in DOMAIN P.Yy_reduce /\ P.Yy_reduce[item.rule] \in Nat
      /\ item.dot \in 0 .. P.Yy_reduce[item.rule]
  <2>. DEFINE triple == <<item.rule, item.dot, TokenAt(s, item.end + 1)>>
  <2>1. triple \in P.items[stack[item.at]] /\ triple[1] = item.rule /\ triple[2] = item.dot
    BY DEF Open
  <2>. HIDE DEF triple
  <2>. QED
    BY <1>1, <1>3, <2>1, ItemFacts
<1>5. TokenAt(s, item.end + 1) \in P.tokens \cup {0}
  <2>1. P.tokens \subseteq Nat \ {0}
    BY <1>1 DEF IsParser, TablesFit
  <2>. QED
    BY <1>1, <1>2, <2>1, TokenAtFacts
<1>. QED
  BY <1>1, <1>2, <1>3, <1>4, <1>5

\* What tables without conflicts have for an item whose dot is not at its end.
LEMMA ConflictFreeFacts ==
  ASSUME NEW P, ConflictFree(P), NEW n \in States(P), NEW p, NEW d, NEW la,
         <<p, d, la>> \in P.items[n], d # P.Yy_reduce[p]
  PROVE  /\ \E m \in States(P) :
              Leads(P, n, P.rhs[p][d + 1], m) /\ <<p, d + 1, la>> \in P.items[m]
         /\ \A q \in DOMAIN P.Yy_reduce : \A t \in P.after[p][d + 1] :
              P.Yy_lhs[q] = P.rhs[p][d + 1] =>
                <<q, 0, IF t = <<>> THEN la ELSE t[1]>> \in P.items[n]
<1>. DEFINE item == <<p, d, la>>
<1>1. item[1] = p /\ item[2] = d /\ item[3] = la /\ item \in P.items[n]
  OBVIOUS
<1>. HIDE DEF item
<1>2. /\ \E m \in DOMAIN P.Yy_action :
           /\ Leads(P, n, P.rhs[item[1]][item[2] + 1], m)
           /\ <<item[1], item[2] + 1, item[3]>> \in P.items[m]
      /\ \A q \in DOMAIN P.Yy_reduce : \A t \in P.after[item[1]][item[2] + 1] :
           P.Yy_lhs[q] = P.rhs[item[1]][item[2] + 1] =>
             <<q, 0, IF t = <<>> THEN item[3] ELSE t[1]>> \in P.items[n]
  BY <1>1 DEF ConflictFree, States
<1>. QED
  BY <1>1, <1>2 DEF States

\* There is one transition on a symbol.
LEMMA LeadsOnce ==
  ASSUME NEW P, IsParser(P), NEW n \in States(P), NEW sym, NEW m, Leads(P, n, sym, m)
  PROVE  /\ sym \in P.tokens => yy_next(P.Yy_action, n, sym) = m /\ m # YYF /\ m > 0
         /\ sym \notin P.tokens => yy_next(P.Yy_goto, n, sym) = m
<1>1. CASE sym \in DOMAIN P.Yy_goto[n] /\ m = P.Yy_goto[n][sym]
  <2>1. sym \notin P.tokens
    BY <1>1 DEF IsParser, TablesFit, States
  <2>. QED
    BY <1>1, <2>1 DEF yy_next
<1>2. CASE sym \in DOMAIN P.Yy_action[n] /\ m = P.Yy_action[n][sym] /\ m > 0
  <2>1. sym \in P.tokens /\ m \in 0 .. YYF - 1
    <3>1. \/ m \in States(P) \ {0} /\ sym \in P.tokens
          \/ m \in Int /\ -m \in Nat
      BY <1>2 DEF IsParser, TablesFit, States
    <3>2. m \in States(P) \ {0} /\ sym \in P.tokens
      BY <1>2, <3>1
    <3>. QED
      BY <3>2 DEF IsParser, TablesFit, States
  <2>2. m # YYF
    <3>1. \A x \in 0 .. YYF - 1 : x # YYF
      BY DEF YYF
    <3>. QED
      BY <2>1, <3>1
  <2>. QED
    BY <1>2, <2>1, <2>2 DEF yy_next
<1>. QED
  BY <1>1, <1>2 DEF Leads

\* Before anything is read: production 0 is the goal symbol's only one.
LEMMA CourseStart ==
  ASSUME NEW P, NEW stack, NEW s, Situation(P, stack, 1, s, 0), stack[1] = 0,
         s \in P.strings[P.Yy_lhs[0]]
  PROVE  \E open, k : Course(P, stack, 1, s, 0, open, k)
<1>. DEFINE first == [rule |-> 0, dot |-> 0, at |-> 1, end |-> Len(s)]
            open == [i \in 1 .. 1 |-> first]
<1>1. /\ IsParser(P) /\ ConflictFree(P) /\ s \in Seq(P.tokens) /\ Len(s) \in Nat
      /\ 0 \in DOMAIN P.Yy_reduce
  BY LenProperties DEF Situation, IsParser, TablesFit
<1>2. s \in P.after[0][0]
  <2>1. P.Yy_lhs[0] \in DOMAIN P.strings \ P.tokens
    BY <1>1, AfterFacts
  <2>2. PICK p \in DOMAIN P.Yy_reduce : DerivedBy(P, P.Yy_lhs[0], s, p)
    BY <1>1, <2>1 DEF IsParser, DerivesStrings
  <2>3. p = 0
    BY <1>1, <2>2 DEF IsParser, TablesFit, DerivedBy
  <2>. QED
    BY <2>2, <2>3 DEF DerivedBy
<1>3. TokenAt(s, Len(s) + 1) = 0
  BY <1>1 DEF TokenAt
<1>4. Piece(s, 0, Len(s)) = s
  BY <1>1, PieceWhole
<1>5. /\ first.rule = 0 /\ first.dot = 0 /\ first.at = 1 /\ first.end = Len(s)
      /\ \A i \in 1 .. 1 : open[i] = first
      /\ 1 \in 1 .. 1 /\ Len(s) \in 0 .. Len(s)
      /\ ~(\E i \in 1 .. 1 - 1 : TRUE) /\ \A i \in 1 .. 1 : \A j \in i .. 1 : i = j /\ i = 1
  BY <1>1
<1>. HIDE DEF first
<1>6. Open(P, stack, 1, s, 0, first)
  BY <1>1, <1>3, <1>5 DEF Open, ConflictFree
<1>. HIDE DEF open
<1>7. /\ open[1] = first /\ open[1].rule = 0 /\ open[1].at = 1
      /\ Piece(s, 0, open[1].end) \in P.after[open[1].rule][open[1].dot]
  BY <1>2, <1>4, <1>5
<1>8. /\ \A i \in 1 .. 1 : Open(P, stack, 1, s, 0, open[i])
      /\ \A i \in 1 .. 1 - 1 : Calls(P, s, open[i], open[i + 1])
      /\ \A i \in 1 .. 1 : \A j \in i .. 1 : Nested(open[i], open[j])
  BY <1>1, <1>5, <1>6, <1>7 DEF Nested
<1>9. Course(P, stack, 1, s, 0, open, 1)
  BY <1>7, <1>8 DEF Course
<1>. QED
  BY <1>9

\* How the rest of an open item divides into its next symbol and what is behind it.
Divides(P, s, pos, item, u, v) ==
  /\ item.dot < P.Yy_reduce[item.rule]
  /\ u \in P.strings[P.rhs[item.rule][item.dot + 1]]
  /\ v \in P.after[item.rule][item.dot + 1]
  /\ Joins(Piece(s, pos, item.end), u, v)

Ready(P, item) ==
  item.dot < P.Yy_reduce[item.rule] => P.rhs[item.rule][item.dot + 1] \in P.tokens

LEMMA DividesFacts ==
  ASSUME NEW P, NEW stack, NEW top, NEW s, NEW pos, Situation(P, stack, top, s, pos),
         NEW item, Open(P, stack, top, s, pos, item),
         NEW u, NEW v, Divides(P, s, pos, item, u, v)
  PROVE  LET X == P.rhs[item.rule][item.dot + 1]
             end == pos + Len(u)
         IN /\ X \in DOMAIN P.strings
            /\ u \in Seq(P.tokens) /\ Len(u) \in Nat /\ P.rank[X][u] \in Nat
            /\ end \in pos .. item.end
            /\ u = Piece(s, pos, end)
            /\ v = Piece(s, end, item.end)
            /\ (IF v = <<>> THEN TokenAt(s, item.end + 1) ELSE v[1]) = TokenAt(s, end + 1)
<1>. DEFINE X == P.rhs[item.rule][item.dot + 1]
            end == pos + Len(u)
<1>1. /\ IsParser(P) /\ s \in Seq(P.tokens) /\ pos \in 0 .. Len(s)
      /\ item.rule \in DOMAIN P.Yy_reduce /\ P.Yy_reduce[item.rule] \in Nat
      /\ item.dot \in 0 .. P.Yy_reduce[item.rule]
      /\ item.end \in pos .. Len(s) /\ Len(s) \in Nat
  BY OpenFacts DEF Situation
<1>2. item.dot \in 0 .. P.Yy_reduce[item.rule] - 1
  BY <1>1 DEF Divides
<1>3. X \in DOMAIN P.strings
  BY <1>1, <1>2, AfterFacts
<1>4. u \in Seq(P.tokens) /\ P.rank[X][u] \in Nat /\ Len(u) \in Nat
  <2>1. u \in P.strings[X]
    BY DEF Divides
  <2>2. u \in Seq(P.tokens) /\ P.rank[X][u] \in Nat
    BY <1>1, <1>3, <2>1 DEF IsParser, DerivesStrings
  <2>. QED
    BY <2>2, LenProperties
<1>5. v \in Seq(P.tokens)
  <2>1. v \in P.after[item.rule][item.dot + 1]
    BY DEF Divides
  <2>. QED
    BY <1>1, <1>2, <2>1, AfterStrings
<1>6. Joins(Piece(s, pos, item.end), u, v)
  BY DEF Divides
<1>7. end \in pos .. item.end /\ u = Piece(s, pos, end) /\ v = Piece(s, end, item.end)
  BY <1>1, <1>4, <1>5, <1>6, PieceSplit
<1>8. (IF v = <<>> THEN TokenAt(s, item.end + 1) ELSE v[1]) = TokenAt(s, end + 1)
  <2>1. end \in 0 .. Len(s) /\ item.end \in end .. Len(s) /\ end \in Int /\ item.end \in Int
    BY <1>1, <1>7
  <2>2. /\ Len(v) = item.end - end
        /\ \A x \in 1 .. item.end - end : v[x] = s[end + x]
    <3>1. \A i \in 0 .. Len(s) : \A j \in i .. Len(s) :
            /\ Piece(s, i, j) \in Seq(P.tokens) /\ Len(Piece(s, i, j)) = j - i
            /\ \A x \in 1 .. j - i : Piece(s, i, j)[x] = s[i + x]
      BY <1>1, PieceFacts
    <3>. HIDE DEF end
    <3>. QED
      BY <1>7, <2>1, <3>1
  <2>3. CASE v = <<>>
    <3>1. item.end = end
      BY <2>1, <2>2, <2>3
    <3>. QED
      BY <2>3, <3>1
  <2>4. CASE v # <<>>
    <3>1. Len(v) \in Nat \ {0}
      BY <1>5, <2>4, EmptySeq
    <3>2. 1 \in 1 .. item.end - end /\ end + 1 \in 1 .. Len(s)
      BY <1>1, <2>1, <2>2, <3>1
    <3>3. v[1] = s[end + 1]
      BY <2>2, <3>2
    <3>. QED
      BY <2>4, <3>2, <3>3 DEF TokenAt
  <2>. QED
    BY <2>3, <2>4
<1>. QED
  BY <1>3, <1>4, <1>7, <1>8

\* The first j of the open items, and another one on top.
LEMMA CourseEnd ==
  ASSUME NEW P, NEW stack, NEW top, NEW s, NEW pos, Situation(P, stack, top, s, pos),
         NEW open, NEW k, Course(P, stack, top, s, pos, open, k),
         NEW stack2, NEW top2, NEW pos2, Situation(P, stack2, top2, s, pos2),
         NEW j \in 0 .. k, NEW last,
         Open(P, stack2, top2, s, pos2, last),
         last.at = top2,
         Piece(s, pos2, last.end) \in P.after[last.rule][last.dot],
         j = 0 => last.rule = 0,
         j > 0 => /\ Calls(P, s, open[j], last)
                  /\ Nested(open[j], last)
                  /\ \A x \in 1 .. open[j].at : stack2[x] = stack[x]
  PROVE  \E open2 : Course(P, stack2, top2, s, pos2, open2, j + 1) /\ open2[j + 1] = last
<1>. DEFINE open2 == [i \in 1 .. j + 1 |-> IF i = j + 1 THEN last ELSE open[i]]
<1>1. k \in Nat \ {0} /\ j \in Nat
  BY DEF Course
<1>2. /\ \A i \in 1 .. j : open2[i] = open[i] /\ i \in 1 .. k /\ j \in i .. k
                          /\ j > 0 /\ (i = 1 => j > 0)
      /\ open2[j + 1] = last /\ j + 1 \in 1 .. j + 1
      /\ 1 \in 1 .. j + 1
      /\ \A i \in 1 .. j + 1 : i \in 1 .. j \/ i = j + 1
  BY <1>1
<1>. HIDE DEF open2
<1>3. /\ \A i \in 1 .. k : Open(P, stack, top, s, pos, open[i])
      /\ \A i \in 1 .. k : \A m \in i .. k : Nested(open[i], open[m])
      /\ \A i \in 1 .. k - 1 : Calls(P, s, open[i], open[i + 1])
  BY DEF Course
<1>4. /\ top2 \in Nat \ {0} /\ Len(s) \in Nat /\ pos2 \in Nat
      /\ last.end \in pos2 .. Len(s) /\ last.at \in Int
  <2>1. /\ Len(s) \in Nat /\ pos2 \in Nat /\ last.end \in pos2 .. Len(s)
    BY OpenFacts
  <2>. QED
    BY <2>1, ElementsFacts DEF Situation
\* An item further out is below the last one, and ends behind it.
<1>5. ASSUME NEW i \in 1 .. j
      PROVE  /\ Nested(open[i], last)
             /\ Open(P, stack2, top2, s, pos2, open[i])
  <2>1. i \in 1 .. k /\ j \in 1 .. k /\ j \in i .. k /\ j > 0
    BY <1>1, <1>2
  <2>2. Nested(open[i], open[j]) /\ Nested(open[j], last)
    BY <1>3, <2>1
  <2>3. Open(P, stack, top, s, pos, open[i]) /\ Open(P, stack, top, s, pos, open[j])
    BY <1>3, <2>1
  <2>4. /\ open[i].at \in Int /\ open[i].at \in 1 .. top /\ open[i].end \in Int
        /\ open[i].end \in pos .. Len(s) /\ top \in Int /\ pos \in Int
    <3>1. /\ open[i].at \in 1 .. top /\ open[i].end \in Nat
          /\ open[i].end \in pos .. Len(s) /\ pos \in Nat
      BY <2>3, OpenFacts
    <3>2. top \in Nat \ {0}
      BY ElementsFacts DEF Situation
    <3>. QED
      BY <3>1, <3>2
  <2>5. open[j].at \in Int /\ open[j].end \in Int
    <3>1. /\ open[j].at \in 1 .. top /\ open[j].end \in Nat
      BY <2>3, OpenFacts
    <3>. QED
      BY <2>4, <3>1
  <2>6. Nested(open[i], last)
    <3>1. \A x, y, z \in Int : x <= y /\ y <= z => x <= z
      OBVIOUS
    <3>2. last.at \in Int /\ last.end \in Int
      BY <1>4
    <3>3. open[i].at <= open[j].at /\ open[j].at <= last.at
      BY <2>2 DEF Nested
    <3>4. last.end <= open[j].end /\ open[j].end <= open[i].end
      BY <2>2 DEF Nested
    <3>5. open[i].at <= last.at
      BY <2>4, <2>5, <3>1, <3>2, <3>3
    <3>6. last.end <= open[i].end
      BY <2>4, <2>5, <3>1, <3>2, <3>4
    <3>. QED
      BY <3>5, <3>6 DEF Nested
  <2>7. open[i].at \in 1 .. open[j].at
    BY <2>2, <2>4, <2>5 DEF Nested
  <2>8. stack2[open[i].at] = stack[open[i].at]
    BY <2>1, <2>7
  <2>9. open[i].at \in 1 .. top2 /\ open[i].end \in pos2 .. Len(s)
    BY <1>4, <2>4, <2>6 DEF Nested
  <2>. QED
    BY <2>3, <2>6, <2>8, <2>9 DEF Open
<1>6. ASSUME NEW i \in 1 .. j + 1
      PROVE  Open(P, stack2, top2, s, pos2, open2[i])
  BY <1>2, <1>5
<1>7. ASSUME NEW i \in 1 .. j + 1 - 1
      PROVE  Calls(P, s, open2[i], open2[i + 1])
  <2>1. CASE i = j
    BY <1>1, <1>2, <2>1
  <2>2. CASE i # j
    <3>1. i \in 1 .. j /\ i + 1 \in 1 .. j /\ i \in 1 .. k - 1
      BY <1>1, <2>2
    <3>. QED
      BY <1>2, <1>3, <3>1
  <2>. QED
    BY <2>1, <2>2
<1>8. ASSUME NEW i \in 1 .. j + 1, NEW m \in i .. j + 1
      PROVE  Nested(open2[i], open2[m])
  <2>1. CASE m = j + 1 /\ i = j + 1
    BY <1>2, <1>4, <2>1 DEF Nested
  <2>2. CASE m = j + 1 /\ i # j + 1
    BY <1>2, <1>5, <2>2
  <2>3. CASE m # j + 1
    <3>1. i \in 1 .. j /\ m \in 1 .. j /\ m \in i .. k
      BY <1>1, <2>3
    <3>. QED
      BY <1>2, <1>3, <3>1
  <2>. QED
    BY <2>1, <2>2, <2>3
<1>9. open2[1].rule = 0
  <2>1. CASE j = 0
    BY <1>2, <2>1
  <2>2. CASE j # 0
    <3>1. 1 \in 1 .. j
      BY <1>1, <2>2
    <3>. QED
      BY <1>2, <3>1 DEF Course
  <2>. QED
    BY <2>1, <2>2
<1>10. j + 1 \in Nat \ {0}
  BY <1>1
<1>11. Course(P, stack2, top2, s, pos2, open2, j + 1)
  BY <1>2, <1>6, <1>7, <1>8, <1>9, <1>10 DEF Course
<1>. QED
  BY <1>2, <1>11

\* The last of k open items.
LastOpen(P, stack, top, s, pos, k, last) ==
  /\ k \in Nat \ {0} /\ k \in 0 .. k /\ k > 0 /\ k \in 1 .. k
  /\ Open(P, stack, top, s, pos, last)
  /\ last.rule \in DOMAIN P.Yy_reduce /\ P.Yy_reduce[last.rule] \in Nat
  /\ last.dot \in 0 .. P.Yy_reduce[last.rule]
  /\ last.at = top /\ top \in Elements /\ top \in Nat \ {0}
  /\ stack[top] \in States(P)
  /\ last.end \in pos .. Len(s) /\ last.end \in Nat /\ pos \in Nat /\ Len(s) \in Nat
  /\ pos \in 0 .. Len(s)
  /\ TokenAt(s, last.end + 1) \in P.tokens \cup {0}
  /\ Piece(s, pos, last.end) \in P.after[last.rule][last.dot]
  /\ <<last.rule, last.dot, TokenAt(s, last.end + 1)>> \in P.items[stack[top]]

LEMMA LastFacts ==
  ASSUME NEW P, NEW stack, NEW top, NEW s, NEW pos, Situation(P, stack, top, s, pos),
         NEW open, NEW k, Course(P, stack, top, s, pos, open, k)
  PROVE  LastOpen(P, stack, top, s, pos, k, open[k])
<1>. DEFINE last == open[k]
<1>1. /\ k \in Nat \ {0} /\ last.at = top
      /\ Piece(s, pos, last.end) \in P.after[last.rule][last.dot]
      /\ \A i \in 1 .. k : Open(P, stack, top, s, pos, open[i])
  BY DEF Course
<1>2. k \in 0 .. k /\ k > 0 /\ k \in 1 .. k
  BY <1>1
<1>3. Open(P, stack, top, s, pos, last)
  BY <1>1, <1>2
<1>. HIDE DEF last
<1>4. /\ last.rule \in DOMAIN P.Yy_reduce /\ P.Yy_reduce[last.rule] \in Nat
      /\ last.dot \in 0 .. P.Yy_reduce[last.rule]
      /\ stack[last.at] \in States(P)
      /\ last.end \in pos .. Len(s) /\ last.end \in Nat /\ pos \in Nat /\ Len(s) \in Nat
      /\ pos \in 0 .. Len(s)
      /\ TokenAt(s, last.end + 1) \in P.tokens \cup {0}
  BY <1>3, OpenFacts
<1>5. top \in Elements /\ top \in Nat \ {0}
  BY ElementsFacts DEF Situation
<1>6. <<last.rule, last.dot, TokenAt(s, last.end + 1)>> \in P.items[stack[last.at]]
  BY <1>3 DEF Open
<1>. QED
  BY <1>1, <1>2, <1>3, <1>4, <1>5, <1>6 DEF last, LastOpen

LEMMA LastDivides ==
  ASSUME NEW P, NEW stack, NEW top, NEW s, NEW pos, Situation(P, stack, top, s, pos),
         NEW open, NEW k, Course(P, stack, top, s, pos, open, k),
         open[k].dot # P.Yy_reduce[open[k].rule]
  PROVE  \E u, v : Divides(P, s, pos, open[k], u, v)
<1>. DEFINE last == open[k]
            p == last.rule
            d == last.dot
<1>1. /\ p \in DOMAIN P.Yy_reduce /\ P.Yy_reduce[p] \in Nat /\ d \in 0 .. P.Yy_reduce[p]
      /\ Piece(s, pos, last.end) \in P.after[p][d] /\ d # P.Yy_reduce[p]
      /\ IsParser(P)
  BY LastFacts DEF LastOpen, Situation
<1>. HIDE DEF last, p, d
<1>2. d \in 0 .. P.Yy_reduce[p] - 1 /\ d < P.Yy_reduce[p]
  BY <1>1
<1>3. \A t \in P.after[p][d] :
        \E u \in P.strings[P.rhs[p][d + 1]], v \in P.after[p][d + 1] : Joins(t, u, v)
  BY <1>1, <1>2, AfterFacts
<1>4. PICK u \in P.strings[P.rhs[p][d + 1]], v \in P.after[p][d + 1] :
        Joins(Piece(s, pos, last.end), u, v)
  BY <1>1, <1>3
<1>5. Divides(P, s, pos, last, u, v)
  BY <1>2, <1>4 DEF Divides, p, d
<1>. QED
  BY <1>5 DEF last

\* A course with k open items, the last of which has its dot at the end, or in front of a
\* symbol with a derivation of height less than n.
LowerCourse(P, stack, top, s, pos, k, n) ==
  \E open :
    /\ Course(P, stack, top, s, pos, open, k)
    /\ \/ open[k].dot = P.Yy_reduce[open[k].rule]
       \/ \E u, v :
            /\ Divides(P, s, pos, open[k], u, v)
            /\ P.rank[P.rhs[open[k].rule][open[k].dot + 1]][u] < n

\* The symbol behind the last dot is a nonterminal: one of its productions is opened, such
\* that its own first symbol is derived in fewer steps.
LEMMA CourseCall ==
  ASSUME NEW P, NEW stack, NEW top, NEW s, NEW pos, Situation(P, stack, top, s, pos),
         NEW open, NEW k, Course(P, stack, top, s, pos, open, k),
         NEW u, NEW v, Divides(P, s, pos, open[k], u, v),
         NEW X, X = P.rhs[open[k].rule][open[k].dot + 1], X \notin P.tokens
  PROVE  LowerCourse(P, stack, top, s, pos, k + 1, P.rank[X][u])
<1>. DEFINE outer == open[k]
            end == pos + Len(u)
<1>1. /\ k \in Nat \ {0} /\ k \in 0 .. k /\ k > 0
      /\ Open(P, stack, top, s, pos, outer)
      /\ outer.rule \in DOMAIN P.Yy_reduce /\ P.Yy_reduce[outer.rule] \in Nat
      /\ outer.dot \in 0 .. P.Yy_reduce[outer.rule]
      /\ outer.at = top /\ top \in Elements /\ top \in Nat \ {0} /\ stack[top] \in States(P)
      /\ outer.end \in pos .. Len(s) /\ outer.end \in Nat /\ pos \in Nat /\ Len(s) \in Nat
      /\ <<outer.rule, outer.dot, TokenAt(s, outer.end + 1)>> \in P.items[stack[top]]
  BY LastFacts DEF LastOpen
<1>2. IsParser(P) /\ ConflictFree(P)
  BY DEF Situation
<1>3. /\ outer.dot < P.Yy_reduce[outer.rule] /\ u \in P.strings[X]
      /\ v \in P.after[outer.rule][outer.dot + 1]
  BY DEF Divides
<1>4. /\ X \in DOMAIN P.strings /\ Len(u) \in Nat
      /\ end \in pos .. outer.end
      /\ u = Piece(s, pos, end)
      /\ v = Piece(s, end, outer.end)
      /\ (IF v = <<>> THEN TokenAt(s, outer.end + 1) ELSE v[1]) = TokenAt(s, end + 1)
  <2>1. Divides(P, s, pos, outer, u, v) /\ X = P.rhs[outer.rule][outer.dot + 1]
    OBVIOUS
  <2>. HIDE DEF outer
  <2>. QED
    BY <1>1, <2>1, DividesFacts
<1>5. PICK q \in DOMAIN P.Yy_reduce : DerivedBy(P, X, u, q)
  BY <1>2, <1>3, <1>4 DEF IsParser, DerivesStrings
<1>. DEFINE inner == [rule |-> q, dot |-> 0, at |-> top, end |-> end]
<1>6. inner.rule = q /\ inner.dot = 0 /\ inner.at = top /\ inner.end = end
  OBVIOUS
<1>. HIDE DEF outer, end, inner
<1>7. P.Yy_lhs[q] = X /\ u \in P.after[q][0] /\ P.Yy_reduce[q] \in Nat
  BY <1>2, <1>5 DEF DerivedBy, IsParser, TablesFit
<1>8. <<q, 0, TokenAt(s, end + 1)>> \in P.items[stack[top]]
  <2>1. outer.dot # P.Yy_reduce[outer.rule] /\ X = P.rhs[outer.rule][outer.dot + 1]
    BY <1>1, <1>3 DEF outer
  <2>2. \A t \in P.after[outer.rule][outer.dot + 1] :
          <<q, 0, IF t = <<>> THEN TokenAt(s, outer.end + 1) ELSE t[1]>> \in P.items[stack[top]]
    <3>. DEFINE la == TokenAt(s, outer.end + 1)
                n == stack[top]
    <3>1. n \in States(P) /\ <<outer.rule, outer.dot, la>> \in P.items[n]
      BY <1>1
    <3>. HIDE DEF la, n
    <3>2. \A x \in DOMAIN P.Yy_reduce : \A t \in P.after[outer.rule][outer.dot + 1] :
            P.Yy_lhs[x] = P.rhs[outer.rule][outer.dot + 1] =>
              <<x, 0, IF t = <<>> THEN la ELSE t[1]>> \in P.items[n]
      BY <1>2, <2>1, <3>1, ConflictFreeFacts
    <3>3. \A t \in P.after[outer.rule][outer.dot + 1] :
            <<q, 0, IF t = <<>> THEN la ELSE t[1]>> \in P.items[n]
      BY <1>7, <2>1, <3>2
    <3>. QED
      BY <3>3 DEF la, n
  <2>3. <<q, 0, IF v = <<>> THEN TokenAt(s, outer.end + 1) ELSE v[1]>> \in P.items[stack[top]]
    BY <1>3, <2>2
  <2>. QED
    BY <1>4, <2>3
<1>9. Open(P, stack, top, s, pos, inner)
  <2>1. top \in 1 .. top /\ end \in pos .. Len(s)
    BY <1>1, <1>4
  <2>. QED
    BY <1>6, <1>8, <2>1 DEF Open
<1>10. Calls(P, s, outer, inner)
  <2>1. top - 0 = top
    BY <1>1
  <2>. QED
    BY <1>1, <1>3, <1>4, <1>6, <1>7, <2>1 DEF Calls, outer
<1>11. Nested(outer, inner)
  BY <1>1, <1>4, <1>6 DEF Nested
<1>12. PICK open2 : Course(P, stack, top, s, pos, open2, k + 1) /\ open2[k + 1] = inner
  <2>1. Piece(s, pos, inner.end) \in P.after[inner.rule][inner.dot]
    BY <1>4, <1>6, <1>7
  <2>2. k # 0 /\ \A x \in 1 .. open[k].at : stack[x] = stack[x]
    BY <1>1
  <2>3. Calls(P, s, open[k], inner) /\ Nested(open[k], inner)
    BY <1>10, <1>11 DEF outer
  <2>. QED
    BY <1>1, <1>6, <1>9, <2>1, <2>2, <2>3, CourseEnd
<1>13. CASE P.Yy_reduce[q] = 0
  BY <1>6, <1>12, <1>13 DEF LowerCourse
<1>14. CASE P.Yy_reduce[q] # 0
  <2>1. P.Yy_reduce[q] > 0 /\ 0 + 1 = 1
    BY <1>7, <1>14
  <2>2. PICK u2 \in P.strings[P.rhs[q][1]], v2 \in P.after[q][1] :
          u = u2 \o v2 /\ P.rank[P.rhs[q][1]][u2] < P.rank[X][u]
    BY <1>5, <2>1 DEF DerivedBy
  <2>3. Divides(P, s, pos, inner, u2, v2)
    BY <1>4, <1>6, <2>1, <2>2 DEF Divides, Joins
  <2>. QED
    BY <1>6, <1>12, <2>1, <2>2, <2>3 DEF LowerCourse
<1>. QED
  BY <1>13, <1>14

\* After finitely many of such steps, the parser has a token to shift or an item to reduce.
LEMMA CourseReady ==
  ASSUME NEW P, NEW stack, NEW top, NEW s, NEW pos, Situation(P, stack, top, s, pos),
         NEW open, NEW k, Course(P, stack, top, s, pos, open, k)
  PROVE  \E open2, k2 : Course(P, stack, top, s, pos, open2, k2) /\ Ready(P, open2[k2])
<1>. DEFINE Goal == \E open2, k2 : Course(P, stack, top, s, pos, open2, k2) /\ Ready(P, open2[k2])
            Next1(item) == P.rhs[item.rule][item.dot + 1]
            Bad == {n \in Nat : \E o, m, u, v :
                      /\ Course(P, stack, top, s, pos, o, m)
                      /\ Divides(P, s, pos, o[m], u, v)
                      /\ n = P.rank[Next1(o[m])][u]}
<1>. SUFFICES ASSUME ~Goal
              PROVE  FALSE
  OBVIOUS
<1>1. \A o, m : Course(P, stack, top, s, pos, o, m) =>
        o[m].dot # P.Yy_reduce[o[m].rule] /\ Next1(o[m]) \notin P.tokens
  <2>1. \A o, m : Course(P, stack, top, s, pos, o, m) => ~Ready(P, o[m])
    OBVIOUS
  <2>2. ASSUME NEW o, NEW m, Course(P, stack, top, s, pos, o, m)
        PROVE  o[m].dot # P.Yy_reduce[o[m].rule] /\ Next1(o[m]) \notin P.tokens
    <3>1. /\ P.Yy_reduce[o[m].rule] \in Nat /\ o[m].dot \in 0 .. P.Yy_reduce[o[m].rule]
      BY <2>2, LastFacts DEF LastOpen
    <3>2. o[m].dot < P.Yy_reduce[o[m].rule] /\ Next1(o[m]) \notin P.tokens
      BY <2>1, <2>2 DEF Ready
    <3>. QED
      BY <3>1, <3>2
  <2>. QED
    BY <2>2
<1>2. \A o, m, u, v : Course(P, stack, top, s, pos, o, m) /\ Divides(P, s, pos, o[m], u, v) =>
        P.rank[Next1(o[m])][u] \in Bad
  <2>1. ASSUME NEW o, NEW m, NEW u, NEW v, Course(P, stack, top, s, pos, o, m),
               Divides(P, s, pos, o[m], u, v)
        PROVE  P.rank[Next1(o[m])][u] \in Nat
    <3>1. Open(P, stack, top, s, pos, o[m])
      BY <2>1, LastFacts DEF LastOpen
    <3>. QED
      BY <2>1, <3>1, DividesFacts
  <2>. QED
    BY <2>1
<1>3. Bad # {}
  <2>1. PICK u, v : Divides(P, s, pos, open[k], u, v)
    BY <1>1, LastDivides
  <2>. QED
    BY <1>2, <2>1
<1>4. PICK n \in Bad : \A i \in Bad : n <= i
  <2>1. Bad \in SUBSET Nat
    OBVIOUS
  <2>. HIDE DEF Bad
  <2>. QED
    BY <1>3, <2>1, LeastOne
<1>5. PICK o, m, u, v : /\ Course(P, stack, top, s, pos, o, m)
                        /\ Divides(P, s, pos, o[m], u, v)
                        /\ n = P.rank[Next1(o[m])][u]
  OBVIOUS
<1>6. PICK o2 :
        /\ Course(P, stack, top, s, pos, o2, m + 1)
        /\ \/ o2[m + 1].dot = P.Yy_reduce[o2[m + 1].rule]
           \/ \E u2, v2 : /\ Divides(P, s, pos, o2[m + 1], u2, v2)
                          /\ P.rank[Next1(o2[m + 1])][u2] < n
  <2>. DEFINE Y == Next1(o[m])
  <2>1. Y = P.rhs[o[m].rule][o[m].dot + 1] /\ Y \notin P.tokens /\ n = P.rank[Y][u]
    BY <1>1, <1>5
  <2>. HIDE DEF Y
  <2>2. LowerCourse(P, stack, top, s, pos, m + 1, P.rank[Y][u])
    BY <1>5, <2>1, CourseCall
  <2>. QED
    BY <2>1, <2>2 DEF LowerCourse
<1>7. PICK u2, v2 : /\ Divides(P, s, pos, o2[m + 1], u2, v2)
                    /\ P.rank[Next1(o2[m + 1])][u2] < n
  BY <1>1, <1>6
<1>8. P.rank[Next1(o2[m + 1])][u2] \in Bad
  BY <1>2, <1>6, <1>7
<1>9. \A i, j \in Nat : i < j => ~(j <= i)
  OBVIOUS
<1>10. Bad \subseteq Nat
  OBVIOUS
<1>. HIDE DEF Bad
<1>. QED
  BY <1>4, <1>7, <1>8, <1>9, <1>10

\* The action the tables have is what the last open item asks for.
Reduces(P, s, pos, item, act) ==
  /\ item.dot = P.Yy_reduce[item.rule]
  /\ item.end = pos
  /\ act = -item.rule

Shifts(P, stack, top, s, pos, item, act) ==
  /\ item.dot < P.Yy_reduce[item.rule]
  /\ pos + 1 <= item.end
  /\ act > 0
  /\ act \in States(P)
  /\ <<item.rule, item.dot + 1, TokenAt(s, item.end + 1)>> \in P.items[act]
  /\ Piece(s, pos + 1, item.end) \in P.after[item.rule][item.dot + 1]

LEMMA CourseAction ==
  ASSUME NEW P, NEW stack, NEW top, NEW s, NEW pos, Situation(P, stack, top, s, pos),
         NEW open, NEW k, Course(P, stack, top, s, pos, open, k), Ready(P, open[k])
  PROVE  LET act == yy_next(P.Yy_action, stack[top], TokenAt(s, pos + 1))
         IN /\ act # YYF
            /\ Reduces(P, s, pos, open[k], act) \/ Shifts(P, stack, top, s, pos, open[k], act)
<1>. DEFINE last == open[k]
            p == last.rule
            d == last.dot
            la == TokenAt(s, last.end + 1)
            n == stack[top]
            act == yy_next(P.Yy_action, n, TokenAt(s, pos + 1))
<1>1. /\ p \in DOMAIN P.Yy_reduce /\ P.Yy_reduce[p] \in Nat
      /\ d \in 0 .. P.Yy_reduce[p]
      /\ n \in States(P)
      /\ last.end \in pos .. Len(s) /\ last.end \in Nat /\ pos \in Nat /\ Len(s) \in Nat
      /\ pos \in 0 .. Len(s)
      /\ la \in P.tokens \cup {0}
      /\ Piece(s, pos, last.end) \in P.after[p][d]
      /\ <<p, d, la>> \in P.items[n]
      /\ Open(P, stack, top, s, pos, last)
  BY LastFacts DEF LastOpen
<1>2. /\ IsParser(P) /\ ConflictFree(P) /\ s \in Seq(P.tokens) /\ p \in Nat
      /\ P.tokens \subseteq Nat \ {0}
  BY <1>1 DEF Situation, IsParser, TablesFit
<1>. HIDE DEF last, p, d
<1>3. CASE d = P.Yy_reduce[p]
  <2>1. P.after[p][d] = {<<>>}
    <3>1. P.after[p][P.Yy_reduce[p]] = {<<>>}
      BY <1>1, <1>2, AfterFacts
    <3>. QED
      BY <1>3, <3>1
  <2>2. last.end = pos
    <3>1. Len(Piece(s, pos, last.end)) = last.end - pos
      <4>1. \A i \in 0 .. Len(s) : \A j \in i .. Len(s) : /\ Piece(s, i, j) \in Seq(P.tokens)
                                                        /\ Len(Piece(s, i, j)) = j - i
        BY <1>2, PieceFacts
      <4>. QED
        BY <1>1, <4>1
    <3>2. Len(Piece(s, pos, last.end)) = 0
      BY <1>1, <2>1
    <3>. QED
      BY <1>1, <3>1, <3>2
  <2>3. act = -p
    <3>1. la = TokenAt(s, pos + 1)
      BY <2>2
    <3>2. yy_next(P.Yy_action, n, la) = -p
      <4>1. n \in States(P) /\ <<p, d, la>> \in P.items[n] /\ la \in P.tokens \cup {0}
            /\ ConflictFree(P)
        BY <1>1, <1>2
      <4>. DEFINE item == <<p, d, la>>
      <4>2. item[1] = p /\ item[2] = d /\ item[3] = la /\ item \in P.items[n]
        BY <4>1
      <4>. HIDE DEF la, n, item
      <4>3. la \in DOMAIN P.Yy_action[n] /\ P.Yy_action[n][la] = -p
        BY <1>3, <4>1, <4>2 DEF ConflictFree, States
      <4>. QED
        BY <4>3 DEF yy_next
    <3>. QED
      BY <3>1, <3>2
  <2>4. act # YYF
    <3>1. \A x \in Nat : -x <= 0 /\ -x # YYF
      BY DEF YYF
    <3>. HIDE DEF act, p
    <3>. QED
      BY <1>2, <2>3, <3>1
  <2>. QED
    BY <1>3, <2>2, <2>3, <2>4 DEF Reduces, last, p, d
<1>4. CASE d # P.Yy_reduce[p]
  <2>. DEFINE X == P.rhs[p][d + 1]
  <2>1. PICK u, v : Divides(P, s, pos, last, u, v)
    BY <1>4, LastDivides DEF last, p, d
  <2>2. /\ X \in DOMAIN P.strings /\ Len(u) \in Nat
        /\ pos + Len(u) \in pos .. last.end
        /\ u = Piece(s, pos, pos + Len(u))
        /\ v = Piece(s, pos + Len(u), last.end)
    <3>1. /\ Open(P, stack, top, s, pos, last) /\ X = P.rhs[last.rule][last.dot + 1]
      BY <1>1 DEF p, d
    <3>. HIDE DEF X
    <3>. QED
      BY <2>1, <3>1, DividesFacts
  <2>3. d < P.Yy_reduce[p] /\ u \in P.strings[X] /\ v \in P.after[p][d + 1]
    BY <2>1 DEF Divides, p, d
  <2>4. X \in P.tokens
    BY <2>3 DEF Ready, last, p, d
  <2>5. u = <<X>> /\ Len(u) = 1
    <3>1. P.strings[X] = {<<X>>}
      BY <1>2, <2>4, TokenString
    <3>. HIDE DEF X
    <3>2. u = <<X>>
      BY <2>3, <3>1
    <3>. QED
      BY <3>2
  <2>6. pos + 1 \in 1 .. Len(s) /\ pos + 1 <= last.end /\ pos \in 0 .. Len(s) - 1
    BY <1>1, <2>2, <2>5
  <2>7. X = TokenAt(s, pos + 1)
    <3>1. Piece(s, pos, pos + 1) = <<s[pos + 1]>>
      BY <1>2, <2>6, PieceOne
    <3>2. <<X>> = <<s[pos + 1]>>
      BY <2>2, <2>5, <3>1
    <3>3. X = s[pos + 1]
      BY <3>2
    <3>. QED
      BY <2>6, <3>3 DEF TokenAt
  <2>8. PICK m \in States(P) : Leads(P, n, X, m) /\ <<p, d + 1, la>> \in P.items[m]
    <3>1. n \in States(P) /\ <<p, d, la>> \in P.items[n]
      BY <1>1
    <3>. HIDE DEF la, n
    <3>. QED
      BY <1>2, <1>4, <3>1, ConflictFreeFacts
  <2>9. act = m /\ m # YYF /\ m > 0
    <3>1. yy_next(P.Yy_action, n, X) = m /\ m # YYF /\ m > 0
      BY <1>1, <1>2, <2>4, <2>8, LeadsOnce
    <3>. QED
      BY <2>7, <3>1
  <2>10. Piece(s, pos + 1, last.end) \in P.after[p][d + 1]
    BY <2>2, <2>3, <2>5
  <2>11. Shifts(P, stack, top, s, pos, last, m)
    BY <2>3, <2>6, <2>8, <2>9, <2>10 DEF Shifts, p, d
  <2>. QED
    BY <2>9, <2>11 DEF last
<1>. QED
  BY <1>3, <1>4

LEMMA CourseShift ==
  ASSUME NEW P, NEW stack, NEW top, NEW s, NEW pos, Situation(P, stack, top, s, pos),
         NEW open, NEW k, Course(P, stack, top, s, pos, open, k),
         NEW act, Shifts(P, stack, top, s, pos, open[k], act), top + 1 \in Elements
  PROVE  LET stack2 == [stack EXCEPT ![top + 1] = act]
         IN \E open2, k2 : Course(P, stack2, top + 1, s, pos + 1, open2, k2)
<1>. DEFINE last == open[k]
            stack2 == [stack EXCEPT ![top + 1] = act]
            last2 == [rule |-> last.rule, dot |-> last.dot + 1, at |-> top + 1, end |-> last.end]
            j == k - 1
<1>1. /\ k \in Nat \ {0} /\ k \in 1 .. k
      /\ last.rule \in DOMAIN P.Yy_reduce /\ P.Yy_reduce[last.rule] \in Nat
      /\ last.dot \in 0 .. P.Yy_reduce[last.rule]
      /\ last.at = top /\ top \in Nat \ {0}
      /\ last.end \in pos .. Len(s) /\ last.end \in Nat /\ pos \in Nat /\ Len(s) \in Nat
  <2>1. LastOpen(P, stack, top, s, pos, k, last)
    BY LastFacts
  <2>. HIDE DEF last
  <2>. QED
    BY <2>1 DEF LastOpen
<1>2. /\ act \in States(P) /\ pos + 1 <= last.end
      /\ <<last.rule, last.dot + 1, TokenAt(s, last.end + 1)>> \in P.items[act]
      /\ Piece(s, pos + 1, last.end) \in P.after[last.rule][last.dot + 1]
  BY DEF Shifts
<1>3. last2.rule = last.rule /\ last2.dot = last.dot + 1 /\ last2.at = top + 1 /\ last2.end = last.end
  OBVIOUS
<1>4. Situation(P, stack2, top + 1, s, pos + 1)
  BY <1>1, <1>2 DEF Situation
<1>5. /\ \A x \in 1 .. top : stack2[x] = stack[x]
      /\ stack2[top + 1] = act
  <2>1. \A x \in 1 .. top : x \in Elements /\ x # top + 1
    BY <1>1, ElementsFacts DEF Situation
  <2>. QED
    BY <2>1 DEF Situation
<1>. HIDE DEF stack2, last2, last
<1>6. Open(P, stack2, top + 1, s, pos + 1, last2)
  <2>1. top + 1 \in 1 .. top + 1 /\ last.end \in pos + 1 .. Len(s)
    BY <1>1, <1>2
  <2>. QED
    BY <1>1, <1>2, <1>3, <1>5, <2>1 DEF Open
<1>7. j \in 0 .. k /\ (j = 0 => k = 1) /\ (j > 0 => j \in 1 .. k - 1 /\ j \in 1 .. k /\ j + 1 = k /\ k \in j .. k)
  BY <1>1
<1>8. j = 0 => last2.rule = 0
  BY <1>3, <1>7 DEF Course, last
<1>9. ASSUME j > 0
      PROVE  /\ Calls(P, s, open[j], last2)
             /\ Nested(open[j], last2)
             /\ \A x \in 1 .. open[j].at : stack2[x] = stack[x]
  <2>1. Calls(P, s, open[j], last) /\ Nested(open[j], last)
    BY <1>7, <1>9 DEF Course, last
  <2>2. Open(P, stack, top, s, pos, open[j])
    BY <1>7, <1>9 DEF Course
  <2>3. open[j].at \in 1 .. top /\ last.dot \in Int
    BY <1>1, <2>2, OpenFacts
  <2>4. last2.at - last2.dot = last.at - last.dot
    BY <1>1, <1>3, <2>3
  <2>5. Calls(P, s, open[j], last2)
    BY <1>3, <2>1, <2>4 DEF Calls
  <2>6. Nested(open[j], last2)
    BY <1>1, <1>3, <2>1, <2>3 DEF Nested
  <2>7. \A x \in 1 .. open[j].at : x \in 1 .. top
    BY <1>1, <2>3
  <2>. QED
    BY <1>5, <2>5, <2>6, <2>7
<1>10. Piece(s, pos + 1, last2.end) \in P.after[last2.rule][last2.dot]
  BY <1>2, <1>3
<1>11. \E open2 : Course(P, stack2, top + 1, s, pos + 1, open2, j + 1) /\ open2[j + 1] = last2
  <2>. HIDE DEF j
  <2>. QED
    BY <1>3, <1>4, <1>6, <1>7, <1>8, <1>9, <1>10, CourseEnd
<1>. QED
  BY <1>11 DEF stack2

LEMMA CourseReduce ==
  ASSUME NEW P, NEW stack, NEW top, NEW s, NEW pos, Situation(P, stack, top, s, pos),
         NEW open, NEW k, Course(P, stack, top, s, pos, open, k),
         NEW act, Reduces(P, s, pos, open[k], act), open[k].rule # 0,
         NEW base, base = top - P.Yy_reduce[open[k].rule], base + 1 \in Elements,
         NEW goto, goto = yy_next(P.Yy_goto, stack[base], P.Yy_lhs[open[k].rule])
  PROVE  LET stack2 == [stack EXCEPT ![base + 1] = goto]
         IN \E open2, k2 : Course(P, stack2, base + 1, s, pos, open2, k2)
<1>. DEFINE last == open[k]
            outer == open[k - 1]
            stack2 == [stack EXCEPT ![base + 1] = goto]
            last2 == [rule |-> outer.rule, dot |-> outer.dot + 1, at |-> base + 1,
                      end |-> outer.end]
            j == k - 2
<1>1. /\ k \in Nat \ {0} /\ k \in 1 .. k
      /\ last.rule \in DOMAIN P.Yy_reduce /\ P.Yy_reduce[last.rule] \in Nat
      /\ last.dot = P.Yy_reduce[last.rule] /\ last.end = pos
      /\ last.at = top /\ top \in Nat \ {0}
      /\ pos \in Nat /\ Len(s) \in Nat /\ pos \in 0 .. Len(s)
  <2>1. LastOpen(P, stack, top, s, pos, k, last) /\ Reduces(P, s, pos, last, act)
    BY LastFacts
  <2>. HIDE DEF last
  <2>. QED
    BY <2>1 DEF LastOpen, Reduces
<1>2. k # 1
  BY DEF Course
<1>3. k - 1 \in 1 .. k - 1 /\ k - 1 \in 1 .. k /\ k - 1 + 1 = k /\ k \in k - 1 .. k
  BY <1>1, <1>2
<1>4. /\ Open(P, stack, top, s, pos, outer)
      /\ Calls(P, s, outer, last)
  <2>1. \A i \in 1 .. k - 1 : Calls(P, s, open[i], open[i + 1])
    BY DEF Course
  <2>2. \A i \in 1 .. k : Open(P, stack, top, s, pos, open[i])
    BY DEF Course
  <2>. QED
    BY <1>3, <2>1, <2>2
<1>5. /\ outer.rule \in DOMAIN P.Yy_reduce /\ P.Yy_reduce[outer.rule] \in Nat
      /\ outer.dot \in 0 .. P.Yy_reduce[outer.rule]
      /\ outer.at \in 1 .. top /\ stack[outer.at] \in States(P)
      /\ outer.end \in pos .. Len(s) /\ outer.end \in Nat
      /\ <<outer.rule, outer.dot, TokenAt(s, outer.end + 1)>> \in P.items[stack[outer.at]]
  <2>1. Open(P, stack, top, s, pos, outer)
    BY <1>4
  <2>. HIDE DEF outer
  <2>2. /\ outer.rule \in DOMAIN P.Yy_reduce /\ P.Yy_reduce[outer.rule] \in Nat
        /\ outer.dot \in 0 .. P.Yy_reduce[outer.rule]
        /\ outer.at \in 1 .. top /\ stack[outer.at] \in States(P)
        /\ outer.end \in pos .. Len(s) /\ outer.end \in Nat
    BY <2>1, OpenFacts
  <2>3. <<outer.rule, outer.dot, TokenAt(s, outer.end + 1)>> \in P.items[stack[outer.at]]
    BY <2>1 DEF Open
  <2>. QED
    BY <2>2, <2>3
<1>6. /\ outer.at = base /\ base \in 1 .. top
      /\ outer.dot < P.Yy_reduce[outer.rule]
      /\ P.Yy_lhs[last.rule] = P.rhs[outer.rule][outer.dot + 1]
      /\ Piece(s, pos, outer.end) \in P.after[outer.rule][outer.dot + 1]
  BY <1>1, <1>4, <1>5 DEF Calls
<1>7. /\ IsParser(P) /\ ConflictFree(P) /\ P.Yy_lhs[last.rule] \notin P.tokens
  BY <1>1, AfterFacts DEF Situation
<1>8. last2.rule = outer.rule /\ last2.dot = outer.dot + 1 /\ last2.at = base + 1 /\ last2.end = outer.end
  OBVIOUS
<1>. HIDE DEF last, outer, last2
<1>9. /\ goto \in States(P)
      /\ <<outer.rule, outer.dot + 1, TokenAt(s, outer.end + 1)>> \in P.items[goto]
  <2>. DEFINE la == TokenAt(s, outer.end + 1)
              X == P.Yy_lhs[last.rule]
  <2>1. outer.dot # P.Yy_reduce[outer.rule] /\ X = P.rhs[outer.rule][outer.dot + 1]
        /\ stack[base] \in States(P) /\ <<outer.rule, outer.dot, la>> \in P.items[stack[base]]
    BY <1>5, <1>6
  <2>. HIDE DEF la, X
  <2>2. PICK m \in States(P) :
          Leads(P, stack[base], X, m) /\ <<outer.rule, outer.dot + 1, la>> \in P.items[m]
    BY <1>7, <2>1, ConflictFreeFacts
  <2>3. X \notin P.tokens
    BY <1>7 DEF X
  <2>4. yy_next(P.Yy_goto, stack[base], X) = m
    BY <1>7, <2>1, <2>2, <2>3, LeadsOnce
  <2>5. goto = m
    BY <2>4 DEF X, last
  <2>. QED
    BY <2>2, <2>5 DEF la
<1>10. Situation(P, stack2, base + 1, s, pos)
  BY <1>9 DEF Situation
<1>11. /\ \A x \in 1 .. base : stack2[x] = stack[x]
       /\ stack2[base + 1] = goto
  <2>1. \A x \in 1 .. base : x \in Elements /\ x # base + 1
    <3>1. \A x \in 1 .. base : x \in 1 .. top /\ x # base + 1
      BY <1>1, <1>6
    <3>. QED
      BY <3>1, ElementsFacts DEF Situation
  <2>. QED
    BY <2>1 DEF Situation
<1>. HIDE DEF stack2
<1>12. Open(P, stack2, base + 1, s, pos, last2)
  <2>1. base + 1 \in 1 .. base + 1
    BY <1>6
  <2>. QED
    BY <1>5, <1>8, <1>9, <1>11, <2>1 DEF Open
<1>13. j \in 0 .. k /\ j + 1 = k - 1 /\ (j = 0 => k - 1 = 1)
       /\ (j > 0 => j \in 1 .. k - 1 /\ j \in 1 .. k /\ k - 1 \in j .. k)
  BY <1>1, <1>2
<1>14. j = 0 => last2.rule = 0
  BY <1>8, <1>13 DEF Course, outer
<1>15. ASSUME j > 0
       PROVE  /\ Calls(P, s, open[j], last2)
              /\ Nested(open[j], last2)
              /\ \A x \in 1 .. open[j].at : stack2[x] = stack[x]
  <2>1. Calls(P, s, open[j], outer) /\ Nested(open[j], outer)
    <3>1. Calls(P, s, open[j], open[j + 1])
      BY <1>13, <1>15 DEF Course
    <3>2. Nested(open[j], open[k - 1])
      BY <1>13, <1>15 DEF Course
    <3>. QED
      BY <1>13, <3>1, <3>2 DEF outer
  <2>2. Open(P, stack, top, s, pos, open[j])
    BY <1>13, <1>15 DEF Course
  <2>3. open[j].at \in 1 .. top /\ open[j].at \in Int /\ outer.dot \in Int /\ base \in Int
    <3>1. open[j].at \in 1 .. top
      BY <2>2, OpenFacts
    <3>. QED
      BY <1>1, <1>5, <1>6, <3>1
  <2>4. last2.at - last2.dot = outer.at - outer.dot
    BY <1>6, <1>8, <2>3
  <2>5. Calls(P, s, open[j], last2)
    BY <1>8, <2>1, <2>4 DEF Calls
  <2>6. Nested(open[j], last2) /\ open[j].at <= base
    BY <1>6, <1>8, <2>1, <2>3 DEF Nested
  <2>7. \A x \in 1 .. open[j].at : x \in 1 .. base
    BY <2>3, <2>6
  <2>. QED
    BY <1>11, <2>5, <2>6, <2>7
<1>16. Piece(s, pos, last2.end) \in P.after[last2.rule][last2.dot]
  BY <1>6, <1>8
<1>17. \E open2 : Course(P, stack2, base + 1, s, pos, open2, j + 1) /\ open2[j + 1] = last2
  <2>. HIDE DEF j
  <2>. QED
    BY <1>8, <1>10, <1>12, <1>13, <1>14, <1>15, <1>16, CourseEnd
<1>. QED
  BY <1>17 DEF stack2

----------------------------------------------------------------------------
(***************************************************************************)
(* Before the first error, the parser is on the course of every sentence   *)
(* that begins as the input does, as far as it has been looked at.         *)
(***************************************************************************)
Agrees(s) ==
  /\ Len(shifted) <= Len(s)
  /\ Piece(s, 0, Len(shifted)) = shifted
  /\ TokenAt(s, Len(shifted) + 1) = yylookahead

OnCourse ==
  ConflictFree(Tables) /\ pc = "parse" /\ yynerrs = 0 =>
    \A s \in Sentences : Agrees(s) =>
      \E open, k : Course(Tables, Yy_stack, sp, s, Len(shifted), open, k)

Silent == ConflictFree(Tables) /\ yynerrs > 0 => ~Sentence

LEMMA SentenceFacts ==
  ASSUME InSystem, NEW s \in Sentences
  PROVE  s \in Seq(Tables.tokens) /\ Len(s) \in Nat
<1>1. IsParser(Tables)
  BY TablesFacts
<1>2. 0 \in DOMAIN Tables.Yy_reduce
  BY <1>1 DEF IsParser, TablesFit
<1>3. Tables.Yy_lhs[0] \in DOMAIN Tables.strings
  BY <1>1, <1>2, AfterFacts
<1>4. s \in Seq(Tables.tokens)
  BY <1>1, <1>3 DEF IsParser, DerivesStrings, Sentences
<1>. QED
  BY <1>4, LenProperties

LEMMA SituationFacts ==
  ASSUME IInv, ConflictFree(Tables), pc = "parse", NEW s \in Sentences, Len(shifted) <= Len(s)
  PROVE  Situation(Tables, Yy_stack, sp, s, Len(shifted))
<1>1. s \in Seq(Tables.tokens) /\ Len(s) \in Nat /\ IsParser(Tables)
  BY SentenceFacts, TablesFacts DEF IInv
<1>2. sp \in Elements /\ Yy_stack \in [Elements -> States(Tables)]
  BY ActionFacts DEF IInv, Pointers, Arrays
<1>3. Len(shifted) \in 0 .. Len(s)
  <2>1. Len(shifted) \in Nat
    BY LenProperties DEF IInv, Reading
  <2>. QED
    BY <1>1, <2>1
<1>. QED
  BY <1>1, <1>2, <1>3 DEF Situation

LEMMA ActionOnCourse ==
  ASSUME IInv, OnCourse, ConflictFree(Tables), pc = "parse", yynerrs = 0,
         NEW s \in Sentences, Agrees(s)
  PROVE  /\ Situation(Tables, Yy_stack, sp, s, Len(shifted))
         /\ Action # YYF
         /\ \E open, k :
              /\ Course(Tables, Yy_stack, sp, s, Len(shifted), open, k)
              /\ \/ Reduces(Tables, s, Len(shifted), open[k], Action)
                 \/ Shifts(Tables, Yy_stack, sp, s, Len(shifted), open[k], Action)
<1>. DEFINE pos == Len(shifted)
<1>1. Situation(Tables, Yy_stack, sp, s, pos)
  BY SituationFacts DEF Agrees
<1>2. \E open, k : Course(Tables, Yy_stack, sp, s, pos, open, k)
  BY DEF OnCourse
<1>3. PICK open, k : Course(Tables, Yy_stack, sp, s, pos, open, k) /\ Ready(Tables, open[k])
  BY <1>1, <1>2, CourseReady
<1>4. Action = yy_next(Tables.Yy_action, Yy_stack[sp], TokenAt(s, pos + 1))
  BY DEF Action, Agrees
<1>5. /\ Action # YYF
      /\ \/ Reduces(Tables, s, pos, open[k], Action)
         \/ Shifts(Tables, Yy_stack, sp, s, pos, open[k], Action)
  BY <1>1, <1>3, <1>4, CourseAction
<1>. QED
  BY <1>1, <1>3, <1>5

LEMMA InitOnCourse ==
  ASSUME Init
  PROVE  OnCourse /\ Silent
<1>1. IInv
  BY InitKeepsIInv
<1>2. ASSUME ConflictFree(Tables), NEW s \in Sentences, Agrees(s)
      PROVE  \E open, k : Course(Tables, Yy_stack, sp, s, Len(shifted), open, k)
  <2>1. sp = 1 /\ Len(shifted) = 0 /\ pc = "parse"
    BY DEF Init
  <2>2. Situation(Tables, Yy_stack, 1, s, 0)
    BY <1>1, <1>2, <2>1, SituationFacts DEF Agrees
  <2>3. Yy_stack[1] = 0
    BY LimitsAssumption DEF Init, Elements
  <2>. QED
    BY <2>1, <2>2, <2>3, CourseStart DEF Sentences
<1>. QED
  BY <1>2 DEF OnCourse, Silent, Init

\* A sentence that agrees with what is read after a shift did before.
LEMMA AgreedBefore ==
  ASSUME IInv, Shift, NEW s \in Sentences, Agrees(s)'
  PROVE  Agrees(s) /\ Len(shifted') = Len(shifted) + 1 /\ Len(shifted) \in Nat
<1>. DEFINE n == Len(shifted)
            T == Tables.tokens
<1>1. s \in Seq(T) /\ Len(s) \in Nat /\ shifted \in Seq(T) /\ n \in Nat
  BY SentenceFacts, LenProperties DEF IInv, Reading
<1>2. yylookahead \in T
  BY ActionFacts DEF Shift, IInv, Pointers
<1>3. shifted' = Append(shifted, yylookahead)
  BY DEF Shift
<1>4. /\ shifted' \in Seq(T) /\ Len(shifted') = n + 1
      /\ \A x \in 1 .. n : shifted'[x] = shifted[x]
      /\ shifted'[n + 1] = yylookahead
  BY <1>1, <1>2, <1>3, AppendProperties
<1>5. n + 1 <= Len(s) /\ Piece(s, 0, n + 1) = shifted'
  BY <1>4 DEF Agrees
<1>6. \A i \in 0 .. Len(s) : \A j \in i .. Len(s) :
        /\ Piece(s, i, j) \in Seq(T) /\ Len(Piece(s, i, j)) = j - i
        /\ \A x \in 1 .. j - i : Piece(s, i, j)[x] = s[i + x]
  BY <1>1, PieceFacts
<1>7. \A x \in 1 .. n + 1 : shifted'[x] = s[x]
  <2>1. 0 \in 0 .. Len(s) /\ n + 1 \in 0 .. Len(s) /\ n + 1 - 0 = n + 1
    BY <1>1, <1>5
  <2>2. \A x \in 1 .. n + 1 : Piece(s, 0, n + 1)[x] = s[0 + x] /\ 0 + x = x
    BY <1>6, <2>1
  <2>. QED
    BY <1>5, <2>2
<1>8. Piece(s, 0, n) = shifted
  <2>1. 0 \in 0 .. Len(s) /\ n \in 0 .. Len(s) /\ n - 0 = n
    BY <1>1, <1>5
  <2>2. /\ Piece(s, 0, n) \in Seq(T) /\ Len(Piece(s, 0, n)) = n
        /\ \A x \in 1 .. n : Piece(s, 0, n)[x] = s[0 + x] /\ 0 + x = x /\ x \in 1 .. n + 1
    <3>1. /\ Piece(s, 0, n) \in Seq(T) /\ Len(Piece(s, 0, n)) = n - 0
          /\ \A x \in 1 .. n - 0 : Piece(s, 0, n)[x] = s[0 + x]
      <4>1. \A j \in 0 .. Len(s) :
              /\ Piece(s, 0, j) \in Seq(T) /\ Len(Piece(s, 0, j)) = j - 0
              /\ \A x \in 1 .. j - 0 : Piece(s, 0, j)[x] = s[0 + x]
        BY <1>6, <2>1
      <4>. HIDE DEF n
      <4>. QED
        BY <2>1, <4>1
    <3>. QED
      BY <1>1, <2>1, <3>1
  <2>3. \A x \in 1 .. n : Piece(s, 0, n)[x] = shifted[x]
    BY <1>4, <1>7, <2>2
  <2>. QED
    BY <1>1, <2>2, <2>3, SeqEqual
<1>9. TokenAt(s, n + 1) = yylookahead
  <2>1. n + 1 \in 1 .. n + 1 /\ n + 1 \in 1 .. Len(s)
    BY <1>1, <1>5
  <2>. QED
    BY <1>4, <1>7, <2>1 DEF TokenAt
<1>10. n <= Len(s)
  BY <1>1, <1>5
<1>. QED
  BY <1>1, <1>4, <1>8, <1>9, <1>10 DEF Agrees

LEMMA ShiftOnCourse ==
  ASSUME IInv, OnCourse, Shift, ConflictFree(Tables), yynerrs = 0,
         NEW s \in Sentences, Agrees(s)'
  PROVE  (\E open, k : Course(Tables, Yy_stack, sp, s, Len(shifted), open, k))'
<1>. DEFINE P == Tables
            n == Len(shifted)
            act == Action
<1>1. Agrees(s) /\ Len(shifted') = n + 1
  BY AgreedBefore
<1>2. PICK open, k :
        /\ Course(P, Yy_stack, sp, s, n, open, k)
        /\ \/ Reduces(P, s, n, open[k], act)
           \/ Shifts(P, Yy_stack, sp, s, n, open[k], act)
  BY <1>1, ActionOnCourse DEF Shift
<1>3. Situation(P, Yy_stack, sp, s, n)
  BY <1>1, ActionOnCourse DEF Shift
<1>4. act > 0
  BY DEF Shift
<1>5. ~Reduces(P, s, n, open[k], act)
  <2>1. open[k].rule \in Nat
    <3>1. open[k].rule \in DOMAIN P.Yy_reduce
      BY <1>2, <1>3, LastFacts DEF LastOpen
    <3>. QED
      BY <1>3, <3>1 DEF Situation, IsParser, TablesFit
  <2>2. \A x \in Nat : ~(-x > 0)
    OBVIOUS
  <2>. HIDE DEF act
  <2>. QED
    BY <1>4, <2>1, <2>2 DEF Reduces
<1>6. sp + 1 \in Elements
  BY LimitsAssumption DEF Shift, StackFull, Elements, IInv, Pointers
<1>7. /\ Yy_stack' = [Yy_stack EXCEPT ![sp + 1] = act] /\ sp' = sp + 1 /\ Tables' = P
  BY InSystemStep DEF Shift, Next
<1>. HIDE DEF P, n, act
<1>8. PICK open2, k2 :
        Course(P, [Yy_stack EXCEPT ![sp + 1] = act], sp + 1, s, n + 1, open2, k2)
  BY <1>2, <1>3, <1>5, <1>6, CourseShift
<1>9. Course(Tables, Yy_stack, sp, s, Len(shifted), open2, k2)'
  BY <1>1, <1>7, <1>8
<1>. QED
  BY <1>9

LEMMA ReduceOnCourse ==
  ASSUME IInv, OnCourse, Reduce, ConflictFree(Tables), yynerrs = 0,
         NEW s \in Sentences, Agrees(s)'
  PROVE  (\E open, k : Course(Tables, Yy_stack, sp, s, Len(shifted), open, k))'
<1>. DEFINE P == Tables
            n == Len(shifted)
            act == Action
            p == -Action
            base == sp - P.Yy_reduce[p]
            goto == yy_next(P.Yy_goto, Yy_stack[base], P.Yy_lhs[p])
<1>1. Agrees(s) /\ shifted' = shifted
  BY DEF Agrees, Reduce
<1>2. PICK open, k :
        /\ Course(P, Yy_stack, sp, s, n, open, k)
        /\ \/ Reduces(P, s, n, open[k], act)
           \/ Shifts(P, Yy_stack, sp, s, n, open[k], act)
  BY <1>1, ActionOnCourse DEF Reduce
<1>3. Situation(P, Yy_stack, sp, s, n)
  BY <1>1, ActionOnCourse DEF Reduce
<1>4. act < 0 /\ act <= 0 /\ act \in Int
  <2>1. act < 0 /\ act \in Int
    BY ActionFacts DEF Reduce, IInv, Pointers
  <2>. HIDE DEF act
  <2>. QED
    BY <2>1
<1>5. Reduces(P, s, n, open[k], act)
  <2>. HIDE DEF act
  <2>1. ~(act > 0)
    BY <1>4
  <2>. QED
    BY <1>2, <2>1 DEF Shifts
<1>6. open[k].rule = p /\ p # 0
  <2>1. open[k].rule \in Nat
    <3>1. open[k].rule \in DOMAIN P.Yy_reduce
      BY <1>2, <1>3, LastFacts DEF LastOpen
    <3>. QED
      BY <1>3, <3>1 DEF Situation, IsParser, TablesFit
  <2>2. act = -open[k].rule
    BY <1>5 DEF Reduces
  <2>3. \A x \in Nat : -(-x) = x /\ (-x < 0 => x # 0)
    OBVIOUS
  <2>4. p = -act
    OBVIOUS
  <2>. HIDE DEF act, p
  <2>. QED
    BY <1>4, <2>1, <2>2, <2>3, <2>4
<1>7. base \in 1 .. sp /\ base + 1 \in Elements /\ P.Yy_reduce[p] \in Nat
  <2>1. PICK held, at : Holding(held, at)
    BY DEF Reduce, IInv, StacksHold, Running
  <2>2. base \in 1 .. sp /\ P.Yy_reduce[p] \in Nat
    BY <1>4, <2>1, ReductionFacts DEF Reduce
  <2>3. sp - P.Yy_reduce[p] + 1 <= YYMAXDEPTH
    BY DEF Reduce
  <2>4. base \in Int /\ base + 1 \in 1 .. YYMAXDEPTH
    BY <2>2, <2>3, LimitsAssumption DEF IInv, Pointers
  <2>. QED
    BY <2>2, <2>4 DEF Elements
<1>8. /\ Yy_stack' = [Yy_stack EXCEPT ![base + 1] = goto] /\ sp' = base + 1 /\ Tables' = P
  BY InSystemStep DEF Reduce, Next, UncoveredState
<1>. HIDE DEF P, n, act, p
<1>9. PICK open2, k2 :
        Course(P, [Yy_stack EXCEPT ![base + 1] = goto], base + 1, s, n, open2, k2)
  <2>1. /\ open[k].rule # 0
        /\ base = sp - P.Yy_reduce[open[k].rule]
        /\ goto = yy_next(P.Yy_goto, Yy_stack[base], P.Yy_lhs[open[k].rule])
    BY <1>6
  <2>. HIDE DEF base, goto
  <2>. QED
    BY <1>2, <1>3, <1>5, <1>7, <2>1, CourseReduce
<1>10. Course(Tables, Yy_stack, sp, s, Len(shifted), open2, k2)'
  BY <1>1, <1>8, <1>9 DEF n
<1>. QED
  BY <1>10

LEMMA OnCourseStep ==
  ASSUME IInv, OnCourse, [Next]_vars
  PROVE  OnCourse'
<1>1. Tables' = Tables /\ Sentences' = Sentences
  BY InSystemStep DEF Sentences
<1>2. SUFFICES ASSUME ConflictFree(Tables), pc' = "parse", yynerrs' = 0,
                      NEW s \in Sentences, Agrees(s)'
               PROVE  (\E open, k : Course(Tables, Yy_stack, sp, s, Len(shifted), open, k))'
  BY <1>1 DEF OnCourse
<1>3. CASE Shift
  BY <1>2, <1>3, ShiftOnCourse DEF Shift
<1>4. CASE Reduce
  BY <1>2, <1>4, ReduceOnCourse DEF Reduce
<1>5. CASE UNCHANGED vars
  <2>1. Agrees(s) /\ pc = "parse" /\ yynerrs = 0
    BY <1>2, <1>5 DEF vars, Agrees
  <2>2. PICK open, k : Course(Tables, Yy_stack, sp, s, Len(shifted), open, k)
    BY <1>2, <2>1 DEF OnCourse
  <2>3. Course(Tables, Yy_stack, sp, s, Len(shifted), open, k)'
    BY <1>1, <1>5, <2>2 DEF vars
  <2>. QED
    BY <2>3
\* The others end the parse, or stop at an error.
<1>6. CASE StackOverflow \/ WriteOutside \/ Accept \/ ActionReturns \/ ErrorFound \/ PopState
           \/ SkipToken
  BY <1>2, <1>6 DEF StackOverflow, WriteOutside, Accept, ActionReturns, ErrorFound, PopState,
                    SkipToken
<1>7. CASE Recovered
  BY <1>2, <1>7 DEF Recovered, IInv, Counters
<1>. QED
  BY <1>3, <1>4, <1>5, <1>6, <1>7 DEF Next

\* What has been read agrees with the input.
LEMMA InputAgrees ==
  ASSUME IInv, yynerrs = 0
  PROVE  Agrees(input)
<1>1. PICK k \in 0 .. Len(input) : ReadTo(k)
  BY DEF IInv, Reading
<1>2. input \in Seq(Tables.tokens) /\ Len(input) \in Nat
  BY TablesFacts DEF IInv, InSystem
<1>3. shifted = Piece(input, 0, k) /\ yylookahead = TokenAt(input, k + 1)
  BY <1>1 DEF ReadTo
<1>4. Len(shifted) = k
  <2>1. 0 \in 0 .. Len(input) /\ k - 0 = k
    BY <1>2
  <2>2. \A j \in 0 .. Len(input) : Len(Piece(input, 0, j)) = j - 0
    BY <1>2, <2>1, PieceFacts
  <2>. QED
    BY <1>3, <2>1, <2>2
<1>5. k <= Len(input)
  BY <1>2
<1>. QED
  BY <1>3, <1>4, <1>5 DEF Agrees

LEMMA SilentStep ==
  ASSUME IInv, OnCourse, Silent, [Next]_vars
  PROVE  Silent'
<1>1. Tables' = Tables /\ input' = input /\ Sentence' = Sentence
  BY InSystemStep DEF Sentence, Sentences
<1>2. CASE yynerrs > 0
  BY <1>1, <1>2 DEF Silent
<1>3. CASE ErrorFound /\ ~(yynerrs > 0)
  <2>1. SUFFICES ASSUME ConflictFree(Tables), Sentence
                 PROVE  FALSE
    BY <1>1 DEF Silent
  <2>2. yynerrs = 0 /\ pc = "parse" /\ Action = YYF
    BY <1>3 DEF ErrorFound, IInv, Counters
  <2>3. Agrees(input) /\ input \in Sentences
    BY <2>1, <2>2, InputAgrees DEF Sentence
  <2>. QED
    BY <2>1, <2>2, <2>3, ActionOnCourse
<1>4. CASE ~ErrorFound /\ ~(yynerrs > 0)
  <2>1. yynerrs' = yynerrs
    BY <1>4 DEF Next, vars, Shift, StackOverflow, Reduce, WriteOutside, Accept, ActionReturns,
                PopState, Recovered, SkipToken
  <2>. QED
    BY <1>4, <2>1 DEF Silent
<1>. QED
  BY <1>2, <1>3, <1>4

\* With tables without conflicts: the parser is on the course of every sentence that begins
\* like the input, and a message means that the input is no sentence.
THEOREM KeepsCourse == Spec => [](OnCourse /\ Silent)
<1>1. Init => OnCourse /\ Silent
  BY InitOnCourse
<1>2. IInv /\ OnCourse /\ Silent /\ [Next]_vars => OnCourse' /\ Silent'
  BY OnCourseStep, SilentStep
<1>. QED
  BY <1>1, <1>2, Invariance, PTL DEF Spec

\* yyparse() accepts without a message exactly the sentences: what is accepted so is one, for
\* all of which $$ stands, and a message, or an abort, is for input that is none.
THEOREM AcceptsTheLanguage ==
  Spec => [](AcceptsAtEnd(Tables) /\ ConflictFree(Tables) => ErrorFreeIffSentence)
<1>1. IInv /\ Silent => (AcceptsAtEnd(Tables) /\ ConflictFree(Tables) => ErrorFreeIffSentence)
  <2>1. SUFFICES ASSUME IInv, Silent, AcceptsAtEnd(Tables), ConflictFree(Tables)
                 PROVE  ErrorFreeIffSentence
    OBVIOUS
  <2>2. pc = "accept" /\ yynerrs = 0 => Sentence /\ Yy_val = input
    BY <2>1 DEF IInv, Accepted
  <2>3. yynerrs > 0 => ~Sentence
    BY <2>1 DEF Silent
  <2>4. pc = "abort" => yynerrs > 0
    BY <2>1 DEF IInv, Counters
  <2>. QED
    BY <2>2, <2>3, <2>4 DEF ErrorFreeIffSentence
<1>. QED
  BY <1>1, Invariance, KeepsCourse, PTL

\* The half of FirstErrorInTime that needs no bound on sentences: the first message is no
\* false alarm, no sentence goes on with the token it is for. (yynerrs, at the top of
\* yy_recover())
NoFalseAlarm ==
  [][ConflictFree(Tables) /\ yynerrs = 0 /\ yynerrs' = 1 =>
       IF yylookahead = 0
       THEN shifted \notin Sentences
       ELSE ~BeginsSentence(Append(shifted, yylookahead))]_vars

\* yy_recover(): the first message is for a token that no sentence with the tokens shifted
\* before goes on with, whatever was reduced on account of it.
THEOREM FirstErrorIsOne == Spec => NoFalseAlarm
<1>1. ASSUME IInv, OnCourse, [Next]_vars, ConflictFree(Tables), yynerrs = 0, yynerrs' = 1
      PROVE  IF yylookahead = 0
             THEN shifted \notin Sentences
             ELSE ~BeginsSentence(Append(shifted, yylookahead))
  <2>. DEFINE n == Len(shifted)
              T == Tables.tokens
  <2>1. pc = "parse" /\ Action = YYF
    BY <1>1 DEF Next, vars, Shift, StackOverflow, Reduce, WriteOutside, Accept, ActionReturns,
                ErrorFound, PopState, Recovered, SkipToken
  <2>2. \A s \in Sentences : ~Agrees(s)
    BY <1>1, <2>1, ActionOnCourse
  <2>3. shifted \in Seq(T) /\ n \in Nat /\ T \subseteq Nat \ {0}
    BY <1>1, TablesFacts, LenProperties DEF IInv, Reading
  <2>4. ASSUME yylookahead = 0, shifted \in Sentences
        PROVE  FALSE
    <3>1. Piece(shifted, 0, n) = shifted /\ TokenAt(shifted, n + 1) = 0 /\ n <= n
      BY <2>3, PieceWhole DEF TokenAt
    <3>. QED
      BY <2>2, <2>4, <3>1 DEF Agrees
  <2>5. ASSUME yylookahead # 0, BeginsSentence(Append(shifted, yylookahead))
        PROVE  FALSE
    <3>. DEFINE begin == Append(shifted, yylookahead)
    <3>1. PICK s \in Sentences : Len(begin) <= Len(s) /\ SubSeq(s, 1, Len(begin)) = begin
      BY <2>5 DEF BeginsSentence
    <3>2. s \in Seq(T) /\ Len(s) \in Nat
      BY <1>1, SentenceFacts DEF IInv
    <3>3. yylookahead \in T
      <4>1. PICK k \in 0 .. Len(input) : ReadTo(k)
        BY <1>1 DEF IInv, Reading
      <4>2. input \in Seq(T) /\ k + 1 \in Nat
        BY <1>1, TablesFacts DEF IInv, InSystem
      <4>3. yylookahead \in T \cup {0}
        BY <2>3, <4>1, <4>2, TokenAtFacts DEF ReadTo
      <4>. QED
        BY <2>5, <4>3
    <3>4. /\ begin \in Seq(T) /\ Len(begin) = n + 1 /\ begin[n + 1] = yylookahead
          /\ \A x \in 1 .. n : begin[x] = shifted[x]
      BY <2>3, <3>3, AppendProperties
    <3>5. \A j \in 0 .. Len(s) :
            /\ Piece(s, 0, j) \in Seq(T) /\ Len(Piece(s, 0, j)) = j - 0
            /\ \A x \in 1 .. j - 0 : Piece(s, 0, j)[x] = s[0 + x]
      <4>1. 0 \in 0 .. Len(s)
        BY <3>2
      <4>. QED
        BY <3>2, <4>1, PieceFacts
    <3>. HIDE DEF begin, n
    <3>6. /\ n + 1 \in 0 .. Len(s) /\ n \in 0 .. Len(s) /\ n + 1 \in 1 .. Len(s)
          /\ n + 1 - 0 = n + 1 /\ n - 0 = n /\ n + 1 \in 1 .. n + 1
          /\ \A x \in 1 .. n + 1 : 0 + x = x
          /\ \A x \in 1 .. n : x \in 1 .. n + 1
      BY <2>3, <3>1, <3>2, <3>4
    <3>7. Piece(s, 0, n + 1) = begin
      <4>1. 0 + 1 = 1
        OBVIOUS
      <4>. QED
        BY <3>1, <3>4, <4>1 DEF Piece
    <3>8. \A x \in 1 .. n + 1 : begin[x] = s[x]
      BY <3>5, <3>6, <3>7
    <3>9. Piece(s, 0, n) = shifted
      <4>1. /\ Piece(s, 0, n) \in Seq(T) /\ Len(Piece(s, 0, n)) = n
            /\ \A x \in 1 .. n : Piece(s, 0, n)[x] = s[x]
        BY <3>5, <3>6
      <4>2. \A x \in 1 .. n : Piece(s, 0, n)[x] = shifted[x]
        BY <3>4, <3>6, <3>8, <4>1
      <4>. QED
        BY <2>3, <4>1, <4>2, SeqEqual DEF n
    <3>10. TokenAt(s, n + 1) = yylookahead
      BY <3>4, <3>6, <3>8 DEF TokenAt
    <3>11. n <= Len(s)
      BY <2>3, <3>2, <3>6
    <3>12. Agrees(s)
      BY <3>9, <3>10, <3>11 DEF Agrees, n
    <3>. QED
      BY <2>2, <3>12
  <2>. QED
    BY <2>4, <2>5
<1>2. IInv /\ OnCourse /\ [Next]_vars =>
        [ConflictFree(Tables) /\ yynerrs = 0 /\ yynerrs' = 1 =>
           IF yylookahead = 0
           THEN shifted \notin Sentences
           ELSE ~BeginsSentence(Append(shifted, yylookahead))]_vars
  BY <1>1
<1>. QED
  BY <1>2, Invariance, KeepsCourse, PTL DEF Spec, NoFalseAlarm

----------------------------------------------------------------------------
(***************************************************************************)
(* What is on the stack begins a sentence: every item on it is begun for   *)
(* one below, and what is behind their dots ends the sentence.             *)
(***************************************************************************)
LEMMA Joining ==
  ASSUME NEW T, NEW s \in Seq(T), NEW t \in Seq(T), NEW u \in Seq(T)
  PROVE  /\ (s \o t) \o u = s \o (t \o u)
         /\ t \o u \in Seq(T)
<1>1. Associative(T)
  BY ConcatIsAssociative
<1>2. t \o u \in Seq(T)
  BY ConcatProperties
<1>3. (s \o t) \o u = s \o (t \o u)
  BY <1>1, Zenon DEF Associative
<1>. QED
  BY <1>2, <1>3

LEMMA Bound ==
  ASSUME NEW a \in Nat, NEW b \in Nat, NEW c \in Nat, NEW d \in Nat, NEW e \in Nat,
         NEW f \in Nat, a + b + c + d <= e, f <= c
  PROVE  a + (b + f) <= e /\ b + f <= e
  OBVIOUS

\* What follows costs more than what it is followed by in turn.
LEMMA BoundMore ==
  ASSUME NEW a \in Nat, NEW b \in Nat, NEW c \in Nat, NEW d \in Nat, NEW e \in Nat,
         NEW f \in Nat, NEW g \in Nat, NEW h \in Nat, a + b + c + d <= e, f <= c,
         (g + h <= d) \/ (h <= d /\ f + g <= c)
  PROVE  a + (b + f) + g + h <= e
  OBVIOUS

\* What lies below element m of the stack costs.
Below(P, m) == (m - 1) * P.most

LEMMA BelowFacts ==
  ASSUME NEW P, P.most \in Nat, NEW m \in Nat \ {0}
  PROVE  /\ Below(P, m) \in Nat
         /\ \A b \in 1 .. m - 1 : Below(P, b) + P.most <= Below(P, m)
         /\ Below(P, m) + P.most + P.most = (m + 1) * P.most
<1>. DEFINE r == P.most
<1>1. ASSUME NEW b \in 1 .. m - 1
      PROVE  (b - 1) * r + r <= (m - 1) * r
  <2>1. b - 1 \in Nat /\ m - 1 - b \in Nat /\ m - 1 = (b - 1) + 1 + (m - 1 - b)
    OBVIOUS
  <2>2. (m - 1) * r = (b - 1) * r + r + (m - 1 - b) * r
    BY <2>1
  <2>3. (m - 1 - b) * r \in Nat /\ (b - 1) * r \in Nat
    BY <2>1
  <2>. QED
    BY <2>2, <2>3
<1>2. (m - 1) * r \in Nat
  OBVIOUS
<1>3. (m - 1) * r + r + r = (m + 1) * r
  <2>1. m - 1 \in Nat /\ m + 1 = (m - 1) + 1 + 1
    OBVIOUS
  <2>2. ((m - 1) + 1 + 1) * r = (m - 1) * r + r + r
    BY <2>1
  <2>. QED
    BY <2>1, <2>2
<1>. QED
  BY <1>1, <1>2, <1>3 DEF Below

\* A string of what production p stands for, in the state of element m, can be gone on with to
\* a sentence.
Ends(P, stack, held, at, m, p) ==
  \A s \in P.strings[P.Yy_lhs[p]] :
    at[m] + Len(s) + P.cost[stack[m]][p] + Below(P, m) <= P.longest =>
      \E y \in Seq(P.tokens) : Piece(held, 0, at[m]) \o (s \o y) \in P.strings[P.Yy_lhs[0]]

\* An item goes back to where its production was begun.
LEMMA BegunBelow ==
  ASSUME NEW P, IsParser(P), NEW top \in Nat \ {0}, NEW stack, Path(P, stack, top),
         \A n \in 1 .. top : stack[n] \in States(P),
         NEW m \in 1 .. top, NEW item \in P.items[stack[m]]
  PROVE  /\ m - item[2] \in 1 .. m
         /\ \E before \in P.items[stack[m - item[2]]] : before[1] = item[1] /\ before[2] = 0
<1>1. m \in Nat \ {0} /\ stack[m] \in States(P)
  OBVIOUS
<1>2. item[2] \in Nat /\ item[2] \in 0 .. item[2] /\ item[2] - item[2] = 0
  BY <1>1, ItemFacts
<1>3. Path(P, stack, m) /\ \A n \in 1 .. m : stack[n] \in States(P)
  <2>1. (\A n \in 1 .. m : n \in 1 .. top) /\ \A n \in 2 .. m : n \in 2 .. top
    OBVIOUS
  <2>. QED
    BY <2>1 DEF Path
<1>4. item[2] < m
  <2>1. \A i \in 0 .. item[2] : i < m
    BY <1>1, <1>3, Backwards
  <2>. QED
    BY <1>2, <2>1
<1>5. \E before \in P.items[stack[m - item[2]]] :
        before[1] = item[1] /\ before[2] = item[2] - item[2]
  <2>1. \A i \in 0 .. item[2] :
          \E before \in P.items[stack[m - i]] : before[1] = item[1] /\ before[2] = item[2] - i
    BY <1>1, <1>3, Backwards
  <2>. QED
    BY <1>2, <2>1
<1>. QED
  BY <1>1, <1>2, <1>4, <1>5

\* What ends an item ends the sentence, if what it was begun for does.
LEMMA ItemEnds ==
  ASSUME NEW P, IsParser(P), P.most \in Nat,
         NEW top \in Nat \ {0}, NEW stack, Path(P, stack, top),
         \A n \in 1 .. top : stack[n] \in States(P),
         NEW vstack, NEW held, NEW at, Spells(P, stack, vstack, top, held, at),
         NEW m \in 1 .. top, NEW item \in P.items[stack[m]],
         NEW w \in P.after[item[1]][item[2]], at[m] + Len(w) <= P.longest,
         item[1] # 0 =>
           /\ Ends(P, stack, held, at, m - item[2], item[1])
           /\ at[m] + Len(w) + P.cost[stack[m - item[2]]][item[1]] + Below(P, m - item[2])
                <= P.longest
  PROVE  \E y \in Seq(P.tokens) : Piece(held, 0, at[m]) \o (w \o y) \in P.strings[P.Yy_lhs[0]]
<1>1. Associative(P.tokens)
  BY ConcatIsAssociative
<1>. DEFINE q == item[1]
            b == m - item[2]
            low == Piece(held, 0, at[b])
            mid == Piece(held, at[b], at[m])
            T == P.tokens
<1>2. /\ q \in DOMAIN P.Yy_reduce /\ item[2] \in 0 .. P.Yy_reduce[q] /\ item[2] \in Nat
      /\ P.Yy_reduce[q] \in Nat /\ m \in Nat \ {0}
  <2>1. stack[m] \in States(P)
    OBVIOUS
  <2>. QED
    BY <2>1, ItemFacts
<1>3. b \in 1 .. m /\ mid \o w \in P.after[q][0]
  BY HandleSoFar
<1>4. mid \o w \in P.strings[P.Yy_lhs[q]]
  BY <1>2, <1>3, AfterFacts
<1>5. w \in Seq(T) /\ Len(w) \in Nat
  BY <1>2, AfterStrings, LenProperties
<1>6. /\ held \in Seq(T) /\ Len(held) \in Nat
      /\ at[b] \in 0 .. at[m] /\ at[m] \in 0 .. Len(held) /\ at[1] = 0
      /\ b \in 1 .. top
  <2>1. b \in 1 .. top /\ m \in b .. top
    BY <1>3
  <2>2. at[b] <= at[m]
    BY <2>1, SpellsMonotone
  <2>3. /\ Len(held) \in Nat /\ \A n \in 1 .. top : at[n] \in 0 .. Len(held) /\ at[n] \in Nat
    BY SpellsOrder
  <2>4. held \in Seq(T) /\ at[1] = 0
    BY DEF Spells
  <2>. QED
    BY <2>1, <2>2, <2>3, <2>4
<1>7. /\ low \in Seq(T) /\ mid \in Seq(T) /\ Len(mid) = at[m] - at[b]
      /\ low \o mid = Piece(held, 0, at[m])
  <2>1. \A x \in 0 .. Len(held) : \A z \in x .. Len(held) :
          Piece(held, x, z) \in Seq(T) /\ Len(Piece(held, x, z)) = z - x
    BY <1>6, PieceFacts
  <2>2. \A x \in 0 .. Len(held) : \A y \in x .. Len(held) : \A z \in y .. Len(held) :
          Piece(held, x, y) \o Piece(held, y, z) = Piece(held, x, z)
    BY <1>6, PieceJoin
  <2>3. /\ 0 \in 0 .. Len(held) /\ at[b] \in 0 .. Len(held) /\ at[m] \in at[b] .. Len(held)
    BY <1>6
  <2>. QED
    BY <2>1, <2>2, <2>3
<1>8. Len(mid \o w) = at[m] - at[b] + Len(w) /\ mid \o w \in Seq(T)
  BY <1>5, <1>7, ConcatProperties
<1>. HIDE DEF low, mid
<1>9. CASE q = 0
  <2>1. \E before \in P.items[stack[b]] : before[1] = 0 /\ before[2] = 0
    BY <1>9, BegunBelow
  <2>2. stack[b] = 0
    <3>1. stack[b] \in States(P)
      BY <1>6
    <3>. QED
      BY <2>1, <3>1, ItemFacts
  <2>3. b = 1
    <3>1. b # 1 => b \in 2 .. top
      BY <1>6
    <3>. QED
      BY <2>2, <3>1, PathFacts
  <2>4. low = <<>>
    <3>1. at[b] = 0
      BY <1>6, <2>3
    <3>. QED
      BY <3>1, PieceEmpty DEF low
  <2>5. Piece(held, 0, at[m]) = mid
    BY <1>7, <2>4, ConcatEmptySeq
  <2>6. w \o <<>> = w /\ <<>> \in Seq(T)
    BY <1>5, ConcatEmptySeq
  <2>. QED
    BY <1>4, <1>9, <2>5, <2>6
<1>10. CASE q # 0
  <2>1. at[b] + Len(mid \o w) + P.cost[stack[b]][q] + Below(P, b) <= P.longest
    <3>1. at[b] + Len(mid \o w) = at[m] + Len(w)
      BY <1>5, <1>6, <1>8
    <3>. QED
      BY <1>10, <3>1
  <2>2. PICK y \in Seq(T) : low \o ((mid \o w) \o y) \in P.strings[P.Yy_lhs[0]]
    BY <1>4, <1>10, <2>1 DEF Ends, low
  <2>3. low \o ((mid \o w) \o y) = (low \o mid) \o (w \o y)
    <3>1. mid \in Seq(T) /\ w \in Seq(T) /\ y \in Seq(T) /\ low \in Seq(T)
      BY <1>5, <1>7
    <3>2. (mid \o w) \o y = mid \o (w \o y) /\ w \o y \in Seq(T)
      BY <3>1, Joining
    <3>3. (low \o mid) \o (w \o y) = low \o (mid \o (w \o y))
      BY <1>1, <3>1, <3>2, Zenon DEF Associative
    <3>. QED
      BY <3>2, <3>3, Zenon
  <2>. QED
    BY <1>7, <2>2, <2>3
<1>. QED
  BY <1>9, <1>10

\* All that a state on the stack begins can be ended: what is begun in element m, for least m
\* and then for least cost, is begun for what ends.
LEMMA AllEnd ==
  ASSUME NEW P, IsParser(P), CanFinish(P),
         NEW top \in Nat \ {0}, NEW stack, Path(P, stack, top),
         \A n \in 1 .. top : stack[n] \in States(P),
         NEW vstack, NEW held, NEW at, Spells(P, stack, vstack, top, held, at)
  PROVE  \A m \in 1 .. top : \A begun \in P.items[stack[m]] :
           begun[2] = 0 /\ begun[1] # 0 => Ends(P, stack, held, at, m, begun[1])
<1>. DEFINE Begun(m) == {p \in DOMAIN P.Yy_reduce :
                           p # 0 /\ \E item \in P.items[stack[m]] : item[1] = p /\ item[2] = 0}
            Lost(m) == {p \in Begun(m) : ~Ends(P, stack, held, at, m, p)}
            Low == {m \in 1 .. top : Lost(m) # {}}
            T == P.tokens
<1>1. /\ P.most \in Nat /\ P.longest \in Nat
      /\ \A n \in 1 .. top : \A p \in Begun(n) :
           /\ P.cost[stack[n]][p] \in 0 .. P.most
           /\ \E item \in P.items[stack[n]] : BegunFor(P, stack[n], p, item)
  BY DEF CanFinish, IsParser, DerivesStrings, States
<1>2. \A n \in 1 .. top : \A item \in P.items[stack[n]] :
        item[2] = 0 /\ item[1] # 0 => item[1] \in Begun(n)
  BY ItemFacts
<1>. HIDE DEF Begun
<1>3. SUFFICES ASSUME Low # {}
               PROVE  FALSE
  <2>1. SUFFICES ASSUME NEW m \in 1 .. top, NEW item \in P.items[stack[m]],
                        item[2] = 0, item[1] # 0
                 PROVE  Ends(P, stack, held, at, m, item[1])
    OBVIOUS
  <2>2. item[1] \in Begun(m)
    BY <1>2, <2>1
  <2>. QED
    BY <1>3, <2>2
<1>4. PICK m \in Low : \A n \in Low : m <= n
  <2>1. Low \in SUBSET Nat
    OBVIOUS
  <2>. HIDE DEF Low
  <2>. QED
    BY <1>3, <2>1, LeastOne
<1>5. m \in 1 .. top /\ m \in Nat \ {0} /\ Lost(m) # {} /\ stack[m] \in States(P)
  OBVIOUS
<1>6. PICK p \in Lost(m) : \A q \in Lost(m) : P.cost[stack[m]][p] <= P.cost[stack[m]][q]
  <2>. DEFINE Costs == {P.cost[stack[m]][q] : q \in Lost(m)}
  <2>1. Costs # {} /\ Costs \in SUBSET Nat
    BY <1>1, <1>5
  <2>. HIDE DEF Costs
  <2>2. PICK c \in Costs : \A d \in Costs : c <= d
    BY <2>1, LeastOne
  <2>. QED
    BY <2>2 DEF Costs
<1>7. p \in Begun(m) /\ p \in DOMAIN P.Yy_reduce /\ ~Ends(P, stack, held, at, m, p)
  BY DEF Begun
<1>. HIDE DEF Low, Lost
<1>8. PICK s \in P.strings[P.Yy_lhs[p]] :
        /\ at[m] + Len(s) + P.cost[stack[m]][p] + Below(P, m) <= P.longest
        /\ \A y \in Seq(T) : ~(Piece(held, 0, at[m]) \o (s \o y) \in P.strings[P.Yy_lhs[0]])
  BY <1>7 DEF Ends
<1>9. at[m] + Len(s) + P.cost[stack[m]][p] + Below(P, m) <= P.longest
  BY <1>8
<1>10. P.most \in Nat /\ P.longest \in Nat
  BY <1>1
<1>11. PICK item \in P.items[stack[m]] : BegunFor(P, stack[m], p, item)
  BY <1>1, <1>5, <1>7
<1>. DEFINE q == item[1]
            d == item[2]
            b == m - d
<1>12. /\ q \in DOMAIN P.Yy_reduce /\ d \in 0 .. P.Yy_reduce[q] - 1 /\ d \in Nat
       /\ P.Yy_reduce[q] \in Nat /\ d + 1 \in 0 .. P.Yy_reduce[q]
       /\ P.rhs[q][d + 1] = P.Yy_lhs[p]
  BY <1>5, <1>11, ItemFacts DEF BegunFor
<1>13. PICK v \in P.after[q][d + 1] :
         IF d > 0 \/ q = 0 THEN Len(v) <= P.cost[stack[m]][p]
         ELSE Len(v) + P.cost[stack[m]][q] < P.cost[stack[m]][p]
  BY <1>11 DEF BegunFor
<1>14. /\ s \in Seq(T) /\ v \in Seq(T) /\ Len(s) \in Nat /\ Len(v) \in Nat
       /\ s \o v \in Seq(T) /\ Len(s \o v) = Len(s) + Len(v)
  <2>1. P.Yy_lhs[p] \in DOMAIN P.strings
    BY <1>7, AfterFacts
  <2>2. s \in Seq(T)
    BY <2>1 DEF IsParser, DerivesStrings
  <2>3. v \in Seq(T)
    BY <1>12, AfterStrings
  <2>. QED
    BY <2>2, <2>3, LenProperties, ConcatProperties
<1>15. at[m] \in Nat /\ P.cost[stack[m]][p] \in 0 .. P.most /\ Below(P, m) \in Nat
  BY <1>1, <1>5, <1>7, SpellsOrder, BelowFacts
<1>16. (\A n \in 1 .. m : n \in 1 .. top) /\ \A n \in 2 .. m : n \in 2 .. top
  BY <1>5
\* Where its production was begun.
<1>17. b \in 1 .. m /\ (q # 0 => q \in Begun(b))
  <2>1. b \in 1 .. m /\ \E before \in P.items[stack[b]] : before[1] = q /\ before[2] = 0
    BY <1>5, BegunBelow
  <2>. QED
    BY <1>2, <1>16, <2>1
<1>18. Len(v) <= P.cost[stack[m]][p]
  <2>1. CASE d > 0 \/ q = 0
    BY <1>13, <2>1
  <2>2. CASE ~(d > 0 \/ q = 0)
    <3>1. b = m /\ q \in Begun(m)
      BY <1>5, <1>12, <1>17, <2>2
    <3>2. P.cost[stack[m]][q] \in Nat
      BY <1>1, <1>5, <3>1
    <3>3. Len(v) + P.cost[stack[m]][q] < P.cost[stack[m]][p]
      BY <1>13, <2>2
    <3>. QED
      BY <1>14, <1>15, <3>2, <3>3
  <2>. QED
    BY <2>1, <2>2
\* The lengths and costs, as numbers.
<1>19. PICK at0 \in Nat, s0 \in Nat, v0 \in Nat, c0 \in Nat, z0 \in Nat, l0 \in Nat :
         /\ at0 = at[m] /\ s0 = Len(s) /\ v0 = Len(v) /\ c0 = P.cost[stack[m]][p]
         /\ z0 = Below(P, m) /\ l0 = P.longest
  <2>1. P.cost[stack[m]][p] \in Nat
    BY <1>15, <1>10
  <2>. QED
    BY <1>14, <1>15, <1>10, <2>1
<1>20. at0 + s0 + c0 + z0 <= l0 /\ v0 <= c0
  BY <1>18, <1>9, <1>19
<1>21. at0 + (s0 + v0) <= l0 /\ s0 + v0 <= l0
  BY <1>20, Bound
<1>22. Len(s \o v) = s0 + v0
  BY <1>14, <1>19
<1>23. s \o v \in P.after[q][d] /\ at[m] + Len(s \o v) <= P.longest
  <2>1. at[m] + Len(s \o v) <= P.longest /\ Len(s \o v) <= P.longest
    BY <1>19, <1>21, <1>22
  <2>2. \A u \in P.strings[P.rhs[q][d + 1]], x \in P.after[q][d + 1] :
          Len(u \o x) <= P.longest => u \o x \in P.after[q][d]
    BY <1>12, AfterFacts
  <2>. QED
    BY <1>12, <2>1, <2>2
<1>24. ASSUME q # 0
       PROVE  /\ Ends(P, stack, held, at, b, q)
              /\ at[m] + Len(s \o v) + P.cost[stack[b]][q] + Below(P, b) <= P.longest
  <2>1. q \in Begun(b) /\ b \in 1 .. top /\ P.cost[stack[b]][q] \in 0 .. P.most
    BY <1>1, <1>16, <1>17, <1>24
  <2>2. CASE d > 0
    <3>1. b \in 1 .. m - 1 /\ ~(m <= b)
      BY <1>5, <1>12, <1>17, <2>2
    <3>2. b \notin Low
      BY <1>4, <3>1
    <3>3. Ends(P, stack, held, at, b, q)
      BY <1>16, <2>1, <3>2 DEF Low, Lost
    <3>4. Below(P, b) + P.most <= Below(P, m) /\ Below(P, b) \in Nat
      BY <1>1, <1>5, <3>1, BelowFacts
    <3>5. PICK g \in Nat, h \in Nat, r \in Nat :
            g = P.cost[stack[b]][q] /\ h = Below(P, b) /\ r = P.most
      <4>1. P.cost[stack[b]][q] \in Nat
        BY <1>10, <2>1
      <4>. QED
        BY <1>10, <3>4, <4>1
    <3>6. g <= r /\ h + r <= z0
      BY <1>19, <2>1, <3>4, <3>5
    <3>7. g + h <= z0
      BY <3>6
    <3>8. at0 + (s0 + v0) + g + h <= l0
      BY <1>20, <3>7, BoundMore
    <3>. QED
      BY <1>19, <1>22, <3>3, <3>5, <3>8
  <2>3. CASE ~(d > 0)
    <3>1. b = m
      BY <1>5, <1>12, <2>3
    <3>2. Len(v) + P.cost[stack[m]][q] < P.cost[stack[m]][p]
      BY <1>13, <1>24, <2>3
    <3>3. PICK g \in Nat : g = P.cost[stack[m]][q]
      <4>1. P.cost[stack[m]][q] \in Nat
        BY <1>10, <2>1, <3>1
      <4>. QED
        BY <4>1
    <3>4. v0 + g < c0
      BY <1>19, <3>2, <3>3
    <3>5. q \notin Lost(m)
      <4>1. ASSUME q \in Lost(m)
            PROVE  P.cost[stack[m]][p] <= P.cost[stack[m]][q]
        BY <1>6, <4>1
      <4>2. ~(c0 <= g)
        BY <3>4
      <4>. QED
        BY <1>19, <3>3, <4>1, <4>2
    <3>6. Ends(P, stack, held, at, b, q)
      BY <2>1, <3>1, <3>5 DEF Lost
    <3>7. z0 <= z0 /\ v0 + g <= c0
      BY <3>4
    <3>8. at0 + (s0 + v0) + g + z0 <= l0
      BY <1>20, <3>7, BoundMore
    <3>. QED
      BY <1>19, <1>22, <3>1, <3>3, <3>6, <3>8
  <2>. QED
    BY <2>2, <2>3
<1>25. PICK y \in Seq(T) :
         Piece(held, 0, at[m]) \o ((s \o v) \o y) \in P.strings[P.Yy_lhs[0]]
  BY <1>1, <1>5, <1>23, <1>24, ItemEnds
<1>26. (s \o v) \o y = s \o (v \o y) /\ v \o y \in Seq(T)
  <2>1. s \in Seq(T) /\ v \in Seq(T) /\ y \in Seq(T)
    BY <1>14
  <2>. QED
    BY <2>1, Joining
<1>. QED
  BY <1>8, <1>25, <1>26

\* Sentences are known to the length it takes to end what any stack holds.
SentencesLong ==
  /\ CanFinish(Tables)
  /\ Len(input) + (YYMAXDEPTH + 1) * Tables.most <= Tables.longest

\* What the elements below and an item on top cost is within that.
LEMMA CostOfStack ==
  ASSUME NEW P, P.most \in Nat, NEW depth \in Nat \ {0}, NEW m \in 1 .. depth
  PROVE  Below(P, m) + P.most + P.most <= (depth + 1) * P.most
<1>1. /\ Below(P, depth) \in Nat
      /\ \A b \in 1 .. depth - 1 : Below(P, b) + P.most <= Below(P, depth)
      /\ Below(P, depth) + P.most + P.most = (depth + 1) * P.most
  BY BelowFacts
<1>2. CASE m = depth
  <2>1. Below(P, m) + P.most + P.most = (depth + 1) * P.most
    BY <1>1, <1>2
  <2>2. (depth + 1) * P.most \in Nat
    OBVIOUS
  <2>. QED
    BY <2>1, <2>2
<1>3. CASE m # depth
  <2>1. m \in 1 .. depth - 1 /\ m \in Nat \ {0}
    BY <1>3
  <2>2. Below(P, m) + P.most <= Below(P, depth) /\ Below(P, m) \in Nat
    BY <1>1, <2>1, BelowFacts
  <2>3. PICK u \in Nat, w \in Nat, r \in Nat :
          u = Below(P, m) /\ w = Below(P, depth) /\ r = P.most
    BY <1>1, <2>2
  <2>4. u + r + r <= w + r + r
    BY <2>2, <2>3
  <2>. QED
    BY <1>1, <2>3, <2>4
<1>. QED
  BY <1>2, <1>3

\* Before the first error, what was shifted begins a sentence.
LEMMA ShiftedBegins ==
  ASSUME IInv, pc = "parse", yynerrs = 0, SentencesLong
  PROVE  BeginsSentence(shifted)
<1>. DEFINE P == Tables
            top == Yy_stack[sp]
<1>1. PICK held, at : Holding(held, at)
  BY DEF IInv, StacksHold, Running
<1>2. held = shifted
  BY <1>1 DEF Holding
<1>3. /\ sp \in Nat \ {0} /\ sp \in Elements
      /\ \A n \in 1 .. sp : Yy_stack[n] \in States(P)
      /\ Path(P, Yy_stack, sp)
      /\ Spells(P, Yy_stack, Yy_vstack, sp, held, at)
      /\ held \in Seq(P.tokens)
      /\ at[sp] = Len(held)
  BY <1>1, OnTop
<1>4. IsParser(P) /\ P.longest \in Nat /\ Len(input) \in Nat /\ YYMAXDEPTH \in Nat \ {0}
  BY TablesFacts, LimitsAssumption DEF IInv
<1>5. /\ CanFinish(P) /\ P.most \in Nat
      /\ Len(input) + (YYMAXDEPTH + 1) * P.most <= P.longest
  BY DEF SentencesLong, CanFinish
<1>6. Len(shifted) \in Nat /\ Len(shifted) <= Len(input)
  <2>1. PICK k \in 0 .. Len(input) : ReadTo(k)
    BY DEF IInv, Reading
  <2>2. Len(shifted) \in Nat
    BY <1>2, <1>3, LenProperties
  <2>. QED
    BY <1>4, <2>1, <2>2 DEF ReadTo
<1>7. sp \in 1 .. sp /\ sp \in 1 .. YYMAXDEPTH /\ top \in States(P)
  BY <1>3 DEF Elements
<1>8. PICK item \in P.items[top] : \E s \in P.after[item[1]][item[2]] : Len(s) <= P.most
  BY <1>5, <1>7 DEF CanFinish, States
<1>9. PICK s \in P.after[item[1]][item[2]] : Len(s) <= P.most
  BY <1>8
<1>. DEFINE q == item[1]
            b == sp - item[2]
<1>10. /\ q \in DOMAIN P.Yy_reduce /\ item[2] \in 0 .. P.Yy_reduce[q] /\ item[2] \in Nat
       /\ P.Yy_reduce[q] \in Nat
  BY <1>4, <1>7, ItemFacts
<1>11. s \in Seq(P.tokens) /\ Len(s) \in Nat
  BY <1>4, <1>10, AfterStrings, LenProperties
\* The numbers.
<1>12. PICK i0 \in Nat, n0 \in Nat, s0 \in Nat, r0 \in Nat, l0 \in Nat, z0 \in Nat :
         /\ i0 = Len(input) /\ n0 = Len(shifted) /\ s0 = Len(s) /\ r0 = P.most
         /\ l0 = P.longest /\ z0 = Below(P, sp)
  <2>1. Below(P, sp) \in Nat
    BY <1>3, <1>5, BelowFacts
  <2>. QED
    BY <1>4, <1>5, <1>6, <1>11, <2>1
<1>13. n0 + s0 + r0 + z0 <= l0 /\ n0 + s0 <= l0
  <2>1. PICK all \in Nat : all = (YYMAXDEPTH + 1) * P.most
    BY <1>4, <1>5
  <2>2. Below(P, sp) + P.most + P.most <= (YYMAXDEPTH + 1) * P.most
    BY <1>4, <1>5, <1>7, CostOfStack
  <2>3. z0 + r0 + r0 <= all /\ i0 + all <= l0 /\ n0 <= i0 /\ s0 <= r0
    BY <1>5, <1>6, <1>9, <1>12, <2>1, <2>2
  <2>. QED
    BY <2>3
<1>14. at[sp] + Len(s) <= P.longest
  BY <1>2, <1>3, <1>12, <1>13
<1>15. ASSUME q # 0
       PROVE  /\ Ends(P, Yy_stack, held, at, b, q)
              /\ at[sp] + Len(s) + P.cost[Yy_stack[b]][q] + Below(P, b) <= P.longest
  <2>1. /\ b \in 1 .. sp
        /\ \E before \in P.items[Yy_stack[b]] : before[1] = q /\ before[2] = 0
    BY <1>3, <1>4, <1>7, BegunBelow
  <2>2. PICK before \in P.items[Yy_stack[b]] : before[1] = q /\ before[2] = 0
    BY <2>1
  <2>3. b \in 1 .. sp
    BY <2>1
  <2>4. Ends(P, Yy_stack, held, at, b, q)
    BY <1>3, <1>4, <1>5, <1>15, <2>2, <2>3, AllEnd
  <2>5. P.cost[Yy_stack[b]][q] \in 0 .. P.most
    <3>1. Yy_stack[b] \in States(P)
      BY <1>3, <2>3
    <3>. QED
      BY <1>5, <1>15, <2>2, <3>1 DEF CanFinish, States
  <2>6. Below(P, b) \in Nat /\ Below(P, b) <= Below(P, sp)
    <3>1. CASE b = sp
      BY <1>12, <3>1
    <3>2. CASE b # sp
      <4>1. b \in 1 .. sp - 1 /\ b \in Nat \ {0}
        BY <1>3, <2>3, <3>2
      <4>2. Below(P, b) + P.most <= Below(P, sp) /\ Below(P, b) \in Nat
        BY <1>3, <1>5, <4>1, BelowFacts
      <4>3. PICK u \in Nat : u = Below(P, b)
        BY <4>2
      <4>4. u + r0 <= z0
        BY <1>12, <4>2, <4>3
      <4>5. u <= z0
        BY <4>4
      <4>. QED
        BY <1>12, <4>3, <4>5
    <3>. QED
      BY <3>1, <3>2
  <2>7. PICK c0 \in Nat, u0 \in Nat : c0 = P.cost[Yy_stack[b]][q] /\ u0 = Below(P, b)
    BY <1>5, <2>5, <2>6
  <2>8. c0 <= r0 /\ u0 <= z0
    BY <1>12, <2>5, <2>6, <2>7
  <2>9. n0 + s0 + c0 + u0 <= l0
    BY <1>13, <2>8
  <2>10. at[sp] + Len(s) + P.cost[Yy_stack[b]][q] + Below(P, b) <= P.longest
    BY <1>2, <1>3, <1>12, <2>7, <2>9
  <2>. QED
    BY <2>4, <2>10
<1>16. PICK y \in Seq(P.tokens) : Piece(held, 0, at[sp]) \o (s \o y) \in P.strings[P.Yy_lhs[0]]
  BY <1>3, <1>4, <1>5, <1>7, <1>14, <1>15, ItemEnds
<1>17. PICK x \in Seq(P.tokens) : shifted \o x \in Sentences
  <2>1. Piece(held, 0, at[sp]) = shifted
    BY <1>2, <1>3, PieceWhole
  <2>2. s \o y \in Seq(P.tokens)
    BY <1>11, ConcatProperties
  <2>. QED
    BY <1>16, <2>1, <2>2 DEF Sentences
<1>. DEFINE z == shifted \o x
<1>18. shifted \in Seq(P.tokens) /\ z \in Seq(P.tokens) /\ Len(z) \in Nat
       /\ Len(z) = Len(shifted) + Len(x) /\ Len(x) \in Nat
  BY <1>2, <1>3, ConcatProperties, LenProperties
<1>19. Joins(Piece(z, 0, Len(z)), shifted, x)
  BY <1>18, PieceWhole DEF Joins
<1>. HIDE DEF z
<1>20. /\ shifted = Piece(z, 0, 0 + Len(shifted))
       /\ 0 + Len(shifted) = Len(shifted) /\ 0 + 1 = 1 /\ Len(shifted) <= Len(z)
  <2>1. 0 \in 0 .. Len(z) /\ Len(z) \in 0 .. Len(z)
    BY <1>18
  <2>2. shifted = Piece(z, 0, 0 + Len(shifted))
    BY <1>18, <1>19, <2>1, PieceSplit
  <2>3. 0 + Len(shifted) = Len(shifted) /\ Len(shifted) <= Len(z)
    BY <1>6, <1>18
  <2>. QED
    BY <2>2, <2>3
<1>21. SubSeq(z, 1, Len(shifted)) = shifted
  BY <1>20 DEF Piece
<1>22. z \in Sentences
  BY <1>17 DEF z
<1>. QED
  BY <1>20, <1>21, <1>22 DEF BeginsSentence

LEMMA SentencesLongStep ==
  ASSUME ConflictFree(Tables), SentencesLong, [Next]_vars
  PROVE  ConflictFree(Tables)' /\ SentencesLong'
<1>1. program' = program /\ input' = input
  BY DEF Next, vars, given, Shift, StackOverflow, Reduce, WriteOutside, Accept, ActionReturns,
         ErrorFound, PopState, Recovered, SkipToken
<1>2. Tables' = Tables
  BY <1>1 DEF Tables
<1>. QED
  BY <1>1, <1>2 DEF SentencesLong

\* Without conflicts, and with sentences known to that length: the first message comes for the
\* first token no sentence can go on with, before it is shifted.
THEOREM FirstErrorIsRight ==
  Spec /\ ConflictFree(Tables) /\ SentencesLong => FirstErrorInTime
<1>1. ASSUME IInv, [Next]_vars, SentencesLong, yynerrs = 0, yynerrs' = 1
      PROVE  BeginsSentence(shifted)
  <2>1. pc = "parse"
    BY <1>1 DEF Next, vars, Shift, StackOverflow, Reduce, WriteOutside, Accept, ActionReturns,
                ErrorFound, PopState, Recovered, SkipToken
  <2>. QED
    BY <1>1, <2>1, ShiftedBegins
<1>2. IInv /\ ConflictFree(Tables) /\ SentencesLong /\ [Next]_vars
        /\ [ConflictFree(Tables) /\ yynerrs = 0 /\ yynerrs' = 1 =>
              IF yylookahead = 0
              THEN shifted \notin Sentences
              ELSE ~BeginsSentence(Append(shifted, yylookahead))]_vars
      => [yynerrs = 0 /\ yynerrs' = 1 =>
            /\ BeginsSentence(shifted)
            /\ IF yylookahead = 0
               THEN shifted \notin Sentences
               ELSE ~BeginsSentence(Append(shifted, yylookahead))]_vars
  BY <1>1
<1>3. ConflictFree(Tables) /\ SentencesLong /\ [Next]_vars
      => ConflictFree(Tables)' /\ SentencesLong'
  BY SentencesLongStep
<1>. QED
  BY <1>2, <1>3, Invariance, FirstErrorIsOne, PTL DEF Spec, NoFalseAlarm, FirstErrorInTime
============================================================================
