------------------------ MODULE UnfinishedTreeProofs ------------------------
(***************************************************************************)
(* Proofs about UnfinishedTree, for any states and a pool of any size: the *)
(* links are a search tree and a free list, no node is lost, and the tree  *)
(* is the bounded set of UnfinishedSet.                                    *)
(*                                                                         *)
(* That the links are a search tree is said with bounds: every node of the *)
(* tree has the numbers between which add_unfinished() comes to it, -1     *)
(* standing for none.                                                      *)
(***************************************************************************)
EXTENDS UnfinishedTree, Integers, FiniteSetTheorems, WellFoundedInduction, TLAPS

----------------------------------------------------------------------------
(***************************************************************************)
(* Search trees and lists, as predicates on links.                         *)
(***************************************************************************)
Under(x, high) == high = -1 \/ x < high

\* The bounds of n are those of a node to the left of m, to its right, or all before those
\* of m.
LeftOf(lo, hi, st, n, m)  == lo[m] <= lo[n] /\ hi[n] # -1 /\ hi[n] <= st[m]
RightOf(lo, hi, st, n, m) == st[m] <= lo[n] /\ (hi[m] = -1 \/ (hi[n] # -1 /\ hi[n] <= hi[m]))
Before(lo, hi, n, m)      == hi[n] # -1 /\ hi[n] <= lo[m]

Nested(T, lo, hi, st) ==
  \A m, n \in T : m # n =>
    \/ LeftOf(lo, hi, st, n, m) \/ RightOf(lo, hi, st, n, m) \/ Before(lo, hi, n, m)
    \/ LeftOf(lo, hi, st, m, n) \/ RightOf(lo, hi, st, m, n) \/ Before(lo, hi, m, n)

\* The numbers of the nodes are within their bounds, and no two are the same.
Numbers(T, lo, hi, st) ==
  /\ \A n \in T : st[n] \in StateNumbers /\ lo[n] < st[n] /\ Under(st[n], hi[n])
  /\ \A n \in T : lo[n] = -1 \/ \E m \in T : lo[n] = st[m]
  /\ \A n, m \in T : st[n] = st[m] => n = m

\* The links narrow the bounds, and where there is none no number is missing.
Links(T, lo, hi, st, l, r, top) ==
  /\ \/ top = NIL /\ T = {}
     \/ top \in T /\ lo[top] = -1 /\ hi[top] = -1
  /\ \A n \in T : l[n] # NIL => l[n] \in T /\ lo[l[n]] = lo[n] /\ hi[l[n]] = st[n]
  /\ \A n \in T : r[n] # NIL => r[n] \in T /\ lo[r[n]] = st[n] /\ hi[r[n]] = hi[n]
  /\ \A n, m \in T : l[n] = NIL => ~(lo[n] < st[m] /\ st[m] < st[n])
  /\ \A n, m \in T : r[n] = NIL => ~(st[n] < st[m] /\ Under(st[m], hi[n]))

Tree(T, lo, hi, st, l, r, top) ==
  Numbers(T, lo, hi, st) /\ Links(T, lo, hi, st, l, r, top) /\ Nested(T, lo, hi, st)

\* The list goes from rank to rank down to the lowest.
List(F, rank, l, head) ==
  /\ \/ head = NIL /\ F = {}
     \/ head \in F /\ \A n \in F : rank[n] <= rank[head]
  /\ \A n \in F : l[n] # NIL => l[n] \in F /\ rank[l[n]] < rank[n]
  /\ \A n, m \in F : l[n] # NIL => ~(rank[l[n]] < rank[m] /\ rank[m] < rank[n])
  /\ \A n, m \in F : l[n] = NIL => rank[n] <= rank[m]
  /\ \A n, m \in F : rank[n] = rank[m] => n = m

LEMMA Sizes == NIL \notin Nodes /\ -1 \notin StateNumbers /\ StateNumbers \subseteq Nat
BY TreeAssumption DEF NIL, Nodes

LEMMA LeastElement ==
  ASSUME NEW S \in SUBSET Nat, S # {}
  PROVE  \E n \in S : \A m \in S : n <= m
<1>. DEFINE R == {ss \in Nat \X Nat : ss[1] < ss[2]}
<1>1. IsWellFoundedOn(R, Nat)
  BY NatLessThanWellFounded DEF OpToRel
<1>2. PICK n \in S : \A m \in S : ~(<<m, n>> \in R)
  <2>1. S \subseteq Nat
    OBVIOUS
  <2>. HIDE DEF R
  <2>. QED
    BY <1>1, <2>1, WFMin
<1>3. \A m \in S : ~(m < n)
  BY <1>2
<1>. QED
  BY <1>3

LEMMA GreatestElement ==
  ASSUME NEW S \in SUBSET Int, S # {}, NEW bound \in Int, \A s \in S : s < bound
  PROVE  \E s \in S : \A s2 \in S : s2 <= s
<1>. DEFINE D == {bound - s : s \in S}
<1>1. \A s \in S : bound - s \in Nat
  <2>1. \A s \in S : s \in Int /\ s < bound
    OBVIOUS
  <2>. QED
    BY <2>1
<1>2. PICK d \in D : \A d2 \in D : d <= d2
  <2>1. D \in SUBSET Nat
    BY <1>1
  <2>2. D # {}
    OBVIOUS
  <2>. HIDE DEF D
  <2>. QED
    BY <2>1, <2>2, LeastElement
<1>3. PICK s \in S : d = bound - s
  OBVIOUS
<1>4. ASSUME NEW s2 \in S
      PROVE  s2 <= s
  <2>1. bound - s <= bound - s2
    BY <1>2, <1>3
  <2>2. s \in Int /\ s2 \in Int
    OBVIOUS
  <2>. QED
    BY <2>1, <2>2
<1>. QED
  BY <1>4

----------------------------------------------------------------------------
(***************************************************************************)
(* A node more, and a node less.                                           *)
(***************************************************************************)

\* What add_unfinished() does at a free place to the left of p, and to its right; what
\* get_unfinished() does to the link of a node n.
AddedLeft(T, lo, hi, st, l, r, p, x, node, lo2, hi2, st2, l2, r2) ==
  /\ l[p] = NIL /\ x < st[p] /\ lo[p] < x
  /\ \A n \in T : lo2[n] = lo[n] /\ hi2[n] = hi[n] /\ st2[n] = st[n] /\ r2[n] = r[n]
  /\ \A n \in T \ {p} : l2[n] = l[n]
  /\ l2[p] = node /\ l2[node] = NIL /\ r2[node] = NIL /\ st2[node] = x
  /\ lo2[node] = lo[p] /\ hi2[node] = st[p]

AddedRight(T, lo, hi, st, l, r, p, x, node, lo2, hi2, st2, l2, r2) ==
  /\ r[p] = NIL /\ st[p] < x /\ Under(x, hi[p])
  /\ \A n \in T : lo2[n] = lo[n] /\ hi2[n] = hi[n] /\ st2[n] = st[n] /\ l2[n] = l[n]
  /\ \A n \in T \ {p} : r2[n] = r[n]
  /\ r2[p] = node /\ l2[node] = NIL /\ r2[node] = NIL /\ st2[node] = x
  /\ lo2[node] = st[p] /\ hi2[node] = hi[p]

CutOff(T, lo, st, l, r, top, n, lo2, l2, top2) ==
  /\ \A m \in T : lo2[m] = IF lo[m] = st[n] THEN -1 ELSE lo[m]
  /\ \/ /\ top = n /\ top2 = r[n]
        /\ \A m \in T \ {n} : l2[m] = l[m]
     \/ /\ top2 = top
        /\ \E p \in T : /\ l[p] = n /\ l2[p] = r[n]
                        /\ \A m \in T \ {n, p} : l2[m] = l[m]

\* A new node at a free place to the left of p.
LEMMA InsertedLeft ==
  ASSUME NEW T \in SUBSET Nodes, NEW lo \in [Nodes -> Int], NEW hi \in [Nodes -> Int],
         NEW st, NEW l, NEW r, NEW top, Tree(T, lo, hi, st, l, r, top),
         NEW node \in Nodes \ T, NEW x \in StateNumbers, NEW p \in T,
         NEW lo2, NEW hi2, NEW st2, NEW l2, NEW r2,
         AddedLeft(T, lo, hi, st, l, r, p, x, node, lo2, hi2, st2, l2, r2)
  PROVE  Tree(T \cup {node}, lo2, hi2, st2, l2, r2, top)
<1>. DEFINE U == T \cup {node}
<1>. /\ l[p] = NIL /\ x < st[p] /\ lo[p] < x
     /\ \A n \in T : lo2[n] = lo[n] /\ hi2[n] = hi[n] /\ st2[n] = st[n] /\ r2[n] = r[n]
     /\ \A n \in T \ {p} : l2[n] = l[n]
     /\ l2[p] = node /\ l2[node] = NIL /\ r2[node] = NIL /\ st2[node] = x
     /\ lo2[node] = lo[p] /\ hi2[node] = st[p]
  BY DEF AddedLeft
<1>1. /\ node # NIL /\ node \notin T /\ x \in Nat
      /\ \A n \in T : st[n] \in Nat /\ lo[n] \in Int /\ hi[n] \in Int
  BY Sizes DEF Tree, Numbers
<1>2. /\ \A n \in T : st[n] \in StateNumbers /\ lo[n] < st[n] /\ Under(st[n], hi[n])
      /\ \A n \in T : lo[n] = -1 \/ \E m \in T : lo[n] = st[m]
      /\ \A n, m \in T : st[n] = st[m] => n = m
  BY DEF Tree, Numbers
<1>3. /\ \/ top = NIL /\ T = {}
         \/ top \in T /\ lo[top] = -1 /\ hi[top] = -1
      /\ \A n \in T : l[n] # NIL => l[n] \in T /\ lo[l[n]] = lo[n] /\ hi[l[n]] = st[n]
      /\ \A n \in T : r[n] # NIL => r[n] \in T /\ lo[r[n]] = st[n] /\ hi[r[n]] = hi[n]
      /\ \A n, m \in T : l[n] = NIL => ~(lo[n] < st[m] /\ st[m] < st[n])
      /\ \A n, m \in T : r[n] = NIL => ~(st[n] < st[m] /\ Under(st[m], hi[n]))
  BY DEF Tree, Links
<1>4. \A m, n \in T : m # n =>
        \/ LeftOf(lo, hi, st, n, m) \/ RightOf(lo, hi, st, n, m) \/ Before(lo, hi, n, m)
        \/ LeftOf(lo, hi, st, m, n) \/ RightOf(lo, hi, st, m, n) \/ Before(lo, hi, m, n)
  BY DEF Tree, Nested
\* No number of the tree is where the new one comes.
<1>5. \A n \in T : ~(lo[p] < st[n] /\ st[n] < st[p])
  BY <1>3
<1>6. \A n \in T : st[n] # x
  BY <1>1, <1>5
<1>7. Numbers(U, lo2, hi2, st2)
  <2>1. \A n \in U : st2[n] \in StateNumbers /\ lo2[n] < st2[n] /\ Under(st2[n], hi2[n])
    BY <1>1, <1>2 DEF Under
  <2>2. \A n \in U : lo2[n] = -1 \/ \E m \in U : lo2[n] = st2[m]
    BY <1>1, <1>2
  <2>3. \A n, m \in U : st2[n] = st2[m] => n = m
    BY <1>1, <1>2, <1>6
  <2>. QED
    BY <2>1, <2>2, <2>3 DEF Numbers
\* Where another place is free, the new number does not belong.
<1>8. ASSUME NEW n \in T, n # p
      PROVE  /\ l[n] = NIL => ~(lo[n] < x /\ x < st[n])
             /\ r[n] = NIL => ~(st[n] < x /\ Under(x, hi[n]))
  <2>1. \/ LeftOf(lo, hi, st, n, p) \/ RightOf(lo, hi, st, n, p) \/ Before(lo, hi, n, p)
        \/ LeftOf(lo, hi, st, p, n) \/ RightOf(lo, hi, st, p, n) \/ Before(lo, hi, p, n)
    BY <1>4, <1>8
  <2>2. CASE LeftOf(lo, hi, st, n, p)
    BY <1>1, <1>2, <1>5, <2>2 DEF LeftOf, Under
  <2>3. CASE RightOf(lo, hi, st, n, p)
    BY <1>1, <1>2, <2>3 DEF RightOf, Under
  <2>4. CASE Before(lo, hi, n, p)
    BY <1>1, <1>2, <2>4 DEF Before, Under
  <2>5. CASE LeftOf(lo, hi, st, p, n)
    BY <1>1, <1>2, <1>3, <2>5 DEF LeftOf, Under
  <2>6. CASE RightOf(lo, hi, st, p, n)
    BY <1>1, <1>2, <1>3, <2>6 DEF RightOf, Under
  <2>7. CASE Before(lo, hi, p, n)
    BY <1>1, <1>2, <2>7 DEF Before, Under
  <2>. QED
    BY <2>1, <2>2, <2>3, <2>4, <2>5, <2>6, <2>7
<1>9. r[p] = NIL => ~(st[p] < x)
  BY <1>1
<1>10. Links(U, lo2, hi2, st2, l2, r2, top)
  <2>1. \/ top = NIL /\ U = {}
        \/ top \in U /\ lo2[top] = -1 /\ hi2[top] = -1
    BY <1>3
  <2>2. \A n \in U : l2[n] # NIL => l2[n] \in U /\ lo2[l2[n]] = lo2[n] /\ hi2[l2[n]] = st2[n]
    BY <1>1, <1>3
  <2>3. \A n \in U : r2[n] # NIL => r2[n] \in U /\ lo2[r2[n]] = st2[n] /\ hi2[r2[n]] = hi2[n]
    BY <1>1, <1>3
  <2>4. ASSUME NEW n \in U, NEW m \in U, l2[n] = NIL
        PROVE  ~(lo2[n] < st2[m] /\ st2[m] < st2[n])
    <3>1. CASE n = node
      BY <1>1, <1>5, <3>1
    <3>2. CASE n \in T
      <4>1. n # p /\ l[n] = NIL
        BY <1>1, <2>4, <3>2
      <4>. QED
        BY <1>1, <1>3, <1>8, <3>2, <4>1
    <3>. QED
      BY <3>1, <3>2
  <2>5. ASSUME NEW n \in U, NEW m \in U, r2[n] = NIL
        PROVE  ~(st2[n] < st2[m] /\ Under(st2[m], hi2[n]))
    <3>1. CASE n = node
      BY <1>1, <1>5, <3>1 DEF Under
    <3>2. CASE n \in T
      BY <1>1, <1>3, <1>8, <1>9, <2>5, <3>2
    <3>. QED
      BY <3>1, <3>2
  <2>. QED
    BY <2>1, <2>2, <2>3, <2>4, <2>5 DEF Links
<1>11. Nested(U, lo2, hi2, st2)
  <2>1. ASSUME NEW n \in T
        PROVE  \/ LeftOf(lo2, hi2, st2, node, n) \/ RightOf(lo2, hi2, st2, node, n)
               \/ Before(lo2, hi2, node, n) \/ Before(lo2, hi2, n, node)
    <3>1. CASE n = p
      BY <1>1, <3>1 DEF LeftOf
    <3>2. CASE n # p
      <4>1. \/ LeftOf(lo, hi, st, n, p) \/ RightOf(lo, hi, st, n, p) \/ Before(lo, hi, n, p)
            \/ LeftOf(lo, hi, st, p, n) \/ RightOf(lo, hi, st, p, n) \/ Before(lo, hi, p, n)
        BY <1>4, <3>2
      <4>2. CASE LeftOf(lo, hi, st, n, p)
        BY <1>1, <1>2, <1>5, <4>2 DEF LeftOf, Under
      <4>3. CASE RightOf(lo, hi, st, n, p)
        BY <1>1, <1>2, <4>3 DEF RightOf, Before, Under
      <4>4. CASE Before(lo, hi, n, p)
        BY <1>1, <4>4 DEF Before
      <4>5. CASE LeftOf(lo, hi, st, p, n)
        BY <1>1, <1>2, <4>5 DEF LeftOf, Under
      <4>6. CASE RightOf(lo, hi, st, p, n)
        BY <1>1, <1>2, <4>6 DEF RightOf, Under
      <4>7. CASE Before(lo, hi, p, n)
        BY <1>1, <1>2, <4>7 DEF Before, Under
      <4>. QED
        BY <4>1, <4>2, <4>3, <4>4, <4>5, <4>6, <4>7
    <3>. QED
      BY <3>1, <3>2
  <2>2. ASSUME NEW m \in T, NEW n \in T, m # n
        PROVE  \/ LeftOf(lo2, hi2, st2, n, m) \/ RightOf(lo2, hi2, st2, n, m)
               \/ Before(lo2, hi2, n, m)
               \/ LeftOf(lo2, hi2, st2, m, n) \/ RightOf(lo2, hi2, st2, m, n)
               \/ Before(lo2, hi2, m, n)
    BY <1>4, <2>2 DEF LeftOf, RightOf, Before
  <2>. QED
    BY <2>1, <2>2 DEF Nested
<1>. QED
  BY <1>7, <1>10, <1>11 DEF Tree
\* A new node at a free place to the right of p.
LEMMA InsertedRight ==
  ASSUME NEW T \in SUBSET Nodes, NEW lo \in [Nodes -> Int], NEW hi \in [Nodes -> Int],
         NEW st, NEW l, NEW r, NEW top, Tree(T, lo, hi, st, l, r, top),
         NEW node \in Nodes \ T, NEW x \in StateNumbers, NEW p \in T,
         NEW lo2, NEW hi2, NEW st2, NEW l2, NEW r2,
         AddedRight(T, lo, hi, st, l, r, p, x, node, lo2, hi2, st2, l2, r2)
  PROVE  Tree(T \cup {node}, lo2, hi2, st2, l2, r2, top)
<1>. DEFINE U == T \cup {node}
<1>. /\ r[p] = NIL /\ st[p] < x /\ Under(x, hi[p])
     /\ \A n \in T : lo2[n] = lo[n] /\ hi2[n] = hi[n] /\ st2[n] = st[n] /\ l2[n] = l[n]
     /\ \A n \in T \ {p} : r2[n] = r[n]
     /\ r2[p] = node /\ l2[node] = NIL /\ r2[node] = NIL /\ st2[node] = x
     /\ lo2[node] = st[p] /\ hi2[node] = hi[p]
  BY DEF AddedRight
<1>1. /\ node # NIL /\ node \notin T /\ x \in Nat
      /\ \A n \in T : st[n] \in Nat /\ lo[n] \in Int /\ hi[n] \in Int
  BY Sizes DEF Tree, Numbers
<1>2. /\ \A n \in T : st[n] \in StateNumbers /\ lo[n] < st[n] /\ Under(st[n], hi[n])
      /\ \A n \in T : lo[n] = -1 \/ \E m \in T : lo[n] = st[m]
      /\ \A n, m \in T : st[n] = st[m] => n = m
  BY DEF Tree, Numbers
<1>3. /\ \/ top = NIL /\ T = {}
         \/ top \in T /\ lo[top] = -1 /\ hi[top] = -1
      /\ \A n \in T : l[n] # NIL => l[n] \in T /\ lo[l[n]] = lo[n] /\ hi[l[n]] = st[n]
      /\ \A n \in T : r[n] # NIL => r[n] \in T /\ lo[r[n]] = st[n] /\ hi[r[n]] = hi[n]
      /\ \A n, m \in T : l[n] = NIL => ~(lo[n] < st[m] /\ st[m] < st[n])
      /\ \A n, m \in T : r[n] = NIL => ~(st[n] < st[m] /\ Under(st[m], hi[n]))
  BY DEF Tree, Links
<1>4. \A m, n \in T : m # n =>
        \/ LeftOf(lo, hi, st, n, m) \/ RightOf(lo, hi, st, n, m) \/ Before(lo, hi, n, m)
        \/ LeftOf(lo, hi, st, m, n) \/ RightOf(lo, hi, st, m, n) \/ Before(lo, hi, m, n)
  BY DEF Tree, Nested
\* No number of the tree is where the new one comes.
<1>5. \A n \in T : ~(st[p] < st[n] /\ Under(st[n], hi[p]))
  BY <1>3
<1>6. \A n \in T : st[n] # x
  BY <1>1, <1>5
<1>7. Numbers(U, lo2, hi2, st2)
  <2>1. \A n \in U : st2[n] \in StateNumbers /\ lo2[n] < st2[n] /\ Under(st2[n], hi2[n])
    BY <1>1, <1>2 DEF Under
  <2>2. \A n \in U : lo2[n] = -1 \/ \E m \in U : lo2[n] = st2[m]
    BY <1>1, <1>2
  <2>3. \A n, m \in U : st2[n] = st2[m] => n = m
    BY <1>1, <1>2, <1>6
  <2>. QED
    BY <2>1, <2>2, <2>3 DEF Numbers
\* Where another place is free, the new number does not belong.
<1>8. ASSUME NEW n \in T, n # p
      PROVE  /\ l[n] = NIL => ~(lo[n] < x /\ x < st[n])
             /\ r[n] = NIL => ~(st[n] < x /\ Under(x, hi[n]))
  <2>1. \/ LeftOf(lo, hi, st, n, p) \/ RightOf(lo, hi, st, n, p) \/ Before(lo, hi, n, p)
        \/ LeftOf(lo, hi, st, p, n) \/ RightOf(lo, hi, st, p, n) \/ Before(lo, hi, p, n)
    BY <1>4, <1>8
  <2>2. CASE LeftOf(lo, hi, st, n, p)
    BY <1>1, <1>2, <2>2 DEF LeftOf, Under
  <2>3. CASE RightOf(lo, hi, st, n, p)
    BY <1>1, <1>2, <1>5, <2>3 DEF RightOf, Under
  <2>4. CASE Before(lo, hi, n, p)
    BY <1>1, <1>2, <2>4 DEF Before, Under
  <2>5. CASE LeftOf(lo, hi, st, p, n)
    BY <1>1, <1>2, <1>3, <2>5 DEF LeftOf, Under
  <2>6. CASE RightOf(lo, hi, st, p, n)
    BY <1>1, <1>2, <1>3, <2>6 DEF RightOf, Under
  <2>7. CASE Before(lo, hi, p, n)
    BY <1>1, <1>2, <2>7 DEF Before, Under
  <2>. QED
    BY <2>1, <2>2, <2>3, <2>4, <2>5, <2>6, <2>7
<1>9. l[p] = NIL => ~(x < st[p])
  BY <1>1
<1>10. Links(U, lo2, hi2, st2, l2, r2, top)
  <2>1. \/ top = NIL /\ U = {}
        \/ top \in U /\ lo2[top] = -1 /\ hi2[top] = -1
    BY <1>3
  <2>2. \A n \in U : l2[n] # NIL => l2[n] \in U /\ lo2[l2[n]] = lo2[n] /\ hi2[l2[n]] = st2[n]
    BY <1>1, <1>3
  <2>3. \A n \in U : r2[n] # NIL => r2[n] \in U /\ lo2[r2[n]] = st2[n] /\ hi2[r2[n]] = hi2[n]
    BY <1>1, <1>3
  <2>4. ASSUME NEW n \in U, NEW m \in U, l2[n] = NIL
        PROVE  ~(lo2[n] < st2[m] /\ st2[m] < st2[n])
    <3>1. CASE n = node
      BY <1>1, <1>2, <1>5, <3>1 DEF Under
    <3>2. CASE n \in T
      BY <1>1, <1>3, <1>8, <1>9, <2>4, <3>2
    <3>. QED
      BY <3>1, <3>2
  <2>5. ASSUME NEW n \in U, NEW m \in U, r2[n] = NIL
        PROVE  ~(st2[n] < st2[m] /\ Under(st2[m], hi2[n]))
    <3>1. CASE n = node
      BY <1>1, <1>5, <3>1 DEF Under
    <3>2. CASE n \in T
      <4>1. n # p /\ r[n] = NIL
        BY <1>1, <2>5, <3>2
      <4>. QED
        BY <1>1, <1>3, <1>8, <3>2, <4>1
    <3>. QED
      BY <3>1, <3>2
  <2>. QED
    BY <2>1, <2>2, <2>3, <2>4, <2>5 DEF Links
<1>11. Nested(U, lo2, hi2, st2)
  <2>1. ASSUME NEW n \in T
        PROVE  \/ LeftOf(lo2, hi2, st2, node, n) \/ RightOf(lo2, hi2, st2, node, n)
               \/ Before(lo2, hi2, node, n) \/ Before(lo2, hi2, n, node)
    <3>1. CASE n = p
      BY <1>1, <3>1 DEF RightOf
    <3>2. CASE n # p
      <4>1. \/ LeftOf(lo, hi, st, n, p) \/ RightOf(lo, hi, st, n, p) \/ Before(lo, hi, n, p)
            \/ LeftOf(lo, hi, st, p, n) \/ RightOf(lo, hi, st, p, n) \/ Before(lo, hi, p, n)
        BY <1>4, <3>2
      <4>2. CASE LeftOf(lo, hi, st, n, p)
        BY <1>1, <1>2, <4>2 DEF LeftOf, Before, Under
      <4>3. CASE RightOf(lo, hi, st, n, p)
        BY <1>1, <1>2, <1>5, <4>3 DEF RightOf, Before, Under
      <4>4. CASE Before(lo, hi, n, p)
        BY <1>1, <1>2, <4>4 DEF Before
      <4>5. CASE LeftOf(lo, hi, st, p, n)
        BY <1>1, <1>2, <4>5 DEF LeftOf, Under
      <4>6. CASE RightOf(lo, hi, st, p, n)
        BY <1>1, <1>2, <4>6 DEF RightOf, Under
      <4>7. CASE Before(lo, hi, p, n)
        BY <1>1, <1>2, <4>7 DEF Before, Under
      <4>. QED
        BY <4>1, <4>2, <4>3, <4>4, <4>5, <4>6, <4>7
    <3>. QED
      BY <3>1, <3>2
  <2>2. ASSUME NEW m \in T, NEW n \in T, m # n
        PROVE  \/ LeftOf(lo2, hi2, st2, n, m) \/ RightOf(lo2, hi2, st2, n, m)
               \/ Before(lo2, hi2, n, m)
               \/ LeftOf(lo2, hi2, st2, m, n) \/ RightOf(lo2, hi2, st2, m, n)
               \/ Before(lo2, hi2, m, n)
    BY <1>4, <2>2 DEF LeftOf, RightOf, Before
  <2>. QED
    BY <2>1, <2>2 DEF Nested
<1>. QED
  BY <1>7, <1>10, <1>11 DEF Tree

\* The first node.
LEMMA InsertedFirst ==
  ASSUME NEW lo, NEW hi, NEW st, NEW l, NEW r, NEW node \in Nodes,
         lo[node] = -1, hi[node] = -1, st[node] \in StateNumbers,
         l[node] = NIL, r[node] = NIL
  PROVE  Tree({node}, lo, hi, st, l, r, node)
<1>1. st[node] \in Nat
  BY Sizes
<1>2. Numbers({node}, lo, hi, st)
  BY <1>1 DEF Numbers, Under
<1>3. Links({node}, lo, hi, st, l, r, node)
  BY <1>1 DEF Links
<1>4. Nested({node}, lo, hi, st)
  BY DEF Nested
<1>. QED
  BY <1>2, <1>3, <1>4 DEF Tree

\* The node with the least number goes, and its subtree of larger numbers takes its place.
LEMMA Taken ==
  ASSUME NEW T \in SUBSET Nodes, NEW lo \in [Nodes -> Int], NEW hi \in [Nodes -> Int],
         NEW st, NEW l, NEW r, NEW top, Tree(T, lo, hi, st, l, r, top),
         NEW n \in T, l[n] = NIL, lo[n] = -1,
         NEW lo2, NEW l2, NEW top2, CutOff(T, lo, st, l, r, top, n, lo2, l2, top2)
  PROVE  /\ \A m \in T : st[n] <= st[m]
         /\ Tree(T \ {n}, lo2, hi, st, l2, r, top2)
<1>. DEFINE U == T \ {n}
<1>1. /\ NIL \notin T /\ n # NIL
      /\ \A m \in T : st[m] \in Nat /\ lo[m] \in Int /\ hi[m] \in Int
  BY Sizes DEF Tree, Numbers
<1>2. /\ \A m \in T : st[m] \in StateNumbers /\ lo[m] < st[m] /\ Under(st[m], hi[m])
      /\ \A m \in T : lo[m] = -1 \/ \E k \in T : lo[m] = st[k]
      /\ \A k, m \in T : st[k] = st[m] => k = m
  BY DEF Tree, Numbers
<1>3. /\ \/ top = NIL /\ T = {}
         \/ top \in T /\ lo[top] = -1 /\ hi[top] = -1
      /\ \A m \in T : l[m] # NIL => l[m] \in T /\ lo[l[m]] = lo[m] /\ hi[l[m]] = st[m]
      /\ \A m \in T : r[m] # NIL => r[m] \in T /\ lo[r[m]] = st[m] /\ hi[r[m]] = hi[m]
      /\ \A k, m \in T : l[k] = NIL => ~(lo[k] < st[m] /\ st[m] < st[k])
      /\ \A k, m \in T : r[k] = NIL => ~(st[k] < st[m] /\ Under(st[m], hi[k]))
  BY DEF Tree, Links
<1>4. \A k, m \in T : k # m =>
        \/ LeftOf(lo, hi, st, m, k) \/ RightOf(lo, hi, st, m, k) \/ Before(lo, hi, m, k)
        \/ LeftOf(lo, hi, st, k, m) \/ RightOf(lo, hi, st, k, m) \/ Before(lo, hi, k, m)
  BY DEF Tree, Nested
<1>5. \A m \in T : st[n] <= st[m]
  BY <1>1, <1>3
<1>6. \A m \in U : st[n] < st[m]
  BY <1>1, <1>2, <1>5
<1>7. \A m \in T : lo2[m] = IF lo[m] = st[n] THEN -1 ELSE lo[m]
  BY DEF CutOff
\* A lower bound that is not the number of n is -1 or a larger one.
<1>8. \A m \in T : lo[m] = -1 \/ lo[m] = st[n] \/ (lo[m] > st[n] /\ \E k \in U : lo[m] = st[k])
  BY <1>1, <1>2, <1>6
<1>9. Numbers(U, lo2, hi, st)
  <2>1. \A m \in U : lo2[m] < st[m]
    BY <1>1, <1>2, <1>7
  <2>2. \A m \in U : lo2[m] = -1 \/ \E k \in U : lo2[m] = st[k]
    BY <1>7, <1>8
  <2>. QED
    BY <1>2, <2>1, <2>2 DEF Numbers
<1>10. Nested(U, lo2, hi, st)
  <2>. SUFFICES ASSUME NEW k \in U, NEW m \in U, k # m,
                       \/ LeftOf(lo, hi, st, m, k) \/ RightOf(lo, hi, st, m, k)
                       \/ Before(lo, hi, m, k)
                PROVE  \/ LeftOf(lo2, hi, st, m, k) \/ RightOf(lo2, hi, st, m, k)
                       \/ Before(lo2, hi, m, k)
    BY <1>4 DEF Nested
  <2>1. CASE LeftOf(lo, hi, st, m, k)
    BY <1>1, <1>7, <1>8, <2>1 DEF LeftOf
  <2>2. CASE RightOf(lo, hi, st, m, k)
    BY <1>1, <1>6, <1>7, <1>8, <2>2 DEF RightOf
  <2>3. CASE Before(lo, hi, m, k)
    BY <1>1, <1>2, <1>6, <1>7, <1>8, <2>3 DEF Before, Under
  <2>. QED
    BY <2>1, <2>2, <2>3
<1>11. \A m \in U : r[m] # NIL => r[m] \in U /\ lo2[r[m]] = st[m] /\ hi[r[m]] = hi[m]
  BY <1>1, <1>3, <1>6, <1>7
<1>12. \A k, m \in U : r[k] = NIL => ~(st[k] < st[m] /\ Under(st[m], hi[k]))
  BY <1>3
\* No other link goes to n.
<1>13. \A m \in U : l[m] = n => hi[n] = st[m]
  BY <1>1, <1>3
<1>14. \A m \in U : l[m] # NIL /\ l[m] # n =>
         l[m] \in U /\ lo2[l[m]] = lo2[m] /\ hi[l[m]] = st[m]
  BY <1>3, <1>7
<1>15. \A k, m \in U : l[k] = NIL => ~(lo2[k] < st[m] /\ st[m] < st[k])
  BY <1>1, <1>3, <1>6, <1>7
<1>16. r[n] # NIL => r[n] \in U /\ lo2[r[n]] = -1 /\ hi[r[n]] = hi[n]
  BY <1>1, <1>2, <1>3, <1>7
<1>17. r[n] = NIL => \A m \in U : hi[n] # -1 /\ hi[n] <= st[m]
  BY <1>1, <1>3, <1>6 DEF Under
<1>18. Links(U, lo2, hi, st, l2, r, top2)
  <2>1. CASE top = n /\ top2 = r[n] /\ \A m \in U : l2[m] = l[m]
    <3>1. hi[n] = -1
      BY <1>1, <1>3, <2>1
    <3>2. \A m \in U : l[m] # n
      BY <1>1, <1>13, <3>1
    <3>3. \/ top2 = NIL /\ U = {}
          \/ top2 \in U /\ lo2[top2] = -1 /\ hi[top2] = -1
      BY <1>16, <1>17, <2>1, <3>1
    <3>. QED
      BY <1>11, <1>12, <1>14, <1>15, <2>1, <3>2, <3>3 DEF Links
  <2>2. ASSUME top2 = top,
               NEW p \in T, l[p] = n, l2[p] = r[n], \A m \in T \ {n, p} : l2[m] = l[m]
        PROVE  Links(U, lo2, hi, st, l2, r, top2)
    <3>1. p \in U
      BY <1>1, <2>2
    <3>2. hi[n] = st[p] /\ lo[p] = -1 /\ lo2[p] = -1
      BY <1>1, <1>3, <1>7, <2>2
    <3>3. \A m \in U \ {p} : l[m] # n
      BY <1>2, <1>13, <3>2
    <3>4. top \in U /\ lo2[top] = -1 /\ hi[top] = -1
      BY <1>1, <1>3, <1>7, <2>2, <3>2
    <3>5. l2[p] # NIL => l2[p] \in U /\ lo2[l2[p]] = lo2[p] /\ hi[l2[p]] = st[p]
      BY <1>16, <2>2, <3>2
    <3>6. l2[p] = NIL => \A m \in U : ~(st[m] < st[p])
      BY <1>1, <1>17, <2>2, <3>1, <3>2
    <3>. QED
      BY <1>11, <1>12, <1>14, <1>15, <2>2, <3>1, <3>3, <3>4, <3>5, <3>6 DEF Links
  <2>. QED
    BY <2>1, <2>2 DEF CutOff
<1>. QED
  BY <1>5, <1>9, <1>10, <1>18 DEF Tree

----------------------------------------------------------------------------
(***************************************************************************)
(* The free list.                                                          *)
(***************************************************************************)
OnFront(F, l, head, n, l2) == l2[n] = head /\ \A m \in F : l2[m] = l[m]

LEMMA Pushed ==
  ASSUME NEW F \in SUBSET Nodes, NEW rank \in [Nodes -> Nat], NEW l, NEW head,
         List(F, rank, l, head), NEW n \in Nodes \ F,
         NEW l2, OnFront(F, l, head, n, l2)
  PROVE  \E rank2 \in [Nodes -> Nat] : List(F \cup {n}, rank2, l2, n)
<1>. DEFINE top   == IF head = NIL THEN 0 ELSE rank[head] + 1
            rank2 == [rank EXCEPT ![n] = top]
<1>. l2[n] = head /\ \A m \in F : l2[m] = l[m]
  BY DEF OnFront
<1>1. /\ \/ head = NIL /\ F = {}
         \/ head \in F /\ \A m \in F : rank[m] <= rank[head]
      /\ \A m \in F : l[m] # NIL => l[m] \in F /\ rank[l[m]] < rank[m]
      /\ \A k, m \in F : l[k] # NIL => ~(rank[l[k]] < rank[m] /\ rank[m] < rank[k])
      /\ \A k, m \in F : l[k] = NIL => rank[k] <= rank[m]
      /\ \A k, m \in F : rank[k] = rank[m] => k = m
  BY DEF List
<1>2. NIL \notin F /\ NIL # n /\ \A m \in F : rank[m] \in Nat
  BY Sizes
<1>3. top \in Nat /\ \A m \in F : rank[m] < top
  BY <1>1, <1>2
<1>4. rank2 \in [Nodes -> Nat] /\ rank2[n] = top /\ \A m \in F : rank2[m] = rank[m]
  BY <1>3
<1>5. head # NIL => head \in F /\ top = rank[head] + 1
  BY <1>1
<1>6. head = NIL => F = {}
  BY <1>1, <1>2
<1>. HIDE DEF rank2, top
<1>7. \A m \in F \cup {n} : rank2[m] <= rank2[n]
  BY <1>2, <1>3, <1>4
<1>8. \A m \in F \cup {n} : l2[m] # NIL => l2[m] \in F \cup {n} /\ rank2[l2[m]] < rank2[m]
  BY <1>1, <1>2, <1>3, <1>4, <1>5
<1>9. \A k, m \in F \cup {n} : l2[k] # NIL => ~(rank2[l2[k]] < rank2[m] /\ rank2[m] < rank2[k])
  BY <1>1, <1>2, <1>3, <1>4, <1>5
<1>10. \A k, m \in F \cup {n} : l2[k] = NIL => rank2[k] <= rank2[m]
  BY <1>1, <1>2, <1>3, <1>4, <1>6
<1>11. \A k, m \in F \cup {n} : rank2[k] = rank2[m] => k = m
  BY <1>1, <1>2, <1>3, <1>4
<1>12. List(F \cup {n}, rank2, l2, n)
  BY <1>7, <1>8, <1>9, <1>10, <1>11 DEF List
<1>. QED
  BY <1>4, <1>12

LEMMA Popped ==
  ASSUME NEW F \in SUBSET Nodes, NEW rank \in [Nodes -> Nat], NEW l, NEW head,
         List(F, rank, l, head), head # NIL,
         NEW l2, \A m \in F \ {head} : l2[m] = l[m]
  PROVE  head \in F /\ List(F \ {head}, rank, l2, l[head])
<1>1. /\ head \in F /\ \A m \in F : rank[m] <= rank[head]
      /\ \A m \in F : l[m] # NIL => l[m] \in F /\ rank[l[m]] < rank[m]
      /\ \A k, m \in F : l[k] # NIL => ~(rank[l[k]] < rank[m] /\ rank[m] < rank[k])
      /\ \A k, m \in F : l[k] = NIL => rank[k] <= rank[m]
      /\ \A k, m \in F : rank[k] = rank[m] => k = m
  BY DEF List
<1>2. \A m \in F : rank[m] \in Nat
  OBVIOUS
<1>3. \A m \in F : l[m] # head
  BY <1>1, <1>2
<1>4. l[head] = NIL => F \ {head} = {}
  BY <1>1, <1>2
<1>5. l[head] # NIL => \A m \in F \ {head} : rank[m] <= rank[l[head]]
  BY <1>1, <1>2
<1>. QED
  BY <1>1, <1>3, <1>4, <1>5 DEF List

----------------------------------------------------------------------------
(***************************************************************************)
(* What is behind the links.                                               *)
(***************************************************************************)

\* From the root, the search for the number of a node comes to that node.
LEMMA TreeBehind ==
  ASSUME NEW T \in SUBSET Nodes, NEW lo \in [Nodes -> Int], NEW hi \in [Nodes -> Int],
         NEW st, NEW l, NEW r, NEW top, Tree(T, lo, hi, st, l, r, top)
  PROVE  Behind([node \in Nodes |-> {l[node], r[node]}], top) = T
<1>. DEFINE links == [node \in Nodes |-> {l[node], r[node]}]
<1>1. /\ NIL \notin T
      /\ \A m \in T : st[m] \in Nat /\ lo[m] \in Int /\ hi[m] \in Int
      /\ \A m \in T : st[m] \in StateNumbers /\ lo[m] < st[m] /\ Under(st[m], hi[m])
      /\ \A m \in T : lo[m] = -1 \/ lo[m] \in Nat
      /\ \A k, m \in T : st[k] = st[m] => k = m
  BY Sizes DEF Tree, Numbers
<1>2. /\ \/ top = NIL /\ T = {}
         \/ top \in T /\ lo[top] = -1 /\ hi[top] = -1
      /\ \A m \in T : l[m] # NIL => l[m] \in T /\ lo[l[m]] = lo[m] /\ hi[l[m]] = st[m]
      /\ \A m \in T : r[m] # NIL => r[m] \in T /\ lo[r[m]] = st[m] /\ hi[r[m]] = hi[m]
      /\ \A k, m \in T : l[k] = NIL => ~(lo[k] < st[m] /\ st[m] < st[k])
      /\ \A k, m \in T : r[k] = NIL => ~(st[k] < st[m] /\ Under(st[m], hi[k]))
  BY DEF Tree, Links
<1>3. ClosedUnder(links, T) /\ top \in T \cup {NIL}
  BY <1>2 DEF ClosedUnder
<1>4. Behind(links, top) \subseteq T
  BY <1>3 DEF Behind
<1>5. ASSUME NEW n \in T, NEW C \in SUBSET Nodes, top \in C \cup {NIL}, ClosedUnder(links, C)
      PROVE  n \in C
  <2>. SUFFICES ASSUME n \notin C
                PROVE  FALSE
    OBVIOUS
  <2>1. \A m \in C \cap T : /\ l[m] # NIL => l[m] \in C \cap T
                            /\ r[m] # NIL => r[m] \in C \cap T
    BY <1>2, <1>5 DEF ClosedUnder
  <2>. DEFINE D == {m \in C \cap T : lo[m] < st[n] /\ Under(st[n], hi[m])}
  <2>2. top \in D
    BY <1>1, <1>2, <1>5 DEF Under
  \* The nodes the search comes to with the largest lower bound.
  <2>3. PICK m1 \in D : \A m \in D : lo[m] <= lo[m1]
    <3>. DEFINE S == {lo[m] : m \in D}
    <3>1. S \in SUBSET Int /\ S # {} /\ st[n] \in Int
      BY <1>1, <2>2
    <3>2. \A s \in S : s < st[n]
      OBVIOUS
    <3>3. \E s \in S : \A s2 \in S : s2 <= s
      <4>. HIDE DEF S
      <4>. QED
        BY <3>1, <3>2, GreatestElement
    <3>. QED
      BY <3>3
  <2>. DEFINE E == {m \in D : lo[m] = lo[m1] /\ hi[m] # -1}
  \* Among them, one with the least upper bound, if any has one.
  <2>4. \E m2 \in D : /\ lo[m2] = lo[m1]
                      /\ \A m \in E : hi[m2] # -1 /\ hi[m2] <= hi[m]
    <3>1. CASE E = {}
      BY <3>1
    <3>2. CASE E # {}
      <4>. DEFINE S == {hi[m] : m \in E}
      <4>1. S \in SUBSET Nat /\ S # {}
        BY <1>1, <3>2 DEF Under
      <4>2. PICK s \in S : \A s2 \in S : s <= s2
        BY <4>1, LeastElement
      <4>. QED
        BY <4>2
    <3>. QED
      BY <3>1, <3>2
  <2>5. PICK m2 \in D : /\ lo[m2] = lo[m1]
                        /\ \A m \in E : hi[m2] # -1 /\ hi[m2] <= hi[m]
    BY <2>4
  <2>6. m2 # n /\ m2 \in T /\ m2 \in C /\ st[m2] # st[n]
    BY <1>1
  <2>7. CASE st[n] < st[m2]
    <3>1. l[m2] # NIL
      BY <1>2, <2>6, <2>7
    <3>2. l[m2] \in D /\ lo[l[m2]] = lo[m1] /\ hi[l[m2]] = st[m2]
      BY <1>1, <1>2, <2>1, <2>5, <2>6, <2>7, <3>1 DEF Under
    <3>3. l[m2] \in E
      BY <1>1, <2>6, <3>2
    <3>. QED
      BY <1>1, <2>5, <2>6, <3>2, <3>3 DEF Under
  <2>8. CASE st[m2] < st[n]
    <3>1. r[m2] # NIL
      BY <1>2, <2>6, <2>8
    <3>2. r[m2] \in D /\ lo[r[m2]] = st[m2]
      BY <1>1, <1>2, <2>1, <2>6, <2>8, <3>1 DEF Under
    <3>. QED
      BY <1>1, <2>3, <2>5, <2>6, <3>2
  <2>. QED
    BY <1>1, <2>6, <2>7, <2>8
<1>. QED
  BY <1>4, <1>5 DEF Behind

LEMMA ListBehind ==
  ASSUME NEW F \in SUBSET Nodes, NEW rank \in [Nodes -> Nat], NEW l, NEW head,
         List(F, rank, l, head)
  PROVE  Behind([node \in Nodes |-> {l[node]}], head) = F
<1>. DEFINE links == [node \in Nodes |-> {l[node]}]
<1>1. /\ \/ head = NIL /\ F = {}
         \/ head \in F /\ \A m \in F : rank[m] <= rank[head]
      /\ \A m \in F : l[m] # NIL => l[m] \in F /\ rank[l[m]] < rank[m]
      /\ \A k, m \in F : l[k] # NIL => ~(rank[l[k]] < rank[m] /\ rank[m] < rank[k])
      /\ \A k, m \in F : l[k] = NIL => rank[k] <= rank[m]
      /\ \A k, m \in F : rank[k] = rank[m] => k = m
  BY DEF List
<1>2. NIL \notin F /\ \A m \in F : rank[m] \in Nat
  BY Sizes
<1>3. ClosedUnder(links, F) /\ head \in F \cup {NIL}
  BY <1>1 DEF ClosedUnder
<1>4. Behind(links, head) \subseteq F
  BY <1>3 DEF Behind
<1>5. ASSUME NEW n \in F, NEW C \in SUBSET Nodes, head \in C \cup {NIL}, ClosedUnder(links, C)
      PROVE  n \in C
  <2>. SUFFICES ASSUME n \notin C
                PROVE  FALSE
    OBVIOUS
  <2>1. \A m \in C \cap F : l[m] # NIL => l[m] \in C \cap F
    BY <1>1, <1>5 DEF ClosedUnder
  <2>. DEFINE D == {m \in C \cap F : rank[m] > rank[n]}
              S == {rank[m] : m \in D}
  <2>2. head \in D
    BY <1>1, <1>2, <1>5
  <2>3. S \in SUBSET Nat /\ S # {}
    BY <1>2, <2>2
  <2>4. PICK s \in S : \A s2 \in S : s <= s2
    BY <2>3, LeastElement
  <2>5. PICK m \in D : \A k \in D : rank[m] <= rank[k]
    BY <2>4
  <2>6. l[m] # NIL
    BY <1>1, <1>2
  <2>7. l[m] \in C \cap F /\ rank[l[m]] < rank[m] /\ ~(rank[l[m]] < rank[n])
    BY <1>1, <2>1, <2>6
  <2>8. l[m] \in D
    BY <1>1, <1>2, <2>7
  <2>. QED
    BY <1>2, <2>5, <2>7, <2>8
<1>. QED
  BY <1>4, <1>5 DEF Behind

----------------------------------------------------------------------------
(***************************************************************************)
(* The inductive invariant: T is the tree and F the free list, also        *)
(* between the steps of a call, and a call that adds is where its number   *)
(* belongs.                                                                *)
(***************************************************************************)
AddPlace(T, lo, hi) ==
  /\ root # NIL => root \in T /\ lo[root] < adding /\ Under(adding, hi[root])
  /\ \/ parent = TOP /\ root = Unfinished
     \/ \E p \in T : /\ parent = <<"left", p>> /\ root = left[p]
                     /\ adding < state[p] /\ lo[p] < adding
     \/ \E p \in T : /\ parent = <<"right", p>> /\ root = right[p]
                     /\ state[p] < adding /\ Under(adding, hi[p])

GetPlace(T, lo) ==
  /\ root \in T /\ lo[root] = -1
  /\ \/ parent = TOP /\ root = Unfinished
     \/ \E p \in T : parent = <<"left", p>> /\ root = left[p]

Call(T, lo, hi) ==
  /\ pc = "add" => adding \in StateNumbers /\ AddPlace(T, lo, hi)
  /\ pc = "get" => GetPlace(T, lo)

InUse == {node \in Nodes : node < Next_allocate}

Holds(T, F, lo, hi, rank) ==
  /\ T \cap F = {} /\ T \cup F = InUse
  /\ Tree(T, lo, hi, state, left, right, Unfinished)
  /\ List(F, rank, left, Available)
  /\ Call(T, lo, hi)

Shape ==
  \E T, F \in SUBSET Nodes, lo, hi \in [Nodes -> Int], rank \in [Nodes -> Nat] :
    Holds(T, F, lo, hi, rank)

IInv == TypeOK /\ Shape

LEMMA InitHolds == Init => IInv
<1>. SUFFICES ASSUME Init
              PROVE  IInv
  OBVIOUS
<1>1. TypeOK
  BY TreeAssumption DEF Init, TypeOK, Pointers, Nodes, NIL, TOP
<1>. DEFINE zero == [node \in Nodes |-> 0]
<1>2. zero \in [Nodes -> Int] /\ zero \in [Nodes -> Nat] /\ {} \in SUBSET Nodes
  OBVIOUS
<1>3. Tree({}, zero, zero, state, left, right, Unfinished)
  BY DEF Init, Tree, Numbers, Links, Nested
<1>4. List({}, zero, left, Available)
  BY DEF Init, List
<1>5. {} \cap {} = {} /\ {} \cup {} = InUse
  BY TreeAssumption DEF Init, InUse, Nodes
<1>6. Call({}, zero, zero)
  BY DEF Init, Call
<1>7. Holds({}, {}, zero, zero, zero)
  BY <1>3, <1>4, <1>5, <1>6 DEF Holds
<1>. QED
  BY <1>1, <1>2, <1>7 DEF IInv, Shape

\* The two sets are those the properties are about.
LEMMA SetsBehind ==
  ASSUME NEW T \in SUBSET Nodes, NEW F \in SUBSET Nodes, NEW lo \in [Nodes -> Int],
         NEW hi \in [Nodes -> Int], NEW rank \in [Nodes -> Nat],
         Holds(T, F, lo, hi, rank)
  PROVE  TreeNodes = T /\ FreeNodes = F
BY TreeBehind, ListBehind DEF Holds, TreeNodes, FreeNodes

LEMMA SetsBehindNext ==
  ASSUME NEW T \in SUBSET Nodes, NEW F \in SUBSET Nodes, NEW lo \in [Nodes -> Int],
         NEW hi \in [Nodes -> Int], NEW rank \in [Nodes -> Nat],
         Holds(T, F, lo, hi, rank)'
  PROVE  TreeNodes' = T /\ FreeNodes' = F
<1>1. /\ Tree(T, lo, hi, state', left', right', Unfinished')
      /\ List(F, rank, left', Available')
  BY DEF Holds
<1>. QED
  BY <1>1, TreeBehind, ListBehind DEF TreeNodes, FreeNodes

----------------------------------------------------------------------------
(***************************************************************************)
(* The steps that only move along the links.                               *)
(***************************************************************************)
Moves ==
  \/ \E n \in StateNumbers : CallAdd(n)
  \/ DescendToAdd \/ AddFindsState \/ HeapOverflow \/ CallGet \/ DescendToGet

LEMMA MovesKeep ==
  ASSUME NEW T \in SUBSET Nodes, NEW F \in SUBSET Nodes, NEW lo \in [Nodes -> Int],
         NEW hi \in [Nodes -> Int], NEW rank \in [Nodes -> Nat],
         TypeOK, Holds(T, F, lo, hi, rank), Moves
  PROVE  /\ UNCHANGED <<state, left, right, Unfinished, Available, Next_allocate>>
         /\ TypeOK'
         /\ Holds(T, F, lo, hi, rank)'
<1>1. UNCHANGED <<state, left, right, Unfinished, Available, Next_allocate>>
  BY DEF Moves, CallAdd, DescendToAdd, AddFindsState, HeapOverflow, CallGet, DescendToGet
<1>2. /\ Tree(T, lo, hi, state, left, right, Unfinished)
      /\ Call(T, lo, hi)
  BY DEF Holds
<1>3. /\ NIL \notin T
      /\ \A n \in T : state[n] \in StateNumbers /\ state[n] \in Nat
      /\ \A n \in T : lo[n] \in Int /\ hi[n] \in Int
      /\ \A n \in StateNumbers : n \in Nat
  <2>1. \A n \in T : state[n] \in StateNumbers
    BY <1>2 DEF Tree, Numbers
  <2>2. \A n \in T : n \in Nodes
    OBVIOUS
  <2>. QED
    BY <2>1, <2>2, Sizes
<1>4. /\ Unfinished # NIL => Unfinished \in T /\ lo[Unfinished] = -1 /\ hi[Unfinished] = -1
      /\ \A n \in T : left[n] # NIL => left[n] \in T /\ lo[left[n]] = lo[n] /\ hi[left[n]] = state[n]
      /\ \A n \in T : right[n] # NIL => right[n] \in T /\ lo[right[n]] = state[n] /\ hi[right[n]] = hi[n]
  BY <1>2 DEF Tree, Links
<1>5. TypeOK' /\ Call(T, lo, hi)'
  <2>1. ASSUME NEW n \in StateNumbers, CallAdd(n)
        PROVE  TypeOK' /\ Call(T, lo, hi)'
    <3>1. TypeOK'
      BY <2>1 DEF TypeOK, CallAdd
    <3>2. root' # NIL => root' \in T /\ lo[root'] < adding' /\ hi[root'] = -1
      BY <1>3, <1>4, <2>1 DEF CallAdd
    <3>3. parent' = TOP /\ root' = Unfinished' /\ pc' = "add" /\ adding' \in StateNumbers
      BY <2>1 DEF CallAdd
    <3>. QED
      BY <3>1, <3>2, <3>3 DEF Call, AddPlace, Under
  <2>2. CASE DescendToAdd
    <3>1. /\ root \in T /\ lo[root] < adding /\ Under(adding, hi[root])
          /\ adding \in StateNumbers /\ adding \in Nat
      BY <1>2, <1>3, <2>2 DEF DescendToAdd, Call, AddPlace
    <3>2. CASE adding < state[root]
      <4>1. /\ parent' = <<"left", root>> /\ root' = left'[root]
            /\ pc' = "add" /\ UNCHANGED <<adding, state, left, right, result>>
        BY <2>2, <3>2 DEF DescendToAdd
      <4>2. root' # NIL => root' \in T /\ lo[root'] < adding' /\ Under(adding', hi[root'])
        BY <1>4, <3>1, <3>2, <4>1 DEF Under
      <4>3. AddPlace(T, lo, hi)'
        BY <3>1, <3>2, <4>1, <4>2 DEF AddPlace
      <4>4. TypeOK'
        BY <1>1, <3>1, <4>1 DEF TypeOK
      <4>. QED
        BY <3>1, <4>1, <4>3, <4>4 DEF Call
    <3>3. CASE ~(adding < state[root])
      <4>1. /\ parent' = <<"right", root>> /\ root' = right'[root]
            /\ pc' = "add" /\ UNCHANGED <<adding, state, left, right, result>>
        BY <2>2, <3>3 DEF DescendToAdd
      <4>2. state[root] < adding
        BY <1>3, <2>2, <3>1, <3>3 DEF DescendToAdd
      <4>3. root' # NIL => root' \in T /\ lo[root'] < adding' /\ Under(adding', hi[root'])
        BY <1>4, <3>1, <4>1, <4>2 DEF Under
      <4>4. AddPlace(T, lo, hi)'
        BY <3>1, <4>1, <4>2, <4>3 DEF AddPlace
      <4>5. TypeOK'
        BY <1>1, <3>1, <4>1 DEF TypeOK
      <4>. QED
        BY <3>1, <4>1, <4>4, <4>5 DEF Call
    <3>. QED
      BY <3>2, <3>3
  <2>3. CASE AddFindsState
    BY <2>3 DEF AddFindsState, TypeOK, Call
  <2>4. CASE HeapOverflow
    BY <2>4 DEF HeapOverflow, TypeOK, Call
  <2>5. CASE CallGet
    <3>1. CASE Unfinished = NIL
      BY <2>5, <3>1 DEF CallGet, TypeOK, Call
    <3>2. CASE Unfinished # NIL
      <4>1. parent' = TOP /\ root' = Unfinished' /\ pc' = "get" /\ result' = result
        BY <2>5, <3>2 DEF CallGet
      <4>2. root' \in T /\ lo[root'] = -1
        BY <1>1, <1>4, <3>2, <4>1
      <4>3. TypeOK'
        BY <1>1, <2>5, <4>1 DEF TypeOK, CallGet
      <4>. QED
        BY <4>1, <4>2, <4>3 DEF Call, GetPlace
    <3>. QED
      BY <3>1, <3>2
  <2>6. CASE DescendToGet
    <3>1. root \in T /\ lo[root] = -1
      BY <1>2, <2>6 DEF DescendToGet, Call, GetPlace
    <3>2. /\ parent' = <<"left", root>> /\ root' = left'[root] /\ left'[root] = left[root]
          /\ left[root] # NIL /\ pc' = "get" /\ UNCHANGED <<adding, result>>
      BY <2>6 DEF DescendToGet
    <3>3. root' \in T /\ lo[root'] = -1
      BY <1>4, <3>1, <3>2
    <3>4. TypeOK'
      BY <1>1, <3>1, <3>2, <3>3 DEF TypeOK, Pointers
    <3>. QED
      BY <3>1, <3>2, <3>3, <3>4 DEF Call, GetPlace
  <2>. QED
    BY <2>1, <2>2, <2>3, <2>4, <2>5, <2>6 DEF Moves
<1>6. InUse' = InUse
  BY <1>1 DEF InUse
<1>. QED
  BY <1>1, <1>5, <1>6 DEF Holds

----------------------------------------------------------------------------
(***************************************************************************)
(* The steps that change the links.                                        *)
(***************************************************************************)

\* Where the new node comes from: the free list, or Heap[].
LEMMA NodeTaken ==
  ASSUME NEW T \in SUBSET Nodes, NEW F \in SUBSET Nodes, NEW lo \in [Nodes -> Int],
         NEW hi \in [Nodes -> Int], NEW rank \in [Nodes -> Nat],
         TypeOK, Holds(T, F, lo, hi, rank), LinkNewNode
  PROVE  \E node \in Nodes \ T, F2 \in SUBSET Nodes :
           /\ Unfinished' = StoreTop(parent, node)
           /\ state' = [state EXCEPT ![node] = adding]
           /\ left' = ClearLink(StoreLeft(parent, node, left), node)
           /\ right' = ClearLink(StoreRight(parent, node, right), node)
           /\ Next_allocate' \in 1 .. MAX_UNFINISHED + 1 /\ Available' \in Pointers
           /\ (T \cup {node}) \cap F2 = {} /\ T \cup {node} \cup F2 = InUse'
           /\ List(F2, rank, left', Available')
<1>. PICK node \in Nodes \cup {MAX_UNFINISHED + 1} :
       /\ IF Available # NIL
          THEN /\ node = Available
               /\ Available' = left[Available]
               /\ UNCHANGED Next_allocate
          ELSE /\ ~HeapExhausted
               /\ node = Next_allocate
               /\ Next_allocate' = Next_allocate + 1
               /\ UNCHANGED Available
       /\ Unfinished' = StoreTop(parent, node)
       /\ state' = [state EXCEPT ![node] = adding]
       /\ left' = ClearLink(StoreLeft(parent, node, left), node)
       /\ right' = ClearLink(StoreRight(parent, node, right), node)
  BY DEF LinkNewNode
<1>1. /\ T \cap F = {} /\ T \cup F = InUse
      /\ List(F, rank, left, Available)
      /\ Call(T, lo, hi) /\ pc = "add"
  BY DEF Holds, LinkNewNode
\* The place of the new link is in no free node.
<1>2. parent = TOP \/ parent[2] \in T
  BY <1>1 DEF Call, AddPlace
<1>3. \A m \in Nodes \ T : m # node => left'[m] = left[m]
  BY <1>2 DEF ClearLink, StoreLeft, TypeOK, TOP
<1>4. Next_allocate \in 1 .. MAX_UNFINISHED + 1 /\ MAX_UNFINISHED \in Nat
      /\ left \in [Nodes -> Pointers]
  BY TreeAssumption DEF TypeOK
<1>5. CASE Available # NIL
  <2>1. node \in F /\ List(F \ {node}, rank, left', left[node])
    BY <1>1, <1>3, <1>5, Popped
  <2>2. Available' = left[node] /\ Next_allocate' = Next_allocate
    BY <1>5
  <2>3. Available' \in Pointers
    BY <1>4, <2>1, <2>2
  <2>4. node \in Nodes \ T /\ InUse' = InUse /\ F \ {node} \in SUBSET Nodes
    BY <1>1, <2>1, <2>2 DEF InUse
  <2>5. (T \cup {node}) \cap (F \ {node}) = {} /\ T \cup {node} \cup (F \ {node}) = InUse
    BY <1>1, <2>1
  <2>. QED
    BY <1>4, <2>1, <2>2, <2>3, <2>4, <2>5
<1>6. CASE Available = NIL
  <2>1. F = {} /\ List({}, rank, left', Available')
    BY <1>1, <1>6, Sizes DEF List
  <2>2. node = Next_allocate /\ Next_allocate' = node + 1 /\ Available' = NIL
        /\ ~(Next_allocate > MAX_UNFINISHED)
    BY <1>6 DEF HeapExhausted
  <2>3. node \in Nodes /\ node + 1 \in 1 .. MAX_UNFINISHED + 1
    BY <1>4, <2>2 DEF Nodes
  <2>4. node \notin T
    BY <1>1, <1>4, <2>2 DEF InUse
  <2>5. InUse' = InUse \cup {node}
    BY <1>4, <2>2, <2>3 DEF InUse, Nodes
  <2>. QED
    BY <1>1, <2>1, <2>2, <2>3, <2>4, <2>5 DEF Pointers
<1>. QED
  BY <1>5, <1>6

LEMMA LinkKeeps ==
  ASSUME NEW T \in SUBSET Nodes, NEW F \in SUBSET Nodes, NEW lo \in [Nodes -> Int],
         NEW hi \in [Nodes -> Int], NEW rank \in [Nodes -> Nat],
         TypeOK, Holds(T, F, lo, hi, rank), LinkNewNode
  PROVE  \E node \in Nodes \ T, F2 \in SUBSET Nodes, lo2 \in [Nodes -> Int],
            hi2 \in [Nodes -> Int] :
           /\ TypeOK'
           /\ Holds(T \cup {node}, F2, lo2, hi2, rank)'
           /\ state' = [state EXCEPT ![node] = adding]
<1>1. PICK node \in Nodes \ T, F2 \in SUBSET Nodes :
           /\ Unfinished' = StoreTop(parent, node)
           /\ state' = [state EXCEPT ![node] = adding]
           /\ left' = ClearLink(StoreLeft(parent, node, left), node)
           /\ right' = ClearLink(StoreRight(parent, node, right), node)
           /\ Next_allocate' \in 1 .. MAX_UNFINISHED + 1 /\ Available' \in Pointers
           /\ (T \cup {node}) \cap F2 = {} /\ T \cup {node} \cup F2 = InUse'
           /\ List(F2, rank, left', Available')
  BY NodeTaken
<1>2. /\ Tree(T, lo, hi, state, left, right, Unfinished)
      /\ adding \in StateNumbers /\ AddPlace(T, lo, hi)
      /\ root = NIL /\ pc' = "idle" /\ UNCHANGED <<parent, root, adding, result>>
  BY DEF Holds, LinkNewNode, Call
<1>3. /\ state \in [Nodes -> StateNumbers \cup {0}] /\ left \in [Nodes -> Pointers]
      /\ right \in [Nodes -> Pointers] /\ NIL \notin Nodes
  BY Sizes DEF TypeOK
<1>4. TypeOK'
  <2>1. state' \in [Nodes -> StateNumbers \cup {0}]
    BY <1>1, <1>2, <1>3
  <2>2. node \in Pointers /\ NIL \in Pointers
    BY DEF Pointers
  <2>3. left' \in [Nodes -> Pointers]
    BY <1>1, <1>3, <2>2 DEF ClearLink, StoreLeft
  <2>4. right' \in [Nodes -> Pointers]
    BY <1>1, <1>3, <2>2 DEF ClearLink, StoreRight
  <2>5. Unfinished' \in Pointers
    BY <1>1, <2>2 DEF StoreTop, TypeOK
  <2>. QED
    BY <1>1, <1>2, <2>1, <2>3, <2>4, <2>5 DEF TypeOK
<1>5. state'[node] = adding /\ left'[node] = NIL /\ right'[node] = NIL
  BY <1>1, <1>3 DEF ClearLink, StoreLeft, StoreRight
<1>6. \E lo2, hi2 \in [Nodes -> Int] :
        Tree(T \cup {node}, lo2, hi2, state', left', right', Unfinished')
  <2>1. CASE parent = TOP /\ root = Unfinished
    <3>1. T = {} /\ Unfinished' = node
      BY <1>1, <1>2, <1>3, <2>1 DEF Tree, Links, StoreTop
    <3>. DEFINE none == [n \in Nodes |-> -1]
    <3>2. none \in [Nodes -> Int] /\ none[node] = -1
      OBVIOUS
    <3>. HIDE DEF none
    <3>3. Tree({node}, none, none, state', left', right', node)
      BY <1>2, <1>5, <3>2, InsertedFirst
    <3>. QED
      BY <3>1, <3>2, <3>3
  <2>2. ASSUME NEW p \in T, parent = <<"left", p>>, root = left[p],
               adding < state[p], lo[p] < adding
        PROVE  \E lo2, hi2 \in [Nodes -> Int] :
                 Tree(T \cup {node}, lo2, hi2, state', left', right', Unfinished')
    <3>. DEFINE lo2 == [lo EXCEPT ![node] = lo[p]]
                hi2 == [hi EXCEPT ![node] = state[p]]
    <3>1. lo2 \in [Nodes -> Int] /\ hi2 \in [Nodes -> Int]
      <4>1. state[p] \in Int /\ lo[p] \in Int /\ hi[p] \in Int
        BY <1>2, Sizes DEF Tree, Numbers
      <4>. QED
        BY <4>1
    <3>2. lo2[node] = lo[p] /\ hi2[node] = state[p] /\ Unfinished' = Unfinished
      BY <1>1, <2>2 DEF StoreTop, TOP
    <3>3. \A n \in T : lo2[n] = lo[n] /\ hi2[n] = hi[n] /\ state'[n] = state[n] /\ right'[n] = right[n]
      BY <1>1, <1>3, <2>2 DEF ClearLink, StoreRight
    <3>4. left'[p] = node /\ \A n \in T \ {p} : left'[n] = left[n]
      BY <1>1, <1>3, <2>2 DEF ClearLink, StoreLeft
    <3>. HIDE DEF lo2, hi2
    <3>5. left[p] = NIL
      BY <1>2, <2>2
    <3>6. AddedLeft(T, lo, hi, state, left, right, p, adding, node, lo2, hi2, state', left', right')
      BY <1>5, <2>2, <3>2, <3>3, <3>4, <3>5 DEF AddedLeft
    <3>7. Tree(T \cup {node}, lo2, hi2, state', left', right', Unfinished)
      BY <1>2, <3>6, InsertedLeft
    <3>. QED
      BY <3>1, <3>2, <3>7
  <2>3. ASSUME NEW p \in T, parent = <<"right", p>>, root = right[p],
               state[p] < adding, Under(adding, hi[p])
        PROVE  \E lo2, hi2 \in [Nodes -> Int] :
                 Tree(T \cup {node}, lo2, hi2, state', left', right', Unfinished')
    <3>. DEFINE lo2 == [lo EXCEPT ![node] = state[p]]
                hi2 == [hi EXCEPT ![node] = hi[p]]
    <3>1. lo2 \in [Nodes -> Int] /\ hi2 \in [Nodes -> Int]
      <4>1. state[p] \in Int /\ lo[p] \in Int /\ hi[p] \in Int
        BY <1>2, Sizes DEF Tree, Numbers
      <4>. QED
        BY <4>1
    <3>2. lo2[node] = state[p] /\ hi2[node] = hi[p] /\ Unfinished' = Unfinished
      BY <1>1, <2>3 DEF StoreTop, TOP
    <3>3. \A n \in T : lo2[n] = lo[n] /\ hi2[n] = hi[n] /\ state'[n] = state[n] /\ left'[n] = left[n]
      BY <1>1, <1>3, <2>3 DEF ClearLink, StoreLeft
    <3>4. right'[p] = node /\ \A n \in T \ {p} : right'[n] = right[n]
      BY <1>1, <1>3, <2>3 DEF ClearLink, StoreRight
    <3>. HIDE DEF lo2, hi2
    <3>5. right[p] = NIL
      BY <1>2, <2>3
    <3>6. AddedRight(T, lo, hi, state, left, right, p, adding, node, lo2, hi2, state', left', right')
      BY <1>5, <2>3, <3>2, <3>3, <3>4, <3>5 DEF AddedRight
    <3>7. Tree(T \cup {node}, lo2, hi2, state', left', right', Unfinished)
      BY <1>2, <3>6, InsertedRight
    <3>. QED
      BY <3>1, <3>2, <3>7
  <2>. QED
    BY <1>2, <2>1, <2>2, <2>3 DEF AddPlace
<1>7. PICK lo2, hi2 \in [Nodes -> Int] :
        Tree(T \cup {node}, lo2, hi2, state', left', right', Unfinished')
  BY <1>6
<1>8. Holds(T \cup {node}, F2, lo2, hi2, rank)'
  BY <1>1, <1>2, <1>7 DEF Holds, Call
<1>. QED
  BY <1>1, <1>4, <1>8

LEMMA RemoveKeeps ==
  ASSUME NEW T \in SUBSET Nodes, NEW F \in SUBSET Nodes, NEW lo \in [Nodes -> Int],
         NEW hi \in [Nodes -> Int], NEW rank \in [Nodes -> Nat],
         TypeOK, Holds(T, F, lo, hi, rank), RemoveLeftmost
  PROVE  /\ TypeOK'
         /\ \E node \in T, lo2 \in [Nodes -> Int], rank2 \in [Nodes -> Nat] :
              /\ node = root /\ \A m \in T : state[node] <= state[m]
              /\ Holds(T \ {node}, F \cup {node}, lo2, hi, rank2)'
<1>1. /\ Tree(T, lo, hi, state, left, right, Unfinished)
      /\ List(F, rank, left, Available)
      /\ T \cap F = {} /\ T \cup F = InUse
      /\ pc = "get" /\ GetPlace(T, lo) /\ left[root] = NIL
      /\ pc' = "idle" /\ UNCHANGED <<state, right, Next_allocate, parent, root, adding>>
      /\ Unfinished' = StoreTop(parent, right[root])
      /\ left' = [StoreLeft(parent, right[root], left) EXCEPT ![root] = Available]
      /\ Available' = root /\ result' = {state[root]}
  BY DEF Holds, RemoveLeftmost, Call, SubtreeBehind, LinkToRest
<1>2. /\ root \in T /\ lo[root] = -1 /\ state[root] \in StateNumbers
      /\ left \in [Nodes -> Pointers] /\ right \in [Nodes -> Pointers]
      /\ NIL \notin Nodes
  BY <1>1, Sizes DEF TypeOK, GetPlace, Tree, Numbers
<1>3. TypeOK'
  <2>1. right[root] \in Pointers /\ root \in Pointers /\ Available \in Pointers
    BY <1>2 DEF TypeOK, Pointers
  <2>2. left' \in [Nodes -> Pointers]
    BY <1>1, <1>2, <2>1 DEF StoreLeft
  <2>3. Unfinished' \in Pointers
    BY <1>1, <2>1 DEF StoreTop, TypeOK
  <2>. QED
    BY <1>1, <1>2, <2>1, <2>2, <2>3 DEF TypeOK
<1>4. /\ \A m \in T : state[root] <= state[m]
      /\ \E lo2 \in [Nodes -> Int] : Tree(T \ {root}, lo2, hi, state, left', right, Unfinished')
  <2>1. \/ /\ Unfinished = root /\ Unfinished' = right[root]
           /\ \A m \in T \ {root} : left'[m] = left[m]
        \/ /\ Unfinished' = Unfinished
           /\ \E p \in T : /\ left[p] = root /\ left'[p] = right[root]
                           /\ \A m \in T \ {root, p} : left'[m] = left[m]
    <3>1. CASE parent = TOP /\ root = Unfinished
      BY <1>1, <1>2, <3>1 DEF StoreTop, StoreLeft, TOP
    <3>2. ASSUME NEW p \in T, parent = <<"left", p>>, root = left[p]
          PROVE  /\ Unfinished' = Unfinished
                 /\ left[p] = root /\ left'[p] = right[root]
                 /\ \A m \in T \ {root, p} : left'[m] = left[m]
      <4>1. p # root /\ p \in Nodes
        BY <1>1, <1>2, <3>2
      <4>. QED
        BY <1>1, <1>2, <3>2, <4>1 DEF StoreTop, StoreLeft, TOP
    <3>. QED
      BY <1>1, <3>1, <3>2 DEF GetPlace
  <2>2. PICK lo2 \in [Nodes -> Int] :
          lo2 = [m \in Nodes |-> IF lo[m] = state[root] THEN -1 ELSE lo[m]]
    <3>. DEFINE raised == [m \in Nodes |-> IF lo[m] = state[root] THEN -1 ELSE lo[m]]
    <3>1. \A m \in Nodes : raised[m] \in Int
      OBVIOUS
    <3>2. raised \in [Nodes -> Int]
      BY <3>1
    <3>. QED
      BY <3>2
  <2>3. CutOff(T, lo, state, left, right, Unfinished, root, lo2, left', Unfinished')
    BY <2>1, <2>2 DEF CutOff
  <2>4. /\ \A m \in T : state[root] <= state[m]
        /\ Tree(T \ {root}, lo2, hi, state, left', right, Unfinished')
    BY <1>1, <1>2, <2>3, Taken
  <2>. QED
    BY <2>4
<1>5. PICK lo2 \in [Nodes -> Int] : Tree(T \ {root}, lo2, hi, state, left', right, Unfinished')
  BY <1>4
<1>6. \E rank2 \in [Nodes -> Nat] : List(F \cup {root}, rank2, left', root)
  <2>1. root \in Nodes \ F
    BY <1>1, <1>2
  <2>2. left'[root] = Available /\ \A m \in F : left'[m] = left[m]
    BY <1>1, <1>2 DEF StoreLeft, GetPlace, TOP
  <2>3. OnFront(F, left, Available, root, left')
    BY <2>2 DEF OnFront
  <2>. QED
    BY <1>1, <2>1, <2>3, Pushed
<1>7. PICK rank2 \in [Nodes -> Nat] : List(F \cup {root}, rank2, left', root)
  BY <1>6
<1>8. (T \ {root}) \cap (F \cup {root}) = {} /\ (T \ {root}) \cup (F \cup {root}) = InUse
  BY <1>1, <1>2
<1>9. InUse' = InUse
  BY <1>1 DEF InUse
<1>10. PICK node \in T : node = root
  BY <1>2
<1>11. Holds(T \ {node}, F \cup {node}, lo2, hi, rank2)'
  BY <1>1, <1>5, <1>7, <1>8, <1>9, <1>10 DEF Holds, Call
<1>. QED
  BY <1>2, <1>3, <1>4, <1>10, <1>11

----------------------------------------------------------------------------
(***************************************************************************)
(* The theorems.                                                           *)
(***************************************************************************)
LEMMA StepKeeps == IInv /\ [Next]_vars => IInv'
<1>. SUFFICES ASSUME IInv, [Next]_vars
              PROVE  IInv'
  OBVIOUS
<1>. TypeOK
  BY DEF IInv
<1>1. PICK T \in SUBSET Nodes, F \in SUBSET Nodes, lo \in [Nodes -> Int],
           hi \in [Nodes -> Int], rank \in [Nodes -> Nat] : Holds(T, F, lo, hi, rank)
  BY DEF IInv, Shape
<1>2. CASE Moves
  BY <1>1, <1>2, MovesKeep DEF IInv, Shape
<1>3. CASE LinkNewNode
  <2>1. PICK node \in Nodes \ T, F2 \in SUBSET Nodes, lo2 \in [Nodes -> Int],
             hi2 \in [Nodes -> Int] :
               TypeOK' /\ Holds(T \cup {node}, F2, lo2, hi2, rank)'
    BY <1>1, <1>3, LinkKeeps
  <2>2. T \cup {node} \in SUBSET Nodes
    OBVIOUS
  <2>. QED
    BY <2>1, <2>2 DEF IInv, Shape
<1>4. CASE RemoveLeftmost
  <2>1. PICK node \in T, lo2 \in [Nodes -> Int], rank2 \in [Nodes -> Nat] :
               TypeOK' /\ Holds(T \ {node}, F \cup {node}, lo2, hi, rank2)'
    BY <1>1, <1>4, RemoveKeeps
  <2>2. T \ {node} \in SUBSET Nodes /\ F \cup {node} \in SUBSET Nodes
    OBVIOUS
  <2>. QED
    BY <2>1, <2>2 DEF IInv, Shape
<1>5. CASE UNCHANGED vars
  <2>1. TypeOK' /\ Holds(T, F, lo, hi, rank)'
    BY <1>1, <1>5 DEF vars, TypeOK, Holds, InUse, Call, AddPlace, GetPlace
  <2>. QED
    BY <2>1 DEF IInv, Shape
<1>. QED
  BY <1>2, <1>3, <1>4, <1>5 DEF Next, Moves

\* The links of the tree are a search tree and those of the free list a list, in every
\* state of add_unfinished() and get_unfinished().
THEOREM InductiveInvariant == Spec => []IInv
<1>. QED
  BY InitHolds, StepKeeps, PTL DEF Spec

\* Every variable has its type; the root of the tree and the free list are in the pool.
THEOREM TypeCorrect == Spec => []TypeOK
<1>1. IInv => TypeOK
  BY DEF IInv
<1>. QED
  BY <1>1, InductiveInvariant, PTL

\* No node is lost or in both places.
THEOREM Accounted == Spec => []NodesAccounted
<1>1. IInv => NodesAccounted
  <2>. SUFFICES ASSUME IInv
                PROVE  NodesAccounted
    OBVIOUS
  <2>1. PICK T \in SUBSET Nodes, F \in SUBSET Nodes, lo \in [Nodes -> Int],
             hi \in [Nodes -> Int], rank \in [Nodes -> Nat] : Holds(T, F, lo, hi, rank)
    BY DEF IInv, Shape
  <2>2. TreeNodes = T /\ FreeNodes = F
    BY <2>1, SetsBehind
  <2>. QED
    BY <2>1, <2>2 DEF Holds, InUse, NodesAccounted
<1>. QED
  BY <1>1, InductiveInvariant, PTL

Members == {state[node] : node \in TreeNodes}

\* A pool of MAX_UNFINISHED nodes has as many, and a tree that leaves a node has fewer
\* states.
LEMMA Room ==
  ASSUME NEW T \in SUBSET Nodes, NEW node \in Nodes \ T, NEW st
  PROVE  Cardinality({st[n] : n \in T}) < MAX_UNFINISHED
<1>1. IsFiniteSet(Nodes) /\ Cardinality(Nodes) = MAX_UNFINISHED
  BY TreeAssumption, FS_Interval DEF Nodes
<1>2. IsFiniteSet(T) /\ Cardinality(T) < MAX_UNFINISHED
  <2>1. IsFiniteSet(T) /\ Cardinality(T) <= Cardinality(Nodes) /\ T # Nodes
    BY <1>1, FS_Subset
  <2>2. Cardinality(T) # Cardinality(Nodes)
    BY <1>1, <2>1, FS_Subset
  <2>3. Cardinality(T) \in Nat /\ MAX_UNFINISHED \in Nat
    BY <2>1, FS_CardinalityType, TreeAssumption
  <2>. QED
    BY <1>1, <2>1, <2>2, <2>3
<1>. DEFINE f == [n \in T |-> st[n]]
            S == {st[n] : n \in T}
<1>3. f \in Surjection(T, S)
  BY DEF Surjection
<1>4. Cardinality(S) <= Cardinality(T) /\ IsFiniteSet(S)
  <2>. HIDE DEF f, S
  <2>. QED
    BY <1>2, <1>3, FS_Surjection
<1>5. Cardinality(S) \in Nat /\ Cardinality(T) \in Nat /\ MAX_UNFINISHED \in Nat
  BY <1>2, <1>4, TreeAssumption, FS_CardinalityType
<1>. QED
  BY <1>2, <1>4, <1>5

LEMMA Full ==
  ASSUME NEW st, \A n, m \in Nodes : st[n] = st[m] => n = m
  PROVE  Cardinality({st[n] : n \in Nodes}) = MAX_UNFINISHED
<1>1. IsFiniteSet(Nodes) /\ Cardinality(Nodes) = MAX_UNFINISHED
  BY TreeAssumption, FS_Interval DEF Nodes
<1>. DEFINE f == [n \in Nodes |-> st[n]]
            S == {st[n] : n \in Nodes}
<1>2. f \in Bijection(Nodes, S)
  BY DEF Bijection, Injection, Surjection, IsInjective
<1>. HIDE DEF f, S
<1>3. Cardinality(S) = Cardinality(Nodes)
  BY <1>1, <1>2, FS_Bijection DEF ExistsBijection
<1>. QED
  BY <1>1, <1>3 DEF S

LEMMA SameCardinality ==
  ASSUME NEW S
  PROVE  Abstract!Cardinality(S) = Cardinality(S)
BY DEF Abstract!Cardinality, Cardinality

LEMMA StepImplements ==
  ASSUME IInv, IInv', [Next]_vars
  PROVE  [Abstract!Next]_<<Members, result, pc = "exit">>
<1>1. PICK T \in SUBSET Nodes, F \in SUBSET Nodes, lo \in [Nodes -> Int],
           hi \in [Nodes -> Int], rank \in [Nodes -> Nat] : Holds(T, F, lo, hi, rank)
  BY DEF IInv, Shape
<1>2. Members = {state[n] : n \in T} /\ TypeOK
  BY <1>1, SetsBehind DEF Members, IInv
<1>3. /\ \A n \in T : state[n] \in StateNumbers /\ lo[n] < state[n] /\ Under(state[n], hi[n])
      /\ \A n, m \in T : state[n] = state[m] => n = m
      /\ state \in [Nodes -> StateNumbers \cup {0}]
  BY <1>1, <1>2 DEF Holds, Tree, Numbers, TypeOK
<1>4. CASE Moves
  <2>1. /\ Holds(T, F, lo, hi, rank)'
        /\ UNCHANGED <<state, left, right, Unfinished, Available, Next_allocate>>
    BY <1>1, <1>2, <1>4, MovesKeep
  <2>2. Members' = {state'[n] : n \in T} /\ state' = state
    BY <2>1, SetsBehindNext DEF Members
  <2>3. Members' = Members
    BY <1>2, <2>2
  <2>4. CASE HeapOverflow
    <3>1. /\ pc = "add" /\ pc' = "exit" /\ result' = result
          /\ root = NIL /\ Available = NIL /\ Next_allocate > MAX_UNFINISHED
      BY <2>4 DEF HeapOverflow, HeapExhausted
    <3>2. T = Nodes
      <4>1. F = {}
        BY <1>1, <3>1, Sizes DEF Holds, List
      <4>2. InUse = Nodes
        BY <1>2, <3>1, TreeAssumption DEF InUse, Nodes, TypeOK
      <4>. QED
        BY <1>1, <4>1, <4>2 DEF Holds
    <3>3. Cardinality(Members) = MAX_UNFINISHED
      BY <1>2, <1>3, <3>2, Full
    <3>4. adding \in StateNumbers /\ AddPlace(T, lo, hi)
      BY <1>1, <3>1 DEF Holds, Call
    <3>5. ASSUME NEW n \in T, state[n] = adding
          PROVE  FALSE
      <4>1. Links(T, lo, hi, state, left, right, Unfinished)
        BY <1>1 DEF Holds, Tree
      <4>2. CASE parent = TOP /\ root = Unfinished
        BY <3>1, <3>5, <4>1, <4>2, Sizes DEF Links
      <4>3. CASE \E p \in T : root = left[p] /\ adding < state[p] /\ lo[p] < adding
        BY <3>1, <3>5, <4>1, <4>3 DEF Links
      <4>4. CASE \E p \in T : root = right[p] /\ state[p] < adding /\ Under(adding, hi[p])
        BY <3>1, <3>5, <4>1, <4>4 DEF Links
      <4>. QED
        BY <3>4, <4>2, <4>3, <4>4 DEF AddPlace
    <3>6. StateNumbers \ Members # {}
      BY <1>2, <3>4, <3>5
    <3>7. (pc = "exit") = FALSE /\ (pc' = "exit") = TRUE
      BY <3>1
    <3>8. Abstract!Overflow
      BY <2>3, <3>1, <3>3, <3>6, <3>7, SameCardinality, Zenon DEF Abstract!Overflow, Members
    <3>. QED
      BY <3>8 DEF Abstract!Next
  <2>5. CASE CallGet /\ Unfinished = NIL
    <3>1. T = {}
      BY <1>1, <2>5, Sizes DEF Holds, Tree, Links
    <3>2. Members = {} /\ result' = {} /\ pc = "idle" /\ pc' = "idle"
      BY <1>2, <2>5, <3>1 DEF CallGet
    <3>3. Abstract!NothingLeft
      BY <2>3, <3>2 DEF Abstract!NothingLeft, Members
    <3>. QED
      BY <3>3 DEF Abstract!Next
  <2>6. CASE ~HeapOverflow /\ ~(CallGet /\ Unfinished = NIL)
    <3>1. result' = result /\ (pc = "exit") = FALSE /\ (pc' = "exit") = FALSE
      BY <1>4, <2>6 DEF Moves, CallAdd, DescendToAdd, AddFindsState, CallGet, DescendToGet
    <3>. QED
      BY <2>3, <3>1
  <2>. QED
    BY <2>4, <2>5, <2>6
<1>5. CASE LinkNewNode
  <2>1. PICK node \in Nodes \ T, F2 \in SUBSET Nodes, lo2 \in [Nodes -> Int],
             hi2 \in [Nodes -> Int] : /\ Holds(T \cup {node}, F2, lo2, hi2, rank)'
                                      /\ state' = [state EXCEPT ![node] = adding]
    BY <1>1, <1>2, <1>5, LinkKeeps
  <2>2. T \cup {node} \in SUBSET Nodes
    OBVIOUS
  <2>3. TreeNodes' = T \cup {node}
    BY <2>1, <2>2, SetsBehindNext
  <2>4. Members' = Members \cup {adding}
    BY <1>2, <1>3, <2>1, <2>3 DEF Members
  <2>5. Cardinality(Members) < MAX_UNFINISHED
    BY <1>2, Room
  <2>6. /\ adding \in StateNumbers /\ result' = result
        /\ (pc = "exit") = FALSE /\ (pc' = "exit") = FALSE
    BY <1>1, <1>5 DEF LinkNewNode, Holds, Call
  <2>7. PICK n \in StateNumbers : n = adding
    BY <2>6
  <2>8. Members' = Members \cup {n}
    BY <2>4, <2>7
  <2>9. Abstract!Add(n)
    BY <2>5, <2>6, <2>8, SameCardinality, Zenon DEF Abstract!Add, Members
  <2>. QED
    BY <2>9 DEF Abstract!Next
<1>6. CASE RemoveLeftmost
  <2>1. PICK node \in T, lo2 \in [Nodes -> Int], rank2 \in [Nodes -> Nat] :
          /\ node = root /\ \A m \in T : state[node] <= state[m]
          /\ Holds(T \ {node}, F \cup {node}, lo2, hi, rank2)'
    BY <1>1, <1>2, <1>6, RemoveKeeps
  <2>2. T \ {node} \in SUBSET Nodes /\ F \cup {node} \in SUBSET Nodes
    OBVIOUS
  <2>3. TreeNodes' = T \ {node}
    BY <2>1, <2>2, SetsBehindNext
  <2>4. /\ state' = state /\ result' = {state[node]}
        /\ (pc = "exit") = FALSE /\ (pc' = "exit") = FALSE
    BY <1>6, <2>1 DEF RemoveLeftmost
  <2>5. Members' = Members \ {state[node]}
    BY <1>2, <1>3, <2>3, <2>4 DEF Members
  <2>6. state[node] \in Members /\ \A other \in Members : state[node] <= other
    BY <1>2, <2>1
  <2>7. PICK n \in StateNumbers : n = state[node]
    BY <1>3
  <2>8. Abstract!TakeLeast(n)
    BY <2>4, <2>5, <2>6, <2>7 DEF Abstract!TakeLeast, Members
  <2>. QED
    BY <2>8 DEF Abstract!Next
<1>7. CASE UNCHANGED vars
  <2>1. Members' = Members /\ result' = result /\ pc' = pc
    BY <1>7 DEF vars, Members, TreeNodes
  <2>. QED
    BY <2>1
<1>. QED
  BY <1>4, <1>5, <1>6, <1>7 DEF Next, Moves

\* The tree and the free list are the bounded set lr() works with: adding a state twice
\* changes nothing, the least is taken, and only a full tree ends the program.
THEOREM Implements == Spec => ImplementsSet
<1>1. Init => Abstract!Init
  <2>. SUFFICES ASSUME Init
                PROVE  Abstract!Init
    OBVIOUS
  <2>1. PICK T \in SUBSET Nodes, F \in SUBSET Nodes, lo \in [Nodes -> Int],
             hi \in [Nodes -> Int], rank \in [Nodes -> Nat] : Holds(T, F, lo, hi, rank)
    BY InitHolds DEF IInv, Shape
  <2>2. TreeNodes = T /\ T = {}
    <3>1. TreeNodes = T
      BY <2>1, SetsBehind
    <3>2. InUse = {}
      BY TreeAssumption DEF InUse, Init, Nodes
    <3>. QED
      BY <2>1, <3>1, <3>2 DEF Holds
  <2>3. (pc = "exit") = FALSE /\ result = {}
    BY DEF Init
  <2>. QED
    BY <2>2, <2>3 DEF Abstract!Init
<1>2. IInv /\ IInv' /\ [Next]_vars => [Abstract!Next]_<<Members, result, pc = "exit">>
  BY StepImplements
<1>. QED
  BY <1>1, <1>2, InductiveInvariant, PTL DEF Spec, ImplementsSet, Abstract!Spec, Members
============================================================================
