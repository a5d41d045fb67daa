----------------------------- MODULE GeneratorProofs -------------------------
(***************************************************************************)
(* Proofs about first(), for all grammars, and do_file() up to lr(), for   *)
(* all files, limits and sets of stopping tokens.  Whatever order ptab()   *)
(* visits the symbols in, first() ends with the least family of sets that  *)
(* first_closure() leaves as it is, and that is CodeFirst.  Whatever is in *)
(* the file, and after all recoveries, the symbol table is sound wherever  *)
(* the parser stands, dopatch() keeps it so, and what lr() gets is a       *)
(* grammar with right FIRST sets.  That a pass without a change comes is   *)
(* left to the runs.                                                       *)
(*                                                                         *)
(* The lemmas of the second half are about files of tokens, and what the   *)
(* functions of acts.c add to the tables where a file is correct: with     *)
(* them FileProofs shows that the tables are what the file says.           *)
(***************************************************************************)
EXTENDS Generator, First, FiniteSetTheorems, WellFoundedInduction, TLAPS

----------------------------------------------------------------------------
(***************************************************************************)
(* A grammar first() can work on: actions may stand among the symbols of   *)
(* right-hand sides, and there may be no productions.                      *)
(***************************************************************************)
Readable(G) ==
  /\ G = [terms |-> G.terms, nonterms |-> G.nonterms, lhs |-> G.lhs, rhs |-> G.rhs,
          first |-> G.first]
  /\ G.terms \subseteq 1 .. MINNONTERM - 2
  /\ G.nonterms \subseteq MINNONTERM .. MINACT - 1
  /\ \A p \in Productions(G) :
       /\ G.rhs[p] \in Seq(Nat)
       /\ \A i \in DOMAIN G.rhs[p] : G.rhs[p][i] \in Symbols(G) \/ ISACT(G.rhs[p][i])

LEMMA GivenReadable ==
  ASSUME NEW G \in Grammars
  PROVE  Readable(G) /\ IsSymbolTable(G) /\ G.first = NoFirst(G)
<1>1. G = [terms |-> G.terms, nonterms |-> G.nonterms, lhs |-> G.lhs, rhs |-> G.rhs,
           first |-> NoFirst(G)]
  BY GrammarsAssumption
<1>2. G.first = NoFirst(G)
  BY <1>1
<1>. QED
  BY <1>1, <1>2, GrammarsAssumption DEF Readable, IsSymbolTable

----------------------------------------------------------------------------
(***************************************************************************)
(* A grammar with other FIRST sets.                                        *)
(***************************************************************************)
LEMMA Fields ==
  ASSUME NEW G, Readable(G), NEW F
  PROVE  /\ WithFirst(G, F) = [terms |-> G.terms, nonterms |-> G.nonterms, lhs |-> G.lhs,
                               rhs |-> G.rhs, first |-> F]
         /\ WithFirst(G, F).terms = G.terms
         /\ WithFirst(G, F).nonterms = G.nonterms
         /\ WithFirst(G, F).lhs = G.lhs
         /\ WithFirst(G, F).rhs = G.rhs
         /\ WithFirst(G, F).first = F
         /\ EPSILON(WithFirst(G, F)) = EPSILON(G)
         /\ FirstFamilies(WithFirst(G, F)) = FirstFamilies(G)
         /\ \A A : ProductionsOf(WithFirst(G, F), A) = ProductionsOf(G, A)
         /\ \A F2 : WithFirst(WithFirst(G, F), F2) = WithFirst(G, F2)
<1>. DEFINE H == WithFirst(G, F)
<1>1. G = [terms |-> G.terms, nonterms |-> G.nonterms, lhs |-> G.lhs, rhs |-> G.rhs,
           first |-> G.first]
  BY DEF Readable
<1>2. \A F2 : WithFirst(G, F2) = [terms |-> G.terms, nonterms |-> G.nonterms, lhs |-> G.lhs,
                                  rhs |-> G.rhs, first |-> F2]
  BY <1>1 DEF WithFirst
<1>3. H = [terms |-> G.terms, nonterms |-> G.nonterms, lhs |-> G.lhs, rhs |-> G.rhs,
           first |-> F]
  BY <1>2
<1>. HIDE DEF H
<1>4. /\ H.terms = G.terms /\ H.nonterms = G.nonterms /\ H.lhs = G.lhs /\ H.rhs = G.rhs
      /\ H.first = F
  BY <1>3
<1>5. \A F2 : WithFirst(H, F2) = WithFirst(G, F2)
  BY <1>2, <1>3 DEF WithFirst
<1>6. EPSILON(H) = EPSILON(G)
  BY <1>4 DEF EPSILON
<1>7. FirstFamilies(H) = FirstFamilies(G)
  BY <1>4, <1>6 DEF FirstFamilies
<1>8. \A A : ProductionsOf(H, A) = ProductionsOf(G, A)
  BY <1>4 DEF ProductionsOf, Productions
<1>. QED
  BY <1>3, <1>4, <1>5, <1>6, <1>7, <1>8 DEF H

\* What a right-hand side is made of.
LEMMA Sides ==
  ASSUME NEW G, Readable(G), NEW p \in Productions(G)
  PROVE  /\ Len(G.rhs[p]) \in Nat
         /\ \A i \in 1 .. Len(G.rhs[p]) :
              /\ G.rhs[p][i] \in Nat
              /\ G.rhs[p][i] \in G.terms \cup G.nonterms \/ ISACT(G.rhs[p][i])
<1>1. /\ G.rhs[p] \in Seq(Nat)
      /\ \A i \in DOMAIN G.rhs[p] : G.rhs[p][i] \in Symbols(G) \/ ISACT(G.rhs[p][i])
  BY DEF Readable
<1>. QED
  BY <1>1 DEF Symbols

Below(G, F, F2) == \A A \in G.nonterms : F[A] \subseteq F2[A]

\* One right-hand side contributes members of FIRST sets, and more to larger sets.
LEMMA Contribution ==
  ASSUME NEW G, Readable(G), NEW p \in Productions(G),
         NEW F \in FirstFamilies(G), NEW F2 \in FirstFamilies(G), Below(G, F, F2)
  PROVE  /\ FirstOfProduction(WithFirst(G, F), p) \subseteq G.terms \cup {EPSILON(G)}
         /\ FirstOfProduction(WithFirst(G, F), p) \subseteq FirstOfProduction(WithFirst(G, F2), p)
<1>. DEFINE rhs  == G.rhs[p]
            H    == WithFirst(G, F)
            H2   == WithFirst(G, F2)
<1>1. /\ H.nonterms = G.nonterms /\ H.rhs = G.rhs /\ H.first = F /\ EPSILON(H) = EPSILON(G)
      /\ H2.nonterms = G.nonterms /\ H2.rhs = G.rhs /\ H2.first = F2
      /\ EPSILON(H2) = EPSILON(G)
  BY Fields
<1>2. \A A \in G.nonterms : F[A] \subseteq F2[A] /\ F[A] \subseteq G.terms \cup {EPSILON(G)}
  BY DEF Below, FirstFamilies
<1>3. /\ Len(rhs) \in Nat
      /\ \A i \in 1 .. Len(rhs) : rhs[i] \in G.terms \cup G.nonterms \/ ISACT(rhs[i])
  BY Sides
<1>. HIDE DEF H, H2, rhs
<1>4. \A i \in 1 .. Len(rhs) : /\ FirstOf(H, rhs[i]) \subseteq FirstOf(H2, rhs[i])
                               /\ FirstOf(H, rhs[i]) \subseteq G.terms \cup {EPSILON(G)}
  BY <1>1, <1>2, <1>3 DEF FirstOf, ISNONTERM
<1>5. \A j \in 1 .. Len(rhs) : NullableRun(H, rhs, 1, j - 1) => NullableRun(H2, rhs, 1, j - 1)
  BY <1>1, <1>2 DEF NullableRun, NULLABLE, ISNONTERM
<1>6. FirstRhs(H, rhs, 1) \subseteq FirstRhs(H2, rhs, 1)
  BY <1>1, <1>4, <1>5 DEF FirstRhs
<1>7. FirstRhs(H, rhs, 1) \subseteq G.terms \cup {EPSILON(G)}
  BY <1>1, <1>4 DEF FirstRhs
<1>. QED
  BY <1>1, <1>6, <1>7 DEF FirstOfProduction, H, H2, rhs

LEMMA ClosureMonotone ==
  ASSUME NEW G, Readable(G), NEW A \in G.nonterms,
         NEW F \in FirstFamilies(G), NEW F2 \in FirstFamilies(G), Below(G, F, F2)
  PROVE  /\ FirstClosure(WithFirst(G, F), A) \subseteq G.terms \cup {EPSILON(G)}
         /\ FirstClosure(WithFirst(G, F), A) \subseteq FirstClosure(WithFirst(G, F2), A)
         /\ F[A] \subseteq FirstClosure(WithFirst(G, F), A)
<1>1. /\ WithFirst(G, F).first = F /\ WithFirst(G, F2).first = F2
      /\ ProductionsOf(WithFirst(G, F), A) = ProductionsOf(G, A)
      /\ ProductionsOf(WithFirst(G, F2), A) = ProductionsOf(G, A)
  BY Fields
<1>2. \A p \in ProductionsOf(G, A) : p \in Productions(G)
  BY DEF ProductionsOf
<1>3. F[A] \subseteq F2[A] /\ F[A] \subseteq G.terms \cup {EPSILON(G)}
  BY DEF Below, FirstFamilies
<1>4. \A p \in ProductionsOf(G, A) :
        /\ FirstOfProduction(WithFirst(G, F), p) \subseteq G.terms \cup {EPSILON(G)}
        /\ FirstOfProduction(WithFirst(G, F), p)
             \subseteq FirstOfProduction(WithFirst(G, F2), p)
  BY <1>2, Contribution
<1>. QED
  BY <1>1, <1>3, <1>4 DEF FirstClosure

----------------------------------------------------------------------------
(***************************************************************************)
(* Iteration from the empty sets: it comes to a fixpoint, because a step   *)
(* that is not at one makes some set larger.                               *)
(***************************************************************************)
LEMMA LeastOne ==
  ASSUME NEW S \in SUBSET Nat, S # {}
  PROVE  \E n \in S : \A m \in S : n <= m
<1>. DEFINE R == {ss \in Nat \X Nat : ss[1] < ss[2]}
<1>1. IsWellFoundedOn(R, Nat)
  BY NatLessThanWellFounded DEF OpToRel
<1>2. PICK n \in S : \A m \in S : ~(<<m, n>> \in R)
  <2>1. S \subseteq Nat
    OBVIOUS
  <2>. HIDE DEF R
  <2>. QED
    BY <1>1, <2>1, WFMin
<1>3. \A m \in S : ~(m < n)
  BY <1>2
<1>. QED
  BY <1>3

\* Induction up to a number.
LEMMA UpTo ==
  ASSUME NEW n \in Nat, NEW S, 0 \in S, \A i \in S : i \in 0 .. n - 1 => i + 1 \in S
  PROVE  0 .. n \subseteq S
<1>. DEFINE Bad == {i \in 0 .. n : i \notin S}
<1>1. SUFFICES ASSUME Bad # {}
               PROVE  FALSE
  OBVIOUS
<1>2. PICK i \in Bad : \A j \in Bad : i <= j
  <2>1. Bad \in SUBSET Nat
    OBVIOUS
  <2>. HIDE DEF Bad
  <2>. QED
    BY <1>1, <2>1, LeastOne
<1>3. i - 1 \in 0 .. n - 1 /\ i - 1 \in 0 .. n /\ i - 1 + 1 = i /\ ~(i <= i - 1)
  OBVIOUS
<1>4. i - 1 \in S
  BY <1>2, <1>3
<1>5. i - 1 + 1 \in S
  BY <1>3, <1>4
<1>. QED
  BY <1>3, <1>5

\* The symbols of a grammar are finitely many, and EPSILON is none of its terminals.
LEMMA Symbolic ==
  ASSUME NEW G, Readable(G)
  PROVE  /\ IsFiniteSet(G.terms) /\ Cardinality(G.terms) \in Nat
         /\ IsFiniteSet(G.nonterms) /\ Cardinality(G.nonterms) \in Nat
         /\ EPSILON(G) \notin G.terms
         /\ EPSILON(G) \notin G.nonterms
<1>1. G.terms \subseteq 1 .. MINNONTERM - 2 /\ G.nonterms \subseteq MINNONTERM .. MINACT - 1
  BY DEF Readable
<1>2. IsFiniteSet(G.terms)
  <2>1. \A a, b \in Int : IsFiniteSet(a .. b)
    BY FS_Interval
  <2>2. G.terms \in SUBSET (1 .. 254)
    BY <1>1 DEF MINNONTERM
  <2>3. PICK low \in Int, high \in Int : low = 1 /\ high = 254
    OBVIOUS
  <2>4. IsFiniteSet(low .. high)
    BY <2>1
  <2>. QED
    BY <2>2, <2>3, <2>4, FS_Subset
<1>3. IsFiniteSet(G.nonterms)
  <2>1. \A a, b \in Int : IsFiniteSet(a .. b)
    BY FS_Interval
  <2>2. G.nonterms \in SUBSET (256 .. 511)
    BY <1>1 DEF MINNONTERM, MINACT
  <2>3. PICK low \in Int, high \in Int : low = 256 /\ high = 511
    OBVIOUS
  <2>4. IsFiniteSet(low .. high)
    BY <2>1
  <2>. QED
    BY <2>2, <2>3, <2>4, FS_Subset
<1>4. Cardinality(G.terms) \in Nat /\ Cardinality(G.nonterms) \in Nat
  BY <1>2, <1>3, FS_CardinalityType
<1>5. CASE G.terms = {}
  BY <1>1, <1>2, <1>3, <1>4, <1>5 DEF EPSILON, MINNONTERM
<1>6. CASE G.terms # {}
  <2>. DEFINE Largest(t) == t \in G.terms /\ \A u \in G.terms : u <= t
              Bounds == {n \in Nat : \A t \in G.terms : t <= n}
  <2>1. G.terms \subseteq Nat \ {0}
    BY <1>1
  <2>2. 254 \in Bounds
    BY <1>1 DEF MINNONTERM
  <2>3. PICK n \in Bounds : \A m \in Bounds : n <= m
    BY <2>2, LeastOne
  <2>4. n \in G.terms
    <3>1. SUFFICES ASSUME n \notin G.terms
                   PROVE  FALSE
      OBVIOUS
    <3>2. \A t \in G.terms : t <= n - 1
      BY <2>1, <3>1
    <3>3. n - 1 \in Nat
      BY <1>6, <2>1, <3>2
    <3>4. n - 1 \in Bounds
      BY <3>2, <3>3
    <3>. QED
      BY <2>3, <3>4
  <2>5. Largest(n)
    BY <2>4
  <2>6. Largest(CHOOSE t \in G.terms : \A u \in G.terms : u <= t)
    BY <2>5
  <2>7. PICK t : t = (CHOOSE v \in G.terms : \A u \in G.terms : u <= v)
    OBVIOUS
  <2>8. EPSILON(G) = t + 1 /\ Largest(t)
    BY <1>6, <2>6, <2>7 DEF EPSILON
  <2>9. t \in 1 .. 254 /\ \A u \in G.terms : u <= t
    BY <1>1, <2>8 DEF MINNONTERM
  <2>10. EPSILON(G) \notin G.terms
    BY <2>8, <2>9
  <2>11. EPSILON(G) \notin G.nonterms
    BY <1>1, <2>8, <2>9 DEF MINNONTERM
  <2>. QED
    BY <1>2, <1>3, <1>4, <2>10, <2>11
<1>. QED
  BY <1>5, <1>6

\* The members of all the sets of a family,
Members(G, F) ==
  {x \in G.nonterms \X (G.terms \cup {EPSILON(G)}) : x[2] \in F[x[1]]}

\* and the most there can be.
MostMembers(G) == Cardinality(G.nonterms) * (Cardinality(G.terms) + 1)

LEMMA MembersBounded ==
  ASSUME NEW G, Readable(G), NEW F \in FirstFamilies(G)
  PROVE  /\ Cardinality(Members(G, F)) \in 0 .. MostMembers(G)
         /\ MostMembers(G) \in Nat
         /\ \A F2 \in FirstFamilies(G) :
              Below(G, F, F2) /\ F # F2 =>
                /\ Cardinality(Members(G, F)) < Cardinality(Members(G, F2))
                /\ Cardinality(Members(G, F2)) \in 0 .. MostMembers(G)
<1>. DEFINE T   == G.terms \cup {EPSILON(G)}
            All == G.nonterms \X T
<1>1. /\ IsFiniteSet(G.terms) /\ Cardinality(G.terms) \in Nat
      /\ IsFiniteSet(G.nonterms) /\ Cardinality(G.nonterms) \in Nat
      /\ EPSILON(G) \notin G.terms
  BY Symbolic
<1>2. IsFiniteSet(T) /\ Cardinality(T) = Cardinality(G.terms) + 1
  BY <1>1, FS_AddElement
<1>. HIDE DEF T
<1>3. IsFiniteSet(All) /\ Cardinality(All) = Cardinality(G.nonterms) * Cardinality(T)
  BY <1>1, <1>2, FS_Product
<1>4. Cardinality(All) = MostMembers(G)
  BY <1>2, <1>3 DEF MostMembers
<1>5. Cardinality(All) \in Nat
  BY <1>3, FS_CardinalityType
<1>6. \A F2 : Members(G, F2) \in SUBSET All
  BY DEF Members, T
<1>. HIDE DEF All
<1>7. \A F2 : /\ IsFiniteSet(Members(G, F2))
              /\ Cardinality(Members(G, F2)) \in Nat
              /\ Cardinality(Members(G, F2)) <= Cardinality(All)
  BY <1>3, <1>6, FS_Subset, FS_CardinalityType
<1>8. ASSUME NEW F2 \in FirstFamilies(G), Below(G, F, F2), F # F2
      PROVE  Cardinality(Members(G, F)) < Cardinality(Members(G, F2))
  <2>1. \A A \in G.nonterms : F[A] \subseteq T /\ F2[A] \subseteq T
    BY <1>8 DEF FirstFamilies, T
  <2>2. PICK A \in G.nonterms : F[A] # F2[A]
    <3>1. F = [A \in G.nonterms |-> F[A]] /\ F2 = [A \in G.nonterms |-> F2[A]]
      BY <1>8 DEF FirstFamilies
    <3>. QED
      BY <1>8, <3>1
  <2>3. PICK t : t \in F2[A] /\ t \notin F[A]
    BY <1>8, <2>2 DEF Below
  <2>4. <<A, t>> \in Members(G, F2) /\ <<A, t>> \notin Members(G, F)
    BY <2>1, <2>2, <2>3 DEF Members, T
  <2>5. Members(G, F) \in SUBSET Members(G, F2)
    BY <1>8 DEF Members, Below
  <2>6. /\ Cardinality(Members(G, F)) <= Cardinality(Members(G, F2))
        /\ Cardinality(Members(G, F2)) = Cardinality(Members(G, F))
             => Members(G, F2) = Members(G, F)
    BY <1>7, <2>5, FS_Subset
  <2>. QED
    BY <1>7, <2>4, <2>6
<1>. QED
  BY <1>4, <1>5, <1>7, <1>8

\* A function applied again and again: what is got in how many rounds.
IsRun(S, start, step, n, f) ==
  /\ f \in [0 .. n -> S]
  /\ f[0] = start
  /\ \A k \in 1 .. n : f[k] = step[f[k - 1]]

LEMMA Repeated ==
  ASSUME NEW S, NEW start \in S, NEW step \in [S -> S], NEW n \in Nat
  PROVE  \E f : IsRun(S, start, step, n, f)
<1>. DEFINE M == {m \in 0 .. n : \E f : IsRun(S, start, step, m, f)}
<1>1. 0 \in M
  <2>. DEFINE f == [k \in 0 .. 0 |-> start]
  <2>1. IsRun(S, start, step, 0, f)
    BY DEF IsRun
  <2>. QED
    BY <2>1
<1>2. ASSUME NEW m \in M, m \in 0 .. n - 1
      PROVE  m + 1 \in M
  <2>1. PICK f : IsRun(S, start, step, m, f)
    OBVIOUS
  <2>. DEFINE g == [k \in 0 .. m + 1 |-> IF k = m + 1 THEN step[f[m]] ELSE f[k]]
  <2>2. g \in [0 .. m + 1 -> S]
    BY <2>1 DEF IsRun
  <2>3. g[0] = start
    BY <2>1 DEF IsRun
  <2>4. ASSUME NEW k \in 1 .. m + 1
        PROVE  g[k] = step[g[k - 1]]
    <3>1. CASE k = m + 1
      BY <3>1
    <3>2. CASE k # m + 1
      BY <2>1, <3>2 DEF IsRun
    <3>. QED
      BY <3>1, <3>2
  <2>. HIDE DEF g
  <2>5. IsRun(S, start, step, m + 1, g)
    BY <2>2, <2>3, <2>4 DEF IsRun
  <2>6. m + 1 \in 0 .. n
    BY <1>2
  <2>. QED
    BY <2>5, <2>6
<1>. HIDE DEF M
<1>3. 0 .. n \subseteq M
  BY <1>1, <1>2, UpTo
<1>4. n \in M
  BY <1>3
<1>. QED
  BY <1>4 DEF M

\* So that the function a recursive definition chooses exists.
LEMMA Iteration ==
  ASSUME NEW S, NEW start \in S, NEW step \in [S -> S], NEW n \in Nat, NEW f,
         f = CHOOSE g : g = [k \in 0 .. n |-> IF k = 0 THEN start ELSE step[g[k - 1]]]
  PROVE  IsRun(S, start, step, n, f)
<1>. DEFINE Is(g) == g = [k \in 0 .. n |-> IF k = 0 THEN start ELSE step[g[k - 1]]]
<1>1. PICK g : IsRun(S, start, step, n, g)
  BY Repeated
<1>2. Is(g)
  <2>1. g = [k \in 0 .. n |-> g[k]]
    BY <1>1 DEF IsRun
  <2>2. \A k \in 0 .. n : g[k] = IF k = 0 THEN start ELSE step[g[k - 1]]
    BY <1>1 DEF IsRun
  <2>. QED
    BY <2>1, <2>2
<1>3. Is(f)
  BY <1>2
<1>4. f[0] = start
  <2>1. \A k \in 0 .. n : k = 0 => f[k] = start
    BY <1>3
  <2>2. 0 \in 0 .. n
    OBVIOUS
  <2>. HIDE DEF Is
  <2>. QED
    BY <2>1, <2>2
<1>5. ASSUME NEW k \in 1 .. n
      PROVE  f[k] = step[f[k - 1]]
  <2>1. k \in 0 .. n /\ k # 0
    OBVIOUS
  <2>. QED
    BY <1>3, <2>1
<1>. DEFINE Inside == {k \in 0 .. n : f[k] \in S}
<1>6. 0 .. n \subseteq Inside
  <2>1. 0 \in Inside
    BY <1>4
  <2>2. \A k \in Inside : k \in 0 .. n - 1 => k + 1 \in Inside
    BY <1>5
  <2>. HIDE DEF Inside
  <2>. QED
    BY <2>1, <2>2, UpTo
<1>7. f = [k \in 0 .. n |-> f[k]]
  BY <1>3
<1>8. f \in [0 .. n -> S]
  BY <1>6, <1>7
<1>. HIDE DEF Is
<1>. QED
  BY <1>4, <1>5, <1>8 DEF IsRun

\* A step that never takes anything out of a set.
Enlarges(G, step) ==
  /\ step \in [FirstFamilies(G) -> FirstFamilies(G)]
  /\ \A F \in FirstFamilies(G) : Below(G, F, step[F])

\* A family no step leaves, once below it.
Bounds(G, step, F2) ==
  \A F \in FirstFamilies(G) : Below(G, F, F2) => Below(G, step[F], F2)

\* The rounds of Iterate are enough to come to a fixpoint, the least one.
LEMMA IterateEnds ==
  ASSUME NEW G, Readable(G), NEW step, Enlarges(G, step)
  PROVE  /\ Iterate(G, step) \in FirstFamilies(G)
         /\ step[Iterate(G, step)] = Iterate(G, step)
         /\ \A F2 \in FirstFamilies(G) :
              Bounds(G, step, F2) => Below(G, Iterate(G, step), F2)
<1>. DEFINE n == MostMembers(G)
            families == FirstFamilies(G)
            IsIteration(f) ==
              f = [k \in 0 .. n |-> IF k = 0 THEN NoFirst(G) ELSE step[f[k - 1]]]
<1>1. NoFirst(G) \in families
  BY DEF NoFirst, FirstFamilies
<1>2. n \in Nat
  BY <1>1, MembersBounded
<1>3. step \in [families -> families]
  BY DEF Enlarges
<1>4. PICK f : f = (CHOOSE g : IsIteration(g))
  OBVIOUS
<1>5. Iterate(G, step) = f[n]
  BY <1>4 DEF Iterate, MostMembers
<1>. HIDE DEF n, families
<1>6. IsRun(families, NoFirst(G), step, n, f)
  BY <1>1, <1>2, <1>3, <1>4, Iteration
<1>7. /\ f[0] = NoFirst(G) /\ \A k \in 1 .. n : f[k] = step[f[k - 1]]
      /\ f \in [0 .. n -> families]
  BY <1>6 DEF IsRun
<1>8. \A k \in 0 .. n : f[k] \in families
  BY <1>7
<1>9. \A k \in 0 .. n : Cardinality(Members(G, f[k])) \in 0 .. n
  BY <1>8, MembersBounded DEF families, n
<1>. DEFINE Settled == {k \in 0 .. n : step[f[k]] = f[k] \/ k <= Cardinality(Members(G, f[k]))}
<1>10. n \in Settled
  <2>1. 0 \in Settled
    BY <1>2, <1>9
  <2>2. ASSUME NEW k \in Settled, k \in 0 .. n - 1
        PROVE  k + 1 \in Settled
    <3>1. k \in 0 .. n /\ k + 1 \in 0 .. n /\ k + 1 \in 1 .. n /\ k + 1 - 1 = k
      BY <1>2, <2>2
    <3>2. f[k + 1] = step[f[k]]
      BY <1>7, <3>1
    <3>3. CASE step[f[k]] = f[k]
      BY <3>1, <3>2, <3>3
    <3>4. CASE step[f[k]] # f[k]
      <4>1. Below(G, f[k], f[k + 1])
        BY <1>8, <3>1, <3>2 DEF Enlarges, families
      <4>2. Cardinality(Members(G, f[k])) < Cardinality(Members(G, f[k + 1]))
        BY <1>8, <3>1, <3>2, <3>4, <4>1, MembersBounded DEF families
      <4>3. k <= Cardinality(Members(G, f[k]))
        BY <2>2, <3>4
      <4>4. k + 1 <= Cardinality(Members(G, f[k + 1]))
        BY <1>9, <3>1, <4>2, <4>3
      <4>. QED
        BY <3>1, <4>4
    <3>. QED
      BY <3>3, <3>4
  <2>. HIDE DEF Settled
  <2>3. 0 .. n \subseteq Settled
    BY <1>2, <2>1, <2>2, UpTo
  <2>. QED
    BY <1>2, <2>3
<1>11. n \in 0 .. n /\ f[n] \in families
  BY <1>2, <1>8
<1>12. step[f[n]] = f[n]
  <2>1. SUFFICES ASSUME step[f[n]] # f[n]
                 PROVE  FALSE
    OBVIOUS
  <2>2. n <= Cardinality(Members(G, f[n]))
    BY <1>10, <2>1
  <2>3. Below(G, f[n], step[f[n]]) /\ step[f[n]] \in families
    BY <1>3, <1>11 DEF Enlarges, families
  <2>4. /\ Cardinality(Members(G, f[n])) < Cardinality(Members(G, step[f[n]]))
        /\ Cardinality(Members(G, step[f[n]])) \in 0 .. n
    BY <1>11, <2>1, <2>3, MembersBounded DEF families, n
  <2>. QED
    BY <1>2, <1>9, <1>11, <2>2, <2>4
<1>13. ASSUME NEW F2 \in families, Bounds(G, step, F2)
       PROVE  Below(G, f[n], F2)
  <2>. DEFINE Lower == {k \in 0 .. n : Below(G, f[k], F2)}
  <2>1. 0 \in Lower
    BY <1>2, <1>7 DEF Below, NoFirst
  <2>2. \A k \in Lower : k \in 0 .. n - 1 => k + 1 \in Lower
    BY <1>2, <1>7, <1>8, <1>13 DEF Bounds, families
  <2>. HIDE DEF Lower
  <2>3. 0 .. n \subseteq Lower
    BY <1>2, <2>1, <2>2, UpTo
  <2>. QED
    BY <1>2, <2>3 DEF Lower
<1>. QED
  BY <1>5, <1>11, <1>12, <1>13 DEF families

----------------------------------------------------------------------------
(***************************************************************************)
(* The two steps that are iterated.                                        *)
(***************************************************************************)

\* first_closure() on all symbols at once.
LEMMA CodeStepEnlarges ==
  ASSUME NEW G, Readable(G)
  PROVE  Enlarges(G, CodeStep(G))
<1>1. ASSUME NEW F \in FirstFamilies(G)
      PROVE  /\ CodeStep(G)[F] = [A \in G.nonterms |-> FirstClosure(WithFirst(G, F), A)]
             /\ CodeStep(G)[F] \in FirstFamilies(G)
             /\ Below(G, F, CodeStep(G)[F])
  <2>1. \A A \in G.nonterms :
          /\ FirstClosure(WithFirst(G, F), A) \subseteq G.terms \cup {EPSILON(G)}
          /\ F[A] \subseteq FirstClosure(WithFirst(G, F), A)
    BY ClosureMonotone DEF Below
  <2>2. CodeStep(G)[F] = [A \in G.nonterms |-> FirstClosure(WithFirst(G, F), A)]
    BY DEF CodeStep
  <2>. QED
    BY <2>1, <2>2 DEF FirstFamilies, Below
<1>2. CodeStep(G) \in [FirstFamilies(G) -> FirstFamilies(G)]
  BY <1>1 DEF CodeStep
<1>. QED
  BY <1>1, <1>2 DEF Enlarges

\* A family is a fixpoint of that step just when it is closed; and it bounds the step then.
LEMMA ClosedFixpoint ==
  ASSUME NEW G, Readable(G), NEW F2 \in FirstFamilies(G)
  PROVE  /\ CodeStep(G)[F2] = F2 <=> Closed(G, F2)
         /\ Closed(G, F2) => Bounds(G, CodeStep(G), F2)
<1>1. \A F \in FirstFamilies(G) :
        CodeStep(G)[F] = [A \in G.nonterms |-> FirstClosure(WithFirst(G, F), A)]
  BY DEF CodeStep
<1>2. F2 = [A \in G.nonterms |-> F2[A]]
  BY DEF FirstFamilies
<1>3. \A A \in G.nonterms : F2[A] \subseteq FirstClosure(WithFirst(G, F2), A)
  BY ClosureMonotone DEF Below
<1>4. ASSUME Closed(G, F2)
      PROVE  CodeStep(G)[F2] = F2
  <2>1. \A A \in G.nonterms : FirstClosure(WithFirst(G, F2), A) = F2[A]
    BY <1>3, <1>4 DEF Closed
  <2>. QED
    BY <1>1, <1>2, <2>1
<1>5. ASSUME CodeStep(G)[F2] = F2
      PROVE  Closed(G, F2)
  BY <1>1, <1>5 DEF Closed
<1>6. ASSUME Closed(G, F2), NEW F \in FirstFamilies(G), Below(G, F, F2)
      PROVE  Below(G, CodeStep(G)[F], F2)
  <2>1. \A A \in G.nonterms :
          FirstClosure(WithFirst(G, F), A) \subseteq FirstClosure(WithFirst(G, F2), A)
    BY <1>6, ClosureMonotone
  <2>. QED
    BY <1>1, <1>6, <2>1 DEF Below, Closed
<1>. QED
  BY <1>4, <1>5, <1>6 DEF Bounds

\* What a production adds by definition is among what the code adds.
LEMMA TrueWithinCode ==
  ASSUME NEW G, Readable(G), NEW F \in FirstFamilies(G), NEW p \in Productions(G)
  PROVE  /\ TrueOfProduction(WithFirst(G, F), p) \subseteq FirstOfProduction(WithFirst(G, F), p)
         /\ TrueOfProduction(WithFirst(G, F), p) \subseteq G.terms \cup {EPSILON(G)}
<1>. DEFINE rhs == G.rhs[p]
            H   == WithFirst(G, F)
<1>1. H.nonterms = G.nonterms /\ H.rhs = G.rhs /\ H.first = F /\ EPSILON(H) = EPSILON(G)
  BY Fields
<1>2. /\ Len(rhs) \in Nat
      /\ \A i \in 1 .. Len(rhs) : rhs[i] \in Nat
      /\ \A A \in G.nonterms : A < MINACT
  <2>1. G.nonterms \subseteq MINNONTERM .. MINACT - 1
    BY DEF Readable
  <2>2. \A A \in G.nonterms : A < MINACT
    BY <2>1 DEF MINNONTERM, MINACT
  <2>. QED
    BY <2>2, Sides
<1>3. FirstOfProduction(H, p) \subseteq G.terms \cup {EPSILON(G)}
  BY Contribution DEF Below
<1>. HIDE DEF H, rhs
<1>4. ASSUME RhsIsNullable(H, rhs, 1), ~NoSymbols(rhs)
      PROVE  EPSILON(G) \in FirstRhs(H, rhs, 1)
  <2>1. PICK i \in 1 .. Len(rhs) : ~ISACT(rhs[i])
    BY <1>4 DEF NoSymbols
  <2>2. NullableRun(H, rhs, 1, Len(rhs))
    BY <1>4 DEF RhsIsNullable
  <2>3. NULLABLE(H, rhs[i])
    BY <2>1, <2>2 DEF NullableRun
  <2>4. EPSILON(G) \in FirstOf(H, rhs[i])
    BY <1>1, <2>1, <2>3 DEF NULLABLE, FirstOf
  <2>5. NullableRun(H, rhs, 1, i - 1)
    BY <1>2, <2>2 DEF NullableRun
  <2>6. i \in {j \in 1 .. Len(rhs) : NullableRun(H, rhs, 1, j - 1)} /\ ~(1 > Len(rhs))
    BY <1>2, <2>5
  <2>. QED
    BY <2>4, <2>6 DEF FirstRhs
<1>5. /\ H.rhs[p] = rhs
      /\ FirstOfProduction(H, p) = IF NoSymbols(rhs) THEN {EPSILON(G)} ELSE FirstRhs(H, rhs, 1)
  BY <1>1 DEF FirstOfProduction, rhs
<1>6. TrueOfProduction(H, p) \subseteq FirstOfProduction(H, p)
  BY <1>1, <1>4, <1>5 DEF TrueOfProduction
<1>. QED
  BY <1>3, <1>6 DEF H

LEMMA TrueStepEnlarges ==
  ASSUME NEW G, Readable(G)
  PROVE  Enlarges(G, TrueStep(G))
<1>. DEFINE Added(F, A) ==
       UNION {TrueOfProduction(WithFirst(G, F), p) : p \in ProductionsOf(G, A)}
<1>1. ASSUME NEW F \in FirstFamilies(G)
      PROVE  /\ TrueStep(G)[F] \in FirstFamilies(G)
             /\ Below(G, F, TrueStep(G)[F])
  <2>1. \A A : ProductionsOf(G, A) \subseteq Productions(G)
    BY DEF ProductionsOf
  <2>2. \A A \in G.nonterms : Added(F, A) \subseteq G.terms \cup {EPSILON(G)}
    BY <2>1, TrueWithinCode
  <2>3. \A A \in G.nonterms : F[A] \subseteq G.terms \cup {EPSILON(G)}
    BY DEF FirstFamilies
  <2>4. TrueStep(G)[F] = [A \in G.nonterms |-> F[A] \cup Added(F, A)]
    BY DEF TrueStep
  <2>. HIDE DEF Added
  <2>. QED
    BY <2>2, <2>3, <2>4 DEF FirstFamilies, Below
<1>2. TrueStep(G) \in [FirstFamilies(G) -> FirstFamilies(G)]
  BY <1>1 DEF TrueStep
<1>. QED
  BY <1>1, <1>2 DEF Enlarges

\* FIRST by definition never leaves a closed family.
LEMMA ClosedBoundsTrue ==
  ASSUME NEW G, Readable(G), NEW F2 \in FirstFamilies(G), Closed(G, F2)
  PROVE  Bounds(G, TrueStep(G), F2)
<1>1. SUFFICES ASSUME NEW F \in FirstFamilies(G), Below(G, F, F2), NEW A \in G.nonterms
               PROVE  TrueStep(G)[F][A] \subseteq F2[A]
  BY DEF Bounds, Below
<1>2. TrueStep(G)[F][A] =
        F[A] \cup UNION {TrueOfProduction(WithFirst(G, F), p) : p \in ProductionsOf(G, A)}
  BY <1>1 DEF TrueStep
<1>3. F[A] \subseteq F2[A]
  BY <1>1 DEF Below
<1>4. ASSUME NEW p \in ProductionsOf(G, A)
      PROVE  TrueOfProduction(WithFirst(G, F), p) \subseteq F2[A]
  <2>1. p \in Productions(G)
    BY <1>4 DEF ProductionsOf
  <2>2. TrueOfProduction(WithFirst(G, F), p) \subseteq FirstOfProduction(WithFirst(G, F2), p)
    BY <1>1, <2>1, TrueWithinCode, Contribution
  <2>3. p \in ProductionsOf(WithFirst(G, F2), A)
    BY <1>4, Fields
  <2>4. FirstOfProduction(WithFirst(G, F2), p) \subseteq FirstClosure(WithFirst(G, F2), A)
    BY <2>3 DEF FirstClosure
  <2>5. FirstClosure(WithFirst(G, F2), A) \subseteq F2[A]
    BY DEF Closed
  <2>. QED
    BY <2>2, <2>4, <2>5
<1>. QED
  BY <1>2, <1>3, <1>4

\* Where no production goes on behind a nullable nonterminal to a symbol that is not
\* nullable, FIRST by definition is closed for the code, too.
LEMMA PlainClosed ==
  ASSUME NEW G, Readable(G), PlainGrammar(G)
  PROVE  Closed(G, TrueFirst(G))
<1>. DEFINE F == TrueFirst(G)
            H == WithFirst(G, F)
<1>1. F \in FirstFamilies(G) /\ TrueStep(G)[F] = F
  BY TrueStepEnlarges, IterateEnds DEF TrueFirst
<1>2. /\ H.nonterms = G.nonterms /\ H.rhs = G.rhs /\ H.first = F /\ EPSILON(H) = EPSILON(G)
      /\ \A A : ProductionsOf(H, A) = ProductionsOf(G, A)
  BY Fields
<1>3. \A p \in Productions(G) :
        \/ RhsIsNullable(H, G.rhs[p], 1)
        \/ \A i \in 1 .. Len(G.rhs[p]) :
             NULLABLE(H, G.rhs[p][i]) => ~NullableRun(H, G.rhs[p], 1, i - 1)
  BY DEF PlainGrammar
<1>. HIDE DEF F, H
<1>4. ASSUME NEW p \in Productions(G)
      PROVE  FirstOfProduction(H, p) \subseteq TrueOfProduction(H, p)
  <2>. DEFINE rhs == G.rhs[p]
  <2>1. H.rhs[p] = rhs
    BY <1>2
  <2>2. /\ Len(rhs) \in Nat
        /\ \A i \in 1 .. Len(rhs) : rhs[i] \in G.terms \cup G.nonterms \/ ISACT(rhs[i])
    BY Sides
  <2>3. \/ RhsIsNullable(H, rhs, 1)
        \/ \A i \in 1 .. Len(rhs) : NULLABLE(H, rhs[i]) => ~NullableRun(H, rhs, 1, i - 1)
    BY <1>3
  <2>. HIDE DEF rhs
  <2>4. SUFFICES ASSUME EPSILON(G) \in FirstOfProduction(H, p)
                 PROVE  RhsIsNullable(H, rhs, 1)
    BY <1>2, <2>1 DEF TrueOfProduction
  <2>5. CASE NoSymbols(rhs)
    BY <2>5 DEF NoSymbols, RhsIsNullable, NullableRun
  <2>6. CASE ~NoSymbols(rhs)
    <3>1. EPSILON(G) \in FirstRhs(H, rhs, 1)
      BY <2>1, <2>4, <2>6 DEF FirstOfProduction
    <3>2. ~(1 > Len(rhs))
      BY <2>2, <2>6 DEF NoSymbols
    <3>3. PICK i \in 1 .. Len(rhs) :
            NullableRun(H, rhs, 1, i - 1) /\ EPSILON(G) \in FirstOf(H, rhs[i])
      BY <3>1, <3>2 DEF FirstRhs
    <3>4. NULLABLE(H, rhs[i])
      BY <1>2, <2>2, <3>3, Symbolic DEF FirstOf, NULLABLE, ISNONTERM
    <3>. QED
      BY <2>3, <3>3, <3>4
  <2>. QED
    BY <2>5, <2>6
<1>5. ASSUME NEW A \in G.nonterms
      PROVE  FirstClosure(H, A) \subseteq F[A]
  <2>1. F[A] = F[A] \cup UNION {TrueOfProduction(H, p) : p \in ProductionsOf(G, A)}
    BY <1>1 DEF TrueStep, H
  <2>2. \A p \in ProductionsOf(G, A) : FirstOfProduction(H, p) \subseteq F[A]
    BY <1>4, <2>1 DEF ProductionsOf
  <2>. QED
    BY <1>2, <2>2 DEF FirstClosure
<1>. QED
  BY <1>5 DEF Closed, H, F

----------------------------------------------------------------------------
(***************************************************************************)
(* The inductive invariant.                                                *)
(***************************************************************************)

\* The grammar is one of those given, with sets no larger than any closed family's; as long
\* as a pass has changed nothing, the symbols visited in it are as first_closure() leaves
\* them.
Growing(G) ==
  LET F == grammar.first
  IN  /\ grammar = WithFirst(G, F)
      /\ F \in FirstFamilies(G)
      /\ unvisited \subseteq G.nonterms
      /\ diff \in BOOLEAN
      /\ at \in {"pass", "done"}
      /\ at = "done" => unvisited = {} /\ ~diff
      /\ ~diff => \A A \in G.nonterms \ unvisited : FirstClosure(WithFirst(G, F), A) \subseteq F[A]
      /\ \A F2 \in FirstFamilies(G) : Closed(G, F2) => Below(G, F, F2)

FirstIInv == \E G \in Grammars : Growing(G)

LEMMA FirstStarts ==
  ASSUME FirstInit
  PROVE  FirstIInv
<1>. DEFINE G == grammar
<1>1. G \in Grammars /\ unvisited = G.nonterms /\ diff = FALSE /\ at = "pass"
  BY DEF FirstInit
<1>2. Readable(G) /\ G.first = NoFirst(G)
  BY <1>1, GivenReadable
<1>3. G = [terms |-> G.terms, nonterms |-> G.nonterms, lhs |-> G.lhs, rhs |-> G.rhs,
           first |-> G.first]
  BY <1>2 DEF Readable
<1>4. G = WithFirst(G, G.first)
  BY <1>2, <1>3, Fields
<1>5. G.first \in FirstFamilies(G) /\ \A F : Below(G, G.first, F)
  BY <1>2 DEF NoFirst, FirstFamilies, Below
<1>6. Growing(G)
  BY <1>1, <1>4, <1>5 DEF Growing
<1>. QED
  BY <1>1, <1>6 DEF FirstIInv

\* One call of first_closure() keeps the sets below every closed family.
LEMMA VisitStep ==
  ASSUME NEW G \in Grammars, Growing(G), VisitSymbol
  PROVE  Growing(G)'
<1>0. Readable(G)
  BY GivenReadable
<1>. USE <1>0
<1>. DEFINE F == grammar.first
<1>1. PICK A \in unvisited :
        /\ grammar' = WithFirst(grammar, UpdateFirst(grammar, A))
        /\ diff' = (diff \/ UpdateFirst(grammar, A) # grammar.first)
        /\ unvisited' = unvisited \ {A}
  BY DEF VisitSymbol
<1>2. at = "pass" /\ at' = at
  BY DEF VisitSymbol
<1>3. /\ grammar = WithFirst(G, F) /\ F \in FirstFamilies(G) /\ A \in G.nonterms
      /\ diff \in BOOLEAN
  BY <1>1 DEF Growing
<1>. DEFINE C  == FirstClosure(WithFirst(G, F), A)
            F1 == [F EXCEPT ![A] = C]
<1>4. UpdateFirst(grammar, A) = F1
  BY <1>3 DEF UpdateFirst
<1>5. Below(G, F, F)
  BY DEF Below
<1>6. C \subseteq G.terms \cup {EPSILON(G)} /\ F[A] \subseteq C
  BY <1>3, <1>5, ClosureMonotone
<1>7. grammar' = WithFirst(G, F1)
  BY <1>1, <1>3, <1>4, Fields
<1>8. grammar.first' = F1
  BY <1>7, Fields
<1>9. \A F2 \in FirstFamilies(G) : Closed(G, F2) => Below(G, F, F2)
  BY DEF Growing
<1>10. ~diff => \A B \in G.nonterms \ unvisited : FirstClosure(WithFirst(G, F), B) \subseteq F[B]
  BY DEF Growing
<1>11. unvisited \subseteq G.nonterms
  BY DEF Growing
<1>. HIDE DEF F, C
<1>12. F1 \in FirstFamilies(G) /\ F1[A] = C /\ \A B \in G.nonterms \ {A} : F1[B] = F[B]
  BY <1>3, <1>6 DEF FirstFamilies
<1>13. ASSUME NEW F2 \in FirstFamilies(G), Closed(G, F2)
       PROVE  Below(G, F1, F2)
  <2>1. Below(G, F, F2)
    BY <1>9, <1>13
  <2>2. C \subseteq FirstClosure(WithFirst(G, F2), A)
    BY <1>3, <2>1, ClosureMonotone DEF C
  <2>3. FirstClosure(WithFirst(G, F2), A) \subseteq F2[A]
    BY <1>3, <1>13 DEF Closed
  <2>. QED
    BY <1>12, <2>1, <2>2, <2>3 DEF Below
<1>14. ASSUME ~diff'
       PROVE  \A B \in G.nonterms \ unvisited' : FirstClosure(WithFirst(G, F1), B) \subseteq F1[B]
  <2>1. ~diff /\ F1 = F
    BY <1>1, <1>3, <1>4, <1>14 DEF F
  <2>2. C = F[A]
    BY <1>12, <2>1
  <2>. QED
    BY <1>1, <1>10, <2>1, <2>2 DEF C
<1>15. unvisited' \subseteq G.nonterms /\ diff' \in BOOLEAN
  BY <1>1, <1>3, <1>11
<1>. HIDE DEF F1
<1>. QED
  BY <1>2, <1>7, <1>8, <1>12, <1>13, <1>14, <1>15 DEF Growing

LEMMA FirstSteps ==
  ASSUME FirstIInv, [FirstNext]_firstVars
  PROVE  FirstIInv'
<1>1. PICK G \in Grammars : Growing(G)
  BY DEF FirstIInv
<1>6. Readable(G)
  BY GivenReadable
<1>2. CASE UNCHANGED firstVars
  <2>1. Growing(G)'
    BY <1>1, <1>2 DEF firstVars, Growing
  <2>. QED
    BY <2>1 DEF FirstIInv
<1>3. CASE VisitSymbol
  <2>1. Growing(G)'
    BY <1>1, <1>3, VisitStep
  <2>. QED
    BY <2>1 DEF FirstIInv
<1>4. CASE NextPass
  <2>1. grammar.nonterms = G.nonterms
    <3>1. WithFirst(G, grammar.first).nonterms = G.nonterms
      BY <1>6, Fields
    <3>. QED
      BY <1>1, <3>1 DEF Growing
  <2>2. /\ grammar' = grammar /\ at' = at /\ at = "pass" /\ diff' = FALSE
        /\ unvisited' = G.nonterms
    BY <1>4, <2>1 DEF NextPass
  <2>3. Growing(G)'
    BY <1>1, <2>2 DEF Growing
  <2>. QED
    BY <2>3 DEF FirstIInv
<1>5. CASE FirstReturns
  <2>1. Growing(G)'
    BY <1>1, <1>5 DEF FirstReturns, NothingChanged, Growing
  <2>. QED
    BY <2>1 DEF FirstIInv
<1>. QED
  BY <1>2, <1>3, <1>4, <1>5 DEF FirstNext

----------------------------------------------------------------------------
(***************************************************************************)
(* Theorems.                                                               *)
(***************************************************************************)

\* No set ever has a member that some closed family of sets has not.
THEOREM FirstInvariant == FirstSpec => []FirstIInv
<1>1. FirstInit => FirstIInv
  BY FirstStarts
<1>2. FirstIInv /\ [FirstNext]_firstVars => FirstIInv'
  BY FirstSteps
<1>. QED
  BY <1>1, <1>2, PTL DEF FirstSpec

\* The sets hold terminals of the grammar and EPSILON.
THEOREM FirstTypeCorrect == FirstSpec => []FirstTypeOK
<1>1. FirstIInv => FirstTypeOK
  <2>. SUFFICES ASSUME FirstIInv
                PROVE  FirstTypeOK
    OBVIOUS
  <2>1. PICK G \in Grammars : Growing(G)
    BY DEF FirstIInv
  <2>0. Readable(G) /\ IsSymbolTable(G) /\ G.first = NoFirst(G)
    BY GivenReadable
  <2>. USE <2>0
  <2>2. /\ grammar.terms = G.terms /\ grammar.nonterms = G.nonterms
        /\ grammar.lhs = G.lhs /\ grammar.rhs = G.rhs
        /\ EPSILON(grammar) = EPSILON(G)
    <3>. DEFINE F == grammar.first
    <3>1. grammar = WithFirst(G, F)
      BY <2>1 DEF Growing
    <3>. HIDE DEF F
    <3>. QED
      BY <3>1, Fields
  <2>3. grammar.first \in [G.nonterms -> SUBSET (G.terms \cup {EPSILON(G)})]
    BY <2>1 DEF Growing, FirstFamilies
  <2>5. IsSymbolTable(grammar)
    BY <2>2, <2>3 DEF IsSymbolTable, Productions
  <2>. QED
    BY <2>1, <2>2, <2>5 DEF Growing, FirstTypeOK
<1>. QED
  BY <1>1, FirstInvariant, PTL

\* first() ends with the least family of sets that first_closure() leaves as it is, for
\* every grammar and every order of the symbols.
THEOREM LeastFamily == FirstSpec => []OrderIndependent
<1>1. FirstIInv => OrderIndependent
  <2>. SUFFICES ASSUME FirstIInv, at = "done"
                PROVE  /\ Closed(grammar, grammar.first)
                       /\ \A F \in FirstFamilies(grammar) :
                            Closed(grammar, F) =>
                              \A A \in grammar.nonterms : grammar.first[A] \subseteq F[A]
    BY DEF OrderIndependent
  <2>1. PICK G \in Grammars : Growing(G)
    BY DEF FirstIInv
  <2>0. Readable(G) /\ IsSymbolTable(G) /\ G.first = NoFirst(G)
    BY GivenReadable
  <2>. USE <2>0
  <2>. DEFINE F == grammar.first
  <2>2. /\ grammar = WithFirst(G, F)
        /\ \A A \in G.nonterms : FirstClosure(WithFirst(G, F), A) \subseteq F[A]
        /\ \A F2 \in FirstFamilies(G) : Closed(G, F2) => Below(G, F, F2)
    BY <2>1 DEF Growing
  <2>. HIDE DEF F
  <2>3. /\ grammar.nonterms = G.nonterms /\ FirstFamilies(grammar) = FirstFamilies(G)
        /\ \A F2 : WithFirst(grammar, F2) = WithFirst(G, F2)
    BY <2>2, Fields
  <2>4. \A F2 : Closed(grammar, F2) <=> Closed(G, F2)
    BY <2>3 DEF Closed
  <2>5. Closed(G, F)
    BY <2>2 DEF Closed
  <2>. QED
    BY <2>2, <2>3, <2>4, <2>5 DEF Below, F
<1>. QED
  BY <1>1, FirstInvariant, PTL

\* And these sets are right: they hold every terminal a nonterminal's strings can begin
\* with and EPSILON where it derives the empty string, and they are FIRST exactly in a
\* grammar in which first_closure() adds no EPSILON too many; they are CodeFirst, which
\* Generator takes for first().
THEOREM SetsRight == FirstSpec => []FirstSetsRight
<1>1. FirstIInv /\ OrderIndependent => FirstSetsRight
  <2>. SUFFICES ASSUME FirstIInv, OrderIndependent, at = "done"
                PROVE  /\ \A A \in grammar.nonterms : TrueFirst(Given)[A] \subseteq grammar.first[A]
                       /\ PlainGrammar(Given) => grammar.first = TrueFirst(Given)
                       /\ grammar.first = CodeFirst(Given)
    BY DEF FirstSetsRight, FirstComplete
  <2>1. PICK G \in Grammars : Growing(G)
    BY DEF FirstIInv
  <2>0. Readable(G) /\ IsSymbolTable(G) /\ G.first = NoFirst(G)
    BY GivenReadable
  <2>. USE <2>0
  <2>. DEFINE F == grammar.first
  <2>2. /\ grammar = WithFirst(G, F) /\ F \in FirstFamilies(G)
        /\ \A A \in G.nonterms : FirstClosure(WithFirst(G, F), A) \subseteq F[A]
        /\ \A F2 \in FirstFamilies(G) : Closed(G, F2) => Below(G, F, F2)
    BY <2>1 DEF Growing
  <2>. HIDE DEF F
  <2>3. Closed(G, F)
    BY <2>2 DEF Closed
  <2>4. grammar.nonterms = G.nonterms /\ \A F2 : WithFirst(grammar, F2) = WithFirst(G, F2)
    BY <2>2, Fields
  <2>5. Given = G
    <3>1. Given = WithFirst(G, NoFirst(G))
      BY <2>4 DEF Given, NoFirst
    <3>2. WithFirst(G, NoFirst(G)) = [terms |-> G.terms, nonterms |-> G.nonterms,
                                      lhs |-> G.lhs, rhs |-> G.rhs, first |-> NoFirst(G)]
      BY Fields
    <3>. QED
      BY <3>1, <3>2 DEF Readable
  <2>6. \A F1, F2 \in FirstFamilies(G) : Below(G, F1, F2) /\ Below(G, F2, F1) => F1 = F2
    <3>1. SUFFICES ASSUME NEW F1 \in FirstFamilies(G), NEW F2 \in FirstFamilies(G),
                          Below(G, F1, F2), Below(G, F2, F1)
                   PROVE  F1 = F2
      OBVIOUS
    <3>2. F1 = [A \in G.nonterms |-> F1[A]] /\ F2 = [A \in G.nonterms |-> F2[A]]
      BY DEF FirstFamilies
    <3>3. \A A \in G.nonterms : F1[A] = F2[A]
      BY <3>1 DEF Below
    <3>. QED
      BY <3>2, <3>3
  <2>7. F = CodeFirst(G)
    <3>1. /\ CodeFirst(G) \in FirstFamilies(G)
          /\ CodeStep(G)[CodeFirst(G)] = CodeFirst(G)
          /\ Bounds(G, CodeStep(G), F) => Below(G, CodeFirst(G), F)
      BY <2>2, CodeStepEnlarges, IterateEnds DEF CodeFirst
    <3>2. Closed(G, CodeFirst(G)) /\ Bounds(G, CodeStep(G), F)
      BY <2>2, <2>3, <3>1, ClosedFixpoint
    <3>. QED
      BY <2>2, <2>6, <3>1, <3>2
  <2>8. TrueFirst(G) \in FirstFamilies(G) /\ Below(G, TrueFirst(G), F)
    BY <2>2, <2>3, TrueStepEnlarges, IterateEnds, ClosedBoundsTrue DEF TrueFirst
  <2>9. PlainGrammar(G) => F = TrueFirst(G)
    BY <2>2, <2>6, <2>8, PlainClosed
  <2>. QED
    BY <2>4, <2>5, <2>7, <2>8, <2>9 DEF Below, F
<1>. QED
  BY <1>1, FirstInvariant, LeastFamily, PTL
----------------------------------------------------------------------------
(***************************************************************************)
(* do_file(): the inductive invariant.                                     *)
(***************************************************************************)
TableFields ==
  {"symbols", "productions", "Precedence", "Cur_term", "Cur_nonterm", "Cur_act",
   "Num_productions", "Goal_symbol", "Goal_symbol_is_next", "lhs", "rhs", "Associativity",
   "Prec_lev", "Field_name", "yynerrs", "status"}

SymbolFields     == {"name", "field", "set", "used", "productions"}
ProductionFields == {"lhs", "rhs", "rhs_len", "prec"}

Numbers(t) ==
  /\ DOMAIN t = TableFields
  /\ t.Cur_term \in 0 .. MAXTERM
  /\ t.Cur_nonterm \in MINNONTERM - 1 .. MAXNONTERM
  /\ t.Cur_act \in Nat
  /\ t.Cur_act >= MINACT - 1
  /\ t.Num_productions \in Nat
  /\ t.yynerrs \in Nat
  /\ t.status \in {"run", "exit", "undefined"}

SymbolsHold(t) ==
  /\ DOMAIN t.symbols = Values(t)
  /\ \A v \in DOMAIN t.symbols : DOMAIN t.symbols[v] = SymbolFields

\* A production; where symbols were dropped, rhs_len still counts them.
IsProduction(t, prod) ==
  /\ DOMAIN prod = ProductionFields
  /\ prod.lhs \in MINNONTERM .. t.Cur_nonterm
  /\ prod.rhs \in Seq(Nat)
  /\ Len(prod.rhs) <= MAXRHS
  /\ prod.rhs_len \in Nat
  /\ Len(prod.rhs) <= prod.rhs_len
  /\ \A i \in 1 .. Len(prod.rhs) : prod.rhs[i] \in DOMAIN t.symbols

ProductionsHold(t) ==
  /\ DOMAIN t.productions = 0 .. t.Num_productions - 1
  /\ \A p \in 0 .. t.Num_productions - 1 : IsProduction(t, t.productions[p])

\* Every action of the file is a symbol of its own: patching one right-hand side deletes no
\* symbol of another.
ActionsOnce(t) ==
  \A p, q \in DOMAIN t.productions :
    \A i \in 1 .. Len(t.productions[p].rhs), j \in 1 .. Len(t.productions[q].rhs) :
      IsAct(t.productions[p].rhs[i]) /\ t.productions[p].rhs[i] = t.productions[q].rhs[j] =>
        p = q /\ i = j

\* The chain of a symbol: its productions, newest first.
IsChain(t, v, linked) ==
  /\ linked \in Seq(Nat)
  /\ {linked[i] : i \in 1 .. Len(linked)}
       = {p \in DOMAIN t.productions : t.productions[p].lhs = v}
  /\ \A i, j \in 1 .. Len(linked) : i < j => linked[i] > linked[j]

Linked(t) == \A v \in DOMAIN t.symbols : IsChain(t, v, t.symbols[v].productions)

Sound(t) ==
  Numbers(t) /\ SymbolsHold(t) /\ ProductionsHold(t) /\ ActionsOnce(t) /\ Linked(t)

\* Before the first %%,
BeforeRules(t) ==
  /\ t.Goal_symbol_is_next = FALSE
  /\ t.Goal_symbol = NULL
  /\ t.lhs = NULL
  /\ t.Num_productions = 0

\* and behind it: the goal symbol is the left-hand side of production 0.
GoalKept(t) ==
  /\ t.Goal_symbol_is_next \in BOOLEAN
  /\ t.Goal_symbol_is_next <=> t.lhs = NULL
  /\ t.lhs = NULL => t.Goal_symbol = NULL
  /\ t.lhs # NULL => {t.lhs, t.Goal_symbol} \subseteq MINNONTERM .. t.Cur_nonterm
  /\ t.Num_productions > 0 => t.lhs # NULL /\ t.Goal_symbol = t.productions[0].lhs
  /\ t.Num_productions = 0 => t.lhs = t.Goal_symbol

InBody(t) == GoalKept(t) /\ (t.lhs # NULL => t.Num_productions > 0)

InRhs(t) == GoalKept(t) /\ t.rhs \in 0 .. t.Num_productions - 1

DefinitionsPlaces == {"definitions", "union", "names"}
BodyPlaces        == {"body", "skipped", "parsed", "first", "patch", "tables", "lr"}
RhsPlaces         == {"rhs", "prec", "right_side"}
AllPlaces         == DefinitionsPlaces \cup BodyPlaces \cup RhsPlaces \cup {"colon"}

\* What holds of the tables at a place of the parser.
Phase(t, place) ==
  /\ place \in AllPlaces
  /\ t.status = "run"
  /\ place \in DefinitionsPlaces => BeforeRules(t)
  /\ place = "colon" => GoalKept(t)
  /\ place \in BodyPlaces => InBody(t)
  /\ place \in RhsPlaces => InRhs(t)

AtPlace ==
  \/ pc \in {"exit", "undefined"}
  \/ /\ pc = "lookfor"
     /\ return \in {"definitions", "skipped", "rhs", "right_side"}
     /\ Phase(tables, return)
  \/ Phase(tables, pc)

PatchPlaces == {"patch", "tables", "lr"}

\* Until first() has run, nothing is there that it leaves.
BeforeFirst ==
  pc \notin PatchPlaces \cup {"exit", "undefined"} =>
    todo = {} /\ chain = <<>> /\ DOMAIN first = {}

\* Every production with an action is still to be patched.
ToPatch ==
  pc \in PatchPlaces =>
    /\ chain \in Seq(DOMAIN tables.productions)
    /\ todo \subseteq MINNONTERM .. tables.Cur_nonterm
    /\ \A p \in DOMAIN tables.productions : \A i \in 1 .. Len(tables.productions[p].rhs) :
         IsAct(tables.productions[p].rhs[i]) =>
           tables.productions[p].lhs \in todo \/ \E k \in 1 .. Len(chain) : chain[k] = p
    /\ pc # "patch" => todo = {} /\ chain = <<>>
    /\ pc = "lr" => /\ tables.Goal_symbol # NULL
                    /\ Len(tables.symbols[tables.Goal_symbol].productions) <= 1

\* `first' has all that FIRST by definition asks for, in the productions as they are now,
TrueClosed(G, F) ==
  \A A \in G.nonterms : \A p \in ProductionsOf(G, A) :
    TrueOfProduction(WithFirst(G, F), p) \subseteq F[A]

\* and nothing that the code's rule would not bring.
FirstHolds ==
  /\ first \in [DOMAIN first -> SUBSET (0 .. tables.Cur_term + 1)]
  /\ pc \in PatchPlaces =>
       LET G == GrammarOf(tables, first)
       IN /\ first \in FirstFamilies(G)
          /\ TrueClosed(G, first)
          /\ \A F \in FirstFamilies(G) : Closed(G, F) => Below(G, first, F)

IInv == Sound(tables) /\ AtPlace /\ BeforeFirst /\ ToPatch /\ FirstHolds

----------------------------------------------------------------------------
(***************************************************************************)
(* The functions of acts.c keep the tables sound.                          *)
(***************************************************************************)
LEMMA Limits ==
  /\ MAXTERM \in 1 .. 254 /\ MAXNONTERM \in 256 .. 511
  /\ MAXPROD \in Nat /\ MAXRHS \in Nat
  /\ MINNONTERM = 256 /\ MINACT = 512 /\ NULL = 0
  BY LimitsAssumption DEF MINNONTERM, MINACT, NULL

\* The tables a call leaves with the same symbols and productions.
Alike(t, u) ==
  /\ Numbers(u)
  /\ u.Cur_term = t.Cur_term
  /\ u.Cur_nonterm = t.Cur_nonterm
  /\ u.Cur_act = t.Cur_act
  /\ u.Num_productions = t.Num_productions
  /\ u.productions = t.productions
  /\ DOMAIN u.symbols = DOMAIN t.symbols
  /\ \A v \in DOMAIN t.symbols : /\ DOMAIN u.symbols[v] = SymbolFields
                                 /\ u.symbols[v].productions = t.symbols[v].productions

LEMMA AlikeSound ==
  ASSUME NEW t, Sound(t), NEW u, Alike(t, u)
  PROVE  Sound(u)
<1>1. SymbolsHold(u)
  BY DEF Alike, Sound, SymbolsHold, Values
<1>2. ProductionsHold(u)
  BY DEF Alike, Sound, ProductionsHold, IsProduction
<1>3. ActionsOnce(u)
  BY DEF Alike, Sound, ActionsOnce
<1>4. Linked(u)
  BY DEF Alike, Sound, Linked, IsChain
<1>. QED
  BY <1>1, <1>2, <1>3, <1>4 DEF Alike, Sound

\* What the phases look at stays as it is.
Steady(t, u) ==
  /\ u.lhs = t.lhs
  /\ u.rhs = t.rhs
  /\ u.Goal_symbol = t.Goal_symbol
  /\ u.Goal_symbol_is_next = t.Goal_symbol_is_next
  /\ u.Num_productions = t.Num_productions
  /\ \A p \in 0 .. t.Num_productions - 1 : u.productions[p].lhs = t.productions[p].lhs
  /\ u.Cur_nonterm >= t.Cur_nonterm

LEMMA SteadyPhase ==
  ASSUME NEW t, NEW u, Sound(t), Sound(u), Steady(t, u), NEW place, Phase(t, place),
         u.status = "run"
  PROVE  Phase(u, place)
<1>1. /\ t.Cur_nonterm \in Int /\ u.Cur_nonterm \in Int /\ u.Cur_nonterm >= t.Cur_nonterm
      /\ t.Num_productions \in Nat
  BY DEF Sound, Numbers, Steady, MINNONTERM
<1>2. GoalKept(t) => GoalKept(u)
  BY <1>1 DEF GoalKept, Steady
<1>3. BeforeRules(t) => BeforeRules(u)
  BY DEF BeforeRules, Steady
<1>4. InBody(t) => InBody(u)
  BY <1>2 DEF InBody, Steady
<1>5. InRhs(t) => InRhs(u)
  BY <1>2 DEF InRhs, Steady
<1>. QED
  BY <1>2, <1>3, <1>4, <1>5 DEF Phase

LEMMA SteadyItself ==
  ASSUME NEW t, Sound(t)
  PROVE  Steady(t, t)
  BY DEF Steady, Sound, Numbers, MINNONTERM

LEMMA NonFatalSound ==
  ASSUME NEW t, Sound(t)
  PROVE  /\ Sound(NonFatal(t)) /\ Steady(t, NonFatal(t))
         /\ NonFatal(t).status = t.status
         /\ NonFatal(t).symbols = t.symbols /\ NonFatal(t).productions = t.productions
<1>. DEFINE u == NonFatal(t)
<1>1. Alike(t, u)
  BY DEF Sound, Numbers, SymbolsHold, Alike, NonFatal, TableFields
<1>2. Steady(t, u) /\ u.status = t.status /\ u.symbols = t.symbols /\ u.productions = t.productions
  BY DEF Sound, Numbers, Steady, NonFatal, TableFields, MINNONTERM
<1>. HIDE DEF u
<1>3. Sound(u)
  BY <1>1, AlikeSound
<1>. QED
  BY <1>2, <1>3 DEF u

LEMMA FatalSound ==
  ASSUME NEW t, Sound(t)
  PROVE  /\ Sound(Fatal(t)) /\ Steady(t, Fatal(t))
         /\ Fatal(t).status = "exit"
         /\ Fatal(t).Cur_term = t.Cur_term
<1>. DEFINE u == Fatal(t)
<1>1. Alike(t, u)
  BY DEF Sound, Numbers, SymbolsHold, Alike, Fatal, TableFields
<1>2. Steady(t, u) /\ u.status = "exit" /\ u.Cur_term = t.Cur_term
  BY DEF Sound, Numbers, Steady, Fatal, TableFields, MINNONTERM
<1>. HIDE DEF u
<1>3. Sound(u)
  BY <1>1, AlikeSound
<1>. QED
  BY <1>2, <1>3 DEF u

LEMMA UndefinedSound ==
  ASSUME NEW t, Sound(t)
  PROVE  /\ Sound([t EXCEPT !.status = "undefined"])
         /\ [t EXCEPT !.status = "undefined"].status = "undefined"
         /\ [t EXCEPT !.status = "undefined"].Cur_term = t.Cur_term
<1>. DEFINE u == [t EXCEPT !.status = "undefined"]
<1>1. Alike(t, u) /\ u.status = "undefined" /\ u.Cur_term = t.Cur_term
  BY DEF Sound, Numbers, SymbolsHold, Alike, TableFields
<1>. HIDE DEF u
<1>3. Sound(u)
  BY <1>1, AlikeSound
<1>. QED
  BY <1>1, <1>3 DEF u

LEMMA NewLevSound ==
  ASSUME NEW t, Sound(t), NEW how
  PROVE  /\ Sound(new_lev(t, how)) /\ Steady(t, new_lev(t, how))
         /\ new_lev(t, how).status = t.status
<1>. DEFINE u == new_lev(t, how)
<1>1. Alike(t, u)
  BY DEF Sound, Numbers, SymbolsHold, Alike, new_lev, TableFields
<1>2. Steady(t, u) /\ u.status = t.status
  BY DEF Sound, Numbers, Steady, new_lev, TableFields, MINNONTERM
<1>. HIDE DEF u
<1>3. Sound(u)
  BY <1>1, AlikeSound
<1>. QED
  BY <1>2, <1>3 DEF u

LEMMA NewFieldSound ==
  ASSUME NEW t, Sound(t), NEW name
  PROVE  /\ Sound(new_field(t, name)) /\ Steady(t, new_field(t, name))
         /\ new_field(t, name).status = t.status
<1>. DEFINE u == new_field(t, name)
<1>1. Alike(t, u)
  BY DEF Sound, Numbers, SymbolsHold, Alike, new_field, TableFields
<1>2. Steady(t, u) /\ u.status = t.status
  BY DEF Sound, Numbers, Steady, new_field, TableFields, MINNONTERM
<1>. HIDE DEF u
<1>3. Sound(u)
  BY <1>1, AlikeSound
<1>. QED
  BY <1>2, <1>3 DEF u

\* The %% in front of the rules.
LEMMA FirstSymSound ==
  ASSUME NEW t, Sound(t), BeforeRules(t)
  PROVE  /\ Sound(first_sym(t)) /\ InBody(first_sym(t))
         /\ first_sym(t).status = t.status
<1>. DEFINE u == first_sym(t)
<1>1. Alike(t, u)
  BY DEF Sound, Numbers, SymbolsHold, Alike, first_sym, TableFields
<1>2. InBody(u) /\ u.status = t.status
  <2>1. /\ u.lhs = t.lhs /\ u.Goal_symbol = t.Goal_symbol /\ u.Goal_symbol_is_next = TRUE
        /\ u.Num_productions = t.Num_productions /\ u.status = t.status
    BY DEF Sound, Numbers, first_sym, TableFields
  <2>. HIDE DEF u
  <2>2. t.lhs = NULL /\ t.Goal_symbol = NULL /\ t.Num_productions = 0
    BY DEF BeforeRules
  <2>3. u.Goal_symbol_is_next \in BOOLEAN /\ (u.Goal_symbol_is_next <=> u.lhs = NULL)
    BY <2>1, <2>2
  <2>4. u.lhs = NULL /\ u.Goal_symbol = NULL /\ u.Num_productions = 0
    BY <2>1, <2>2
  <2>5. GoalKept(u)
    BY <2>3, <2>4 DEF GoalKept
  <2>. QED
    BY <2>1, <2>4, <2>5 DEF InBody
<1>. HIDE DEF u
<1>3. Sound(u)
  BY <1>1, AlikeSound
<1>. QED
  BY <1>2, <1>3 DEF u

\* findsym() gives a symbol of the table that is no action, or NULL.
LEMMA FoundFacts ==
  ASSUME NEW t, Sound(t), NEW name
  PROVE  /\ Found(t, name) # NULL =>
              /\ Found(t, name) \in DOMAIN t.symbols
              /\ Found(t, name) \in 1 .. t.Cur_term \cup MINNONTERM .. t.Cur_nonterm
              /\ t.symbols[Found(t, name)].name = name
         /\ (\E v \in DOMAIN t.symbols : ~IsAct(v) /\ t.symbols[v].name = name)
              => Found(t, name) # NULL
<1>1. /\ DOMAIN t.symbols = Values(t) /\ t.Cur_term \in 0 .. MAXTERM
      /\ t.Cur_nonterm \in MINNONTERM - 1 .. MAXNONTERM
  BY DEF Sound, Numbers, SymbolsHold
<1>2. \A v \in DOMAIN t.symbols : v # NULL
  BY <1>1, Limits DEF Values
<1>3. \A v \in DOMAIN t.symbols :
        ~IsAct(v) => v \in 1 .. t.Cur_term \cup MINNONTERM .. t.Cur_nonterm
  BY <1>1, Limits DEF Values, IsAct
<1>. QED
  BY <1>2, <1>3 DEF Found

\* The tables with one more symbol, which no production has anything to do with.
Extended(t, u, v) ==
  /\ Numbers(u)
  /\ u.productions = t.productions
  /\ u.Num_productions = t.Num_productions
  /\ u.Cur_nonterm >= t.Cur_nonterm
  /\ v \notin DOMAIN t.symbols
  /\ DOMAIN u.symbols = DOMAIN t.symbols \cup {v}
  /\ DOMAIN u.symbols = Values(u)
  /\ \A w \in DOMAIN t.symbols : /\ DOMAIN u.symbols[w] = SymbolFields
                                 /\ u.symbols[w].productions = t.symbols[w].productions
  /\ DOMAIN u.symbols[v] = SymbolFields
  /\ u.symbols[v].productions = <<>>

LEMMA LeftSides ==
  ASSUME NEW t, Sound(t), NEW p \in DOMAIN t.productions
  PROVE  /\ t.productions[p].lhs \in DOMAIN t.symbols
         /\ t.productions[p].lhs \in MINNONTERM .. t.Cur_nonterm
         /\ IsProduction(t, t.productions[p])
<1>1. IsProduction(t, t.productions[p])
  BY DEF Sound, ProductionsHold
<1>2. t.productions[p].lhs \in MINNONTERM .. t.Cur_nonterm
  BY <1>1 DEF IsProduction
<1>3. DOMAIN t.symbols = Values(t)
  BY DEF Sound, SymbolsHold
<1>. QED
  BY <1>1, <1>2, <1>3 DEF Values

LEMMA ExtendedSound ==
  ASSUME NEW t, Sound(t), NEW u, NEW v, Extended(t, u, v)
  PROVE  Sound(u)
<1>1. SymbolsHold(u)
  BY DEF Extended, SymbolsHold
<1>2. ProductionsHold(u)
  <2>1. /\ u.productions = t.productions /\ u.Num_productions = t.Num_productions
        /\ u.Cur_nonterm \in Int /\ t.Cur_nonterm \in Int /\ u.Cur_nonterm >= t.Cur_nonterm
        /\ DOMAIN t.symbols \subseteq DOMAIN u.symbols
    BY Limits DEF Extended, Sound, Numbers
  <2>2. \A prod : IsProduction(t, prod) => IsProduction(u, prod)
    BY <2>1, Limits DEF IsProduction
  <2>3. ProductionsHold(t)
    BY DEF Sound
  <2>. QED
    BY <2>1, <2>2, <2>3 DEF ProductionsHold
<1>3. ActionsOnce(u)
  BY DEF Extended, Sound, ActionsOnce
<1>4. Linked(u)
  <2>1. u.productions = t.productions
    BY DEF Extended
  <2>2. \A w, linked : IsChain(t, w, linked) => IsChain(u, w, linked)
    BY <2>1 DEF IsChain
  <2>3. IsChain(u, v, <<>>)
    <3>1. \A p \in DOMAIN t.productions : t.productions[p].lhs # v
      BY LeftSides DEF Extended
    <3>. QED
      BY <2>1, <3>1 DEF IsChain
  <2>4. Linked(t)
    BY DEF Sound
  <2>. QED
    BY <2>2, <2>3, <2>4 DEF Linked, Extended
<1>. QED
  BY <1>1, <1>2, <1>3, <1>4 DEF Sound, Extended

\* newsym(), addsym().
LEMMA AddSymbolFacts ==
  ASSUME NEW t, DOMAIN t = TableFields, NEW v, NEW name, NEW field, NEW set,
         v \notin DOMAIN t.symbols
  PROVE  LET u == AddSymbol(t, v, name, field, set)
         IN /\ DOMAIN u = TableFields
            /\ \A x \in TableFields \ {"symbols"} : u[x] = t[x]
            /\ DOMAIN u.symbols = DOMAIN t.symbols \cup {v}
            /\ \A w \in DOMAIN t.symbols : u.symbols[w] = t.symbols[w]
            /\ DOMAIN u.symbols[v] = SymbolFields
            /\ u.symbols[v].productions = <<>>
            /\ u.symbols[v].name = name
            /\ u.symbols[v].field = field
<1>. DEFINE record == [name |-> name, field |-> field, set |-> set, used |-> FALSE,
                       productions |-> <<>>]
            new == [w \in DOMAIN t.symbols \cup {v} |-> IF w = v THEN record ELSE t.symbols[w]]
            u == AddSymbol(t, v, name, field, set)
<1>1. u = [t EXCEPT !.symbols = new]
  BY DEF AddSymbol
<1>2. /\ DOMAIN record = SymbolFields /\ record.productions = <<>> /\ record.name = name
      /\ record.field = field
  BY DEF SymbolFields
<1>. HIDE DEF record, u
<1>3. /\ DOMAIN new = DOMAIN t.symbols \cup {v} /\ new[v] = record
      /\ \A w \in DOMAIN t.symbols : new[w] = t.symbols[w]
  OBVIOUS
<1>. HIDE DEF new
<1>4. /\ DOMAIN u = TableFields /\ u.symbols = new
      /\ \A x \in TableFields \ {"symbols"} : u[x] = t[x]
  BY <1>1 DEF TableFields
<1>. QED
  BY <1>2, <1>3, <1>4 DEF u

\* newsym() for a terminal, a nonterminal or an action: the value is a new one.
WithTerm(t, name, field) ==
  AddSymbol([t EXCEPT !.Cur_term = @ + 1], t.Cur_term + 1, name, field, TRUE)

WithNonterm(t, name, field) ==
  AddSymbol([t EXCEPT !.Cur_nonterm = @ + 1], t.Cur_nonterm + 1, name, field, FALSE)

WithAct(t, name, field) ==
  AddSymbol([t EXCEPT !.Cur_act = @ + 1], t.Cur_act + 1, name, field, FALSE)

LEMMA TermAdded ==
  ASSUME NEW t, Sound(t), t.Cur_term < MAXTERM, NEW name, NEW field
  PROVE  LET v == t.Cur_term + 1
             set == TRUE
            u == WithTerm(t, name, field)
         IN /\ Extended(t, u, v)
            /\ \A x \in TableFields \ {"symbols", "Cur_term"} : u[x] = t[x]
            /\ u.Cur_term = v /\ u.symbols[v].name = name /\ v \in 1 .. MAXTERM
<1>. DEFINE v == t.Cur_term + 1
            s == [t EXCEPT !.Cur_term = @ + 1]
            set == TRUE
            u == WithTerm(t, name, field)
<1>1. /\ DOMAIN t = TableFields /\ t.Cur_term \in 0 .. MAXTERM /\ DOMAIN t.symbols = Values(t)
      /\ t.Cur_nonterm \in MINNONTERM - 1 .. MAXNONTERM /\ Numbers(t)
      /\ \A w \in DOMAIN t.symbols : DOMAIN t.symbols[w] = SymbolFields
  BY DEF Sound, Numbers, SymbolsHold
<1>2. v \in 1 .. MAXTERM /\ v \notin DOMAIN t.symbols
  BY <1>1, Limits DEF Values
<1>3. /\ DOMAIN s = TableFields /\ s.symbols = t.symbols /\ s.Cur_term = v
      /\ \A x \in TableFields \ {"symbols", "Cur_term"} : s[x] = t[x]
  BY <1>1 DEF TableFields
<1>0. u = AddSymbol(s, v, name, field, set)
  BY DEF WithTerm, set
<1>. HIDE DEF s, u, set
<1>4. /\ DOMAIN u = TableFields
      /\ \A x \in TableFields \ {"symbols"} : u[x] = s[x]
      /\ DOMAIN u.symbols = DOMAIN t.symbols \cup {v}
      /\ \A w \in DOMAIN t.symbols : u.symbols[w] = t.symbols[w]
      /\ DOMAIN u.symbols[v] = SymbolFields
      /\ u.symbols[v].productions = <<>> /\ u.symbols[v].name = name
  BY <1>0, <1>2, <1>3, AddSymbolFacts
<1>5. u.Cur_term = v /\ \A x \in TableFields \ {"symbols", "Cur_term"} : u[x] = t[x]
  BY <1>3, <1>4 DEF TableFields
<1>6. /\ u.Cur_nonterm = t.Cur_nonterm /\ u.Cur_act = t.Cur_act
      /\ u.productions = t.productions /\ u.Num_productions = t.Num_productions
      /\ u.yynerrs = t.yynerrs /\ u.status = t.status
  BY <1>5 DEF TableFields
<1>7. Numbers(u)
  BY <1>1, <1>2, <1>4, <1>5, <1>6 DEF Numbers
<1>8. DOMAIN u.symbols = Values(u)
  BY <1>1, <1>2, <1>4, <1>5, <1>6, Limits DEF Values
<1>. HIDE DEF v
<1>9. Extended(t, u, v)
  BY <1>1, <1>2, <1>4, <1>6, <1>7, <1>8, Limits DEF Extended
<1>. QED
  BY <1>2, <1>4, <1>5, <1>9 DEF u, v

LEMMA NontermAdded ==
  ASSUME NEW t, Sound(t), t.Cur_nonterm < MAXNONTERM, NEW name, NEW field
  PROVE  LET v == t.Cur_nonterm + 1
             set == FALSE
            u == WithNonterm(t, name, field)
         IN /\ Extended(t, u, v)
            /\ \A x \in TableFields \ {"symbols", "Cur_nonterm"} : u[x] = t[x]
            /\ u.Cur_nonterm = v /\ u.symbols[v].name = name /\ v \in MINNONTERM .. MAXNONTERM
<1>. DEFINE v == t.Cur_nonterm + 1
            s == [t EXCEPT !.Cur_nonterm = @ + 1]
            set == FALSE
            u == WithNonterm(t, name, field)
<1>1. /\ DOMAIN t = TableFields /\ t.Cur_term \in 0 .. MAXTERM /\ DOMAIN t.symbols = Values(t)
      /\ t.Cur_nonterm \in MINNONTERM - 1 .. MAXNONTERM /\ Numbers(t)
      /\ \A w \in DOMAIN t.symbols : DOMAIN t.symbols[w] = SymbolFields
  BY DEF Sound, Numbers, SymbolsHold
<1>2. v \in MINNONTERM .. MAXNONTERM /\ v \notin DOMAIN t.symbols
  BY <1>1, Limits DEF Values
<1>3. /\ DOMAIN s = TableFields /\ s.symbols = t.symbols /\ s.Cur_nonterm = v
      /\ \A x \in TableFields \ {"symbols", "Cur_nonterm"} : s[x] = t[x]
  BY <1>1 DEF TableFields
<1>0. u = AddSymbol(s, v, name, field, set)
  BY DEF WithNonterm, set
<1>. HIDE DEF s, u, set
<1>4. /\ DOMAIN u = TableFields
      /\ \A x \in TableFields \ {"symbols"} : u[x] = s[x]
      /\ DOMAIN u.symbols = DOMAIN t.symbols \cup {v}
      /\ \A w \in DOMAIN t.symbols : u.symbols[w] = t.symbols[w]
      /\ DOMAIN u.symbols[v] = SymbolFields
      /\ u.symbols[v].productions = <<>> /\ u.symbols[v].name = name
  BY <1>0, <1>2, <1>3, AddSymbolFacts
<1>5. u.Cur_nonterm = v /\ \A x \in TableFields \ {"symbols", "Cur_nonterm"} : u[x] = t[x]
  BY <1>3, <1>4 DEF TableFields
<1>6. /\ u.Cur_term = t.Cur_term /\ u.Cur_act = t.Cur_act
      /\ u.productions = t.productions /\ u.Num_productions = t.Num_productions
      /\ u.yynerrs = t.yynerrs /\ u.status = t.status
  BY <1>5 DEF TableFields
<1>7. Numbers(u)
  BY <1>1, <1>2, <1>4, <1>5, <1>6, Limits DEF Numbers
<1>8. DOMAIN u.symbols = Values(u)
  BY <1>1, <1>2, <1>4, <1>5, <1>6, Limits DEF Values
<1>10. u.Cur_nonterm >= t.Cur_nonterm
  BY <1>1, <1>5, Limits
<1>. HIDE DEF v
<1>9. Extended(t, u, v)
  BY <1>1, <1>2, <1>4, <1>6, <1>7, <1>8, <1>10, Limits DEF Extended
<1>. QED
  BY <1>2, <1>4, <1>5, <1>9 DEF u, v

LEMMA ActAdded ==
  ASSUME NEW t, Sound(t), NEW name, NEW field
  PROVE  LET v == t.Cur_act + 1
             set == FALSE
            u == WithAct(t, name, field)
         IN /\ Extended(t, u, v)
            /\ \A x \in TableFields \ {"symbols", "Cur_act"} : u[x] = t[x]
            /\ u.Cur_act = v /\ IsAct(v) /\ v \in Nat
<1>. DEFINE v == t.Cur_act + 1
            s == [t EXCEPT !.Cur_act = @ + 1]
            set == FALSE
            u == WithAct(t, name, field)
<1>1. /\ DOMAIN t = TableFields /\ t.Cur_term \in 0 .. MAXTERM /\ DOMAIN t.symbols = Values(t)
      /\ t.Cur_nonterm \in MINNONTERM - 1 .. MAXNONTERM /\ Numbers(t)
      /\ t.Cur_act \in Nat /\ t.Cur_act >= MINACT - 1
      /\ \A w \in DOMAIN t.symbols : DOMAIN t.symbols[w] = SymbolFields
  BY DEF Sound, Numbers, SymbolsHold
<1>2. v \in Nat /\ v >= MINACT /\ v \notin DOMAIN t.symbols
  BY <1>1, Limits DEF Values
<1>3. /\ DOMAIN s = TableFields /\ s.symbols = t.symbols /\ s.Cur_act = v
      /\ \A x \in TableFields \ {"symbols", "Cur_act"} : s[x] = t[x]
  BY <1>1 DEF TableFields
<1>0. u = AddSymbol(s, v, name, field, set)
  BY DEF WithAct, set
<1>. HIDE DEF s, u, set
<1>4. /\ DOMAIN u = TableFields
      /\ \A x \in TableFields \ {"symbols"} : u[x] = s[x]
      /\ DOMAIN u.symbols = DOMAIN t.symbols \cup {v}
      /\ \A w \in DOMAIN t.symbols : u.symbols[w] = t.symbols[w]
      /\ DOMAIN u.symbols[v] = SymbolFields
      /\ u.symbols[v].productions = <<>> /\ u.symbols[v].name = name
  BY <1>0, <1>2, <1>3, AddSymbolFacts
<1>5. u.Cur_act = v /\ \A x \in TableFields \ {"symbols", "Cur_act"} : u[x] = t[x]
  BY <1>3, <1>4 DEF TableFields
<1>6. /\ u.Cur_term = t.Cur_term /\ u.Cur_nonterm = t.Cur_nonterm
      /\ u.productions = t.productions /\ u.Num_productions = t.Num_productions
      /\ u.yynerrs = t.yynerrs /\ u.status = t.status
  BY <1>5 DEF TableFields
<1>7. Numbers(u)
  BY <1>1, <1>2, <1>4, <1>5, <1>6, Limits DEF Numbers
<1>8. DOMAIN u.symbols = Values(u)
  BY <1>1, <1>2, <1>4, <1>5, <1>6, Limits DEF Values
<1>. HIDE DEF v
<1>9. Extended(t, u, v)
  BY <1>1, <1>2, <1>4, <1>6, <1>7, <1>8, Limits DEF Extended
<1>. QED
  BY <1>2, <1>4, <1>5, <1>9 DEF u, v, IsAct

\* A symbol more disturbs no phase.
LEMMA ExtendedSteady ==
  ASSUME NEW t, Sound(t), NEW u, NEW v, Extended(t, u, v),
         NEW X, X \subseteq {"symbols", "Cur_term", "Cur_nonterm", "Cur_act"},
         \A x \in TableFields \ X : u[x] = t[x]
  PROVE  /\ Sound(u) /\ Steady(t, u) /\ u.status = t.status /\ u.rhs = t.rhs
         /\ u.Goal_symbol_is_next = t.Goal_symbol_is_next
<1>1. /\ u.lhs = t.lhs /\ u.rhs = t.rhs /\ u.Goal_symbol = t.Goal_symbol
      /\ u.Goal_symbol_is_next = t.Goal_symbol_is_next /\ u.status = t.status
  BY DEF TableFields
<1>2. Sound(u)
  BY ExtendedSound
<1>. QED
  BY <1>1, <1>2 DEF Steady, Extended

LEMMA MakeTermSound ==
  ASSUME NEW t, Sound(t), t.status = "run", NEW name
  PROVE  /\ Sound(make_term(t, name)) /\ Steady(t, make_term(t, name))
         /\ make_term(t, name).status \in {"run", "exit"}
<1>. DEFINE full == WithTerm(t, name, t.Field_name)
<1>1. CASE name \notin CIdentifiers
  BY <1>1, NonFatalSound DEF make_term
<1>2. CASE name \in CIdentifiers /\ Found(t, name) # NULL
  <2>1. make_term(t, name) = t
    BY <1>2 DEF make_term
  <2>. QED
    BY <2>1, SteadyItself
<1>3. CASE name \in CIdentifiers /\ Found(t, name) = NULL /\ TermsFull(t)
  <2>1. make_term(t, name) = Fatal(t)
    BY <1>3 DEF make_term
  <2>. QED
    BY <2>1, FatalSound
<1>4. CASE name \in CIdentifiers /\ Found(t, name) = NULL /\ ~TermsFull(t)
  <2>1. make_term(t, name) = full
    BY <1>4 DEF make_term, WithTerm
  <2>2. t.Cur_term < MAXTERM
    BY <1>4, Limits DEF TermsFull, Sound, Numbers
  <2>3. /\ Extended(t, full, t.Cur_term + 1)
        /\ \A x \in TableFields \ {"symbols", "Cur_term"} : full[x] = t[x]
    BY <2>2, TermAdded
  <2>. HIDE DEF full
  <2>4. Sound(full) /\ Steady(t, full) /\ full.status = t.status
    BY <2>3, ExtendedSteady
  <2>. QED
    BY <2>1, <2>4
<1>. QED
  BY <1>1, <1>2, <1>3, <1>4

\* new_nonterm() on a symbol of the table.
LEMMA InitNontermSound ==
  ASSUME NEW t, Sound(t), NEW v \in DOMAIN t.symbols
  PROVE  LET u == InitNonterm(t, v, TRUE)
         IN /\ Alike(t, u) /\ u.status = t.status
            /\ u.Goal_symbol = (IF t.Goal_symbol_is_next THEN v ELSE t.Goal_symbol)
            /\ t.Goal_symbol_is_next => u.Goal_symbol_is_next = FALSE
            /\ ~t.Goal_symbol_is_next => u.Goal_symbol_is_next = t.Goal_symbol_is_next
            /\ u.lhs = v
            /\ u.rhs = NULL
            /\ \A w \in DOMAIN t.symbols : u.symbols[w].name = t.symbols[w].name
<1>. DEFINE goal == IF t.Goal_symbol_is_next
                    THEN [t EXCEPT !.Goal_symbol = v, !.Goal_symbol_is_next = FALSE]
                    ELSE t
            u == InitNonterm(t, v, TRUE)
<1>1. /\ DOMAIN t = TableFields /\ Numbers(t)
      /\ \A w \in DOMAIN t.symbols : DOMAIN t.symbols[w] = SymbolFields
  BY DEF Sound, Numbers, SymbolsHold
<1>2. /\ DOMAIN goal = TableFields
      /\ \A x \in TableFields \ {"Goal_symbol", "Goal_symbol_is_next"} : goal[x] = t[x]
      /\ goal.Goal_symbol = (IF t.Goal_symbol_is_next THEN v ELSE t.Goal_symbol)
      /\ t.Goal_symbol_is_next => goal.Goal_symbol_is_next = FALSE
      /\ ~t.Goal_symbol_is_next => goal.Goal_symbol_is_next = t.Goal_symbol_is_next
  BY <1>1 DEF TableFields
<1>3. u = [goal EXCEPT !.lhs = v, !.rhs = NULL, !.symbols[v].set = TRUE]
  BY DEF InitNonterm
<1>. HIDE DEF goal, u
<1>4. goal.symbols = t.symbols /\ goal.lhs = t.lhs /\ goal.rhs = t.rhs
  BY <1>2 DEF TableFields
<1>5. /\ DOMAIN u = TableFields
      /\ \A x \in TableFields \ {"lhs", "rhs", "symbols"} : u[x] = goal[x]
      /\ u.lhs = v
      /\ u.rhs = NULL
      /\ u.symbols = [t.symbols EXCEPT ![v].set = TRUE]
  BY <1>2, <1>3, <1>4 DEF TableFields
<1>6. /\ DOMAIN u.symbols = DOMAIN t.symbols
      /\ \A w \in DOMAIN t.symbols : /\ DOMAIN u.symbols[w] = SymbolFields
                                     /\ u.symbols[w].productions = t.symbols[w].productions
                                     /\ u.symbols[w].name = t.symbols[w].name
  BY <1>1, <1>5 DEF SymbolFields
<1>7. /\ u.Cur_term = t.Cur_term /\ u.Cur_nonterm = t.Cur_nonterm /\ u.Cur_act = t.Cur_act
      /\ u.productions = t.productions /\ u.Num_productions = t.Num_productions
      /\ u.yynerrs = t.yynerrs /\ u.status = t.status
      /\ u.Goal_symbol = goal.Goal_symbol /\ u.Goal_symbol_is_next = goal.Goal_symbol_is_next
  BY <1>2, <1>5 DEF TableFields
<1>8. Alike(t, u)
  BY <1>1, <1>5, <1>6, <1>7 DEF Alike, Numbers
<1>. QED
  BY <1>2, <1>5, <1>6, <1>7, <1>8 DEF u

\* A name in a definition or on a right-hand side.
LEMMA NewNontermSound ==
  ASSUME NEW t, Sound(t), t.status = "run", t.Goal_symbol_is_next = FALSE, NEW name
  PROVE  LET u == new_nonterm(t, name, FALSE)
         IN /\ Sound(u) /\ Steady(t, u)
            /\ u.status \in {"run", "exit"}
            /\ u.productions = t.productions
            /\ Found(t, name) = NULL /\ u.status = "run" => Found(u, name) # NULL
<1>. DEFINE v == Found(t, name)
            w == t.Cur_nonterm + 1
            s == WithNonterm(t, name, t.Field_name)
            u == new_nonterm(t, name, FALSE)
<1>0. \A r, x : ~r.Goal_symbol_is_next => InitNonterm(r, x, FALSE) = r
  BY DEF InitNonterm
<1>1. CASE v # NULL /\ ~IsNonterm(v)
  <2>1. u = NonFatal(t)
    BY <1>1 DEF new_nonterm
  <2>. QED
    BY <1>1, <2>1, NonFatalSound
<1>2. CASE v = NULL /\ t.Cur_nonterm >= MAXNONTERM
  <2>1. u = Fatal(t)
    BY <1>2 DEF new_nonterm
  <2>2. Fatal(t).productions = t.productions
    BY DEF Fatal, Sound, Numbers, TableFields
  <2>. QED
    BY <2>1, <2>2, FatalSound
<1>3. CASE v # NULL /\ IsNonterm(v)
  <2>1. u = t
    BY <1>0, <1>3, Limits DEF new_nonterm
  <2>. QED
    BY <1>3, <2>1, SteadyItself
<1>4. CASE v = NULL /\ ~(t.Cur_nonterm >= MAXNONTERM)
  <2>1. u = InitNonterm(s, w, FALSE)
    BY <1>4 DEF new_nonterm, WithNonterm, IsNonterm, NULL, MINNONTERM
  <2>2. t.Cur_nonterm < MAXNONTERM
    BY <1>4, Limits DEF Sound, Numbers
  <2>3. /\ Extended(t, s, w) /\ s.symbols[w].name = name /\ w \in MINNONTERM .. MAXNONTERM
        /\ \A x \in TableFields \ {"symbols", "Cur_nonterm"} : s[x] = t[x]
    BY <2>2, NontermAdded
  <2>. HIDE DEF s, w, u
  <2>4. /\ Sound(s) /\ Steady(t, s) /\ s.status = t.status
        /\ s.Goal_symbol_is_next = t.Goal_symbol_is_next
    BY <2>3, ExtendedSteady
  <2>5. u = s
    BY <1>0, <2>1, <2>4
  <2>6. w \in DOMAIN s.symbols /\ ~IsAct(w)
    BY <2>3, Limits DEF Extended, IsAct
  <2>7. Found(s, name) # NULL
    BY <2>3, <2>4, <2>6, FoundFacts
  <2>8. s.productions = t.productions
    BY <2>3 DEF Extended
  <2>. QED
    BY <2>4, <2>5, <2>7, <2>8 DEF u
<1>. QED
  BY <1>1, <1>2, <1>3, <1>4

\* A left-hand side.
LEMMA LeftHandSideSound ==
  ASSUME NEW t, Sound(t), t.status = "run", InBody(t), NEW name
  PROVE  LET u == new_nonterm(t, name, TRUE)
         IN Sound(u) /\ u.status \in {"run", "exit"} /\ (u.status = "run" => GoalKept(u))
<1>. DEFINE v == Found(t, name)
            w == t.Cur_nonterm + 1
            s == WithNonterm(t, name, t.Field_name)
            u == new_nonterm(t, name, TRUE)
<1>0. ASSUME NEW r, Sound(r), r.status = "run", InBody(r),
             NEW x \in DOMAIN r.symbols, x \in MINNONTERM .. r.Cur_nonterm
      PROVE  LET q == InitNonterm(r, x, TRUE)
             IN Sound(q) /\ q.status = "run" /\ GoalKept(q)
  <2>. DEFINE q == InitNonterm(r, x, TRUE)
  <2>1. /\ Alike(r, q) /\ q.status = r.status
        /\ q.Goal_symbol = (IF r.Goal_symbol_is_next THEN x ELSE r.Goal_symbol)
        /\ r.Goal_symbol_is_next => q.Goal_symbol_is_next = FALSE
        /\ ~r.Goal_symbol_is_next => q.Goal_symbol_is_next = r.Goal_symbol_is_next
        /\ q.lhs = x
    BY <1>0, InitNontermSound
  <2>. HIDE DEF q
  <2>2. Sound(q)
    BY <1>0, <2>1, AlikeSound
  <2>3. /\ q.Num_productions = r.Num_productions /\ q.productions = r.productions
        /\ q.Cur_nonterm = r.Cur_nonterm
    BY <2>1 DEF Alike
  <2>4. x # NULL
    BY <1>0, Limits DEF Sound, Numbers
  <2>5. /\ r.Goal_symbol_is_next \in BOOLEAN
        /\ r.Goal_symbol_is_next <=> r.lhs = NULL
    BY <1>0 DEF InBody, GoalKept
  <2>6. q.Goal_symbol_is_next \in BOOLEAN /\ (q.Goal_symbol_is_next <=> q.lhs = NULL)
    BY <2>1, <2>4, <2>5
  <2>7. /\ r.lhs # NULL => r.Num_productions > 0
        /\ r.lhs # NULL => r.Goal_symbol \in MINNONTERM .. r.Cur_nonterm
        /\ r.Num_productions > 0 => r.lhs # NULL /\ r.Goal_symbol = r.productions[0].lhs
        /\ r.Num_productions \in Nat
    BY <1>0 DEF InBody, GoalKept, Sound, Numbers
  <2>8. GoalKept(q)
    <3>1. CASE r.lhs = NULL
      BY <1>0, <2>1, <2>3, <2>4, <2>5, <2>6, <2>7, <3>1 DEF GoalKept
    <3>2. CASE r.lhs # NULL
      BY <1>0, <2>1, <2>3, <2>4, <2>5, <2>6, <2>7, <3>2 DEF GoalKept
    <3>. QED
      BY <3>1, <3>2
  <2>. QED
    BY <1>0, <2>1, <2>2, <2>8 DEF q
<1>1. CASE v # NULL /\ ~IsNonterm(v)
  <2>1. u = NonFatal(t)
    BY <1>1 DEF new_nonterm
  <2>2. Sound(u) /\ Steady(t, u) /\ u.status = "run"
    BY <2>1, NonFatalSound
  <2>. HIDE DEF u
  <2>3. GoalKept(u)
    BY <2>2 DEF InBody, Steady, GoalKept, Sound, Numbers
  <2>. QED
    BY <2>2, <2>3 DEF u
<1>2. CASE v = NULL /\ t.Cur_nonterm >= MAXNONTERM
  <2>1. u = Fatal(t)
    BY <1>2 DEF new_nonterm
  <2>. QED
    BY <2>1, FatalSound
<1>3. CASE v # NULL /\ IsNonterm(v)
  <2>1. u = InitNonterm(t, v, TRUE)
    BY <1>3 DEF new_nonterm
  <2>2. v \in DOMAIN t.symbols /\ v \in MINNONTERM .. t.Cur_nonterm
    BY <1>3, FoundFacts, Limits DEF IsNonterm, Sound, Numbers
  <2>. QED
    BY <1>0, <2>1, <2>2
<1>4. CASE v = NULL /\ ~(t.Cur_nonterm >= MAXNONTERM)
  <2>1. u = InitNonterm(s, w, TRUE)
    BY <1>4 DEF new_nonterm, WithNonterm, IsNonterm, NULL, MINNONTERM
  <2>2. t.Cur_nonterm < MAXNONTERM
    BY <1>4, Limits DEF Sound, Numbers
  <2>3. /\ Extended(t, s, w) /\ w \in MINNONTERM .. MAXNONTERM /\ s.Cur_nonterm = w
        /\ \A x \in TableFields \ {"symbols", "Cur_nonterm"} : s[x] = t[x]
    BY <2>2, NontermAdded
  <2>. HIDE DEF s, w, u
  <2>4. /\ Sound(s) /\ Steady(t, s) /\ s.status = t.status
    BY <2>3, ExtendedSteady
  <2>5. w \in DOMAIN s.symbols /\ w \in MINNONTERM .. s.Cur_nonterm
    BY <2>3, Limits DEF Extended
  <2>6. InBody(s)
    <3>1. Phase(t, "body")
      BY DEF Phase, AllPlaces, DefinitionsPlaces, BodyPlaces, RhsPlaces
    <3>2. Phase(s, "body")
      BY <2>4, <3>1, SteadyPhase
    <3>. QED
      BY <3>2 DEF Phase, BodyPlaces
  <2>. QED
    BY <1>0, <2>1, <2>4, <2>5, <2>6 DEF u
<1>. QED
  BY <1>1, <1>2, <1>3, <1>4

\* The current production gets another length, precedence or right-hand side.
Touched(t, u) ==
  /\ Numbers(u)
  /\ u.Cur_term = t.Cur_term
  /\ u.Cur_nonterm = t.Cur_nonterm
  /\ u.Cur_act = t.Cur_act
  /\ u.Num_productions = t.Num_productions
  /\ DOMAIN u.symbols = DOMAIN t.symbols
  /\ \A v \in DOMAIN t.symbols : /\ DOMAIN u.symbols[v] = SymbolFields
                                 /\ u.symbols[v].productions = t.symbols[v].productions
  /\ DOMAIN u.productions = DOMAIN t.productions
  /\ t.rhs \in DOMAIN t.productions
  /\ \A p \in DOMAIN t.productions \ {t.rhs} : u.productions[p] = t.productions[p]
  /\ u.productions[t.rhs].lhs = t.productions[t.rhs].lhs
  /\ IsProduction(t, u.productions[t.rhs])

LEMMA TouchedSound ==
  ASSUME NEW t, Sound(t), NEW u, Touched(t, u), ActionsOnce(u)
  PROVE  Sound(u)
<1>1. SymbolsHold(u)
  BY DEF Touched, Sound, SymbolsHold, Values
<1>2. ProductionsHold(u)
  <2>1. \A prod : IsProduction(t, prod) => IsProduction(u, prod)
    BY DEF Touched, IsProduction
  <2>2. ProductionsHold(t)
    BY DEF Sound
  <2>. QED
    BY <2>1, <2>2 DEF Touched, ProductionsHold
<1>3. \A p \in DOMAIN t.productions : u.productions[p].lhs = t.productions[p].lhs
  BY DEF Touched
<1>4. Linked(u)
  <2>1. DOMAIN u.productions = DOMAIN t.productions
    BY DEF Touched
  <2>2. \A v : {p \in DOMAIN u.productions : u.productions[p].lhs = v}
                = {p \in DOMAIN t.productions : t.productions[p].lhs = v}
    BY <1>3, <2>1
  <2>3. \A v, linked : IsChain(t, v, linked) => IsChain(u, v, linked)
    BY <2>2 DEF IsChain
  <2>4. Linked(t)
    BY DEF Sound
  <2>. QED
    BY <2>3, <2>4 DEF Linked, Touched
<1>. QED
  BY <1>1, <1>2, <1>4 DEF Sound, Touched

\* The same right-hand side, or one with a symbol more that stands nowhere if it is an action.
Nowhere(t, v) ==
  \A p \in DOMAIN t.productions : \A i \in 1 .. Len(t.productions[p].rhs) :
    t.productions[p].rhs[i] # v

SymbolMore(t, u, v) ==
  /\ u.productions[t.rhs].rhs = Append(t.productions[t.rhs].rhs, v)
  /\ IsAct(v) => Nowhere(t, v)

LEMMA StillOnce ==
  ASSUME NEW t, Sound(t), NEW u, Touched(t, u),
         \/ u.productions[t.rhs].rhs = t.productions[t.rhs].rhs
         \/ \E v \in Nat : SymbolMore(t, u, v)
  PROVE  ActionsOnce(u)
<1>1. \A p \in DOMAIN t.productions \ {t.rhs} : u.productions[p] = t.productions[p]
  BY DEF Touched
<1>2. DOMAIN u.productions = DOMAIN t.productions /\ t.rhs \in DOMAIN t.productions
  BY DEF Touched
<1>3. ActionsOnce(t) /\ \A p \in DOMAIN t.productions : t.productions[p].rhs \in Seq(Nat)
  BY DEF Sound, ProductionsHold, IsProduction
<1>4. CASE u.productions[t.rhs].rhs = t.productions[t.rhs].rhs
  <2>1. \A p \in DOMAIN t.productions : u.productions[p].rhs = t.productions[p].rhs
    BY <1>1, <1>4
  <2>2. SUFFICES ASSUME NEW p \in DOMAIN t.productions, NEW q \in DOMAIN t.productions,
                        NEW i \in 1 .. Len(u.productions[p].rhs),
                        NEW j \in 1 .. Len(u.productions[q].rhs),
                        IsAct(u.productions[p].rhs[i]),
                        u.productions[p].rhs[i] = u.productions[q].rhs[j]
                 PROVE  p = q /\ i = j
    BY <1>2 DEF ActionsOnce
  <2>3. u.productions[p].rhs = t.productions[p].rhs /\ u.productions[q].rhs = t.productions[q].rhs
    BY <2>1
  <2>. QED
    BY <1>3, <2>2, <2>3 DEF ActionsOnce
<1>5. ASSUME NEW v \in Nat, SymbolMore(t, u, v)
      PROVE  ActionsOnce(u)
  <2>. DEFINE old == t.productions[t.rhs].rhs
              new == u.productions[t.rhs].rhs
  <2>1. old \in Seq(Nat) /\ new = Append(old, v)
    BY <1>2, <1>3, <1>5 DEF SymbolMore
  <2>. HIDE DEF old, new
  <2>2. /\ Len(new) = Len(old) + 1 /\ Len(old) \in Nat /\ new[Len(new)] = v
        /\ \A i \in 1 .. Len(old) : new[i] = old[i]
    <3>1. Len(Append(old, v)) = Len(old) + 1 /\ Len(old) \in Nat
      BY <2>1
    <3>2. Append(old, v)[Len(old) + 1] = v
      BY <2>1
    <3>3. \A i \in 1 .. Len(old) : Append(old, v)[i] = old[i]
      BY <2>1
    <3>. QED
      BY <2>1, <3>1, <3>2, <3>3
  <2>3. SUFFICES ASSUME NEW p \in DOMAIN t.productions, NEW q \in DOMAIN t.productions,
                        NEW i \in 1 .. Len(u.productions[p].rhs),
                        NEW j \in 1 .. Len(u.productions[q].rhs),
                        IsAct(u.productions[p].rhs[i]),
                        u.productions[p].rhs[i] = u.productions[q].rhs[j]
                 PROVE  p = q /\ i = j
    BY <1>2 DEF ActionsOnce
  <2>. DEFINE Old(r, k) == k \in 1 .. Len(t.productions[r].rhs)
                           /\ u.productions[r].rhs[k] = t.productions[r].rhs[k]
              New(r, k) == r = t.rhs /\ k = Len(old) + 1 /\ u.productions[r].rhs[k] = v
  <2>4. \A r \in DOMAIN t.productions : \A k \in 1 .. Len(u.productions[r].rhs) :
          Old(r, k) \/ New(r, k)
    <3>. SUFFICES ASSUME NEW r \in DOMAIN t.productions, NEW k \in 1 .. Len(u.productions[r].rhs)
                  PROVE  Old(r, k) \/ New(r, k)
      OBVIOUS
    <3>1. CASE r = t.rhs
      <4>1. u.productions[r].rhs = new /\ t.productions[r].rhs = old
        BY <3>1 DEF new, old
      <4>2. k \in 1 .. Len(new)
        BY <4>1
      <4>. QED
        BY <2>2, <3>1, <4>1, <4>2
    <3>2. CASE r # t.rhs
      BY <1>1, <3>2
    <3>. QED
      BY <3>1, <3>2
  <2>5. CASE Old(p, i) /\ Old(q, j)
    <3>1. /\ i \in 1 .. Len(t.productions[p].rhs) /\ j \in 1 .. Len(t.productions[q].rhs)
          /\ IsAct(t.productions[p].rhs[i]) /\ t.productions[p].rhs[i] = t.productions[q].rhs[j]
      BY <2>3, <2>5
    <3>. QED
      BY <1>3, <3>1 DEF ActionsOnce
  <2>6. CASE Old(p, i) /\ New(q, j)
    BY <1>5, <2>3, <2>6 DEF SymbolMore, Nowhere
  <2>7. CASE New(p, i) /\ Old(q, j)
    BY <1>5, <2>3, <2>7 DEF SymbolMore, Nowhere
  <2>8. CASE New(p, i) /\ New(q, j)
    <3>1. p = t.rhs /\ q = t.rhs /\ i = Len(old) + 1 /\ j = Len(old) + 1
      BY <2>8
    <3>. QED
      BY <3>1
  <2>9. (Old(p, i) \/ New(p, i)) /\ (Old(q, j) \/ New(q, j))
    BY <2>4
  <2>. HIDE DEF Old, New
  <2>. QED
    BY <2>5, <2>6, <2>7, <2>8, <2>9
<1>. QED
  BY <1>4, <1>5

\* prec(): only the precedence of the current production changes.
LEMMA PrecSound ==
  ASSUME NEW t, Sound(t), t.status = "run", InRhs(t), NEW name
  PROVE  Sound(prec(t, name)) /\ Steady(t, prec(t, name)) /\ prec(t, name).status = "run"
<1>1. ASSUME NEW level
      PROVE  LET u == [t EXCEPT !.productions[t.rhs].prec = level]
             IN Sound(u) /\ Steady(t, u) /\ u.status = "run"
  <2>. DEFINE prod == t.productions[t.rhs]
              new  == [t.productions EXCEPT ![t.rhs].prec = level]
              u    == [t EXCEPT !.productions[t.rhs].prec = level]
  <2>1. DOMAIN t = TableFields /\ t.rhs \in DOMAIN t.productions /\ IsProduction(t, prod)
    BY DEF Sound, Numbers, InRhs, ProductionsHold
  <2>2. /\ DOMAIN u = TableFields /\ u.productions = new
        /\ \A x \in TableFields \ {"productions"} : u[x] = t[x]
    BY <2>1 DEF TableFields
  <2>3. /\ DOMAIN new = DOMAIN t.productions
        /\ \A p \in DOMAIN t.productions \ {t.rhs} : new[p] = t.productions[p]
        /\ DOMAIN new[t.rhs] = ProductionFields
        /\ new[t.rhs].lhs = prod.lhs /\ new[t.rhs].rhs = prod.rhs
        /\ new[t.rhs].rhs_len = prod.rhs_len
    BY <2>1 DEF IsProduction, ProductionFields
  <2>. HIDE DEF u, new, prod
  <2>4. /\ u.Cur_term = t.Cur_term /\ u.Cur_nonterm = t.Cur_nonterm /\ u.Cur_act = t.Cur_act
        /\ u.Num_productions = t.Num_productions /\ u.symbols = t.symbols
        /\ u.yynerrs = t.yynerrs /\ u.status = t.status /\ u.lhs = t.lhs /\ u.rhs = t.rhs
        /\ u.Goal_symbol = t.Goal_symbol /\ u.Goal_symbol_is_next = t.Goal_symbol_is_next
    BY <2>2 DEF TableFields
  <2>5. IsProduction(t, new[t.rhs])
    BY <2>1, <2>3 DEF IsProduction
  <2>6. Touched(t, u)
    BY <2>1, <2>2, <2>3, <2>4, <2>5 DEF Touched, Sound, Numbers, SymbolsHold, prod
  <2>7. Sound(u)
    BY <2>2, <2>3, <2>6, StillOnce, TouchedSound DEF prod
  <2>8. \A p \in DOMAIN t.productions : u.productions[p].lhs = t.productions[p].lhs
    BY <2>1, <2>2, <2>3 DEF prod
  <2>9. DOMAIN t.productions = 0 .. t.Num_productions - 1 /\ u.Cur_nonterm >= t.Cur_nonterm
    BY <2>4 DEF Sound, ProductionsHold, Numbers, MINNONTERM
  <2>10. Steady(t, u)
    BY <2>4, <2>8, <2>9 DEF Steady
  <2>. QED
    BY <2>4, <2>7, <2>10 DEF u
<1>2. \A level : /\ Sound([t EXCEPT !.productions[t.rhs].prec = level])
                 /\ Steady(t, [t EXCEPT !.productions[t.rhs].prec = level])
                 /\ [t EXCEPT !.productions[t.rhs].prec = level].status = "run"
  BY <1>1
<1>3. CASE name \in DOMAIN Numerals
  <2>1. prec(t, name) = [t EXCEPT !.productions[t.rhs].prec = Numerals[name]]
    BY <1>3 DEF prec
  <2>. DEFINE level == Numerals[name]
  <2>2. prec(t, name) = [t EXCEPT !.productions[t.rhs].prec = level]
    BY <2>1
  <2>. HIDE DEF level
  <2>. QED
    BY <1>1, <2>2
<1>4. CASE name \notin DOMAIN Numerals /\ ~IsTerm(Found(t, name))
  <2>1. prec(t, name) = NonFatal(t)
    BY <1>4 DEF prec
  <2>. QED
    BY <2>1, NonFatalSound
<1>5. CASE name \notin DOMAIN Numerals /\ IsTerm(Found(t, name))
  <2>1. prec(t, name) = [t EXCEPT !.productions[t.rhs].prec = t.Precedence[Found(t, name)].level]
    BY <1>5 DEF prec
  <2>. DEFINE level == t.Precedence[Found(t, name)].level
  <2>2. prec(t, name) = [t EXCEPT !.productions[t.rhs].prec = level]
    BY <2>1
  <2>. HIDE DEF level
  <2>. QED
    BY <1>1, <2>2
<1>. QED
  BY <1>3, <1>4, <1>5

\* prec_list()
LEMMA PrecListSound ==
  ASSUME NEW t, Sound(t), t.status = "run", NEW name
  PROVE  /\ Sound(prec_list(t, name)) /\ Steady(t, prec_list(t, name))
         /\ prec_list(t, name).status \in {"run", "exit"}
<1>. DEFINE known == IF Found(t, name) = NULL THEN make_term(t, name) ELSE t
            v     == Found(known, name)
            entry == [level |-> t.Prec_lev, assoc |-> t.Associativity]
            u     == [known EXCEPT !.Precedence[v] = entry]
<1>1. Sound(known) /\ Steady(t, known) /\ known.status \in {"run", "exit"}
  BY MakeTermSound, SteadyItself
<1>. HIDE DEF entry
<1>2. prec_list(t, name) =
        CASE known.status # "run" -> known
          [] known.status = "run" /\ ~IsTerm(v) -> NonFatal(known)
          [] OTHER -> u
  BY DEF prec_list, entry
<1>. HIDE DEF known, v
<1>3. ASSUME NEW r, Steady(known, r), Sound(r)
      PROVE  Steady(t, r)
  BY <1>1, <1>3 DEF Steady, Sound, Numbers, MINNONTERM
<1>4. CASE known.status # "run"
  <2>1. prec_list(t, name) = known
    BY <1>2, <1>4
  <2>. QED
    BY <1>1, <2>1
<1>5. CASE known.status = "run" /\ ~IsTerm(v)
  <2>1. prec_list(t, name) = NonFatal(known)
    BY <1>2, <1>5
  <2>2. Sound(NonFatal(known)) /\ Steady(known, NonFatal(known)) /\ NonFatal(known).status = "run"
    BY <1>1, <1>5, NonFatalSound
  <2>. QED
    BY <1>3, <2>1, <2>2
<1>6. CASE known.status = "run" /\ IsTerm(v)
  <2>1. prec_list(t, name) = u
    BY <1>2, <1>6
  <2>2. Alike(known, u)
    BY <1>1 DEF Sound, Numbers, SymbolsHold, Alike, TableFields
  <2>3. Steady(known, u) /\ u.status = "run"
    BY <1>1, <1>6 DEF Sound, Numbers, Steady, TableFields, MINNONTERM
  <2>. HIDE DEF u
  <2>4. Sound(u)
    BY <1>1, <2>2, AlikeSound
  <2>. QED
    BY <1>3, <2>1, <2>3, <2>4
<1>. QED
  BY <1>4, <1>5, <1>6

\* A production more, at the head of the chain of its left-hand side.
LEMMA NewRhsSound ==
  ASSUME NEW t, Sound(t), t.status = "run", GoalKept(t)
  PROVE  /\ Sound(new_rhs(t)) /\ new_rhs(t).status \in {"run", "exit", "undefined"}
         /\ new_rhs(t).status = "run" => InRhs(new_rhs(t))
<1>1. CASE t.lhs = NULL
  <2>1. new_rhs(t) = [t EXCEPT !.status = "undefined"]
    BY <1>1 DEF new_rhs
  <2>. QED
    BY <2>1, UndefinedSound
<1>2. CASE t.lhs # NULL /\ t.Num_productions >= MAXPROD
  <2>1. new_rhs(t) = Fatal(t)
    BY <1>2 DEF new_rhs
  <2>. QED
    BY <2>1, FatalSound
<1>3. CASE t.lhs # NULL /\ ~(t.Num_productions >= MAXPROD)
  <2>. DEFINE num   == t.Num_productions
              prod  == [lhs |-> t.lhs, rhs |-> <<>>, rhs_len |-> 0, prec |-> 0]
              prods == [p \in DOMAIN t.productions \cup {num} |->
                          IF p = num THEN prod ELSE t.productions[p]]
              syms  == [t.symbols EXCEPT ![t.lhs].productions = <<num>> \o @]
              u     == [t EXCEPT !.symbols = syms, !.productions = prods,
                                 !.Num_productions = num + 1, !.rhs = num]
  <2>1. new_rhs(t) = u
    BY <1>3 DEF new_rhs
  <2>2. /\ DOMAIN t = TableFields /\ num \in Nat
        /\ DOMAIN t.productions = 0 .. num - 1
        /\ t.lhs \in MINNONTERM .. t.Cur_nonterm
        /\ DOMAIN t.symbols = Values(t)
        /\ \A v \in DOMAIN t.symbols : DOMAIN t.symbols[v] = SymbolFields
    BY <1>3 DEF Sound, Numbers, SymbolsHold, ProductionsHold, GoalKept
  <2>3. t.lhs \in DOMAIN t.symbols
    BY <2>2 DEF Values
  <2>4. /\ prod.lhs = t.lhs /\ prod.rhs = <<>> /\ prod.rhs_len = 0
        /\ DOMAIN prod = ProductionFields
    BY DEF ProductionFields
  <2>. HIDE DEF prod
  <2>5. /\ DOMAIN prods = 0 .. num /\ prods[num] = prod
        /\ \A p \in 0 .. num - 1 : prods[p] = t.productions[p]
    BY <2>2
  <2>6. /\ DOMAIN syms = DOMAIN t.symbols
        /\ \A v \in DOMAIN t.symbols : DOMAIN syms[v] = SymbolFields
        /\ \A v \in DOMAIN t.symbols \ {t.lhs} : syms[v] = t.symbols[v]
        /\ syms[t.lhs].productions = <<num>> \o t.symbols[t.lhs].productions
    BY <2>2, <2>3 DEF SymbolFields
  <2>. HIDE DEF prods, syms
  <2>7. /\ DOMAIN u = TableFields /\ u.symbols = syms /\ u.productions = prods
        /\ u.Num_productions = num + 1 /\ u.rhs = num
        /\ \A x \in TableFields \ {"symbols", "productions", "Num_productions", "rhs"} : u[x] = t[x]
    BY <2>2 DEF TableFields
  <2>. HIDE DEF u, num
  <2>8. /\ u.Cur_term = t.Cur_term /\ u.Cur_nonterm = t.Cur_nonterm /\ u.Cur_act = t.Cur_act
        /\ u.yynerrs = t.yynerrs /\ u.status = t.status /\ u.lhs = t.lhs
        /\ u.Goal_symbol = t.Goal_symbol /\ u.Goal_symbol_is_next = t.Goal_symbol_is_next
    BY <2>7 DEF TableFields
  <2>9. Numbers(u)
    BY <2>2, <2>7, <2>8 DEF Sound, Numbers
  <2>10. SymbolsHold(u)
    BY <2>2, <2>6, <2>7, <2>8 DEF SymbolsHold, Values
  <2>11. ProductionsHold(u)
    <3>1. \A q : IsProduction(t, q) => IsProduction(u, q)
      BY <2>6, <2>7, <2>8 DEF IsProduction
    <3>2. IsProduction(u, prod)
      <4>1. <<>> \in Seq(Nat) /\ Len(<<>>) = 0 /\ 0 <= MAXRHS
        BY Limits
      <4>. QED
        BY <2>2, <2>4, <2>8, <4>1 DEF IsProduction
    <3>3. \A p \in 0 .. num - 1 : IsProduction(t, t.productions[p])
      BY DEF Sound, ProductionsHold, num
    <3>4. DOMAIN u.productions = 0 .. u.Num_productions - 1
      BY <2>2, <2>5, <2>7
    <3>5. \A p \in 0 .. u.Num_productions - 1 : p \in 0 .. num - 1 \/ p = num
      BY <2>2, <2>7
    <3>. QED
      BY <2>5, <2>7, <3>1, <3>2, <3>3, <3>4, <3>5 DEF ProductionsHold
  <2>12. ActionsOnce(u)
    <3>1. Len(u.productions[num].rhs) = 0
      BY <2>4, <2>5, <2>7
    <3>2. \A p \in DOMAIN u.productions : \A i \in 1 .. Len(u.productions[p].rhs) :
            p \in DOMAIN t.productions /\ u.productions[p] = t.productions[p]
      BY <2>2, <2>5, <2>7, <3>1
    <3>3. ActionsOnce(t)
      BY DEF Sound
    <3>. QED
      BY <3>2, <3>3 DEF ActionsOnce
  <2>13. Linked(u)
    <3>1. SUFFICES ASSUME NEW v \in DOMAIN t.symbols
                   PROVE  IsChain(u, v, syms[v].productions)
      BY <2>6, <2>7 DEF Linked
    <3>2. IsChain(t, v, t.symbols[v].productions)
      BY DEF Sound, Linked
    <3>. DEFINE old == t.symbols[v].productions
                Of(r, w) == {p \in DOMAIN r.productions : r.productions[p].lhs = w}
    <3>3. /\ old \in Seq(Nat) /\ {old[i] : i \in 1 .. Len(old)} = Of(t, v)
          /\ \A i, j \in 1 .. Len(old) : i < j => old[i] > old[j]
      BY <3>2 DEF IsChain
    <3>4. CASE v # t.lhs
      <4>1. Of(u, v) = Of(t, v)
        BY <2>2, <2>4, <2>5, <2>7, <3>4
      <4>2. syms[v].productions = old
        BY <2>6, <3>4
      <4>3. {old[i] : i \in 1 .. Len(old)} = Of(u, v)
        BY <3>3, <4>1
      <4>. HIDE DEF old
      <4>. QED
        BY <3>3, <4>2, <4>3 DEF IsChain
    <3>5. CASE v = t.lhs
      <4>. DEFINE new == <<num>> \o old
      <4>1. Of(u, v) = Of(t, v) \cup {num}
        BY <2>2, <2>4, <2>5, <2>7, <3>5
      <4>2. \A i \in 1 .. Len(old) : old[i] \in 0 .. num - 1
        <5>1. \A i \in 1 .. Len(old) : old[i] \in Of(t, v)
          BY <3>3
        <5>. QED
          BY <2>2, <5>1
      <4>. HIDE DEF old
      <4>3. /\ new \in Seq(Nat) /\ Len(new) = Len(old) + 1 /\ new[1] = num /\ Len(old) \in Nat
            /\ \A i \in 2 .. Len(new) : i - 1 \in 1 .. Len(old) /\ new[i] = old[i - 1]
            /\ \A i \in 1 .. Len(old) : i + 1 \in 2 .. Len(new) /\ new[i + 1] = old[i]
        BY <2>2, <3>3
      <4>. HIDE DEF new
      <4>4. {new[i] : i \in 1 .. Len(new)} = {old[i] : i \in 1 .. Len(old)} \cup {num}
        <5>1. ASSUME NEW x \in {new[i] : i \in 1 .. Len(new)}
              PROVE  x \in {old[i] : i \in 1 .. Len(old)} \cup {num}
          <6>1. PICK i \in 1 .. Len(new) : x = new[i]
            OBVIOUS
          <6>2. i = 1 \/ i \in 2 .. Len(new)
            OBVIOUS
          <6>. QED
            BY <4>3, <6>1, <6>2
        <5>2. ASSUME NEW x \in {old[i] : i \in 1 .. Len(old)} \cup {num}
              PROVE  x \in {new[i] : i \in 1 .. Len(new)}
          <6>1. 1 \in 1 .. Len(new) /\ \A i \in 2 .. Len(new) : i \in 1 .. Len(new)
            BY <4>3
          <6>2. CASE x = num
            BY <4>3, <6>1, <6>2
          <6>3. ASSUME NEW i \in 1 .. Len(old), x = old[i]
                PROVE  x \in {new[k] : k \in 1 .. Len(new)}
            BY <4>3, <6>1, <6>3
          <6>. QED
            BY <6>2, <6>3
        <5>. QED
          BY <5>1, <5>2
      <4>5. \A i, j \in 1 .. Len(new) : i < j => new[i] > new[j]
        <5>. SUFFICES ASSUME NEW i \in 1 .. Len(new), NEW j \in 1 .. Len(new), i < j
                      PROVE  new[i] > new[j]
          OBVIOUS
        <5>1. j - 1 \in 1 .. Len(old) /\ new[j] = old[j - 1]
          BY <4>3
        <5>2. CASE i = 1
          <6>1. old[j - 1] \in 0 .. num - 1
            BY <4>2, <5>1
          <6>2. new[i] = num
            BY <4>3, <5>2
          <6>3. new[j] < num
            BY <2>2, <5>1, <6>1
          <6>. QED
            BY <2>2, <5>1, <6>1, <6>2, <6>3
        <5>3. CASE i # 1
          <6>1. i - 1 \in 1 .. Len(old) /\ new[i] = old[i - 1] /\ i - 1 < j - 1
            BY <4>3, <5>3
          <6>. QED
            BY <3>3, <5>1, <6>1
        <5>. QED
          BY <5>2, <5>3
      <4>6. syms[v].productions = new
        BY <2>6, <3>5 DEF new, old
      <4>7. {new[i] : i \in 1 .. Len(new)} = Of(u, v)
        BY <3>3, <4>1, <4>4
      <4>. QED
        BY <4>3, <4>5, <4>6, <4>7 DEF IsChain
    <3>. QED
      BY <3>4, <3>5
  <2>14. Sound(u)
    BY <2>9, <2>10, <2>11, <2>12, <2>13 DEF Sound
  <2>15. u.productions[0].lhs = IF num = 0 THEN t.lhs ELSE t.productions[0].lhs
    BY <2>2, <2>4, <2>5, <2>7
  <2>16. InRhs(u)
    <3>1. u.rhs \in 0 .. u.Num_productions - 1 /\ u.Num_productions > 0
      BY <2>2, <2>7
    <3>2. num > 0 => t.Goal_symbol = t.productions[0].lhs
      BY DEF GoalKept, num
    <3>3. num = 0 => t.lhs = t.Goal_symbol
      BY DEF GoalKept, num
    <3>4. u.Goal_symbol = u.productions[0].lhs
      BY <2>2, <2>8, <2>15, <3>2, <3>3
    <3>5. /\ u.Goal_symbol_is_next \in BOOLEAN
          /\ u.Goal_symbol_is_next <=> u.lhs = NULL
      BY <2>8 DEF GoalKept
    <3>6. {u.lhs, u.Goal_symbol} \subseteq MINNONTERM .. u.Cur_nonterm
      BY <1>3, <2>8 DEF GoalKept
    <3>. QED
      BY <1>3, <2>8, <3>1, <3>4, <3>5, <3>6 DEF InRhs, GoalKept
  <2>. QED
    BY <2>1, <2>8, <2>14, <2>16
<1>. QED
  BY <1>1, <1>2, <1>3

\* add_to_rhs(), once the symbol is known.
WithSymbol(t, known, v) ==
  LET counted == [known EXCEPT !.symbols[v].used = TRUE,
                               !.productions[t.rhs].rhs_len = @ + 1]
  IN CASE known.status # "run" -> known
       [] known.status = "run" /\ t.productions[t.rhs].rhs_len >= MAXRHS ->
            NonFatal(counted)
       [] OTHER -> [counted EXCEPT !.productions[t.rhs].rhs = Append(@, v),
                                   !.productions[t.rhs].prec = PrecAfter(t, v)]

LEMMA WithSymbolSound ==
  ASSUME NEW t, Sound(t), InRhs(t),
         NEW known, Sound(known), Steady(t, known), known.productions = t.productions,
         known.status \in {"run", "exit"},
         NEW v,
         known.status = "run" => /\ v \in DOMAIN known.symbols /\ v \in Nat
                                 /\ IsAct(v) => Nowhere(t, v)
  PROVE  /\ Sound(WithSymbol(t, known, v))
         /\ Steady(t, WithSymbol(t, known, v))
         /\ WithSymbol(t, known, v).status \in {"run", "exit"}
<1>. DEFINE counted == [known EXCEPT !.symbols[v].used = TRUE,
                                     !.productions[t.rhs].rhs_len = @ + 1]
            prod == known.productions[t.rhs]
            level == PrecAfter(t, v)
            longer == [counted EXCEPT !.productions[t.rhs].rhs = Append(@, v),
                                      !.productions[t.rhs].prec = level]
<1>1. WithSymbol(t, known, v) =
        CASE known.status # "run" -> known
          [] known.status = "run" /\ t.productions[t.rhs].rhs_len >= MAXRHS -> NonFatal(counted)
          [] OTHER -> longer
  BY DEF WithSymbol
<1>. HIDE DEF level
<1>2. /\ DOMAIN known = TableFields /\ known.rhs = t.rhs /\ t.rhs \in DOMAIN known.productions
      /\ IsProduction(known, prod)
  BY DEF Sound, Numbers, Steady, InRhs, ProductionsHold
<1>3. /\ DOMAIN prod = ProductionFields /\ prod.rhs \in Seq(Nat) /\ prod.rhs_len \in Nat
      /\ Len(prod.rhs) <= prod.rhs_len
  BY <1>2 DEF IsProduction
<1>4. CASE known.status # "run"
  <2>1. WithSymbol(t, known, v) = known
    BY <1>1, <1>4
  <2>. QED
    BY <2>1
<1>5. ASSUME NEW u, NEW syms, NEW prods, DOMAIN u = TableFields,
             u.symbols = syms, u.productions = prods,
             \A x \in TableFields \ {"symbols", "productions"} : u[x] = known[x],
             DOMAIN syms = DOMAIN known.symbols,
             \A w \in DOMAIN known.symbols : /\ DOMAIN syms[w] = SymbolFields
                                             /\ syms[w].productions = known.symbols[w].productions,
             DOMAIN prods = DOMAIN known.productions,
             \A p \in DOMAIN known.productions \ {t.rhs} : prods[p] = known.productions[p],
             prods[t.rhs].lhs = prod.lhs,
             IsProduction(known, prods[t.rhs]),
             \/ prods[t.rhs].rhs = prod.rhs
             \/ \E w \in Nat : SymbolMore(known, u, w)
      PROVE  Sound(u) /\ Steady(t, u) /\ u.status = known.status
  <2>1. /\ u.Cur_term = known.Cur_term /\ u.Cur_nonterm = known.Cur_nonterm
        /\ u.Cur_act = known.Cur_act /\ u.Num_productions = known.Num_productions
        /\ u.yynerrs = known.yynerrs /\ u.status = known.status
        /\ u.lhs = known.lhs /\ u.rhs = known.rhs /\ u.Goal_symbol = known.Goal_symbol
        /\ u.Goal_symbol_is_next = known.Goal_symbol_is_next
    BY <1>5 DEF TableFields
  <2>2. Touched(known, u)
    BY <1>2, <1>5, <2>1 DEF Touched, Sound, Numbers
  <2>3. Sound(u)
    BY <1>2, <1>5, <2>2, StillOnce, TouchedSound
  <2>4. \A p \in DOMAIN known.productions : u.productions[p].lhs = known.productions[p].lhs
    BY <1>2, <1>5
  <2>5. DOMAIN known.productions = 0 .. t.Num_productions - 1
    BY DEF Sound, ProductionsHold, Steady
  <2>6. Steady(t, u)
    BY <2>1, <2>4, <2>5 DEF Steady
  <2>. QED
    BY <2>1, <2>3, <2>6
<1>6. ASSUME known.status = "run"
      PROVE  /\ DOMAIN counted = TableFields
             /\ \A x \in TableFields \ {"symbols", "productions"} : counted[x] = known[x]
             /\ DOMAIN counted.symbols = DOMAIN known.symbols
             /\ \A w \in DOMAIN known.symbols :
                  /\ DOMAIN counted.symbols[w] = SymbolFields
                  /\ counted.symbols[w].productions = known.symbols[w].productions
             /\ DOMAIN counted.productions = DOMAIN known.productions
             /\ \A p \in DOMAIN known.productions \ {t.rhs} :
                  counted.productions[p] = known.productions[p]
             /\ DOMAIN counted.productions[t.rhs] = ProductionFields
             /\ counted.productions[t.rhs].lhs = prod.lhs
             /\ counted.productions[t.rhs].rhs = prod.rhs
             /\ counted.productions[t.rhs].rhs_len = prod.rhs_len + 1
  <2>. DEFINE syms  == [known.symbols EXCEPT ![v].used = TRUE]
              prods == [known.productions EXCEPT ![t.rhs].rhs_len = @ + 1]
  <2>1. \A w \in DOMAIN known.symbols : DOMAIN known.symbols[w] = SymbolFields
    BY DEF Sound, SymbolsHold
  <2>2. /\ DOMAIN syms = DOMAIN known.symbols
        /\ \A w \in DOMAIN known.symbols :
             /\ DOMAIN syms[w] = SymbolFields
             /\ syms[w].productions = known.symbols[w].productions
    BY <1>6, <2>1 DEF SymbolFields
  <2>3. /\ DOMAIN prods = DOMAIN known.productions
        /\ \A p \in DOMAIN known.productions \ {t.rhs} : prods[p] = known.productions[p]
        /\ DOMAIN prods[t.rhs] = ProductionFields
        /\ prods[t.rhs].lhs = prod.lhs
        /\ prods[t.rhs].rhs = prod.rhs
        /\ prods[t.rhs].rhs_len = prod.rhs_len + 1
    BY <1>2, <1>3 DEF ProductionFields
  <2>. HIDE DEF syms, prods, prod
  <2>4. counted = [known EXCEPT !.symbols = syms, !.productions = prods]
    BY <1>2 DEF syms, prods, TableFields
  <2>. HIDE DEF counted
  <2>5. /\ DOMAIN counted = TableFields /\ counted.symbols = syms /\ counted.productions = prods
        /\ \A x \in TableFields \ {"symbols", "productions"} : counted[x] = known[x]
    BY <1>2, <2>4 DEF TableFields
  <2>. QED
    BY <2>2, <2>3, <2>5
<1>7. CASE known.status = "run" /\ t.productions[t.rhs].rhs_len >= MAXRHS
  <2>1. WithSymbol(t, known, v) = NonFatal(counted)
    BY <1>1, <1>7
  <2>. HIDE DEF counted
  <2>2. /\ IsProduction(known, prod) /\ prod.rhs_len \in Nat
        /\ Len(prod.rhs) \in Nat
    BY <1>2, <1>3
  <2>3. IsProduction(known, counted.productions[t.rhs])
    <3>. DEFINE cprod == counted.productions[t.rhs]
    <3>1. /\ DOMAIN cprod = ProductionFields /\ cprod.lhs = prod.lhs /\ cprod.rhs = prod.rhs
          /\ cprod.rhs_len = prod.rhs_len + 1
      BY <1>6, <1>7
    <3>. HIDE DEF cprod, prod
    <3>2. /\ prod.lhs \in MINNONTERM .. known.Cur_nonterm /\ prod.rhs \in Seq(Nat)
          /\ Len(prod.rhs) <= MAXRHS /\ Len(prod.rhs) <= prod.rhs_len
          /\ \A i \in 1 .. Len(prod.rhs) : prod.rhs[i] \in DOMAIN known.symbols
      BY <2>2 DEF IsProduction
    <3>3. Len(prod.rhs) <= prod.rhs_len + 1 /\ prod.rhs_len + 1 \in Nat
      BY <2>2, <3>2
    <3>4. IsProduction(known, cprod)
      BY <3>1, <3>2, <3>3 DEF IsProduction
    <3>. QED
      BY <3>4 DEF cprod
  <2>4. Sound(counted) /\ Steady(t, counted) /\ counted.status = known.status
    BY <1>5, <1>6, <1>7, <2>3
  <2>5. /\ Sound(NonFatal(counted)) /\ Steady(counted, NonFatal(counted))
        /\ NonFatal(counted).status = "run"
    BY <1>7, <2>4, NonFatalSound
  <2>6. Steady(t, NonFatal(counted))
    BY <2>4, <2>5 DEF Steady, Sound, Numbers, MINNONTERM
  <2>. QED
    BY <2>1, <2>5, <2>6
<1>8. CASE known.status = "run" /\ ~(t.productions[t.rhs].rhs_len >= MAXRHS)
  <2>. HIDE DEF counted
  <2>1. WithSymbol(t, known, v) = longer
    BY <1>1, <1>8
  <2>2. DOMAIN counted = TableFields /\ t.rhs \in DOMAIN counted.productions
    BY <1>2, <1>6, <1>8
  <2>. DEFINE cprod == counted.productions[t.rhs]
              lprod == longer.productions[t.rhs]
  <2>3. /\ DOMAIN longer = TableFields
        /\ \A x \in TableFields \ {"productions"} : longer[x] = counted[x]
        /\ DOMAIN longer.productions = DOMAIN counted.productions
        /\ \A p \in DOMAIN counted.productions \ {t.rhs} :
             longer.productions[p] = counted.productions[p]
        /\ DOMAIN lprod = DOMAIN cprod
        /\ DOMAIN cprod = ProductionFields =>
             /\ lprod.lhs = cprod.lhs /\ lprod.rhs = Append(cprod.rhs, v)
             /\ lprod.rhs_len = cprod.rhs_len
    BY <2>2 DEF TableFields, ProductionFields
  <2>. HIDE DEF longer
  <2>4. /\ lprod.lhs = prod.lhs /\ lprod.rhs = Append(prod.rhs, v)
        /\ lprod.rhs_len = prod.rhs_len + 1 /\ DOMAIN lprod = ProductionFields
    BY <1>6, <1>8, <2>3
  <2>5. v \in Nat /\ v \in DOMAIN known.symbols /\ (IsAct(v) => Nowhere(t, v))
    BY <1>8
  <2>6. IsProduction(known, lprod)
    <3>1. prod.rhs_len < MAXRHS
      BY <1>3, <1>8, Limits
    <3>. DEFINE s == prod.rhs
    <3>2. s \in Seq(Nat) /\ \A i \in 1 .. Len(s) : s[i] \in DOMAIN known.symbols
      BY <1>2 DEF IsProduction
    <3>. HIDE DEF s
    <3>3. /\ Append(s, v) \in Seq(Nat) /\ Len(Append(s, v)) = Len(s) + 1 /\ Len(s) \in Nat
          /\ Append(s, v)[Len(s) + 1] = v
          /\ \A i \in 1 .. Len(s) : Append(s, v)[i] = s[i]
      BY <2>5, <3>2
    <3>4. \A i \in 1 .. Len(s) + 1 : i = Len(s) + 1 \/ i \in 1 .. Len(s)
      BY <3>3
    <3>5. \A i \in 1 .. Len(Append(s, v)) : Append(s, v)[i] \in DOMAIN known.symbols
      BY <2>5, <3>2, <3>3, <3>4
    <3>6. Len(Append(s, v)) <= MAXRHS /\ Len(Append(s, v)) <= lprod.rhs_len
      <4>1. Len(s) <= prod.rhs_len /\ prod.rhs_len \in Nat
        BY <1>3 DEF s
      <4>. HIDE DEF prod, lprod
      <4>. QED
        BY <2>4, <3>1, <3>3, <4>1, Limits
    <3>7. lprod.rhs = Append(s, v)
      BY <2>4 DEF s
    <3>8. prod.lhs \in MINNONTERM .. known.Cur_nonterm /\ lprod.rhs_len \in Nat
      BY <1>2, <1>3, <2>4 DEF IsProduction
    <3>. HIDE DEF lprod
    <3>. QED
      BY <2>4, <3>3, <3>5, <3>6, <3>7, <3>8 DEF IsProduction
  <2>7. SymbolMore(known, longer, v)
    <3>1. Nowhere(known, v) <=> Nowhere(t, v)
      BY DEF Nowhere
    <3>. QED
      BY <1>2, <2>4, <2>5, <3>1 DEF SymbolMore
  <2>8. Sound(longer) /\ Steady(t, longer) /\ longer.status = known.status
    <3>1. /\ \A x \in TableFields \ {"symbols", "productions"} : longer[x] = known[x]
          /\ longer.symbols = counted.symbols
      BY <1>6, <1>8, <2>3 DEF TableFields
    <3>2. /\ DOMAIN longer.productions = DOMAIN known.productions
          /\ \A p \in DOMAIN known.productions \ {t.rhs} :
               longer.productions[p] = known.productions[p]
      BY <1>6, <1>8, <2>3
    <3>. QED
      BY <1>5, <1>6, <1>8, <2>3, <2>4, <2>5, <2>6, <2>7, <3>1, <3>2
  <2>. QED
    BY <1>8, <2>1, <2>8
<1>. QED
  BY <1>4, <1>7, <1>8

LEMMA AddToRhsSound ==
  ASSUME NEW t, Sound(t), t.status = "run", InRhs(t), NEW object, NEW kind
  PROVE  LET u == add_to_rhs(t, object, kind = "ACTION")
         IN Sound(u) /\ Steady(t, u) /\ u.status \in {"run", "exit"}
<1>1. t.Goal_symbol_is_next = FALSE
  <2>1. t.lhs # NULL /\ t.Goal_symbol_is_next \in BOOLEAN
    BY DEF InRhs, GoalKept, Sound, Numbers
  <2>2. t.Goal_symbol_is_next <=> t.lhs = NULL
    BY DEF InRhs, GoalKept
  <2>. QED
    BY <2>1, <2>2
<1>2. CASE kind = "ACTION"
  <2>. DEFINE field == ""
              known == WithAct(t, object, field)
  <2>1. add_to_rhs(t, object, kind = "ACTION") = WithSymbol(t, known, known.Cur_act)
    BY <1>2 DEF add_to_rhs, WithSymbol, WithObject, WithAct
  <2>. DEFINE v == t.Cur_act + 1
  <2>. HIDE DEF field
  <2>2. /\ Extended(t, known, v) /\ known.Cur_act = v /\ v \in Nat
        /\ \A x \in TableFields \ {"symbols", "Cur_act"} : known[x] = t[x]
    BY ActAdded
  <2>. HIDE DEF known
  <2>3. Sound(known) /\ Steady(t, known) /\ known.status = "run"
    BY <2>2, ExtendedSteady
  <2>4. /\ known.productions = t.productions /\ v \in DOMAIN known.symbols
        /\ v \notin DOMAIN t.symbols
    BY <2>2 DEF Extended
  <2>5. Nowhere(t, v)
    BY <2>4, LeftSides DEF Nowhere, IsProduction
  <2>. HIDE DEF v
  <2>6. Sound(WithSymbol(t, known, v)) /\ Steady(t, WithSymbol(t, known, v))
        /\ WithSymbol(t, known, v).status \in {"run", "exit"}
    BY <2>2, <2>3, <2>4, <2>5, WithSymbolSound
  <2>. QED
    BY <2>1, <2>2, <2>6
<1>3. CASE kind # "ACTION"
  <2>. DEFINE known == IF Found(t, object) = NULL THEN new_nonterm(t, object, FALSE) ELSE t
              v == Found(known, object)
  <2>1. add_to_rhs(t, object, kind = "ACTION") = WithSymbol(t, known, v)
    BY <1>3 DEF add_to_rhs, WithSymbol, WithObject
  <2>2. /\ Sound(known) /\ Steady(t, known) /\ known.status \in {"run", "exit"}
        /\ known.productions = t.productions
        /\ known.status = "run" => Found(known, object) # NULL
    <3>1. CASE Found(t, object) = NULL
      BY <1>1, <3>1, NewNontermSound
    <3>2. CASE Found(t, object) # NULL
      BY <3>2, SteadyItself
    <3>. QED
      BY <3>1, <3>2
  <2>. HIDE DEF known
  <2>3. known.status = "run" => /\ v \in DOMAIN known.symbols /\ v \in Nat /\ ~IsAct(v)
    <3>1. /\ known.Cur_term \in 0 .. MAXTERM /\ known.Cur_nonterm \in MINNONTERM - 1 .. MAXNONTERM
      BY <2>2 DEF Sound, Numbers
    <3>2. SUFFICES ASSUME known.status = "run"
                   PROVE  v \in DOMAIN known.symbols /\ v \in Nat /\ ~IsAct(v)
      OBVIOUS
    <3>3. v \in DOMAIN known.symbols /\ v \in 1 .. known.Cur_term \cup MINNONTERM .. known.Cur_nonterm
      BY <2>2, <3>2, FoundFacts
    <3>. HIDE DEF v
    <3>. QED
      BY <3>1, <3>3, Limits DEF IsAct
  <2>. HIDE DEF v
  <2>4. Sound(WithSymbol(t, known, v)) /\ Steady(t, WithSymbol(t, known, v))
        /\ WithSymbol(t, known, v).status \in {"run", "exit"}
    BY <2>2, <2>3, WithSymbolSound
  <2>. QED
    BY <2>1, <2>4
<1>. QED
  BY <1>2, <1>3

----------------------------------------------------------------------------
(***************************************************************************)
(* The parser of grammar files.                                            *)
(***************************************************************************)
LEMMA InitialSound == Sound(InitialTables) /\ Phase(InitialTables, "definitions")
<1>. DEFINE t == InitialTables
<1>1. /\ DOMAIN t = TableFields /\ DOMAIN t.symbols = {} /\ DOMAIN t.productions = {}
      /\ t.Cur_term = 0 /\ t.Cur_nonterm = MINNONTERM - 1 /\ t.Cur_act = MINACT - 1
      /\ t.Num_productions = 0 /\ t.Goal_symbol = NULL /\ t.Goal_symbol_is_next = FALSE
      /\ t.lhs = NULL /\ t.yynerrs = 0 /\ t.status = "run"
  BY DEF InitialTables, TableFields
<1>. HIDE DEF t
<1>2. Numbers(t)
  BY <1>1, Limits DEF Numbers
<1>3. SymbolsHold(t)
  BY <1>1, Limits DEF SymbolsHold, Values
<1>4. ProductionsHold(t) /\ ActionsOnce(t) /\ Linked(t)
  <2>1. \A x : x \notin 0 .. t.Num_productions - 1
    BY <1>1
  <2>. QED
    BY <1>1, <2>1 DEF ProductionsHold, ActionsOnce, Linked
<1>5. BeforeRules(t)
  BY <1>1 DEF BeforeRules
<1>6. Phase(t, "definitions")
  BY <1>1, <1>5 DEF Phase, AllPlaces, DefinitionsPlaces, BodyPlaces, RhsPlaces
<1>. QED
  BY <1>2, <1>3, <1>4, <1>6 DEF Sound, t

\* What each place asks for.
LEMMA Places ==
  ASSUME NEW t
  PROVE  /\ \A place \in DefinitionsPlaces : Phase(t, place) <=> t.status = "run" /\ BeforeRules(t)
         /\ \A place \in BodyPlaces : Phase(t, place) <=> t.status = "run" /\ InBody(t)
         /\ \A place \in RhsPlaces : Phase(t, place) <=> t.status = "run" /\ InRhs(t)
         /\ Phase(t, "colon") <=> t.status = "run" /\ GoalKept(t)
  BY DEF Phase, AllPlaces, DefinitionsPlaces, BodyPlaces, RhsPlaces

LEMMA HerePhase ==
  ASSUME AtPlace, pc \in AllPlaces
  PROVE  Phase(tables, pc)
  BY DEF AtPlace, AllPlaces, DefinitionsPlaces, BodyPlaces, RhsPlaces

LEMMA Called ==
  ASSUME NEW u, Sound(u), u.status \in {"run", "exit", "undefined"}, NEW next \in AllPlaces,
         u.status = "run" => Phase(u, next), Call(u, next)
  PROVE  Sound(tables)' /\ AtPlace' /\ tables' = u /\ pc' \in {"exit", "undefined", next}
<1>1. tables' = u /\ pc' = IF u.status = "run" THEN next ELSE u.status
  BY DEF Call
<1>2. Sound(tables)'
  BY <1>1
<1>3. CASE u.status = "run"
  <2>1. Phase(tables, pc)'
    BY <1>1, <1>3
  <2>. QED
    BY <1>1, <1>2, <1>3, <2>1 DEF AtPlace
<1>4. CASE u.status # "run"
  BY <1>1, <1>2, <1>4 DEF AtPlace
<1>. QED
  BY <1>3, <1>4

\* A rule that ends keeps what the rules before have left.
LEMMA RuleKept ==
  ASSUME NEW t, Sound(t)
  PROVE  InRhs(t) => InBody(t)
  BY DEF InRhs, InBody, GoalKept, Sound, Numbers

LookforPlaces == {"definitions", "skipped", "rhs", "right_side"}

LEMMA LookforCalled ==
  ASSUME Sound(tables), NEW skipped, NEW others, NEW next \in LookforPlaces,
         Phase(tables, next), CallLookfor(skipped, others, next)
  PROVE  Sound(tables)' /\ AtPlace' /\ pc' = "lookfor"
<1>1. tables' = NonFatal(tables) /\ pc' = "lookfor" /\ return' = next
  BY DEF CallLookfor
<1>2. /\ Sound(NonFatal(tables)) /\ Steady(tables, NonFatal(tables))
      /\ NonFatal(tables).status = tables.status
  BY NonFatalSound
<1>3. tables.status = "run"
  BY DEF Phase
<1>4. Phase(NonFatal(tables), next)
  BY <1>2, <1>3, SteadyPhase
<1>5. Phase(tables, return)'
  BY <1>1, <1>4
<1>6. Sound(tables)'
  BY <1>1, <1>2
<1>. QED
  BY <1>1, <1>5, <1>6 DEF AtPlace, LookforPlaces

ParserPlaces ==
  {"definitions", "union", "names", "body", "skipped", "colon", "rhs", "prec", "right_side",
   "parsed"}

Parsed == Sound(tables)' /\ AtPlace' /\ pc' \in ParserPlaces \cup {"lookfor", "exit", "undefined"}

\* The calls in front of the rules, behind which nothing of a rule is there yet;
LEMMA DefinitionsSteps ==
  ASSUME Sound(tables), AtPlace,
         \/ UnionKeyword \/ UnionAction \/ NamesKeyword \/ CodeBlock \/ IllegalDefinition
         \/ OneName \/ OneField \/ NamesEnd \/ IllegalName \/ DefinitionsEnd
  PROVE  Parsed
<1>1. pc \in DefinitionsPlaces
  BY DEF UnionKeyword, UnionAction, NamesKeyword, CodeBlock, IllegalDefinition, OneName,
         OneField, NamesEnd, IllegalName, DefinitionsEnd, DefinitionsPlaces
<1>2. Phase(tables, pc)
  BY <1>1, HerePhase DEF AllPlaces
<1>3. \A place \in DefinitionsPlaces : Phase(tables, place)
  BY <1>1, <1>2, Places
<1>4. tables.status = "run" /\ BeforeRules(tables)
  BY <1>1, <1>2, Places
<1>5. ASSUME NEW u, Sound(u), Steady(tables, u), u.status \in {"run", "exit"},
             NEW next \in DefinitionsPlaces, Call(u, next)
      PROVE  Parsed
  <2>1. u.status = "run" => Phase(u, next)
    BY <1>3, <1>5, SteadyPhase
  <2>2. next \in AllPlaces
    BY DEF AllPlaces
  <2>. QED
    BY <1>5, <2>1, <2>2, Called DEF Parsed, ParserPlaces, DefinitionsPlaces
<1>6. Steady(tables, tables)
  BY SteadyItself
<1>7. /\ Sound(NonFatal(tables)) /\ Steady(tables, NonFatal(tables))
      /\ NonFatal(tables).status = "run"
  BY <1>4, NonFatalSound
<1>8. {"definitions", "union", "names"} \subseteq DefinitionsPlaces
  BY DEF DefinitionsPlaces
<1>9. CASE UnionKeyword
  BY <1>4, <1>5, <1>6, <1>8, <1>9 DEF UnionKeyword
<1>10. CASE UnionAction
  <2>1. CASE Kind = "ACTION"
    BY <1>4, <1>5, <1>6, <1>8, <1>10, <2>1 DEF UnionAction
  <2>2. CASE Kind # "ACTION"
    BY <1>5, <1>7, <1>8, <1>10, <2>2 DEF UnionAction
  <2>. QED
    BY <2>1, <2>2
<1>11. CASE NamesKeyword
  <2>1. PICK u : u \in {tables, new_lev(tables, "none"), new_lev(tables, Kind)}
                 /\ Call(u, "names")
    BY <1>11 DEF NamesKeyword
  <2>2. /\ Sound(new_lev(tables, "none")) /\ Steady(tables, new_lev(tables, "none"))
        /\ new_lev(tables, "none").status = "run"
    BY <1>4, NewLevSound
  <2>3. /\ Sound(new_lev(tables, Kind)) /\ Steady(tables, new_lev(tables, Kind))
        /\ new_lev(tables, Kind).status = "run"
    BY <1>4, NewLevSound
  <2>4. Sound(u) /\ Steady(tables, u) /\ u.status \in {"run", "exit"}
    BY <1>4, <1>6, <2>1, <2>2, <2>3
  <2>. QED
    BY <1>5, <1>8, <2>1, <2>4
<1>12. CASE CodeBlock
  BY <1>4, <1>5, <1>6, <1>8, <1>12 DEF CodeBlock
<1>13. CASE IllegalDefinition
  BY <1>5, <1>7, <1>8, <1>13 DEF IllegalDefinition
<1>14. CASE OneName
  <2>1. PICK u : /\ u \in {new_nonterm(tables, Text, FALSE), make_term(tables, Text),
                           prec_list(tables, Text)}
                 /\ Call(u, "names")
    BY <1>14 DEF OneName
  <2>2. /\ Sound(new_nonterm(tables, Text, FALSE))
        /\ Steady(tables, new_nonterm(tables, Text, FALSE))
        /\ new_nonterm(tables, Text, FALSE).status \in {"run", "exit"}
    BY <1>4, NewNontermSound DEF BeforeRules
  <2>3. /\ Sound(make_term(tables, Text)) /\ Steady(tables, make_term(tables, Text))
        /\ make_term(tables, Text).status \in {"run", "exit"}
    BY <1>4, MakeTermSound
  <2>4. /\ Sound(prec_list(tables, Text)) /\ Steady(tables, prec_list(tables, Text))
        /\ prec_list(tables, Text).status \in {"run", "exit"}
    BY <1>4, PrecListSound
  <2>5. Sound(u) /\ Steady(tables, u) /\ u.status \in {"run", "exit"}
    BY <2>1, <2>2, <2>3, <2>4
  <2>. QED
    BY <1>5, <1>8, <2>1, <2>5
<1>15. CASE OneField
  <2>1. /\ Sound(new_field(tables, Text)) /\ Steady(tables, new_field(tables, Text))
        /\ new_field(tables, Text).status = "run"
    BY <1>4, NewFieldSound
  <2>. QED
    BY <1>5, <1>8, <1>15, <2>1 DEF OneField
<1>16. CASE NamesEnd
  BY <1>4, <1>5, <1>6, <1>8, <1>16 DEF NamesEnd
<1>17. CASE IllegalName
  <2>1. Phase(tables, "definitions") /\ "definitions" \in LookforPlaces
    BY <1>3, <1>8 DEF LookforPlaces
  <2>2. CallLookfor("SEPARATOR", Starters, "definitions")
    BY <1>17 DEF IllegalName
  <2>. QED
    BY <2>1, <2>2, LookforCalled DEF Parsed
<1>18. CASE DefinitionsEnd
  <2>1. Call(first_sym(tables), "body")
    BY <1>18 DEF DefinitionsEnd
  <2>2. /\ Sound(first_sym(tables)) /\ InBody(first_sym(tables))
        /\ first_sym(tables).status = "run"
    BY <1>4, FirstSymSound
  <2>3. Phase(first_sym(tables), "body") /\ "body" \in AllPlaces
    BY <2>2, Places DEF BodyPlaces, AllPlaces
  <2>. QED
    BY <2>1, <2>2, <2>3, Called DEF Parsed, ParserPlaces
<1>. QED
  BY <1>9, <1>10, <1>11, <1>12, <1>13, <1>14, <1>15, <1>16, <1>17, <1>18

\* and those in the rules.
LEMMA BodySteps ==
  ASSUME Sound(tables), AtPlace,
         LeftHandSide \/ IllegalLeftHandSide \/ SkippedRule \/ BodyEnd
  PROVE  Parsed
<1>1. pc \in {"body", "skipped"}
  BY DEF LeftHandSide, IllegalLeftHandSide, SkippedRule, BodyEnd
<1>2. pc \in BodyPlaces /\ Phase(tables, pc)
  BY <1>1, HerePhase DEF AllPlaces, BodyPlaces
<1>3. tables.status = "run" /\ InBody(tables)
  BY <1>2, Places
<1>4. \A place \in BodyPlaces : Phase(tables, place) /\ place \in AllPlaces
  BY <1>3, Places DEF AllPlaces
<1>5. CASE LeftHandSide
  <2>. DEFINE u == new_nonterm(tables, Text, TRUE)
  <2>1. Sound(u) /\ u.status \in {"run", "exit"} /\ (u.status = "run" => GoalKept(u))
    BY <1>3, LeftHandSideSound
  <2>2. Call(u, "colon")
    BY <1>5 DEF LeftHandSide
  <2>. HIDE DEF u
  <2>3. u.status = "run" => Phase(u, "colon")
    BY <2>1, Places
  <2>4. "colon" \in AllPlaces
    BY DEF AllPlaces
  <2>. QED
    BY <2>1, <2>2, <2>3, <2>4, Called DEF Parsed, ParserPlaces
<1>6. CASE IllegalLeftHandSide
  <2>1. Phase(tables, "skipped") /\ "skipped" \in LookforPlaces
    BY <1>4 DEF BodyPlaces, LookforPlaces
  <2>2. CallLookfor("SEMI", {"SEPARATOR"}, "skipped")
    BY <1>6 DEF IllegalLeftHandSide
  <2>. QED
    BY <2>1, <2>2, LookforCalled DEF Parsed
<1>7. CASE SkippedRule
  BY <1>3, <1>4, <1>7, Called DEF SkippedRule, Parsed, ParserPlaces, BodyPlaces
<1>8. CASE BodyEnd
  BY <1>3, <1>4, <1>8, Called DEF BodyEnd, Parsed, ParserPlaces, BodyPlaces
<1>. QED
  BY <1>5, <1>6, <1>7, <1>8

LEMMA ColonStep ==
  ASSUME Sound(tables), AtPlace, Colon
  PROVE  Parsed
<1>1. pc = "colon"
  BY DEF Colon
<1>2. Phase(tables, "colon")
  BY <1>1, HerePhase DEF AllPlaces
<1>3. tables.status = "run" /\ GoalKept(tables)
  BY <1>2, Places
<1>4. PICK t : t \in {tables, NonFatal(tables)} /\ Call(new_rhs(t), "rhs")
  BY DEF Colon
<1>5. Sound(t) /\ t.status = "run" /\ GoalKept(t)
  <2>1. CASE t = tables
    BY <1>3, <2>1
  <2>2. CASE t = NonFatal(tables)
    <3>1. /\ Sound(NonFatal(tables)) /\ Steady(tables, NonFatal(tables))
          /\ NonFatal(tables).status = "run"
      BY <1>3, NonFatalSound
    <3>2. Phase(NonFatal(tables), "colon")
      BY <1>2, <3>1, SteadyPhase
    <3>. QED
      BY <2>2, <3>1, <3>2, Places
  <2>. QED
    BY <1>4, <2>1, <2>2
<1>. DEFINE u == new_rhs(t)
<1>6. /\ Sound(u) /\ u.status \in {"run", "exit", "undefined"}
      /\ u.status = "run" => InRhs(u)
  BY <1>5, NewRhsSound
<1>7. Call(u, "rhs")
  BY <1>4
<1>. HIDE DEF u
<1>8. u.status = "run" => Phase(u, "rhs")
  BY <1>6, Places DEF RhsPlaces
<1>9. "rhs" \in AllPlaces
  BY DEF AllPlaces, RhsPlaces
<1>. QED
  BY <1>6, <1>7, <1>8, <1>9, Called DEF Parsed, ParserPlaces

LEMMA RhsSteps ==
  ASSUME Sound(tables), AtPlace,
         \/ RhsObject \/ PrecKeyword \/ PrecName \/ IllegalPrec \/ RhsEnd \/ IllegalRhs
         \/ NextRhs \/ RuleEnd
  PROVE  Parsed
<1>1. pc \in RhsPlaces
  BY DEF RhsObject, PrecKeyword, PrecName, IllegalPrec, RhsEnd, IllegalRhs, NextRhs, RuleEnd,
         RhsPlaces
<1>2. Phase(tables, pc)
  BY <1>1, HerePhase DEF AllPlaces
<1>3. tables.status = "run" /\ InRhs(tables)
  BY <1>1, <1>2, Places
<1>4. \A place \in RhsPlaces : Phase(tables, place) /\ place \in AllPlaces
  BY <1>3, Places DEF AllPlaces
<1>5. ASSUME NEW u, Sound(u), Steady(tables, u), u.status \in {"run", "exit"},
             NEW next \in RhsPlaces, Call(u, next)
      PROVE  Parsed
  <2>1. u.status = "run" => Phase(u, next)
    BY <1>4, <1>5, SteadyPhase
  <2>2. next \in AllPlaces
    BY DEF AllPlaces
  <2>. QED
    BY <1>5, <2>1, <2>2, Called DEF Parsed, ParserPlaces, RhsPlaces
<1>6. Steady(tables, tables)
  BY SteadyItself
<1>7. {"rhs", "prec", "right_side"} \subseteq RhsPlaces
  BY DEF RhsPlaces
<1>8. CASE RhsObject
  <2>. DEFINE u == add_to_rhs(tables, Text, Kind = "ACTION")
  <2>1. Sound(u) /\ Steady(tables, u) /\ u.status \in {"run", "exit"}
    BY <1>3, AddToRhsSound
  <2>2. Call(u, "rhs")
    BY <1>8 DEF RhsObject
  <2>. HIDE DEF u
  <2>. QED
    BY <1>5, <1>7, <2>1, <2>2
<1>9. CASE PrecKeyword
  BY <1>3, <1>5, <1>6, <1>7, <1>9 DEF PrecKeyword
<1>10. CASE PrecName
  <2>1. /\ Sound(prec(tables, Text)) /\ Steady(tables, prec(tables, Text))
        /\ prec(tables, Text).status = "run"
    BY <1>3, PrecSound
  <2>. QED
    BY <1>5, <1>7, <1>10, <2>1 DEF PrecName
<1>11. CASE IllegalPrec
  <2>1. Phase(tables, "rhs") /\ "rhs" \in LookforPlaces
    BY <1>4, <1>7 DEF LookforPlaces
  <2>2. CallLookfor("SEMI", {"SEPARATOR", "OR"}, "rhs")
    BY <1>11 DEF IllegalPrec
  <2>. QED
    BY <2>1, <2>2, LookforCalled DEF Parsed
<1>12. CASE RhsEnd
  BY <1>3, <1>5, <1>6, <1>7, <1>12 DEF RhsEnd
<1>13. CASE IllegalRhs
  <2>1. Phase(tables, "right_side") /\ "right_side" \in LookforPlaces
    BY <1>4, <1>7 DEF LookforPlaces
  <2>2. CallLookfor("SEMI", {"SEPARATOR", "OR"}, "right_side")
    BY <1>13 DEF IllegalRhs
  <2>. QED
    BY <2>1, <2>2, LookforCalled DEF Parsed
<1>14. CASE NextRhs
  <2>. DEFINE u == new_rhs(tables)
  <2>0. GoalKept(tables)
    BY <1>3 DEF InRhs
  <2>1. /\ Sound(u) /\ u.status \in {"run", "exit", "undefined"}
        /\ u.status = "run" => InRhs(u)
    BY <1>3, <2>0, NewRhsSound
  <2>2. Call(u, "rhs")
    BY <1>14 DEF NextRhs
  <2>. HIDE DEF u
  <2>3. u.status = "run" => Phase(u, "rhs")
    BY <1>7, <2>1, Places
  <2>4. "rhs" \in AllPlaces
    BY DEF AllPlaces, RhsPlaces
  <2>. QED
    BY <2>1, <2>2, <2>3, <2>4, Called DEF Parsed, ParserPlaces
<1>15. CASE RuleEnd
  <2>1. PICK u : u \in {tables, NonFatal(tables)} /\ Call(u, "body")
    BY <1>15 DEF RuleEnd
  <2>2. /\ Sound(NonFatal(tables)) /\ Steady(tables, NonFatal(tables))
        /\ NonFatal(tables).status = "run"
    BY <1>3, NonFatalSound
  <2>3. Sound(u) /\ Steady(tables, u) /\ u.status = "run"
    BY <1>3, <1>6, <2>1, <2>2
  <2>4. Phase(u, "rhs")
    BY <1>4, <1>7, <2>3, SteadyPhase
  <2>5. InBody(u)
    BY <1>7, <2>3, <2>4, Places, RuleKept
  <2>6. Phase(u, "body") /\ "body" \in AllPlaces
    BY <2>3, <2>5, Places DEF BodyPlaces, AllPlaces
  <2>. QED
    BY <2>1, <2>3, <2>6, Called DEF Parsed, ParserPlaces
<1>. QED
  BY <1>8, <1>9, <1>10, <1>11, <1>12, <1>13, <1>14, <1>15

LEMMA LookforStep ==
  ASSUME Sound(tables), AtPlace, Lookfor
  PROVE  Parsed
<1>1. pc = "lookfor" /\ return' = return
  BY DEF Lookfor, Locals
<1>2. return \in LookforPlaces /\ Phase(tables, return)
  BY <1>1 DEF AtPlace, LookforPlaces, Phase, AllPlaces, DefinitionsPlaces, BodyPlaces, RhsPlaces
<1>3. tables.status = "run"
  BY <1>2 DEF Phase
<1>4. CASE Call(tables, return)
  <2>1. return \in AllPlaces /\ return \in ParserPlaces
    BY <1>2 DEF LookforPlaces, AllPlaces, DefinitionsPlaces, BodyPlaces, RhsPlaces, ParserPlaces
  <2>2. tables' = tables /\ pc' = return
    BY <1>3, <1>4 DEF Call
  <2>3. Phase(tables, pc)' /\ Sound(tables)'
    BY <1>2, <2>2
  <2>. QED
    BY <2>1, <2>2, <2>3 DEF Parsed, AtPlace
<1>5. CASE Call(Fatal(tables), "lookfor")
  <2>1. Sound(Fatal(tables)) /\ Fatal(tables).status = "exit"
    BY FatalSound
  <2>2. tables' = Fatal(tables) /\ pc' = "exit"
    BY <1>5, <2>1 DEF Call
  <2>3. Sound(tables)'
    BY <2>1, <2>2
  <2>. QED
    BY <2>2, <2>3 DEF Parsed, AtPlace
<1>6. CASE Call(tables, "lookfor")
  <2>1. tables' = tables /\ pc' = "lookfor"
    BY <1>3, <1>6 DEF Call
  <2>2. Sound(tables)' /\ Phase(tables, return)'
    BY <1>1, <1>2, <2>1
  <2>. QED
    BY <1>1, <1>2, <2>1, <2>2 DEF Parsed, AtPlace, LookforPlaces
<1>. QED
  BY <1>4, <1>5, <1>6 DEF Lookfor

\* A step of the parser, which first() comes after.
LEMMA ParsingStep ==
  ASSUME IInv, Parsing
  PROVE  IInv'
<1>1. Sound(tables) /\ AtPlace /\ Parse /\ UNCHANGED <<first, cases, todo, chain>>
  BY DEF IInv, Parsing
<1>2. Parsed
  BY <1>1, DefinitionsSteps, BodySteps, ColonStep, RhsSteps, LookforStep DEF Parse
<1>3. pc \in ParserPlaces \cup {"lookfor"} /\ pc # "parsed"
  BY <1>1 DEF Parse, ParserPlaces, Lookfor, UnionKeyword, UnionAction, NamesKeyword, CodeBlock,
     IllegalDefinition, OneName, OneField, NamesEnd, IllegalName, DefinitionsEnd,
     LeftHandSide, IllegalLeftHandSide, SkippedRule, Colon, RhsObject, PrecKeyword, PrecName,
     IllegalPrec, RhsEnd, IllegalRhs, NextRhs, RuleEnd, BodyEnd
<1>4. todo = {} /\ chain = <<>> /\ DOMAIN first = {}
  BY <1>3 DEF IInv, BeforeFirst, PatchPlaces, ParserPlaces
<1>5. pc' \notin PatchPlaces
  BY <1>2 DEF Parsed, PatchPlaces, ParserPlaces
<1>6. BeforeFirst'
  BY <1>1, <1>4 DEF BeforeFirst
<1>7. ToPatch'
  BY <1>5 DEF ToPatch
<1>8. FirstHolds'
  <2>1. first \in [DOMAIN first -> SUBSET (0 .. tables.Cur_term + 1)]
    BY DEF IInv, FirstHolds
  <2>2. first' \in [DOMAIN first' -> SUBSET (0 .. tables'.Cur_term + 1)]
    BY <1>1, <1>4, <2>1
  <2>. QED
    BY <1>5, <2>2 DEF FirstHolds
<1>. QED
  BY <1>2, <1>6, <1>7, <1>8 DEF Parsed, IInv

----------------------------------------------------------------------------
(***************************************************************************)
(* The grammar in sound tables.                                            *)
(***************************************************************************)
LEMMA GrammarFacts ==
  ASSUME NEW t, Sound(t), NEW F
  PROVE  LET G == GrammarOf(t, F)
         IN /\ Readable(G)
            /\ G.terms = 1 .. t.Cur_term
            /\ G.nonterms = MINNONTERM .. t.Cur_nonterm
            /\ Productions(G) = DOMAIN t.productions
            /\ DOMAIN G.rhs = DOMAIN t.productions
            /\ \A p \in DOMAIN t.productions : /\ G.lhs[p] = t.productions[p].lhs
                                               /\ G.rhs[p] = t.productions[p].rhs
            /\ G.lhs \in [DOMAIN t.productions -> G.nonterms]
            /\ G.first = F
            /\ EPSILON(G) = t.Cur_term + 1
            /\ G.terms \cup {EPSILON(G)} \subseteq 0 .. t.Cur_term + 1
            /\ \A F2 : WithFirst(G, F2) = GrammarOf(t, F2)
<1>. DEFINE G == GrammarOf(t, F)
<1>1. /\ t.Cur_term \in 0 .. MAXTERM /\ t.Cur_nonterm \in MINNONTERM - 1 .. MAXNONTERM
      /\ DOMAIN t.symbols = Values(t)
      /\ DOMAIN t.productions = 0 .. t.Num_productions - 1
      /\ \A p \in DOMAIN t.productions : IsProduction(t, t.productions[p])
  BY DEF Sound, Numbers, SymbolsHold, ProductionsHold
<1>2. \A F2 : GrammarOf(t, F2) =
        [terms |-> 1 .. t.Cur_term, nonterms |-> MINNONTERM .. t.Cur_nonterm,
         lhs |-> [p \in DOMAIN t.productions |-> t.productions[p].lhs],
         rhs |-> [p \in DOMAIN t.productions |-> t.productions[p].rhs], first |-> F2]
  <2>1. {v \in DOMAIN t.symbols : IsNonterm(v)} = MINNONTERM .. t.Cur_nonterm
    <3>1. ASSUME NEW v \in Values(t), IsNonterm(v)
          PROVE  v \in MINNONTERM .. t.Cur_nonterm
      BY <1>1, <3>1, Limits DEF IsNonterm, Values
    <3>2. ASSUME NEW v \in MINNONTERM .. t.Cur_nonterm
          PROVE  v \in Values(t) /\ IsNonterm(v)
      BY <1>1, <3>2, Limits DEF IsNonterm, Values
    <3>. QED
      BY <1>1, <3>1, <3>2
  <2>. QED
    BY <2>1 DEF GrammarOf
<1>3. /\ G.terms = 1 .. t.Cur_term /\ G.nonterms = MINNONTERM .. t.Cur_nonterm
      /\ G.lhs = [p \in DOMAIN t.productions |-> t.productions[p].lhs]
      /\ G.rhs = [p \in DOMAIN t.productions |-> t.productions[p].rhs]
      /\ G.first = F
      /\ G = [terms |-> G.terms, nonterms |-> G.nonterms, lhs |-> G.lhs, rhs |-> G.rhs,
              first |-> G.first]
  BY <1>2
<1>4. \A F2 : WithFirst(G, F2) = GrammarOf(t, F2)
  BY <1>2 DEF WithFirst
<1>. HIDE DEF G
<1>5. Productions(G) = DOMAIN t.productions
  BY <1>3 DEF Productions
<1>6. \A p \in DOMAIN t.productions :
        /\ t.productions[p].lhs \in MINNONTERM .. t.Cur_nonterm
        /\ t.productions[p].rhs \in Seq(Nat)
        /\ \A i \in 1 .. Len(t.productions[p].rhs) : t.productions[p].rhs[i] \in Values(t)
  BY <1>1 DEF IsProduction
<1>7. \A v \in Values(t) : v \in Symbols(G) \/ ISACT(v)
  BY <1>1, <1>3, Limits DEF Values, Symbols, ISACT
<1>8. G.terms \subseteq 1 .. MINNONTERM - 2 /\ G.nonterms \subseteq MINNONTERM .. MINACT - 1
  <2>1. t.Cur_term \in Int /\ t.Cur_term <= 254 /\ t.Cur_nonterm \in Int /\ t.Cur_nonterm <= 511
    BY <1>1, Limits
  <2>2. \A v \in 1 .. t.Cur_term : v \in 1 .. MINNONTERM - 2
    BY <2>1 DEF MINNONTERM
  <2>3. \A v \in MINNONTERM .. t.Cur_nonterm : v \in MINNONTERM .. MINACT - 1
    BY <2>1 DEF MINNONTERM, MINACT
  <2>. QED
    BY <1>3, <2>2, <2>3
<1>9. Readable(G)
  <2>1. \A p \in Productions(G) :
          /\ G.rhs[p] \in Seq(Nat)
          /\ \A i \in DOMAIN G.rhs[p] : G.rhs[p][i] \in Symbols(G) \/ ISACT(G.rhs[p][i])
    <3>. SUFFICES ASSUME NEW p \in Productions(G)
                  PROVE  /\ G.rhs[p] \in Seq(Nat)
                         /\ \A i \in DOMAIN G.rhs[p] : G.rhs[p][i] \in Symbols(G) \/ ISACT(G.rhs[p][i])
      OBVIOUS
    <3>. DEFINE s == t.productions[p].rhs
    <3>1. G.rhs[p] = s
      BY <1>3, <1>5
    <3>2. s \in Seq(Nat) /\ \A i \in 1 .. Len(s) : s[i] \in Values(t)
      BY <1>5, <1>6
    <3>. HIDE DEF s
    <3>3. DOMAIN s = 1 .. Len(s)
      BY <3>2
    <3>. QED
      BY <1>7, <3>1, <3>2, <3>3
  <2>. QED
    BY <1>3, <1>8, <2>1 DEF Readable
<1>10. EPSILON(G) = t.Cur_term + 1
  <2>1. CASE t.Cur_term = 0
    BY <1>3, <2>1 DEF EPSILON
  <2>2. CASE t.Cur_term # 0
    <3>1. t.Cur_term \in 1 .. t.Cur_term /\ \A v \in 1 .. t.Cur_term : v <= t.Cur_term
      BY <1>1, <2>2
    <3>. DEFINE largest == CHOOSE v \in 1 .. t.Cur_term : \A w \in 1 .. t.Cur_term : w <= v
    <3>2. largest \in 1 .. t.Cur_term /\ \A w \in 1 .. t.Cur_term : w <= largest
      BY <3>1
    <3>3. EPSILON(G) = largest + 1
      BY <1>3, <3>1 DEF EPSILON
    <3>. HIDE DEF largest
    <3>4. largest = t.Cur_term
      BY <1>1, <3>1, <3>2
    <3>. QED
      BY <3>3, <3>4
  <2>. QED
    BY <2>1, <2>2
<1>11. G.terms \cup {EPSILON(G)} \subseteq 0 .. t.Cur_term + 1
  BY <1>1, <1>3, <1>10, Limits
<1>12. G.lhs \in [DOMAIN t.productions -> G.nonterms]
  BY <1>3, <1>6
<1>. QED
  BY <1>3, <1>4, <1>5, <1>9, <1>10, <1>11, <1>12 DEF G

LEMMA TablesFinite ==
  ASSUME NEW t, Sound(t)
  PROVE  Cardinality(Unset(t)) \in Nat
<1>1. /\ t.Cur_term \in 0 .. MAXTERM /\ t.Cur_nonterm \in MINNONTERM - 1 .. MAXNONTERM
      /\ t.Cur_act \in Nat /\ DOMAIN t.symbols = Values(t)
  BY DEF Sound, Numbers, SymbolsHold
<1>2. Unset(t) \subseteq 0 .. MAXNONTERM
  BY <1>1, Limits DEF Unset, Values, IsAct
<1>3. IsFiniteSet(0 .. MAXNONTERM)
  BY Limits, FS_Interval
<1>. QED
  BY <1>2, <1>3, FS_Subset, FS_CardinalityType

----------------------------------------------------------------------------
(***************************************************************************)
(* problems(), first() and the other steps of do_file() that leave the     *)
(* productions alone.                                                      *)
(***************************************************************************)
LEMMA CheckStep ==
  ASSUME IInv, CheckProblems
  PROVE  IInv'
<1>1. Sound(tables) /\ Phase(tables, "parsed")
  BY HerePhase DEF IInv, CheckProblems, AllPlaces, BodyPlaces
<1>2. tables.status = "run" /\ InBody(tables)
  BY <1>1, Places DEF BodyPlaces
<1>3. todo = {} /\ chain = <<>> /\ DOMAIN first = {}
  BY DEF IInv, BeforeFirst, CheckProblems, PatchPlaces
<1>. DEFINE n == Cardinality(Unset(tables))
            u == [tables EXCEPT !.yynerrs = @ + n]
<1>4. n \in Nat /\ tables.yynerrs \in Nat /\ DOMAIN tables = TableFields
  BY <1>1, TablesFinite DEF Sound, Numbers
<1>5. Problems(tables) = u
  BY DEF Problems
<1>. HIDE DEF n
<1>6. /\ Alike(tables, u) /\ Steady(tables, u) /\ u.status = tables.status
      /\ u.yynerrs = tables.yynerrs + n
  <2>1. /\ DOMAIN u = TableFields /\ u.yynerrs = tables.yynerrs + n
        /\ \A x \in TableFields \ {"yynerrs"} : u[x] = tables[x]
    BY <1>4 DEF TableFields
  <2>. HIDE DEF u
  <2>2. /\ u.Cur_term = tables.Cur_term /\ u.Cur_nonterm = tables.Cur_nonterm
        /\ u.Cur_act = tables.Cur_act /\ u.Num_productions = tables.Num_productions
        /\ u.symbols = tables.symbols /\ u.productions = tables.productions
        /\ u.status = tables.status /\ u.lhs = tables.lhs /\ u.rhs = tables.rhs
        /\ u.Goal_symbol = tables.Goal_symbol
        /\ u.Goal_symbol_is_next = tables.Goal_symbol_is_next
    BY <2>1 DEF TableFields
  <2>3. \A v \in DOMAIN tables.symbols : DOMAIN tables.symbols[v] = SymbolFields
    BY <1>1 DEF Sound, SymbolsHold
  <2>4. Alike(tables, u)
    BY <1>1, <1>4, <2>1, <2>2, <2>3 DEF Alike, Sound, Numbers
  <2>5. Steady(tables, u)
    BY <1>1, <2>2 DEF Steady, Sound, Numbers, MINNONTERM
  <2>. QED
    BY <2>1, <2>2, <2>4, <2>5
<1>. HIDE DEF u
<1>7. Sound(u)
  BY <1>1, <1>6, AlikeSound
<1>8. \/ tables.yynerrs = 0 /\ tables' = tables /\ pc' = "first"
      \/ tables.yynerrs # 0 /\ tables' = u /\ pc' = "first"
  <2>1. CASE tables.yynerrs = 0
    BY <2>1 DEF CheckProblems
  <2>2. CASE tables.yynerrs # 0
    BY <1>4, <1>5, <1>6, <2>2 DEF CheckProblems
  <2>. QED
    BY <2>1, <2>2
<1>9. Phase(tables, "parsed") /\ Phase(u, "parsed")
  BY <1>1, <1>2, <1>6, <1>7, SteadyPhase
<1>10. Phase(tables, "first") /\ Phase(u, "first")
  BY <1>9, Places DEF BodyPlaces
<1>11. Sound(tables)' /\ Phase(tables, pc)'
  BY <1>1, <1>7, <1>8, <1>10
<1>12. AtPlace'
  BY <1>11 DEF AtPlace
<1>13. BeforeFirst' /\ ToPatch'
  BY <1>3, <1>8 DEF BeforeFirst, ToPatch, PatchPlaces, CheckProblems
<1>14. FirstHolds'
  <2>1. first \in [DOMAIN first -> SUBSET (0 .. tables.Cur_term + 1)]
    BY DEF IInv, FirstHolds
  <2>2. first' = first
    BY DEF CheckProblems
  <2>3. first' \in [DOMAIN first' -> SUBSET (0 .. tables'.Cur_term + 1)]
    BY <1>3, <2>1, <2>2
  <2>. QED
    BY <1>8, <2>3 DEF FirstHolds, PatchPlaces
<1>. QED
  BY <1>11, <1>12, <1>13, <1>14 DEF IInv

\* What first() finds holds all that FIRST asks for, and nothing that the code's rule would
\* not bring.
LEMMA CodeFirstHolds ==
  ASSUME NEW G, Readable(G)
  PROVE  /\ CodeFirst(G) \in FirstFamilies(G)
         /\ TrueClosed(G, CodeFirst(G))
         /\ \A F \in FirstFamilies(G) : Closed(G, F) => Below(G, CodeFirst(G), F)
<1>. DEFINE C == CodeFirst(G)
<1>1. /\ C \in FirstFamilies(G) /\ CodeStep(G)[C] = C
      /\ \A F \in FirstFamilies(G) : Bounds(G, CodeStep(G), F) => Below(G, C, F)
  BY CodeStepEnlarges, IterateEnds DEF CodeFirst
<1>. HIDE DEF C
<1>2. Closed(G, C)
  BY <1>1, ClosedFixpoint
<1>3. ASSUME NEW A \in G.nonterms, NEW p \in ProductionsOf(G, A)
      PROVE  TrueOfProduction(WithFirst(G, C), p) \subseteq C[A]
  <2>1. p \in Productions(G) /\ p \in ProductionsOf(WithFirst(G, C), A)
    BY Fields DEF ProductionsOf
  <2>2. TrueOfProduction(WithFirst(G, C), p) \subseteq FirstOfProduction(WithFirst(G, C), p)
    BY <1>1, <2>1, TrueWithinCode
  <2>3. FirstOfProduction(WithFirst(G, C), p) \subseteq FirstClosure(WithFirst(G, C), A)
    BY <2>1 DEF FirstClosure
  <2>. QED
    BY <1>2, <2>2, <2>3 DEF Closed
<1>4. \A F \in FirstFamilies(G) : Closed(G, F) => Below(G, C, F)
  BY <1>1, ClosedFixpoint
<1>. QED
  BY <1>1, <1>3, <1>4 DEF TrueClosed, C

\* first() gets to its end,
FirstFound ==
  LET G == GrammarOf(tables, <<>>)
  IN /\ pc = "first" /\ tables' = tables /\ pc' = "patch" /\ chain' = chain
     /\ first' = CodeFirst(G) /\ todo' = G.nonterms

LEMMA FoundStep ==
  ASSUME IInv, FirstFound
  PROVE  IInv'
<1>1. Sound(tables) /\ Phase(tables, "first")
  BY HerePhase DEF IInv, FirstFound, AllPlaces, BodyPlaces
<1>. DEFINE G == GrammarOf(tables, <<>>)
<1>2. /\ tables' = tables /\ pc' = "patch" /\ chain' = chain
      /\ first' = CodeFirst(G) /\ todo' = G.nonterms
  BY DEF FirstFound
<1>3. chain = <<>>
  BY DEF IInv, BeforeFirst, FirstFound, PatchPlaces
<1>4. /\ Readable(G) /\ G.nonterms = MINNONTERM .. tables.Cur_nonterm
      /\ G.terms \cup {EPSILON(G)} \subseteq 0 .. tables.Cur_term + 1
      /\ \A F2 : WithFirst(G, F2) = GrammarOf(tables, F2)
  BY <1>1, GrammarFacts
<1>. HIDE DEF G
<1>. DEFINE C == CodeFirst(G)
<1>5. /\ C \in FirstFamilies(G) /\ TrueClosed(G, C)
      /\ \A F \in FirstFamilies(G) : Closed(G, F) => Below(G, C, F)
  BY <1>4, CodeFirstHolds
<1>. HIDE DEF C
<1>. DEFINE H == WithFirst(G, C)
<1>6. /\ FirstFamilies(H) = FirstFamilies(G) /\ H.nonterms = G.nonterms
      /\ \A F2 : WithFirst(H, F2) = WithFirst(G, F2)
      /\ \A A : ProductionsOf(H, A) = ProductionsOf(G, A)
  BY <1>4, Fields
<1>. HIDE DEF H
<1>7. /\ C \in FirstFamilies(H) /\ TrueClosed(H, C)
      /\ \A F \in FirstFamilies(H) : Closed(H, F) => Below(H, C, F)
  BY <1>5, <1>6 DEF TrueClosed, Closed, Below
<1>8. GrammarOf(tables, first)' = H /\ first' = C
  <2>1. GrammarOf(tables, first)' = GrammarOf(tables', first')
    BY DEF GrammarOf
  <2>. QED
    BY <1>2, <1>4, <2>1 DEF H, C
<1>9. FirstHolds'
  <2>1. C \in [G.nonterms -> SUBSET (G.terms \cup {EPSILON(G)})]
    BY <1>5 DEF FirstFamilies
  <2>2. C \in [DOMAIN C -> SUBSET (0 .. tables.Cur_term + 1)]
    BY <1>4, <2>1
  <2>3. first' \in [DOMAIN first' -> SUBSET (0 .. tables'.Cur_term + 1)]
    BY <1>2, <1>8, <2>2
  <2>. QED
    BY <1>7, <1>8, <2>3 DEF FirstHolds
<1>10. Phase(tables, pc)'
  <2>1. Phase(tables, "patch")
    BY <1>1, Places DEF BodyPlaces
  <2>. QED
    BY <1>2, <2>1
<1>11. Sound(tables)' /\ AtPlace' /\ BeforeFirst'
  BY <1>1, <1>2, <1>10 DEF AtPlace, BeforeFirst, PatchPlaces
<1>12. ToPatch'
  <2>1. chain' \in Seq(DOMAIN tables'.productions)
    BY <1>2, <1>3
  <2>2. todo' \subseteq MINNONTERM .. tables'.Cur_nonterm
    BY <1>2, <1>4
  <2>3. \A p \in DOMAIN tables.productions : tables.productions[p].lhs \in todo'
    BY <1>1, <1>2, <1>4, LeftSides
  <2>. QED
    BY <1>2, <2>1, <2>2, <2>3 DEF ToPatch
<1>. QED
  BY <1>9, <1>11, <1>12 DEF IInv

\* or runs out of a right-hand side.
LEMMA FindStep ==
  ASSUME IInv, FindFirst
  PROVE  IInv'
<1>. DEFINE u == [tables EXCEPT !.status = "undefined"]
<1>1. pc = "first" /\ Sound(tables)
  BY DEF IInv, FindFirst
<1>2. \/ FirstFound
      \/ Call(u, "first") /\ first' = first /\ todo' = todo /\ chain' = chain
  <2>. DEFINE G == GrammarOf(tables, <<>>)
              C == CodeFirst(G)
  <2>1. CASE RunsOut(tables, C)
    BY <2>1 DEF FindFirst
  <2>2. CASE ~RunsOut(tables, C)
    BY <2>2 DEF FindFirst, FirstFound
  <2>. QED
    BY <2>1, <2>2
<1>3. CASE FirstFound
  BY <1>3, FoundStep
<1>4. CASE Call(u, "first") /\ first' = first /\ todo' = todo /\ chain' = chain
  <2>1. Sound(u) /\ u.status = "undefined" /\ u.Cur_term = tables.Cur_term
    BY <1>1, UndefinedSound DEF Sound, Numbers, TableFields
  <2>. HIDE DEF u
  <2>2. tables' = u /\ pc' = "undefined"
    BY <1>4, <2>1 DEF Call
  <2>3. Sound(tables)' /\ AtPlace' /\ BeforeFirst' /\ ToPatch'
    BY <2>1, <2>2 DEF AtPlace, BeforeFirst, ToPatch, PatchPlaces
  <2>4. first \in [DOMAIN first -> SUBSET (0 .. tables.Cur_term + 1)]
    BY DEF IInv, FirstHolds
  <2>5. first' \in [DOMAIN first' -> SUBSET (0 .. tables'.Cur_term + 1)]
    BY <1>4, <2>1, <2>2, <2>4
  <2>6. FirstHolds'
    BY <2>2, <2>5 DEF FirstHolds, PatchPlaces
  <2>. QED
    BY <2>3, <2>6 DEF IInv
<1>. QED
  BY <1>2, <1>3, <1>4

\* The steps of do_file() that leave the tables as they are.
LEMMA TablesKept ==
  ASSUME IInv, pc \in PatchPlaces, tables' = tables, first' = first, pc' \in PatchPlaces
  PROVE  Sound(tables)' /\ AtPlace' /\ BeforeFirst' /\ FirstHolds' /\ tables.status = "run"
<1>1. Phase(tables, pc)
  BY HerePhase DEF IInv, AllPlaces, BodyPlaces, PatchPlaces
<1>2. tables.status = "run" /\ InBody(tables)
  BY <1>1, Places DEF BodyPlaces, PatchPlaces
<1>3. Phase(tables, pc')
  BY <1>2, Places DEF BodyPlaces, PatchPlaces
<1>4. Phase(tables, pc)'
  BY <1>3
<1>5. GrammarOf(tables, first)' = GrammarOf(tables, first)
  BY DEF GrammarOf
<1>6. FirstHolds'
  <2>1. FirstHolds
    BY DEF IInv
  <2>. QED
    BY <1>5, <2>1 DEF FirstHolds
<1>7. Sound(tables)'
  BY DEF IInv
<1>. QED
  BY <1>2, <1>4, <1>6, <1>7 DEF AtPlace, BeforeFirst

LEMMA SymbolStep ==
  ASSUME IInv, PatchSymbol
  PROVE  IInv'
<1>1. pc = "patch" /\ pc' = pc /\ tables' = tables /\ first' = first /\ chain = <<>>
  BY DEF PatchSymbol
<1>2. PICK sym \in todo : /\ todo' = todo \ {sym}
                          /\ chain' = tables.symbols[sym].productions
  BY DEF PatchSymbol
<1>3. Sound(tables)' /\ AtPlace' /\ BeforeFirst' /\ FirstHolds'
  BY <1>1, TablesKept DEF PatchPlaces
<1>4. ToPatch
  BY DEF IInv
<1>5. /\ todo \subseteq MINNONTERM .. tables.Cur_nonterm
      /\ \A p \in DOMAIN tables.productions : \A i \in 1 .. Len(tables.productions[p].rhs) :
           IsAct(tables.productions[p].rhs[i]) => tables.productions[p].lhs \in todo
  <2>1. Len(chain) = 0
    BY <1>1
  <2>2. \A k : k \notin 1 .. Len(chain)
    BY <2>1
  <2>. QED
    BY <1>1, <1>4, <2>2 DEF ToPatch, PatchPlaces
<1>6. sym \in DOMAIN tables.symbols
  BY <1>5 DEF IInv, Sound, SymbolsHold, Values
<1>7. IsChain(tables, sym, chain')
  BY <1>2, <1>6 DEF IInv, Sound, Linked
<1>8. \A p \in DOMAIN tables.productions :
        tables.productions[p].lhs = sym => \E k \in 1 .. Len(chain') : chain'[k] = p
  BY <1>7 DEF IsChain
<1>9. chain' \in Seq(DOMAIN tables.productions)
  <2>1. chain' \in Seq(Nat) /\ \A k \in 1 .. Len(chain') : chain'[k] \in DOMAIN tables.productions
    BY <1>7 DEF IsChain
  <2>. QED
    BY <2>1
<1>10. ToPatch'
  BY <1>1, <1>2, <1>5, <1>8, <1>9 DEF ToPatch
<1>. QED
  BY <1>3, <1>10 DEF IInv

LEMMA ReturnsStep ==
  ASSUME IInv, PatchReturns
  PROVE  IInv'
<1>1. /\ pc = "patch" /\ pc' = "tables" /\ tables' = tables /\ first' = first
      /\ chain = <<>> /\ todo = {} /\ chain' = chain /\ todo' = todo
  BY DEF PatchReturns
<1>2. Sound(tables)' /\ AtPlace' /\ BeforeFirst' /\ FirstHolds'
  BY <1>1, TablesKept DEF PatchPlaces
<1>3. ToPatch
  BY DEF IInv
<1>4. ToPatch'
  BY <1>1, <1>3 DEF ToPatch, PatchPlaces
<1>. QED
  BY <1>2, <1>4 DEF IInv

LEMMA TablesStep ==
  ASSUME IInv, MakeParseTables
  PROVE  IInv'
<1>. DEFINE goal == tables.Goal_symbol
<1>1. /\ pc = "tables" /\ first' = first /\ chain' = chain /\ todo' = todo
      /\ Call(IF goal = NULL \/ Len(tables.symbols[goal].productions) > 1
              THEN Fatal(tables) ELSE tables, "lr")
  BY DEF MakeParseTables
<1>2. tables.status = "run" /\ InBody(tables) /\ Sound(tables)
  <2>1. Phase(tables, "tables")
    BY <1>1, HerePhase DEF IInv, AllPlaces, BodyPlaces
  <2>. QED
    BY <2>1, Places DEF BodyPlaces, IInv
<1>3. ToPatch
  BY DEF IInv
<1>4. CASE goal = NULL \/ Len(tables.symbols[goal].productions) > 1
  <2>0. Call(Fatal(tables), "lr")
    BY <1>1, <1>4
  <2>1. /\ Sound(Fatal(tables)) /\ Fatal(tables).status = "exit"
        /\ Fatal(tables).Cur_term = tables.Cur_term
    BY <1>2, FatalSound
  <2>2. tables' = Fatal(tables) /\ pc' = "exit"
    BY <2>0, <2>1 DEF Call
  <2>3. Sound(tables)' /\ AtPlace' /\ BeforeFirst' /\ ToPatch'
    BY <2>1, <2>2 DEF AtPlace, BeforeFirst, ToPatch, PatchPlaces
  <2>4. FirstHolds'
    <3>1. first \in [DOMAIN first -> SUBSET (0 .. tables.Cur_term + 1)]
      BY DEF IInv, FirstHolds
    <3>2. first' \in [DOMAIN first' -> SUBSET (0 .. tables'.Cur_term + 1)]
      BY <1>1, <2>1, <2>2, <3>1
    <3>. QED
      BY <2>2, <3>2 DEF FirstHolds, PatchPlaces
  <2>. QED
    BY <2>3, <2>4 DEF IInv
<1>5. CASE ~(goal = NULL \/ Len(tables.symbols[goal].productions) > 1)
  <2>0. Call(tables, "lr")
    BY <1>1, <1>5
  <2>1. tables' = tables /\ pc' = "lr"
    BY <1>2, <2>0 DEF Call
  <2>2. Sound(tables)' /\ AtPlace' /\ BeforeFirst' /\ FirstHolds'
    BY <1>1, <2>1, TablesKept DEF PatchPlaces
  <2>3. Len(tables.symbols[goal].productions) <= 1
    <3>1. goal \in MINNONTERM .. tables.Cur_nonterm
      BY <1>2, <1>5 DEF InBody, GoalKept
    <3>2. goal \in DOMAIN tables.symbols
      BY <1>2, <3>1 DEF Sound, SymbolsHold, Values
    <3>3. tables.symbols[goal].productions \in Seq(Nat)
      BY <1>2, <3>2 DEF Sound, Linked, IsChain
    <3>. DEFINE linked == tables.symbols[goal].productions
    <3>4. Len(linked) \in Nat
      BY <3>3
    <3>. HIDE DEF linked
    <3>5. ~(Len(linked) > 1)
      BY <1>5 DEF linked
    <3>6. Len(linked) <= 1
      BY <3>4, <3>5
    <3>. QED
      BY <3>6 DEF linked
  <2>4. ToPatch'
    BY <1>1, <1>3, <1>5, <2>1, <2>3 DEF ToPatch, PatchPlaces
  <2>. QED
    BY <2>2, <2>4 DEF IInv
<1>. QED
  BY <1>4, <1>5

----------------------------------------------------------------------------
(***************************************************************************)
(* dopatch(): the numbers of the new nonterminals and productions.         *)
(***************************************************************************)

\* The ranks of the embedded actions are 0, 1, ...
LEMMA Ranks ==
  ASSUME NEW prod, prod.rhs \in Seq(Nat)
  PROVE  LET E == Embedded(prod)
             n == Cardinality(E)
         IN /\ E \subseteq 1 .. Len(prod.rhs)
            /\ IsFiniteSet(E) /\ n \in Nat
            /\ \A i \in E : Rank(prod, i) \in 0 .. n - 1
            /\ \A i, j \in E : Rank(prod, i) = Rank(prod, j) => i = j
            /\ \A k \in 0 .. n - 1 : \E i \in E : Rank(prod, i) = k
<1>. DEFINE E == Embedded(prod)
            n == Cardinality(E)
            Right(i) == {j \in E : j > i}
<1>1. E \subseteq 1 .. Len(prod.rhs) /\ Len(prod.rhs) \in Nat
  BY DEF Embedded
<1>2. IsFiniteSet(E) /\ n \in Nat
  <2>1. IsFiniteSet(1 .. Len(prod.rhs))
    BY <1>1, FS_Interval
  <2>. QED
    BY <1>1, <2>1, FS_Subset, FS_CardinalityType
<1>3. \A i \in E : Rank(prod, i) = Cardinality(Right(i))
  BY DEF Rank
<1>. HIDE DEF E
<1>4. \A S : S \subseteq E => IsFiniteSet(S) /\ Cardinality(S) \in Nat
  BY <1>2, FS_Subset, FS_CardinalityType
<1>5. ASSUME NEW i \in E, NEW S, S \subseteq E \ {i}
      PROVE  Cardinality(S) < n
  <2>1. IsFiniteSet(S) /\ S \in SUBSET E /\ Cardinality(S) \in Nat
    BY <1>4, <1>5
  <2>2. Cardinality(S) <= n /\ (n = Cardinality(S) => S = E)
    BY <1>2, <2>1, FS_Subset
  <2>. QED
    BY <1>2, <1>5, <2>1, <2>2
<1>6. \A i \in E : Rank(prod, i) \in 0 .. n - 1
  <2>. SUFFICES ASSUME NEW i \in E
                PROVE  Rank(prod, i) \in 0 .. n - 1
    OBVIOUS
  <2>1. Right(i) \subseteq E \ {i}
    BY <1>1
  <2>. HIDE DEF Right
  <2>2. Cardinality(Right(i)) < n
    BY <1>5, <2>1
  <2>3. Cardinality(Right(i)) \in Nat
    BY <1>4, <2>1
  <2>. QED
    BY <1>2, <1>3, <2>2, <2>3
<1>7. ASSUME NEW i \in E, NEW j \in E, i < j
      PROVE  Rank(prod, i) # Rank(prod, j)
  <2>1. Right(j) \subseteq Right(i) /\ j \in Right(i) /\ j \notin Right(j) /\ Right(i) \subseteq E
    <3>1. \A k \in E : k \in Int
      BY <1>1
    <3>2. \A k \in E : k > j => k > i
      BY <1>7, <3>1
    <3>. QED
      BY <1>7, <3>1, <3>2
  <2>. HIDE DEF Right
  <2>2. IsFiniteSet(Right(i)) /\ Right(j) \in SUBSET Right(i)
    BY <1>4, <2>1
  <2>3. Cardinality(Right(i)) = Cardinality(Right(j)) => Right(i) = Right(j)
    BY <2>2, FS_Subset
  <2>. QED
    BY <1>3, <2>1, <2>3
<1>8. ASSUME NEW i \in E, NEW j \in E, Rank(prod, i) = Rank(prod, j)
      PROVE  i = j
  <2>1. i < j \/ i = j \/ j < i
    BY <1>1
  <2>. QED
    BY <1>7, <1>8, <2>1
<1>. DEFINE rank == [i \in E |-> Rank(prod, i)]
            below == 0 .. n - 1
<1>9. IsFiniteSet(below) /\ Cardinality(below) = n
  <2>1. PICK low \in Int, high \in Int : low = 0 /\ high = n - 1
    BY <1>2
  <2>2. IsFiniteSet(low .. high) /\ Cardinality(low .. high) = IF low > high THEN 0 ELSE high - low + 1
    BY FS_Interval
  <2>3. (IF low > high THEN 0 ELSE high - low + 1) = n
    BY <1>2, <2>1
  <2>. QED
    BY <2>1, <2>2, <2>3
<1>10. rank \in Injection(E, below)
  BY <1>6, <1>8 DEF Injection, IsInjective
<1>. HIDE DEF below
<1>11. \A i \in E : rank[i] = Rank(prod, i)
  OBVIOUS
<1>. HIDE DEF rank
<1>12. rank \in Surjection(E, below)
  BY <1>2, <1>9, <1>10, FS_Injection
<1>13. \A k \in below : \E i \in E : rank[i] = k
  BY <1>12 DEF Surjection
<1>. QED
  BY <1>1, <1>2, <1>6, <1>8, <1>11, <1>13 DEF E, below

\* The new symbols and productions follow the old ones without a gap.
LEMMA NewNumbers ==
  ASSUME NEW t, Sound(t), NEW prod, prod.rhs \in Seq(Nat)
  PROVE  LET E == Embedded(prod)
             n == Cardinality(E)
         IN /\ n \in Nat
            /\ {NewSymbol(t, prod, i) : i \in E} = t.Cur_nonterm + 1 .. t.Cur_nonterm + n
            /\ {NewProduction(t, prod, i) : i \in E}
                 = t.Num_productions .. t.Num_productions + n - 1
            /\ \A i, j \in E : NewSymbol(t, prod, i) = NewSymbol(t, prod, j) => i = j
            /\ \A i, j \in E : NewProduction(t, prod, i) = NewProduction(t, prod, j) => i = j
            /\ Cardinality({NewSymbol(t, prod, i) : i \in E}) = n
<1>. DEFINE E == Embedded(prod)
            n == Cardinality(E)
<1>1. /\ n \in Nat
      /\ \A i \in E : Rank(prod, i) \in 0 .. n - 1
      /\ \A i, j \in E : Rank(prod, i) = Rank(prod, j) => i = j
      /\ \A k \in 0 .. n - 1 : \E i \in E : Rank(prod, i) = k
  BY Ranks
<1>. HIDE DEF E
<1>2. t.Cur_nonterm \in Nat /\ t.Num_productions \in Nat
  BY Limits DEF Sound, Numbers
<1>. DEFINE c == t.Cur_nonterm
            m == t.Num_productions
<1>3. /\ \A i \in E : NewSymbol(t, prod, i) = c + 1 + Rank(prod, i)
      /\ \A i \in E : NewProduction(t, prod, i) = m + Rank(prod, i)
  BY DEF NewSymbol, NewProduction
<1>. HIDE DEF c, m, n
<1>. DEFINE syms == {NewSymbol(t, prod, i) : i \in E}
            prods == {NewProduction(t, prod, i) : i \in E}
<1>4. c \in Nat /\ m \in Nat
  BY <1>2 DEF c, m
<1>5. ASSUME NEW v \in c + 1 .. c + n
      PROVE  v \in syms
  <2>1. v - (c + 1) \in 0 .. n - 1
    BY <1>1, <1>4
  <2>2. PICK i \in E : Rank(prod, i) = v - (c + 1)
    BY <1>1, <2>1
  <2>. QED
    BY <1>3, <1>4, <2>2
<1>6. ASSUME NEW v \in m .. m + n - 1
      PROVE  v \in prods
  <2>1. v - m \in 0 .. n - 1
    BY <1>1, <1>4
  <2>2. PICK i \in E : Rank(prod, i) = v - m
    BY <1>1, <2>1
  <2>. QED
    BY <1>3, <1>4, <2>2
<1>7. ASSUME NEW i \in E
      PROVE  /\ NewSymbol(t, prod, i) \in c + 1 .. c + n
             /\ NewProduction(t, prod, i) \in m .. m + n - 1
  <2>1. PICK r \in 0 .. n - 1 : r = Rank(prod, i)
    BY <1>1
  <2>2. NewSymbol(t, prod, i) = c + 1 + r /\ NewProduction(t, prod, i) = m + r
    BY <1>3, <2>1
  <2>. HIDE DEF prods, syms
  <2>. QED
    BY <1>1, <1>4, <2>1, <2>2
<1>8. syms = c + 1 .. c + n /\ prods = m .. m + n - 1
  BY <1>5, <1>6, <1>7
<1>9. ASSUME NEW i \in E, NEW j \in E
      PROVE  /\ NewSymbol(t, prod, i) = NewSymbol(t, prod, j) => i = j
             /\ NewProduction(t, prod, i) = NewProduction(t, prod, j) => i = j
  <2>1. PICK r \in 0 .. n - 1 : r = Rank(prod, i)
    BY <1>1
  <2>2. PICK r2 \in 0 .. n - 1 : r2 = Rank(prod, j)
    BY <1>1
  <2>3. /\ NewSymbol(t, prod, i) = c + 1 + r /\ NewProduction(t, prod, i) = m + r
        /\ NewSymbol(t, prod, j) = c + 1 + r2 /\ NewProduction(t, prod, j) = m + r2
    BY <1>3, <2>1, <2>2
  <2>4. c + 1 + r = c + 1 + r2 => r = r2
    BY <1>4, <2>1, <2>2
  <2>5. m + r = m + r2 => r = r2
    BY <1>4, <2>1, <2>2
  <2>. QED
    BY <1>1, <2>1, <2>2, <2>3, <2>4, <2>5
<1>. HIDE DEF syms, prods
<1>10. Cardinality(c + 1 .. c + n) = n
  BY <1>1, <1>4, FS_Interval
<1>11. Cardinality(syms) = n
  BY <1>8, <1>10
<1>. QED
  BY <1>1, <1>8, <1>9, <1>11 DEF E, c, m, n, syms, prods

\* A right-hand side behind dopatch(): no action is left in it.
Dropped(prod) == IF EndsWithAction(prod) THEN 1 ELSE 0

LEMMA RhsAfterFacts ==
  ASSUME NEW t, Sound(t), NEW prod, IsProduction(t, prod)
  PROVE  LET E   == Embedded(prod)
             new == RhsAfter(t, prod)
         IN /\ new \in Seq(Nat)
            /\ Len(new) = Len(prod.rhs) - Dropped(prod)
            /\ Len(new) <= prod.rhs_len - Dropped(prod)
            /\ prod.rhs_len - Dropped(prod) \in Nat
            /\ E \subseteq 1 .. Len(new)
            /\ \A i \in E : IsAct(prod.rhs[i]) /\ new[i] = NewSymbol(t, prod, i)
            /\ \A i \in 1 .. Len(new) : i \notin E => new[i] = prod.rhs[i] /\ ~IsAct(prod.rhs[i])
            /\ \A i \in 1 .. Len(prod.rhs) : i > Len(new) => IsAct(prod.rhs[i])
<1>. DEFINE E    == Embedded(prod)
            rhs  == prod.rhs
            kept == Len(rhs) - Dropped(prod)
            new  == RhsAfter(t, prod)
<1>1. /\ rhs \in Seq(Nat) /\ prod.rhs_len \in Nat /\ Len(rhs) <= prod.rhs_len
      /\ Len(rhs) \in Nat /\ \A i \in 1 .. Len(rhs) : rhs[i] \in Nat
  BY DEF IsProduction
<1>2. new = [i \in 1 .. kept |-> IF i \in E THEN NewSymbol(t, prod, i) ELSE rhs[i]]
  BY DEF RhsAfter, Dropped
<1>3. EndsWithAction(prod) <=> prod.rhs_len \in 1 .. Len(rhs) /\ IsAct(rhs[prod.rhs_len])
  BY DEF EndsWithAction
<1>4. E = {i \in 1 .. Len(rhs) : IsAct(rhs[i]) /\ ~(EndsWithAction(prod) /\ i = prod.rhs_len)}
  BY DEF Embedded
<1>5. \A i \in E : NewSymbol(t, prod, i) \in Nat
  <2>1. t.Cur_nonterm \in Nat
    BY Limits DEF Sound, Numbers
  <2>2. \A i \in E : Rank(prod, i) \in Nat
    BY <1>1, Ranks
  <2>. QED
    BY <2>1, <2>2 DEF NewSymbol
<1>. HIDE DEF E, rhs, new
<1>6. EndsWithAction(prod) => prod.rhs_len = Len(rhs)
  BY <1>1, <1>3
<1>7. kept \in Nat /\ (EndsWithAction(prod) => kept = Len(rhs) - 1)
      /\ (~EndsWithAction(prod) => kept = Len(rhs))
  BY <1>1, <1>3, <1>6 DEF Dropped
<1>8. E \subseteq 1 .. kept
  <2>. SUFFICES ASSUME NEW i \in E
                PROVE  i \in 1 .. kept
    OBVIOUS
  <2>1. i \in 1 .. Len(rhs) /\ ~(EndsWithAction(prod) /\ i = prod.rhs_len)
    BY <1>4
  <2>2. CASE EndsWithAction(prod)
    BY <1>1, <1>6, <1>7, <2>1, <2>2
  <2>3. CASE ~EndsWithAction(prod)
    BY <1>7, <2>1, <2>3
  <2>. QED
    BY <2>2, <2>3
<1>9. ASSUME NEW i \in 1 .. kept
      PROVE  i \in 1 .. Len(rhs) /\ (i \notin E => ~IsAct(rhs[i]))
  <2>1. i \in 1 .. Len(rhs)
    BY <1>1, <1>7
  <2>2. ~(EndsWithAction(prod) /\ i = prod.rhs_len)
    BY <1>1, <1>6, <1>7
  <2>. QED
    BY <1>4, <2>1, <2>2
<1>10. \A i \in 1 .. Len(rhs) : i > kept => IsAct(rhs[i])
  <2>. SUFFICES ASSUME NEW i \in 1 .. Len(rhs), i > kept
                PROVE  IsAct(rhs[i])
    OBVIOUS
  <2>1. EndsWithAction(prod) /\ i = Len(rhs)
    BY <1>1, <1>7
  <2>. QED
    BY <1>3, <1>6, <2>1
<1>11. kept <= prod.rhs_len - Dropped(prod) /\ prod.rhs_len - Dropped(prod) \in Nat
  BY <1>1, <1>3, <1>7 DEF Dropped
<1>. HIDE DEF kept
<1>12. \A i \in 1 .. kept : new[i] = IF i \in E THEN NewSymbol(t, prod, i) ELSE rhs[i]
  BY <1>2
<1>13. new \in Seq(Nat) /\ Len(new) = kept
  <2>1. new \in [1 .. kept -> Nat]
    BY <1>1, <1>2, <1>5, <1>9
  <2>. QED
    BY <1>7, <2>1
<1>14. /\ Len(new) = kept
       /\ \A i \in E : IsAct(rhs[i]) /\ new[i] = NewSymbol(t, prod, i)
       /\ \A i \in 1 .. kept : i \notin E => new[i] = rhs[i] /\ ~IsAct(rhs[i])
  BY <1>4, <1>8, <1>9, <1>12, <1>13
<1>15. kept = Len(prod.rhs) - Dropped(prod)
  BY DEF kept, rhs
<1>. QED
  BY <1>8, <1>10, <1>11, <1>13, <1>14, <1>15 DEF E, rhs, new

LEMMA ProductionsAfterFacts ==
  ASSUME NEW t, Sound(t), NEW p \in DOMAIN t.productions
  PROVE  LET prod == t.productions[p]
             E    == Embedded(prod)
             new  == ProductionsAfter(t, p)
         IN /\ DOMAIN new = 0 .. t.Num_productions + Cardinality(E) - 1
            /\ \A q \in DOMAIN t.productions \ {p} : new[q] = t.productions[q]
            /\ DOMAIN new[p] = ProductionFields
            /\ new[p].lhs = prod.lhs /\ new[p].rhs = RhsAfter(t, prod)
            /\ new[p].rhs_len = prod.rhs_len - Dropped(prod)
            /\ \A i \in E :
                 new[NewProduction(t, prod, i)] =
                   [lhs |-> NewSymbol(t, prod, i), rhs |-> <<>>, rhs_len |-> 0, prec |-> 0]
            /\ \A q \in DOMAIN new :
                 q \in DOMAIN t.productions \/ \E i \in E : q = NewProduction(t, prod, i)
<1>. DEFINE prod == t.productions[p]
            E    == Embedded(prod)
            n    == Cardinality(E)
            m    == t.Num_productions
            new  == {NewProduction(t, prod, i) : i \in E}
            position(q) == CHOOSE i \in E : NewProduction(t, prod, i) = q
            P    == ProductionsAfter(t, p)
            rewritten == [prod EXCEPT !.rhs = RhsAfter(t, prod), !.rhs_len = @ - Dropped(prod)]
            empty(i) == [lhs |-> NewSymbol(t, prod, i), rhs |-> <<>>, rhs_len |-> 0, prec |-> 0]
<1>1. /\ m \in Nat /\ DOMAIN t.productions = 0 .. m - 1 /\ IsProduction(t, prod)
  BY DEF Sound, Numbers, ProductionsHold
<1>2. prod.rhs \in Seq(Nat) /\ DOMAIN prod = ProductionFields
  BY <1>1 DEF IsProduction
<1>3. /\ n \in Nat /\ new = m .. m + n - 1
      /\ \A i, j \in E : NewProduction(t, prod, i) = NewProduction(t, prod, j) => i = j
  BY <1>2, NewNumbers
<1>4. P = [q \in DOMAIN t.productions \cup new |->
             CASE q \in new -> empty(position(q))
               [] q = p -> rewritten
               [] OTHER -> t.productions[q]]
  BY DEF ProductionsAfter, Dropped
<1>5. /\ DOMAIN rewritten = ProductionFields /\ rewritten.lhs = prod.lhs
      /\ rewritten.rhs = RhsAfter(t, prod) /\ rewritten.rhs_len = prod.rhs_len - Dropped(prod)
  BY <1>2 DEF ProductionFields
<1>6. \A i \in E : NewProduction(t, prod, i) \in new /\ position(NewProduction(t, prod, i)) = i
  <2>. SUFFICES ASSUME NEW i \in E
                PROVE  position(NewProduction(t, prod, i)) = i
    OBVIOUS
  <2>1. position(NewProduction(t, prod, i)) \in E
        /\ NewProduction(t, prod, position(NewProduction(t, prod, i))) = NewProduction(t, prod, i)
    OBVIOUS
  <2>. HIDE DEF position
  <2>. QED
    BY <1>3, <2>1
<1>7. \A q \in new : \E i \in E : q = NewProduction(t, prod, i)
  OBVIOUS
<1>. HIDE DEF P, rewritten, empty, position, n, E, new
<1>8. \A q \in new : q \notin DOMAIN t.productions
  BY <1>1, <1>3
<1>9. DOMAIN P = DOMAIN t.productions \cup new
  BY <1>4
<1>10. \A q \in new : P[q] = empty(position(q))
  <2>. SUFFICES ASSUME NEW q \in new
                PROVE  P[q] = empty(position(q))
    OBVIOUS
  <2>1. q \in DOMAIN t.productions \cup new /\ q # p
    BY <1>8
  <2>2. P[q] = CASE q \in new -> empty(position(q))
                 [] q = p -> rewritten
                 [] OTHER -> t.productions[q]
    BY <1>4, <2>1
  <2>. QED
    BY <2>1, <2>2
<1>11. P[p] = rewritten /\ \A q \in DOMAIN t.productions \ {p} : P[q] = t.productions[q]
  BY <1>4, <1>8
<1>12. DOMAIN P = 0 .. m + n - 1
  BY <1>1, <1>3, <1>9
<1>13. \A i \in E : P[NewProduction(t, prod, i)] = empty(i)
  BY <1>6, <1>10
<1>. QED
  BY <1>5, <1>7, <1>9, <1>11, <1>12, <1>13 DEF P, empty, n, E

LEMMA SymbolsAfterFacts ==
  ASSUME NEW t, Sound(t), NEW prod, IsProduction(t, prod)
  PROVE  LET E       == Embedded(prod)
             actions == {prod.rhs[i] : i \in {j \in DOMAIN prod.rhs : IsAct(prod.rhs[j])}}
             added   == t.Cur_nonterm + 1 .. t.Cur_nonterm + Cardinality(E)
             new     == SymbolsAfter(t, prod)
         IN /\ DOMAIN new = (DOMAIN t.symbols \ actions) \cup added
            /\ \A v \in DOMAIN new \ added : new[v] = t.symbols[v]
            /\ \A v \in added : \E i \in E : v = NewSymbol(t, prod, i)
            /\ \A i \in E : /\ NewSymbol(t, prod, i) \in added
                            /\ DOMAIN new[NewSymbol(t, prod, i)] = SymbolFields
                            /\ new[NewSymbol(t, prod, i)].productions
                                 = <<NewProduction(t, prod, i)>>
<1>. DEFINE E       == Embedded(prod)
            actions == {prod.rhs[i] : i \in {j \in DOMAIN prod.rhs : IsAct(prod.rhs[j])}}
            added   == t.Cur_nonterm + 1 .. t.Cur_nonterm + Cardinality(E)
            new     == {NewSymbol(t, prod, i) : i \in E}
            position(v) == CHOOSE i \in E : NewSymbol(t, prod, i) = v
            symbol(i) == [t.symbols[prod.rhs[i]] EXCEPT !.productions = <<NewProduction(t, prod, i)>>]
            S       == SymbolsAfter(t, prod)
<1>1. /\ prod.rhs \in Seq(Nat) /\ \A i \in 1 .. Len(prod.rhs) : prod.rhs[i] \in DOMAIN t.symbols
      /\ \A v \in DOMAIN t.symbols : DOMAIN t.symbols[v] = SymbolFields
  BY DEF Sound, SymbolsHold, IsProduction
<1>2. /\ new = added /\ E \subseteq 1 .. Len(prod.rhs)
      /\ \A i, j \in E : NewSymbol(t, prod, i) = NewSymbol(t, prod, j) => i = j
  BY <1>1, NewNumbers, Ranks
<1>3. S = [v \in (DOMAIN t.symbols \ actions) \cup new |->
             IF v \in new THEN symbol(position(v)) ELSE t.symbols[v]]
  BY DEF SymbolsAfter
<1>4. \A i \in E : NewSymbol(t, prod, i) \in new /\ position(NewSymbol(t, prod, i)) = i
  <2>. SUFFICES ASSUME NEW i \in E
                PROVE  position(NewSymbol(t, prod, i)) = i
    OBVIOUS
  <2>1. position(NewSymbol(t, prod, i)) \in E
        /\ NewSymbol(t, prod, position(NewSymbol(t, prod, i))) = NewSymbol(t, prod, i)
    OBVIOUS
  <2>. HIDE DEF position
  <2>. QED
    BY <1>2, <2>1
<1>5. \A v \in new : \E i \in E : v = NewSymbol(t, prod, i)
  OBVIOUS
<1>6. \A i \in E : /\ DOMAIN symbol(i) = SymbolFields
                   /\ symbol(i).productions = <<NewProduction(t, prod, i)>>
  <2>. SUFFICES ASSUME NEW i \in E
                PROVE  /\ DOMAIN symbol(i) = SymbolFields
                       /\ symbol(i).productions = <<NewProduction(t, prod, i)>>
    OBVIOUS
  <2>. DEFINE old == t.symbols[prod.rhs[i]]
              linked == <<NewProduction(t, prod, i)>>
  <2>1. DOMAIN old = SymbolFields
    BY <1>1, <1>2
  <2>. HIDE DEF old, linked
  <2>2. DOMAIN [old EXCEPT !.productions = linked] = SymbolFields
        /\ [old EXCEPT !.productions = linked].productions = linked
    BY <2>1 DEF SymbolFields
  <2>. QED
    BY <2>2 DEF old, linked
<1>. HIDE DEF S, symbol, position, E, new, added, actions
<1>7. DOMAIN S = (DOMAIN t.symbols \ actions) \cup new
  BY <1>3
<1>8. \A v \in DOMAIN S \ new : S[v] = t.symbols[v]
  BY <1>3, <1>7
<1>9. \A i \in E : S[NewSymbol(t, prod, i)] = symbol(i)
  BY <1>3, <1>4
<1>. QED
  BY <1>2, <1>4, <1>5, <1>6, <1>7, <1>8, <1>9 DEF S, E, added, actions

----------------------------------------------------------------------------
(***************************************************************************)
(* The tables behind dopatch(), as the proofs read them.                   *)
(***************************************************************************)
Acts(prod) == {prod.rhs[i] : i \in {j \in DOMAIN prod.rhs : IsAct(prod.rhs[j])}}

AddedSymbols(t, prod) ==
  t.Cur_nonterm + 1 .. t.Cur_nonterm + Cardinality(Embedded(prod))

AddedProductions(t, prod) ==
  t.Num_productions .. t.Num_productions + Cardinality(Embedded(prod)) - 1

\* rhs2 is rhs without the action at its end and with symbols of `added' for the others.
ActionsGone(rhs, rhs2, added) ==
  /\ Len(rhs2) <= Len(rhs)
  /\ \A i \in 1 .. Len(rhs2) : \/ rhs2[i] = rhs[i] /\ ~IsAct(rhs[i])
                               \/ rhs2[i] \in added /\ IsAct(rhs[i])
  /\ \A i \in 1 .. Len(rhs) : i > Len(rhs2) => IsAct(rhs[i])

CountsAfter(t, prod, u) ==
  /\ Cardinality(Embedded(prod)) \in Nat
  /\ DOMAIN u = TableFields
  /\ u.Cur_nonterm = t.Cur_nonterm + Cardinality(Embedded(prod))
  /\ u.Num_productions = t.Num_productions + Cardinality(Embedded(prod))
  /\ \A f \in TableFields \ {"symbols", "productions", "Cur_nonterm", "Num_productions"} :
       u[f] = t[f]

NewOnesAfter(t, prod, u) ==
  /\ \A v \in AddedSymbols(t, prod) :
       /\ DOMAIN u.symbols[v] = SymbolFields
       /\ \E q \in AddedProductions(t, prod) :
            /\ u.symbols[v].productions = <<q>>
            /\ u.productions[q].lhs = v
            /\ \A q2 \in AddedProductions(t, prod) : u.productions[q2].lhs = v => q2 = q
  /\ \A q \in AddedProductions(t, prod) :
       /\ DOMAIN u.productions[q] = ProductionFields
       /\ u.productions[q].lhs \in AddedSymbols(t, prod)
       /\ u.productions[q].rhs = <<>>
       /\ u.productions[q].rhs_len = 0

OldOnesAfter(t, p, u) ==
  LET prod == t.productions[p]
  IN /\ DOMAIN u.symbols = (DOMAIN t.symbols \ Acts(prod)) \cup AddedSymbols(t, prod)
     /\ \A v \in DOMAIN u.symbols \ AddedSymbols(t, prod) : u.symbols[v] = t.symbols[v]
     /\ DOMAIN u.productions = DOMAIN t.productions \cup AddedProductions(t, prod)
     /\ \A q \in DOMAIN t.productions \ {p} : u.productions[q] = t.productions[q]
     /\ DOMAIN u.productions[p] = ProductionFields
     /\ u.productions[p].lhs = prod.lhs
     /\ u.productions[p].rhs \in Seq(Nat)
     /\ u.productions[p].rhs_len \in Nat
     /\ Len(u.productions[p].rhs) <= u.productions[p].rhs_len
     /\ ActionsGone(prod.rhs, u.productions[p].rhs, AddedSymbols(t, prod))

PatchedAs(t, p, u) ==
  /\ CountsAfter(t, t.productions[p], u)
  /\ OldOnesAfter(t, p, u)
  /\ NewOnesAfter(t, t.productions[p], u)

LEMMA PatchedFacts ==
  ASSUME NEW t, Sound(t), NEW p \in DOMAIN t.productions
  PROVE  PatchedAs(t, p, Patched(t, p))
<1>. DEFINE prod == t.productions[p]
            E    == Embedded(prod)
            n    == Cardinality(E)
            S    == SymbolsAfter(t, prod)
            P    == ProductionsAfter(t, p)
            u    == Patched(t, p)
            syms == AddedSymbols(t, prod)
            prods == AddedProductions(t, prod)
<1>1. /\ DOMAIN t = TableFields /\ IsProduction(t, prod)
      /\ t.Cur_nonterm \in Int /\ t.Num_productions \in Nat
      /\ DOMAIN t.productions = 0 .. t.Num_productions - 1
  BY Limits DEF Sound, Numbers, ProductionsHold
<1>2. prod.rhs \in Seq(Nat)
  BY <1>1 DEF IsProduction
<1>3. /\ n \in Nat
      /\ {NewSymbol(t, prod, i) : i \in E} = syms
      /\ {NewProduction(t, prod, i) : i \in E} = prods
      /\ \A i, j \in E : NewSymbol(t, prod, i) = NewSymbol(t, prod, j) => i = j
  BY <1>1, <1>2, NewNumbers DEF AddedSymbols, AddedProductions
<1>4. /\ DOMAIN S = (DOMAIN t.symbols \ Acts(prod)) \cup syms
      /\ \A v \in DOMAIN S \ syms : S[v] = t.symbols[v]
      /\ \A v \in syms : \E i \in E : v = NewSymbol(t, prod, i)
      /\ \A i \in E : /\ NewSymbol(t, prod, i) \in syms
                      /\ DOMAIN S[NewSymbol(t, prod, i)] = SymbolFields
                      /\ S[NewSymbol(t, prod, i)].productions
                           = <<NewProduction(t, prod, i)>>
  BY <1>1, SymbolsAfterFacts DEF Acts, AddedSymbols
<1>5. /\ DOMAIN P = 0 .. t.Num_productions + n - 1
      /\ \A q \in DOMAIN t.productions \ {p} : P[q] = t.productions[q]
      /\ DOMAIN P[p] = ProductionFields
      /\ P[p].lhs = prod.lhs /\ P[p].rhs = RhsAfter(t, prod)
      /\ P[p].rhs_len = prod.rhs_len - Dropped(prod)
      /\ \A i \in E :
           P[NewProduction(t, prod, i)] =
             [lhs |-> NewSymbol(t, prod, i), rhs |-> <<>>, rhs_len |-> 0, prec |-> 0]
  BY ProductionsAfterFacts
<1>6. LET new == RhsAfter(t, prod)
      IN /\ new \in Seq(Nat)
         /\ Len(new) = Len(prod.rhs) - Dropped(prod)
         /\ Len(new) <= prod.rhs_len - Dropped(prod)
         /\ prod.rhs_len - Dropped(prod) \in Nat
         /\ E \subseteq 1 .. Len(new)
         /\ \A i \in E : IsAct(prod.rhs[i]) /\ new[i] = NewSymbol(t, prod, i)
         /\ \A i \in 1 .. Len(new) : i \notin E => new[i] = prod.rhs[i] /\ ~IsAct(prod.rhs[i])
         /\ \A i \in 1 .. Len(prod.rhs) : i > Len(new) => IsAct(prod.rhs[i])
  BY <1>1, RhsAfterFacts
<1>. HIDE DEF S, P
<1>7. u = [t EXCEPT !.symbols = S, !.productions = P, !.Cur_nonterm = @ + n,
                    !.Num_productions = @ + n]
  BY DEF Patched, S, P
<1>8. /\ DOMAIN u = TableFields /\ u.symbols = S /\ u.productions = P
      /\ u.Cur_nonterm = t.Cur_nonterm + n /\ u.Num_productions = t.Num_productions + n
      /\ \A f \in TableFields \ {"symbols", "productions", "Cur_nonterm", "Num_productions"} :
           u[f] = t[f]
  <2>. HIDE DEF u, n
  <2>. QED
    BY <1>1, <1>7 DEF TableFields
<1>. HIDE DEF u
<1>9. CountsAfter(t, prod, u)
  BY <1>3, <1>8 DEF CountsAfter
<1>10. NewOnesAfter(t, prod, u)
  <2>. HIDE DEF syms, prods, E, prod
  <2>1. \A i \in E : NewSymbol(t, prod, i) \in syms /\ NewProduction(t, prod, i) \in prods
    BY <1>3
  <2>2. \A q \in prods : \E i \in E : q = NewProduction(t, prod, i)
    BY <1>3
  <2>3. \A i \in E : /\ DOMAIN P[NewProduction(t, prod, i)] = ProductionFields
                     /\ P[NewProduction(t, prod, i)].lhs = NewSymbol(t, prod, i)
                     /\ P[NewProduction(t, prod, i)].rhs = <<>>
                     /\ P[NewProduction(t, prod, i)].rhs_len = 0
    <3>. SUFFICES ASSUME NEW i \in E
                  PROVE  /\ DOMAIN P[NewProduction(t, prod, i)] = ProductionFields
                         /\ P[NewProduction(t, prod, i)].lhs = NewSymbol(t, prod, i)
                         /\ P[NewProduction(t, prod, i)].rhs = <<>>
                         /\ P[NewProduction(t, prod, i)].rhs_len = 0
      OBVIOUS
    <3>1. P[NewProduction(t, prod, i)] =
            [lhs |-> NewSymbol(t, prod, i), rhs |-> <<>>, rhs_len |-> 0, prec |-> 0]
      BY <1>5
    <3>. QED
      BY <3>1 DEF ProductionFields
  <2>4. ASSUME NEW v \in syms
        PROVE  /\ DOMAIN u.symbols[v] = SymbolFields
               /\ \E q \in prods : /\ u.symbols[v].productions = <<q>>
                                   /\ u.productions[q].lhs = v
                                   /\ \A q2 \in prods : u.productions[q2].lhs = v => q2 = q
    <3>1. PICK i \in E : v = NewSymbol(t, prod, i)
      BY <1>4
    <3>. DEFINE q == NewProduction(t, prod, i)
    <3>2. /\ q \in prods /\ u.symbols[v].productions = <<q>> /\ u.productions[q].lhs = v
          /\ DOMAIN u.symbols[v] = SymbolFields
      BY <1>4, <1>8, <2>1, <2>3, <3>1
    <3>3. \A q2 \in prods : u.productions[q2].lhs = v => q2 = q
      BY <1>3, <1>8, <2>2, <2>3, <3>1
    <3>. HIDE DEF q
    <3>. QED
      BY <3>2, <3>3
  <2>5. \A q \in prods : /\ DOMAIN u.productions[q] = ProductionFields
                         /\ u.productions[q].lhs \in syms
                         /\ u.productions[q].rhs = <<>>
                         /\ u.productions[q].rhs_len = 0
    BY <1>8, <2>1, <2>2, <2>3
  <2>. QED
    BY <2>4, <2>5 DEF NewOnesAfter, syms, prods
<1>11. OldOnesAfter(t, p, u)
  <2>1. DOMAIN u.productions = DOMAIN t.productions \cup prods
    <3>. HIDE DEF n
    <3>. QED
      BY <1>1, <1>3, <1>5, <1>8 DEF AddedProductions, n
  <2>. DEFINE new == RhsAfter(t, prod)
  <2>2. ActionsGone(prod.rhs, new, syms)
    <3>1. Len(new) <= Len(prod.rhs)
      <4>1. Len(prod.rhs) \in Nat
        BY <1>2
      <4>2. Dropped(prod) \in {0, 1} /\ Len(new) = Len(prod.rhs) - Dropped(prod)
        BY <1>6 DEF Dropped
      <4>. QED
        BY <4>1, <4>2
    <3>2. \A i \in 1 .. Len(new) : \/ new[i] = prod.rhs[i] /\ ~IsAct(prod.rhs[i])
                                   \/ new[i] \in syms /\ IsAct(prod.rhs[i])
      <4>1. \A i \in E : new[i] \in syms /\ IsAct(prod.rhs[i])
        BY <1>3, <1>6
      <4>. HIDE DEF E, new, syms
      <4>. QED
        BY <1>6, <4>1 DEF new
    <3>. HIDE DEF new, syms
    <3>. QED
      BY <1>6, <3>1, <3>2 DEF ActionsGone, new
  <2>3. u.productions[p].rhs = new
    BY <1>5, <1>8
  <2>. HIDE DEF new, prods, syms
  <2>. QED
    BY <1>4, <1>5, <1>6, <1>8, <2>1, <2>2, <2>3 DEF OldOnesAfter, new, prods, syms
<1>. QED
  BY <1>9, <1>10, <1>11 DEF PatchedAs, u

\* What a patched production and the new ones leave of the numbers.
LEMMA PatchedNumbers ==
  ASSUME NEW t, Sound(t), NEW p \in DOMAIN t.productions, NEW u, PatchedAs(t, p, u)
  PROVE  /\ t.Cur_nonterm \in Int /\ t.Cur_nonterm >= MINNONTERM - 1
         /\ u.Cur_nonterm \in Int /\ u.Cur_nonterm >= t.Cur_nonterm
         /\ t.Num_productions \in Nat
         /\ u.Num_productions \in Nat /\ u.Num_productions >= t.Num_productions
         /\ AddedSymbols(t, t.productions[p]) = t.Cur_nonterm + 1 .. u.Cur_nonterm
         /\ AddedProductions(t, t.productions[p]) = t.Num_productions .. u.Num_productions - 1
         /\ DOMAIN t.productions = 0 .. t.Num_productions - 1
         /\ DOMAIN u.productions = 0 .. u.Num_productions - 1
<1>1. /\ t.Cur_nonterm \in Int /\ t.Cur_nonterm >= MINNONTERM - 1 /\ t.Num_productions \in Nat
      /\ DOMAIN t.productions = 0 .. t.Num_productions - 1
  BY Limits DEF Sound, Numbers, ProductionsHold
<1>. DEFINE n     == Cardinality(Embedded(t.productions[p]))
            last  == t.Cur_nonterm + n
            total == t.Num_productions + n
<1>2. /\ n \in Nat /\ u.Cur_nonterm = last /\ u.Num_productions = total
      /\ AddedSymbols(t, t.productions[p]) = t.Cur_nonterm + 1 .. last
      /\ AddedProductions(t, t.productions[p]) = t.Num_productions .. total - 1
      /\ DOMAIN u.productions = DOMAIN t.productions \cup AddedProductions(t, t.productions[p])
  <2>1. n \in Nat /\ u.Cur_nonterm = last /\ u.Num_productions = total
    BY DEF PatchedAs, CountsAfter
  <2>2. /\ AddedSymbols(t, t.productions[p]) = t.Cur_nonterm + 1 .. last
        /\ AddedProductions(t, t.productions[p]) = t.Num_productions .. total - 1
    <3>. HIDE DEF n
    <3>1. total - 1 = t.Num_productions + (n - 1)
      <4>1. t.Num_productions \in Nat /\ n \in Nat
        BY <1>1, <2>1
      <4>2. \A a, b \in Nat : (a + b) - 1 = a + (b - 1)
        OBVIOUS
      <4>. QED
        BY <4>1, <4>2
    <3>. HIDE DEF total
    <3>. QED
      BY <3>1, Zenon DEF AddedSymbols, AddedProductions, n
  <2>3. DOMAIN u.productions = DOMAIN t.productions \cup AddedProductions(t, t.productions[p])
    BY DEF PatchedAs, OldOnesAfter
  <2>. QED
    BY <2>1, <2>2, <2>3
<1>. HIDE DEF n
<1>3. DOMAIN u.productions = 0 .. u.Num_productions - 1
  BY <1>1, <1>2
<1>4. /\ u.Cur_nonterm \in Int /\ u.Cur_nonterm >= t.Cur_nonterm
      /\ u.Num_productions \in Nat /\ u.Num_productions >= t.Num_productions
  <2>1. /\ n \in Nat /\ u.Cur_nonterm = last /\ u.Num_productions = total
    BY <1>2
  <2>2. t.Cur_nonterm \in Int /\ t.Num_productions \in Nat
    BY <1>1
  <2>. QED
    BY <2>1, <2>2
<1>5. /\ AddedSymbols(t, t.productions[p]) = t.Cur_nonterm + 1 .. u.Cur_nonterm
      /\ AddedProductions(t, t.productions[p]) = t.Num_productions .. u.Num_productions - 1
  <2>. HIDE DEF last, total
  <2>. QED
    BY <1>2, Zenon
<1>. QED
  BY <1>1, <1>3, <1>4, <1>5

\* The new symbols are no actions.
LEMMA AddedNonterms ==
  ASSUME NEW t, Sound(t), NEW p \in DOMAIN t.productions, NEW u, PatchedAs(t, p, u),
         u.Cur_nonterm <= MAXNONTERM
  PROVE  \A v \in AddedSymbols(t, t.productions[p]) : ~IsAct(v)
<1>1. /\ t.Cur_nonterm \in Int /\ u.Cur_nonterm \in Int
      /\ AddedSymbols(t, t.productions[p]) = t.Cur_nonterm + 1 .. u.Cur_nonterm
  BY PatchedNumbers
<1>2. MAXNONTERM \in Int /\ MAXNONTERM < MINACT /\ MINACT \in Int
  BY Limits
<1>3. \A a, b, limit, least \in Int :
        b <= limit /\ limit < least => \A v \in a + 1 .. b : ~(v >= least)
  OBVIOUS
<1>4. \A v \in t.Cur_nonterm + 1 .. u.Cur_nonterm : ~(v >= MINACT)
  BY <1>1, <1>2, <1>3
<1>. QED
  BY <1>1, <1>4 DEF IsAct

\* No action is left in a patched or a new production.
LEMMA PatchedActs ==
  ASSUME NEW t, Sound(t), NEW p \in DOMAIN t.productions, NEW u, PatchedAs(t, p, u),
         u.Cur_nonterm <= MAXNONTERM,
         NEW q \in DOMAIN u.productions, NEW i \in 1 .. Len(u.productions[q].rhs),
         IsAct(u.productions[q].rhs[i])
  PROVE  /\ q \in DOMAIN t.productions \ {p}
         /\ u.productions[q] = t.productions[q]
<1>. DEFINE prod  == t.productions[p]
            syms  == AddedSymbols(t, prod)
            prods == AddedProductions(t, prod)
<1>1. /\ t.Cur_nonterm \in Int /\ t.Cur_nonterm >= MINNONTERM - 1
      /\ u.Cur_nonterm \in Int
      /\ syms = t.Cur_nonterm + 1 .. u.Cur_nonterm
  BY PatchedNumbers
<1>2. /\ DOMAIN u.productions = DOMAIN t.productions \cup prods
      /\ \A r \in DOMAIN t.productions \ {p} : u.productions[r] = t.productions[r]
      /\ ActionsGone(prod.rhs, u.productions[p].rhs, syms)
  BY DEF PatchedAs, OldOnesAfter
<1>3. \A r \in prods : u.productions[r].rhs = <<>>
  BY DEF PatchedAs, NewOnesAfter
<1>. HIDE DEF prod, syms, prods
<1>4. \A v \in syms : ~IsAct(v)
  BY AddedNonterms DEF syms, prod
<1>5. q # p
  <2>. SUFFICES ASSUME q = p
                PROVE  FALSE
    OBVIOUS
  <2>. QED
    BY <1>2, <1>4 DEF ActionsGone
<1>6. q \notin prods
  <2>. SUFFICES ASSUME q \in prods
                PROVE  FALSE
    OBVIOUS
  <2>1. Len(u.productions[q].rhs) = 0
    BY <1>3
  <2>. QED
    BY <2>1
<1>. QED
  BY <1>2, <1>5, <1>6

LEMMA PatchedSound ==
  ASSUME NEW t, Sound(t), NEW p \in DOMAIN t.productions, NEW u, PatchedAs(t, p, u),
         u.Cur_nonterm <= MAXNONTERM
  PROVE  Sound(u)
<1>. DEFINE prod  == t.productions[p]
            syms  == AddedSymbols(t, prod)
            prods == AddedProductions(t, prod)
<1>1. /\ t.Cur_nonterm \in Int /\ t.Cur_nonterm >= MINNONTERM - 1
      /\ u.Cur_nonterm \in Int /\ u.Cur_nonterm >= t.Cur_nonterm
      /\ t.Num_productions \in Nat
      /\ u.Num_productions \in Nat /\ u.Num_productions >= t.Num_productions
      /\ syms = t.Cur_nonterm + 1 .. u.Cur_nonterm
      /\ prods = t.Num_productions .. u.Num_productions - 1
      /\ DOMAIN t.productions = 0 .. t.Num_productions - 1
      /\ DOMAIN u.productions = 0 .. u.Num_productions - 1
  BY PatchedNumbers
<1>2. /\ DOMAIN u = TableFields /\ u.Cur_term = t.Cur_term /\ u.Cur_act = t.Cur_act
      /\ u.yynerrs = t.yynerrs /\ u.status = t.status
  BY DEF PatchedAs, CountsAfter, TableFields
<1>3. /\ DOMAIN u.symbols = (DOMAIN t.symbols \ Acts(prod)) \cup syms
      /\ \A v \in DOMAIN u.symbols \ syms : u.symbols[v] = t.symbols[v]
      /\ DOMAIN u.productions = DOMAIN t.productions \cup prods
      /\ \A q \in DOMAIN t.productions \ {p} : u.productions[q] = t.productions[q]
      /\ DOMAIN u.productions[p] = ProductionFields
      /\ u.productions[p].lhs = prod.lhs
      /\ u.productions[p].rhs \in Seq(Nat)
      /\ u.productions[p].rhs_len \in Nat
      /\ Len(u.productions[p].rhs) <= u.productions[p].rhs_len
      /\ ActionsGone(prod.rhs, u.productions[p].rhs, syms)
  BY DEF PatchedAs, OldOnesAfter
<1>4. /\ \A v \in syms :
           /\ DOMAIN u.symbols[v] = SymbolFields
           /\ \E q \in prods : /\ u.symbols[v].productions = <<q>>
                               /\ u.productions[q].lhs = v
                               /\ \A q2 \in prods : u.productions[q2].lhs = v => q2 = q
      /\ \A q \in prods : /\ DOMAIN u.productions[q] = ProductionFields
                          /\ u.productions[q].lhs \in syms
                          /\ u.productions[q].rhs = <<>>
                          /\ u.productions[q].rhs_len = 0
  BY DEF PatchedAs, NewOnesAfter
<1>5. /\ t.Cur_term \in 0 .. MAXTERM /\ t.Cur_act \in Nat
      /\ DOMAIN t.symbols = Values(t)
      /\ \A v \in DOMAIN t.symbols : DOMAIN t.symbols[v] = SymbolFields
      /\ \A q \in DOMAIN t.productions : IsProduction(t, t.productions[q])
      /\ ActionsOnce(t) /\ Linked(t)
  BY <1>1 DEF Sound, Numbers, SymbolsHold, ProductionsHold
<1>6. /\ prod.rhs \in Seq(Nat) /\ Len(prod.rhs) <= MAXRHS /\ Len(prod.rhs) \in Nat
      /\ prod.lhs \in MINNONTERM .. t.Cur_nonterm
      /\ \A i \in 1 .. Len(prod.rhs) : prod.rhs[i] \in DOMAIN t.symbols
      /\ DOMAIN prod.rhs = 1 .. Len(prod.rhs)
  BY <1>5 DEF IsProduction
<1>7. /\ \A v \in Acts(prod) : IsAct(v) /\ \E i \in 1 .. Len(prod.rhs) : v = prod.rhs[i]
      /\ \A i \in 1 .. Len(prod.rhs) : IsAct(prod.rhs[i]) => prod.rhs[i] \in Acts(prod)
  BY <1>6 DEF Acts
<1>. HIDE DEF prod, syms, prods
<1>8. \A v \in syms : ~IsAct(v)
  BY AddedNonterms DEF syms, prod
<1>9. Numbers(u)
  BY <1>1, <1>2, Limits DEF Sound, Numbers
<1>10. SymbolsHold(u)
  <2>1. ASSUME NEW v \in DOMAIN u.symbols
        PROVE  v \in Values(u)
    BY <1>1, <1>2, <1>3, <1>5, Limits DEF Values
  <2>2. ASSUME NEW v \in Values(u)
        PROVE  v \in DOMAIN u.symbols
    <3>1. CASE v \in 1 .. u.Cur_term
      BY <1>2, <1>3, <1>5, <1>7, <3>1, Limits DEF Values, IsAct
    <3>2. CASE v \in MINNONTERM .. u.Cur_nonterm
      <4>1. CASE v > t.Cur_nonterm
        BY <1>1, <1>3, <3>2, <4>1, Limits
      <4>2. CASE ~(v > t.Cur_nonterm)
        <5>0. u.Cur_nonterm \in Int /\ t.Cur_nonterm \in Int /\ u.Cur_nonterm <= MAXNONTERM
          BY <1>1
        <5>1. v \in Int /\ v >= 256 /\ v <= t.Cur_nonterm /\ v < 512
          BY <5>0, <3>2, <4>2, Limits
        <5>2. v \in Values(t) /\ ~IsAct(v)
          BY <1>1, <5>1, Limits DEF Values, IsAct
        <5>. QED
          BY <1>3, <1>5, <1>7, <5>2
      <4>. QED
        BY <4>1, <4>2
    <3>. QED
      BY <3>1, <3>2 DEF Values
  <2>3. \A v \in DOMAIN u.symbols : DOMAIN u.symbols[v] = SymbolFields
    BY <1>3, <1>4, <1>5
  <2>. QED
    BY <2>1, <2>2, <2>3 DEF SymbolsHold
<1>11. ProductionsHold(u)
  <2>1. ASSUME NEW q \in DOMAIN t.productions, q # p
        PROVE  IsProduction(u, t.productions[q])
    <3>1. IsProduction(t, t.productions[q])
      BY <1>5
    <3>2. \A i \in 1 .. Len(t.productions[q].rhs) : t.productions[q].rhs[i] \notin Acts(prod)
      BY <1>5, <1>7, <2>1 DEF ActionsOnce, prod
    <3>3. \A v : v \in MINNONTERM .. t.Cur_nonterm => v \in MINNONTERM .. u.Cur_nonterm
      BY <1>1, Limits
    <3>. QED
      BY <1>3, <3>1, <3>2, <3>3 DEF IsProduction
  <2>2. IsProduction(u, u.productions[p])
    <3>. DEFINE new == u.productions[p].rhs
    <3>1. /\ Len(new) <= Len(prod.rhs)
          /\ \A i \in 1 .. Len(new) : \/ new[i] = prod.rhs[i] /\ ~IsAct(prod.rhs[i])
                                      \/ new[i] \in syms
      BY <1>3 DEF ActionsGone
    <3>2. Len(new) \in Nat
      BY <1>3
    <3>3. \A i \in 1 .. Len(new) : new[i] \in DOMAIN u.symbols
      <4>. SUFFICES ASSUME NEW i \in 1 .. Len(new)
                    PROVE  new[i] \in DOMAIN u.symbols
        OBVIOUS
      <4>. HIDE DEF new
      <4>1. i \in 1 .. Len(prod.rhs)
        BY <1>6, <3>1, <3>2
      <4>. QED
        BY <1>3, <1>6, <1>7, <3>1, <4>1
    <3>4. Len(new) <= MAXRHS
      <4>. HIDE DEF new
      <4>. QED
        BY <1>6, <3>1, <3>2, Limits
    <3>5. prod.lhs \in MINNONTERM .. u.Cur_nonterm
      BY <1>1, <1>6, Limits
    <3>. QED
      BY <1>3, <3>3, <3>4, <3>5 DEF IsProduction
  <2>3. ASSUME NEW q \in prods
        PROVE  IsProduction(u, u.productions[q])
    <3>1. u.productions[q].lhs \in MINNONTERM .. u.Cur_nonterm
      BY <1>1, <1>4, Limits
    <3>. DEFINE new == u.productions[q].rhs
    <3>2. new = <<>> /\ Len(new) = 0 /\ new \in Seq(Nat)
      <4>1. new = <<>>
        BY <1>4
      <4>. HIDE DEF new
      <4>. QED
        BY <4>1
    <3>3. \A i : i \notin 1 .. Len(new)
      BY <3>2
    <3>. QED
      BY <1>4, <3>1, <3>2, <3>3, Limits DEF IsProduction
  <2>4. \A q \in DOMAIN u.productions : IsProduction(u, u.productions[q])
    BY <1>3, <2>1, <2>2, <2>3
  <2>. QED
    BY <1>1, <2>4 DEF ProductionsHold
<1>13. ActionsOnce(u)
  <2>. SUFFICES ASSUME NEW q \in DOMAIN u.productions, NEW q2 \in DOMAIN u.productions,
                       NEW i \in 1 .. Len(u.productions[q].rhs),
                       NEW j \in 1 .. Len(u.productions[q2].rhs),
                       IsAct(u.productions[q].rhs[i]),
                       u.productions[q].rhs[i] = u.productions[q2].rhs[j]
                PROVE  q = q2 /\ i = j
    BY DEF ActionsOnce
  <2>1. /\ q \in DOMAIN t.productions \ {p} /\ u.productions[q] = t.productions[q]
        /\ q2 \in DOMAIN t.productions \ {p} /\ u.productions[q2] = t.productions[q2]
    BY PatchedActs
  <2>. QED
    BY <1>5, <2>1 DEF ActionsOnce
<1>14. Linked(u)
  <2>. SUFFICES ASSUME NEW v \in DOMAIN u.symbols
                PROVE  IsChain(u, v, u.symbols[v].productions)
    BY DEF Linked
  <2>1. \A q \in DOMAIN t.productions : /\ u.productions[q].lhs = t.productions[q].lhs
                                        /\ t.productions[q].lhs \in MINNONTERM .. t.Cur_nonterm
    BY <1>3, <1>5 DEF IsProduction, prod
  <2>2. CASE v \in syms
    <3>1. PICK q \in prods : /\ u.symbols[v].productions = <<q>>
                             /\ u.productions[q].lhs = v
                             /\ \A q2 \in prods : u.productions[q2].lhs = v => q2 = q
      BY <1>4, <2>2
    <3>2. \A q2 \in DOMAIN t.productions : u.productions[q2].lhs # v
      <4>1. v \notin MINNONTERM .. t.Cur_nonterm
        BY <1>1, <2>2
      <4>. QED
        BY <2>1, <4>1
    <3>3. {r \in DOMAIN u.productions : u.productions[r].lhs = v} = {q}
      BY <1>3, <3>1, <3>2
    <3>4. q \in Nat
      BY <1>1
    <3>. DEFINE linked == <<q>>
    <3>5. /\ linked \in Seq(Nat) /\ {linked[i] : i \in 1 .. Len(linked)} = {q}
          /\ \A i, j \in 1 .. Len(linked) : i < j => linked[i] > linked[j]
      BY <3>4
    <3>. HIDE DEF linked
    <3>. QED
      BY <3>1, <3>3, <3>5 DEF IsChain, linked
  <2>3. CASE v \notin syms
    <3>1. v \in DOMAIN t.symbols /\ u.symbols[v] = t.symbols[v]
      BY <1>3, <2>3
    <3>2. \A q \in prods : u.productions[q].lhs # v
      BY <1>4, <2>3
    <3>3. {r \in DOMAIN u.productions : u.productions[r].lhs = v}
            = {r \in DOMAIN t.productions : t.productions[r].lhs = v}
      BY <1>3, <2>1, <3>2
    <3>4. IsChain(t, v, t.symbols[v].productions)
      BY <1>5, <3>1 DEF Linked
    <3>. QED
      BY <3>1, <3>3, <3>4 DEF IsChain
  <2>. QED
    BY <2>2, <2>3
<1>. QED
  BY <1>9, <1>10, <1>11, <1>13, <1>14 DEF Sound

----------------------------------------------------------------------------
(***************************************************************************)
(* FIRST sets of a grammar whose actions become empty nonterminals.        *)
(***************************************************************************)

\* rhs2 is rhs, or what dopatch() makes of it.
SideKept(rhs, rhs2, added) ==
  /\ Len(rhs2) \in Nat
  /\ Len(rhs2) <= Len(rhs)
  /\ \A i \in 1 .. Len(rhs2) : \/ rhs2[i] = rhs[i]
                               \/ rhs2[i] \in added /\ ISACT(rhs[i])
  /\ \A i \in 1 .. Len(rhs) : i > Len(rhs2) => ISACT(rhs[i])

Grown(G, G2, added) ==
  /\ Readable(G)
  /\ Readable(G2)
  /\ G2.terms = G.terms
  /\ G2.nonterms = G.nonterms \cup added
  /\ \A v \in added : v \notin G.terms \cup G.nonterms
  /\ Productions(G) \subseteq Productions(G2)
  /\ \A q \in Productions(G) : /\ G2.lhs[q] = G.lhs[q]
                               /\ G.lhs[q] \in G.nonterms
                               /\ SideKept(G.rhs[q], G2.rhs[q], added)
  /\ \A q \in Productions(G2) \ Productions(G) : G2.lhs[q] \in added /\ G2.rhs[q] = <<>>
  /\ \A v \in added : \E q \in Productions(G2) \ Productions(G) : G2.lhs[q] = v

\* F2 is F, with EPSILON in the sets of the new nonterminals.
Continues(G, F, F2, added) ==
  /\ \A A \in G.nonterms : F2[A] = F[A]
  /\ \A v \in added : EPSILON(G) \in F2[v]

\* Symbol by symbol, the new right-hand side is as nullable as the old one, and brings the
\* same terminals.
Matched(G, G2, added, q, F, F2) ==
  LET H    == WithFirst(G, F)
      H2   == WithFirst(G2, F2)
      rhs  == G.rhs[q]
      rhs2 == G2.rhs[q]
  IN /\ Len(rhs) \in Nat /\ Len(rhs2) \in Nat /\ Len(rhs2) <= Len(rhs)
     /\ H.rhs[q] = rhs /\ H2.rhs[q] = rhs2
     /\ EPSILON(H) = EPSILON(G) /\ EPSILON(H2) = EPSILON(G)
     /\ \A i \in 1 .. Len(rhs2) :
          \/ rhs2[i] = rhs[i] /\ FirstOf(H2, rhs2[i]) = FirstOf(H, rhs[i])
          \/ /\ rhs2[i] \in added /\ ~ISACT(rhs2[i]) /\ FirstOf(H2, rhs2[i]) = F2[rhs2[i]]
             /\ ISACT(rhs[i]) /\ FirstOf(H, rhs[i]) = {}
     /\ \A i \in 1 .. Len(rhs) :
          i > Len(rhs2) => ISACT(rhs[i]) /\ FirstOf(H, rhs[i]) = {}
     /\ \A i \in 1 .. Len(rhs2) :
          NullableRun(H2, rhs2, 1, i - 1) <=> NullableRun(H, rhs, 1, i - 1)
     /\ RhsIsNullable(H2, rhs2, 1) <=> RhsIsNullable(H, rhs, 1)

LEMMA SymbolsKept ==
  ASSUME NEW G, NEW G2, NEW added, Grown(G, G2, added), NEW q \in Productions(G),
         NEW F, NEW F2, Continues(G, F, F2, added)
  PROVE  Matched(G, G2, added, q, F, F2)
<1>. DEFINE H    == WithFirst(G, F)
            H2   == WithFirst(G2, F2)
            rhs  == G.rhs[q]
            rhs2 == G2.rhs[q]
<1>1. /\ Readable(G) /\ Readable(G2) /\ G2.terms = G.terms
      /\ G2.nonterms = G.nonterms \cup added
      /\ \A v \in added : v \notin G.terms \cup G.nonterms
      /\ q \in Productions(G2)
      /\ SideKept(rhs, rhs2, added)
  BY DEF Grown
<1>2. /\ H.nonterms = G.nonterms /\ H.rhs = G.rhs /\ H.first = F /\ EPSILON(H) = EPSILON(G)
      /\ H2.nonterms = G2.nonterms /\ H2.rhs = G2.rhs /\ H2.first = F2
      /\ EPSILON(H2) = EPSILON(G2)
  BY <1>1, Fields
<1>3. EPSILON(G2) = EPSILON(G)
  BY <1>1 DEF EPSILON
<1>4. /\ Len(rhs) \in Nat
      /\ \A i \in 1 .. Len(rhs) : rhs[i] \in G.terms \cup G.nonterms \/ ISACT(rhs[i])
  BY <1>1, Sides
<1>5. \A v \in G2.nonterms : ~ISACT(v)
  <2>1. G2.nonterms \subseteq MINNONTERM .. MINACT - 1
    BY <1>1 DEF Readable
  <2>. QED
    BY <2>1 DEF MINNONTERM, MINACT, ISACT
<1>. HIDE DEF H, H2, rhs, rhs2
<1>6. /\ Len(rhs2) \in Nat /\ Len(rhs2) <= Len(rhs)
      /\ \A i \in 1 .. Len(rhs2) : \/ rhs2[i] = rhs[i]
                                   \/ rhs2[i] \in added /\ ISACT(rhs[i])
      /\ \A i \in 1 .. Len(rhs) : i > Len(rhs2) => ISACT(rhs[i])
  BY <1>1 DEF SideKept
<1>7. \A i \in 1 .. Len(rhs2) : i \in 1 .. Len(rhs)
  BY <1>4, <1>6
<1>8. ASSUME NEW i \in 1 .. Len(rhs2)
      PROVE  /\ \/ rhs2[i] = rhs[i] /\ FirstOf(H2, rhs2[i]) = FirstOf(H, rhs[i])
                \/ /\ rhs2[i] \in added /\ ~ISACT(rhs2[i]) /\ FirstOf(H2, rhs2[i]) = F2[rhs2[i]]
                   /\ ISACT(rhs[i]) /\ FirstOf(H, rhs[i]) = {}
             /\ ISACT(rhs2[i]) \/ NULLABLE(H2, rhs2[i])
                  <=> ISACT(rhs[i]) \/ NULLABLE(H, rhs[i])
  <2>1. CASE rhs2[i] = rhs[i] /\ ISACT(rhs[i])
    BY <2>1 DEF FirstOf
  <2>2. CASE rhs2[i] = rhs[i] /\ ~ISACT(rhs[i])
    <3>1. rhs[i] \in G.terms \cup G.nonterms /\ rhs[i] \notin added
      BY <1>1, <1>4, <1>7, <2>2
    <3>2. /\ ISNONTERM(H, rhs[i]) <=> rhs[i] \in G.nonterms
          /\ ISNONTERM(H2, rhs2[i]) <=> rhs[i] \in G.nonterms
      BY <1>1, <1>2, <2>2, <3>1 DEF ISNONTERM
    <3>3. rhs[i] \in G.nonterms => F2[rhs[i]] = F[rhs[i]]
      BY DEF Continues
    <3>. QED
      BY <1>2, <1>3, <2>2, <3>2, <3>3 DEF FirstOf, NULLABLE
  <2>3. CASE rhs2[i] \in added /\ ISACT(rhs[i])
    <3>1. rhs2[i] \in G2.nonterms /\ ~ISACT(rhs2[i])
      BY <1>1, <1>5, <2>3
    <3>2. EPSILON(G) \in F2[rhs2[i]]
      BY <2>3 DEF Continues
    <3>. QED
      BY <1>2, <1>3, <2>3, <3>1, <3>2 DEF FirstOf, NULLABLE, ISNONTERM
  <2>. QED
    BY <1>6, <2>1, <2>2, <2>3
<1>9. \A i \in 1 .. Len(rhs) :
        i > Len(rhs2) => ISACT(rhs[i]) /\ FirstOf(H, rhs[i]) = {}
  BY <1>6 DEF FirstOf
<1>10. ASSUME NEW i \in 1 .. Len(rhs2)
       PROVE  NullableRun(H2, rhs2, 1, i - 1) <=> NullableRun(H, rhs, 1, i - 1)
  <2>1. \A j \in 1 .. i - 1 : j \in 1 .. Len(rhs2)
    BY <1>6
  <2>. QED
    BY <1>8, <2>1 DEF NullableRun
<1>11. RhsIsNullable(H2, rhs2, 1) <=> RhsIsNullable(H, rhs, 1)
  <2>1. ASSUME RhsIsNullable(H2, rhs2, 1), NEW i \in 1 .. Len(rhs)
        PROVE  ISACT(rhs[i]) \/ NULLABLE(H, rhs[i])
    <3>1. CASE i > Len(rhs2)
      BY <1>9, <3>1
    <3>2. CASE ~(i > Len(rhs2))
      <4>1. i \in 1 .. Len(rhs2)
        BY <1>4, <1>6, <3>2
      <4>. QED
        BY <1>8, <2>1, <4>1 DEF RhsIsNullable, NullableRun
    <3>. QED
      BY <3>1, <3>2
  <2>2. ASSUME RhsIsNullable(H, rhs, 1), NEW i \in 1 .. Len(rhs2)
        PROVE  ISACT(rhs2[i]) \/ NULLABLE(H2, rhs2[i])
    BY <1>7, <1>8, <2>2 DEF RhsIsNullable, NullableRun
  <2>. QED
    BY <2>1, <2>2 DEF RhsIsNullable, NullableRun
<1>12. H.rhs[q] = rhs /\ H2.rhs[q] = rhs2
  BY <1>2 DEF rhs, rhs2
<1>. QED
  BY <1>2, <1>3, <1>4, <1>6, <1>8, <1>9, <1>10, <1>11, <1>12 DEF Matched, H, H2, rhs, rhs2

\* FIRST by definition of an old production gets no larger,
LEMMA TrueKept ==
  ASSUME NEW G, NEW G2, NEW added, Grown(G, G2, added), NEW q \in Productions(G),
         NEW F, NEW F2, Continues(G, F, F2, added),
         \A v \in added : F2[v] = {EPSILON(G)}
  PROVE  TrueOfProduction(WithFirst(G2, F2), q) \subseteq TrueOfProduction(WithFirst(G, F), q)
<1>. DEFINE H    == WithFirst(G, F)
            H2   == WithFirst(G2, F2)
            rhs  == G.rhs[q]
            rhs2 == G2.rhs[q]
<1>0. Matched(G, G2, added, q, F, F2)
  BY SymbolsKept
<1>1. /\ Len(rhs) \in Nat /\ Len(rhs2) \in Nat /\ Len(rhs2) <= Len(rhs)
      /\ H.rhs[q] = rhs /\ H2.rhs[q] = rhs2
      /\ EPSILON(H) = EPSILON(G) /\ EPSILON(H2) = EPSILON(G)
      /\ \A i \in 1 .. Len(rhs2) :
           \/ rhs2[i] = rhs[i] /\ FirstOf(H2, rhs2[i]) = FirstOf(H, rhs[i])
           \/ /\ rhs2[i] \in added /\ ~ISACT(rhs2[i]) /\ FirstOf(H2, rhs2[i]) = F2[rhs2[i]]
              /\ ISACT(rhs[i]) /\ FirstOf(H, rhs[i]) = {}
      /\ \A i \in 1 .. Len(rhs2) :
           NullableRun(H2, rhs2, 1, i - 1) <=> NullableRun(H, rhs, 1, i - 1)
      /\ RhsIsNullable(H2, rhs2, 1) <=> RhsIsNullable(H, rhs, 1)
  BY <1>0 DEF Matched
<1>. HIDE DEF H, H2, rhs, rhs2
<1>2. ASSUME NEW x \in FirstOfProduction(H2, q), x # EPSILON(G)
      PROVE  x \in FirstOfProduction(H, q)
  <2>1. ~NoSymbols(rhs2) /\ x \in FirstRhs(H2, rhs2, 1)
    BY <1>1, <1>2 DEF FirstOfProduction
  <2>2. ~(1 > Len(rhs2))
    BY <1>1, <1>2, <2>1 DEF FirstRhs
  <2>3. PICK i \in 1 .. Len(rhs2) : NullableRun(H2, rhs2, 1, i - 1) /\ x \in FirstOf(H2, rhs2[i])
    BY <2>1, <2>2 DEF FirstRhs
  <2>4. rhs2[i] = rhs[i] /\ x \in FirstOf(H, rhs[i])
    BY <1>1, <1>2, <2>3
  <2>5. i \in 1 .. Len(rhs) /\ ~(1 > Len(rhs)) /\ NullableRun(H, rhs, 1, i - 1)
    BY <1>1, <2>3
  <2>6. ~NoSymbols(rhs)
    BY <2>4, <2>5 DEF NoSymbols, FirstOf
  <2>7. x \in FirstRhs(H, rhs, 1)
    BY <2>4, <2>5 DEF FirstRhs
  <2>. QED
    BY <1>1, <2>6, <2>7 DEF FirstOfProduction
<1>. QED
  BY <1>1, <1>2 DEF TrueOfProduction, H, H2

\* and what the code adds for it no smaller.
LEMMA CodeKept ==
  ASSUME NEW G, NEW G2, NEW added, Grown(G, G2, added), NEW q \in Productions(G),
         NEW F, NEW F2, Continues(G, F, F2, added)
  PROVE  FirstOfProduction(WithFirst(G, F), q) \subseteq FirstOfProduction(WithFirst(G2, F2), q)
<1>. DEFINE H    == WithFirst(G, F)
            H2   == WithFirst(G2, F2)
            rhs  == G.rhs[q]
            rhs2 == G2.rhs[q]
<1>0. Matched(G, G2, added, q, F, F2)
  BY SymbolsKept
<1>1. /\ Len(rhs) \in Nat /\ Len(rhs2) \in Nat /\ Len(rhs2) <= Len(rhs)
      /\ H.rhs[q] = rhs /\ H2.rhs[q] = rhs2
      /\ EPSILON(H) = EPSILON(G) /\ EPSILON(H2) = EPSILON(G)
      /\ \A i \in 1 .. Len(rhs2) :
           \/ rhs2[i] = rhs[i] /\ FirstOf(H2, rhs2[i]) = FirstOf(H, rhs[i])
           \/ /\ rhs2[i] \in added /\ ~ISACT(rhs2[i]) /\ FirstOf(H2, rhs2[i]) = F2[rhs2[i]]
              /\ ISACT(rhs[i]) /\ FirstOf(H, rhs[i]) = {}
      /\ \A i \in 1 .. Len(rhs2) :
           NullableRun(H2, rhs2, 1, i - 1) <=> NullableRun(H, rhs, 1, i - 1)
      /\ RhsIsNullable(H2, rhs2, 1) <=> RhsIsNullable(H, rhs, 1)
  BY <1>0 DEF Matched
<1>2. \A i \in 1 .. Len(rhs) : i > Len(rhs2) => ISACT(rhs[i]) /\ FirstOf(H, rhs[i]) = {}
  BY <1>0 DEF Matched
<1>3. \A v \in added : EPSILON(G) \in F2[v]
  BY DEF Continues
<1>. HIDE DEF H, H2, rhs, rhs2
<1>4. \A i \in 1 .. Len(rhs2) : i \in 1 .. Len(rhs)
  <2>1. Len(rhs) \in Nat /\ Len(rhs2) \in Nat /\ Len(rhs2) <= Len(rhs)
    BY <1>1
  <2>. QED
    BY <2>1
<1>5. CASE NoSymbols(rhs)
  <2>1. FirstOfProduction(H, q) = {EPSILON(G)}
    BY <1>1, <1>5 DEF FirstOfProduction
  <2>2. ASSUME ~NoSymbols(rhs2)
        PROVE  EPSILON(G) \in FirstRhs(H2, rhs2, 1)
    <3>1. PICK i \in 1 .. Len(rhs2) : ~ISACT(rhs2[i])
      BY <2>2 DEF NoSymbols
    <3>2. ISACT(rhs[i])
      BY <1>4, <1>5, <3>1 DEF NoSymbols
    <3>3. EPSILON(G) \in FirstOf(H2, rhs2[i])
      BY <1>1, <1>3, <3>1, <3>2
    <3>4. NullableRun(H, rhs, 1, i - 1)
      <4>1. \A j \in 1 .. i - 1 : j \in 1 .. Len(rhs)
        BY <1>1, <3>1
      <4>. QED
        BY <1>5, <4>1 DEF NullableRun, NoSymbols
    <3>5. NullableRun(H2, rhs2, 1, i - 1) /\ ~(1 > Len(rhs2))
      BY <1>1, <3>1, <3>4
    <3>. QED
      BY <3>1, <3>3, <3>5 DEF FirstRhs
  <2>. QED
    BY <1>1, <2>1, <2>2 DEF FirstOfProduction, H, H2
<1>6. CASE ~NoSymbols(rhs)
  <2>1. PICK i \in 1 .. Len(rhs) : ~ISACT(rhs[i])
    BY <1>6 DEF NoSymbols
  <2>2. i \in 1 .. Len(rhs2) /\ rhs2[i] = rhs[i]
    <3>1. ~(i > Len(rhs2))
      BY <1>2, <2>1
    <3>2. i \in 1 .. Len(rhs2)
      BY <1>1, <3>1
    <3>. QED
      BY <1>1, <2>1, <3>2
  <2>3. ~NoSymbols(rhs2) /\ ~(1 > Len(rhs)) /\ ~(1 > Len(rhs2))
    BY <1>1, <2>1, <2>2 DEF NoSymbols
  <2>4. ASSUME NEW x \in FirstRhs(H, rhs, 1)
        PROVE  x \in FirstRhs(H2, rhs2, 1)
    <3>1. PICK j \in 1 .. Len(rhs) : NullableRun(H, rhs, 1, j - 1) /\ x \in FirstOf(H, rhs[j])
      BY <2>3, <2>4 DEF FirstRhs
    <3>2. ~(j > Len(rhs2))
      BY <1>2, <3>1
    <3>3. j \in 1 .. Len(rhs2)
      BY <1>1, <3>2
    <3>4. x \in FirstOf(H2, rhs2[j]) /\ NullableRun(H2, rhs2, 1, j - 1)
      BY <1>1, <3>1, <3>3
    <3>. QED
      BY <2>3, <3>3, <3>4 DEF FirstRhs
  <2>. QED
    BY <1>1, <1>6, <2>3, <2>4 DEF FirstOfProduction, H, H2
<1>. QED
  BY <1>5, <1>6

\* With {EPSILON} for the new nonterminals, the FIRST sets keep what makes them right.
LEMMA GrownFirst ==
  ASSUME NEW G, NEW G2, NEW added, Grown(G, G2, added),
         NEW F \in FirstFamilies(G), TrueClosed(G, F),
         \A X \in FirstFamilies(G) : Closed(G, X) => Below(G, F, X)
  PROVE  LET F2 == [v \in G2.nonterms |-> IF v \in added THEN {EPSILON(G)} ELSE F[v]]
         IN /\ F2 \in FirstFamilies(G2)
            /\ TrueClosed(G2, F2)
            /\ \A X \in FirstFamilies(G2) : Closed(G2, X) => Below(G2, F2, X)
<1>. DEFINE F2 == [v \in G2.nonterms |-> IF v \in added THEN {EPSILON(G)} ELSE F[v]]
<1>1. /\ Readable(G) /\ Readable(G2) /\ G2.terms = G.terms
      /\ G2.nonterms = G.nonterms \cup added
      /\ \A v \in added : v \notin G.terms \cup G.nonterms
      /\ Productions(G) \subseteq Productions(G2)
      /\ \A q \in Productions(G) : G2.lhs[q] = G.lhs[q] /\ G.lhs[q] \in G.nonterms
      /\ \A q \in Productions(G2) \ Productions(G) : G2.lhs[q] \in added /\ G2.rhs[q] = <<>>
      /\ \A v \in added : \E q \in Productions(G2) \ Productions(G) : G2.lhs[q] = v
  BY DEF Grown
<1>2. EPSILON(G2) = EPSILON(G)
  BY <1>1 DEF EPSILON
<1>3. \A A \in G.nonterms : F[A] \subseteq G.terms \cup {EPSILON(G)}
  BY DEF FirstFamilies
<1>4. /\ \A v \in G.nonterms : F2[v] = F[v]
      /\ \A v \in added : F2[v] = {EPSILON(G)}
  BY <1>1
<1>5. F2 \in FirstFamilies(G2)
  BY <1>1, <1>2, <1>3 DEF FirstFamilies
<1>. HIDE DEF F2
<1>6. Continues(G, F, F2, added)
  BY <1>4 DEF Continues
\* The productions of the old nonterminals are the old ones.
<1>7. /\ \A A \in G.nonterms : ProductionsOf(G2, A) = ProductionsOf(G, A)
      /\ \A v \in added : ProductionsOf(G2, v) \subseteq Productions(G2) \ Productions(G)
  BY <1>1 DEF ProductionsOf
\* A new production brings EPSILON.
<1>8. ASSUME NEW q \in Productions(G2) \ Productions(G), NEW X
      PROVE  /\ FirstOfProduction(WithFirst(G2, X), q) = {EPSILON(G)}
             /\ TrueOfProduction(WithFirst(G2, X), q) \subseteq {EPSILON(G)}
  <2>1. /\ WithFirst(G2, X).rhs[q] = <<>> /\ EPSILON(WithFirst(G2, X)) = EPSILON(G)
    BY <1>1, <1>2, Fields
  <2>2. NoSymbols(<<>>)
    BY DEF NoSymbols
  <2>3. FirstOfProduction(WithFirst(G2, X), q) = {EPSILON(G)}
    BY <2>1, <2>2 DEF FirstOfProduction
  <2>. QED
    BY <2>1, <2>3 DEF TrueOfProduction
<1>9. TrueClosed(G2, F2)
  <2>. SUFFICES ASSUME NEW A \in G2.nonterms, NEW q \in ProductionsOf(G2, A)
                PROVE  TrueOfProduction(WithFirst(G2, F2), q) \subseteq F2[A]
    BY DEF TrueClosed
  <2>1. CASE A \in added
    BY <1>4, <1>7, <1>8, <2>1
  <2>2. CASE A \in G.nonterms
    <3>1. q \in ProductionsOf(G, A) /\ q \in Productions(G)
      BY <1>7, <2>2 DEF ProductionsOf
    <3>2. TrueOfProduction(WithFirst(G2, F2), q) \subseteq TrueOfProduction(WithFirst(G, F), q)
      BY <1>4, <1>6, <3>1, TrueKept
    <3>3. TrueOfProduction(WithFirst(G, F), q) \subseteq F[A]
      BY <2>2, <3>1 DEF TrueClosed
    <3>. QED
      BY <1>4, <2>2, <3>2, <3>3
  <2>. QED
    BY <1>1, <2>1, <2>2
<1>10. ASSUME NEW X \in FirstFamilies(G2), Closed(G2, X)
       PROVE  Below(G2, F2, X)
  <2>1. ASSUME NEW A \in G2.nonterms, NEW q \in ProductionsOf(G2, A)
        PROVE  FirstOfProduction(WithFirst(G2, X), q) \subseteq X[A]
    <3>1. q \in ProductionsOf(WithFirst(G2, X), A)
      BY <1>1, <2>1, Fields
    <3>2. FirstOfProduction(WithFirst(G2, X), q) \subseteq FirstClosure(WithFirst(G2, X), A)
      BY <3>1 DEF FirstClosure
    <3>. QED
      BY <1>10, <3>2 DEF Closed
  <2>2. ASSUME NEW v \in added
        PROVE  EPSILON(G) \in X[v]
    <3>1. PICK q \in Productions(G2) \ Productions(G) : G2.lhs[q] = v
      BY <1>1
    <3>2. q \in ProductionsOf(G2, v) /\ v \in G2.nonterms
      BY <1>1, <3>1 DEF ProductionsOf
    <3>. QED
      BY <1>8, <2>1, <3>2
  <2>. DEFINE Y == [A \in G.nonterms |-> X[A]]
  <2>3. Y \in FirstFamilies(G) /\ \A A \in G.nonterms : Y[A] = X[A]
    BY <1>1, <1>2 DEF FirstFamilies
  <2>. HIDE DEF Y
  <2>4. Continues(G, Y, X, added)
    BY <2>2, <2>3 DEF Continues
  <2>5. Closed(G, Y)
    <3>. SUFFICES ASSUME NEW A \in G.nonterms
                  PROVE  FirstClosure(WithFirst(G, Y), A) \subseteq Y[A]
      BY DEF Closed
    <3>1. ASSUME NEW q \in ProductionsOf(G, A)
          PROVE  FirstOfProduction(WithFirst(G, Y), q) \subseteq Y[A]
      <4>1. q \in Productions(G) /\ q \in ProductionsOf(G2, A) /\ A \in G2.nonterms
        BY <1>1, <1>7, <3>1 DEF ProductionsOf
      <4>2. FirstOfProduction(WithFirst(G, Y), q) \subseteq FirstOfProduction(WithFirst(G2, X), q)
        BY <2>4, <4>1, CodeKept
      <4>. QED
        BY <2>1, <2>3, <4>1, <4>2
    <3>2. /\ WithFirst(G, Y).first = Y
          /\ ProductionsOf(WithFirst(G, Y), A) = ProductionsOf(G, A)
      BY <1>1, Fields
    <3>. QED
      BY <3>1, <3>2 DEF FirstClosure
  <2>6. Below(G, F, Y)
    BY <2>3, <2>5
  <2>7. \A A \in G.nonterms : F2[A] \subseteq X[A]
    BY <1>4, <2>3, <2>6 DEF Below
  <2>8. \A v \in added : F2[v] \subseteq X[v]
    BY <1>4, <2>2
  <2>. QED
    BY <1>1, <2>7, <2>8 DEF Below
<1>. QED
  BY <1>5, <1>9, <1>10 DEF F2

LEMMA PatchedGrown ==
  ASSUME NEW t, Sound(t), NEW p \in DOMAIN t.productions, NEW u, PatchedAs(t, p, u), Sound(u),
         NEW F, NEW F2
  PROVE  Grown(GrammarOf(t, F), GrammarOf(u, F2), AddedSymbols(t, t.productions[p]))
<1>. DEFINE G     == GrammarOf(t, F)
            G2    == GrammarOf(u, F2)
            prod  == t.productions[p]
            syms  == AddedSymbols(t, prod)
            prods == AddedProductions(t, prod)
<1>1. /\ Readable(G) /\ G.terms = 1 .. t.Cur_term /\ G.nonterms = MINNONTERM .. t.Cur_nonterm
      /\ Productions(G) = DOMAIN t.productions
      /\ \A q \in DOMAIN t.productions : /\ G.lhs[q] = t.productions[q].lhs
                                         /\ G.rhs[q] = t.productions[q].rhs
      /\ G.lhs \in [DOMAIN t.productions -> G.nonterms]
  BY GrammarFacts
<1>2. /\ Readable(G2) /\ G2.terms = 1 .. u.Cur_term /\ G2.nonterms = MINNONTERM .. u.Cur_nonterm
      /\ Productions(G2) = DOMAIN u.productions
      /\ \A q \in DOMAIN u.productions : /\ G2.lhs[q] = u.productions[q].lhs
                                         /\ G2.rhs[q] = u.productions[q].rhs
  BY GrammarFacts
<1>3. /\ t.Cur_nonterm \in Int /\ t.Cur_nonterm >= MINNONTERM - 1
      /\ u.Cur_nonterm \in Int /\ u.Cur_nonterm >= t.Cur_nonterm
      /\ syms = t.Cur_nonterm + 1 .. u.Cur_nonterm
      /\ t.Num_productions \in Nat
      /\ prods = t.Num_productions .. u.Num_productions - 1
      /\ DOMAIN t.productions = 0 .. t.Num_productions - 1
  BY PatchedNumbers
<1>4. u.Cur_term = t.Cur_term
  BY DEF PatchedAs, CountsAfter, TableFields
<1>5. /\ DOMAIN u.productions = DOMAIN t.productions \cup prods
      /\ \A q \in DOMAIN t.productions \ {p} : u.productions[q] = t.productions[q]
      /\ u.productions[p].lhs = prod.lhs
      /\ u.productions[p].rhs \in Seq(Nat)
      /\ ActionsGone(prod.rhs, u.productions[p].rhs, syms)
  BY DEF PatchedAs, OldOnesAfter
<1>6. /\ \A v \in syms : \E q \in prods : u.productions[q].lhs = v
      /\ \A q \in prods : u.productions[q].lhs \in syms /\ u.productions[q].rhs = <<>>
  BY DEF PatchedAs, NewOnesAfter
<1>. HIDE DEF G, G2, syms, prods
<1>7. G2.nonterms = G.nonterms \cup syms
  <2>1. t.Cur_nonterm \in Int /\ u.Cur_nonterm \in Int /\ u.Cur_nonterm >= t.Cur_nonterm
        /\ t.Cur_nonterm >= 255
    BY <1>3, Limits
  <2>2. \A v : v \in MINNONTERM .. u.Cur_nonterm
          <=> v \in MINNONTERM .. t.Cur_nonterm \/ v \in t.Cur_nonterm + 1 .. u.Cur_nonterm
    BY <2>1, Limits
  <2>. QED
    BY <1>1, <1>2, <1>3, <2>2
<1>8. \A v \in syms : v \notin G.terms \cup G.nonterms
  <2>1. t.Cur_nonterm \in Int /\ t.Cur_nonterm >= 255 /\ u.Cur_nonterm \in Int
        /\ t.Cur_term \in Int /\ t.Cur_term < 255
    <3>1. t.Cur_term \in 0 .. MAXTERM
      BY DEF Sound, Numbers
    <3>. QED
      <4>1. t.Cur_term \in Int /\ t.Cur_term < 255
        BY <3>1, Limits
      <4>2. t.Cur_nonterm \in Int /\ t.Cur_nonterm >= 255 /\ u.Cur_nonterm \in Int
        <5>1. t.Cur_nonterm \in Int /\ t.Cur_nonterm >= MINNONTERM - 1 /\ u.Cur_nonterm \in Int
          BY <1>3
        <5>. QED
          BY <5>1, Limits
      <4>. QED
        BY <4>1, <4>2
  <2>2. \A v \in t.Cur_nonterm + 1 .. u.Cur_nonterm :
          v \notin 1 .. t.Cur_term /\ v \notin MINNONTERM .. t.Cur_nonterm
    BY <2>1
  <2>. QED
    BY <1>1, <1>3, <2>2
<1>9. \A q \in prods : q \notin DOMAIN t.productions
  BY <1>3
<1>10. Productions(G2) \ Productions(G) = prods
  BY <1>1, <1>2, <1>5, <1>9
<1>11. ASSUME NEW q \in DOMAIN t.productions
       PROVE  SideKept(G.rhs[q], G2.rhs[q], syms)
  <2>1. CASE q = p
    <3>1. G.rhs[q] = prod.rhs /\ G2.rhs[q] = u.productions[p].rhs
      BY <1>1, <1>2, <1>5, <2>1
    <3>. DEFINE rhs2 == u.productions[p].rhs
    <3>2. Len(rhs2) \in Nat
      BY <1>5
    <3>. HIDE DEF rhs2, prod
    <3>. QED
      BY <1>5, <3>1, <3>2 DEF SideKept, ActionsGone, rhs2, IsAct, ISACT
  <2>2. CASE q # p
    <3>1. G2.rhs[q] = G.rhs[q]
      BY <1>1, <1>2, <1>5, <2>2
    <3>2. Len(G.rhs[q]) \in Nat
      BY <1>1, Sides
    <3>. QED
      BY <3>1, <3>2 DEF SideKept
  <2>. QED
    BY <2>1, <2>2
<1>12. \A q \in DOMAIN t.productions : G2.lhs[q] = G.lhs[q] /\ G.lhs[q] \in G.nonterms
  BY <1>1, <1>2, <1>5
<1>13. \A q \in prods : G2.lhs[q] \in syms /\ G2.rhs[q] = <<>>
  BY <1>2, <1>5, <1>6
<1>14. \A v \in syms : \E q \in prods : G2.lhs[q] = v
  BY <1>2, <1>5, <1>6
<1>15. G2.terms = G.terms /\ Productions(G) \subseteq Productions(G2)
  BY <1>1, <1>2, <1>4, <1>5
<1>. QED
  BY <1>1, <1>2, <1>7, <1>8, <1>10, <1>11, <1>12, <1>13, <1>14, <1>15
     DEF Grown, G, G2, syms, prod

\* dopatch(), whichever way it ends.
LEMMA PatchStep ==
  ASSUME IInv, PatchProduction
  PROVE  IInv'
<1>. DEFINE p     == Head(chain)
            prod  == tables.productions[p]
            new   == {NewSymbol(tables, prod, i) : i \in Embedded(prod)}
            u     == Patched(tables, p)
<1>1. pc = "patch" /\ chain # <<>> /\ chain' = Tail(chain) /\ todo' = todo
  BY DEF PatchProduction
<1>2. Sound(tables) /\ tables.status = "run" /\ InBody(tables) /\ FirstHolds
  <2>1. Phase(tables, "patch")
    BY <1>1, HerePhase DEF IInv, AllPlaces, BodyPlaces
  <2>. QED
    BY <2>1, Places DEF BodyPlaces, IInv
<1>3. /\ chain \in Seq(DOMAIN tables.productions)
      /\ todo \subseteq MINNONTERM .. tables.Cur_nonterm
      /\ \A q \in DOMAIN tables.productions : \A i \in 1 .. Len(tables.productions[q].rhs) :
           IsAct(tables.productions[q].rhs[i]) =>
             tables.productions[q].lhs \in todo \/ \E k \in 1 .. Len(chain) : chain[k] = q
  BY <1>1 DEF IInv, ToPatch, PatchPlaces
<1>4. /\ p \in DOMAIN tables.productions /\ p = chain[1] /\ Len(chain) \in Nat
      /\ Tail(chain) \in Seq(DOMAIN tables.productions) /\ Len(Tail(chain)) = Len(chain) - 1
      /\ \A k \in 1 .. Len(chain) - 1 : Tail(chain)[k] = chain[k + 1]
  BY <1>1, <1>3
<1>5. \/ Call([tables EXCEPT !.status = "undefined"], "patch") /\ first' = first
      \/ Call(Fatal(tables), "patch") /\ first' = first
      \/ /\ tables.Cur_nonterm + Cardinality(new) <= MAXNONTERM
         /\ Call(u, "patch")
         /\ first' = [v \in DOMAIN first \cup new |->
                        IF v \in new THEN FirstOfAction(tables) ELSE first[v]]
  <2>1. prod.rhs \in Seq(Nat) /\ prod.rhs_len \in Nat /\ tables.Cur_nonterm \in Int
    BY <1>2, <1>4, LeftSides, Limits DEF IsProduction, Sound, Numbers
  <2>2. Cardinality(new) \in Nat
    BY <1>2, <2>1, NewNumbers
  <2>. HIDE DEF u, new, prod, p
  <2>3. prod.rhs_len > MAXRHS + 1 \/ prod.rhs_len <= MAXRHS + 1
    BY <2>1, Limits
  <2>4. \/ tables.Cur_nonterm + Cardinality(new) > MAXNONTERM
        \/ tables.Cur_nonterm + Cardinality(new) <= MAXNONTERM
    BY <2>1, <2>2, Limits
  <2>. QED
    BY <2>3, <2>4 DEF PatchProduction, u, new, prod, p
<1>6. first \in [DOMAIN first -> SUBSET (0 .. tables.Cur_term + 1)]
  BY <1>2 DEF FirstHolds
<1>7. ASSUME NEW v, Sound(v), v.status \in {"exit", "undefined"}, v.Cur_term = tables.Cur_term,
             Call(v, "patch"), first' = first
      PROVE  IInv'
  <2>1. tables' = v /\ pc' \in {"exit", "undefined"}
    BY <1>7 DEF Call
  <2>2. Sound(tables)' /\ AtPlace' /\ BeforeFirst' /\ ToPatch'
    BY <1>7, <2>1 DEF AtPlace, BeforeFirst, ToPatch, PatchPlaces
  <2>3. FirstHolds'
    <3>1. first' \in [DOMAIN first' -> SUBSET (0 .. tables'.Cur_term + 1)]
      BY <1>6, <1>7, <2>1
    <3>. QED
      BY <2>1, <3>1 DEF FirstHolds, PatchPlaces
  <2>. QED
    BY <2>2, <2>3 DEF IInv
<1>8. CASE Call([tables EXCEPT !.status = "undefined"], "patch") /\ first' = first
  BY <1>2, <1>7, <1>8, UndefinedSound
<1>9. CASE Call(Fatal(tables), "patch") /\ first' = first
  BY <1>2, <1>7, <1>9, FatalSound
<1>10. CASE /\ tables.Cur_nonterm + Cardinality(new) <= MAXNONTERM
            /\ Call(u, "patch")
            /\ first' = [v \in DOMAIN first \cup new |->
                           IF v \in new THEN FirstOfAction(tables) ELSE first[v]]
  <2>. DEFINE added == AddedSymbols(tables, prod)
              G     == GrammarOf(tables, first)
              F2    == [v \in G.nonterms \cup added |->
                          IF v \in added THEN {EPSILON(G)} ELSE first[v]]
              G2    == GrammarOf(u, F2)
  <2>1. PatchedAs(tables, p, u)
    BY <1>2, <1>4, PatchedFacts
  <2>2. prod.rhs \in Seq(Nat)
    BY <1>2, <1>4, LeftSides DEF IsProduction
  <2>3. new = added /\ Cardinality(new) = Cardinality(Embedded(prod))
    BY <1>2, <2>2, NewNumbers DEF AddedSymbols
  <2>4. /\ u.Cur_nonterm = tables.Cur_nonterm + Cardinality(Embedded(prod))
        /\ u.Cur_term = tables.Cur_term /\ u.status = tables.status
        /\ u.lhs = tables.lhs /\ u.Goal_symbol = tables.Goal_symbol
        /\ u.Goal_symbol_is_next = tables.Goal_symbol_is_next
    BY <2>1 DEF PatchedAs, CountsAfter, TableFields
  <2>5. u.Cur_nonterm <= MAXNONTERM
    BY <1>10, <2>3, <2>4
  <2>6. /\ tables.Cur_nonterm \in Int /\ u.Cur_nonterm \in Int
        /\ u.Cur_nonterm >= tables.Cur_nonterm
        /\ tables.Num_productions \in Nat /\ u.Num_productions \in Nat
        /\ u.Num_productions >= tables.Num_productions
        /\ DOMAIN tables.productions = 0 .. tables.Num_productions - 1
        /\ DOMAIN u.productions = 0 .. u.Num_productions - 1
    BY <1>2, <1>4, <2>1, PatchedNumbers
  <2>7. Sound(u)
    BY <1>2, <1>4, <2>1, <2>5, PatchedSound
  <2>8. /\ u.productions[p].lhs = prod.lhs
        /\ \A q \in DOMAIN tables.productions \ {p} : u.productions[q] = tables.productions[q]
    BY <2>1 DEF PatchedAs, OldOnesAfter
  <2>9. /\ G.nonterms = MINNONTERM .. tables.Cur_nonterm
        /\ G.terms \cup {EPSILON(G)} \subseteq 0 .. tables.Cur_term + 1
        /\ EPSILON(G) = tables.Cur_term + 1
        /\ EPSILON(GrammarOf(tables, <<>>)) = tables.Cur_term + 1
    BY <1>2, GrammarFacts
  <2>10. /\ first \in FirstFamilies(G) /\ TrueClosed(G, first)
         /\ \A F \in FirstFamilies(G) : Closed(G, F) => Below(G, first, F)
    BY <1>1, <1>2 DEF FirstHolds, PatchPlaces
  <2>11. Grown(G, G2, added)
    BY <1>2, <1>4, <2>1, <2>7, PatchedGrown
  <2>. HIDE DEF u, G, new, added
  <2>12. tables' = u /\ pc' = "patch"
    BY <1>2, <1>10, <2>4 DEF Call
  <2>13. DOMAIN first = G.nonterms
    BY <2>10 DEF FirstFamilies
  <2>14. first' = F2
    BY <1>10, <2>3, <2>9, <2>13 DEF FirstOfAction
  <2>15. G2.nonterms = G.nonterms \cup added
    BY <2>11 DEF Grown
  <2>. HIDE DEF G2
  <2>16. /\ F2 \in FirstFamilies(G2) /\ TrueClosed(G2, F2)
         /\ \A F \in FirstFamilies(G2) : Closed(G2, F) => Below(G2, F2, F)
    BY <2>10, <2>11, <2>15, GrownFirst
  <2>17. FirstHolds'
    <3>1. \A v \in DOMAIN F2 : F2[v] \subseteq 0 .. tables.Cur_term + 1
      BY <1>6, <2>9, <2>13
    <3>2. F2 \in [DOMAIN F2 -> SUBSET (0 .. tables.Cur_term + 1)]
      BY <3>1
    <3>. HIDE DEF F2
    <3>3. first' \in [DOMAIN first' -> SUBSET (0 .. tables'.Cur_term + 1)]
      BY <2>4, <2>12, <2>14, <3>2
    <3>4. GrammarOf(tables, first)' = G2
      <4>1. GrammarOf(tables, first)' = GrammarOf(tables', first')
        BY DEF GrammarOf
      <4>. QED
        BY <2>12, <2>14, <4>1 DEF G2
    <3>. QED
      BY <2>14, <2>16, <3>3, <3>4 DEF FirstHolds
  <2>18. InBody(u)
    <3>1. tables.Num_productions > 0 /\ 0 \in DOMAIN tables.productions
      BY <1>4, <2>6
    <3>2. u.productions[0].lhs = tables.productions[0].lhs
      BY <2>8, <3>1
    <3>3. tables.lhs # NULL /\ tables.Goal_symbol = tables.productions[0].lhs
          /\ {tables.lhs, tables.Goal_symbol} \subseteq MINNONTERM .. tables.Cur_nonterm
          /\ tables.Goal_symbol_is_next \in BOOLEAN
          /\ (tables.Goal_symbol_is_next <=> tables.lhs = NULL)
      BY <1>2, <3>1 DEF InBody, GoalKept
    <3>4. \A v : v \in MINNONTERM .. tables.Cur_nonterm => v \in MINNONTERM .. u.Cur_nonterm
      BY <2>6, Limits
    <3>5. u.Num_productions > 0 /\ u.Num_productions # 0
      BY <2>6, <3>1
    <3>. QED
      BY <2>4, <3>2, <3>3, <3>4, <3>5 DEF InBody, GoalKept
  <2>19. Phase(tables, pc)'
    <3>1. Phase(u, "patch")
      BY <1>2, <2>4, <2>18, Places DEF BodyPlaces
    <3>. QED
      BY <2>12, <3>1
  <2>20. Sound(tables)' /\ AtPlace' /\ BeforeFirst'
    BY <2>7, <2>12, <2>19 DEF AtPlace, BeforeFirst, PatchPlaces
  <2>21. ToPatch'
    <3>1. chain' \in Seq(DOMAIN u.productions)
      <4>1. DOMAIN tables.productions \subseteq DOMAIN u.productions
        BY <2>6
      <4>. QED
        BY <1>1, <1>4, <4>1
    <3>2. todo \subseteq MINNONTERM .. u.Cur_nonterm
      <4>1. \A v : v \in MINNONTERM .. tables.Cur_nonterm => v \in MINNONTERM .. u.Cur_nonterm
        BY <2>6, Limits
      <4>. QED
        BY <1>3, <4>1
    <3>3. ASSUME NEW q \in DOMAIN u.productions, NEW i \in 1 .. Len(u.productions[q].rhs),
                 IsAct(u.productions[q].rhs[i])
          PROVE  u.productions[q].lhs \in todo \/ \E k \in 1 .. Len(chain') : chain'[k] = q
      <4>1. /\ q \in DOMAIN tables.productions \ {p}
            /\ u.productions[q] = tables.productions[q]
        BY <1>2, <1>4, <2>1, <2>5, <3>3, PatchedActs
      <4>2. tables.productions[q].lhs \in todo \/ \E k \in 1 .. Len(chain) : chain[k] = q
        BY <1>3, <3>3, <4>1
      <4>3. ASSUME NEW k \in 1 .. Len(chain), chain[k] = q
            PROVE  \E j \in 1 .. Len(chain') : chain'[j] = q
        <5>1. k # 1
          BY <1>4, <4>1, <4>3
        <5>2. k - 1 \in 1 .. Len(chain) - 1 /\ (k - 1) + 1 = k
          BY <1>4, <5>1
        <5>3. chain'[k - 1] = q /\ k - 1 \in 1 .. Len(chain')
          BY <1>1, <1>4, <4>3, <5>2
        <5>. QED
          BY <5>3
      <4>. QED
        BY <4>1, <4>2, <4>3
    <3>. QED
      BY <1>1, <2>12, <3>1, <3>2, <3>3 DEF ToPatch
  <2>. QED
    BY <2>17, <2>20, <2>21 DEF IInv
<1>. QED
  BY <1>5, <1>8, <1>9, <1>10

----------------------------------------------------------------------------
(***************************************************************************)
(* The theorems about do_file().                                           *)
(***************************************************************************)
LEMMA GeneratorStarts ==
  ASSUME GeneratorInit
  PROVE  IInv
<1>1. /\ tables = InitialTables /\ pc = "definitions"
      /\ first = [v \in {} |-> {}] /\ todo = {} /\ chain = <<>>
  BY DEF GeneratorInit, Init
<1>2. Sound(tables) /\ Phase(tables, "definitions")
  BY <1>1, InitialSound
<1>3. AtPlace
  BY <1>1, <1>2 DEF AtPlace
<1>4. BeforeFirst /\ ToPatch
  BY <1>1 DEF BeforeFirst, ToPatch, PatchPlaces
<1>5. FirstHolds
  BY <1>1 DEF FirstHolds, PatchPlaces
<1>. QED
  BY <1>2, <1>3, <1>4, <1>5 DEF IInv

LEMMA GeneratorSteps ==
  ASSUME IInv, [Next]_allVars
  PROVE  IInv'
<1>1. CASE Parsing
  BY <1>1, ParsingStep
<1>2. CASE CheckProblems
  BY <1>2, CheckStep
<1>3. CASE FindFirst
  BY <1>3, FindStep
<1>4. CASE PatchSymbol
  BY <1>4, SymbolStep
<1>5. CASE PatchProduction
  BY <1>5, PatchStep
<1>6. CASE PatchReturns
  BY <1>6, ReturnsStep
<1>7. CASE MakeParseTables
  BY <1>7, TablesStep
<1>8. CASE UNCHANGED allVars
  <2>1. /\ tables' = tables /\ pc' = pc /\ return' = return /\ first' = first
        /\ todo' = todo /\ chain' = chain
    BY <1>8 DEF allVars, vars
  <2>2. GrammarOf(tables, first)' = GrammarOf(tables, first)
    BY <2>1 DEF GrammarOf
  <2>3. Sound(tables)' /\ AtPlace' /\ BeforeFirst' /\ ToPatch'
    BY <2>1 DEF IInv, AtPlace, BeforeFirst, ToPatch
  <2>4. FirstHolds'
    <3>1. FirstHolds
      BY DEF IInv
    <3>. QED
      BY <2>1, <2>2, <3>1 DEF FirstHolds
  <2>. QED
    BY <2>3, <2>4 DEF IInv
<1>. QED
  BY <1>1, <1>2, <1>3, <1>4, <1>5, <1>6, <1>7, <1>8 DEF Next

\* Whatever is in the file, and whatever way the parser recovers from its errors, the tables
\* stay sound, what the parser relies on holds wherever it goes on, no production with an
\* action is passed over by patch(), and the FIRST sets stay right while it rewrites them.
THEOREM GeneratorInvariant == Spec => []IInv
<1>1. GeneratorInit => IInv
  BY GeneratorStarts
<1>2. IInv /\ [Next]_allVars => IInv'
  BY GeneratorSteps
<1>. QED
  BY <1>1, <1>2, PTL DEF Spec

\* The tables keep their limits, symbols and productions are numbered without gaps, and the
\* chain of every symbol holds its productions, newest first: with new symbols, with
\* actions that dopatch() makes nonterminals, and behind any error.
THEOREM GeneratorTypeCorrect == Spec => []TypeOK
<1>1. ASSUME IInv
      PROVE  TypeOK
  <2>1. /\ Numbers(tables) /\ DOMAIN tables.symbols = Values(tables)
        /\ DOMAIN tables.productions = 0 .. tables.Num_productions - 1
        /\ Linked(tables) /\ AtPlace /\ FirstHolds
    BY <1>1 DEF IInv, Sound, SymbolsHold, ProductionsHold
  <2>2. pc \in {"exit", "undefined", "lookfor"} \cup AllPlaces
    BY <2>1 DEF AtPlace, Phase
  <2>3. pc \in {"definitions", "union", "names", "lookfor", "body", "skipped", "colon", "rhs",
                "prec", "right_side", "parsed", "first", "patch", "tables", "lr", "exit",
                "undefined"}
    BY <2>2 DEF AllPlaces, DefinitionsPlaces, BodyPlaces, RhsPlaces
  <2>4. ASSUME NEW p \in DOMAIN tables.productions
        PROVE  /\ IsNonterm(tables.productions[p].lhs)
               /\ Len(tables.productions[p].rhs) <= MAXRHS
               /\ \A i \in DOMAIN tables.productions[p].rhs :
                    tables.productions[p].rhs[i] \in DOMAIN tables.symbols
    <3>. DEFINE prod == tables.productions[p]
    <3>1. IsProduction(tables, prod)
      BY <1>1, LeftSides DEF IInv
    <3>. HIDE DEF prod
    <3>2. /\ prod.lhs \in MINNONTERM .. tables.Cur_nonterm /\ prod.rhs \in Seq(Nat)
          /\ Len(prod.rhs) <= MAXRHS
          /\ \A i \in 1 .. Len(prod.rhs) : prod.rhs[i] \in DOMAIN tables.symbols
      BY <3>1 DEF IsProduction
    <3>3. DOMAIN prod.rhs = 1 .. Len(prod.rhs)
      BY <3>2
    <3>4. IsNonterm(prod.lhs)
      <4>1. tables.Cur_nonterm \in Int /\ tables.Cur_nonterm <= MAXNONTERM
        BY <2>1, Limits DEF Numbers
      <4>. QED
        BY <3>2, <4>1, Limits DEF IsNonterm
    <3>. QED
      BY <3>2, <3>3, <3>4 DEF prod
  <2>5. ASSUME NEW v \in DOMAIN tables.symbols
        PROVE  LET linked == tables.symbols[v].productions
               IN /\ {linked[i] : i \in DOMAIN linked}
                       = {p \in DOMAIN tables.productions : tables.productions[p].lhs = v}
                  /\ \A i, j \in DOMAIN linked : i < j => linked[i] > linked[j]
    <3>. DEFINE linked == tables.symbols[v].productions
    <3>1. IsChain(tables, v, linked)
      BY <2>1 DEF Linked
    <3>. HIDE DEF linked
    <3>2. DOMAIN linked = 1 .. Len(linked)
      BY <3>1 DEF IsChain
    <3>3. /\ {linked[i] : i \in DOMAIN linked}
                = {p \in DOMAIN tables.productions : tables.productions[p].lhs = v}
          /\ \A i, j \in DOMAIN linked : i < j => linked[i] > linked[j]
      BY <3>1, <3>2 DEF IsChain
    <3>. QED
      BY <3>3 DEF linked
  <2>6. first \in [DOMAIN first -> SUBSET (0 .. tables.Cur_term + 1)]
    BY <2>1 DEF FirstHolds
  <2>7. tables.Cur_term \in 0 .. MAXTERM /\ tables.Cur_nonterm \in MINNONTERM - 1 .. MAXNONTERM
    BY <2>1 DEF Numbers
  <2>. QED
    BY <2>1, <2>3, <2>4, <2>5, <2>6, <2>7 DEF TypeOK
<1>. QED
  BY <1>1, GeneratorInvariant, PTL

\* More in the FIRST sets gives no less by definition.
LEMMA TrueMonotone ==
  ASSUME NEW G, Readable(G), NEW p \in Productions(G),
         NEW F \in FirstFamilies(G), NEW F2 \in FirstFamilies(G), Below(G, F, F2)
  PROVE  TrueOfProduction(WithFirst(G, F), p) \subseteq TrueOfProduction(WithFirst(G, F2), p)
<1>. DEFINE H  == WithFirst(G, F)
            H2 == WithFirst(G, F2)
<1>1. /\ H.nonterms = G.nonterms /\ H.rhs = G.rhs /\ H.first = F /\ EPSILON(H) = EPSILON(G)
      /\ H2.nonterms = G.nonterms /\ H2.rhs = G.rhs /\ H2.first = F2
      /\ EPSILON(H2) = EPSILON(G)
  BY Fields
<1>2. FirstOfProduction(H, p) \subseteq FirstOfProduction(H2, p)
  BY Contribution
<1>. HIDE DEF H, H2
<1>3. \A sym : NULLABLE(H, sym) => NULLABLE(H2, sym)
  BY <1>1 DEF NULLABLE, ISNONTERM, Below
<1>4. RhsIsNullable(H, G.rhs[p], 1) => RhsIsNullable(H2, G.rhs[p], 1)
  BY <1>3 DEF RhsIsNullable, NullableRun
<1>. QED
  BY <1>1, <1>2, <1>4 DEF TrueOfProduction, H, H2

\* FIRST by definition is in the sets that hold all it asks for.
LEMMA TrueFirstBelow ==
  ASSUME NEW G, Readable(G), NEW F2 \in FirstFamilies(G), TrueClosed(G, F2)
  PROVE  TrueFirst(G) \in FirstFamilies(G) /\ Below(G, TrueFirst(G), F2)
<1>1. Bounds(G, TrueStep(G), F2)
  <2>1. SUFFICES ASSUME NEW F \in FirstFamilies(G), Below(G, F, F2), NEW A \in G.nonterms
                 PROVE  TrueStep(G)[F][A] \subseteq F2[A]
    BY DEF Bounds, Below
  <2>2. TrueStep(G)[F][A] =
          F[A] \cup UNION {TrueOfProduction(WithFirst(G, F), p) : p \in ProductionsOf(G, A)}
    BY <2>1 DEF TrueStep
  <2>3. F[A] \subseteq F2[A]
    BY <2>1 DEF Below
  <2>4. ASSUME NEW p \in ProductionsOf(G, A)
        PROVE  TrueOfProduction(WithFirst(G, F), p) \subseteq F2[A]
    <3>1. p \in Productions(G)
      BY <2>4 DEF ProductionsOf
    <3>2. TrueOfProduction(WithFirst(G, F), p) \subseteq TrueOfProduction(WithFirst(G, F2), p)
      BY <2>1, <3>1, TrueMonotone
    <3>3. TrueOfProduction(WithFirst(G, F2), p) \subseteq F2[A]
      BY <2>4 DEF TrueClosed
    <3>. QED
      BY <3>2, <3>3
  <2>. QED
    BY <2>2, <2>3, <2>4
<1>. QED
  BY <1>1, TrueStepEnlarges, IterateEnds DEF TrueFirst

\* What lr() begins with is a grammar as it needs it, whatever errors were found in the file
\* but a right-hand side that is too long: only terminals and nonterminals on right-hand
\* sides, as many as are counted, production 0 the only one of the goal symbol, and FIRST
\* sets that are right for the productions patch() has left, where no production goes on
\* behind a nullable nonterminal to a symbol that is not nullable.
LEMMA GrammarReady ==
  ASSUME IInv, TooLong(tables) = {}
  PROVE  ReadyForLr
<1>1. ASSUME IInv, pc = "lr"
      PROVE  LET G == GrammarOf(tables, first)
             IN /\ IsSymbolTable(G)
                /\ \A p \in Productions(G) : tables.productions[p].rhs_len = Len(G.rhs[p])
                /\ \A p \in Productions(G) : \A i \in DOMAIN G.rhs[p] :
                     G.rhs[p][i] \in Symbols(G)
                /\ tables.Goal_symbol = G.lhs[0]
                /\ ProductionsOf(G, G.lhs[0]) = {0}
                /\ PlainGrammar(G) => G.first = TrueFirst(G)
  <2>. DEFINE G    == GrammarOf(tables, first)
              goal == tables.Goal_symbol
  <2>1. Sound(tables) /\ InBody(tables)
    <3>1. Phase(tables, "lr")
      BY <1>1, HerePhase DEF IInv, AllPlaces, BodyPlaces
    <3>. QED
      BY <1>1, <3>1, Places DEF BodyPlaces, IInv
  <2>2. /\ todo = {} /\ chain = <<>>
        /\ goal # NULL /\ Len(tables.symbols[goal].productions) <= 1
        /\ \A p \in DOMAIN tables.productions : \A i \in 1 .. Len(tables.productions[p].rhs) :
             IsAct(tables.productions[p].rhs[i]) =>
               tables.productions[p].lhs \in todo \/ \E k \in 1 .. Len(chain) : chain[k] = p
    BY <1>1 DEF IInv, ToPatch, PatchPlaces
  <2>3. /\ first \in FirstFamilies(G) /\ TrueClosed(G, first)
        /\ \A F \in FirstFamilies(G) : Closed(G, F) => Below(G, first, F)
    BY <1>1 DEF IInv, FirstHolds, PatchPlaces
  <2>4. /\ Readable(G) /\ G.nonterms = MINNONTERM .. tables.Cur_nonterm
        /\ Productions(G) = DOMAIN tables.productions
        /\ DOMAIN G.rhs = DOMAIN tables.productions
        /\ \A p \in DOMAIN tables.productions : /\ G.lhs[p] = tables.productions[p].lhs
                                                /\ G.rhs[p] = tables.productions[p].rhs
        /\ G.lhs \in [DOMAIN tables.productions -> G.nonterms]
        /\ G.first = first
    BY <2>1, GrammarFacts
  <2>5. /\ tables.Num_productions \in Nat
        /\ DOMAIN tables.productions = 0 .. tables.Num_productions - 1
        /\ DOMAIN tables.symbols = Values(tables) /\ Linked(tables)
    BY <2>1 DEF Sound, Numbers, ProductionsHold, SymbolsHold
  <2>. HIDE DEF G
  <2>6. /\ tables.lhs # NULL /\ tables.Num_productions > 0
        /\ goal = tables.productions[0].lhs /\ goal \in MINNONTERM .. tables.Cur_nonterm
    BY <2>1, <2>2 DEF InBody, GoalKept
  <2>7. 0 \in DOMAIN tables.productions /\ goal = G.lhs[0]
    BY <2>4, <2>5, <2>6
  <2>8. IsSymbolTable(G)
    <3>1. G.terms \subseteq 1 .. MINNONTERM - 2 /\ G.nonterms \subseteq MINNONTERM .. MINACT - 1
      BY <2>4 DEF Readable
    <3>2. 0 \in Productions(G) /\ Productions(G) \subseteq Nat
      BY <2>4, <2>5, <2>7
    <3>3. G.first \in [G.nonterms -> SUBSET (G.terms \cup {EPSILON(G)})]
      BY <2>3, <2>4 DEF FirstFamilies
    <3>. QED
      BY <2>4, <3>1, <3>2, <3>3 DEF IsSymbolTable
  <2>9. ASSUME NEW p \in Productions(G), NEW i \in DOMAIN G.rhs[p]
        PROVE  G.rhs[p][i] \in Symbols(G)
    <3>1. Len(chain) = 0
      BY <2>2
    <3>2. \A k : k \notin 1 .. Len(chain)
      BY <3>1
    <3>3. G.rhs[p] \in Seq(Nat) /\ (G.rhs[p][i] \in Symbols(G) \/ ISACT(G.rhs[p][i]))
      BY <2>4 DEF Readable
    <3>4. i \in 1 .. Len(G.rhs[p])
      BY <3>3
    <3>5. ~IsAct(G.rhs[p][i])
      BY <2>2, <2>4, <3>2, <3>4
    <3>. QED
      BY <3>3, <3>5 DEF IsAct, ISACT
  <2>10. ProductionsOf(G, goal) = {0}
    <3>. DEFINE linked == tables.symbols[goal].productions
    <3>1. goal \in DOMAIN tables.symbols
      BY <2>5, <2>6 DEF Values
    <3>2. IsChain(tables, goal, linked)
      BY <2>5, <3>1 DEF Linked
    <3>. HIDE DEF linked
    <3>3. /\ linked \in Seq(Nat)
          /\ {linked[i] : i \in 1 .. Len(linked)}
               = {p \in DOMAIN tables.productions : tables.productions[p].lhs = goal}
      BY <3>2 DEF IsChain
    <3>4. Len(linked) \in Nat /\ Len(linked) <= 1
      BY <2>2, <3>3 DEF linked
    <3>5. \A i \in 1 .. Len(linked) : i = 1
      BY <3>4
    <3>6. ProductionsOf(G, goal) =
            {p \in DOMAIN tables.productions : tables.productions[p].lhs = goal}
      BY <2>4 DEF ProductionsOf
    <3>7. 0 \in ProductionsOf(G, goal)
      BY <2>6, <2>7, <3>6
    <3>. QED
      BY <3>3, <3>5, <3>6, <3>7
  <2>11. ASSUME PlainGrammar(G)
         PROVE  G.first = TrueFirst(G)
    <3>1. TrueFirst(G) \in FirstFamilies(G) /\ Below(G, TrueFirst(G), first)
      BY <2>3, <2>4, TrueFirstBelow
    <3>2. Closed(G, TrueFirst(G))
      BY <2>4, <2>11, PlainClosed
    <3>3. Below(G, first, TrueFirst(G))
      BY <2>3, <3>1, <3>2
    <3>. DEFINE F == TrueFirst(G)
    <3>4. F \in FirstFamilies(G) /\ \A A \in G.nonterms : F[A] = first[A]
      BY <3>1, <3>3 DEF Below
    <3>. HIDE DEF F
    <3>5. F = first
      BY <2>3, <3>4 DEF FirstFamilies
    <3>. QED
      BY <2>4, <3>5 DEF F
  <2>12. ASSUME NEW p \in Productions(G)
         PROVE  tables.productions[p].rhs_len = Len(G.rhs[p])
    <3>. DEFINE prod == tables.productions[p]
    <3>1. IsProduction(tables, prod)
      BY <2>1, <2>4, LeftSides
    <3>2. ~(prod.rhs_len > Len(prod.rhs))
      BY <2>4 DEF TooLong
    <3>3. G.rhs[p] = prod.rhs
      BY <2>4
    <3>. HIDE DEF prod
    <3>4. prod.rhs_len \in Nat /\ prod.rhs \in Seq(Nat) /\ Len(prod.rhs) <= prod.rhs_len
      BY <3>1 DEF IsProduction
    <3>5. Len(prod.rhs) \in Nat
      BY <3>4
    <3>6. prod.rhs_len = Len(prod.rhs)
      BY <3>2, <3>4, <3>5
    <3>. QED
      BY <3>3, <3>6 DEF prod
  <2>. QED
    BY <2>7, <2>8, <2>9, <2>10, <2>11, <2>12 DEF G
<1>. QED
  BY <1>1 DEF ReadyForLr

----------------------------------------------------------------------------
(***************************************************************************)
(* What the tables have to do with the tokens before position h of the     *)
(* file s, as FileMeaning reads them.                                      *)
(***************************************************************************)
Until(S, h) == {i \in S : i < h}

\* The files the parser counts no error in: the end of a file does for the first %%, unless
\* it comes inside of a list or behind %union.
AcceptedDefinitions(s) ==
  /\ \A i \in Defs(s) : DefinitionFits(s, i)
  /\ KindAt(s, DefsEnd(s) - 1) # "PERCENT_UNION"
  /\ DefsEnd(s) > Len(s) => KindAt(s, Len(s)) \in {"ACTION", "CODE_BLOCK", "EOI"}

AcceptedRules(s) ==
  /\ \A i \in Rules(s) : RuleFits(s, i)
  /\ DefsEnd(s) <= Len(s) => KindAt(s, RulesEnd(s) - 1) \in {"SEPARATOR", "SEMI"}

AcceptedFile(s) == AcceptedDefinitions(s) /\ AcceptedRules(s) /\ CorrectNames(s)

\* The field the parser keeps for a name: the last one in front of it, in whatever list.
LastField(s, x) ==
  LET place  == Min({i \in Namings(s) : TextAt(s, i) = x})
      fields == {i \in Defs(s) : KindAt(s, i) = "FIELD" /\ i < place}
  IN IF fields = {} THEN "" ELSE TextAt(s, Max(fields))

\* At h a list of names may go on that began with keyword nm.
InList(s, h, nm) ==
  \E k \in 1 .. h - 1 :
    KindAt(s, k) = nm /\ \A j \in k + 1 .. h - 1 : KindAt(s, j) \in {"NAME", "FIELD"}

\* The rules about names, for the names so far.
NamesFit(s, h) ==
  /\ \A i \in Until(Listed(s, TermKeywords), h) : TextAt(s, i) \in CIdentifiers
  /\ \A i \in Until(Listed(s, PrecKeywords), h) : IsTerminalName(s, TextAt(s, i))
  /\ \A i \in Until(Listed(s, {"TYPE"}) \cup Lhss(s), h) : ~IsTerminalName(s, TextAt(s, i))
  /\ \A i \in Until(PrecNames(s), h) : TextAt(s, i) \in Terminals(s) \cup DOMAIN Numerals

Known(s, h) == {TextAt(s, i) : i \in Until(Namings(s), h)}

Named(t) == {v \in DOMAIN t.symbols : ~IsAct(v)}

FieldBefore(s, h) ==
  LET fields == {i \in Defs(s) : KindAt(s, i) = "FIELD" /\ i < h}
  IN IF fields = {} THEN "" ELSE TextAt(s, Max(fields))

\* The symbols are the names so far, a symbol each.
NamesRead(s, h, t) ==
  /\ {t.symbols[v].name : v \in Named(t)} = Known(s, h)
  /\ \A v, w \in Named(t) : t.symbols[v].name = t.symbols[w].name => v = w
  /\ \A v \in Named(t) :
       /\ IsTerm(v) <=> IsTerminalName(s, t.symbols[v].name)
       /\ t.symbols[v].field = LastField(s, t.symbols[v].name)
  /\ t.Field_name = FieldBefore(s, h)

\* LevelOf and AssocOf for the lists so far.
PrecBefore(s, x, h) ==
  LET listed == {i \in Until(Listed(s, PrecKeywords), h) : TextAt(s, i) = x}
      keys   == {k \in Positions(s, PrecKeywords) : k < Max(listed)}
  IN IF listed = {} THEN [level |-> 0, assoc |-> "none"]
     ELSE [level |-> Cardinality(keys), assoc |-> KindAt(s, Max(keys))]

PrecsRead(s, h, t) ==
  t.Precedence = [v \in 1 .. MAXTERM |->
                    IF v <= t.Cur_term THEN PrecBefore(s, t.symbols[v].name, h)
                    ELSE [level |-> 0, assoc |-> "none"]]

LevelRead(s, h, t, place, nm) ==
  /\ t.Prec_lev = Cardinality(Until(Positions(s, PrecKeywords), h))
  /\ place = "names" /\ nm \in PrecKeywords => t.Associativity = nm

\* A production, as far as it has been read.
ProductionRead(s, h, t, start) ==
  LET prod == t.productions[Number(s, start)]
  IN /\ t.symbols[prod.lhs].name = LhsOf(s, start)
     /\ prod.rhs_len = Cardinality(Until(ObjectsOf(s, start), h))
     /\ prod.rhs_len = Len(prod.rhs)
     /\ prod.prec = LevelBy(s, Until(Giving(s, start), h))
     /\ \A i \in Until(ObjectsOf(s, start), h) :
          LET v == prod.rhs[Place(s, i)]
          IN /\ t.symbols[v].name = TextAt(s, i)
             /\ IsAct(v) <=> KindAt(s, i) = "ACTION"
             /\ IsAct(v) => t.symbols[v].field = ""

RulesRead(s, h, t) ==
  /\ t.Num_productions = Cardinality(Until(Starts(s), h))
  /\ t.Num_productions <= MAXPROD
  /\ \A start \in Until(Starts(s), h) : ProductionRead(s, h, t, start)
  /\ t.lhs = NULL <=> Until(Lhss(s), h) = {}
  /\ t.lhs # NULL => /\ t.symbols[t.lhs].name = TextAt(s, Max(Until(Lhss(s), h)))
                     /\ t.symbols[t.Goal_symbol].name = TextAt(s, Min(Lhss(s)))

\* The production that is being read.
AtRhs(s, h, t) ==
  /\ Until(Starts(s), h) # {}
  /\ t.rhs = Number(s, Max(Until(Starts(s), h)))

----------------------------------------------------------------------------
(***************************************************************************)
(* Files as sequences of tokens, and sets of positions in them.            *)
(***************************************************************************)
IsFile(s) == s \in Seq(TokenKinds \X STRING)

\* What the positions of a file are, and what is there.
LEMMA FileFacts ==
  ASSUME NEW s, IsFile(s)
  PROVE  /\ Len(s) \in Nat
         /\ DOMAIN s = 1 .. Len(s)
         /\ \A i \in 1 .. Len(s) : /\ KindAt(s, i) \in TokenKinds
                                   /\ s[i] = <<KindAt(s, i), TextAt(s, i)>>
         /\ \A i : i \notin 1 .. Len(s) => KindAt(s, i) = "EOI"
<1>1. Len(s) \in Nat /\ DOMAIN s = 1 .. Len(s)
  BY DEF IsFile
<1>2. \A i \in 1 .. Len(s) : s[i] \in TokenKinds \X STRING
  BY <1>1 DEF IsFile
<1>3. \A i \in 1 .. Len(s) : KindAt(s, i) = s[i][1] /\ TextAt(s, i) = s[i][2]
  BY <1>1 DEF KindAt, TextAt
<1>. HIDE DEF IsFile
<1>4. \A i \in 1 .. Len(s) : s[i][1] \in TokenKinds /\ s[i] = <<s[i][1], s[i][2]>>
  <2>. TAKE i \in 1 .. Len(s)
  <2>1. s[i] \in TokenKinds \X STRING
    BY <1>2
  <2>. HIDE DEF TokenKinds
  <2>. QED
    BY <2>1
<1>5. \A i : i \notin 1 .. Len(s) => KindAt(s, i) = "EOI"
  BY <1>1 DEF KindAt
<1>. QED
  BY <1>1, <1>3, <1>4, <1>5

LEMMA KindFacts ==
  ASSUME NEW s, IsFile(s)
  PROVE  \A i : /\ KindAt(s, i) \in TokenKinds \cup {"EOI"}
                /\ KindAt(s, i) # "EOI" <=> i \in 1 .. Len(s)
<1>1. "EOI" \notin TokenKinds
  BY DEF TokenKinds
<1>. QED
  BY <1>1, FileFacts

\* The largest and the smallest of some positions.
LEMMA MaxFacts ==
  ASSUME NEW n \in Nat, NEW S \in SUBSET (0 .. n), S # {}
  PROVE  /\ Max(S) \in S
         /\ \A i \in S : i <= Max(S)
         /\ \A m \in S : (\A i \in S : i <= m) => m = Max(S)
<1>. DEFINE B == {m \in Nat : \A i \in S : i <= m}
<1>1. PICK k \in B : \A j \in B : k <= j
  <2>1. n \in B
    OBVIOUS
  <2>2. B \in SUBSET Nat /\ B # {}
    BY <2>1
  <2>. HIDE DEF B
  <2>. QED
    BY <2>2, LeastOne
<1>2. k \in S
  <2>1. SUFFICES ASSUME k \notin S
                 PROVE  FALSE
    OBVIOUS
  <2>2. \A i \in S : i <= k - 1
    BY <1>1, <2>1
  <2>3. k - 1 \in Nat
    <3>0. PICK i : i \in S
      OBVIOUS
    <3>1. i \in Nat
      BY <3>0
    <3>2. i <= k - 1 /\ k \in Nat
      BY <1>1, <2>2, <3>0
    <3>. QED
      BY <3>1, <3>2
  <2>. QED
    BY <1>1, <2>2, <2>3
<1>3. \A i \in S : k >= i
  BY <1>1
<1>4. Max(S) \in S /\ \A i \in S : Max(S) >= i
  BY <1>2, <1>3 DEF Max
<1>5. \A i \in S : i \in Nat
  OBVIOUS
<1>6. \A m \in S : (\A i \in S : i <= m) => m = Max(S)
  <2>. TAKE m \in S
  <2>. HAVE \A i \in S : i <= m
  <2>1. m >= Max(S) /\ Max(S) >= m /\ m \in Nat /\ Max(S) \in Nat
    BY <1>4, <1>5
  <2>. QED
    BY <2>1
<1>. QED
  BY <1>4, <1>5, <1>6

LEMMA MinFacts ==
  ASSUME NEW S \in SUBSET Nat, S # {}
  PROVE  /\ Min(S) \in S
         /\ \A i \in S : Min(S) <= i
         /\ \A m \in S : (\A i \in S : m <= i) => m = Min(S)
<1>1. \E k \in S : \A i \in S : k <= i
  BY LeastOne
<1>2. Min(S) \in S /\ \A i \in S : Min(S) <= i
  BY <1>1 DEF Min
<1>3. \A m \in S : (\A i \in S : m <= i) => m = Min(S)
  <2>. TAKE m \in S
  <2>. HAVE \A i \in S : m <= i
  <2>1. m <= Min(S) /\ Min(S) <= m /\ m \in Nat /\ Min(S) \in Nat
    BY <1>2
  <2>. QED
    BY <2>1
<1>. QED
  BY <1>2, <1>3

Within(S, n) == S \in SUBSET (1 .. n)

\* One position further.
LEMMA UntilNext ==
  ASSUME NEW n \in Nat, NEW S, Within(S, n), NEW h \in Nat
  PROVE  /\ h \in S => Until(S, h + 1) = Until(S, h) \cup {h}
         /\ h \notin S => Until(S, h + 1) = Until(S, h)
         /\ h \notin Until(S, h)
         /\ Within(Until(S, h), n)
         /\ IsFiniteSet(Until(S, h)) /\ Cardinality(Until(S, h)) \in Nat
         /\ Cardinality(Until(S, h)) <= Cardinality(S)
         /\ h \in S => /\ Cardinality(Until(S, h + 1)) = Cardinality(Until(S, h)) + 1
                       /\ Max(Until(S, h + 1)) = h
                       /\ Cardinality(Until(S, h)) < Cardinality(S)
<1>0. \A i \in S : i \in Nat /\ i \in 1 .. n /\ (i < h + 1 <=> i < h \/ i = h)
  BY DEF Within
<1>1. /\ h \in S => Until(S, h + 1) = Until(S, h) \cup {h}
      /\ h \notin S => Until(S, h + 1) = Until(S, h)
      /\ h \notin Until(S, h)
  <2>1. \A i : i \in Until(S, h + 1) <=> i \in S /\ (i < h \/ i = h)
    BY <1>0 DEF Until
  <2>2. \A i : i \in Until(S, h) <=> i \in S /\ i < h
    BY DEF Until
  <2>. QED
    BY <2>1, <2>2
<1>2. Until(S, h) \in SUBSET S /\ Until(S, h + 1) \in SUBSET S
  BY DEF Until
<1>3. IsFiniteSet(S)
  <2>1. IsFiniteSet(1 .. n)
    BY FS_Interval
  <2>. QED
    BY <2>1, FS_Subset DEF Within
<1>4. /\ IsFiniteSet(Until(S, h)) /\ Cardinality(Until(S, h)) <= Cardinality(S)
      /\ Cardinality(Until(S, h + 1)) <= Cardinality(S)
  BY <1>2, <1>3, FS_Subset
<1>5. Cardinality(Until(S, h)) \in Nat /\ Cardinality(S) \in Nat
  BY <1>3, <1>4, FS_CardinalityType
<1>6. h \in S => Cardinality(Until(S, h + 1)) = Cardinality(Until(S, h)) + 1
  BY <1>1, <1>4, FS_AddElement
<1>7. ASSUME h \in S
      PROVE  Max(Until(S, h + 1)) = h
  <2>0. \A i \in Until(S, h + 1) : i \in S /\ i \in 0 .. n
    BY <1>0 DEF Until
  <2>1. Until(S, h + 1) \in SUBSET (0 .. n) /\ h \in Until(S, h + 1)
    BY <2>0, <1>1, <1>7
  <2>2. \A i \in Until(S, h + 1) : i <= h
    BY <1>0 DEF Until
  <2>. QED
    BY <2>1, <2>2, MaxFacts
<1>8. Within(Until(S, h), n)
  BY <1>2 DEF Within
<1>9. h \in S => Cardinality(Until(S, h)) < Cardinality(S)
  BY <1>4, <1>5, <1>6
<1>. QED
  BY <1>1, <1>4, <1>5, <1>6, <1>7, <1>8, <1>9

LEMMA UntilAll ==
  ASSUME NEW n \in Nat, NEW S, Within(S, n), NEW h \in Nat, \A i \in S : i < h
  PROVE  Until(S, h) = S /\ IsFiniteSet(S) /\ Cardinality(S) \in Nat
<1>1. Until(S, h) = S
  BY DEF Until
<1>. QED
  BY <1>1, UntilNext

\* Where the definitions and the rules end.
LEMMA Ends ==
  ASSUME NEW s, IsFile(s)
  PROVE  /\ DefsEnd(s) \in 1 .. Len(s) + 1
         /\ DefsEnd(s) <= Len(s) => KindAt(s, DefsEnd(s)) = "SEPARATOR"
         /\ \A i \in 1 .. DefsEnd(s) - 1 : KindAt(s, i) # "SEPARATOR"
         /\ RulesEnd(s) \in 1 .. Len(s) + 1
         /\ RulesEnd(s) <= Len(s) => KindAt(s, RulesEnd(s)) = "SEPARATOR"
         /\ DefsEnd(s) <= Len(s) => DefsEnd(s) < RulesEnd(s)
         /\ DefsEnd(s) > Len(s) => RulesEnd(s) = Len(s) + 1 /\ DefsEnd(s) = Len(s) + 1
         /\ \A i \in DefsEnd(s) + 1 .. RulesEnd(s) - 1 : KindAt(s, i) # "SEPARATOR"
<1>. DEFINE S == Positions(s, {"SEPARATOR"}) \cup {Len(s) + 1}
            D == DefsEnd(s)
            S2 == {i \in Positions(s, {"SEPARATOR"}) : i > D} \cup {Len(s) + 1}
            R == RulesEnd(s)
<1>1. /\ Len(s) \in Nat /\ DOMAIN s = 1 .. Len(s)
      /\ Positions(s, {"SEPARATOR"}) = {i \in 1 .. Len(s) : KindAt(s, i) = "SEPARATOR"}
  BY FileFacts DEF Positions
<1>2. S \in SUBSET Nat /\ S # {} /\ S2 \in SUBSET Nat /\ S2 # {}
  BY <1>1
<1>3. D = Min(S) /\ R = Min(S2)
  BY DEF DefsEnd, RulesEnd
<1>. HIDE DEF D, R
<1>4. D \in S /\ \A i \in S : D <= i
  <2>. HIDE DEF S
  <2>. QED
    BY <1>2, <1>3, MinFacts
<1>5. R \in S2 /\ \A i \in S2 : R <= i
  <2>. HIDE DEF S2
  <2>. QED
    BY <1>2, <1>3, MinFacts
<1>6. /\ D \in 1 .. Len(s) + 1
      /\ D <= Len(s) => KindAt(s, D) = "SEPARATOR"
      /\ \A i \in 1 .. D - 1 : KindAt(s, i) # "SEPARATOR"
  BY <1>1, <1>4
<1>7. /\ R \in 1 .. Len(s) + 1
      /\ R <= Len(s) => KindAt(s, R) = "SEPARATOR" /\ R > D
      /\ \A i \in D + 1 .. R - 1 : KindAt(s, i) # "SEPARATOR"
  BY <1>1, <1>5, <1>6
<1>. QED
  BY <1>1, <1>6, <1>7 DEF D, R

\* Where the parser is, seen from the ends.
LEMMA EndReached ==
  ASSUME NEW s, IsFile(s), NEW h \in 1 .. Len(s) + 1,
         \A i \in 1 .. h - 1 : KindAt(s, i) # "SEPARATOR"
  PROVE  /\ h <= DefsEnd(s)
         /\ KindAt(s, h) \in {"SEPARATOR", "EOI"} => h = DefsEnd(s)
         /\ KindAt(s, h) \notin {"SEPARATOR", "EOI"} => h \in Defs(s) /\ h <= Len(s)
<1>1. Len(s) \in Nat
  BY FileFacts
<1>2. h <= DefsEnd(s)
  BY <1>1, Ends
<1>3. KindAt(s, h) \in {"SEPARATOR", "EOI"} => h = DefsEnd(s)
  BY <1>1, <1>2, Ends, KindFacts
<1>4. KindAt(s, h) \notin {"SEPARATOR", "EOI"} => h # DefsEnd(s) /\ h <= Len(s)
  BY <1>1, Ends, KindFacts
<1>. QED
  BY <1>1, <1>2, <1>3, <1>4, Ends DEF Defs

LEMMA RulesReached ==
  ASSUME NEW s, IsFile(s), NEW h \in 1 .. Len(s) + 1,
         IF DefsEnd(s) <= Len(s) THEN DefsEnd(s) < h ELSE h = Len(s) + 1,
         \A i \in DefsEnd(s) + 1 .. h - 1 : KindAt(s, i) # "SEPARATOR"
  PROVE  /\ h <= RulesEnd(s)
         /\ \A i \in Defs(s) \cup Until(Rules(s), h) : i < h
         /\ KindAt(s, h) \in {"SEPARATOR", "EOI"} => h = RulesEnd(s)
         /\ KindAt(s, h) \notin {"SEPARATOR", "EOI"} =>
              h \in Rules(s) /\ h <= Len(s) /\ DefsEnd(s) < h
<1>1. Len(s) \in Nat
  BY FileFacts
<1>2. h <= RulesEnd(s)
  BY <1>1, Ends
<1>3. KindAt(s, h) \in {"SEPARATOR", "EOI"} => h = RulesEnd(s)
  BY <1>1, <1>2, Ends, KindFacts
<1>4. KindAt(s, h) \notin {"SEPARATOR", "EOI"} => h # RulesEnd(s) /\ h <= Len(s)
  BY <1>1, Ends, KindFacts
<1>5. \A i \in Defs(s) \cup Until(Rules(s), h) : i < h
  BY <1>1, Ends DEF Defs, Until
<1>. QED
  BY <1>1, <1>2, <1>3, <1>4, <1>5, Ends DEF Rules

----------------------------------------------------------------------------
(***************************************************************************)
(* What a token at a position adds to these sets.                          *)
(***************************************************************************)
LEMMA UntilGrows ==
  ASSUME NEW n \in Nat, NEW S, Within(S, n), NEW a \in S, NEW h \in Nat, a < h
  PROVE  /\ Cardinality(Until(S, a)) \in Nat /\ Cardinality(Until(S, h)) \in Nat
         /\ Cardinality(Until(S, a)) < Cardinality(Until(S, h))
         /\ Cardinality(Until(S, h)) <= Cardinality(S)
         /\ Cardinality(S) \in Nat
<1>1. a \in Nat /\ a \in 1 .. n
  BY DEF Within
<1>2. /\ Cardinality(Until(S, a)) \in Nat
      /\ Cardinality(Until(S, a + 1)) = Cardinality(Until(S, a)) + 1
  BY <1>1, UntilNext
<1>3. /\ IsFiniteSet(Until(S, h)) /\ Cardinality(Until(S, h)) \in Nat
      /\ Cardinality(Until(S, h)) <= Cardinality(S)
  BY UntilNext
<1>4. Until(S, a + 1) \in SUBSET Until(S, h)
  <2>1. \A i \in Until(S, a + 1) : i \in S /\ i \in 1 .. n /\ i < a + 1
    BY DEF Until, Within
  <2>2. \A i \in Until(S, a + 1) : i < h
    BY <1>1, <2>1
  <2>. QED
    BY <2>1, <2>2 DEF Until
<1>5. Cardinality(Until(S, a + 1)) <= Cardinality(Until(S, h))
  BY <1>3, <1>4, FS_Subset
<1>6. Cardinality(S) \in Nat
  <2>1. IsFiniteSet(1 .. n)
    BY FS_Interval
  <2>2. IsFiniteSet(S)
    BY <2>1, FS_Subset DEF Within
  <2>. QED
    BY <2>2, FS_CardinalityType
<1>. QED
  BY <1>2, <1>3, <1>5, <1>6

\* The same, at a position of the file.
LEMMA UntilHere ==
  ASSUME NEW s, IsFile(s), NEW S, Within(S, Len(s)), NEW h \in 1 .. Len(s) + 1
  PROVE  /\ h \in S => Until(S, h + 1) = Until(S, h) \cup {h}
         /\ h \notin S => Until(S, h + 1) = Until(S, h)
         /\ h \notin Until(S, h)
         /\ Within(Until(S, h), Len(s))
         /\ IsFiniteSet(Until(S, h)) /\ Cardinality(Until(S, h)) \in Nat
         /\ Cardinality(Until(S, h)) <= Cardinality(S)
         /\ h \in S => /\ Cardinality(Until(S, h + 1)) = Cardinality(Until(S, h)) + 1
                       /\ Max(Until(S, h + 1)) = h
                       /\ Cardinality(Until(S, h)) < Cardinality(S)
<1>1. PICK n : n = Len(s) /\ n \in Nat
  BY FileFacts
<1>2. Within(S, n) /\ h \in Nat
  BY <1>1
<1>. QED
  BY <1>1, <1>2, UntilNext

\* Everything FileMeaning speaks of is a set of positions.
LEMMA PositionSets ==
  ASSUME NEW s, IsFile(s)
  PROVE  /\ Defs(s) \in SUBSET (1 .. Len(s)) /\ Rules(s) \in SUBSET (1 .. Len(s))
         /\ \A i \in Defs(s), j \in Rules(s) : i < j
         /\ \A keywords : Listed(s, keywords) \in SUBSET Defs(s)
         /\ Lhss(s) \in SUBSET Rules(s)
         /\ Objects(s) \in SUBSET Rules(s)
         /\ PrecNames(s) \in SUBSET Rules(s)
         /\ Starts(s) \in SUBSET Rules(s)
         /\ \A start : /\ ObjectsOf(s, start) \in SUBSET Objects(s)
                       /\ Giving(s, start) \in SUBSET (Objects(s) \cup PrecNames(s))
         /\ \A keywords : Positions(s, keywords) \in SUBSET (1 .. Len(s))
         /\ Namings(s) \in SUBSET (Defs(s) \cup Rules(s))
<1>1. Len(s) \in Nat /\ DOMAIN s = 1 .. Len(s)
  BY FileFacts
<1>2. /\ Defs(s) \in SUBSET (1 .. Len(s)) /\ Rules(s) \in SUBSET (1 .. Len(s))
      /\ \A i \in Defs(s), j \in Rules(s) : i < j
  BY <1>1, Ends DEF Defs, Rules
<1>. QED
  BY <1>1, <1>2 DEF Listed, Lhss, Objects, PrecNames, Starts, ObjectsOf, Giving, Positions,
                    Namings

\* The same, as sets of positions in the file.
LEMMA PositionsInFile ==
  ASSUME NEW s, IsFile(s)
  PROVE  /\ Len(s) \in Nat
         /\ \A keywords : Within(Listed(s, keywords), Len(s))
         /\ Within(Lhss(s), Len(s))
         /\ Within(Objects(s), Len(s))
         /\ Within(PrecNames(s), Len(s))
         /\ Within(Starts(s), Len(s))
         /\ \A start : Within(ObjectsOf(s, start), Len(s))
         /\ \A start : Within(Giving(s, start), Len(s))
         /\ \A keywords : Within(Positions(s, keywords), Len(s))
         /\ Within(Namings(s), Len(s))
<1>1. Len(s) \in Nat
  BY FileFacts
<1>2. /\ Defs(s) \in SUBSET (1 .. Len(s)) /\ Rules(s) \in SUBSET (1 .. Len(s))
  BY PositionSets
<1>. QED
  BY <1>1, <1>2, PositionSets DEF Within

\* A position of the definitions is a naming only as a listed name.
LEMMA DefsHere ==
  ASSUME NEW s, IsFile(s), NEW h \in Defs(s)
  PROVE  /\ h \in 1 .. Len(s)
         /\ h \notin Rules(s)
         /\ h \notin Lhss(s) /\ h \notin Objects(s) /\ h \notin PrecNames(s) /\ h \notin Starts(s)
         /\ \A start : h \notin ObjectsOf(s, start) /\ h \notin Giving(s, start)
         /\ KindAt(s, h) # "NAME" => \A keywords : h \notin Listed(s, keywords)
         /\ h \in Namings(s) <=> h \in Listed(s, ListKeywords)
         /\ \A keywords : h \in Positions(s, keywords) <=> KindAt(s, h) \in keywords
<1>1. h \in 1 .. Len(s) /\ DOMAIN s = 1 .. Len(s)
  BY PositionSets, FileFacts
<1>2. h \notin Rules(s)
  BY <1>1, PositionSets, FileFacts
<1>3. /\ h \notin Lhss(s) /\ h \notin Objects(s) /\ h \notin PrecNames(s) /\ h \notin Starts(s)
  BY <1>2, PositionSets
<1>4. \A start : h \notin ObjectsOf(s, start) /\ h \notin Giving(s, start)
  BY <1>3, PositionSets
<1>. QED
  BY <1>1, <1>2, <1>3, <1>4 DEF Listed, Namings, Positions

LEMMA RulesHere ==
  ASSUME NEW s, IsFile(s), NEW h \in Rules(s)
  PROVE  /\ h \in 1 .. Len(s)
         /\ h \notin Defs(s)
         /\ \A keywords : h \notin Listed(s, keywords)
         /\ h \in Lhss(s) <=> IsLhs(s, h)
         /\ h \in Starts(s) <=> KindAt(s, h) \in {"COLON", "OR"}
         /\ h \in PrecNames(s) <=> KindAt(s, h) = "NAME" /\ KindAt(s, h - 1) = "PREC"
         /\ h \in Objects(s) <=> /\ KindAt(s, h) \in {"NAME", "FIELD", "ACTION"}
                                 /\ ~IsLhs(s, h)
                                 /\ KindAt(s, h - 1) # "PREC"
         /\ h \in Namings(s) <=> h \in Lhss(s) \/ (h \in Objects(s) /\ KindAt(s, h) # "ACTION")
<1>1. h \in 1 .. Len(s) /\ h \notin Defs(s)
  BY PositionSets, FileFacts
<1>2. \A keywords : h \notin Listed(s, keywords)
  BY <1>1, PositionSets
<1>. QED
  BY <1>1, <1>2 DEF Lhss, Starts, PrecNames, Objects, Namings

\* A name in a list names what the keyword of the list says.
LEMMA ListedHere ==
  ASSUME NEW s, IsFile(s), NEW h \in Defs(s), KindAt(s, h) = "NAME",
         NEW nm \in ListKeywords, InList(s, h, nm), NEW keywords \in SUBSET ListKeywords
  PROVE  h \in Listed(s, keywords) <=> nm \in keywords
<1>1. PICK k \in 1 .. h - 1 :
        KindAt(s, k) = nm /\ \A j \in k + 1 .. h - 1 : KindAt(s, j) \in {"NAME", "FIELD"}
  BY DEF InList
<1>2. h \in 1 .. Len(s) /\ DOMAIN s = 1 .. Len(s) /\ Len(s) \in Nat
  BY PositionSets, FileFacts
<1>3. \A kw \in ListKeywords : kw \notin {"NAME", "FIELD"}
  BY DEF ListKeywords, TermKeywords
<1>4. ASSUME nm \in keywords
      PROVE  h \in Listed(s, keywords)
  <2>1. k \in Positions(s, keywords) /\ k < h
    BY <1>1, <1>2, <1>4 DEF Positions
  <2>. QED
    BY <1>1, <2>1 DEF Listed
<1>5. ASSUME h \in Listed(s, keywords)
      PROVE  nm \in keywords
  <2>1. PICK m \in Positions(s, keywords) :
          m < h /\ \A j \in m + 1 .. h - 1 : KindAt(s, j) \in {"NAME", "FIELD"}
    BY <1>5 DEF Listed
  <2>2. m \in 1 .. Len(s) /\ KindAt(s, m) \in keywords
    BY <1>2, <2>1 DEF Positions
  <2>3. ~(m < k)
    <3>1. SUFFICES ASSUME m < k
                   PROVE  FALSE
      OBVIOUS
    <3>2. k \in m + 1 .. h - 1
      BY <1>1, <1>2, <2>1, <2>2, <3>1
    <3>. QED
      BY <1>1, <1>3, <2>1, <3>2
  <2>4. ~(k < m)
    <3>1. SUFFICES ASSUME k < m
                   PROVE  FALSE
      OBVIOUS
    <3>2. m \in k + 1 .. h - 1
      BY <1>1, <1>2, <2>1, <2>2, <3>1
    <3>. QED
      BY <1>1, <1>3, <2>2, <3>2
  <2>5. m = k
    BY <1>1, <1>2, <2>1, <2>2, <2>3, <2>4
  <2>. QED
    BY <1>1, <2>2, <2>5
<1>. QED
  BY <1>4, <1>5

LEMMA KnownNext ==
  ASSUME NEW s, IsFile(s), NEW h \in 1 .. Len(s)
  PROVE  /\ h \in Namings(s) => Known(s, h + 1) = Known(s, h) \cup {TextAt(s, h)}
         /\ h \notin Namings(s) => Known(s, h + 1) = Known(s, h)
<1>. DEFINE S == Namings(s)
<1>1. Within(S, Len(s)) /\ Len(s) \in Nat /\ h \in Nat
  BY PositionsInFile
<1>. HIDE DEF S
<1>2. /\ h \in S => Until(S, h + 1) = Until(S, h) \cup {h}
      /\ h \notin S => Until(S, h + 1) = Until(S, h)
  BY <1>1, UntilHere
<1>. QED
  BY <1>2 DEF Known, S

\* Where a name comes first decides what it is, and its field.
LEMMA FirstNamedHere ==
  ASSUME NEW s, IsFile(s), NEW h \in Namings(s), TextAt(s, h) \notin Known(s, h)
  PROVE  /\ Min({i \in Namings(s) : TextAt(s, i) = TextAt(s, h)}) = h
         /\ LastField(s, TextAt(s, h)) = FieldBefore(s, h)
         /\ IsTerminalName(s, TextAt(s, h)) <=> h \in Listed(s, TermKeywords)
<1>. DEFINE x == TextAt(s, h)
            S == {i \in Namings(s) : TextAt(s, i) = x}
<1>1. Namings(s) \in SUBSET (1 .. Len(s)) /\ Len(s) \in Nat /\ h \in 1 .. Len(s)
  BY PositionsInFile DEF Within
<1>2. S \in SUBSET Nat /\ h \in S
  BY <1>1
<1>3. \A i \in S : h <= i
  <2>. TAKE i \in S
  <2>1. ~(i < h)
    BY DEF Known, Until
  <2>. QED
    BY <1>1, <2>1
<1>4. Min(S) = h
  BY <1>2, <1>3, MinFacts
<1>5. LastField(s, x) = FieldBefore(s, h)
  BY <1>4 DEF LastField, FieldBefore
<1>6. TermKeywords \subseteq ListKeywords
  BY DEF ListKeywords
<1>7. \A i \in Listed(s, TermKeywords) : i \in Listed(s, ListKeywords)
  BY <1>6 DEF Listed, Positions
<1>8. \A i \in Listed(s, ListKeywords) : i \in Namings(s)
  BY DEF Namings
<1>9. ASSUME h \in Listed(s, TermKeywords)
      PROVE  IsTerminalName(s, x)
  <2>1. \A j \in Listed(s, ListKeywords) : TextAt(s, j) = x => j >= h
    BY <1>1, <1>3, <1>8
  <2>. QED
    BY <1>9, <2>1 DEF IsTerminalName
<1>10. ASSUME IsTerminalName(s, x)
       PROVE  h \in Listed(s, TermKeywords)
  <2>1. PICK i \in Listed(s, TermKeywords) :
          TextAt(s, i) = x /\ \A j \in Listed(s, ListKeywords) : TextAt(s, j) = x => j >= i
    BY <1>10 DEF IsTerminalName
  <2>2. i \in Namings(s) /\ h <= i
    BY <1>3, <1>7, <1>8, <2>1
  <2>3. i \in Defs(s)
    BY PositionSets
  <2>4. h \in Defs(s)
    <3>1. h \in Rules(s) => i < h
      BY <2>3, PositionSets
    <3>2. h \in Defs(s) \cup Rules(s)
      BY PositionSets
    <3>. QED
      BY <1>1, <2>2, <3>1, <3>2
  <2>5. h \in Listed(s, ListKeywords)
    BY <2>4, DefsHere
  <2>6. h >= i
    BY <2>1, <2>5
  <2>7. h = i
    BY <1>1, <2>2, <2>6
  <2>. QED
    BY <2>7
<1>. QED
  BY <1>4, <1>5, <1>9, <1>10

\* A terminal's name is listed before it is used.
LEMMA TerminalListed ==
  ASSUME NEW s, IsFile(s), NEW x, IsTerminalName(s, x), NEW h \in Namings(s), TextAt(s, h) = x
  PROVE  \E i \in Listed(s, TermKeywords) : TextAt(s, i) = x /\ i <= h
<1>1. PICK i \in Listed(s, TermKeywords) :
        TextAt(s, i) = x /\ \A j \in Listed(s, ListKeywords) : TextAt(s, j) = x => j >= i
  BY DEF IsTerminalName
<1>2. Namings(s) \in SUBSET (1 .. Len(s)) /\ Len(s) \in Nat /\ h \in 1 .. Len(s)
  BY PositionsInFile DEF Within
<1>3. i \in Defs(s) /\ i \in 1 .. Len(s)
  BY PositionSets
<1>4. CASE h \in Defs(s)
  <2>1. h \in Listed(s, ListKeywords)
    BY <1>4, DefsHere
  <2>. QED
    BY <1>1, <1>2, <1>3, <2>1
<1>5. CASE h \in Rules(s)
  <2>1. i < h
    BY <1>3, <1>5, PositionSets
  <2>. QED
    BY <1>1, <1>2, <1>3, <2>1
<1>. QED
  BY <1>4, <1>5, PositionSets

\* Names of terminals are identifiers, so that none is taken for a number.
LEMMA TerminalNames ==
  ASSUME NEW s, IsFile(s), NEW h \in 1 .. Len(s) + 1, NamesFit(s, h),
         NEW x \in Known(s, h), IsTerminalName(s, x)
  PROVE  x \in CIdentifiers /\ x \notin DOMAIN Numerals
<1>1. PICK j \in Until(Namings(s), h) : TextAt(s, j) = x
  BY DEF Known
<1>2. j \in Namings(s) /\ j < h
  BY DEF Until
<1>3. PICK i \in Listed(s, TermKeywords) : TextAt(s, i) = x /\ i <= j
  BY <1>1, <1>2, TerminalListed
<1>4. i \in 1 .. Len(s) /\ j \in 1 .. Len(s) /\ Len(s) \in Nat
  BY <1>2, PositionsInFile DEF Within
<1>5. i \in Until(Listed(s, TermKeywords), h)
  BY <1>2, <1>3, <1>4 DEF Until
<1>6. x \in CIdentifiers
  BY <1>3, <1>5 DEF NamesFit
<1>. QED
  BY <1>6, NamesAssumption

----------------------------------------------------------------------------
(***************************************************************************)
(* The numbers of starts and the places of objects.                        *)
(***************************************************************************)
\* FileMeaning's counts, as counts up to a position.
LEMMA AsUntil ==
  ASSUME NEW s, IsFile(s), NEW i \in 1 .. Len(s) + 1
  PROVE  /\ Number(s, i) = Cardinality(Until(Starts(s), i))
         /\ StartOf(s, i) = Max(Until(Starts(s), i))
         /\ LhsOf(s, i) = TextAt(s, Max(Until(Lhss(s), i)))
         /\ Place(s, i) = Cardinality(Until(ObjectsOf(s, StartOf(s, i)), i + 1))
<1>1. \A j \in ObjectsOf(s, StartOf(s, i)) : j <= i <=> j < i + 1
  <2>1. Len(s) \in Nat /\ Within(ObjectsOf(s, StartOf(s, i)), Len(s))
    BY PositionsInFile
  <2>2. \A j \in ObjectsOf(s, StartOf(s, i)) : j \in Nat
    BY <2>1 DEF Within
  <2>. QED
    BY <2>1, <2>2
<1>2. {j \in ObjectsOf(s, StartOf(s, i)) : j <= i} = Until(ObjectsOf(s, StartOf(s, i)), i + 1)
  BY <1>1 DEF Until
<1>. QED
  BY <1>2 DEF Number, StartOf, LhsOf, Place, Until

\* Productions are numbered in their order.
LEMMA NumberFacts ==
  ASSUME NEW s, IsFile(s), NEW start \in Starts(s)
  PROVE  /\ start \in 1 .. Len(s)
         /\ Number(s, start) \in Nat
         /\ Number(s, start) < Cardinality(Starts(s))
         /\ Cardinality(Starts(s)) \in Nat
         /\ \A h \in 1 .. Len(s) + 1 :
              start < h => Number(s, start) < Cardinality(Until(Starts(s), h))
         /\ \A start2 \in Starts(s) : Number(s, start) = Number(s, start2) => start = start2
<1>. DEFINE S == Starts(s)
<1>1. PICK n : n = Len(s) /\ n \in Nat
  BY FileFacts
<1>2. Within(S, n)
  BY <1>1, PositionsInFile
<1>3. \A a \in S : a \in 1 .. n
  BY <1>2 DEF Within
<1>4. \A a \in S : Number(s, a) = Cardinality(Until(S, a))
  BY <1>1, <1>3, AsUntil
<1>5. \A a \in S, h \in Nat :
        a < h => /\ Number(s, a) \in Nat /\ Cardinality(Until(S, h)) \in Nat
                 /\ Number(s, a) < Cardinality(Until(S, h))
                 /\ Cardinality(Until(S, h)) <= Cardinality(S) /\ Cardinality(S) \in Nat
  <2>. HIDE DEF S
  <2>. QED
    BY <1>1, <1>2, <1>4, UntilGrows
<1>6. ASSUME NEW a \in S, NEW b \in S, a < b
      PROVE  Number(s, a) < Number(s, b) /\ Number(s, a) \in Nat /\ Number(s, b) \in Nat
  <2>1. b \in Nat /\ b < b + 1 /\ b + 1 \in Nat
    BY <1>3
  <2>. QED
    BY <1>4, <1>5, <1>6, <2>1
<1>7. /\ start \in 1 .. n /\ n + 1 \in Nat /\ start < n + 1
  BY <1>1, <1>3
<1>8. \A start2 \in S : Number(s, start) = Number(s, start2) => start = start2
  <2>. TAKE start2 \in S
  <2>. HAVE Number(s, start) = Number(s, start2)
  <2>1. ~(start < start2) /\ ~(start2 < start)
    BY <1>6
  <2>. QED
    BY <1>3, <2>1
<1>9. \A h \in 1 .. n + 1 : h \in Nat
  BY <1>1
<1>10. /\ Number(s, start) \in Nat /\ Number(s, start) < Cardinality(S)
       /\ Cardinality(S) \in Nat
  BY <1>5, <1>7
<1>11. \A h \in 1 .. n + 1 : start < h => Number(s, start) < Cardinality(Until(S, h))
  BY <1>5, <1>9
<1>. QED
  BY <1>1, <1>7, <1>8, <1>10, <1>11

LEMMA StartWithNumber ==
  ASSUME NEW s, IsFile(s), NEW p \in 0 .. Cardinality(Starts(s)) - 1
  PROVE  \E start \in Starts(s) : Number(s, start) = p
<1>. DEFINE S == Starts(s)
            T == 0 .. Cardinality(S) - 1
            f == [a \in S |-> Number(s, a)]
<1>1. IsFiniteSet(S) /\ Cardinality(S) \in Nat
  <2>1. Within(S, Len(s)) /\ Len(s) \in Nat
    BY PositionsInFile
  <2>2. IsFiniteSet(1 .. Len(s))
    BY <2>1, FS_Interval
  <2>. QED
    BY <2>1, <2>2, FS_Subset, FS_CardinalityType DEF Within
<1>2. IsFiniteSet(T) /\ Cardinality(T) = Cardinality(S)
  BY <1>1, FS_Interval
<1>3. \A a \in S : Number(s, a) \in T
  <2>. TAKE a \in S
  <2>1. Number(s, a) \in Nat /\ Number(s, a) < Cardinality(S)
    BY NumberFacts
  <2>. QED
    BY <1>1, <2>1
<1>4. \A a, b \in S : Number(s, a) = Number(s, b) => a = b
  BY NumberFacts
<1>. HIDE DEF S, T
<1>5. f \in Injection(S, T)
  BY <1>3, <1>4 DEF Injection, IsInjective
<1>6. f \in Surjection(S, T)
  BY <1>1, <1>2, <1>5, FS_Injection
<1>7. p \in T
  BY DEF T, S
<1>8. \E a \in S : f[a] = p
  BY <1>6, <1>7 DEF Surjection
<1>. QED
  BY <1>8 DEF S

\* Objects have the places 1, 2, ... in their production.
LEMMA PlaceFacts ==
  ASSUME NEW s, IsFile(s), NEW start, NEW i \in ObjectsOf(s, start)
  PROVE  /\ i \in 1 .. Len(s) /\ StartOf(s, i) = start /\ i \in Objects(s)
         /\ Place(s, i) \in Nat \ {0}
         /\ Place(s, i) <= Cardinality(ObjectsOf(s, start))
         /\ Place(s, i) = Cardinality(Until(ObjectsOf(s, start), i)) + 1
         /\ Cardinality(ObjectsOf(s, start)) \in Nat
         /\ \A h \in 1 .. Len(s) + 1 :
              i < h => Place(s, i) <= Cardinality(Until(ObjectsOf(s, start), h))
         /\ \A j \in ObjectsOf(s, start) : j < i => Place(s, j) < Place(s, i)
         /\ \A j \in ObjectsOf(s, start) : Place(s, j) = Place(s, i) => j = i
<1>. DEFINE S == ObjectsOf(s, start)
<1>1. PICK n : n = Len(s) /\ n \in Nat
  BY FileFacts
<1>2. Within(S, n)
  BY <1>1, PositionsInFile
<1>3. \A a \in S : a \in 1 .. n /\ StartOf(s, a) = start /\ a \in Objects(s)
  BY <1>2 DEF Within, ObjectsOf
<1>4. ASSUME NEW a \in S
      PROVE  /\ Place(s, a) = Cardinality(Until(S, a)) + 1
             /\ Cardinality(Until(S, a)) \in Nat
             /\ Place(s, a) \in Nat \ {0}
  <2>1. Place(s, a) = Cardinality(Until(S, a + 1)) /\ a \in Nat
    BY <1>1, <1>3, AsUntil
  <2>. HIDE DEF S
  <2>2. /\ Cardinality(Until(S, a + 1)) = Cardinality(Until(S, a)) + 1
        /\ Cardinality(Until(S, a)) \in Nat
    BY <1>1, <1>2, <2>1, UntilNext
  <2>. QED
    BY <2>1, <2>2
<1>5. \A a \in S, h \in Nat :
        a < h => /\ Cardinality(Until(S, a)) < Cardinality(Until(S, h))
                 /\ Cardinality(Until(S, h)) \in Nat
                 /\ Cardinality(Until(S, h)) <= Cardinality(S) /\ Cardinality(S) \in Nat
  <2>. HIDE DEF S
  <2>. QED
    BY <1>1, <1>2, UntilGrows
<1>6. ASSUME NEW a \in S, NEW b \in S, a < b
      PROVE  Place(s, a) < Place(s, b)
  <2>1. b \in Nat
    BY <1>3
  <2>2. Cardinality(Until(S, a)) < Cardinality(Until(S, b))
    BY <1>5, <1>6, <2>1
  <2>. QED
    BY <1>4, <2>2
<1>7. i \in 1 .. n /\ n + 1 \in Nat /\ i < n + 1
  BY <1>1, <1>3
<1>8. \A j \in S : Place(s, j) = Place(s, i) => j = i
  <2>. TAKE j \in S
  <2>. HAVE Place(s, j) = Place(s, i)
  <2>1. Place(s, i) \in Nat /\ Place(s, j) \in Nat
    BY <1>4
  <2>2. ~(i < j) /\ ~(j < i)
    BY <1>6, <2>1
  <2>. QED
    BY <1>3, <2>2
<1>9. \A h \in Nat : i < h => /\ Place(s, i) <= Cardinality(Until(S, h))
                              /\ Place(s, i) <= Cardinality(S) /\ Cardinality(S) \in Nat
  BY <1>4, <1>5
<1>10. \A h \in 1 .. n + 1 : h \in Nat
  BY <1>1
<1>11. Place(s, i) <= Cardinality(S) /\ Cardinality(S) \in Nat
  BY <1>7, <1>9
<1>12. \A h \in 1 .. n + 1 : i < h => Place(s, i) <= Cardinality(Until(S, h))
  BY <1>9, <1>10
<1>. QED
  BY <1>1, <1>3, <1>4, <1>6, <1>8, <1>11, <1>12

LEMMA ObjectAtPlace ==
  ASSUME NEW s, IsFile(s), NEW start, NEW n \in 1 .. Cardinality(ObjectsOf(s, start))
  PROVE  \E i \in ObjectsOf(s, start) : Place(s, i) = n
<1>. DEFINE S == ObjectsOf(s, start)
            T == 1 .. Cardinality(S)
            f == [a \in S |-> Place(s, a)]
<1>1. IsFiniteSet(S) /\ Cardinality(S) \in Nat
  <2>1. Within(S, Len(s)) /\ Len(s) \in Nat
    BY PositionsInFile
  <2>2. IsFiniteSet(1 .. Len(s))
    BY <2>1, FS_Interval
  <2>. QED
    BY <2>1, <2>2, FS_Subset, FS_CardinalityType DEF Within
<1>2. IsFiniteSet(T) /\ Cardinality(T) = Cardinality(S)
  BY <1>1, FS_Interval
<1>3. \A a \in S : Place(s, a) \in T
  <2>. TAKE a \in S
  <2>1. Place(s, a) \in Nat \ {0} /\ Place(s, a) <= Cardinality(S)
    BY PlaceFacts
  <2>. QED
    BY <1>1, <2>1
<1>4. \A a, b \in S : Place(s, a) = Place(s, b) => a = b
  BY PlaceFacts
<1>. HIDE DEF S, T
<1>5. f \in Injection(S, T)
  BY <1>3, <1>4 DEF Injection, IsInjective
<1>6. f \in Surjection(S, T)
  BY <1>1, <1>2, <1>5, FS_Injection
<1>7. n \in T
  BY DEF T, S
<1>8. \E a \in S : f[a] = n
  BY <1>6, <1>7 DEF Surjection
<1>. QED
  BY <1>8 DEF S

\* An object belongs to the production that began last.
LEMMA ObjectHere ==
  ASSUME NEW s, IsFile(s), NEW h \in 1 .. Len(s), Until(Starts(s), h) # {}
  PROVE  LET now == Max(Until(Starts(s), h))
         IN /\ now \in Starts(s) /\ now < h /\ now \in 1 .. Len(s)
            /\ StartOf(s, h) = now
            /\ h \in Objects(s) => h \in ObjectsOf(s, now)
            /\ \A start : start # now => h \notin ObjectsOf(s, start) /\ h \notin Giving(s, start)
            /\ h \in Giving(s, now) <=>
                 \/ h \in Objects(s) /\ KindAt(s, h) # "ACTION" /\ TextAt(s, h) \in Terminals(s)
                 \/ h \in PrecNames(s)
<1>. DEFINE now == Max(Until(Starts(s), h))
<1>1. Within(Starts(s), Len(s)) /\ Len(s) \in Nat
  BY PositionsInFile
<1>2. Until(Starts(s), h) \in SUBSET (0 .. Len(s))
  BY <1>1 DEF Until, Within
<1>3. now \in Until(Starts(s), h)
  BY <1>1, <1>2, MaxFacts
<1>4. now \in Starts(s) /\ now < h /\ now \in 1 .. Len(s)
  BY <1>1, <1>3 DEF Until, Within
<1>5. StartOf(s, h) = now
  BY AsUntil
<1>. HIDE DEF now
<1>6. h > now
  BY <1>1, <1>4
<1>. QED
  BY <1>4, <1>5, <1>6 DEF ObjectsOf, Giving, now

\* The objects of a production lie behind its start.
LEMMA StartFirst ==
  ASSUME NEW s, IsFile(s), NEW h \in Starts(s)
  PROVE  Until(ObjectsOf(s, h), h + 1) = {} /\ Until(Giving(s, h), h + 1) = {}
<1>1. /\ Within(ObjectsOf(s, h), Len(s)) /\ Within(Giving(s, h), Len(s))
      /\ Within(Starts(s), Len(s)) /\ Len(s) \in Nat
  BY PositionsInFile
<1>2. h \in Nat
  BY <1>1 DEF Within
<1>3. \A i \in ObjectsOf(s, h) \cup Giving(s, h) : i \in Nat
  BY <1>1 DEF Within
<1>4. \A i \in ObjectsOf(s, h) \cup Giving(s, h) : i > h
  BY DEF ObjectsOf, Giving
<1>. QED
  BY <1>2, <1>3, <1>4 DEF Until

\* No object comes before the colon or bar of its production.
LEMMA NothingBefore ==
  ASSUME NEW s, IsFile(s), NEW start, NEW h \in 1 .. Len(s), ~(start < h)
  PROVE  h \notin ObjectsOf(s, start) /\ h \notin Giving(s, start)
<1>1. h > start => start < h
  BY DEF ObjectsOf, Giving
<1>. QED
  BY <1>1 DEF ObjectsOf, Giving

----------------------------------------------------------------------------
(***************************************************************************)
(* The names, fields and precedences of one token more.                    *)
(***************************************************************************)
\* Symbols keep their names and fields.
Grows(t, u) ==
  \A v \in DOMAIN t.symbols : /\ v \in DOMAIN u.symbols
                              /\ u.symbols[v].name = t.symbols[v].name
                              /\ u.symbols[v].field = t.symbols[v].field

\* There is a name more, with the field that was named last.
NewName(t, u, v, name) ==
  /\ Grows(t, u)
  /\ ~IsAct(v)
  /\ v \notin Named(t)
  /\ Named(u) = Named(t) \cup {v}
  /\ u.symbols[v].name = name
  /\ u.symbols[v].field = t.Field_name

LEMMA NamesFitNext ==
  ASSUME NEW s, IsFile(s), NEW h \in 1 .. Len(s), NamesFit(s, h),
         h \in Listed(s, TermKeywords) => TextAt(s, h) \in CIdentifiers,
         h \in Listed(s, PrecKeywords) => IsTerminalName(s, TextAt(s, h)),
         h \in Listed(s, {"TYPE"}) \cup Lhss(s) => ~IsTerminalName(s, TextAt(s, h)),
         h \in PrecNames(s) => TextAt(s, h) \in Terminals(s) \cup DOMAIN Numerals
  PROVE  NamesFit(s, h + 1)
<1>1. \A i, S : i \in Until(S, h + 1) => i \in S /\ i < h + 1
  BY DEF Until
<1>2. \A S : Within(S, Len(s)) => \A i \in Until(S, h + 1) : i \in Until(S, h) \/ (i = h /\ h \in S)
  <2>. TAKE S
  <2>. HAVE Within(S, Len(s))
  <2>1. h \in 1 .. Len(s) + 1
    BY FileFacts
  <2>2. /\ h \in S => Until(S, h + 1) = Until(S, h) \cup {h}
        /\ h \notin S => Until(S, h + 1) = Until(S, h)
    BY <2>1, UntilHere
  <2>. QED
    BY <2>2
<1>3. /\ \A keywords : Within(Listed(s, keywords), Len(s))
      /\ Within(Lhss(s), Len(s)) /\ Within(PrecNames(s), Len(s))
      /\ Within(Listed(s, {"TYPE"}) \cup Lhss(s), Len(s))
  BY PositionsInFile DEF Within
<1>4. \A i \in Until(Listed(s, TermKeywords), h + 1) : TextAt(s, i) \in CIdentifiers
  BY <1>2, <1>3 DEF NamesFit
<1>5. \A i \in Until(Listed(s, PrecKeywords), h + 1) : IsTerminalName(s, TextAt(s, i))
  BY <1>2, <1>3 DEF NamesFit
<1>6. \A i \in Until(Listed(s, {"TYPE"}) \cup Lhss(s), h + 1) : ~IsTerminalName(s, TextAt(s, i))
  BY <1>2, <1>3 DEF NamesFit
<1>7. \A i \in Until(PrecNames(s), h + 1) : TextAt(s, i) \in Terminals(s) \cup DOMAIN Numerals
  BY <1>2, <1>3 DEF NamesFit
<1>. QED
  BY <1>4, <1>5, <1>6, <1>7 DEF NamesFit

LEMMA FieldNext ==
  ASSUME NEW s, IsFile(s), NEW h \in 1 .. Len(s)
  PROVE  /\ ~(h \in Defs(s) /\ KindAt(s, h) = "FIELD") =>
              FieldBefore(s, h + 1) = FieldBefore(s, h)
         /\ h \in Defs(s) /\ KindAt(s, h) = "FIELD" => FieldBefore(s, h + 1) = TextAt(s, h)
<1>. DEFINE S == {i \in Defs(s) : KindAt(s, i) = "FIELD"}
<1>1. Within(S, Len(s)) /\ h \in 1 .. Len(s) + 1
  BY PositionSets, FileFacts DEF Within
<1>2. \A k : {i \in Defs(s) : KindAt(s, i) = "FIELD" /\ i < k} = Until(S, k)
  BY DEF Until
<1>3. h \in S <=> h \in Defs(s) /\ KindAt(s, h) = "FIELD"
  OBVIOUS
<1>. HIDE DEF S
<1>4. \A k : FieldBefore(s, k) = IF Until(S, k) = {} THEN "" ELSE TextAt(s, Max(Until(S, k)))
  BY <1>2 DEF FieldBefore
<1>5. h \notin S => Until(S, h + 1) = Until(S, h)
  BY <1>1, UntilHere
<1>6. h \in S => Until(S, h + 1) # {} /\ Max(Until(S, h + 1)) = h
  BY <1>1, UntilHere
<1>. QED
  BY <1>3, <1>4, <1>5, <1>6

LEMMA NamesStay ==
  ASSUME NEW s, IsFile(s), NEW h \in 1 .. Len(s), NEW t, NamesRead(s, h, t),
         NEW u, Grows(t, u), Named(u) = Named(t), u.Field_name = FieldBefore(s, h + 1),
         h \notin Namings(s) \/ TextAt(s, h) \in Known(s, h)
  PROVE  NamesRead(s, h + 1, u)
<1>1. Known(s, h + 1) = Known(s, h)
  BY KnownNext
<1>2. \A v \in Named(t) : /\ u.symbols[v].name = t.symbols[v].name
                          /\ u.symbols[v].field = t.symbols[v].field
  BY DEF Named, Grows
<1>3. {u.symbols[v].name : v \in Named(u)} = {t.symbols[v].name : v \in Named(t)}
  BY <1>2
<1>. QED
  BY <1>1, <1>2, <1>3 DEF NamesRead

LEMMA NamesNew ==
  ASSUME NEW s, IsFile(s), NEW h \in Namings(s), TextAt(s, h) \notin Known(s, h),
         NEW t, NamesRead(s, h, t), NEW u, NEW v, NewName(t, u, v, TextAt(s, h)),
         u.Field_name = t.Field_name,
         IsTerm(v) <=> h \in Listed(s, TermKeywords)
  PROVE  NamesRead(s, h + 1, u)
<1>. DEFINE x == TextAt(s, h)
<1>0. h \in 1 .. Len(s)
  BY PositionsInFile DEF Within
<1>1. Known(s, h + 1) = Known(s, h) \cup {x}
  BY <1>0, KnownNext
<1>2. \A w \in Named(t) : /\ u.symbols[w].name = t.symbols[w].name
                          /\ u.symbols[w].field = t.symbols[w].field
  BY DEF Named, Grows, NewName
<1>3. /\ Named(u) = Named(t) \cup {v} /\ v \notin Named(t)
      /\ u.symbols[v].name = x /\ u.symbols[v].field = t.Field_name
  BY DEF NewName
<1>4. /\ LastField(s, x) = FieldBefore(s, h)
      /\ IsTerminalName(s, x) <=> h \in Listed(s, TermKeywords)
  BY FirstNamedHere
<1>5. {t.symbols[w].name : w \in Named(t)} = Known(s, h) /\ t.Field_name = FieldBefore(s, h)
  BY DEF NamesRead
<1>6. {u.symbols[w].name : w \in Named(u)} = Known(s, h) \cup {x}
  BY <1>2, <1>3, <1>5
<1>7. \A w \in Named(t) : u.symbols[w].name # x
  BY <1>2, <1>5
<1>8. \A w, w2 \in Named(u) : u.symbols[w].name = u.symbols[w2].name => w = w2
  BY <1>2, <1>3, <1>7 DEF NamesRead
<1>9. \A w \in Named(u) : /\ IsTerm(w) <=> IsTerminalName(s, u.symbols[w].name)
                          /\ u.symbols[w].field = LastField(s, u.symbols[w].name)
  BY <1>2, <1>3, <1>4, <1>5 DEF NamesRead
<1>10. u.Field_name = FieldBefore(s, h + 1)
  <2>1. KindAt(s, h) # "FIELD" \/ h \notin Defs(s)
    BY DefsHere DEF Listed
  <2>. QED
    BY <1>0, <1>5, <2>1, FieldNext
<1>. QED
  BY <1>1, <1>6, <1>8, <1>9, <1>10 DEF NamesRead

LEMMA PrecsStay ==
  ASSUME NEW s, IsFile(s), NEW h \in 1 .. Len(s), NEW t, PrecsRead(s, h, t), NEW u,
         u.Precedence = t.Precedence, u.Cur_term = t.Cur_term,
         \A v \in 1 .. MAXTERM : v <= t.Cur_term => u.symbols[v].name = t.symbols[v].name,
         h \notin Listed(s, PrecKeywords)
  PROVE  PrecsRead(s, h + 1, u)
<1>1. Until(Listed(s, PrecKeywords), h + 1) = Until(Listed(s, PrecKeywords), h)
  BY PositionsInFile, FileFacts, UntilHere
<1>2. \A x : PrecBefore(s, x, h + 1) = PrecBefore(s, x, h)
  BY <1>1 DEF PrecBefore
<1>. QED
  BY <1>2 DEF PrecsRead

\* A terminal that no list of precedences had so far.
LEMMA PrecsNew ==
  ASSUME NEW s, NEW h, NEW t, PrecsRead(s, h, t), NEW u,
         u.Precedence = t.Precedence, t.Cur_term \in Nat, u.Cur_term = t.Cur_term + 1,
         \A v \in 1 .. MAXTERM : v <= t.Cur_term => u.symbols[v].name = t.symbols[v].name,
         u.symbols[t.Cur_term + 1].name \notin Known(s, h)
  PROVE  PrecsRead(s, h, u)
<1>. DEFINE new == t.Cur_term + 1
            x == u.symbols[new].name
<1>1. Listed(s, PrecKeywords) \subseteq Listed(s, ListKeywords)
  BY DEF Listed, Positions, ListKeywords, TermKeywords, PrecKeywords
<1>2. \A i \in Until(Listed(s, PrecKeywords), h) : TextAt(s, i) # x
  BY <1>1 DEF Known, Namings, Until
<1>3. PrecBefore(s, x, h) = [level |-> 0, assoc |-> "none"]
  BY <1>2 DEF PrecBefore
<1>4. \A v \in 1 .. MAXTERM : v <= new <=> v <= t.Cur_term \/ v = new
  BY Limits
<1>5. \A v \in 1 .. MAXTERM : v = new => ~(v <= t.Cur_term)
  BY Limits
<1>. HIDE DEF new
<1>6. \A v \in 1 .. MAXTERM :
        (IF v <= u.Cur_term THEN PrecBefore(s, u.symbols[v].name, h)
         ELSE [level |-> 0, assoc |-> "none"])
        = (IF v <= t.Cur_term THEN PrecBefore(s, t.symbols[v].name, h)
           ELSE [level |-> 0, assoc |-> "none"])
  <2>. TAKE v \in 1 .. MAXTERM
  <2>1. CASE v <= t.Cur_term
    BY <1>4, <2>1 DEF new
  <2>2. CASE v = new
    BY <1>3, <1>5, <2>2 DEF new
  <2>3. CASE ~(v <= t.Cur_term) /\ v # new
    <3>1. ~(v <= u.Cur_term)
      BY <1>4, <2>3 DEF new
    <3>. QED
      BY <2>3, <3>1
  <2>. QED
    BY <2>1, <2>2, <2>3
<1>. QED
  BY <1>6 DEF PrecsRead

\* A name in a list of precedences gets the level and the keyword of the list.
LEMMA PrecsSet ==
  ASSUME NEW s, IsFile(s), NEW h \in Listed(s, PrecKeywords), NEW t, PrecsRead(s, h, t),
         NEW nm \in PrecKeywords, InList(s, h, nm), LevelRead(s, h, t, "names", nm),
         NEW v \in 1 .. MAXTERM, v <= t.Cur_term, t.symbols[v].name = TextAt(s, h),
         \A w \in 1 .. MAXTERM :
           w <= t.Cur_term /\ t.symbols[w].name = TextAt(s, h) => w = v,
         NEW u, u.Cur_term = t.Cur_term, u.symbols = t.symbols,
         u.Precedence = [t.Precedence EXCEPT ![v] = [level |-> t.Prec_lev,
                                                     assoc |-> t.Associativity]]
  PROVE  PrecsRead(s, h + 1, u)
<1>. DEFINE S == Listed(s, PrecKeywords)
            K == Positions(s, PrecKeywords)
            x == TextAt(s, h)
            At2(y) == {i \in Until(S, h + 1) : TextAt(s, i) = y}
            None == [level |-> 0, assoc |-> "none"]
<1>1. Within(S, Len(s)) /\ Within(K, Len(s)) /\ Len(s) \in Nat /\ h \in 1 .. Len(s)
  BY PositionsInFile DEF Within
<1>2. Until(S, h + 1) = Until(S, h) \cup {h}
  BY <1>1, UntilHere
<1>3. \A y : y # x => PrecBefore(s, y, h + 1) = PrecBefore(s, y, h)
  <2>. TAKE y
  <2>. HAVE y # x
  <2>1. At2(y) = {i \in Until(S, h) : TextAt(s, i) = y}
    BY <1>2
  <2>. QED
    BY <2>1 DEF PrecBefore
<1>4. PrecBefore(s, x, h + 1) = [level |-> t.Prec_lev, assoc |-> t.Associativity]
  <2>1. h \in At2(x)
    BY <1>2
  <2>2. At2(x) \in SUBSET (0 .. Len(s)) /\ \A i \in At2(x) : i <= h
    BY <1>1 DEF Until, Within
  <2>3. Max(At2(x)) = h
    <3>. HIDE DEF At2
    <3>. QED
      BY <1>1, <2>1, <2>2, MaxFacts
  <2>4. {k \in K : k < Max(At2(x))} = Until(K, h)
    BY <2>3 DEF Until
  <2>5. PrecBefore(s, x, h + 1) =
          [level |-> Cardinality(Until(K, h)), assoc |-> KindAt(s, Max(Until(K, h)))]
    BY <2>1, <2>4 DEF PrecBefore
  <2>6. Max(Until(K, h)) \in 1 .. Len(s) /\ KindAt(s, Max(Until(K, h))) = nm
    <3>1. PICK k \in 1 .. h - 1 :
            KindAt(s, k) = nm /\ \A j \in k + 1 .. h - 1 : KindAt(s, j) \in {"NAME", "FIELD"}
      BY DEF InList
    <3>2. k \in Until(K, h)
      BY <1>1, <3>1, FileFacts DEF Until, Positions
    <3>3. \A j \in Until(K, h) : j <= k
      <4>1. \A j \in Until(K, h) : j \in 1 .. h - 1 /\ KindAt(s, j) \in PrecKeywords
        BY <1>1, FileFacts DEF Until, Positions
      <4>2. \A kind \in PrecKeywords : kind \notin {"NAME", "FIELD"}
        BY DEF PrecKeywords
      <4>. QED
        BY <1>1, <3>1, <4>1, <4>2
    <3>4. Until(K, h) \in SUBSET (0 .. Len(s)) /\ Until(K, h) # {}
      BY <1>1, <3>2 DEF Until, Within
    <3>5. k = Max(Until(K, h))
      <4>. HIDE DEF K
      <4>. QED
        BY <1>1, <3>2, <3>3, <3>4, MaxFacts
    <3>. QED
      BY <1>1, <3>1, <3>5
  <2>7. t.Prec_lev = Cardinality(Until(K, h)) /\ t.Associativity = nm
    BY DEF LevelRead
  <2>. QED
    BY <2>5, <2>6, <2>7
<1>5. t.Precedence = [w \in 1 .. MAXTERM |->
                        IF w <= t.Cur_term THEN PrecBefore(s, t.symbols[w].name, h) ELSE None]
  BY DEF PrecsRead
<1>6. u.Precedence = [w \in 1 .. MAXTERM |->
                        IF w = v THEN [level |-> t.Prec_lev, assoc |-> t.Associativity]
                        ELSE t.Precedence[w]]
  BY <1>5
<1>7. \A w \in 1 .. MAXTERM :
        u.Precedence[w] =
          IF w <= u.Cur_term THEN PrecBefore(s, u.symbols[w].name, h + 1) ELSE None
  <2>. TAKE w \in 1 .. MAXTERM
  <2>1. CASE w = v
    BY <1>4, <1>6, <2>1
  <2>2. CASE w # v /\ w <= t.Cur_term
    BY <1>3, <1>5, <1>6, <2>2
  <2>3. CASE w # v /\ ~(w <= t.Cur_term)
    BY <1>5, <1>6, <2>3
  <2>. QED
    BY <2>1, <2>2, <2>3
<1>8. u.Precedence = [w \in 1 .. MAXTERM |-> u.Precedence[w]]
  BY <1>6
<1>. HIDE DEF None
<1>9. u.Precedence = [w \in 1 .. MAXTERM |->
          IF w <= u.Cur_term THEN PrecBefore(s, u.symbols[w].name, h + 1) ELSE None]
  BY <1>7, <1>8
<1>. QED
  BY <1>9 DEF PrecsRead, None

LEMMA LevelStays ==
  ASSUME NEW s, IsFile(s), NEW h \in Defs(s), NEW t, NEW place, NEW nm,
         LevelRead(s, h, t, place, nm), NEW u, u.Prec_lev = t.Prec_lev,
         KindAt(s, h) \notin PrecKeywords, NEW place2, NEW nm2,
         place2 = "names" /\ nm2 \in PrecKeywords =>
           place = "names" /\ nm2 = nm /\ u.Associativity = t.Associativity
  PROVE  LevelRead(s, h + 1, u, place2, nm2)
<1>1. h \notin Positions(s, PrecKeywords) /\ h \in 1 .. Len(s)
  BY DefsHere
<1>2. Until(Positions(s, PrecKeywords), h + 1) = Until(Positions(s, PrecKeywords), h)
  BY <1>1, PositionsInFile, FileFacts, UntilHere
<1>. QED
  BY <1>2 DEF LevelRead

LEMMA LevelNext ==
  ASSUME NEW s, IsFile(s), NEW h \in Defs(s), NEW t, NEW place, NEW nm,
         LevelRead(s, h, t, place, nm), NEW u, u.Prec_lev = t.Prec_lev + 1,
         KindAt(s, h) \in PrecKeywords, u.Associativity = KindAt(s, h)
  PROVE  LevelRead(s, h + 1, u, "names", KindAt(s, h))
<1>1. h \in Positions(s, PrecKeywords) /\ h \in 1 .. Len(s)
  BY DefsHere
<1>2. Cardinality(Until(Positions(s, PrecKeywords), h + 1))
        = Cardinality(Until(Positions(s, PrecKeywords), h)) + 1
  BY <1>1, PositionsInFile, FileFacts, UntilHere
<1>. QED
  BY <1>2 DEF LevelRead

----------------------------------------------------------------------------
(***************************************************************************)
(* What the functions of acts.c do to the symbols of a correct file: new   *)
(* symbols,                                                                *)
(***************************************************************************)
\* What calls do to the count of errors.
NoFewer(t, u) == u.yynerrs \in Nat /\ u.yynerrs >= t.yynerrs
Failed(t, u)  == u.yynerrs \in Nat /\ u.yynerrs > t.yynerrs

LEMMA NoFewerTwice ==
  ASSUME NEW t, NEW u, NEW r, t.yynerrs \in Nat, NoFewer(t, u), NoFewer(u, r)
  PROVE  NoFewer(t, r) /\ (Failed(t, u) \/ Failed(u, r) => Failed(t, r))
  BY DEF NoFewer, Failed

LEMMA NoneFewer ==
  ASSUME NEW t, t.yynerrs \in Nat, NEW u, u.yynerrs = t.yynerrs
  PROVE  NoFewer(t, u)
  BY DEF NoFewer

LEMMA ErrorsCounted ==
  ASSUME NEW t, Sound(t)
  PROVE  /\ Failed(t, NonFatal(t)) /\ Failed(t, Fatal(t))
         /\ NoFewer(t, NonFatal(t)) /\ NoFewer(t, Fatal(t))
         /\ NoFewer(t, t)
         /\ t.yynerrs \in Nat
<1>1. DOMAIN t = TableFields /\ t.yynerrs \in Nat
  BY DEF Sound, Numbers
<1>2. NonFatal(t).yynerrs = t.yynerrs + 1 /\ Fatal(t).yynerrs = t.yynerrs + 1
  BY <1>1 DEF NonFatal, Fatal, TableFields
<1>. QED
  BY <1>1, <1>2 DEF Failed, NoFewer

\* There is a symbol more.
AddedAs(t, u, v, name, field) ==
  /\ v \notin DOMAIN t.symbols
  /\ DOMAIN u.symbols = DOMAIN t.symbols \cup {v}
  /\ \A w \in DOMAIN t.symbols : u.symbols[w] = t.symbols[w]
  /\ u.symbols[v].name = name
  /\ u.symbols[v].field = field

\* Only some parts of the tables change.
Only(t, u, parts) == \A x \in TableFields \ parts : u[x] = t[x]

LEMMA AddedGrows ==
  ASSUME NEW t, NEW u, NEW v, NEW name, NEW field, AddedAs(t, u, v, name, field)
  PROVE  /\ Grows(t, u)
         /\ IsAct(v) => Named(u) = Named(t)
         /\ ~IsAct(v) /\ field = t.Field_name => NewName(t, u, v, name)
<1>1. Grows(t, u)
  BY DEF AddedAs, Grows
<1>2. IsAct(v) => Named(u) = Named(t)
  BY DEF AddedAs, Named
<1>3. ~IsAct(v) => Named(u) = Named(t) \cup {v} /\ v \notin Named(t)
  BY DEF AddedAs, Named
<1>. QED
  BY <1>1, <1>2, <1>3 DEF NewName, AddedAs

LEMMA TermAddedAs ==
  ASSUME NEW t, Sound(t), t.Cur_term < MAXTERM, NEW name, NEW field
  PROVE  LET u == WithTerm(t, name, field)
             v == t.Cur_term + 1
         IN /\ AddedAs(t, u, v, name, field)
            /\ Only(t, u, {"symbols", "Cur_term"})
            /\ u.Cur_term = v
            /\ v \in 1 .. MAXTERM
<1>. DEFINE v == t.Cur_term + 1
            r == [t EXCEPT !.Cur_term = @ + 1]
            set == TRUE
            u == WithTerm(t, name, field)
<1>1. /\ DOMAIN t = TableFields /\ t.Cur_term \in 0 .. MAXTERM
  BY DEF Sound, Numbers
<1>2. /\ DOMAIN r = TableFields /\ r.symbols = t.symbols /\ r.Cur_term = v
      /\ \A x \in TableFields \ {"symbols", "Cur_term"} : r[x] = t[x]
  BY <1>1 DEF TableFields
<1>3. u = AddSymbol(r, v, name, field, set)
  BY DEF WithTerm, set
<1>4. Extended(t, u, v) /\ u.Cur_term = v /\ v \in 1 .. MAXTERM
      /\ \A x \in TableFields \ {"symbols", "Cur_term"} : u[x] = t[x]
  BY TermAdded
<1>. HIDE DEF r, u, set, v
<1>5. v \notin DOMAIN r.symbols
  BY <1>2, <1>4 DEF Extended
<1>6. /\ DOMAIN u.symbols = DOMAIN r.symbols \cup {v}
      /\ \A w \in DOMAIN r.symbols : u.symbols[w] = r.symbols[w]
      /\ u.symbols[v].name = name /\ u.symbols[v].field = field
  BY <1>2, <1>3, <1>5, AddSymbolFacts
<1>7. AddedAs(t, u, v, name, field)
  BY <1>2, <1>5, <1>6 DEF AddedAs
<1>. QED
  BY <1>4, <1>7 DEF u, v, Only

LEMMA NontermAddedAs ==
  ASSUME NEW t, Sound(t), t.Cur_nonterm < MAXNONTERM, NEW name, NEW field
  PROVE  LET u == WithNonterm(t, name, field)
             v == t.Cur_nonterm + 1
         IN /\ AddedAs(t, u, v, name, field)
            /\ Only(t, u, {"symbols", "Cur_nonterm"})
            /\ u.Cur_nonterm = v
            /\ v \in MINNONTERM .. MAXNONTERM
            /\ Extended(t, u, v)
<1>. DEFINE v == t.Cur_nonterm + 1
            r == [t EXCEPT !.Cur_nonterm = @ + 1]
            set == FALSE
            u == WithNonterm(t, name, field)
<1>1. /\ DOMAIN t = TableFields /\ t.Cur_nonterm \in MINNONTERM - 1 .. MAXNONTERM
  BY DEF Sound, Numbers
<1>2. /\ DOMAIN r = TableFields /\ r.symbols = t.symbols /\ r.Cur_nonterm = v
      /\ \A x \in TableFields \ {"symbols", "Cur_nonterm"} : r[x] = t[x]
  BY <1>1 DEF TableFields
<1>3. u = AddSymbol(r, v, name, field, set)
  BY DEF WithNonterm, set
<1>4. Extended(t, u, v) /\ u.Cur_nonterm = v /\ v \in MINNONTERM .. MAXNONTERM
      /\ \A x \in TableFields \ {"symbols", "Cur_nonterm"} : u[x] = t[x]
  BY NontermAdded
<1>. HIDE DEF r, u, set, v
<1>5. v \notin DOMAIN r.symbols
  BY <1>2, <1>4 DEF Extended
<1>6. /\ DOMAIN u.symbols = DOMAIN r.symbols \cup {v}
      /\ \A w \in DOMAIN r.symbols : u.symbols[w] = r.symbols[w]
      /\ u.symbols[v].name = name /\ u.symbols[v].field = field
  BY <1>2, <1>3, <1>5, AddSymbolFacts
<1>7. AddedAs(t, u, v, name, field)
  BY <1>2, <1>5, <1>6 DEF AddedAs
<1>. QED
  BY <1>4, <1>7 DEF u, v, Only

LEMMA ActAddedAs ==
  ASSUME NEW t, Sound(t), NEW name, NEW field
  PROVE  LET u == WithAct(t, name, field)
             v == t.Cur_act + 1
         IN /\ AddedAs(t, u, v, name, field)
            /\ Only(t, u, {"symbols", "Cur_act"})
            /\ u.Cur_act = v
            /\ v \in Nat /\ IsAct(v)
            /\ Extended(t, u, v)
<1>. DEFINE v == t.Cur_act + 1
            r == [t EXCEPT !.Cur_act = @ + 1]
            set == FALSE
            u == WithAct(t, name, field)
<1>1. /\ DOMAIN t = TableFields /\ t.Cur_act \in Nat /\ t.Cur_act >= MINACT - 1
  BY DEF Sound, Numbers
<1>2. /\ DOMAIN r = TableFields /\ r.symbols = t.symbols /\ r.Cur_act = v
      /\ \A x \in TableFields \ {"symbols", "Cur_act"} : r[x] = t[x]
  BY <1>1 DEF TableFields
<1>3. u = AddSymbol(r, v, name, field, set)
  BY DEF WithAct, set
<1>4. Extended(t, u, v) /\ u.Cur_act = v /\ v \in Nat
      /\ \A x \in TableFields \ {"symbols", "Cur_act"} : u[x] = t[x]
  BY ActAdded
<1>8. IsAct(v)
  BY <1>1, Limits DEF IsAct
<1>. HIDE DEF r, u, set, v
<1>5. v \notin DOMAIN r.symbols
  BY <1>2, <1>4 DEF Extended
<1>6. /\ DOMAIN u.symbols = DOMAIN r.symbols \cup {v}
      /\ \A w \in DOMAIN r.symbols : u.symbols[w] = r.symbols[w]
      /\ u.symbols[v].name = name /\ u.symbols[v].field = field
  BY <1>2, <1>3, <1>5, AddSymbolFacts
<1>7. AddedAs(t, u, v, name, field)
  BY <1>2, <1>5, <1>6 DEF AddedAs
<1>. QED
  BY <1>4, <1>7, <1>8 DEF u, v, Only

\* make_term(), by its outcome.
TermMade(t, u, name) ==
  /\ name \in CIdentifiers
  /\ Found(t, name) = NULL
  /\ t.Cur_term < MAXTERM
  /\ AddedAs(t, u, t.Cur_term + 1, name, t.Field_name)
  /\ Only(t, u, {"symbols", "Cur_term"})
  /\ u.Cur_term = t.Cur_term + 1

LEMMA MakeTermDoes ==
  ASSUME NEW t, Sound(t), NEW name
  PROVE  LET u == make_term(t, name)
         IN /\ NoFewer(t, u)
            /\ \/ name \notin CIdentifiers /\ Failed(t, u)
               \/ name \in CIdentifiers /\ Found(t, name) # NULL /\ u = t
               \/ Found(t, name) = NULL /\ t.Cur_term = MAXTERM /\ Failed(t, u)
               \/ TermMade(t, u, name)
<1>. DEFINE u == make_term(t, name)
<1>1. CASE name \notin CIdentifiers
  BY <1>1, ErrorsCounted DEF make_term
<1>2. CASE name \in CIdentifiers /\ Found(t, name) # NULL
  <2>1. make_term(t, name) = t
    BY <1>2 DEF make_term
  <2>. QED
    BY <1>2, <2>1, ErrorsCounted
<1>3. CASE name \in CIdentifiers /\ Found(t, name) = NULL /\ TermsFull(t)
  <2>1. make_term(t, name) = Fatal(t)
    BY <1>3 DEF make_term
  <2>2. t.Cur_term = MAXTERM
    BY <1>3, Limits DEF TermsFull, Sound, Numbers
  <2>. QED
    BY <1>3, <2>1, <2>2, ErrorsCounted
<1>4. CASE name \in CIdentifiers /\ Found(t, name) = NULL /\ ~TermsFull(t)
  <2>1. u = WithTerm(t, name, t.Field_name)
    BY <1>4 DEF make_term, WithTerm
  <2>2. t.Cur_term < MAXTERM
    BY <1>4, Limits DEF TermsFull, Sound, Numbers
  <2>. HIDE DEF u
  <2>3. /\ AddedAs(t, u, t.Cur_term + 1, name, t.Field_name)
        /\ Only(t, u, {"symbols", "Cur_term"})
        /\ u.Cur_term = t.Cur_term + 1
    BY <2>1, <2>2, TermAddedAs
  <2>4. u.yynerrs = t.yynerrs
    BY <2>3 DEF Only, TableFields
  <2>5. NoFewer(t, u)
    BY <2>4, ErrorsCounted, NoneFewer
  <2>. QED
    BY <1>4, <2>2, <2>3, <2>5 DEF TermMade, u
<1>. QED
  BY <1>1, <1>2, <1>3, <1>4

\* new_nonterm() on a symbol: names and fields stay.
InitParts == {"Goal_symbol", "Goal_symbol_is_next", "lhs", "rhs", "symbols"}

LEMMA InitNontermDoes ==
  ASSUME NEW t, DOMAIN t = TableFields,
         \A w \in DOMAIN t.symbols : DOMAIN t.symbols[w] = SymbolFields,
         NEW v \in DOMAIN t.symbols, NEW is_lhs \in BOOLEAN
  PROVE  LET u == InitNonterm(t, v, is_lhs)
         IN /\ Only(t, u, InitParts)
            /\ DOMAIN u.symbols = DOMAIN t.symbols
            /\ Grows(t, u)
            /\ is_lhs => /\ u.lhs = v
                         /\ u.Goal_symbol = (IF t.Goal_symbol_is_next THEN v ELSE t.Goal_symbol)
<1>. DEFINE goal == IF t.Goal_symbol_is_next
                    THEN [t EXCEPT !.Goal_symbol = v, !.Goal_symbol_is_next = FALSE]
                    ELSE t
            u == InitNonterm(t, v, is_lhs)
<1>2. /\ DOMAIN goal = TableFields
      /\ \A x \in TableFields \ {"Goal_symbol", "Goal_symbol_is_next"} : goal[x] = t[x]
      /\ goal.Goal_symbol = (IF t.Goal_symbol_is_next THEN v ELSE t.Goal_symbol)
  BY DEF TableFields
<1>3. u = IF is_lhs THEN [goal EXCEPT !.lhs = v, !.rhs = NULL, !.symbols[v].set = TRUE]
          ELSE goal
  BY DEF InitNonterm
<1>. HIDE DEF goal, u
<1>4. goal.symbols = t.symbols /\ goal.lhs = t.lhs /\ goal.rhs = t.rhs
  BY <1>2 DEF TableFields
<1>5. ASSUME is_lhs
      PROVE  /\ \A x \in TableFields \ {"lhs", "rhs", "symbols"} : u[x] = goal[x]
             /\ u.lhs = v
             /\ u.symbols = [t.symbols EXCEPT ![v].set = TRUE]
  BY <1>2, <1>3, <1>4, <1>5 DEF TableFields
<1>6. /\ DOMAIN u.symbols = DOMAIN t.symbols
      /\ Grows(t, u)
  <2>1. CASE is_lhs
    BY <1>5, <2>1 DEF SymbolFields, Grows
  <2>2. CASE ~is_lhs
    BY <1>3, <1>4, <2>2 DEF Grows
  <2>. QED
    BY <2>1, <2>2
<1>7. Only(t, u, InitParts)
  <2>1. CASE is_lhs
    BY <1>2, <1>5, <2>1 DEF Only, InitParts
  <2>2. CASE ~is_lhs
    BY <1>2, <1>3, <2>2 DEF Only, InitParts
  <2>. QED
    BY <2>1, <2>2
<1>8. is_lhs => u.lhs = v /\ u.Goal_symbol = goal.Goal_symbol
  BY <1>5 DEF TableFields
<1>. QED
  BY <1>2, <1>6, <1>7, <1>8 DEF u

\* new_nonterm(), by its outcome.
NontermKnown(t, u, name, is_lhs) ==
  /\ Found(t, name) # NULL
  /\ IsNonterm(Found(t, name))
  /\ Grows(t, u)
  /\ DOMAIN u.symbols = DOMAIN t.symbols
  /\ Only(t, u, InitParts)
  /\ ~is_lhs /\ ~t.Goal_symbol_is_next => u = t
  /\ is_lhs => /\ u.lhs = Found(t, name)
               /\ u.Goal_symbol = (IF t.Goal_symbol_is_next THEN u.lhs ELSE t.Goal_symbol)

NontermMade(t, u, name, is_lhs) ==
  LET v == t.Cur_nonterm + 1
  IN /\ Found(t, name) = NULL
     /\ t.Cur_nonterm < MAXNONTERM
     /\ Grows(t, u)
     /\ NewName(t, u, v, name)
     /\ DOMAIN u.symbols = DOMAIN t.symbols \cup {v}
     /\ v \in MINNONTERM .. MAXNONTERM
     /\ Only(t, u, InitParts \cup {"Cur_nonterm"})
     /\ u.Cur_nonterm = v
     /\ ~is_lhs /\ ~t.Goal_symbol_is_next => Only(t, u, {"symbols", "Cur_nonterm"})
     /\ is_lhs => /\ u.lhs = v
                  /\ u.Goal_symbol = (IF t.Goal_symbol_is_next THEN u.lhs ELSE t.Goal_symbol)

LEMMA NewNontermDoes ==
  ASSUME NEW t, Sound(t), NEW name, NEW is_lhs \in BOOLEAN
  PROVE  LET u == new_nonterm(t, name, is_lhs)
         IN /\ NoFewer(t, u)
            /\ \/ Found(t, name) # NULL /\ ~IsNonterm(Found(t, name)) /\ Failed(t, u)
               \/ Found(t, name) = NULL /\ t.Cur_nonterm = MAXNONTERM /\ Failed(t, u)
               \/ NontermKnown(t, u, name, is_lhs)
               \/ NontermMade(t, u, name, is_lhs)
<1>. DEFINE v == Found(t, name)
            w == t.Cur_nonterm + 1
            r == WithNonterm(t, name, t.Field_name)
            u == new_nonterm(t, name, is_lhs)
<1>0. \A q, x : ~is_lhs /\ ~q.Goal_symbol_is_next => InitNonterm(q, x, is_lhs) = q
  BY DEF InitNonterm
<1>1. CASE v # NULL /\ ~IsNonterm(v)
  <2>1. u = NonFatal(t)
    BY <1>1 DEF new_nonterm
  <2>. QED
    BY <1>1, <2>1, ErrorsCounted
<1>2. CASE v = NULL /\ t.Cur_nonterm >= MAXNONTERM
  <2>1. u = Fatal(t)
    BY <1>2 DEF new_nonterm
  <2>2. t.Cur_nonterm = MAXNONTERM
    BY <1>2, Limits DEF Sound, Numbers
  <2>. QED
    BY <1>2, <2>1, <2>2, ErrorsCounted
<1>9. /\ DOMAIN t = TableFields
      /\ \A x \in DOMAIN t.symbols : DOMAIN t.symbols[x] = SymbolFields
  BY DEF Sound, Numbers, SymbolsHold
<1>3. CASE v # NULL /\ IsNonterm(v)
  <2>1. u = InitNonterm(t, v, is_lhs)
    BY <1>3, Limits DEF new_nonterm
  <2>2. v \in DOMAIN t.symbols
    BY <1>3, FoundFacts
  <2>. HIDE DEF u, v
  <2>3. /\ Only(t, u, InitParts)
        /\ DOMAIN u.symbols = DOMAIN t.symbols
        /\ Grows(t, u)
        /\ is_lhs => /\ u.lhs = v
                     /\ u.Goal_symbol = (IF t.Goal_symbol_is_next THEN v ELSE t.Goal_symbol)
    BY <1>9, <2>1, <2>2, InitNontermDoes
  <2>4. ~is_lhs /\ ~t.Goal_symbol_is_next => u = t
    BY <1>0, <2>1
  <2>5. u.yynerrs = t.yynerrs
    BY <2>3 DEF Only, TableFields, InitParts
  <2>6. NoFewer(t, u)
    BY <2>5, ErrorsCounted, NoneFewer
  <2>. QED
    BY <1>3, <2>3, <2>4, <2>6 DEF NontermKnown, u, v
<1>4. CASE v = NULL /\ ~(t.Cur_nonterm >= MAXNONTERM)
  <2>1. u = InitNonterm(r, w, is_lhs)
    BY <1>4 DEF new_nonterm, WithNonterm, IsNonterm, NULL, MINNONTERM
  <2>2. t.Cur_nonterm < MAXNONTERM
    BY <1>4, Limits DEF Sound, Numbers
  <2>3. /\ AddedAs(t, r, w, name, t.Field_name)
        /\ Only(t, r, {"symbols", "Cur_nonterm"})
        /\ r.Cur_nonterm = w
        /\ w \in MINNONTERM .. MAXNONTERM
        /\ Extended(t, r, w)
    BY <2>2, NontermAddedAs
  <2>. HIDE DEF r, w, u
  <2>4. /\ w \in DOMAIN r.symbols /\ DOMAIN r = TableFields
        /\ \A x \in DOMAIN r.symbols : DOMAIN r.symbols[x] = SymbolFields
    BY <2>3 DEF Extended, Numbers
  <2>5. /\ Only(r, u, InitParts)
        /\ DOMAIN u.symbols = DOMAIN r.symbols
        /\ Grows(r, u)
        /\ is_lhs => /\ u.lhs = w
                     /\ u.Goal_symbol = (IF r.Goal_symbol_is_next THEN w ELSE r.Goal_symbol)
    BY <2>1, <2>4, InitNontermDoes
  <2>6. r.Goal_symbol_is_next = t.Goal_symbol_is_next /\ r.Goal_symbol = t.Goal_symbol
    BY <2>3 DEF Only, TableFields
  <2>7. ~IsAct(w)
    BY <2>3, Limits DEF IsAct
  <2>8. Grows(t, r) /\ NewName(t, r, w, name)
    BY <2>3, <2>7, AddedGrows
  <2>9. Grows(t, u)
    BY <2>5, <2>8 DEF Grows
  <2>10. /\ Named(u) = Named(r) /\ w \in DOMAIN r.symbols
         /\ u.symbols[w].name = r.symbols[w].name /\ u.symbols[w].field = r.symbols[w].field
    BY <2>4, <2>5 DEF Named, Grows
  <2>11. NewName(t, u, w, name)
    BY <2>8, <2>9, <2>10 DEF NewName
  <2>12. Only(t, u, InitParts \cup {"Cur_nonterm"})
    BY <2>3, <2>5 DEF Only, InitParts
  <2>13. u.Cur_nonterm = w
    BY <2>3, <2>5 DEF Only, InitParts, TableFields
  <2>14. ~is_lhs /\ ~t.Goal_symbol_is_next => Only(t, u, {"symbols", "Cur_nonterm"})
    BY <1>0, <2>1, <2>3, <2>6
  <2>15. DOMAIN u.symbols = DOMAIN t.symbols \cup {w}
    BY <2>3, <2>5 DEF AddedAs
  <2>16. u.yynerrs = t.yynerrs
    BY <2>12 DEF Only, TableFields, InitParts
  <2>17. NoFewer(t, u)
    BY <2>16, ErrorsCounted, NoneFewer
  <2>18. NontermMade(t, u, name, is_lhs)
    BY <1>4, <2>2, <2>3, <2>5, <2>6, <2>9, <2>11, <2>12, <2>13, <2>14, <2>15 DEF NontermMade, w
  <2>. QED
    BY <2>17, <2>18 DEF u
<1>. QED
  BY <1>1, <1>2, <1>3, <1>4

\* The only symbol with a name is the one findsym() finds.
LEMMA FoundNew ==
  ASSUME NEW t, Sound(t), NEW u, Sound(u), NEW name, Found(t, name) = NULL,
         NEW v, NewName(t, u, v, name)
  PROVE  Found(u, name) = v
<1>1. \A w \in Named(t) : t.symbols[w].name # name
  BY FoundFacts DEF Named
<1>2. v \in DOMAIN u.symbols /\ ~IsAct(v) /\ u.symbols[v].name = name
  BY DEF NewName, Named
<1>3. Found(u, name) \in DOMAIN u.symbols /\ u.symbols[Found(u, name)].name = name
      /\ Found(u, name) \in 1 .. u.Cur_term \cup MINNONTERM .. u.Cur_nonterm
  BY <1>2, FoundFacts
<1>4. ~IsAct(Found(u, name))
  BY <1>3, Limits DEF IsAct, Sound, Numbers
<1>5. Found(u, name) \in Named(t) \cup {v}
  BY <1>3, <1>4 DEF NewName, Named
<1>6. \A w \in Named(t) : u.symbols[w].name = t.symbols[w].name
  BY DEF NewName, Grows, Named
<1>. QED
  BY <1>1, <1>3, <1>5, <1>6

\* prec_list(), by its outcome.
PrecSet(t, u, v) ==
  /\ Only(t, u, {"Precedence"})
  /\ u.Precedence = [t.Precedence EXCEPT ![v] = [level |-> t.Prec_lev, assoc |-> t.Associativity]]

LEMMA PrecListDoes ==
  ASSUME NEW t, Sound(t), t.status = "run", NEW name
  PROVE  LET u == prec_list(t, name)
         IN /\ NoFewer(t, u)
            /\ \/ Found(t, name) = NULL /\ Failed(t, u)
                  /\ (name \notin CIdentifiers \/ t.Cur_term = MAXTERM)
               \/ Found(t, name) # NULL /\ ~IsTerm(Found(t, name)) /\ Failed(t, u)
               \/ Found(t, name) # NULL /\ IsTerm(Found(t, name)) /\ PrecSet(t, u, Found(t, name))
               \/ \E known : TermMade(t, known, name) /\ PrecSet(known, u, t.Cur_term + 1)
<1>. DEFINE known == IF Found(t, name) = NULL THEN make_term(t, name) ELSE t
            v     == Found(known, name)
            set   == [known EXCEPT !.Precedence[v] = [level |-> t.Prec_lev,
                                                      assoc |-> t.Associativity]]
            u     == prec_list(t, name)
<1>1. Sound(known) /\ NoFewer(t, known)
  BY MakeTermSound, MakeTermDoes, ErrorsCounted
<1>2. u = CASE known.status # "run" -> known
            [] known.status = "run" /\ ~IsTerm(v) -> NonFatal(known)
            [] OTHER -> set
  BY DEF prec_list
<1>3. /\ known.Prec_lev = t.Prec_lev /\ known.Associativity = t.Associativity
         => PrecSet(known, set, v)
      /\ set.yynerrs = known.yynerrs
  BY <1>1 DEF PrecSet, Only, TableFields, Sound, Numbers
<1>. HIDE DEF known, set, u
<1>4. NoFewer(known, u)
  <2>1. u \in {known, NonFatal(known), set}
    BY <1>2
  <2>2. NoFewer(known, set)
    BY <1>1, <1>3, ErrorsCounted, NoneFewer
  <2>. QED
    BY <1>1, <2>1, <2>2, ErrorsCounted
<1>5. t.yynerrs \in Nat
  BY ErrorsCounted
<1>6. NoFewer(t, u)
  BY <1>1, <1>4, <1>5, NoFewerTwice
<1>7. CASE Found(t, name) # NULL
  <2>1. known = t
    BY <1>7 DEF known
  <2>2. CASE ~IsTerm(v)
    <3>1. u = NonFatal(t)
      BY <1>2, <2>1, <2>2
    <3>. QED
      BY <1>6, <1>7, <2>1, <2>2, <3>1, ErrorsCounted DEF u
  <2>3. CASE IsTerm(v)
    <3>1. u = set /\ PrecSet(t, u, v)
      BY <1>2, <1>3, <2>1, <2>3
    <3>. QED
      BY <1>6, <1>7, <2>1, <2>3, <3>1 DEF u
  <2>. QED
    BY <2>2, <2>3
<1>8. CASE Found(t, name) = NULL
  <2>1. known = make_term(t, name)
    BY <1>8 DEF known
  <2>2. \/ name \notin CIdentifiers /\ Failed(t, known)
        \/ t.Cur_term = MAXTERM /\ Failed(t, known)
        \/ TermMade(t, known, name)
    BY <1>8, <2>1, MakeTermDoes
  <2>3. CASE Failed(t, known) /\ (name \notin CIdentifiers \/ t.Cur_term = MAXTERM)
    <3>1. Failed(t, u)
      BY <1>1, <1>4, <1>5, <2>3, NoFewerTwice
    <3>. QED
      BY <1>6, <1>8, <2>3, <3>1 DEF u
  <2>4. CASE TermMade(t, known, name)
    <3>. DEFINE w == t.Cur_term + 1
    <3>1. w \in 1 .. MAXTERM /\ ~IsAct(w) /\ IsTerm(w)
      BY <2>4, Limits DEF TermMade, Sound, Numbers, IsAct, IsTerm
    <3>2. NewName(t, known, w, name)
      BY <2>4, <3>1, AddedGrows DEF TermMade
    <3>3. v = w
      BY <1>1, <1>8, <3>2, FoundNew
    <3>4. /\ known.status = t.status
          /\ known.Prec_lev = t.Prec_lev /\ known.Associativity = t.Associativity
      BY <2>4 DEF TermMade, Only, TableFields
    <3>5. u = set /\ PrecSet(known, u, w)
      BY <1>2, <1>3, <3>1, <3>3, <3>4
    <3>. QED
      BY <1>6, <2>4, <3>5 DEF u
  <2>. QED
    BY <2>2, <2>3, <2>4
<1>. QED
  BY <1>7, <1>8

\* The current production gets another precedence.
PrecGiven(t, u, level) ==
  /\ Only(t, u, {"productions"})
  /\ DOMAIN u.productions = DOMAIN t.productions
  /\ \A p \in DOMAIN t.productions \ {t.rhs} : u.productions[p] = t.productions[p]
  /\ u.productions[t.rhs].lhs = t.productions[t.rhs].lhs
  /\ u.productions[t.rhs].rhs = t.productions[t.rhs].rhs
  /\ u.productions[t.rhs].rhs_len = t.productions[t.rhs].rhs_len
  /\ u.productions[t.rhs].prec = level

LEMMA PrecDoes ==
  ASSUME NEW t, Sound(t), InRhs(t), NEW name
  PROVE  LET u == prec(t, name)
         IN /\ NoFewer(t, u)
            /\ \/ name \in DOMAIN Numerals /\ PrecGiven(t, u, Numerals[name])
               \/ name \notin DOMAIN Numerals /\ ~IsTerm(Found(t, name)) /\ Failed(t, u)
               \/ name \notin DOMAIN Numerals /\ IsTerm(Found(t, name))
                  /\ PrecGiven(t, u, t.Precedence[Found(t, name)].level)
<1>1. ASSUME NEW level
      PROVE  LET u == [t EXCEPT !.productions[t.rhs].prec = level]
             IN PrecGiven(t, u, level) /\ NoFewer(t, u)
  <2>. DEFINE prod == t.productions[t.rhs]
              new  == [t.productions EXCEPT ![t.rhs].prec = level]
              u    == [t EXCEPT !.productions[t.rhs].prec = level]
  <2>1. DOMAIN t = TableFields /\ t.rhs \in DOMAIN t.productions /\ IsProduction(t, prod)
    BY DEF Sound, Numbers, InRhs, ProductionsHold
  <2>2. u.productions = new /\ \A x \in TableFields \ {"productions"} : u[x] = t[x]
    BY <2>1 DEF TableFields
  <2>3. /\ DOMAIN new = DOMAIN t.productions
        /\ \A p \in DOMAIN t.productions \ {t.rhs} : new[p] = t.productions[p]
        /\ new[t.rhs].lhs = prod.lhs /\ new[t.rhs].rhs = prod.rhs
        /\ new[t.rhs].rhs_len = prod.rhs_len /\ new[t.rhs].prec = level
    BY <2>1 DEF IsProduction, ProductionFields
  <2>. HIDE DEF u, new, prod
  <2>4. PrecGiven(t, u, level)
    BY <2>2, <2>3 DEF PrecGiven, Only, prod
  <2>5. u.yynerrs = t.yynerrs
    BY <2>2 DEF TableFields
  <2>6. NoFewer(t, u)
    BY <2>5, ErrorsCounted, NoneFewer
  <2>. QED
    BY <2>4, <2>6 DEF u
<1>3. CASE name \in DOMAIN Numerals
  <2>. DEFINE level == Numerals[name]
  <2>2. prec(t, name) = [t EXCEPT !.productions[t.rhs].prec = level]
    BY <1>3 DEF prec
  <2>. HIDE DEF level
  <2>3. PrecGiven(t, prec(t, name), level) /\ NoFewer(t, prec(t, name))
    BY <1>1, <2>2
  <2>. QED
    BY <1>3, <2>3 DEF level
<1>4. CASE name \notin DOMAIN Numerals /\ ~IsTerm(Found(t, name))
  <2>1. prec(t, name) = NonFatal(t)
    BY <1>4 DEF prec
  <2>. QED
    BY <1>4, <2>1, ErrorsCounted
<1>5. CASE name \notin DOMAIN Numerals /\ IsTerm(Found(t, name))
  <2>. DEFINE level == t.Precedence[Found(t, name)].level
  <2>2. prec(t, name) = [t EXCEPT !.productions[t.rhs].prec = level]
    BY <1>5 DEF prec
  <2>. HIDE DEF level
  <2>3. PrecGiven(t, prec(t, name), level) /\ NoFewer(t, prec(t, name))
    BY <1>1, <2>2
  <2>. QED
    BY <1>5, <2>3 DEF level
<1>. QED
  BY <1>3, <1>4, <1>5

\* There is a production more.
ProductionMade(t, u) ==
  LET num == t.Num_productions
  IN /\ Only(t, u, {"symbols", "productions", "Num_productions", "rhs"})
     /\ DOMAIN u.symbols = DOMAIN t.symbols
     /\ Grows(t, u)
     /\ u.Num_productions = num + 1
     /\ u.rhs = num
     /\ \A p \in DOMAIN t.productions : u.productions[p] = t.productions[p]
     /\ u.productions[num] = [lhs |-> t.lhs, rhs |-> <<>>, rhs_len |-> 0, prec |-> 0]

LEMMA NewRhsDoes ==
  ASSUME NEW t, Sound(t)
  PROVE  LET u == new_rhs(t)
         IN /\ NoFewer(t, u)
            /\ \/ t.lhs = NULL
               \/ t.Num_productions >= MAXPROD /\ Failed(t, u)
               \/ t.Num_productions < MAXPROD /\ ProductionMade(t, u)
<1>0. DOMAIN t = TableFields /\ t.Num_productions \in Nat
  BY DEF Sound, Numbers
<1>1. CASE t.lhs = NULL
  <2>1. new_rhs(t) = [t EXCEPT !.status = "undefined"]
    BY <1>1 DEF new_rhs
  <2>2. new_rhs(t).yynerrs = t.yynerrs
    BY <1>0, <2>1 DEF TableFields
  <2>. QED
    BY <1>1, <2>2, ErrorsCounted, NoneFewer
<1>2. CASE t.lhs # NULL /\ t.Num_productions >= MAXPROD
  <2>1. new_rhs(t) = Fatal(t)
    BY <1>2 DEF new_rhs
  <2>. QED
    BY <1>2, <2>1, ErrorsCounted
<1>3. CASE t.lhs # NULL /\ ~(t.Num_productions >= MAXPROD)
  <2>. DEFINE num   == t.Num_productions
              prod  == [lhs |-> t.lhs, rhs |-> <<>>, rhs_len |-> 0, prec |-> 0]
              prods == [p \in DOMAIN t.productions \cup {num} |->
                          IF p = num THEN prod ELSE t.productions[p]]
              u == new_rhs(t)
  <2>1. u = [t EXCEPT !.symbols[t.lhs].productions = <<num>> \o @,
                      !.productions = prods,
                      !.Num_productions = @ + 1,
                      !.rhs = num]
    BY <1>3 DEF new_rhs
  <2>. DEFINE syms == [t.symbols EXCEPT ![t.lhs].productions = <<num>> \o @]
  <2>. HIDE DEF prods, u
  <2>2. /\ u.symbols = syms /\ u.productions = prods /\ u.Num_productions = num + 1
        /\ u.rhs = num
        /\ \A x \in TableFields \ {"symbols", "productions", "Num_productions", "rhs"} :
             u[x] = t[x]
    BY <1>0, <2>1 DEF TableFields
  <2>3. DOMAIN syms = DOMAIN t.symbols
        /\ \A w \in DOMAIN t.symbols : /\ syms[w].name = t.symbols[w].name
                                       /\ syms[w].field = t.symbols[w].field
    <3>1. \A w \in DOMAIN t.symbols : DOMAIN t.symbols[w] = SymbolFields
      BY DEF Sound, SymbolsHold
    <3>. QED
      BY <3>1 DEF SymbolFields
  <2>. HIDE DEF syms
  <2>4. Grows(t, u) /\ DOMAIN u.symbols = DOMAIN t.symbols
    BY <2>2, <2>3 DEF Grows
  <2>5. DOMAIN t.productions = 0 .. num - 1
    BY DEF Sound, ProductionsHold
  <2>6. /\ \A p \in DOMAIN t.productions : u.productions[p] = t.productions[p]
        /\ u.productions[num] = prod
    BY <1>0, <2>2, <2>5 DEF prods
  <2>7. ProductionMade(t, u)
    BY <2>2, <2>4, <2>6 DEF ProductionMade, Only
  <2>8. u.yynerrs = t.yynerrs
    BY <2>2 DEF TableFields
  <2>9. NoFewer(t, u)
    BY <2>8, ErrorsCounted, NoneFewer
  <2>10. t.Num_productions < MAXPROD
    BY <1>0, <1>3, Limits
  <2>. QED
    BY <2>7, <2>9, <2>10 DEF u
<1>. QED
  BY <1>1, <1>2, <1>3

----------------------------------------------------------------------------
(***************************************************************************)
(* and right-hand sides.                                                   *)
(***************************************************************************)
\* The current production gets a symbol more.
LongerBy(t, known, u, v) ==
  /\ Only(known, u, {"symbols", "productions"})
  /\ DOMAIN u.symbols = DOMAIN known.symbols
  /\ Grows(known, u)
  /\ \A p \in DOMAIN t.productions \ {t.rhs} : u.productions[p] = t.productions[p]
  /\ u.productions[t.rhs].lhs = t.productions[t.rhs].lhs
  /\ u.productions[t.rhs].rhs = Append(t.productions[t.rhs].rhs, v)
  /\ u.productions[t.rhs].rhs_len = t.productions[t.rhs].rhs_len + 1
  /\ u.productions[t.rhs].prec = PrecAfter(t, v)

LEMMA WithSymbolDoes ==
  ASSUME NEW t, Sound(t), InRhs(t),
         NEW known, Sound(known), Steady(t, known), known.productions = t.productions,
         NoFewer(t, known), NEW v
  PROVE  LET u == WithSymbol(t, known, v)
         IN /\ NoFewer(t, u)
            /\ \/ known.status # "run" /\ u = known
               \/ t.productions[t.rhs].rhs_len >= MAXRHS /\ Failed(t, u)
               \/ t.productions[t.rhs].rhs_len < MAXRHS /\ LongerBy(t, known, u, v)
<1>. DEFINE counted == [known EXCEPT !.symbols[v].used = TRUE,
                                     !.productions[t.rhs].rhs_len = @ + 1]
            prod == known.productions[t.rhs]
            level == PrecAfter(t, v)
            longer == [counted EXCEPT !.productions[t.rhs].rhs = Append(@, v),
                                      !.productions[t.rhs].prec = level]
            u == WithSymbol(t, known, v)
<1>1. u = CASE known.status # "run" -> known
            [] known.status = "run" /\ t.productions[t.rhs].rhs_len >= MAXRHS -> NonFatal(counted)
            [] OTHER -> longer
  BY DEF WithSymbol
<1>. HIDE DEF level, u
<1>2. /\ DOMAIN known = TableFields /\ known.yynerrs \in Nat /\ t.yynerrs \in Nat
      /\ \A w \in DOMAIN known.symbols : DOMAIN known.symbols[w] = SymbolFields
  BY DEF Sound, Numbers, SymbolsHold
<1>3. t.rhs \in DOMAIN known.productions /\ IsProduction(known, prod)
  BY DEF Sound, InRhs, ProductionsHold, Steady
<1>. DEFINE syms == [known.symbols EXCEPT ![v].used = TRUE]
            prods == [known.productions EXCEPT ![t.rhs].rhs_len = @ + 1]
            prods2 == [prods EXCEPT ![t.rhs].rhs = Append(@, v), ![t.rhs].prec = level]
<1>4. /\ DOMAIN counted = TableFields /\ counted.symbols = syms /\ counted.productions = prods
      /\ \A x \in TableFields \ {"symbols", "productions"} : counted[x] = known[x]
  BY <1>2 DEF TableFields
<1>. HIDE DEF counted
<1>5. /\ longer.symbols = syms /\ longer.productions = prods2
      /\ \A x \in TableFields \ {"symbols", "productions"} : longer[x] = known[x]
  BY <1>4 DEF TableFields
<1>. HIDE DEF longer
<1>6. /\ DOMAIN syms = DOMAIN known.symbols
      /\ \A w \in DOMAIN known.symbols : /\ syms[w].name = known.symbols[w].name
                                         /\ syms[w].field = known.symbols[w].field
  BY <1>2 DEF SymbolFields
<1>7. /\ DOMAIN prods = DOMAIN known.productions
      /\ \A p \in DOMAIN known.productions \ {t.rhs} : prods[p] = known.productions[p]
      /\ DOMAIN prods[t.rhs] = ProductionFields
      /\ prods[t.rhs].lhs = prod.lhs /\ prods[t.rhs].rhs = prod.rhs
      /\ prods[t.rhs].rhs_len = prod.rhs_len + 1
  BY <1>3 DEF IsProduction, ProductionFields
<1>. HIDE DEF prods, syms
<1>8. /\ \A p \in DOMAIN known.productions \ {t.rhs} : prods2[p] = known.productions[p]
      /\ prods2[t.rhs].lhs = prod.lhs /\ prods2[t.rhs].rhs = Append(prod.rhs, v)
      /\ prods2[t.rhs].rhs_len = prod.rhs_len + 1 /\ prods2[t.rhs].prec = level
  BY <1>3, <1>7 DEF ProductionFields
<1>. HIDE DEF prods2
<1>9. LongerBy(t, known, longer, v)
  BY <1>5, <1>6, <1>8 DEF LongerBy, Only, Grows, level
<1>10. longer.yynerrs = known.yynerrs /\ counted.yynerrs = known.yynerrs
  BY <1>4, <1>5 DEF TableFields
<1>11. NonFatal(counted).yynerrs = counted.yynerrs + 1
  BY <1>4 DEF NonFatal, TableFields
<1>12. CASE known.status # "run"
  <2>1. u = known
    BY <1>1, <1>12
  <2>. QED
    BY <1>12, <2>1 DEF u
<1>13. CASE known.status = "run" /\ t.productions[t.rhs].rhs_len >= MAXRHS
  <2>1. u = NonFatal(counted)
    BY <1>1, <1>13
  <2>2. Failed(t, u) /\ NoFewer(t, u)
    BY <1>2, <1>10, <1>11, <2>1 DEF Failed, NoFewer
  <2>. QED
    BY <1>13, <2>2 DEF u
<1>14. CASE known.status = "run" /\ ~(t.productions[t.rhs].rhs_len >= MAXRHS)
  <2>1. u = longer
    BY <1>1, <1>14
  <2>2. NoFewer(t, u)
    BY <1>2, <1>10, <2>1 DEF NoFewer
  <2>3. t.productions[t.rhs].rhs_len < MAXRHS
    BY <1>3, <1>14, Limits DEF IsProduction
  <2>. QED
    BY <1>9, <2>1, <2>2, <2>3 DEF u
<1>. QED
  BY <1>12, <1>13, <1>14

\* The symbol for an object, which is there or is added.
SymbolFor(t, known, v, object, kind) ==
  \/ /\ kind = "ACTION"
     /\ AddedAs(t, known, v, object, "")
     /\ IsAct(v)
     /\ Only(t, known, {"symbols", "Cur_act"})
  \/ /\ kind # "ACTION"
     /\ Found(t, object) # NULL
     /\ known = t
     /\ v = Found(t, object)
  \/ /\ kind # "ACTION"
     /\ NontermMade(t, known, object, FALSE)
     /\ Only(t, known, {"symbols", "Cur_nonterm"})
     /\ v = t.Cur_nonterm + 1

LEMMA AddToRhsDoes ==
  ASSUME NEW t, Sound(t), t.status = "run", InRhs(t), NEW object, NEW kind
  PROVE  LET u == add_to_rhs(t, object, kind = "ACTION")
         IN /\ NoFewer(t, u)
            /\ \/ /\ kind # "ACTION" /\ Found(t, object) = NULL
                  /\ t.Cur_nonterm = MAXNONTERM /\ Failed(t, u)
               \/ t.productions[t.rhs].rhs_len >= MAXRHS /\ Failed(t, u)
               \/ /\ t.productions[t.rhs].rhs_len < MAXRHS
                  /\ \E known, v :
                       SymbolFor(t, known, v, object, kind) /\ LongerBy(t, known, u, v)
<1>. DEFINE u == add_to_rhs(t, object, kind = "ACTION")
<1>0. t.yynerrs \in Nat
  BY ErrorsCounted
<1>1. t.Goal_symbol_is_next = FALSE
  <2>1. t.lhs # NULL /\ t.Goal_symbol_is_next \in BOOLEAN
    BY DEF InRhs, GoalKept, Sound, Numbers
  <2>2. t.Goal_symbol_is_next <=> t.lhs = NULL
    BY DEF InRhs, GoalKept
  <2>. QED
    BY <2>1, <2>2
<1>2. CASE kind = "ACTION"
  <2>. DEFINE field == ""
              known == WithAct(t, object, field)
              v == t.Cur_act + 1
  <2>1. u = WithSymbol(t, known, known.Cur_act)
    BY <1>2 DEF add_to_rhs, WithSymbol, WithObject, WithAct
  <2>. HIDE DEF field, u
  <2>2. /\ AddedAs(t, known, v, object, field)
        /\ Only(t, known, {"symbols", "Cur_act"})
        /\ known.Cur_act = v
        /\ IsAct(v)
        /\ Extended(t, known, v)
    BY ActAddedAs
  <2>. HIDE DEF known
  <2>3. Sound(known) /\ Steady(t, known) /\ known.status = "run"
    BY <2>2, ExtendedSteady DEF Only
  <2>4. known.productions = t.productions /\ known.yynerrs = t.yynerrs
    BY <2>2 DEF Only, TableFields
  <2>5. NoFewer(t, known)
    BY <1>0, <2>4, NoneFewer
  <2>. HIDE DEF v
  <2>6. /\ NoFewer(t, u)
        /\ \/ t.productions[t.rhs].rhs_len >= MAXRHS /\ Failed(t, u)
           \/ t.productions[t.rhs].rhs_len < MAXRHS /\ LongerBy(t, known, u, v)
    BY <2>1, <2>2, <2>3, <2>4, <2>5, WithSymbolDoes
  <2>7. SymbolFor(t, known, v, object, kind)
    BY <1>2, <2>2 DEF SymbolFor, field
  <2>. QED
    BY <2>6, <2>7 DEF u
<1>3. CASE kind # "ACTION"
  <2>. DEFINE known == IF Found(t, object) = NULL THEN new_nonterm(t, object, FALSE) ELSE t
              v == Found(known, object)
  <2>1. u = WithSymbol(t, known, v)
    BY <1>3 DEF add_to_rhs, WithSymbol, WithObject
  <2>. HIDE DEF u
  <2>2. CASE Found(t, object) # NULL
    <3>1. known = t
      BY <2>2
    <3>2. Steady(t, t) /\ NoFewer(t, t)
      BY SteadyItself, ErrorsCounted
    <3>. HIDE DEF known, v
    <3>3. /\ NoFewer(t, u)
          /\ \/ t.productions[t.rhs].rhs_len >= MAXRHS /\ Failed(t, u)
             \/ t.productions[t.rhs].rhs_len < MAXRHS /\ LongerBy(t, t, u, v)
      BY <2>1, <3>1, <3>2, WithSymbolDoes
    <3>4. SymbolFor(t, t, v, object, kind)
      BY <1>3, <2>2, <3>1 DEF SymbolFor, v
    <3>. QED
      BY <3>3, <3>4 DEF u
  <2>3. CASE Found(t, object) = NULL
    <3>. DEFINE is_lhs == FALSE
    <3>0. known = new_nonterm(t, object, is_lhs) /\ is_lhs \in BOOLEAN
      BY <2>3
    <3>. HIDE DEF is_lhs
    <3>1. /\ NoFewer(t, known)
          /\ \/ t.Cur_nonterm = MAXNONTERM /\ Failed(t, known)
             \/ NontermMade(t, known, object, is_lhs)
      BY <2>3, <3>0, NewNontermDoes DEF NontermKnown
    <3>2. /\ Sound(known) /\ Steady(t, known) /\ known.productions = t.productions
          /\ known.status \in {"run", "exit"}
      BY <1>1, <3>0, NewNontermSound DEF is_lhs
    <3>. HIDE DEF known, v
    <3>3. /\ NoFewer(t, u)
          /\ \/ known.status # "run" /\ u = known
             \/ t.productions[t.rhs].rhs_len >= MAXRHS /\ Failed(t, u)
             \/ t.productions[t.rhs].rhs_len < MAXRHS /\ LongerBy(t, known, u, v)
      BY <2>1, <3>1, <3>2, WithSymbolDoes
    <3>4. CASE NontermMade(t, known, object, is_lhs)
      <4>1. NewName(t, known, t.Cur_nonterm + 1, object)
        BY <3>4 DEF NontermMade
      <4>2. v = t.Cur_nonterm + 1
        BY <2>3, <3>2, <4>1, FoundNew DEF v
      <4>3. Only(t, known, {"symbols", "Cur_nonterm"})
        BY <1>1, <3>4 DEF NontermMade, is_lhs
      <4>4. SymbolFor(t, known, v, object, kind)
        BY <1>3, <3>4, <4>2, <4>3 DEF SymbolFor, is_lhs
      <4>5. known.status = t.status
        BY <4>3 DEF Only, TableFields
      <4>. QED
        BY <3>3, <4>4, <4>5 DEF u
    <3>5. CASE t.Cur_nonterm = MAXNONTERM /\ Failed(t, known)
      <4>1. CASE u = known
        BY <1>3, <2>3, <3>3, <3>5, <4>1 DEF u
      <4>2. CASE t.productions[t.rhs].rhs_len >= MAXRHS /\ Failed(t, u)
        BY <3>3, <4>2 DEF u
      <4>3. CASE LongerBy(t, known, u, v)
        <5>1. u.yynerrs = known.yynerrs
          BY <4>3 DEF LongerBy, Only, TableFields
        <5>2. Failed(t, u)
          BY <3>5, <5>1 DEF Failed
        <5>. QED
          BY <1>3, <2>3, <3>3, <3>5, <5>2 DEF u
      <4>. QED
        BY <3>3, <4>1, <4>2, <4>3
    <3>. QED
      BY <3>1, <3>4, <3>5
  <2>. QED
    BY <2>2, <2>3
<1>. QED
  BY <1>2, <1>3

----------------------------------------------------------------------------
(***************************************************************************)
(* The productions of one token more.                                      *)
(***************************************************************************)
\* The productions so far, and the parts of them the tables have.
LEMMA ReadSoFar ==
  ASSUME NEW s, IsFile(s), NEW h \in 1 .. Len(s) + 1, NEW t, Sound(t), RulesRead(s, h, t),
         NEW start \in Until(Starts(s), h)
  PROVE  LET prod == t.productions[Number(s, start)]
         IN /\ start \in Starts(s) /\ start < h
            /\ Number(s, start) \in DOMAIN t.productions
            /\ IsProduction(t, prod)
            /\ prod.lhs \in DOMAIN t.symbols
            /\ prod.lhs \in MINNONTERM .. t.Cur_nonterm
            /\ \A i \in Until(ObjectsOf(s, start), h) :
                 /\ Place(s, i) \in 1 .. Len(prod.rhs)
                 /\ prod.rhs[Place(s, i)] \in DOMAIN t.symbols
<1>. DEFINE prod == t.productions[Number(s, start)]
<1>1. start \in Starts(s) /\ start < h
  BY DEF Until
<1>2. /\ Number(s, start) \in Nat
      /\ Number(s, start) < Cardinality(Until(Starts(s), h))
  BY <1>1, NumberFacts
<1>3. t.Num_productions = Cardinality(Until(Starts(s), h)) /\ t.Num_productions \in Nat
  BY DEF RulesRead, Sound, Numbers
<1>4. Number(s, start) \in DOMAIN t.productions
  BY <1>2, <1>3 DEF Sound, ProductionsHold
<1>5. /\ prod.lhs \in DOMAIN t.symbols /\ prod.lhs \in MINNONTERM .. t.Cur_nonterm
      /\ IsProduction(t, prod)
  BY <1>4, LeftSides
<1>6. /\ prod.rhs_len = Cardinality(Until(ObjectsOf(s, start), h))
      /\ prod.rhs_len = Len(prod.rhs)
  BY DEF RulesRead, ProductionRead
<1>7. ASSUME NEW i \in Until(ObjectsOf(s, start), h)
      PROVE  /\ Place(s, i) \in 1 .. Len(prod.rhs)
             /\ prod.rhs[Place(s, i)] \in DOMAIN t.symbols
  <2>1. i \in ObjectsOf(s, start) /\ i < h
    BY DEF Until
  <2>2. /\ Place(s, i) \in Nat \ {0}
        /\ Place(s, i) <= Cardinality(Until(ObjectsOf(s, start), h))
    BY <2>1, PlaceFacts
  <2>3. Len(prod.rhs) \in Nat
    BY <1>5 DEF IsProduction
  <2>4. Place(s, i) \in 1 .. Len(prod.rhs)
    BY <1>6, <2>2, <2>3
  <2>. QED
    BY <1>5, <2>4 DEF IsProduction
<1>. QED
  BY <1>1, <1>4, <1>5, <1>7 DEF prod

LEMMA ProductionStays ==
  ASSUME NEW s, IsFile(s), NEW h \in 1 .. Len(s), NEW t, Sound(t), RulesRead(s, h, t),
         NEW start \in Until(Starts(s), h), NEW u, Grows(t, u),
         u.productions[Number(s, start)] = t.productions[Number(s, start)],
         h \notin ObjectsOf(s, start), h \notin Giving(s, start)
  PROVE  ProductionRead(s, h + 1, u, start)
<1>. DEFINE prod == t.productions[Number(s, start)]
<1>1. ProductionRead(s, h, t, start)
  BY DEF RulesRead
<1>2. /\ prod.lhs \in DOMAIN t.symbols
      /\ \A i \in Until(ObjectsOf(s, start), h) : prod.rhs[Place(s, i)] \in DOMAIN t.symbols
  BY ReadSoFar
<1>3. /\ Within(ObjectsOf(s, start), Len(s)) /\ Within(Giving(s, start), Len(s))
      /\ h \in 1 .. Len(s) + 1
  BY PositionsInFile
<1>4. Until(ObjectsOf(s, start), h + 1) = Until(ObjectsOf(s, start), h)
  BY <1>3, UntilHere
<1>5. Until(Giving(s, start), h + 1) = Until(Giving(s, start), h)
  BY <1>3, UntilHere
<1>6. u.symbols[prod.lhs].name = LhsOf(s, start)
  BY <1>1, <1>2 DEF ProductionRead, Grows
<1>7. \A i \in Until(ObjectsOf(s, start), h) :
        LET v == prod.rhs[Place(s, i)]
        IN /\ u.symbols[v].name = TextAt(s, i)
           /\ IsAct(v) <=> KindAt(s, i) = "ACTION"
           /\ IsAct(v) => u.symbols[v].field = ""
  BY <1>1, <1>2 DEF ProductionRead, Grows
<1>. QED
  BY <1>1, <1>4, <1>5, <1>6, <1>7 DEF ProductionRead

\* A token that belongs to no production.
LEMMA RulesStay ==
  ASSUME NEW s, IsFile(s), NEW h \in 1 .. Len(s), NEW t, Sound(t), GoalKept(t),
         RulesRead(s, h, t),
         h \notin Starts(s), h \notin Lhss(s),
         \A start \in Until(Starts(s), h) :
           h \notin ObjectsOf(s, start) /\ h \notin Giving(s, start),
         NEW u, Grows(t, u), u.productions = t.productions,
         u.Num_productions = t.Num_productions, u.lhs = t.lhs, u.Goal_symbol = t.Goal_symbol
  PROVE  RulesRead(s, h + 1, u)
<1>1. Within(Starts(s), Len(s)) /\ Within(Lhss(s), Len(s)) /\ h \in 1 .. Len(s) + 1
  BY PositionsInFile
<1>2. Until(Starts(s), h + 1) = Until(Starts(s), h)
  BY <1>1, UntilHere
<1>3. Until(Lhss(s), h + 1) = Until(Lhss(s), h)
  BY <1>1, UntilHere
<1>4. \A start \in Until(Starts(s), h) : ProductionRead(s, h + 1, u, start)
  BY ProductionStays
<1>5. t.lhs # NULL => t.lhs \in DOMAIN t.symbols /\ t.Goal_symbol \in DOMAIN t.symbols
  BY DEF GoalKept, Sound, SymbolsHold, Values
<1>6. t.lhs # NULL => /\ u.symbols[t.lhs].name = t.symbols[t.lhs].name
                      /\ u.symbols[t.Goal_symbol].name = t.symbols[t.Goal_symbol].name
  BY <1>5 DEF Grows
<1>. QED
  BY <1>2, <1>3, <1>4, <1>6 DEF RulesRead

\* A left-hand side; the first is the goal symbol.
LEMMA RulesLhs ==
  ASSUME NEW s, IsFile(s), NEW h \in Lhss(s), NEW t, Sound(t), GoalKept(t),
         RulesRead(s, h, t), NEW u, Grows(t, u), u.productions = t.productions,
         u.Num_productions = t.Num_productions,
         u.lhs # NULL, u.symbols[u.lhs].name = TextAt(s, h),
         u.Goal_symbol = (IF t.Goal_symbol_is_next THEN u.lhs ELSE t.Goal_symbol)
  PROVE  RulesRead(s, h + 1, u)
<1>0. h \in Rules(s) /\ h \in 1 .. Len(s) /\ h \in 1 .. Len(s) + 1
  BY PositionSets, FileFacts
<1>1. Within(Starts(s), Len(s)) /\ Within(Lhss(s), Len(s))
  BY PositionsInFile
<1>2. KindAt(s, h) = "NAME" /\ IsLhs(s, h)
  BY DEF Lhss, IsLhs
<1>3. /\ h \notin Starts(s) /\ h \notin Objects(s) /\ h \notin PrecNames(s)
  BY <1>0, <1>2, RulesHere DEF IsLhs, PrecNames
<1>4. \A start : h \notin ObjectsOf(s, start) /\ h \notin Giving(s, start)
  BY <1>3, PositionSets
<1>5. Until(Starts(s), h + 1) = Until(Starts(s), h)
  BY <1>0, <1>1, <1>3, UntilHere
<1>6. /\ Until(Lhss(s), h + 1) = Until(Lhss(s), h) \cup {h}
      /\ Max(Until(Lhss(s), h + 1)) = h
  BY <1>0, <1>1, UntilHere
<1>7. \A start \in Until(Starts(s), h) : ProductionRead(s, h + 1, u, start)
  BY <1>0, <1>4, ProductionStays
<1>8. u.symbols[u.Goal_symbol].name = TextAt(s, Min(Lhss(s)))
  <2>1. CASE t.lhs = NULL
    <3>1. Until(Lhss(s), h) = {}
      BY <2>1 DEF RulesRead
    <3>2. \A i \in Lhss(s) : i >= h
      BY <1>0, <1>1, <3>1 DEF Until, Within
    <3>3. Lhss(s) \in SUBSET Nat
      BY <1>1 DEF Within
    <3>4. Min(Lhss(s)) = h
      BY <3>2, <3>3, MinFacts
    <3>5. u.Goal_symbol = u.lhs
      BY <2>1 DEF GoalKept
    <3>. QED
      BY <3>4, <3>5
  <2>2. CASE t.lhs # NULL
    <3>1. u.Goal_symbol = t.Goal_symbol
      BY <2>2 DEF GoalKept
    <3>2. t.Goal_symbol \in DOMAIN t.symbols
      BY <2>2 DEF GoalKept, Sound, SymbolsHold, Values
    <3>3. t.symbols[t.Goal_symbol].name = TextAt(s, Min(Lhss(s)))
      BY <2>2 DEF RulesRead
    <3>. QED
      BY <3>1, <3>2, <3>3 DEF Grows
  <2>. QED
    BY <2>1, <2>2
<1>. QED
  BY <1>5, <1>6, <1>7, <1>8 DEF RulesRead

\* A colon or bar: there is a production more.
LEMMA RulesStart ==
  ASSUME NEW s, IsFile(s), NEW h \in Starts(s), NEW t, Sound(t), GoalKept(t), t.lhs # NULL,
         RulesRead(s, h, t), t.Num_productions < MAXPROD, NEW u, ProductionMade(t, u)
  PROVE  RulesRead(s, h + 1, u) /\ AtRhs(s, h + 1, u)
<1>0. h \in Rules(s) /\ h \in 1 .. Len(s) /\ h \in 1 .. Len(s) + 1
  BY PositionSets, FileFacts
<1>1. Within(Starts(s), Len(s)) /\ Within(Lhss(s), Len(s))
  BY PositionsInFile
<1>2. KindAt(s, h) \in {"COLON", "OR"}
  BY DEF Starts
<1>3. /\ h \notin Lhss(s) /\ h \notin Objects(s) /\ h \notin PrecNames(s)
  BY <1>0, <1>2, RulesHere DEF IsLhs
<1>4. \A start : h \notin ObjectsOf(s, start) /\ h \notin Giving(s, start)
  BY <1>3, PositionSets
<1>5. /\ Until(Starts(s), h + 1) = Until(Starts(s), h) \cup {h}
      /\ Cardinality(Until(Starts(s), h + 1)) = Cardinality(Until(Starts(s), h)) + 1
      /\ Max(Until(Starts(s), h + 1)) = h
  BY <1>0, <1>1, UntilHere
<1>6. Until(Lhss(s), h + 1) = Until(Lhss(s), h)
  BY <1>0, <1>1, <1>3, UntilHere
<1>7. Grows(t, u) /\ u.lhs = t.lhs /\ u.Goal_symbol = t.Goal_symbol
  BY DEF ProductionMade, Only, TableFields
<1>8. \A start \in Until(Starts(s), h) : ProductionRead(s, h + 1, u, start)
  <2>. SUFFICES ASSUME NEW start \in Until(Starts(s), h)
                PROVE  ProductionRead(s, h + 1, u, start)
    OBVIOUS
  <2>1. Number(s, start) \in DOMAIN t.productions
    BY <1>0, ReadSoFar
  <2>2. u.productions[Number(s, start)] = t.productions[Number(s, start)]
    BY <2>1 DEF ProductionMade
  <2>. QED
    BY <1>0, <1>4, <1>7, <2>2, ProductionStays
<1>9. Number(s, h) = t.Num_productions
  BY <1>0, AsUntil DEF RulesRead
<1>10. t.lhs \in DOMAIN t.symbols /\ t.Goal_symbol \in DOMAIN t.symbols
  BY DEF GoalKept, Sound, SymbolsHold, Values
<1>11. /\ t.symbols[t.lhs].name = TextAt(s, Max(Until(Lhss(s), h)))
       /\ t.symbols[t.Goal_symbol].name = TextAt(s, Min(Lhss(s)))
  BY DEF RulesRead
<1>12. /\ u.symbols[t.lhs].name = TextAt(s, Max(Until(Lhss(s), h)))
       /\ u.symbols[t.Goal_symbol].name = TextAt(s, Min(Lhss(s)))
  BY <1>7, <1>10, <1>11 DEF Grows
<1>13. ProductionRead(s, h + 1, u, h)
  <2>1. u.productions[Number(s, h)] = [lhs |-> t.lhs, rhs |-> <<>>, rhs_len |-> 0, prec |-> 0]
    BY <1>9 DEF ProductionMade
  <2>2. LhsOf(s, h) = TextAt(s, Max(Until(Lhss(s), h)))
    BY <1>0, AsUntil
  <2>3. Until(ObjectsOf(s, h), h + 1) = {} /\ Until(Giving(s, h), h + 1) = {}
    BY StartFirst
  <2>4. LevelBy(s, {}) = 0
    BY DEF LevelBy
  <2>5. Cardinality({}) = 0
    BY FS_EmptySet
  <2>. DEFINE prod == u.productions[Number(s, h)]
  <2>6. prod.lhs = t.lhs /\ Len(prod.rhs) = 0 /\ prod.rhs_len = 0 /\ prod.prec = 0
    BY <2>1
  <2>. HIDE DEF prod
  <2>7. /\ u.symbols[prod.lhs].name = LhsOf(s, h)
        /\ prod.rhs_len = Cardinality(Until(ObjectsOf(s, h), h + 1))
        /\ prod.rhs_len = Len(prod.rhs)
        /\ prod.prec = LevelBy(s, Until(Giving(s, h), h + 1))
    BY <1>12, <2>2, <2>3, <2>4, <2>5, <2>6
  <2>. QED
    BY <2>3, <2>7 DEF ProductionRead, prod
<1>14. /\ u.Num_productions = Cardinality(Until(Starts(s), h + 1))
       /\ u.Num_productions <= MAXPROD
  <2>1. t.Num_productions = Cardinality(Until(Starts(s), h)) /\ t.Num_productions \in Nat
    BY DEF RulesRead, Sound, Numbers
  <2>. QED
    BY <1>5, <2>1, Limits DEF ProductionMade
<1>15. RulesRead(s, h + 1, u)
  BY <1>5, <1>6, <1>7, <1>8, <1>12, <1>13, <1>14 DEF RulesRead
<1>16. AtRhs(s, h + 1, u)
  BY <1>5, <1>9 DEF AtRhs, ProductionMade
<1>. QED
  BY <1>15, <1>16

\* Behind the definitions, a terminal has its level and associativity.
LEMMA LevelKnown ==
  ASSUME NEW s, IsFile(s), NEW h \in 1 .. Len(s) + 1, \A i \in Defs(s) : i < h,
         NEW t, PrecsRead(s, h, t), NEW v \in 1 .. MAXTERM, v <= t.Cur_term
  PROVE  t.Precedence[v] = [level |-> LevelOf(s, t.symbols[v].name),
                            assoc |-> AssocOf(s, t.symbols[v].name)]
<1>. DEFINE x == t.symbols[v].name
            listed == {i \in Listed(s, PrecKeywords) : TextAt(s, i) = x}
            keys == {k \in Positions(s, PrecKeywords) : k < Max(listed)}
<1>1. Until(Listed(s, PrecKeywords), h) = Listed(s, PrecKeywords)
  BY PositionSets DEF Until
<1>2. t.Precedence[v] = PrecBefore(s, x, h)
  BY DEF PrecsRead
<1>3. PrecBefore(s, x, h) = IF listed = {} THEN [level |-> 0, assoc |-> "none"]
                            ELSE [level |-> Cardinality(keys), assoc |-> KindAt(s, Max(keys))]
  BY <1>1 DEF PrecBefore
<1>4. LevelOf(s, x) = IF listed = {} THEN 0 ELSE Cardinality(keys)
  BY DEF LevelOf
<1>5. AssocOf(s, x) = IF listed = {} THEN "none" ELSE KindAt(s, Max(keys))
  BY DEF AssocOf
<1>. HIDE DEF listed, keys
<1>. QED
  BY <1>2, <1>3, <1>4, <1>5

\* The symbol of a name.
LEMMA NameFound ==
  ASSUME NEW s, NEW h, NEW t, Sound(t), NamesRead(s, h, t), NEW x
  PROVE  /\ Found(t, x) # NULL <=> x \in Known(s, h)
         /\ Found(t, x) # NULL =>
              /\ Found(t, x) \in Named(t)
              /\ t.symbols[Found(t, x)].name = x
              /\ IsTerm(Found(t, x)) <=> IsTerminalName(s, x)
              /\ IsTerm(Found(t, x)) => Found(t, x) \in 1 .. MAXTERM /\ Found(t, x) <= t.Cur_term
              /\ ~IsTerm(Found(t, x)) => IsNonterm(Found(t, x))
         /\ IsTerm(Found(t, x)) => Found(t, x) # NULL
<1>1. Found(t, x) # NULL =>
        /\ Found(t, x) \in DOMAIN t.symbols
        /\ Found(t, x) \in 1 .. t.Cur_term \cup MINNONTERM .. t.Cur_nonterm
        /\ t.symbols[Found(t, x)].name = x
  BY FoundFacts
<1>2. /\ t.Cur_term \in 0 .. MAXTERM
      /\ t.Cur_nonterm \in MINNONTERM - 1 .. MAXNONTERM
  BY DEF Sound, Numbers
<1>3. Found(t, x) # NULL => Found(t, x) \in Named(t)
  BY <1>1, <1>2, Limits DEF Named, IsAct
<1>4. Found(t, x) # NULL => x \in Known(s, h)
  BY <1>1, <1>3 DEF NamesRead
<1>5. ASSUME x \in Known(s, h)
      PROVE  Found(t, x) # NULL
  <2>1. PICK v \in Named(t) : t.symbols[v].name = x
    BY <1>5 DEF NamesRead
  <2>. QED
    BY <2>1, FoundFacts DEF Named
<1>6. Found(t, x) # NULL => (IsTerm(Found(t, x)) <=> IsTerminalName(s, x))
  BY <1>1, <1>3 DEF NamesRead
<1>7. /\ Found(t, x) # NULL /\ IsTerm(Found(t, x)) =>
           Found(t, x) \in 1 .. MAXTERM /\ Found(t, x) <= t.Cur_term
      /\ Found(t, x) # NULL /\ ~IsTerm(Found(t, x)) => IsNonterm(Found(t, x))
  BY <1>1, <1>2, Limits DEF IsTerm, IsNonterm
<1>8. IsTerm(Found(t, x)) => Found(t, x) # NULL
  BY Limits DEF IsTerm
<1>. QED
  BY <1>1, <1>3, <1>4, <1>5, <1>6, <1>7, <1>8

\* What a symbol on a right-hand side is.
ObjectSymbol(s, h, t, known, v) ==
  /\ Grows(t, known)
  /\ v \in DOMAIN known.symbols
  /\ known.symbols[v].name = TextAt(s, h)
  /\ IsAct(v) <=> KindAt(s, h) = "ACTION"
  /\ IsAct(v) => known.symbols[v].field = ""
  /\ IsTerm(v) <=> KindAt(s, h) # "ACTION" /\ TextAt(s, h) \in Terminals(s)
  /\ IsTerm(v) => v = Found(t, TextAt(s, h)) /\ Found(t, TextAt(s, h)) # NULL
  /\ KindAt(s, h) # "ACTION" /\ Found(t, TextAt(s, h)) = NULL =>
       NewName(t, known, v, TextAt(s, h)) /\ ~IsTerm(v)
  /\ KindAt(s, h) = "ACTION" \/ Found(t, TextAt(s, h)) # NULL => Named(known) = Named(t)
  /\ Only(t, known, {"symbols", "Cur_act", "Cur_nonterm"})

LEMMA SymbolForFacts ==
  ASSUME NEW s, IsFile(s), NEW h \in Objects(s), NEW t, Sound(t),
         NamesRead(s, h, t), NEW known, NEW v,
         SymbolFor(t, known, v, TextAt(s, h), KindAt(s, h))
  PROVE  ObjectSymbol(s, h, t, known, v)
<1>0. h \in Rules(s) /\ KindAt(s, h) # "ACTION" => h \in Namings(s)
  BY PositionSets DEF Namings
<1>1. h \in Rules(s)
  BY PositionSets
<1>2. KindAt(s, h) # "ACTION" => (TextAt(s, h) \in Terminals(s) <=> IsTerminalName(s, TextAt(s, h)))
  BY <1>0, <1>1 DEF Terminals, Names
<1>3. CASE /\ KindAt(s, h) = "ACTION"
           /\ AddedAs(t, known, v, TextAt(s, h), "")
           /\ IsAct(v)
           /\ Only(t, known, {"symbols", "Cur_act"})
  <2>. DEFINE field == ""
  <2>1. AddedAs(t, known, v, TextAt(s, h), field)
    BY <1>3
  <2>. HIDE DEF field, ObjectSymbol
  <2>2. Grows(t, known) /\ Named(known) = Named(t)
    BY <1>3, <2>1, AddedGrows
  <2>3. ~IsTerm(v)
    <3>1. IsAct(v)
      BY <1>3
    <3>2. \A w \in 1 .. MAXTERM : ~IsAct(w)
      BY Limits DEF IsAct
    <3>. QED
      BY <3>1, <3>2 DEF IsTerm
  <2>4. /\ v \in DOMAIN known.symbols /\ known.symbols[v].name = TextAt(s, h)
        /\ known.symbols[v].field = field
    BY <2>1 DEF AddedAs
  <2>5. Only(t, known, {"symbols", "Cur_act", "Cur_nonterm"})
    BY <1>3 DEF Only
  <2>. QED
    BY <1>3, <2>2, <2>3, <2>4, <2>5 DEF field, ObjectSymbol
<1>4. CASE /\ KindAt(s, h) # "ACTION" /\ Found(t, TextAt(s, h)) # NULL
           /\ known = t /\ v = Found(t, TextAt(s, h))
  <2>1. Grows(t, t) /\ Only(t, t, {"symbols", "Cur_act", "Cur_nonterm"})
    BY DEF Grows, Only
  <2>2. /\ v \in Named(t) /\ t.symbols[v].name = TextAt(s, h)
        /\ IsTerm(v) <=> IsTerminalName(s, TextAt(s, h))
    BY <1>4, NameFound
  <2>. QED
    BY <1>2, <1>4, <2>1, <2>2 DEF Named, ObjectSymbol
<1>5. CASE /\ KindAt(s, h) # "ACTION"
           /\ NontermMade(t, known, TextAt(s, h), FALSE)
           /\ Only(t, known, {"symbols", "Cur_nonterm"})
           /\ v = t.Cur_nonterm + 1
  <2>. DEFINE x == TextAt(s, h)
  <2>1. /\ Found(t, x) = NULL /\ Grows(t, known) /\ NewName(t, known, v, x)
        /\ v \in MINNONTERM .. MAXNONTERM
    BY <1>5 DEF NontermMade
  <2>2. v \in Named(known) /\ ~IsAct(v) /\ known.symbols[v].name = x
    BY <2>1 DEF NewName
  <2>3. ~IsTerm(v)
    BY <2>1, Limits DEF IsTerm
  <2>4. x \notin Known(s, h)
    BY <2>1, NameFound
  <2>5. ~IsTerminalName(s, x)
    <3>1. h \notin Listed(s, TermKeywords)
      BY <1>1, RulesHere
    <3>. QED
      BY <1>0, <1>1, <1>5, <2>4, <3>1, FirstNamedHere
  <2>6. Only(t, known, {"symbols", "Cur_act", "Cur_nonterm"})
    BY <1>5 DEF Only
  <2>. QED
    BY <1>2, <1>5, <2>1, <2>2, <2>3, <2>5, <2>6 DEF Named, ObjectSymbol
<1>. QED
  BY <1>3, <1>4, <1>5 DEF SymbolFor

\* The other productions, when something is said of the one that is being read.
LEMMA OthersStay ==
  ASSUME NEW s, IsFile(s), NEW h \in 1 .. Len(s), NEW t, Sound(t), RulesRead(s, h, t),
         AtRhs(s, h, t), NEW u, Grows(t, u),
         \A p \in DOMAIN t.productions \ {t.rhs} : u.productions[p] = t.productions[p],
         NEW start \in Until(Starts(s), h), start # Max(Until(Starts(s), h))
  PROVE  ProductionRead(s, h + 1, u, start)
<1>. DEFINE now == Max(Until(Starts(s), h))
<1>1. Until(Starts(s), h) # {} /\ t.rhs = Number(s, now)
  BY DEF AtRhs
<1>2. now \in Starts(s) /\ h \notin ObjectsOf(s, start) /\ h \notin Giving(s, start)
  BY <1>1, ObjectHere
<1>3. start \in Starts(s) /\ Number(s, start) \in DOMAIN t.productions
  BY ReadSoFar
<1>4. Number(s, start) # t.rhs
  BY <1>1, <1>2, <1>3, NumberFacts
<1>. HIDE DEF now
<1>5. u.productions[Number(s, start)] = t.productions[Number(s, start)]
  BY <1>3, <1>4
<1>. QED
  BY <1>2, <1>5, ProductionStays

\* The rest of what the tables have read stays where a rule goes on.
LEMMA RuleGoesOn ==
  ASSUME NEW s, IsFile(s), NEW h \in 1 .. Len(s), NEW t, Sound(t), GoalKept(t),
         RulesRead(s, h, t), AtRhs(s, h, t), h \notin Starts(s), h \notin Lhss(s),
         NEW u, Grows(t, u),
         \A p \in DOMAIN t.productions \ {t.rhs} : u.productions[p] = t.productions[p],
         u.Num_productions = t.Num_productions, u.lhs = t.lhs, u.Goal_symbol = t.Goal_symbol,
         u.rhs = t.rhs,
         ProductionRead(s, h + 1, u, Max(Until(Starts(s), h)))
  PROVE  RulesRead(s, h + 1, u) /\ AtRhs(s, h + 1, u)
<1>1. Within(Starts(s), Len(s)) /\ Within(Lhss(s), Len(s)) /\ h \in 1 .. Len(s) + 1
  BY PositionsInFile
<1>2. Until(Starts(s), h + 1) = Until(Starts(s), h)
  BY <1>1, UntilHere
<1>3. Until(Lhss(s), h + 1) = Until(Lhss(s), h)
  BY <1>1, UntilHere
<1>4. \A start \in Until(Starts(s), h) : ProductionRead(s, h + 1, u, start)
  BY OthersStay
<1>5. t.lhs # NULL => t.lhs \in DOMAIN t.symbols /\ t.Goal_symbol \in DOMAIN t.symbols
  BY DEF GoalKept, Sound, SymbolsHold, Values
<1>6. t.lhs # NULL => /\ u.symbols[t.lhs].name = t.symbols[t.lhs].name
                      /\ u.symbols[t.Goal_symbol].name = t.symbols[t.Goal_symbol].name
  BY <1>5 DEF Grows
<1>7. RulesRead(s, h + 1, u)
  BY <1>2, <1>3, <1>4, <1>6 DEF RulesRead
<1>8. AtRhs(s, h + 1, u)
  BY <1>2 DEF AtRhs
<1>. QED
  BY <1>7, <1>8

\* The level a symbol or a %prec gives to the production.
LEMMA LevelByNext ==
  ASSUME NEW s, IsFile(s), NEW h \in 1 .. Len(s) + 1, NEW start
  PROVE  /\ h \notin Giving(s, start) =>
              LevelBy(s, Until(Giving(s, start), h + 1)) = LevelBy(s, Until(Giving(s, start), h))
         /\ h \in Giving(s, start) =>
              LevelBy(s, Until(Giving(s, start), h + 1)) =
                IF TextAt(s, h) \in DOMAIN Numerals THEN Numerals[TextAt(s, h)]
                ELSE LevelOf(s, TextAt(s, h))
<1>1. Within(Giving(s, start), Len(s))
  BY PositionsInFile
<1>2. /\ h \notin Giving(s, start) =>
           Until(Giving(s, start), h + 1) = Until(Giving(s, start), h)
      /\ h \in Giving(s, start) =>
           /\ Until(Giving(s, start), h + 1) = Until(Giving(s, start), h) \cup {h}
           /\ Max(Until(Giving(s, start), h + 1)) = h
  BY <1>1, UntilHere
<1>. QED
  BY <1>2 DEF LevelBy

\* A symbol of a right-hand side.
LEMMA RulesObject ==
  ASSUME NEW s, IsFile(s), NEW h \in Objects(s), NEW t, Sound(t), InRhs(t),
         NamesFit(s, h), NamesRead(s, h, t), PrecsRead(s, h, t), RulesRead(s, h, t),
         AtRhs(s, h, t),
         NEW known, NEW v, SymbolFor(t, known, v, TextAt(s, h), KindAt(s, h)),
         NEW u, LongerBy(t, known, u, v)
  PROVE  RulesRead(s, h + 1, u) /\ AtRhs(s, h + 1, u)
<1>. DEFINE now == Max(Until(Starts(s), h))
            prod == t.productions[t.rhs]
            new == u.productions[t.rhs]
            x == TextAt(s, h)
<1>0. /\ h \in Rules(s) /\ h \in 1 .. Len(s) /\ h \in 1 .. Len(s) + 1
      /\ \A i \in Defs(s) : i < h
  BY PositionSets, FileFacts
<1>1. /\ KindAt(s, h) \in {"NAME", "FIELD", "ACTION"} /\ ~IsLhs(s, h)
      /\ h \notin Starts(s) /\ h \notin Lhss(s) /\ h \notin PrecNames(s)
  BY <1>0, RulesHere
<1>2. Until(Starts(s), h) # {} /\ t.rhs = Number(s, now)
  BY DEF AtRhs
<1>3. /\ now \in Starts(s) /\ now < h /\ now \in Until(Starts(s), h)
      /\ h \in ObjectsOf(s, now)
      /\ h \in Giving(s, now) <=> KindAt(s, h) # "ACTION" /\ x \in Terminals(s)
  BY <1>0, <1>1, <1>2, ObjectHere DEF Until
<1>. HIDE DEF now, prod, new
<1>4. /\ Grows(t, known)
      /\ v \in DOMAIN known.symbols
      /\ known.symbols[v].name = x
      /\ IsAct(v) <=> KindAt(s, h) = "ACTION"
      /\ IsAct(v) => known.symbols[v].field = ""
      /\ IsTerm(v) <=> KindAt(s, h) # "ACTION" /\ x \in Terminals(s)
      /\ IsTerm(v) => v = Found(t, x) /\ Found(t, x) # NULL
      /\ Only(t, known, {"symbols", "Cur_act", "Cur_nonterm"})
  <2>1. ObjectSymbol(s, h, t, known, v)
    BY SymbolForFacts
  <2>. QED
    BY <2>1 DEF ObjectSymbol
<1>5. /\ Grows(known, u) /\ DOMAIN u.symbols = DOMAIN known.symbols
      /\ Only(known, u, {"symbols", "productions"})
      /\ \A p \in DOMAIN t.productions \ {t.rhs} : u.productions[p] = t.productions[p]
      /\ new.lhs = prod.lhs /\ new.rhs = Append(prod.rhs, v)
      /\ new.rhs_len = prod.rhs_len + 1 /\ new.prec = PrecAfter(t, v)
  BY DEF LongerBy, prod, new
<1>6. Grows(t, u) /\ u.symbols[v].name = x /\ (IsAct(v) => u.symbols[v].field = "")
  BY <1>4, <1>5 DEF Grows
<1>7. /\ u.Num_productions = t.Num_productions /\ u.lhs = t.lhs
      /\ u.Goal_symbol = t.Goal_symbol /\ u.rhs = t.rhs
  BY <1>4, <1>5 DEF Only, TableFields
<1>8. /\ t.rhs \in DOMAIN t.productions /\ IsProduction(t, prod)
      /\ prod.lhs \in DOMAIN t.symbols
      /\ \A i \in Until(ObjectsOf(s, now), h) :
           /\ Place(s, i) \in 1 .. Len(prod.rhs)
           /\ prod.rhs[Place(s, i)] \in DOMAIN t.symbols
  BY <1>0, <1>2, <1>3, ReadSoFar DEF prod
<1>9. /\ t.symbols[prod.lhs].name = LhsOf(s, now)
      /\ prod.rhs_len = Cardinality(Until(ObjectsOf(s, now), h))
      /\ prod.rhs_len = Len(prod.rhs)
      /\ prod.prec = LevelBy(s, Until(Giving(s, now), h))
      /\ \A i \in Until(ObjectsOf(s, now), h) :
           /\ t.symbols[prod.rhs[Place(s, i)]].name = TextAt(s, i)
           /\ IsAct(prod.rhs[Place(s, i)]) <=> KindAt(s, i) = "ACTION"
           /\ IsAct(prod.rhs[Place(s, i)]) => t.symbols[prod.rhs[Place(s, i)]].field = ""
  BY <1>2, <1>3 DEF RulesRead, ProductionRead, prod
<1>10. /\ Until(ObjectsOf(s, now), h + 1) = Until(ObjectsOf(s, now), h) \cup {h}
       /\ Cardinality(Until(ObjectsOf(s, now), h + 1))
            = Cardinality(Until(ObjectsOf(s, now), h)) + 1
  BY <1>0, <1>3, PositionsInFile, UntilHere
<1>11. Place(s, h) = Len(prod.rhs) + 1
  <2>1. Place(s, h) = Cardinality(Until(ObjectsOf(s, now), h)) + 1
    BY <1>3, PlaceFacts
  <2>. QED
    BY <1>9, <2>1
<1>12. prod.rhs \in Seq(Nat) /\ Len(prod.rhs) \in Nat
  BY <1>8 DEF IsProduction
<1>13. /\ Len(new.rhs) = Len(prod.rhs) + 1
       /\ new.rhs[Len(prod.rhs) + 1] = v
       /\ \A n \in 1 .. Len(prod.rhs) : new.rhs[n] = prod.rhs[n]
  <2>1. prod.rhs \in Seq(Nat \cup {v}) /\ v \in Nat \cup {v}
    BY <1>12
  <2>. QED
    BY <1>5, <2>1
<1>14. new.prec = LevelBy(s, Until(Giving(s, now), h + 1))
  <2>1. CASE IsTerm(v)
    <3>1. h \in Giving(s, now)
      BY <1>3, <1>4, <2>1
    <3>2. /\ Found(t, x) # NULL /\ IsTerm(Found(t, x))
          /\ v = Found(t, x)
      BY <1>4, <2>1
    <3>3. /\ x \in Known(s, h) /\ IsTerminalName(s, x)
          /\ v \in 1 .. MAXTERM /\ v <= t.Cur_term
          /\ t.symbols[v].name = x
      BY <3>2, NameFound
    <3>4. x \notin DOMAIN Numerals
      BY <1>0, <3>3, TerminalNames
    <3>5. t.Precedence[v] = [level |-> LevelOf(s, t.symbols[v].name),
                             assoc |-> AssocOf(s, t.symbols[v].name)]
      BY <1>0, <3>3, LevelKnown
    <3>6. PrecAfter(t, v) = LevelOf(s, x)
      BY <2>1, <3>3, <3>5 DEF PrecAfter
    <3>. QED
      BY <1>0, <1>5, <3>1, <3>4, <3>6, LevelByNext
  <2>2. CASE ~IsTerm(v)
    <3>1. h \notin Giving(s, now)
      BY <1>3, <1>4, <2>2
    <3>2. PrecAfter(t, v) = prod.prec
      BY <2>2 DEF PrecAfter, prod
    <3>. QED
      BY <1>0, <1>5, <1>9, <3>1, <3>2, LevelByNext
  <2>. QED
    BY <2>1, <2>2
<1>15. ASSUME NEW i \in Until(ObjectsOf(s, now), h + 1)
       PROVE  /\ u.symbols[new.rhs[Place(s, i)]].name = TextAt(s, i)
              /\ IsAct(new.rhs[Place(s, i)]) <=> KindAt(s, i) = "ACTION"
              /\ IsAct(new.rhs[Place(s, i)]) => u.symbols[new.rhs[Place(s, i)]].field = ""
  <2>1. CASE i = h
    <3>1. new.rhs[Place(s, i)] = v
      BY <1>11, <1>13, <2>1
    <3>. QED
      BY <1>4, <1>6, <2>1, <3>1
  <2>2. CASE i # h
    <3>1. i \in Until(ObjectsOf(s, now), h)
      BY <1>10, <2>2
    <3>2. new.rhs[Place(s, i)] = prod.rhs[Place(s, i)] /\ prod.rhs[Place(s, i)] \in DOMAIN t.symbols
      BY <1>8, <1>13, <3>1
    <3>. QED
      BY <1>6, <1>9, <3>1, <3>2 DEF Grows
  <2>. QED
    BY <2>1, <2>2
<1>16. ProductionRead(s, h + 1, u, now)
  <2>1. u.symbols[new.lhs].name = LhsOf(s, now)
    BY <1>5, <1>6, <1>8, <1>9 DEF Grows
  <2>2. /\ new.rhs_len = Cardinality(Until(ObjectsOf(s, now), h + 1))
        /\ new.rhs_len = Len(new.rhs)
    BY <1>5, <1>9, <1>10, <1>13
  <2>3. new = u.productions[Number(s, now)]
    BY <1>2 DEF new
  <2>. QED
    BY <1>14, <1>15, <2>1, <2>2, <2>3 DEF ProductionRead
<1>17. GoalKept(t)
  BY DEF InRhs
<1>. QED
  BY <1>0, <1>1, <1>5, <1>6, <1>7, <1>16, <1>17, RuleGoesOn DEF now

\* The name behind %prec.
LEMMA RulesPrec ==
  ASSUME NEW s, IsFile(s), NEW h \in PrecNames(s), NEW t, Sound(t), InRhs(t),
         NamesRead(s, h, t), PrecsRead(s, h, t), RulesRead(s, h, t),
         AtRhs(s, h, t), NEW level, NEW u, PrecGiven(t, u, level),
         \/ TextAt(s, h) \in DOMAIN Numerals /\ level = Numerals[TextAt(s, h)]
         \/ /\ TextAt(s, h) \notin DOMAIN Numerals /\ IsTerm(Found(t, TextAt(s, h)))
            /\ level = t.Precedence[Found(t, TextAt(s, h))].level
  PROVE  RulesRead(s, h + 1, u) /\ AtRhs(s, h + 1, u)
<1>. DEFINE now == Max(Until(Starts(s), h))
            prod == t.productions[t.rhs]
            new == u.productions[t.rhs]
            x == TextAt(s, h)
<1>0. /\ h \in Rules(s) /\ h \in 1 .. Len(s) /\ h \in 1 .. Len(s) + 1
      /\ \A i \in Defs(s) : i < h
  BY PositionSets, FileFacts
<1>1. /\ KindAt(s, h) = "NAME" /\ KindAt(s, h - 1) = "PREC"
      /\ h \notin Starts(s) /\ h \notin Lhss(s) /\ h \notin Objects(s)
  BY <1>0, RulesHere DEF IsLhs
<1>2. Until(Starts(s), h) # {} /\ t.rhs = Number(s, now)
  BY DEF AtRhs
<1>3. /\ now \in Starts(s) /\ now < h /\ now \in Until(Starts(s), h)
      /\ h \in Giving(s, now)
  BY <1>0, <1>1, <1>2, ObjectHere DEF Until
<1>. HIDE DEF now
<1>5. /\ Only(t, u, {"productions"})
      /\ \A p \in DOMAIN t.productions \ {t.rhs} : u.productions[p] = t.productions[p]
      /\ new.lhs = prod.lhs /\ new.rhs = prod.rhs /\ new.rhs_len = prod.rhs_len
      /\ new.prec = level
  BY DEF PrecGiven
<1>6. u.symbols = t.symbols /\ Grows(t, u)
  BY <1>5 DEF Only, TableFields, Grows
<1>7. /\ u.Num_productions = t.Num_productions /\ u.lhs = t.lhs
      /\ u.Goal_symbol = t.Goal_symbol /\ u.rhs = t.rhs
  BY <1>5 DEF Only, TableFields
<1>8. /\ t.symbols[prod.lhs].name = LhsOf(s, now)
      /\ prod.rhs_len = Cardinality(Until(ObjectsOf(s, now), h))
      /\ prod.rhs_len = Len(prod.rhs)
      /\ \A i \in Until(ObjectsOf(s, now), h) :
           /\ t.symbols[prod.rhs[Place(s, i)]].name = TextAt(s, i)
           /\ IsAct(prod.rhs[Place(s, i)]) <=> KindAt(s, i) = "ACTION"
           /\ IsAct(prod.rhs[Place(s, i)]) => t.symbols[prod.rhs[Place(s, i)]].field = ""
  BY <1>2, <1>3 DEF RulesRead, ProductionRead
<1>9. Until(ObjectsOf(s, now), h + 1) = Until(ObjectsOf(s, now), h)
  <2>1. h \notin ObjectsOf(s, now) /\ Within(ObjectsOf(s, now), Len(s))
    BY <1>1, PositionSets, PositionsInFile
  <2>. QED
    BY <1>0, <2>1, UntilHere
<1>. HIDE DEF prod, new
<1>10. level = IF x \in DOMAIN Numerals THEN Numerals[x] ELSE LevelOf(s, x)
  <2>1. CASE x \in DOMAIN Numerals /\ level = Numerals[x]
    BY <2>1
  <2>2. CASE /\ x \notin DOMAIN Numerals /\ IsTerm(Found(t, x))
             /\ level = t.Precedence[Found(t, x)].level
    <3>. DEFINE v == Found(t, x)
    <3>1. v \in 1 .. MAXTERM /\ v <= t.Cur_term /\ t.symbols[v].name = x
      BY <2>2, NameFound
    <3>. HIDE DEF v
    <3>2. t.Precedence[v] = [level |-> LevelOf(s, t.symbols[v].name),
                             assoc |-> AssocOf(s, t.symbols[v].name)]
      BY <1>0, <3>1, LevelKnown
    <3>. QED
      BY <2>2, <3>1, <3>2 DEF v
  <2>. QED
    BY <2>1, <2>2
<1>11. new.prec = LevelBy(s, Until(Giving(s, now), h + 1))
  BY <1>0, <1>3, <1>5, <1>10, LevelByNext
<1>12. ProductionRead(s, h + 1, u, now)
  <2>1. new = u.productions[Number(s, now)]
    BY <1>2 DEF new
  <2>. QED
    BY <1>5, <1>6, <1>8, <1>9, <1>11, <2>1 DEF ProductionRead
<1>13. GoalKept(t)
  BY DEF InRhs
<1>. QED
  BY <1>0, <1>1, <1>5, <1>6, <1>7, <1>12, <1>13, RuleGoesOn DEF now

----------------------------------------------------------------------------
(***************************************************************************)
(* The tables have room for the names of a correct file.                   *)
(***************************************************************************)
\* Counting names by their symbols.
LEMMA OneToOne ==
  ASSUME NEW S, IsFiniteSet(S), NEW T, NEW f, DOMAIN f = S, T = {f[x] : x \in S},
         f = [x \in S |-> f[x]],
         \A x, y \in S : f[x] = f[y] => x = y
  PROVE  IsFiniteSet(T) /\ Cardinality(T) = Cardinality(S)
<1>1. f \in [S -> T]
  OBVIOUS
<1>2. f \in Surjection(S, T)
  BY <1>1 DEF Surjection
<1>3. f \in Injection(S, T)
  BY <1>1 DEF Injection, IsInjective
<1>. QED
  BY <1>2, <1>3, FS_Surjection

\* The names of the file are finitely many.
LEMMA NamesFinite ==
  ASSUME NEW s, IsFile(s)
  PROVE  /\ IsFiniteSet(Names(s)) /\ IsFiniteSet(Terminals(s)) /\ IsFiniteSet(Nonterminals(s))
         /\ Cardinality(Terminals(s)) \in Nat /\ Cardinality(Nonterminals(s)) \in Nat
         /\ \A h \in 1 .. Len(s) + 1 : Known(s, h) \subseteq Names(s)
         /\ (\A i \in Namings(s) : TextAt(s, i) \in Names(s))
<1>1. Within(Namings(s), Len(s)) /\ Len(s) \in Nat
  BY PositionsInFile
<1>2. IsFiniteSet(Namings(s))
  <2>1. \A i \in Namings(s) : i < Len(s) + 1
    BY <1>1 DEF Within
  <2>2. PICK n \in Nat : n = Len(s)
    BY <1>1
  <2>3. Within(Namings(s), n) /\ n + 1 \in Nat /\ \A i \in Namings(s) : i < n + 1
    BY <1>1, <2>1, <2>2
  <2>. QED
    BY <2>3, UntilAll
<1>. DEFINE f == [i \in Namings(s) |-> TextAt(s, i)]
<1>3. f \in Surjection(Namings(s), Names(s))
  BY DEF Surjection, Names
<1>4. IsFiniteSet(Names(s))
  BY <1>2, <1>3, FS_Surjection
<1>5. IsFiniteSet(Terminals(s)) /\ IsFiniteSet(Nonterminals(s))
  BY <1>4, FS_Subset DEF Terminals, Nonterminals
<1>. QED
  BY <1>4, <1>5, FS_CardinalityType DEF Known, Names, Until

LEMMA NamesCounted ==
  ASSUME NEW s, IsFile(s), NEW h \in 1 .. Len(s) + 1, NEW t, Sound(t), NamesRead(s, h, t)
  PROVE  /\ t.Cur_term = Cardinality(Terminals(s) \cap Known(s, h))
         /\ t.Cur_nonterm = MINNONTERM - 1 + Cardinality(Nonterminals(s) \cap Known(s, h))
<1>0. /\ DOMAIN t.symbols = Values(t) /\ t.Cur_term \in 0 .. MAXTERM
      /\ t.Cur_nonterm \in MINNONTERM - 1 .. MAXNONTERM
      /\ MAXTERM \in Nat /\ MAXNONTERM \in Nat
  BY Limits DEF Sound, Numbers, SymbolsHold
<1>. DEFINE name == [v \in Named(t) |-> t.symbols[v].name]
            terms == 1 .. t.Cur_term
            nonterms == MINNONTERM .. t.Cur_nonterm
<1>1. Named(t) = terms \cup nonterms
  <2>1. \A v : v \in Named(t) <=> v \in Values(t) /\ ~IsAct(v)
    BY <1>0 DEF Named
  <2>2. PICK a \in Nat, b \in Int : a = t.Cur_term /\ a <= 254 /\ b = t.Cur_nonterm /\ b <= 511
    BY <1>0, Limits
  <2>3. Values(t) = 1 .. a \cup 256 .. b \cup {v \in 512 .. t.Cur_act : v \in DOMAIN t.symbols}
    BY <2>2, Limits DEF Values
  <2>4. \A v : v \in 512 .. t.Cur_act => v >= 512
    OBVIOUS
  <2>5. \A v \in 1 .. a \cup 256 .. b : ~(v >= 512)
    BY <2>2
  <2>6. ASSUME NEW v
        PROVE  v \in Values(t) /\ ~IsAct(v) <=> v \in 1 .. a \cup 256 .. b
    BY <2>3, <2>4, <2>5, Limits DEF IsAct
  <2>7. terms \cup nonterms = 1 .. a \cup 256 .. b
    BY <2>2, Limits
  <2>. QED
    BY <2>1, <2>6, <2>7
<1>2. /\ \A v \in terms : IsTerm(v)
      /\ \A v \in nonterms : ~IsTerm(v)
  BY <1>0, Limits DEF IsTerm
<1>3. /\ {name[v] : v \in Named(t)} = Known(s, h)
      /\ \A v, w \in Named(t) : name[v] = name[w] => v = w
      /\ \A v \in Named(t) : IsTerm(v) <=> IsTerminalName(s, name[v])
  BY DEF NamesRead
<1>4. \A x \in Known(s, h) : /\ x \in Terminals(s) <=> IsTerminalName(s, x)
                             /\ x \in Nonterminals(s) <=> ~IsTerminalName(s, x)
  BY NamesFinite DEF Terminals, Nonterminals
<1>. HIDE DEF name, terms, nonterms
<1>5. ASSUME NEW S \in SUBSET Named(t), IsFiniteSet(S)
      PROVE  Cardinality({name[v] : v \in S}) = Cardinality(S)
  <2>. DEFINE f == [v \in S |-> name[v]]
              T == {f[v] : v \in S}
  <2>1. /\ DOMAIN f = S /\ f = [x \in S |-> f[x]]
        /\ \A x, y \in S : f[x] = f[y] => x = y
    BY <1>3
  <2>2. {name[v] : v \in S} = T
    OBVIOUS
  <2>3. T = {f[v] : v \in S}
    OBVIOUS
  <2>. HIDE DEF f, T
  <2>. QED
    BY <1>5, <2>1, <2>2, <2>3, OneToOne
<1>6. /\ {name[v] : v \in terms} = Terminals(s) \cap Known(s, h)
      /\ {name[v] : v \in nonterms} = Nonterminals(s) \cap Known(s, h)
  <2>1. \A x : x \in {name[v] : v \in terms} <=> x \in Terminals(s) \cap Known(s, h)
    BY <1>1, <1>2, <1>3, <1>4
  <2>2. \A x : x \in {name[v] : v \in nonterms} <=> x \in Nonterminals(s) \cap Known(s, h)
    BY <1>1, <1>2, <1>3, <1>4
  <2>. QED
    BY <2>1, <2>2
<1>7. /\ IsFiniteSet(terms) /\ Cardinality(terms) = t.Cur_term
      /\ IsFiniteSet(nonterms) /\ Cardinality(nonterms) = t.Cur_nonterm - MINNONTERM + 1
  <2>1. /\ IsFiniteSet(terms)
        /\ Cardinality(terms) = IF 1 > t.Cur_term THEN 0 ELSE t.Cur_term - 1 + 1
    <3>1. 1 \in Int /\ t.Cur_term \in Int
      BY <1>0
    <3>. QED
      BY <3>1, FS_Interval DEF terms
  <2>2. t.Cur_nonterm \in Int /\ MINNONTERM \in Int
    BY <1>0, Limits
  <2>3. /\ IsFiniteSet(nonterms)
        /\ Cardinality(nonterms) = IF MINNONTERM > t.Cur_nonterm THEN 0
                                   ELSE t.Cur_nonterm - MINNONTERM + 1
    BY <2>2, FS_Interval DEF nonterms
  <2>. QED
    BY <1>0, <2>1, <2>3, Limits
<1>8. /\ Cardinality({name[v] : v \in terms}) = t.Cur_term
      /\ Cardinality({name[v] : v \in nonterms}) = t.Cur_nonterm - MINNONTERM + 1
  BY <1>1, <1>5, <1>7
<1>. QED
  <2>. DEFINE c == Cardinality(Nonterminals(s) \cap Known(s, h))
  <2>0. c = t.Cur_nonterm - MINNONTERM + 1
    BY <1>6, <1>8
  <2>1. c = t.Cur_nonterm - MINNONTERM + 1 /\ t.Cur_nonterm \in Int /\ MINNONTERM = 256
    BY <1>0, <2>0, Limits
  <2>. HIDE DEF c
  <2>2. t.Cur_nonterm = MINNONTERM - 1 + c
    BY <2>1
  <2>. QED
    BY <1>6, <1>8, <2>2 DEF c

\* A name more than the table has room for.
LEMMA TableFull ==
  ASSUME NEW s, IsFile(s), NEW h \in 1 .. Len(s) + 1, NEW t, Sound(t), NamesRead(s, h, t),
         NEW i \in Namings(s), TextAt(s, i) \notin Known(s, h)
  PROVE  /\ IsTerminalName(s, TextAt(s, i)) /\ t.Cur_term = MAXTERM => ~AcceptedFile(s)
         /\ ~IsTerminalName(s, TextAt(s, i)) /\ t.Cur_nonterm = MAXNONTERM => ~AcceptedFile(s)
<1>. DEFINE x == TextAt(s, i)
            terms == Terminals(s) \cap Known(s, h)
            nonterms == Nonterminals(s) \cap Known(s, h)
<1>1. /\ IsFiniteSet(Terminals(s)) /\ IsFiniteSet(Nonterminals(s)) /\ x \in Names(s)
      /\ Cardinality(Terminals(s)) \in Nat /\ Cardinality(Nonterminals(s)) \in Nat
  BY NamesFinite
<1>2. /\ IsTerminalName(s, x) => x \in Terminals(s)
      /\ ~IsTerminalName(s, x) => x \in Nonterminals(s)
  BY <1>1 DEF Terminals, Nonterminals
<1>3. t.Cur_term = Cardinality(terms) /\ t.Cur_nonterm = MINNONTERM - 1 + Cardinality(nonterms)
  BY NamesCounted
<1>4. IsFiniteSet(terms) /\ IsFiniteSet(nonterms)
  BY <1>1, FS_Subset
<1>5. /\ Cardinality(terms \cup {x}) = Cardinality(terms) + 1
      /\ Cardinality(nonterms \cup {x}) = Cardinality(nonterms) + 1
      /\ Cardinality(terms) \in Nat /\ Cardinality(nonterms) \in Nat
  BY <1>4, FS_AddElement, FS_CardinalityType
<1>6. /\ IsTerminalName(s, x) => Cardinality(terms \cup {x}) <= Cardinality(Terminals(s))
      /\ ~IsTerminalName(s, x) => Cardinality(nonterms \cup {x}) <= Cardinality(Nonterminals(s))
  <2>1. /\ IsTerminalName(s, x) => terms \cup {x} \in SUBSET Terminals(s)
        /\ ~IsTerminalName(s, x) => nonterms \cup {x} \in SUBSET Nonterminals(s)
    BY <1>2
  <2>. QED
    BY <1>1, <2>1, FS_Subset
<1>. HIDE DEF terms, nonterms
<1>7. AcceptedFile(s) => /\ Cardinality(Terminals(s)) <= MAXTERM
                        /\ Cardinality(Nonterminals(s)) <= MAXNONTERM - MINNONTERM + 1
  BY DEF AcceptedFile, CorrectNames
<1>. QED
  BY <1>1, <1>3, <1>5, <1>6, <1>7, Limits
============================================================================
