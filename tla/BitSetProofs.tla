---------------------------- MODULE BitSetProofs ----------------------------
(***************************************************************************)
(* Proofs about BitSet, for words of any size, any default size and any    *)
(* elements.  First what the operations of lib/set.c do to the elements of *)
(* one set, then that the sets behind all handles do as PlainSets has it,  *)
(* then the loops over next_member().                                      *)
(***************************************************************************)
EXTENDS BitSet, WellFoundedInduction, TLAPS

----------------------------------------------------------------------------
(***************************************************************************)
(* Elements and their bits.                                                *)
(***************************************************************************)

\* A number is in the word of its quotient, at the bit of its remainder.
LEMMA Cell ==
  ASSUME NEW x \in Nat
  PROVE  /\ DIV_INDEX(x) \in Nat
         /\ MOD_VAL(x) \in 0 .. BITS_IN_INT - 1
         /\ x = DIV_INDEX(x) * BITS_IN_INT + MOD_VAL(x)
<1>1. BITS_IN_INT \in Nat \ {0}
  BY BitSetAssumption
<1>2. /\ x = BITS_IN_INT * (x \div BITS_IN_INT) + (x % BITS_IN_INT)
      /\ x % BITS_IN_INT \in 0 .. BITS_IN_INT - 1
      /\ x \div BITS_IN_INT \in Nat
  BY <1>1
<1>3. BITS_IN_INT * (x \div BITS_IN_INT) = (x \div BITS_IN_INT) * BITS_IN_INT
  BY <1>1, <1>2
<1>. QED
  BY <1>2, <1>3 DEF DIV_INDEX, MOD_VAL

LEMMA SameCell ==
  ASSUME NEW x \in Nat, NEW y \in Nat, DIV_INDEX(x) = DIV_INDEX(y), MOD_VAL(x) = MOD_VAL(y)
  PROVE  x = y
BY Cell

\* The places are in order.
LEMMA Order ==
  ASSUME NEW i \in Nat, NEW j \in Nat, i < j
  PROVE  i * BITS_IN_INT + BITS_IN_INT <= j * BITS_IN_INT
<1>. DEFINE B == BITS_IN_INT
<1>1. B \in Nat \ {0}
  BY BitSetAssumption
<1>. HIDE DEF B
<1>2. PICK k \in Nat : j = i + 1 + k
  <2>1. j - i - 1 \in Nat /\ j = i + 1 + (j - i - 1)
    OBVIOUS
  <2>. QED
    BY <2>1
<1>3. (i + 1 + k) * B = i * B + B + k * B
  BY <1>1, <1>2
<1>4. k * B \in Nat /\ i * B \in Nat
  BY <1>1, <1>2
<1>5. i * B + B <= j * B
  BY <1>1, <1>2, <1>3, <1>4
<1>. QED
  BY <1>5 DEF B

\* Every bit of every word stands for a number.
LEMMA Place ==
  ASSUME NEW i \in Nat, NEW b \in 0 .. BITS_IN_INT - 1
  PROVE  /\ i * BITS_IN_INT + b \in Nat
         /\ DIV_INDEX(i * BITS_IN_INT + b) = i
         /\ MOD_VAL(i * BITS_IN_INT + b) = b
<1>. DEFINE x == i * BITS_IN_INT + b
            q == DIV_INDEX(x)
            r == MOD_VAL(x)
            low(j) == j * BITS_IN_INT
<1>1. BITS_IN_INT \in Nat \ {0}
  BY BitSetAssumption
<1>2. \A j \in Nat : low(j) \in Nat
  BY <1>1
<1>3. x \in Nat
  BY <1>1, <1>2
<1>4. q \in Nat /\ r \in 0 .. BITS_IN_INT - 1 /\ x = low(q) + r
  BY <1>3, Cell
<1>5. q < i => low(q) + BITS_IN_INT <= low(i)
  BY <1>4, Order
<1>6. i < q => low(i) + BITS_IN_INT <= low(q)
  BY <1>4, Order
<1>7. x = low(i) + b
  OBVIOUS
<1>. HIDE DEF x, q, r, low
<1>8. ~(q < i) /\ ~(i < q)
  BY <1>1, <1>2, <1>4, <1>5, <1>6, <1>7
<1>9. q = i
  BY <1>4, <1>8
<1>10. r = b
  BY <1>1, <1>2, <1>4, <1>7, <1>9
<1>. QED
  BY <1>3, <1>9, <1>10 DEF x, q, r

\* nbits is compared with a number as nsize is with its word.
LEMMA Below ==
  ASSUME NEW x \in Nat, NEW n \in Nat
  PROVE  x < n * BITS_IN_INT <=> DIV_INDEX(x) < n
<1>. DEFINE q == DIV_INDEX(x)
            r == MOD_VAL(x)
            low(j) == j * BITS_IN_INT
<1>1. BITS_IN_INT \in Nat \ {0}
  BY BitSetAssumption
<1>2. q \in Nat /\ r \in 0 .. BITS_IN_INT - 1 /\ x = low(q) + r
  BY Cell
<1>3. q < n => low(q) + BITS_IN_INT <= low(n)
  BY <1>2, Order
<1>4. n < q => low(n) + BITS_IN_INT <= low(q)
  BY <1>2, Order
<1>5. low(n) \in Nat /\ low(q) \in Nat
  BY <1>1, <1>2
<1>. HIDE DEF q, r
<1>6. n = q => low(n) = low(q)
  OBVIOUS
<1>. HIDE DEF low
<1>7. x < low(n) <=> q < n
  BY <1>1, <1>2, <1>3, <1>4, <1>5, <1>6
<1>. QED
  BY <1>7 DEF q, low

----------------------------------------------------------------------------
(***************************************************************************)
(* Maps of words.                                                          *)
(***************************************************************************)
IsBitmap(s) == \E n \in Nat : \E m \in [0 .. n - 1 -> Words] : s = [nsize |-> n, map |-> m]

LEMMA Parts ==
  ASSUME NEW s, IsBitmap(s)
  PROVE  /\ s.nsize \in Nat
         /\ s.map \in [0 .. s.nsize - 1 -> Words]
         /\ s = [nsize |-> s.nsize, map |-> s.map]
BY DEF IsBitmap

\* The elements by word and bit.
LEMMA Elementwise ==
  ASSUME NEW s, IsBitmap(s)
  PROVE  /\ Members(s) \subseteq Nat
         /\ \A x \in Nat : /\ x \in Members(s)
                              <=> DIV_INDEX(x) < s.nsize /\ MOD_VAL(x) \in s.map[DIV_INDEX(x)]
                           /\ DIV_INDEX(x) < s.nsize => DIV_INDEX(x) \in 0 .. s.nsize - 1
<1>1. s.nsize \in Nat
  BY Parts
<1>2. s.nsize * BITS_IN_INT \in Nat
  BY <1>1, BitSetAssumption
<1>3. \A x \in Nat : x < nbits(s) <=> DIV_INDEX(x) < s.nsize
  BY <1>1, Below DEF nbits
<1>4. \A x \in Nat : x < nbits(s) => x \in 0 .. nbits(s) - 1
  BY <1>2 DEF nbits
<1>5. \A x \in Nat : DIV_INDEX(x) < s.nsize => DIV_INDEX(x) \in 0 .. s.nsize - 1
  BY <1>1, Cell
<1>6. Members(s) \subseteq Nat
  BY DEF Members
<1>7. \A x : x \in Members(s) <=> x \in 0 .. nbits(s) - 1 /\ MEMBER(s, x)
  BY DEF Members
<1>8. \A x : MEMBER(s, x) <=> x < nbits(s) /\ MOD_VAL(x) \in s.map[DIV_INDEX(x)]
  BY DEF MEMBER
<1>. QED
  BY <1>3, <1>4, <1>5, <1>6, <1>7, <1>8, Zenon

LEMMA Made ==
  ASSUME NEW n \in Nat, NEW m \in [0 .. n - 1 -> Words]
  PROVE  /\ IsBitmap([nsize |-> n, map |-> m])
         /\ [nsize |-> n, map |-> m].nsize = n
         /\ [nsize |-> n, map |-> m].map = m
BY DEF IsBitmap

\* The map of a set is replaced.
LEMMA Replaced ==
  ASSUME NEW s, IsBitmap(s), NEW m \in [0 .. s.nsize - 1 -> Words]
  PROVE  /\ IsBitmap([s EXCEPT !.map = m])
         /\ [s EXCEPT !.map = m].nsize = s.nsize
         /\ [s EXCEPT !.map = m].map = m
<1>1. [s EXCEPT !.map = m] = [nsize |-> s.nsize, map |-> m]
  BY Parts
<1>. QED
  BY <1>1, Parts, Made

LEMMA WordTypes ==
  /\ {} \in Words /\ 0 .. BITS_IN_INT - 1 \in Words
  /\ \A d, s \in Words : /\ d \cup s \in Words /\ d \cap s \in Words
                         /\ d \ s \in Words
                         /\ (0 .. BITS_IN_INT - 1) \ d \in Words
BY DEF Words

----------------------------------------------------------------------------
(***************************************************************************)
(* The operations on one set, or on two.                                   *)
(***************************************************************************)
LEMMA EmptySets ==
  /\ IsBitmap(Null) /\ Members(Null) = {}
  /\ IsBitmap(newset) /\ Members(newset) = {} /\ newset.nsize = DEFSIZE /\ newset # Null
<1>1. DEFSIZE \in Nat \ {0}
  BY BitSetAssumption
<1>2. \A n \in Nat : ZeroMap(n) \in [0 .. n - 1 -> Words] /\ \A i \in 0 .. n - 1 : ZeroMap(n)[i] = {}
  BY WordTypes DEF ZeroMap
<1>3. IsBitmap(Null) /\ Null.nsize = 0
  BY <1>2, Made DEF Null
<1>4. IsBitmap(newset) /\ newset.nsize = DEFSIZE /\ newset.map = ZeroMap(DEFSIZE)
  BY <1>1, <1>2, Made DEF newset
<1>5. Members(Null) = {}
  <2>1. \A x \in Nat : ~(DIV_INDEX(x) < 0)
    BY Cell
  <2>. QED
    BY <1>3, <2>1, Elementwise
<1>6. Members(newset) = {}
  <2>1. \A x \in Nat : DIV_INDEX(x) \in 0 .. DEFSIZE - 1 => newset.map[DIV_INDEX(x)] = {}
    BY <1>1, <1>2, <1>4
  <2>. QED
    BY <1>4, <2>1, Elementwise
<1>7. newset # Null
  BY <1>1, <1>3, <1>4
<1>. QED
  BY <1>3, <1>4, <1>5, <1>6, <1>7

\* A longer map holds the same elements.
LEMMA Enlarged ==
  ASSUME NEW s, IsBitmap(s), NEW need \in Nat
  PROVE  /\ IsBitmap(enlarge(need, s))
         /\ enlarge(need, s).nsize = IF need <= s.nsize THEN s.nsize ELSE need
         /\ \A i \in 0 .. enlarge(need, s).nsize - 1 :
              enlarge(need, s).map[i] = IF i < s.nsize THEN s.map[i] ELSE {}
         /\ Members(enlarge(need, s)) = Members(s)
<1>1. s.nsize \in Nat /\ s.map \in [0 .. s.nsize - 1 -> Words]
  BY Parts
<1>2. CASE need <= s.nsize
  <2>1. enlarge(need, s) = s
    BY <1>2 DEF enlarge
  <2>2. \A i \in 0 .. s.nsize - 1 : i < s.nsize
    BY <1>1
  <2>. QED
    BY <1>2, <2>1, <2>2
<1>3. CASE ~(need <= s.nsize)
  <2>. DEFINE m == [i \in 0 .. need - 1 |-> IF i < s.nsize THEN s.map[i] ELSE {}]
              e == enlarge(need, s)
  <2>1. e = [nsize |-> need, map |-> m]
    BY <1>3 DEF enlarge
  <2>2. m \in [0 .. need - 1 -> Words]
    <3>1. \A i \in 0 .. need - 1 : i < s.nsize => s.map[i] \in Words
      BY <1>1
    <3>. QED
      BY <3>1, WordTypes
  <2>3. \A i \in 0 .. need - 1 : m[i] = IF i < s.nsize THEN s.map[i] ELSE {}
    OBVIOUS
  <2>. HIDE DEF m
  <2>4. IsBitmap(e) /\ e.nsize = need /\ e.map = m
    BY <2>1, <2>2, Made
  <2>. HIDE DEF e
  <2>5. ASSUME NEW x \in Nat
        PROVE  x \in Members(e) <=> x \in Members(s)
    <3>1. DIV_INDEX(x) \in Nat
      BY Cell
    <3>2. x \in Members(e) <=> DIV_INDEX(x) < need /\ MOD_VAL(x) \in m[DIV_INDEX(x)]
      BY <2>4, Elementwise
    <3>3. x \in Members(s) <=> DIV_INDEX(x) < s.nsize /\ MOD_VAL(x) \in s.map[DIV_INDEX(x)]
      BY Elementwise
    <3>4. DIV_INDEX(x) < need => DIV_INDEX(x) \in 0 .. need - 1
      BY <3>1
    <3>5. DIV_INDEX(x) < s.nsize => DIV_INDEX(x) < need
      BY <1>1, <1>3, <3>1
    <3>. QED
      BY <2>3, <3>2, <3>3, <3>4, <3>5
  <2>6. Members(e) = Members(s)
    BY <2>4, <2>5, Elementwise
  <2>. QED
    BY <1>3, <2>3, <2>4, <2>6 DEF e
<1>. QED
  BY <1>2, <1>3

\* Room for a number that has no bit yet.
LEMMA Rounded ==
  ASSUME NEW x \in Nat
  PROVE  ROUND(x) \in Nat /\ DIV_INDEX(x) < ROUND(x)
<1>. DEFINE a == DIV_INDEX(x) + DEFSIZE
            q == a \div DEFSIZE
<1>1. DEFSIZE \in Nat \ {0} /\ DIV_INDEX(x) \in Nat
  BY Cell, BitSetAssumption
<1>2. /\ a = DEFSIZE * q + (a % DEFSIZE)
      /\ a % DEFSIZE \in 0 .. DEFSIZE - 1
      /\ q \in Nat
  BY <1>1
<1>3. DEFSIZE * q = q * DEFSIZE /\ q * DEFSIZE \in Nat
  BY <1>1, <1>2
<1>4. ROUND(x) = q * DEFSIZE
  BY DEF ROUND
<1>. HIDE DEF q
<1>. QED
  BY <1>1, <1>2, <1>3, <1>4

\* One bit of one word is changed, to `word'.
LEMMA BitChanged ==
  ASSUME NEW s, IsBitmap(s), NEW x \in Nat, x < nbits(s), NEW word \in Words,
         \A b \in 0 .. BITS_IN_INT - 1 :
           b # MOD_VAL(x) => (b \in word <=> b \in s.map[DIV_INDEX(x)])
  PROVE  LET t == [s EXCEPT !.map[DIV_INDEX(x)] = word]
         IN  /\ IsBitmap(t)
             /\ t.nsize = s.nsize
             /\ \A y \in Nat : y \in Members(t) <=>
                  IF y = x THEN MOD_VAL(x) \in word ELSE y \in Members(s)
<1>. DEFINE m == [s.map EXCEPT ![DIV_INDEX(x)] = word]
            t == [s EXCEPT !.map = m]
<1>1. /\ s.nsize \in Nat /\ s.map \in [0 .. s.nsize - 1 -> Words]
      /\ s = [nsize |-> s.nsize, map |-> s.map]
  BY Parts
<1>2. DIV_INDEX(x) \in 0 .. s.nsize - 1 /\ DIV_INDEX(x) < s.nsize
  BY <1>1, Below, Cell DEF nbits
<1>3. /\ m \in [0 .. s.nsize - 1 -> Words]
      /\ m[DIV_INDEX(x)] = word
      /\ \A i \in 0 .. s.nsize - 1 : i # DIV_INDEX(x) => m[i] = s.map[i]
  BY <1>1, <1>2
<1>4. t = [s EXCEPT !.map[DIV_INDEX(x)] = word]
  BY <1>1
<1>. HIDE DEF m
<1>5. IsBitmap(t) /\ t.nsize = s.nsize /\ t.map = m
  BY <1>3, Replaced
<1>. HIDE DEF t
<1>6. ASSUME NEW y \in Nat
      PROVE  y \in Members(t) <=> IF y = x THEN MOD_VAL(x) \in word ELSE y \in Members(s)
  <2>1. y \in Members(t) <=> DIV_INDEX(y) < s.nsize /\ MOD_VAL(y) \in m[DIV_INDEX(y)]
    BY <1>5, Elementwise
  <2>2. y \in Members(s) <=> DIV_INDEX(y) < s.nsize /\ MOD_VAL(y) \in s.map[DIV_INDEX(y)]
    BY Elementwise
  <2>3. DIV_INDEX(y) < s.nsize => DIV_INDEX(y) \in 0 .. s.nsize - 1
    BY Elementwise
  <2>4. CASE DIV_INDEX(y) # DIV_INDEX(x)
    BY <1>3, <2>1, <2>2, <2>3, <2>4
  <2>5. CASE DIV_INDEX(y) = DIV_INDEX(x) /\ MOD_VAL(y) # MOD_VAL(x)
    BY <1>2, <1>3, <2>1, <2>2, <2>5, Cell
  <2>6. CASE DIV_INDEX(y) = DIV_INDEX(x) /\ MOD_VAL(y) = MOD_VAL(x)
    BY <1>2, <1>3, <2>1, <2>6, SameCell
  <2>. QED
    BY <2>4, <2>5, <2>6
<1>. QED
  BY <1>4, <1>5, <1>6

LEMMA Added ==
  ASSUME NEW s, IsBitmap(s), NEW x \in Nat
  PROVE  /\ IsBitmap(ADD(s, x))
         /\ ADD(s, x).nsize >= s.nsize /\ ADD(s, x).nsize \in Nat
         /\ Members(ADD(s, x)) = Members(s) \cup {x}
<1>1. ASSUME NEW t, IsBitmap(t), x < nbits(t)
      PROVE  /\ IsBitmap(SetBit(t, x))
             /\ SetBit(t, x).nsize = t.nsize
             /\ Members(SetBit(t, x)) = Members(t) \cup {x}
  <2>. DEFINE word == t.map[DIV_INDEX(x)] \cup {MOD_VAL(x)}
  <2>1. DIV_INDEX(x) \in 0 .. t.nsize - 1 /\ t.map \in [0 .. t.nsize - 1 -> Words]
    <3>1. t.nsize \in Nat /\ t.map \in [0 .. t.nsize - 1 -> Words]
      BY <1>1, Parts
    <3>2. DIV_INDEX(x) < t.nsize
      BY <1>1, <3>1, Below DEF nbits
    <3>3. DIV_INDEX(x) \in Nat
      BY Cell
    <3>. QED
      BY <3>1, <3>2, <3>3
  <2>2. word \in Words
    BY <2>1, Cell DEF Words
  <2>3. \A b \in 0 .. BITS_IN_INT - 1 :
          b # MOD_VAL(x) => (b \in word <=> b \in t.map[DIV_INDEX(x)])
    OBVIOUS
  <2>4. SetBit(t, x) = [t EXCEPT !.map[DIV_INDEX(x)] = word]
    BY <1>1, <2>1, Parts DEF SetBit
  <2>5. MOD_VAL(x) \in word
    OBVIOUS
  <2>. HIDE DEF word
  <2>6. /\ IsBitmap(SetBit(t, x)) /\ SetBit(t, x).nsize = t.nsize
        /\ \A y \in Nat : y \in Members(SetBit(t, x)) <=>
             IF y = x THEN MOD_VAL(x) \in word ELSE y \in Members(t)
    BY <1>1, <2>2, <2>3, <2>4, BitChanged
  <2>7. Members(SetBit(t, x)) \subseteq Nat /\ Members(t) \subseteq Nat
    BY <1>1, <2>6, Elementwise
  <2>. QED
    BY <2>5, <2>6, <2>7
<1>2. s.nsize \in Nat
  BY Parts
<1>3. CASE x >= nbits(s)
  <2>. DEFINE t == enlarge(ROUND(x), s)
  <2>1. /\ IsBitmap(t) /\ Members(t) = Members(s)
        /\ t.nsize = IF ROUND(x) <= s.nsize THEN s.nsize ELSE ROUND(x)
        /\ ROUND(x) \in Nat /\ DIV_INDEX(x) < ROUND(x)
    BY Enlarged, Rounded
  <2>2. t.nsize \in Nat /\ t.nsize >= s.nsize /\ DIV_INDEX(x) < t.nsize
    BY <1>2, <2>1, Cell
  <2>3. x < nbits(t)
    BY <2>2, Below DEF nbits
  <2>4. ADD(s, x) = SetBit(t, x)
    BY <1>3 DEF ADD
  <2>. HIDE DEF t
  <2>. QED
    BY <1>1, <2>1, <2>2, <2>3, <2>4
<1>4. CASE ~(x >= nbits(s))
  <2>1. x < nbits(s)
    <3>1. nbits(s) \in Int
      BY <1>2, BitSetAssumption DEF nbits
    <3>. QED
      BY <1>4, <3>1
  <2>2. ADD(s, x) = SetBit(s, x)
    BY <1>4 DEF ADD
  <2>. QED
    BY <1>1, <1>2, <2>1, <2>2
<1>. QED
  BY <1>3, <1>4

LEMMA Removed ==
  ASSUME NEW s, IsBitmap(s), NEW x \in Nat
  PROVE  /\ IsBitmap(REMOVE(s, x))
         /\ REMOVE(s, x).nsize = s.nsize
         /\ Members(REMOVE(s, x)) = Members(s) \ {x}
<1>1. s.nsize \in Nat
  BY Parts
<1>2. nbits(s) \in Int
  BY <1>1, BitSetAssumption DEF nbits
<1>3. CASE x >= nbits(s)
  <2>1. REMOVE(s, x) = s
    BY <1>3 DEF REMOVE
  <2>2. x \notin Members(s)
    BY <1>2, <1>3 DEF Members, MEMBER
  <2>. QED
    BY <2>1, <2>2
<1>4. CASE x < nbits(s)
  <2>. DEFINE word == s.map[DIV_INDEX(x)] \ {MOD_VAL(x)}
  <2>1. DIV_INDEX(x) \in 0 .. s.nsize - 1 /\ s.map \in [0 .. s.nsize - 1 -> Words]
    <3>1. s.nsize \in Nat /\ s.map \in [0 .. s.nsize - 1 -> Words]
      BY <1>4, Parts
    <3>2. DIV_INDEX(x) < s.nsize
      BY <1>4, <3>1, Below DEF nbits
    <3>3. DIV_INDEX(x) \in Nat
      BY Cell
    <3>. QED
      BY <3>1, <3>2, <3>3
  <2>2. word \in Words
    BY <2>1, Cell DEF Words
  <2>3. \A b \in 0 .. BITS_IN_INT - 1 :
          b # MOD_VAL(x) => (b \in word <=> b \in s.map[DIV_INDEX(x)])
    OBVIOUS
  <2>4. REMOVE(s, x) = [s EXCEPT !.map[DIV_INDEX(x)] = word]
    BY <1>2, <1>4, <2>1, Parts DEF REMOVE
  <2>5. MOD_VAL(x) \notin word
    OBVIOUS
  <2>. HIDE DEF word
  <2>6. /\ IsBitmap(REMOVE(s, x)) /\ REMOVE(s, x).nsize = s.nsize
        /\ \A y \in Nat : y \in Members(REMOVE(s, x)) <=>
             IF y = x THEN MOD_VAL(x) \in word ELSE y \in Members(s)
    BY <1>4, <2>2, <2>3, <2>4, BitChanged
  <2>7. Members(REMOVE(s, x)) \subseteq Nat /\ Members(s) \subseteq Nat
    BY <2>6, Elementwise
  <2>. QED
    BY <2>5, <2>6, <2>7
<1>. QED
  BY <1>2, <1>3, <1>4

\* CLEAR, FILL and invert().
LEMMA Filled ==
  ASSUME NEW s, IsBitmap(s)
  PROVE  /\ IsBitmap(CLEAR(s)) /\ CLEAR(s).nsize = s.nsize /\ Members(CLEAR(s)) = {}
         /\ IsBitmap(FILL(s)) /\ FILL(s).nsize = s.nsize
         /\ \A x \in Nat : x \in Members(FILL(s)) <=> x < nbits(s)
         /\ IsBitmap(invert(s)) /\ invert(s).nsize = s.nsize
         /\ \A x \in Nat : x \in Members(invert(s)) <=> x < nbits(s) /\ x \notin Members(s)
<1>1. s.nsize \in Nat /\ s.map \in [0 .. s.nsize - 1 -> Words]
  BY Parts
<1>2. \A x \in Nat : /\ x < nbits(s) <=> DIV_INDEX(x) < s.nsize
                     /\ DIV_INDEX(x) < s.nsize => DIV_INDEX(x) \in 0 .. s.nsize - 1
  BY <1>1, Below, Elementwise DEF nbits
<1>3. \A x \in Nat : MOD_VAL(x) \in 0 .. BITS_IN_INT - 1
  BY Cell
<1>4. IsBitmap(CLEAR(s)) /\ CLEAR(s).nsize = s.nsize /\ Members(CLEAR(s)) = {}
  <2>. DEFINE m == ZeroMap(s.nsize)
  <2>1. m \in [0 .. s.nsize - 1 -> Words] /\ \A i \in 0 .. s.nsize - 1 : m[i] = {}
    BY WordTypes DEF ZeroMap
  <2>2. CLEAR(s) = [s EXCEPT !.map = m]
    BY DEF CLEAR
  <2>. HIDE DEF m
  <2>3. IsBitmap(CLEAR(s)) /\ CLEAR(s).nsize = s.nsize /\ CLEAR(s).map = m
    BY <2>1, <2>2, Replaced
  <2>. QED
    BY <1>2, <2>1, <2>3, Elementwise
<1>5. /\ IsBitmap(FILL(s)) /\ FILL(s).nsize = s.nsize
      /\ \A x \in Nat : x \in Members(FILL(s)) <=> x < nbits(s)
  <2>. DEFINE m == [i \in 0 .. s.nsize - 1 |-> 0 .. BITS_IN_INT - 1]
  <2>1. m \in [0 .. s.nsize - 1 -> Words]
    BY WordTypes
  <2>4. \A i \in 0 .. s.nsize - 1 : m[i] = 0 .. BITS_IN_INT - 1
    OBVIOUS
  <2>2. FILL(s) = [s EXCEPT !.map = m]
    BY DEF FILL
  <2>. HIDE DEF m
  <2>3. IsBitmap(FILL(s)) /\ FILL(s).nsize = s.nsize /\ FILL(s).map = m
    BY <2>1, <2>2, Replaced
  <2>5. \A x \in Nat : x \in Members(FILL(s))
          <=> DIV_INDEX(x) < s.nsize /\ MOD_VAL(x) \in m[DIV_INDEX(x)]
    BY <2>3, Elementwise
  <2>. QED
    BY <1>2, <1>3, <2>3, <2>4, <2>5
<1>6. /\ IsBitmap(invert(s)) /\ invert(s).nsize = s.nsize
      /\ \A x \in Nat : x \in Members(invert(s)) <=> x < nbits(s) /\ x \notin Members(s)
  <2>. DEFINE m == [i \in 0 .. s.nsize - 1 |-> (0 .. BITS_IN_INT - 1) \ s.map[i]]
  <2>1. m \in [0 .. s.nsize - 1 -> Words]
    BY <1>1, WordTypes
  <2>4. \A i \in 0 .. s.nsize - 1 : m[i] = (0 .. BITS_IN_INT - 1) \ s.map[i]
    OBVIOUS
  <2>2. invert(s) = [s EXCEPT !.map = m]
    BY DEF invert
  <2>. HIDE DEF m
  <2>3. IsBitmap(invert(s)) /\ invert(s).nsize = s.nsize /\ invert(s).map = m
    BY <2>1, <2>2, Replaced
  <2>5. \A x \in Nat :
          /\ x \in Members(invert(s))
               <=> DIV_INDEX(x) < s.nsize /\ MOD_VAL(x) \in m[DIV_INDEX(x)]
          /\ x \in Members(s)
               <=> DIV_INDEX(x) < s.nsize /\ MOD_VAL(x) \in s.map[DIV_INDEX(x)]
    BY <2>3, Elementwise
  <2>. QED
    BY <1>2, <1>3, <2>3, <2>4, <2>5
<1>. QED
  BY <1>4, <1>5, <1>6

\* An operation on the words of two maps, of any two lengths, is the same operation on the
\* elements.
LEMMA Operated ==
  ASSUME NEW d, IsBitmap(d), NEW s, IsBitmap(s), NEW op \in Operations
  PROVE  /\ IsBitmap(set_op(op, d, s))
         /\ set_op(op, d, s).nsize >= d.nsize
         /\ Members(set_op(op, d, s)) = Combined(op, Members(d), Members(s))
<1>. DEFINE e == enlarge(s.nsize, d)
            m == [i \in 0 .. e.nsize - 1 |->
                    IF i < s.nsize THEN Combined(op, e.map[i], s.map[i])
                    ELSE TailWord(op, e.map[i])]
            r == set_op(op, d, s)
<1>1. s.nsize \in Nat /\ s.map \in [0 .. s.nsize - 1 -> Words] /\ d.nsize \in Nat
  BY Parts
<1>2. /\ IsBitmap(e) /\ Members(e) = Members(d)
      /\ e.nsize = IF s.nsize <= d.nsize THEN d.nsize ELSE s.nsize
  BY <1>1, Enlarged
<1>3. r = [e EXCEPT !.map = m]
  BY DEF set_op
<1>. HIDE DEF e
<1>4. e.nsize \in Nat /\ e.map \in [0 .. e.nsize - 1 -> Words] /\ s.nsize <= e.nsize
  BY <1>1, <1>2, Parts
<1>5. \A v, w \in Words : Combined(op, v, w) \in Words /\ TailWord(op, v) \in Words
  BY WordTypes DEF Combined, TailWord, Operations
<1>6. m \in [0 .. e.nsize - 1 -> Words]
  <2>1. \A i \in 0 .. e.nsize - 1 : i < s.nsize => s.map[i] \in Words
    BY <1>1
  <2>2. \A i \in 0 .. e.nsize - 1 : e.map[i] \in Words
    BY <1>4
  <2>. QED
    BY <1>5, <2>1, <2>2
<1>7. \A i \in 0 .. e.nsize - 1 :
        m[i] = IF i < s.nsize THEN Combined(op, e.map[i], s.map[i]) ELSE TailWord(op, e.map[i])
  OBVIOUS
<1>. HIDE DEF m
<1>8. IsBitmap(r) /\ r.nsize = e.nsize /\ r.map = m
  BY <1>2, <1>3, <1>6, Replaced
<1>. HIDE DEF r
<1>9. ASSUME NEW x \in Nat
      PROVE  x \in Members(r) <=>
               CASE op = "UNION"      -> x \in Members(d) \/ x \in Members(s)
                 [] op = "INTERSECT"  -> x \in Members(d) /\ x \in Members(s)
                 [] op = "DIFFERENCE" -> ~(x \in Members(d) <=> x \in Members(s))
                 [] op = "ASSIGN"     -> x \in Members(s)
  <2>. DEFINE i == DIV_INDEX(x)
              b == MOD_VAL(x)
  <2>1. x \in Members(r) <=> i < e.nsize /\ b \in m[i]
    BY <1>8, Elementwise
  <2>2. x \in Members(d) <=> i < e.nsize /\ b \in e.map[i]
    BY <1>2, Elementwise
  <2>3. x \in Members(s) <=> i < s.nsize /\ b \in s.map[i]
    BY Elementwise
  <2>6. i \in Nat
    BY Cell
  <2>4. i < s.nsize => i < e.nsize
    BY <1>1, <1>4, <2>6
  <2>5. i < e.nsize => i \in 0 .. e.nsize - 1
    BY <1>2, Elementwise
  <2>. HIDE DEF i, b
  <2>. QED
    BY <1>7, <2>1, <2>2, <2>3, <2>4, <2>5 DEF Combined, TailWord, Operations
<1>10. Members(r) \subseteq Nat /\ Members(d) \subseteq Nat /\ Members(s) \subseteq Nat
  BY <1>8, Elementwise
<1>11. Members(r) = Combined(op, Members(d), Members(s))
  BY <1>9, <1>10 DEF Combined, Operations
<1>12. e.nsize >= d.nsize
  BY <1>1, <1>2
<1>. QED
  BY <1>4, <1>8, <1>11, <1>12 DEF r

----------------------------------------------------------------------------
(***************************************************************************)
(* Comparisons.                                                            *)
(***************************************************************************)

\* The word at some place, also behind the end of the map.
Word(s, i) == IF i < s.nsize THEN s.map[i] ELSE {}

LEMMA WordBits ==
  ASSUME NEW s, IsBitmap(s), NEW i \in Nat
  PROVE  /\ Word(s, i) \in Words
         /\ \A b \in 0 .. BITS_IN_INT - 1 :
              b \in Word(s, i) <=> i * BITS_IN_INT + b \in Members(s)
<1>1. s.nsize \in Nat /\ s.map \in [0 .. s.nsize - 1 -> Words]
  BY Parts
<1>2. i < s.nsize => i \in 0 .. s.nsize - 1
  BY <1>1
<1>3. Word(s, i) \in Words
  BY <1>1, <1>2, WordTypes DEF Word
<1>4. ASSUME NEW b \in 0 .. BITS_IN_INT - 1
      PROVE  b \in Word(s, i) <=> i * BITS_IN_INT + b \in Members(s)
  <2>1. /\ i * BITS_IN_INT + b \in Nat
        /\ DIV_INDEX(i * BITS_IN_INT + b) = i
        /\ MOD_VAL(i * BITS_IN_INT + b) = b
    BY Place
  <2>. DEFINE x == i * BITS_IN_INT + b
  <2>2. x \in Nat /\ DIV_INDEX(x) = i /\ MOD_VAL(x) = b
    BY <2>1
  <2>. HIDE DEF x
  <2>3. x \in Members(s) <=> i < s.nsize /\ b \in s.map[i]
    BY <2>2, Elementwise
  <2>. QED
    BY <2>3 DEF Word, x
<1>. QED
  BY <1>3, <1>4

\* Sets are equal, and one in the other, as their words are.
LEMMA Wordwise ==
  ASSUME NEW s, IsBitmap(s), NEW t, IsBitmap(t)
  PROVE  /\ Members(s) = Members(t) <=> \A i \in Nat : Word(s, i) = Word(t, i)
         /\ Members(t) \subseteq Members(s) <=> \A i \in Nat : Word(t, i) \subseteq Word(s, i)
<1>1. \A i \in Nat : /\ Word(s, i) \subseteq 0 .. BITS_IN_INT - 1
                     /\ Word(t, i) \subseteq 0 .. BITS_IN_INT - 1
  BY WordBits DEF Words
<1>2. \A x \in Nat : /\ x \in Members(s) <=> MOD_VAL(x) \in Word(s, DIV_INDEX(x))
                     /\ x \in Members(t) <=> MOD_VAL(x) \in Word(t, DIV_INDEX(x))
                     /\ DIV_INDEX(x) \in Nat
  BY Elementwise, Cell DEF Word
<1>3. Members(s) \subseteq Nat /\ Members(t) \subseteq Nat
  BY Elementwise
<1>4. \A i \in Nat, b \in 0 .. BITS_IN_INT - 1 :
        /\ b \in Word(s, i) <=> i * BITS_IN_INT + b \in Members(s)
        /\ b \in Word(t, i) <=> i * BITS_IN_INT + b \in Members(t)
  BY WordBits
<1>5. Members(s) = Members(t) => \A i \in Nat : Word(s, i) = Word(t, i)
  BY <1>1, <1>4, Zenon
<1>6. (\A i \in Nat : Word(s, i) = Word(t, i)) => Members(s) = Members(t)
  BY <1>2, <1>3, Zenon
<1>7. Members(t) \subseteq Members(s) => \A i \in Nat : Word(t, i) \subseteq Word(s, i)
  BY <1>1, <1>4, Zenon
<1>8. (\A i \in Nat : Word(t, i) \subseteq Word(s, i)) => Members(t) \subseteq Members(s)
  BY <1>2, <1>3, Zenon
<1>. QED
  BY <1>5, <1>6, <1>7, <1>8

LEMMA Equivalent ==
  ASSUME NEW s, IsBitmap(s), NEW t, IsBitmap(t)
  PROVE  IS_EQUIVALENT(s, t) <=> Members(s) = Members(t)
<1>1. s.nsize \in Nat /\ t.nsize \in Nat
  BY Parts
<1>2. \A i \in Nat : /\ i < s.nsize <=> i \in 0 .. s.nsize - 1
                     /\ ~(i < s.nsize) /\ i < t.nsize <=> i \in s.nsize .. t.nsize - 1
  BY <1>1
<1>3. (\A i \in Nat : Word(s, i) = Word(t, i)) <=>
        /\ \A i \in 0 .. s.nsize - 1 : s.map[i] = IF i < t.nsize THEN t.map[i] ELSE {}
        /\ \A i \in s.nsize .. t.nsize - 1 : t.map[i] = {}
  <2>1. ASSUME \A i \in Nat : Word(s, i) = Word(t, i)
        PROVE  /\ \A i \in 0 .. s.nsize - 1 : s.map[i] = IF i < t.nsize THEN t.map[i] ELSE {}
               /\ \A i \in s.nsize .. t.nsize - 1 : t.map[i] = {}
    BY <1>1, <2>1 DEF Word
  <2>2. ASSUME \A i \in 0 .. s.nsize - 1 : s.map[i] = IF i < t.nsize THEN t.map[i] ELSE {},
               \A i \in s.nsize .. t.nsize - 1 : t.map[i] = {},
               NEW i \in Nat
        PROVE  Word(s, i) = Word(t, i)
    BY <1>2, <2>2 DEF Word
  <2>. QED
    BY <2>1, <2>2
<1>. QED
  BY <1>3, Wordwise DEF IS_EQUIVALENT

LEMMA SubsetRight ==
  ASSUME NEW s, IsBitmap(s), NEW t, IsBitmap(t)
  PROVE  subset(s, t) <=> Members(t) \subseteq Members(s)
<1>1. s.nsize \in Nat /\ t.nsize \in Nat
  BY Parts
<1>2. (\A i \in Nat : Word(t, i) \subseteq Word(s, i)) <=> subset(s, t)
  <2>1. ASSUME \A i \in Nat : Word(t, i) \subseteq Word(s, i)
        PROVE  subset(s, t)
    <3>1. \A i \in 0 .. t.nsize - 1 :
            IF i < s.nsize THEN t.map[i] \subseteq s.map[i] ELSE t.map[i] \subseteq {}
      BY <1>1, <2>1 DEF Word
    <3>. QED
      BY <3>1 DEF subset
  <2>2. ASSUME subset(s, t), NEW i \in Nat
        PROVE  Word(t, i) \subseteq Word(s, i)
    <3>1. CASE i < t.nsize
      <4>1. i \in 0 .. t.nsize - 1
        BY <1>1, <3>1
      <4>2. IF i < s.nsize THEN t.map[i] \cap s.map[i] = t.map[i] ELSE t.map[i] = {}
        BY <2>2, <4>1 DEF subset
      <4>. QED
        BY <3>1, <4>2 DEF Word
    <3>2. CASE ~(i < t.nsize)
      BY <3>2 DEF Word
    <3>. QED
      BY <3>1, <3>2
  <2>. QED
    BY <2>1, <2>2
<1>. QED
  BY <1>2, Wordwise

LEMMA TestRight ==
  ASSUME NEW s, IsBitmap(s), NEW t, IsBitmap(t)
  PROVE  /\ set_test(s, t) = "EQUIV" <=> Members(s) = Members(t)
         /\ set_test(s, t) = "INTER" => Members(s) \cap Members(t) # {}
<1>. DEFINE a == Longer(s, t)
            b == Longer(t, s)
            differ == {i \in DOMAIN a.map : a.map[i] # b.map[i]}
<1>1. s.nsize \in Nat /\ t.nsize \in Nat
  BY Parts
<1>2. /\ IsBitmap(a) /\ Members(a) = Members(s)
      /\ a.nsize = IF t.nsize <= s.nsize THEN s.nsize ELSE t.nsize
  <2>1. a = enlarge(t.nsize, s)
    BY DEF Longer
  <2>. HIDE DEF a
  <2>. QED
    BY <1>1, <2>1, Enlarged
<1>3. /\ IsBitmap(b) /\ Members(b) = Members(t)
      /\ b.nsize = IF s.nsize <= t.nsize THEN t.nsize ELSE s.nsize
  <2>1. b = enlarge(s.nsize, t)
    BY DEF Longer
  <2>. HIDE DEF b
  <2>. QED
    BY <1>1, <2>1, Enlarged
<1>4. set_test(s, t) = IF \E i \in differ : a.map[i] \cap b.map[i] # {} THEN "INTER"
                       ELSE IF differ # {} THEN "DISJ" ELSE "EQUIV"
  BY DEF set_test
<1>. HIDE DEF a, b
<1>5. a.nsize = b.nsize /\ a.nsize \in Nat
  BY <1>1, <1>2, <1>3
<1>6. DOMAIN a.map = 0 .. a.nsize - 1
  BY <1>2, Parts
<1>7. \A i \in Nat : i < a.nsize <=> i \in 0 .. a.nsize - 1
  BY <1>5
<1>8. differ = {} <=> \A i \in Nat : Word(a, i) = Word(b, i)
  <2>1. ASSUME differ = {}, NEW i \in Nat PROVE Word(a, i) = Word(b, i)
    BY <1>5, <1>6, <1>7, <2>1 DEF Word
  <2>2. ASSUME \A i \in Nat : Word(a, i) = Word(b, i) PROVE differ = {}
    BY <1>5, <1>6, <1>7, <2>2 DEF Word
  <2>. QED
    BY <2>1, <2>2
<1>9. differ = {} <=> Members(s) = Members(t)
  BY <1>2, <1>3, <1>8, Wordwise
<1>10. ASSUME NEW i \in differ, a.map[i] \cap b.map[i] # {}
       PROVE  Members(s) \cap Members(t) # {}
  <2>1. i \in Nat /\ Word(a, i) = a.map[i] /\ Word(b, i) = b.map[i]
    BY <1>5, <1>6, <1>10 DEF Word
  <2>2. PICK bit : bit \in Word(a, i) /\ bit \in Word(b, i)
    BY <1>10, <2>1
  <2>3. bit \in 0 .. BITS_IN_INT - 1
    BY <1>2, <2>1, <2>2, WordBits DEF Words
  <2>4. i * BITS_IN_INT + bit \in Members(a) /\ i * BITS_IN_INT + bit \in Members(b)
    BY <1>2, <1>3, <2>1, <2>2, <2>3, WordBits
  <2>. QED
    BY <1>2, <1>3, <2>4
<1>. QED
  BY <1>4, <1>9, <1>10

----------------------------------------------------------------------------
(***************************************************************************)
(* The sets behind the handles.                                            *)
(***************************************************************************)
Bitmaps ==
  /\ set = [h \in Handles |-> set[h]]
  /\ \A h \in Handles : IsBitmap(set[h]) /\ (IsSet(h) => set[h].nsize >= DEFSIZE)

Walker ==
  /\ oset \in Handles \cup {NONE}
  /\ walking \in Handles \cup {NONE}
  /\ walking # NONE => IsSet(walking)
  /\ current_member \in Nat
  /\ visited \in Seq(Nat)

IInv == Bitmaps /\ Walker

\* What the handle of a set stands for among the plain sets.
Elems(s) == IF s # Null THEN Members(s) ELSE {-1}

LEMMA MembersOf ==
  /\ members = [h \in Handles |-> Elems(set[h])]
  /\ members' = [h \in Handles |-> Elems(set'[h])]
BY DEF members, IsSet, Elems

LEMMA ElemsNull ==
  ASSUME NEW s, IsBitmap(s)
  PROVE  Elems(s) = {-1} <=> s = Null
<1>1. Members(s) \subseteq Nat
  BY Elementwise
<1>. QED
  BY <1>1 DEF Elems

\* A call that leaves another set behind a handle.
LEMMA KeepCall ==
  ASSUME IInv, NEW h \in Handles, NEW s, IsBitmap(s), s # Null => s.nsize >= DEFSIZE,
         NEW c, Call(c, h, s)
  PROVE  /\ IInv'
         /\ members' = [members EXCEPT ![h] = Elems(s)]
         /\ call' = c
<1>1. /\ set' = [set EXCEPT ![h] = s] /\ visited' = <<>> /\ walking = NONE
      /\ oset' = oset /\ current_member' = current_member /\ walking' = walking
      /\ call' = c
  BY DEF Call
<1>2. /\ set' = [k \in Handles |-> IF k = h THEN s ELSE set[k]]
      /\ \A k \in Handles : set'[k] = IF k = h THEN s ELSE set[k]
      /\ set' = [k \in Handles |-> set'[k]]
  BY <1>1 DEF IInv, Bitmaps
<1>3. \A k \in Handles : IsBitmap(set'[k]) /\ (set'[k] # Null => set'[k].nsize >= DEFSIZE)
  BY <1>2 DEF IInv, Bitmaps, IsSet
<1>4. Bitmaps'
  BY <1>2, <1>3 DEF Bitmaps, IsSet
<1>5. Walker'
  BY <1>1 DEF IInv, Walker
<1>6. members' = [members EXCEPT ![h] = Elems(s)]
  BY <1>2, MembersOf
<1>. QED
  BY <1>1, <1>4, <1>5, <1>6 DEF IInv

LEMMA MadeLonger ==
  ASSUME NEW s, NEW t, IsBitmap(s), IsBitmap(t), s # Null, s.nsize >= DEFSIZE
  PROVE  /\ IsBitmap(Longer(s, t)) /\ Members(Longer(s, t)) = Members(s)
         /\ Longer(s, t).nsize >= DEFSIZE /\ Longer(s, t) # Null
<1>. DEFINE a == Longer(s, t)
<1>1. s.nsize \in Nat /\ t.nsize \in Nat /\ DEFSIZE \in Nat \ {0}
  BY Parts, BitSetAssumption
<1>2. a = enlarge(t.nsize, s)
  BY DEF Longer
<1>. HIDE DEF a
<1>3. /\ IsBitmap(a) /\ Members(a) = Members(s)
      /\ a.nsize = IF t.nsize <= s.nsize THEN s.nsize ELSE t.nsize
  BY <1>1, <1>2, Enlarged
<1>4. a.nsize >= DEFSIZE
  BY <1>1, <1>3
<1>5. Null.nsize = 0
  BY DEF Null
<1>. QED
  BY <1>1, <1>3, <1>4, <1>5 DEF a

\* A handle has a set here when it has one there.
LEMMA AbstractSet ==
  ASSUME IInv, NEW h \in Handles
  PROVE  /\ Abstract!IsSet(h) <=> IsSet(h)
         /\ IsSet(h) => members[h] = Members(set[h])
         /\ ~IsSet(h) => members[h] = Abstract!NULL
         /\ IsBitmap(set[h])
         /\ IsSet(h) => set[h].nsize >= DEFSIZE
<1>1. IsBitmap(set[h]) /\ members[h] = Elems(set[h])
  BY MembersOf DEF IInv, Bitmaps
<1>2. members[h] = {-1} <=> set[h] = Null
  BY <1>1, ElemsNull
<1>3. IsSet(h) => set[h].nsize >= DEFSIZE
  BY DEF IInv, Bitmaps
<1>. QED
  BY <1>1, <1>2, <1>3 DEF Abstract!IsSet, Abstract!NULL, IsSet, Elems

\* _set_test() makes its sets longer and leaves their elements alone.
LEMMA KeepTest ==
  ASSUME IInv, NEW h \in Handles, NEW other \in Handles, SetTest(h, other)
  PROVE  IInv' /\ Abstract!Compare(h, other)
<1>1. /\ set' = [set EXCEPT ![h] = Longer(set[h], set[other]),
                            ![other] = Longer(set[other], set[h])]
      /\ IsSet(h) /\ IsSet(other)
      /\ visited' = <<>> /\ walking = NONE
      /\ oset' = oset /\ current_member' = current_member /\ walking' = walking
      /\ call' = <<"set_test", h, other>>
  BY DEF SetTest
<1>3. \A k \in Handles : IsBitmap(set[k]) /\ (set[k] # Null => set[k].nsize >= DEFSIZE)
  BY DEF IInv, Bitmaps, IsSet
<1>4. set[h] # Null /\ set[other] # Null
  BY <1>1 DEF IsSet
<1>5. /\ set' = [k \in Handles |-> set'[k]]
      /\ \A k \in Handles :
           \/ k = h /\ set'[k] = Longer(set[h], set[other])
           \/ k = other /\ set'[k] = Longer(set[other], set[h])
           \/ set'[k] = set[k]
  BY <1>1 DEF IInv, Bitmaps
<1>6. \A k \in Handles : /\ IsBitmap(set'[k])
                         /\ set'[k] # Null => set'[k].nsize >= DEFSIZE
                         /\ Elems(set'[k]) = Elems(set[k])
  BY <1>3, <1>4, <1>5, MadeLonger DEF Elems
<1>7. Bitmaps'
  BY <1>5, <1>6 DEF Bitmaps, IsSet
<1>8. Walker'
  BY <1>1 DEF IInv, Walker
<1>9. members' = members
  BY <1>6, MembersOf
<1>10. Abstract!Compare(h, other)
  BY <1>1, <1>9, AbstractSet DEF Abstract!Compare
<1>. QED
  BY <1>7, <1>8, <1>10 DEF IInv

----------------------------------------------------------------------------
(***************************************************************************)
(* Every call is one on plain sets.                                        *)
(***************************************************************************)
LEMMA AbstractNext ==
  ASSUME NEW h \in Handles,
         \/ Abstract!New(h) \/ Abstract!Delete(h) \/ Abstract!Empty(h)
         \/ Abstract!Fill(h) \/ Abstract!Invert(h) \/ Abstract!NextMember(h)
         \/ \E x \in Elements : Abstract!Add(h, x) \/ Abstract!Remove(h, x)
         \/ \E src \in Handles : \/ Abstract!Duplicate(h, src) \/ Abstract!Combine(h, src)
                                \/ Abstract!Compare(h, src)
  PROVE  Abstract!Next
BY DEF Abstract!Next

LEMMA Creates ==
  ASSUME IInv, NEW h \in Handles,
         NewSet(h) \/ DelSet(h) \/ \E src \in Handles : DupSet(h, src)
  PROVE  IInv' /\ Abstract!Next
<1>1. CASE NewSet(h)
  <2>1. ~IsSet(h) /\ Call(<<"newset", h>>, h, newset)
    BY <1>1 DEF NewSet
  <2>2. IsBitmap(newset) /\ newset.nsize >= DEFSIZE /\ Elems(newset) = {}
    BY EmptySets, BitSetAssumption DEF Elems
  <2>3. IInv' /\ members' = [members EXCEPT ![h] = {}] /\ call' = <<"newset", h>>
    BY <2>1, <2>2, KeepCall
  <2>4. Abstract!New(h)
    BY <2>1, <2>3, AbstractSet DEF Abstract!New, Abstract!Becomes
  <2>. QED
    BY <2>3, <2>4, AbstractNext
<1>2. CASE DelSet(h)
  <2>1. IsSet(h) /\ Call(<<"delset", h>>, h, Null)
    BY <1>2 DEF DelSet
  <2>2. IsBitmap(Null) /\ Elems(Null) = {-1}
    BY EmptySets DEF Elems
  <2>3. IInv' /\ members' = [members EXCEPT ![h] = {-1}] /\ call' = <<"delset", h>>
    BY <2>1, <2>2, KeepCall
  <2>4. Abstract!Delete(h)
    BY <2>1, <2>3, AbstractSet DEF Abstract!Delete, Abstract!Becomes, Abstract!NULL
  <2>. QED
    BY <2>3, <2>4, AbstractNext
<1>3. ASSUME NEW src \in Handles, DupSet(h, src)
      PROVE  IInv' /\ Abstract!Next
  <2>1. ~IsSet(h) /\ IsSet(src) /\ Call(<<"dupset", h, src>>, h, set[src])
    BY <1>3 DEF DupSet
  <2>2. IsBitmap(set[src]) /\ set[src].nsize >= DEFSIZE /\ Elems(set[src]) = members[src]
    BY <2>1, AbstractSet DEF Elems, IsSet
  <2>3. IInv' /\ members' = [members EXCEPT ![h] = members[src]] /\ call' = <<"dupset", h, src>>
    BY <2>1, <2>2, KeepCall
  <2>4. Abstract!Duplicate(h, src)
    BY <2>1, <2>3, AbstractSet DEF Abstract!Duplicate, Abstract!Becomes
  <2>. QED
    BY <2>3, <2>4, AbstractNext
<1>. QED
  BY <1>1, <1>2, <1>3

\* A set as long as another one, or longer, is a set.
LEMMA StaysSet ==
  ASSUME NEW s, NEW t, IsBitmap(s), IsBitmap(t), s.nsize >= DEFSIZE, t.nsize >= s.nsize
  PROVE  t # Null /\ t.nsize >= DEFSIZE
<1>1. s.nsize \in Nat /\ t.nsize \in Nat /\ DEFSIZE \in Nat \ {0} /\ Null.nsize = 0
  BY Parts, BitSetAssumption DEF Null
<1>. QED
  BY <1>1

LEMMA Changes ==
  ASSUME IInv, NEW h \in Handles, Change(h)
  PROVE  IInv' /\ Abstract!Next
<1>. DEFINE s == set[h]
<1>1. IsSet(h) /\ IsBitmap(s) /\ s.nsize >= DEFSIZE /\ members[h] = Members(s)
  BY AbstractSet DEF Change
<1>2. s.nsize \in Nat
  BY <1>1, Parts
<1>3. members = [k \in Handles |-> members[k]]
  BY MembersOf
<1>4. ASSUME NEW t, IsBitmap(t), t.nsize >= s.nsize \/ t.nsize >= DEFSIZE, t # Null,
             NEW c, Call(c, h, t)
      PROVE  IInv' /\ members' = [members EXCEPT ![h] = Members(t)]
                   /\ members'[h] = Members(t) /\ call' = c
  <2>1. t.nsize >= DEFSIZE
    BY <1>1, <1>4, StaysSet
  <2>2. Elems(t) = Members(t)
    BY <1>4 DEF Elems
  <2>3. IInv' /\ members' = [members EXCEPT ![h] = Elems(t)] /\ call' = c
    BY <1>4, <2>1, KeepCall
  <2>. QED
    BY <1>3, <2>2, <2>3
<1>. HIDE DEF s
<1>5. ASSUME NEW x \in Elements, Call(<<"ADD", h, x>>, h, ADD(s, x))
      PROVE  IInv' /\ Abstract!Next
  <2>1. x \in Nat
    BY BitSetAssumption
  <2>2. /\ IsBitmap(ADD(s, x)) /\ ADD(s, x).nsize >= s.nsize
        /\ Members(ADD(s, x)) = Members(s) \cup {x}
    BY <1>1, <2>1, Added
  <2>3. ADD(s, x) # Null
    BY <1>1, <2>2, StaysSet
  <2>4. /\ IInv' /\ members' = [members EXCEPT ![h] = members[h] \cup {x}]
        /\ call' = <<"ADD", h, x>>
    BY <1>1, <1>4, <1>5, <2>2, <2>3
  <2>5. Abstract!Add(h, x)
    BY <1>1, <2>4, AbstractSet DEF Abstract!Add, Abstract!Becomes
  <2>. QED
    BY <2>4, <2>5, AbstractNext
<1>6. ASSUME NEW x \in Elements, Call(<<"REMOVE", h, x>>, h, REMOVE(s, x))
      PROVE  IInv' /\ Abstract!Next
  <2>1. x \in Nat
    BY BitSetAssumption
  <2>2. /\ IsBitmap(REMOVE(s, x)) /\ REMOVE(s, x).nsize >= s.nsize
        /\ Members(REMOVE(s, x)) = Members(s) \ {x}
    BY <1>1, <1>2, <2>1, Removed
  <2>3. REMOVE(s, x) # Null
    BY <1>1, <2>2, StaysSet
  <2>4. /\ IInv' /\ members' = [members EXCEPT ![h] = members[h] \ {x}]
        /\ call' = <<"REMOVE", h, x>>
    BY <1>1, <1>4, <1>6, <2>2, <2>3
  <2>5. Abstract!Remove(h, x)
    BY <1>1, <2>4, AbstractSet DEF Abstract!Remove, Abstract!Becomes
  <2>. QED
    BY <2>4, <2>5, AbstractNext
<1>7. ASSUME NEW t, NEW c \in {<<"truncate", h>>, <<"CLEAR", h>>}, Call(c, h, t),
             IsBitmap(t), t # Null, Members(t) = {},
             t.nsize >= s.nsize \/ t.nsize >= DEFSIZE
      PROVE  IInv' /\ Abstract!Next
  <2>1. IInv' /\ members' = [members EXCEPT ![h] = {}] /\ call' = c
    BY <1>4, <1>7
  <2>2. Abstract!Empty(h)
    BY <1>1, <1>7, <2>1, AbstractSet DEF Abstract!Empty, Abstract!Becomes
  <2>. QED
    BY <2>1, <2>2, AbstractNext
<1>8. CASE Call(<<"truncate", h>>, h, newset)
  <2>1. newset.nsize >= DEFSIZE
    BY EmptySets, BitSetAssumption
  <2>. QED
    BY <1>7, <1>8, <2>1, EmptySets
<1>9. CASE Call(<<"CLEAR", h>>, h, CLEAR(s))
  <2>1. /\ IsBitmap(CLEAR(s)) /\ CLEAR(s).nsize >= s.nsize /\ Members(CLEAR(s)) = {}
    BY <1>1, <1>2, Filled
  <2>2. CLEAR(s) # Null
    BY <1>1, <2>1, StaysSet
  <2>. QED
    BY <1>7, <1>9, <2>1, <2>2
<1>10. nbits(s) \in Nat
  BY <1>2, BitSetAssumption DEF nbits
<1>13. 0 < nbits(s)
  <2>1. BITS_IN_INT \in Nat \ {0} /\ s.nsize \in Nat \ {0}
    BY <1>1, <1>2, BitSetAssumption
  <2>. QED
    BY <2>1 DEF nbits
<1>14. \A x \in Nat : x \in Members(s) => x < nbits(s)
  BY <1>10 DEF Members
<1>11. CASE Call(<<"FILL", h>>, h, FILL(s))
  <2>1. /\ IsBitmap(FILL(s)) /\ FILL(s).nsize >= s.nsize
        /\ \A x \in Nat : x \in Members(FILL(s)) <=> x < nbits(s)
    BY <1>1, <1>2, Filled
  <2>2. FILL(s) # Null
    BY <1>1, <2>1, StaysSet
  <2>3. /\ IInv' /\ members' = [members EXCEPT ![h] = Members(FILL(s))]
        /\ members'[h] = Members(FILL(s)) /\ call' = <<"FILL", h>>
    BY <1>4, <1>11, <2>1, <2>2
  <2>4. Members(FILL(s)) \subseteq Nat /\ Members(s) \subseteq Nat
    BY <1>1, <2>1, Elementwise
  <2>5. Abstract!IsSegment(members'[h])
    <3>1. \A x \in Members(FILL(s)) : \A y \in 0 .. x : y \in Members(FILL(s))
      BY <1>10, <2>1, <2>4
    <3>2. 0 \in Members(FILL(s))
      BY <1>13, <2>1
    <3>. QED
      BY <2>3, <3>1, <3>2 DEF Abstract!IsSegment
  <2>7. members[h] \subseteq members'[h]
    BY <1>1, <1>14, <2>1, <2>3, <2>4
  <2>6. Abstract!Fill(h)
    BY <1>1, <2>3, <2>5, <2>7, AbstractSet DEF Abstract!Fill, Abstract!Becomes
  <2>. QED
    BY <2>3, <2>6, AbstractNext
<1>12. CASE Call(<<"invert", h>>, h, invert(s))
  <2>. DEFINE t == invert(s)
  <2>1. /\ IsBitmap(t) /\ t.nsize >= s.nsize
        /\ \A x \in Nat : x \in Members(t) <=> x < nbits(s) /\ x \notin Members(s)
    BY <1>1, <1>2, Filled
  <2>. HIDE DEF t
  <2>2. t # Null
    BY <1>1, <2>1, StaysSet
  <2>3. /\ IInv' /\ members' = [members EXCEPT ![h] = Members(t)]
        /\ members'[h] = Members(t) /\ call' = <<"invert", h>>
    BY <1>4, <1>12, <2>1, <2>2 DEF t
  <2>4. Members(t) \subseteq Nat /\ Members(s) \subseteq Nat
    BY <1>1, <2>1, Elementwise
  <2>6. Abstract!IsSegment(members[h] \cup members'[h])
    <3>1. \A x \in Nat : x \in Members(s) \cup Members(t) <=> x < nbits(s)
      BY <1>14, <2>1
    <3>2. Members(s) \cup Members(t) \subseteq Nat
      BY <2>4
    <3>3. \A x \in Members(s) \cup Members(t) : \A y \in 0 .. x : y \in Members(s) \cup Members(t)
      BY <1>10, <3>1, <3>2
    <3>4. 0 \in Members(s) \cup Members(t)
      BY <1>13, <3>1
    <3>. QED
      BY <1>1, <2>3, <3>3, <3>4 DEF Abstract!IsSegment
  <2>7. members'[h] \cap members[h] = {}
    BY <1>1, <2>1, <2>3, <2>4
  <2>8. Abstract!Invert(h)
    BY <1>1, <2>3, <2>6, <2>7, AbstractSet DEF Abstract!Invert, Abstract!Becomes
  <2>. QED
    BY <2>3, <2>8, AbstractNext
<1>. QED
  BY <1>5, <1>6, <1>8, <1>9, <1>11, <1>12 DEF Change, s

LEMMA Combines ==
  ASSUME IInv, NEW h \in Handles, NEW src \in Handles, NEW op \in Operations,
         SetOp(op, h, src)
  PROVE  IInv' /\ Abstract!Next
<1>. DEFINE d == set[h]
            s == set[src]
            r == set_op(op, d, s)
<1>1. /\ IsSet(h) /\ IsBitmap(d) /\ d.nsize >= DEFSIZE /\ members[h] = Members(d)
      /\ IsSet(src) /\ IsBitmap(s) /\ members[src] = Members(s)
      /\ Call(<<op, h, src>>, h, r)
  BY AbstractSet DEF SetOp
<1>7. r = set_op(op, d, s)
  OBVIOUS
<1>. HIDE DEF d, s, r
<1>2. /\ IsBitmap(r) /\ r.nsize >= d.nsize
      /\ Members(r) = Combined(op, Members(d), Members(s))
  BY <1>1, <1>7, Operated
<1>3. r # Null /\ r.nsize >= DEFSIZE /\ Elems(r) = Members(r)
  BY <1>1, <1>2, StaysSet DEF Elems
<1>4. IInv' /\ members' = [members EXCEPT ![h] = Members(r)] /\ call' = <<op, h, src>>
  BY <1>1, <1>2, <1>3, KeepCall
<1>5. /\ op = "UNION" => Members(r) = members[h] \cup members[src]
      /\ op = "INTERSECT" => Members(r) = members[h] \cap members[src]
      /\ op = "DIFFERENCE" =>
           Members(r) = (members[h] \ members[src]) \cup (members[src] \ members[h])
      /\ op = "ASSIGN" => Members(r) = members[src]
  BY <1>1, <1>2 DEF Combined
<1>6. Abstract!Combine(h, src)
  BY <1>1, <1>4, <1>5, AbstractSet DEF Operations, Abstract!Combine, Abstract!Union,
     Abstract!Intersect, Abstract!Difference, Abstract!Assign, Abstract!Becomes
<1>. QED
  BY <1>4, <1>6, AbstractNext

----------------------------------------------------------------------------
(***************************************************************************)
(* The loops over next_member().                                           *)
(***************************************************************************)

\* What the loop has got is what the set has below the place it has come to.
Walk ==
  walking # NONE =>
    /\ oset # walking => visited = <<>>
    /\ oset = walking =>
         \A x : (\E i \in DOMAIN visited : visited[i] = x)
                  <=> x \in Members(set[walking]) /\ x < current_member
    /\ \A i, j \in DOMAIN visited : i < j => visited[i] < visited[j]

LEMMA LeastElement ==
  ASSUME NEW S \in SUBSET Nat, S # {}
  PROVE  \E n \in S : \A m \in S : n <= m
<1>. DEFINE R == {ss \in Nat \X Nat : ss[1] < ss[2]}
<1>1. IsWellFoundedOn(R, Nat)
  BY NatLessThanWellFounded DEF OpToRel
<1>2. PICK n \in S : \A m \in S : ~(<<m, n>> \in R)
  <2>1. S \subseteq Nat
    OBVIOUS
  <2>. HIDE DEF R
  <2>. QED
    BY <1>1, <2>1, WFMin
<1>3. \A m \in S : ~(m < n)
  BY <1>2
<1>. QED
  BY <1>3

\* No element is in one of the words that next_member() skips.
LEMMA Skipped ==
  ASSUME NEW s, IsBitmap(s)
  PROVE  /\ FirstWord(s) \in Nat
         /\ \A x \in Members(s) : FirstWord(s) <= x
<1>. DEFINE used == {i \in 0 .. s.nsize - 1 : s.map[i] # {}}
            B    == BITS_IN_INT
            w    == IF used = {} THEN s.nsize
                    ELSE CHOOSE i \in used : \A j \in used : i <= j
<1>1. s.nsize \in Nat /\ B \in Nat \ {0}
  BY Parts, BitSetAssumption
<1>2. used \in SUBSET Nat
  BY <1>1
<1>3. FirstWord(s) = B * w
  BY DEF FirstWord
<1>4. \A x \in Members(s) : x \in Nat /\ DIV_INDEX(x) \in used
  BY Elementwise
<1>. HIDE DEF used
<1>5. w \in Nat /\ \A j \in used : w <= j
  <2>1. CASE used = {}
    BY <1>1, <2>1
  <2>2. CASE used # {}
    <3>1. \E i \in used : \A j \in used : i <= j
      BY <1>2, <2>2, LeastElement
    <3>2. w \in used /\ \A j \in used : w <= j
      BY <2>2, <3>1
    <3>. QED
      BY <1>2, <3>2
  <2>. QED
    BY <2>1, <2>2
<1>. HIDE DEF w
<1>6. B * w = w * B /\ w * B \in Nat
  BY <1>1, <1>5
<1>7. ASSUME NEW x \in Members(s)
      PROVE  w * B <= x
  <2>. DEFINE q == DIV_INDEX(x)
  <2>1. x \in Nat /\ q \in Nat /\ w <= q
    BY <1>4, <1>5, Cell
  <2>2. MOD_VAL(x) \in Nat /\ x = q * B + MOD_VAL(x)
    BY <1>1, <2>1, Cell
  <2>3. w < q => w * B + B <= q * B
    BY <1>5, <2>1, Order
  <2>4. q * B \in Nat
    BY <1>1, <2>1
  <2>. HIDE DEF q, B
  <2>5. w = q => w * B = q * B
    OBVIOUS
  <2>. QED
    BY <1>1, <1>5, <1>6, <2>1, <2>2, <2>3, <2>4, <2>5
<1>. QED
  BY <1>3, <1>6, <1>7

\* BeginWalk, EndPset and NextMember leave the sets as they were.
LEMMA WalkerStep ==
  ASSUME IInv,
         \/ \E h \in Handles : BeginWalk(h)
         \/ EndPset
         \/ NextMember
  PROVE  IInv' /\ Abstract!Next
<1>1. set' = set
  BY DEF BeginWalk, EndPset, NextMember
<1>2. Bitmaps' /\ members' = members
  BY <1>1, MembersOf DEF IInv, Bitmaps, IsSet
<1>3. ASSUME NEW h \in Handles, BeginWalk(h)
      PROVE  Walker'
  BY <1>1, <1>3 DEF BeginWalk, BeginLoop, ForgetOset, Walker, IsSet, IInv
<1>4. ASSUME EndPset
      PROVE  Walker'
  BY <1>2, <1>4 DEF EndPset, ForgetOset, Walker, IInv, IsSet
<1>5. ASSUME NextMember
      PROVE  Walker'
  <2>. DEFINE s     == set[walking]
              start == IF oset # walking THEN FirstWord(s) ELSE current_member
              left  == {x \in Members(s) : x >= start}
  <2>1. walking \in Handles /\ IsBitmap(s) /\ s # Null
    BY <1>5 DEF NextMember, IInv, Walker, Bitmaps, IsSet
  <2>2. Members(s) \subseteq Nat /\ s.nsize \in Nat /\ start \in Nat
    BY <2>1, Elementwise, Parts, Skipped DEF IInv, Walker
  <2>3. nbits(s) \in Nat
    BY <2>2, BitSetAssumption DEF nbits
  <2>4. /\ oset' = walking
        /\ \/ /\ current_member' = (IF start < nbits(s) THEN nbits(s) ELSE start) + 1
              /\ walking' = NONE /\ visited' = visited
           \/ \E x \in left : /\ current_member' = x + 1
                              /\ visited' = Append(visited, x)
                              /\ walking' = walking
    BY <1>5 DEF NextMember
  <2>5. left \subseteq Nat
    BY <2>2
  <2>. HIDE DEF s, start, left
  <2>6. \A x \in left : x + 1 \in Nat /\ Append(visited, x) \in Seq(Nat)
    BY <2>5 DEF IInv, Walker
  <2>7. (IF start < nbits(s) THEN nbits(s) ELSE start) + 1 \in Nat
    BY <2>2, <2>3
  <2>8. visited \in Seq(Nat)
    BY DEF IInv, Walker
  <2>9. current_member' \in Nat /\ visited' \in Seq(Nat) /\ walking' \in {NONE, walking}
    BY <2>4, <2>6, <2>7, <2>8
  <2>. QED
    BY <1>1, <2>1, <2>4, <2>9 DEF Walker, IInv, IsSet, s
<1>6. Abstract!Next
  <2>1. CASE NextMember
    <3>1. walking \in Handles /\ IsSet(walking) /\ call' = <<"next_member", walking>>
      BY <2>1 DEF NextMember, IInv, Walker
    <3>2. Abstract!NextMember(walking)
      BY <1>2, <3>1, AbstractSet DEF Abstract!NextMember
    <3>. QED
      BY <3>1, <3>2, AbstractNext
  <2>2. CASE call' = <<"next_member">>
    BY <1>2, <2>2 DEF Abstract!Next, Abstract!ForgetWalk
  <2>. QED
    BY <2>1, <2>2 DEF BeginWalk, EndPset
<1>. QED
  BY <1>2, <1>3, <1>4, <1>5, <1>6 DEF IInv

----------------------------------------------------------------------------
(***************************************************************************)
(* The steps together.                                                     *)
(***************************************************************************)
LEMMA Starts ==
  ASSUME Init
  PROVE  IInv /\ Walk /\ Abstract!Init
<1>1. set = [h \in Handles |-> Null] /\ IsBitmap(Null)
  BY EmptySets DEF Init
<1>2. Bitmaps
  BY <1>1 DEF Bitmaps, IsSet
<1>3. Walker /\ Walk
  BY DEF Init, Walker, Walk
<1>4. members = [h \in Handles |-> {-1}]
  BY <1>1, MembersOf DEF Elems
<1>. QED
  BY <1>2, <1>3, <1>4 DEF Init, IInv, Abstract!Init, Abstract!NULL

LEMMA Steps ==
  ASSUME IInv, [Next]_vars
  PROVE  IInv' /\ [Abstract!Next]_<<members, call>>
<1>1. CASE UNCHANGED vars
  BY <1>1, MembersOf DEF vars, IInv, Bitmaps, Walker, IsSet
<1>2. CASE NextMember \/ EndPset
  BY <1>2, WalkerStep
<1>3. ASSUME NEW h \in Handles,
             \/ NewSet(h) \/ DelSet(h) \/ Change(h) \/ BeginWalk(h)
             \/ \E other \in Handles :
                  \/ DupSet(h, other)
                  \/ \E op \in Operations : SetOp(op, h, other)
                  \/ SetTest(h, other)
      PROVE  IInv' /\ Abstract!Next
  <2>1. ASSUME NEW other \in Handles, SetTest(h, other)
        PROVE  IInv' /\ Abstract!Next
    BY <2>1, KeepTest, AbstractNext
  <2>. QED
    BY <1>3, <2>1, Creates, Changes, Combines, WalkerStep
<1>. QED
  BY <1>1, <1>2, <1>3 DEF Next

LEMMA WalkStep ==
  ASSUME IInv, Walk, NextMember
  PROVE  /\ Walk'
         /\ walking' = NONE =>
              /\ {visited[i] : i \in DOMAIN visited} = Members(set[walking])
              /\ \A i, j \in DOMAIN visited : i < j => visited[i] < visited[j]
<1>. DEFINE s     == set[walking]
            start == IF oset # walking THEN FirstWord(s) ELSE current_member
            left  == {x \in Members(s) : x >= start}
<1>1. walking # NONE /\ walking \in Handles /\ IsBitmap(s)
  BY DEF NextMember, IInv, Walker, Bitmaps
<1>2. Members(s) \subseteq Nat /\ start \in Nat /\ visited \in Seq(Nat)
  BY <1>1, Elementwise, Skipped DEF IInv, Walker
<1>3. /\ oset' = walking /\ set' = set
      /\ \/ left = {} /\ walking' = NONE /\ visited' = visited
         \/ \E x \in left : /\ \A y \in left : x <= y
                            /\ current_member' = x + 1
                            /\ visited' = Append(visited, x)
                            /\ walking' = walking
  BY DEF NextMember
<1>4. \A i, j \in DOMAIN visited : i < j => visited[i] < visited[j]
  BY <1>1 DEF Walk
<1>5. \A x : (\E i \in DOMAIN visited : visited[i] = x) <=> x \in Members(s) /\ x < start
  <2>1. CASE oset # walking
    <3>1. visited = <<>> /\ start = FirstWord(s)
      BY <1>1, <2>1 DEF Walk
    <3>2. \A x \in Members(s) : ~(x < start)
      BY <1>1, <1>2, <3>1, Skipped
    <3>. QED
      BY <3>1, <3>2
  <2>2. CASE oset = walking
    BY <1>1, <2>2 DEF Walk
  <2>. QED
    BY <2>1, <2>2
<1>6. left \subseteq Members(s) /\ \A x \in Members(s) : x \in left <=> ~(x < start)
  BY <1>2
<1>7. s = set[walking]
  OBVIOUS
<1>. HIDE DEF s, start, left
<1>8. CASE left = {} /\ walking' = NONE /\ visited' = visited
  <2>1. \A x \in Members(s) : x < start
    BY <1>6, <1>8
  <2>2. {visited[i] : i \in DOMAIN visited} = Members(s)
    BY <1>5, <2>1
  <2>3. Walk'
    BY <1>8 DEF Walk
  <2>. QED
    BY <1>4, <1>7, <2>2, <2>3
<1>9. ASSUME NEW x \in left,
             \A y \in left : x <= y, current_member' = x + 1,
             visited' = Append(visited, x), walking' = walking
      PROVE  Walk' /\ walking' # NONE
  <2>1. x \in Members(s) /\ x \in Nat /\ ~(x < start)
    BY <1>2, <1>6
  <2>2. /\ DOMAIN visited' = DOMAIN visited \cup {Len(visited) + 1}
        /\ \A i \in DOMAIN visited : visited'[i] = visited[i]
        /\ visited'[Len(visited) + 1] = x
        /\ DOMAIN visited = 1 .. Len(visited) /\ Len(visited) \in Nat
    BY <1>2, <1>9, <2>1
  <2>3. \A y : (\E i \in DOMAIN visited' : visited'[i] = y)
                 <=> (\E i \in DOMAIN visited : visited[i] = y) \/ y = x
    BY <2>2
  <2>4. \A y \in Members(s) : y < x + 1 <=> y < start \/ y = x
    BY <1>2, <1>6, <1>9, <2>1
  <2>5. \A y : (\E i \in DOMAIN visited' : visited'[i] = y)
                 <=> y \in Members(s) /\ y < x + 1
    BY <1>5, <2>1, <2>3, <2>4
  <2>6. \A i \in DOMAIN visited : visited[i] \in Nat /\ visited[i] < start
    BY <1>2, <1>5
  <2>7. \A i \in DOMAIN visited : visited[i] < x
    BY <1>2, <2>1, <2>6
  <2>8. \A i, j \in DOMAIN visited' : i < j => visited'[i] < visited'[j]
    <3>. SUFFICES ASSUME NEW i \in DOMAIN visited', NEW j \in DOMAIN visited', i < j
                  PROVE  visited'[i] < visited'[j]
      OBVIOUS
    <3>1. CASE j = Len(visited) + 1
      <4>1. i \in DOMAIN visited
        BY <2>2, <3>1
      <4>. QED
        BY <2>2, <2>7, <3>1, <4>1
    <3>2. CASE j \in DOMAIN visited
      <4>1. i \in DOMAIN visited
        BY <2>2, <3>2
      <4>. QED
        BY <1>4, <2>2, <3>2, <4>1
    <3>. QED
      BY <2>2, <3>1, <3>2
  <2>9. set'[walking'] = s /\ oset' = walking'
    BY <1>3, <1>7, <1>9
  <2>. QED
    BY <1>1, <1>9, <2>5, <2>8, <2>9 DEF Walk
<1>. QED
  BY <1>3, <1>8, <1>9

LEMMA WalkKept ==
  ASSUME IInv, Walk, [Next]_vars
  PROVE  Walk'
<1>1. CASE UNCHANGED vars
  BY <1>1 DEF vars, Walk
<1>2. ASSUME NEW h \in Handles, BeginWalk(h)
      PROVE  Walk'
  <2>1. visited' = <<>> /\ (walking' # NONE => oset' # walking')
    BY <1>2 DEF BeginWalk, BeginLoop, ForgetOset
  <2>. QED
    BY <2>1 DEF Walk
<1>3. ASSUME walking = NONE, walking' = walking
      PROVE  Walk'
  BY <1>3 DEF Walk
<1>4. ASSUME NEW h \in Handles,
             \/ NewSet(h) \/ DelSet(h) \/ Change(h)
             \/ \E other \in Handles :
                  \/ DupSet(h, other)
                  \/ \E op \in Operations : SetOp(op, h, other)
                  \/ SetTest(h, other)
      PROVE  Walk'
  BY <1>3, <1>4 DEF NewSet, DelSet, Change, DupSet, SetOp, SetTest, Call
<1>5. CASE EndPset
  BY <1>3, <1>5 DEF EndPset
<1>6. CASE NextMember
  BY <1>6, WalkStep
<1>. QED
  BY <1>1, <1>2, <1>4, <1>5, <1>6 DEF Next

----------------------------------------------------------------------------
(***************************************************************************)
(* Theorems.                                                               *)
(***************************************************************************)

\* Every set of lib/set.c is a map of whole words as long as its length has it, whatever
\* has been called, and every loop has got what is below the place it has come to.
THEOREM InductiveInvariant == Spec => [](IInv /\ Walk)
<1>1. Init => IInv /\ Walk
  BY Starts
<1>2. IInv /\ Walk /\ [Next]_vars => (IInv /\ Walk)'
  BY Steps, WalkKept
<1>. QED
  BY <1>1, <1>2, PTL DEF Spec

\* The sets are at least as long as the default, with a word of bits in every cell.
THEOREM TypeCorrect == Spec => []TypeOK
<1>1. IInv => TypeOK
  <2>. SUFFICES ASSUME IInv
                PROVE  TypeOK
    OBVIOUS
  <2>1. \A h \in Handles : /\ set[h].nsize \in Nat
                           /\ set[h].map \in [0 .. set[h].nsize - 1 -> Words]
                           /\ IsSet(h) => set[h].nsize >= DEFSIZE
    BY Parts DEF IInv, Bitmaps
  <2>. QED
    BY <2>1 DEF TypeOK, IInv, Walker
<1>. QED
  BY <1>1, InductiveInvariant, PTL

\* IS_EQUIVALENT and subset() are true of exactly the sets they name, and of _set_test() EQUIV
\* is, and INTER never said of sets without a common element.
THEOREM Answers == Spec => []AnswersTrue
<1>1. IInv => AnswersTrue
  BY Equivalent, SubsetRight, TestRight DEF IInv, Bitmaps, AnswersTrue
<1>. QED
  BY <1>1, InductiveInvariant, PTL

\* The maps implement sets of numbers without a bound: every call does to them what the
\* operation of its name does, and its outcome does not depend on how long the maps are.
THEOREM Implements == Spec => ImplementsSets
<1>1. Init => Abstract!Init
  BY Starts
<1>2. IInv /\ [Next]_vars => [Abstract!Next]_<<members, call>>
  BY Steps
<1>. QED
  BY <1>1, <1>2, InductiveInvariant, PTL DEF Spec, ImplementsSets, Abstract!Spec

\* A loop over next_member() that ends has got every element of its set once, in order.
THEOREM WalksRight == Spec => WalkVisitsAll
<1>1. IInv /\ Walk /\ [Next]_vars =>
        [WalkEnds =>
           /\ {visited[i] : i \in DOMAIN visited} = Members(set[walking])
           /\ \A i, j \in DOMAIN visited : i < j => visited[i] < visited[j]]_vars
  <2>. SUFFICES ASSUME IInv, Walk, Next, WalkEnds
                PROVE  /\ {visited[i] : i \in DOMAIN visited} = Members(set[walking])
                       /\ \A i, j \in DOMAIN visited : i < j => visited[i] < visited[j]
    OBVIOUS
  <2>1. NextMember
    BY DEF WalkEnds, Next, NewSet, DelSet, Change, DupSet, SetOp, SetTest, Call, BeginWalk,
           EndPset
  <2>. QED
    BY <2>1, WalkStep DEF WalkEnds
<1>. QED
  BY <1>1, InductiveInvariant, PTL DEF Spec, WalkVisitsAll
============================================================================
