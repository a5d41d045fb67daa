------------------------------- MODULE BitSet -------------------------------
(***************************************************************************)
(* The sets of lib/set.c and include/set.h: a map of machine words, made   *)
(* longer when an element is added that it has no bit for.  A word is the  *)
(* set of its bits that are 1, so that |, & and ^ are set operations.      *)
(*                                                                         *)
(* COMPLEMENT and sethash() are left out: nothing uses them, so that TEST  *)
(* is MEMBER.  So is the sign of setcmp(), of which IS_EQUIVALENT reads    *)
(* only whether it is 0.                                                   *)
(***************************************************************************)
EXTENDS Integers, Sequences, FiniteSets

CONSTANTS
  Handles,           \* the SET pointers of the client
  Elements,          \* the elements it adds and removes
  BITS_IN_INT,       \* bits in one cell
  DEFSIZE            \* cells in default set

ASSUME BitSetAssumption ==
  /\ Elements \subseteq Nat
  /\ BITS_IN_INT \in Nat \ {0} /\ DEFSIZE \in Nat \ {0}

VARIABLES
  set,               \* handle -> SET
  oset,              \* next_member(): the set that was walked last, or NONE
  current_member,    \* next_member(): the number behind the last element
  walking,           \* the set in a loop over next_member(), or NONE
  visited,           \* what the loop has got
  call               \* history: the last call, its name and its arguments

vars == <<set, oset, current_member, walking, visited, call>>

NONE == "none"

----------------------------------------------------------------------------
DIV_INDEX(x) == x \div BITS_IN_INT
MOD_VAL(x)   == x % BITS_IN_INT

\* Whole multiples of the default size.
ROUND(x) == ((DIV_INDEX(x) + DEFSIZE) \div DEFSIZE) * DEFSIZE

ZeroMap(size) == [i \in 0 .. size - 1 |-> {}]

Null   == [nsize |-> 0, map |-> ZeroMap(0)]
newset == [nsize |-> DEFSIZE, map |-> ZeroMap(DEFSIZE)]

nbits(s) == s.nsize * BITS_IN_INT

enlarge(need, s) ==
  IF need <= s.nsize THEN s
  ELSE [nsize |-> need,
        map   |-> [i \in 0 .. need - 1 |-> IF i < s.nsize THEN s.map[i] ELSE {}]]

\* Mutant: the number of the bit is not taken modulo the word's size.
SetFarBit(s, x) == [s EXCEPT !.map[DIV_INDEX(x)] = @ \cup {x}]

SetBit(s, x) == [s EXCEPT !.map[DIV_INDEX(x)] = @ \cup {MOD_VAL(x)}]

ADD(s, x) == IF x >= nbits(s) THEN SetBit(enlarge(ROUND(x), s), x) ELSE SetBit(s, x)

REMOVE(s, x) ==
  IF x >= nbits(s) THEN s
  ELSE [s EXCEPT !.map[DIV_INDEX(x)] = @ \ {MOD_VAL(x)}]

MEMBER(s, x) == x < nbits(s) /\ MOD_VAL(x) \in s.map[DIV_INDEX(x)]

\* What num_ele() counts.
Members(s) == {x \in 0 .. nbits(s) - 1 : MEMBER(s, x)}

\* The four operations on two words of the same index.
Combined(op, d, s) ==
  CASE op = "UNION"      -> d \cup s
    [] op = "INTERSECT"  -> d \cap s
    [] op = "DIFFERENCE" -> (d \ s) \cup (s \ d)
    [] op = "ASSIGN"     -> s

Operations == {"UNION", "INTERSECT", "DIFFERENCE", "ASSIGN"}

\* Mutant: a longer destination keeps its words behind the source.
KeepTail(op, word) == word

\* A word of the destination behind the last one of the source.
TailWord(op, word) == IF op \in {"INTERSECT", "ASSIGN"} THEN {} ELSE word

set_op(op, dest, src) ==
  LET d == enlarge(src.nsize, dest)
  IN  [d EXCEPT !.map = [i \in 0 .. d.nsize - 1 |->
         IF i < src.nsize THEN Combined(op, d.map[i], src.map[i]) ELSE TailWord(op, d.map[i])]]

\* _set_test(), which makes both sets as long as the longer one before it compares them.
Longer(s, t) == enlarge(t.nsize, s)

set_test(s, t) ==
  LET a      == Longer(s, t).map
      b      == Longer(t, s).map
      differ == {i \in DOMAIN a : a[i] # b[i]}
  IN  IF \E i \in differ : a[i] \cap b[i] # {} THEN "INTER"
      ELSE IF differ # {} THEN "DISJ" ELSE "EQUIV"

\* setcmp() == 0
IS_EQUIVALENT(s, t) ==
  /\ \A i \in 0 .. s.nsize - 1 : s.map[i] = IF i < t.nsize THEN t.map[i] ELSE {}
  /\ \A i \in s.nsize .. t.nsize - 1 : t.map[i] = {}

\* Mutant: the words behind the common ones are not looked at.
CommonSubset(s, possible_subset) ==
  \A i \in 0 .. possible_subset.nsize - 1 :
    i < s.nsize => possible_subset.map[i] \cap s.map[i] = possible_subset.map[i]

subset(s, possible_subset) ==
  \A i \in 0 .. possible_subset.nsize - 1 :
    IF i < s.nsize THEN possible_subset.map[i] \cap s.map[i] = possible_subset.map[i]
    ELSE possible_subset.map[i] = {}

invert(s) ==
  [s EXCEPT !.map = [i \in 0 .. s.nsize - 1 |-> (0 .. BITS_IN_INT - 1) \ s.map[i]]]

CLEAR(s) == [s EXCEPT !.map = ZeroMap(s.nsize)]
FILL(s)  == [s EXCEPT !.map = [i \in 0 .. s.nsize - 1 |-> 0 .. BITS_IN_INT - 1]]

----------------------------------------------------------------------------
Init ==
  /\ set = [h \in Handles |-> Null]
  /\ oset = NONE
  /\ current_member = 0
  /\ walking = NONE
  /\ visited = <<>>
  /\ call = <<>>

IsSet(h) == set[h] # Null

\* The call c on a set, between two loops over next_member().
Call(c, h, s) ==
  /\ walking = NONE
  /\ set' = [set EXCEPT ![h] = s]
  /\ visited' = <<>>
  /\ call' = c
  /\ UNCHANGED <<oset, current_member, walking>>

Alone(h) == \A other \in Handles \ {h} : ~IsSet(other)

\* malloc() may return the place of a set that delset() has freed.  Bound: while
\* next_member() knows a set, which matters to loops alone, there is no second one.
NewSet(h) == ~IsSet(h) /\ (Alone(h) \/ oset = NONE) /\ Call(<<"newset", h>>, h, newset)

DupSet(h, src) ==
  ~IsSet(h) /\ IsSet(src) /\ oset = NONE /\ Call(<<"dupset", h, src>>, h, set[src])

DelSet(h) == IsSet(h) /\ Call(<<"delset", h>>, h, Null)

Change(h) ==
  /\ IsSet(h)
  /\ \/ \E x \in Elements : \/ Call(<<"ADD", h, x>>, h, ADD(set[h], x))
                            \/ Call(<<"REMOVE", h, x>>, h, REMOVE(set[h], x))
     \/ Call(<<"truncate", h>>, h, newset)
     \/ Call(<<"CLEAR", h>>, h, CLEAR(set[h]))
     \/ Call(<<"FILL", h>>, h, FILL(set[h]))
     \/ Call(<<"invert", h>>, h, invert(set[h]))

SetOp(op, h, src) ==
  IsSet(h) /\ IsSet(src) /\ Call(<<op, h, src>>, h, set_op(op, set[h], set[src]))

\* IS_DISJOINT and IS_INTERSECTING have an effect on both sets.
SetTest(h, other) ==
  /\ IsSet(h) /\ IsSet(other)
  /\ walking = NONE
  /\ set' = [set EXCEPT ![h] = Longer(set[h], set[other]), ![other] = Longer(set[other], set[h])]
  /\ visited' = <<>>
  /\ call' = <<"set_test", h, other>>
  /\ UNCHANGED <<oset, current_member, walking>>

\* next_member(NULL); current_member is not read before it is set again.
ForgetOset == oset' = NONE /\ current_member' = 0

\* Mutant: the set walked last is still known.
KeepOset == UNCHANGED <<oset, current_member>>

BeginLoop == ForgetOset

\* for (next_member(NULL); (token = next_member(set)) >= 0; ), and the loop of pset().  A
\* loop looks at no other set; bound: there is none.
BeginWalk(h) ==
  /\ walking = NONE
  /\ IsSet(h)
  /\ Alone(h)
  /\ BeginLoop
  /\ walking' = h
  /\ visited' = <<>>
  /\ call' = <<"next_member">>
  /\ UNCHANGED set

\* next_member(NULL) behind the loop, in pset().
EndPset ==
  /\ walking = NONE
  /\ ForgetOset
  /\ visited' = <<>>
  /\ call' = <<"next_member">>
  /\ UNCHANGED <<set, walking>>

\* Behind the words at the front that are 0.
FirstWord(s) ==
  LET used == {i \in 0 .. s.nsize - 1 : s.map[i] # {}}
  IN  BITS_IN_INT * (IF used = {} THEN s.nsize ELSE CHOOSE i \in used : \A j \in used : i <= j)

\* next_member(walking)
NextMember ==
  LET s     == set[walking]
      start == IF oset # walking THEN FirstWord(s) ELSE current_member
      left  == {x \in Members(s) : x >= start}
  IN  /\ walking # NONE
      /\ oset' = walking
      /\ IF left = {}
         THEN /\ current_member' = (IF start < nbits(s) THEN nbits(s) ELSE start) + 1
              /\ walking' = NONE
              /\ UNCHANGED visited
         ELSE \E x \in left :
              /\ \A y \in left : x <= y
              /\ current_member' = x + 1
              /\ visited' = Append(visited, x)
              /\ UNCHANGED walking
      /\ call' = <<"next_member", walking>>
      /\ UNCHANGED set

Next ==
  \/ \E h \in Handles :
       \/ NewSet(h) \/ DelSet(h) \/ Change(h) \/ BeginWalk(h)
       \/ \E other \in Handles :
            \/ DupSet(h, other)
            \/ \E op \in Operations : SetOp(op, h, other)
            \/ SetTest(h, other)
  \/ NextMember
  \/ EndPset

Spec == Init /\ [][Next]_vars

----------------------------------------------------------------------------
(***************************************************************************)
(* Properties.                                                             *)
(***************************************************************************)
Words == SUBSET (0 .. BITS_IN_INT - 1)

TypeOK ==
  /\ \A h \in Handles :
       /\ set[h].nsize \in Nat
       /\ set[h].map \in [0 .. set[h].nsize - 1 -> Words]
       /\ IsSet(h) => set[h].nsize >= DEFSIZE
  /\ oset \in Handles \cup {NONE}
  /\ walking \in Handles \cup {NONE}
  /\ walking # NONE => IsSet(walking)
  /\ current_member \in Nat
  /\ visited \in Seq(Nat)

\* The sets behind the handles.
members == [h \in Handles |-> IF IsSet(h) THEN Members(set[h]) ELSE {-1}]

\* Lengths, words and bits do not show: every call does to the elements of the sets it names
\* what the operation of its name does to plain sets, whatever the lengths of its two maps,
\* and a comparison and next_member() change none.
Abstract == INSTANCE PlainSets

ImplementsSets == Abstract!Spec

\* What is said about two sets does not depend on the lengths of their maps either: whether
\* they are equal, and whether one holds the other.  Of _set_test() as much holds as that
\* two sets are EQUIV only when equal, and INTER only when they have a common element; sets
\* with one may be DISJ, when it is in equal words.
AnswersTrue ==
  \A h, other \in Handles :
    LET s == set[h]
        t == set[other]
    IN  IsSet(h) /\ IsSet(other) =>
          /\ IS_EQUIVALENT(s, t) <=> Members(s) = Members(t)
          /\ subset(s, t) <=> Members(t) \subseteq Members(s)
          /\ set_test(s, t) = "EQUIV" <=> Members(s) = Members(t)
          /\ set_test(s, t) = "INTER" => Members(s) \cap Members(t) # {}

WalkEnds == walking # NONE /\ walking' = NONE

\* A loop over next_member() gets every element once, in ascending order, also when the
\* loop before it was over the same set, or over one that was at the same place.
WalkVisitsAll ==
  [][WalkEnds =>
       /\ {visited[i] : i \in DOMAIN visited} = Members(set[walking])
       /\ \A i, j \in DOMAIN visited : i < j => visited[i] < visited[j]]_vars
============================================================================
