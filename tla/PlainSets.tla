------------------------------ MODULE PlainSets ------------------------------
(***************************************************************************)
(* What lib/set.c promises: sets of natural numbers without a bound, and   *)
(* of each call what it does to them.  DIFFERENCE is the symmetric         *)
(* difference, and invert() and FILL leave open how far the set of all     *)
(* numbers goes.  BitSet implements it.                                    *)
(***************************************************************************)
EXTENDS Integers

CONSTANTS
  Handles,           \* the SET pointers of the client
  Elements           \* the elements it adds and removes

NULL == {-1}         \* no set behind the pointer

VARIABLES
  members,           \* handle -> the elements of its set, or NULL
  call               \* the last call, its name and its arguments

Init == members = [h \in Handles |-> NULL] /\ call = <<>>

IsSet(h) == members[h] # NULL

Becomes(h, elements) == members' = [members EXCEPT ![h] = elements]

\* All numbers up to some number.
IsSegment(numbers) == 0 \in numbers /\ \A x \in numbers : \A y \in 0 .. x : y \in numbers

New(h) == call' = <<"newset", h>> /\ ~IsSet(h) /\ Becomes(h, {})

Duplicate(h, src) ==
  call' = <<"dupset", h, src>> /\ ~IsSet(h) /\ IsSet(src) /\ Becomes(h, members[src])

Delete(h) == call' = <<"delset", h>> /\ IsSet(h) /\ Becomes(h, NULL)

Empty(h) == call' \in {<<"truncate", h>>, <<"CLEAR", h>>} /\ IsSet(h) /\ Becomes(h, {})

Add(h, x) == call' = <<"ADD", h, x>> /\ IsSet(h) /\ Becomes(h, members[h] \cup {x})

Remove(h, x) == call' = <<"REMOVE", h, x>> /\ IsSet(h) /\ Becomes(h, members[h] \ {x})

Union(h, src) ==
  call' = <<"UNION", h, src>> /\ Becomes(h, members[h] \cup members[src])

Intersect(h, src) ==
  call' = <<"INTERSECT", h, src>> /\ Becomes(h, members[h] \cap members[src])

Difference(h, src) ==
  /\ call' = <<"DIFFERENCE", h, src>>
  /\ Becomes(h, (members[h] \ members[src]) \cup (members[src] \ members[h]))

Assign(h, src) == call' = <<"ASSIGN", h, src>> /\ Becomes(h, members[src])

Combine(h, src) ==
  /\ IsSet(h) /\ IsSet(src)
  /\ Union(h, src) \/ Intersect(h, src) \/ Difference(h, src) \/ Assign(h, src)

Fill(h) ==
  /\ call' = <<"FILL", h>>
  /\ IsSet(h)
  /\ members[h] \subseteq members'[h]
  /\ IsSegment(members'[h])
  /\ Becomes(h, members'[h])

Invert(h) ==
  /\ call' = <<"invert", h>>
  /\ IsSet(h)
  /\ members'[h] \cap members[h] = {}
  /\ IsSegment(members[h] \cup members'[h])
  /\ Becomes(h, members'[h])

\* What changes no set.
Compare(h, other) ==
  call' = <<"set_test", h, other>> /\ IsSet(h) /\ IsSet(other) /\ UNCHANGED members

NextMember(h) == call' = <<"next_member", h>> /\ IsSet(h) /\ UNCHANGED members

ForgetWalk == call' = <<"next_member">> /\ UNCHANGED members

Next ==
  \/ \E h \in Handles :
       \/ New(h) \/ Delete(h) \/ Empty(h) \/ Fill(h) \/ Invert(h) \/ NextMember(h)
       \/ \E x \in Elements : Add(h, x) \/ Remove(h, x)
       \/ \E src \in Handles : Duplicate(h, src) \/ Combine(h, src) \/ Compare(h, src)
  \/ ForgetWalk

Spec == Init /\ [][Next]_<<members, call>>
============================================================================
