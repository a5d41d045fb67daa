---------------------------- MODULE UnfinishedSet ----------------------------
(***************************************************************************)
(* What add_unfinished() and get_unfinished() of yystate.c promise: a set  *)
(* of state numbers of bounded size, from which the least number is taken. *)
(* LrStates uses the set in this form; UnfinishedTree implements it.       *)
(***************************************************************************)
EXTENDS Naturals, FiniteSets

CONSTANTS
  StateNumbers,      \* the numbers lr() gives its states
  MAX_UNFINISHED     \* how many of them may be unfinished at a time

VARIABLES
  members,           \* the unfinished states
  result,            \* what the last get_unfinished() returned: {n}, or {} for NULL
  fatal              \* error(FATAL, ...) has ended the run

Init == members = {} /\ result = {} /\ fatal = FALSE

Add(n) ==
  /\ ~fatal
  /\ n \in members \/ Cardinality(members) < MAX_UNFINISHED
  /\ members' = members \cup {n}
  /\ UNCHANGED <<result, fatal>>

TakeLeast(n) ==
  /\ ~fatal
  /\ n \in members
  /\ \A other \in members : n <= other
  /\ members' = members \ {n}
  /\ result' = {n}
  /\ UNCHANGED fatal

NothingLeft ==
  /\ ~fatal
  /\ members = {}
  /\ result' = {}
  /\ UNCHANGED <<members, fatal>>

Overflow ==
  /\ ~fatal
  /\ Cardinality(members) = MAX_UNFINISHED
  /\ StateNumbers \ members # {}
  /\ fatal' = TRUE
  /\ UNCHANGED <<members, result>>

Next ==
  \/ \E n \in StateNumbers : Add(n) \/ TakeLeast(n)
  \/ NothingLeft
  \/ Overflow

Spec == Init /\ [][Next]_<<members, result, fatal>>
============================================================================
