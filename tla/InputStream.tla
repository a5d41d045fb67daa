----------------------------- MODULE InputStream -----------------------------
(***************************************************************************)
(* What the comments of lib/input.c promise to a scanner: the file, behind *)
(* a newline of its own, as one text that is read in order, with marks in  *)
(* it.  There is no buffer here, and no end but that of the text.          *)
(* InputBuffer is compared with it, call by call.                          *)
(***************************************************************************)
EXTENDS Integers, Sequences

CONSTANTS
  Files,             \* the texts an input file may hold
  MAXLEX,            \* size a lexeme is sure to have room for
  UnputChar          \* the character a scanner unputs

NEWLINE == 10
NONE    == 256       \* no result: no value of a char is that large
NULL    == -1        \* the null pointer

VARIABLES
  text,              \* newline and file
  next,              \* how many characters have been read
  sMark, eMark,      \* start and end of the lexeme, as numbers of characters in front
  pMark,             \* start of the previous lexeme, or NULL
  ret                \* what the last call of ii_advance() returned

vars == <<text, next, sMark, eMark, pMark, ret>>

Init ==
  /\ text \in {<<NEWLINE>> \o file : file \in Files}
  /\ next = 0
  /\ sMark = 0
  /\ eMark = 0
  /\ pMark = NULL
  /\ ret = NONE

LeftEdge == IF pMark = NULL THEN sMark ELSE pMark

\* The next character; 0 behind the last one; -1 only when more than MAXLEX characters
\* have to be kept.
Advance ==
  /\ \/ /\ next < Len(text)
        /\ ret' = text[next + 1]
        /\ next' = next + 1
     \/ next = Len(text) /\ ret' = 0 /\ UNCHANGED next
     \/ next - LeftEdge > MAXLEX /\ ret' = -1 /\ UNCHANGED next
  /\ UNCHANGED <<text, sMark, eMark, pMark>>

\* ii_flush(1) for a result below 0 gives both lexemes up, if it has to.
Flush ==
  /\ ret < 0
  /\ \/ sMark' = next /\ eMark' = next /\ pMark' = next
     \/ UNCHANGED <<sMark, eMark, pMark>>
  /\ ret' = NONE
  /\ UNCHANGED <<text, next>>

\* The marks.  ii_input() sets the end mark behind the character it returns.
MarkStart ==
  sMark' = next /\ eMark' = next /\ ret' = NONE /\ UNCHANGED <<text, next, pMark>>

MarkEnd == eMark' = next /\ ret' \in {ret, NONE} /\ UNCHANGED <<text, next, sMark, pMark>>

MoveStart ==
  /\ sMark < eMark
  /\ sMark' = sMark + 1 /\ ret' = NONE /\ UNCHANGED <<text, next, eMark, pMark>>

ToMark == next' = eMark /\ ret' = NONE /\ UNCHANGED <<text, sMark, eMark, pMark>>

MarkPrev == pMark' = sMark /\ ret' = NONE /\ UNCHANGED <<text, next, sMark, eMark>>

\* What is pushed back is not in the lexeme.
GoBack(n) ==
  /\ next' = n
  /\ eMark' = IF n < eMark THEN n ELSE eMark
  /\ ret' = NONE
  /\ UNCHANGED <<sMark, pMark>>

\* ii_pushback(): as far as the start of the lexeme.
Pushback == (\E n \in sMark .. next : GoBack(n)) /\ UNCHANGED text

\* ii_unput(): the character takes the place of the one pushed back.  At the start of the
\* lexeme it would have to be pushed past the mark, and is lost.
Unput ==
  \/ next > sMark /\ GoBack(next - 1) /\ text' = [text EXCEPT ![next] = UnputChar]
  \/ next = sMark /\ GoBack(next) /\ UNCHANGED text

\* Another call is made: the result is gone.
Forget == ret' = NONE /\ UNCHANGED <<text, next, sMark, eMark, pMark>>

Next ==
  \/ Advance \/ Flush \/ Forget
  \/ MarkStart \/ MarkEnd \/ MoveStart \/ ToMark \/ MarkPrev
  \/ Pushback \/ Unput

Spec == Init /\ [][Next]_vars
============================================================================
