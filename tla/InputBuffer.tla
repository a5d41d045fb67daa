----------------------------- MODULE InputBuffer -----------------------------
(***************************************************************************)
(* The input system of generated scanners (lib/input.c), from the time     *)
(* ii_newfile() has opened the one input file: a buffer of BUFSIZE chars   *)
(* in which the text between the leftmost mark and End_buf is moved to the *)
(* front when the scanner comes near to its end.                           *)
(*                                                                         *)
(* A scanner makes the calls in any order that the comments allow.  When   *)
(* the parser has accepted, tail() of main.c copies the rest of the file.  *)
(* A pointer into the buffer is the index of the character it points to,   *)
(* a char is its value: ii_advance() returns a byte above 127 as a number  *)
(* below 0.                                                                *)
(***************************************************************************)
EXTENDS Integers, Sequences, FiniteSets

CONSTANTS
  Files,             \* the texts an input file may hold
  MAXLEX,            \* maximum lexeme size, and the unit of reading
  MAXLOOK,           \* maximum amount of lookahead
  UnputChar,         \* the character a scanner unputs
  UnputPlaces        \* where in the text it may do so

Chars == -128 .. 127

ASSUME InputAssumption ==
  /\ MAXLEX \in Nat /\ MAXLOOK \in Nat /\ 1 <= MAXLOOK /\ MAXLOOK < MAXLEX
  /\ \A file \in Files : file \in Seq(Chars)
  /\ UnputChar \in Chars

NEWLINE == 10
NONE    == 256       \* no result: no value of a char is that large
NULL    == -1        \* the null pointer

BUFSIZE == MAXLEX * 3 + 2 * MAXLOOK
END     == BUFSIZE

VARIABLES
  rest,              \* what Readp() has still to deliver
  Start_buf,         \* the buffer
  End_buf, next,     \* behind the last character read in; the next one to deliver
  sMark, eMark,      \* start and end of the current lexeme
  pMark, pLength,    \* start of the previous lexeme, or NULL, and its length
  Lineno, Mline,     \* lines read, and that when the end was marked
  Termchar,          \* the character ii_term() has put a NUL on, or 0
  Eof_read,          \* end of file has been read
  been_called,       \* ii_advance() has been called
  ret,               \* what ii_advance() returned, until another call is made
  caller,            \* who called ii_advance(): "scanner", "input", "terminated", "tail"
  pc,                \* "idle", in "advance", "read", "mark" or "tail"; "done" or "exit"
  text,              \* history: newline and file, with what ii_unput() put there
  shifted,           \* history: how far Start_buf[0] is from the start of the text
  copied             \* history: what tail() has written

places == <<next, sMark, eMark, pMark>>
lines  == <<Lineno, Mline>>
file   == <<rest, Start_buf, End_buf, Eof_read, shifted>>
hist   == <<text, copied>>
vars   == <<file, places, lines, pLength, Termchar, been_called, ret, caller, pc, hist>>

\* ii_newfile(), called once by parse_args().
Init ==
  /\ rest \in Files
  /\ Start_buf = [p \in 0 .. BUFSIZE - 1 |-> 0]
  /\ End_buf = END
  /\ next = END
  /\ sMark = END
  /\ eMark = END
  /\ pMark = END
  /\ pLength = 0
  /\ Lineno = 1
  /\ Mline = 1
  /\ Termchar = 0
  /\ Eof_read = FALSE
  /\ been_called = FALSE
  /\ ret = NONE
  /\ caller = "scanner"
  /\ pc = "idle"
  /\ text = <<NEWLINE>> \o rest
  /\ shifted = -END
  /\ copied = <<>>

----------------------------------------------------------------------------
\* Mutants: the characters still in the buffer are forgotten; the flush comes one late.
NothingToRead == Eof_read
DangerLate    == End_buf - MAXLOOK + 1

NO_MORE_CHARS == Eof_read /\ next >= End_buf

DANGER == End_buf - MAXLOOK

Unterminated == Termchar = 0

\* Mutants: the NUL stays; the previous lexeme is given up.
NulStays   == Start_buf
start_only == sMark

\* *next with the character that ii_term() took.
Unterm == IF Termchar # 0 THEN [Start_buf EXCEPT ![next] = Termchar] ELSE Start_buf

\* The leftmost character to keep.
left_edge == IF pMark # NULL THEN pMark ELSE sMark

\* memmove() of everything from `left' on, then ii_fillbuf() with whole units of MAXLEX.
Need(copy_amt) == ((END - copy_amt) \div MAXLEX) * MAXLEX

Least(m, n) == IF m < n THEN m ELSE n

Got(left) == Least(Need(End_buf - left), Len(rest))

MoveToFront(buffer, left) ==
  LET copy_amt == End_buf - left
      end      == copy_amt + Got(left)
  IN  /\ Got(left) > 0
      /\ Start_buf' = [p \in 0 .. BUFSIZE - 1 |->
                         IF p < copy_amt THEN buffer[left + p]
                         ELSE IF p < end THEN rest[p - copy_amt + 1]
                         ELSE buffer[p]]
      /\ End_buf' = end
      /\ rest' = SubSeq(rest, Got(left) + 1, Len(rest))
      /\ Eof_read' = (Got(left) < Need(copy_amt))
      /\ shifted' = shifted + left

\* ferr(), when nothing can be read: the file is at its end, or the buffer is full.
CannotRead(left) ==
  /\ Got(left) = 0
  /\ pc' = "exit"
  /\ UNCHANGED <<file, places, lines, pLength, Termchar, ret>>

\* The marks follow the text.
Move(place, start, end, previous, left) ==
  /\ next' = place - left
  /\ sMark' = start - left
  /\ eMark' = end - left
  /\ pMark' = IF previous # NULL THEN previous - left ELSE NULL

----------------------------------------------------------------------------
\* ii_advance() is called, by ii_input() with the NUL of ii_term() taken out.  The first
\* call ever pushes a newline into the empty buffer.
CallAdvance(who) ==
  /\ pc = "idle"
  /\ Unterminated <=> who # "terminated"
  /\ caller' = who
  /\ pc' = "advance"
  /\ Termchar' = 0
  /\ IF been_called
     THEN /\ Start_buf' = Unterm
          /\ UNCHANGED <<places, lines, pLength, shifted>>
     ELSE /\ Start_buf' = [Start_buf EXCEPT ![END - 1] = NEWLINE]
          /\ next' = END - 1
          /\ sMark' = END - 1
          /\ eMark' = END - 1
          /\ pMark' = NULL
          /\ pLength' = 0
          /\ Lineno' = Lineno - 1
          /\ Mline' = Mline - 1
          /\ shifted' = 1 - END
  /\ been_called' = TRUE
  /\ ret' = NONE
  /\ UNCHANGED <<rest, End_buf, Eof_read, hist>>

\* What comes behind the call.
After(who) ==
  CASE who = "scanner" -> "idle"
    [] who \in {"input", "terminated"} -> "mark"
    [] who = "tail" -> "tail"

Returns(value) ==
  /\ ret' = value
  /\ pc' = After(caller)
  /\ UNCHANGED <<file, sMark, eMark, pMark, Mline, pLength, Termchar, been_called, caller, hist>>

AdvanceAtEnd ==
  /\ pc = "advance"
  /\ NO_MORE_CHARS
  /\ Returns(0)
  /\ UNCHANGED <<next, Lineno>>

\* Mutant: room for less than a whole read is taken for enough.
NoRoomAtAll(left) == left = 0

NotEnoughRoom(left) == left < MAXLEX

\* ii_flush(0) < 0
AdvanceRefused ==
  /\ pc = "advance"
  /\ ~Eof_read
  /\ next >= DANGER
  /\ NotEnoughRoom(left_edge)
  /\ Returns(-1)
  /\ UNCHANGED <<next, Lineno>>

\* ii_flush(0) makes room.
FlushInAdvance ==
  /\ pc = "advance"
  /\ ~Eof_read
  /\ next >= DANGER
  /\ ~NotEnoughRoom(left_edge)
  /\ \/ CannotRead(left_edge)
     \/ /\ MoveToFront(Start_buf, left_edge)
        /\ Move(next, sMark, eMark, pMark, left_edge)
        /\ pc' = "read"
        /\ UNCHANGED <<lines, pLength, Termchar, ret>>
  /\ UNCHANGED <<been_called, caller, hist>>

CountsLine(char) == IF char = NEWLINE THEN 1 ELSE 0

\* return *next++
AdvanceReads ==
  /\ \/ pc = "read"
     \/ pc = "advance" /\ ~NO_MORE_CHARS /\ (Eof_read \/ next < DANGER)
  /\ Lineno' = Lineno + CountsLine(Start_buf[next])
  /\ next' = next + 1
  /\ Returns(Start_buf[next])

\* ii_term()
PutNul(buffer, place) ==
  /\ Termchar' = buffer[place]
  /\ Start_buf' = [buffer EXCEPT ![place] = 0]

\* ii_input() marks the end of the lexeme, and terminates it again.
InputReturns ==
  /\ pc = "mark"
  /\ eMark' = next
  /\ Mline' = Lineno
  /\ IF caller = "terminated" THEN PutNul(Start_buf, next) ELSE UNCHANGED <<Termchar, Start_buf>>
  /\ pc' = "idle"
  /\ UNCHANGED <<rest, End_buf, Eof_read, shifted, next, sMark, pMark, Lineno, pLength,
                 been_called, ret, caller, hist>>

----------------------------------------------------------------------------
\* ii_flush(1), called for a result below 0, by the scanner with the NUL taken out: the
\* lexemes are given up if there is no room for them.
ForcedFlush ==
  /\ IF Eof_read
     THEN /\ Start_buf' = Unterm
          /\ UNCHANGED <<rest, End_buf, Eof_read, shifted, places, lines, pLength>>
     ELSE IF NotEnoughRoom(left_edge)
     THEN /\ MoveToFront(Unterm, next)
          /\ Move(next, next, next, next, next)
          /\ Mline' = Lineno
          /\ pLength' = 0
          /\ UNCHANGED Lineno
     ELSE /\ MoveToFront(Unterm, left_edge)
          /\ Move(next, sMark, eMark, pMark, left_edge)
          /\ UNCHANGED <<lines, pLength>>
  /\ Termchar' = 0
  /\ ret' = NONE

ForcedFlushFails ==
  /\ ~Eof_read
  /\ CannotRead(IF NotEnoughRoom(left_edge) THEN next ELSE left_edge)

ScannerFlush ==
  /\ pc = "idle"
  /\ ret < 0
  /\ ForcedFlushFails \/ (ForcedFlush /\ UNCHANGED pc)
  /\ UNCHANGED <<been_called, caller, hist>>

----------------------------------------------------------------------------
\* The other calls of the scanner.
Idle == pc = "idle" /\ ret' = NONE /\ UNCHANGED <<been_called, caller, pc>>

KeepBuffer == UNCHANGED <<file, hist, Termchar>>

MarkStart ==
  /\ Idle
  /\ sMark' = next
  /\ eMark' = next
  /\ Mline' = Lineno
  /\ KeepBuffer
  /\ UNCHANGED <<next, pMark, pLength, Lineno>>

MarkEnd ==
  /\ Idle
  /\ eMark' = next
  /\ Mline' = Lineno
  /\ KeepBuffer
  /\ UNCHANGED <<next, sMark, pMark, pLength, Lineno>>

MoveStart ==
  /\ Idle
  /\ sMark < eMark
  /\ sMark' = sMark + 1
  /\ KeepBuffer
  /\ UNCHANGED <<next, eMark, pMark, pLength, lines>>

ToMark ==
  /\ Idle
  /\ Unterminated
  /\ next' = eMark
  /\ Lineno' = Mline
  /\ KeepBuffer
  /\ UNCHANGED <<sMark, eMark, pMark, pLength, Mline>>

MarkPrev ==
  /\ Idle
  /\ pMark' = sMark
  /\ pLength' = eMark - sMark
  /\ KeepBuffer
  /\ UNCHANGED <<next, sMark, eMark, lines>>

\* The scanner terminates a lexeme it has read, not one that is terminated.
Term ==
  /\ Idle
  /\ been_called
  /\ Unterminated
  /\ PutNul(Start_buf, next)
  /\ UNCHANGED <<rest, End_buf, Eof_read, shifted, places, lines, pLength, hist>>

CallUnterm ==
  /\ Idle
  /\ ~Unterminated
  /\ Start_buf' = Unterm
  /\ Termchar' = 0
  /\ UNCHANGED <<rest, End_buf, Eof_read, shifted, places, lines, pLength, hist>>

\* Mutant: the newline that is next again still counts.
LinesBehind(place) == Cardinality({p \in place + 1 .. next - 1 : Start_buf[p] = NEWLINE})

LinesFrom(place) == Cardinality({p \in place .. next - 1 : Start_buf[p] = NEWLINE})

\* next goes back to `place', and with it the line and the end mark.
GoBack(place) ==
  /\ next' = place
  /\ Lineno' = Lineno - LinesFrom(place)
  /\ IF place < eMark
     THEN eMark' = place /\ Mline' = Lineno'
     ELSE UNCHANGED <<eMark, Mline>>
  /\ UNCHANGED <<sMark, pMark, pLength>>

\* ii_pushback(n), for an n that stops at the start of the lexeme at the latest.
Pushback ==
  /\ Idle
  /\ Unterminated
  /\ \E place \in sMark .. next : GoBack(place)
  /\ KeepBuffer

\* ii_unput(c): the character counts only if ii_pushback() did not reach the start.
Unput ==
  LET place  == IF next > sMark THEN next - 1 ELSE next
      unputs == place > sMark
      buffer == IF unputs THEN [Unterm EXCEPT ![place] = UnputChar] ELSE Unterm
  IN  /\ Idle
      /\ been_called
      /\ unputs => shifted + place + 1 \in UnputPlaces
      /\ GoBack(place)
      /\ IF Termchar # 0
         THEN PutNul(buffer, place)
         ELSE Start_buf' = buffer /\ UNCHANGED Termchar
      /\ text' = IF unputs THEN [text EXCEPT ![shifted + place + 1] = UnputChar] ELSE text
      /\ UNCHANGED <<rest, End_buf, Eof_read, shifted, copied>>

----------------------------------------------------------------------------
\* tail(): the lexeme, which is terminated, then character by character to the end.  In
\* the history the text in front of the lexeme stands before it.
EnterTail ==
  /\ pc = "idle"
  /\ been_called
  /\ next < END /\ Start_buf[next] = 0
  /\ copied' = SubSeq(text, 1, shifted + sMark) \o
               [i \in 1 .. next - sMark |-> Start_buf[sMark + i - 1]]
  /\ Start_buf' = Unterm
  /\ Termchar' = 0
  /\ caller' = "tail"
  /\ pc' = "advance"
  /\ ret' = NONE
  /\ UNCHANGED <<rest, End_buf, Eof_read, shifted, places, lines, pLength, been_called, text>>

TailEnds ==
  /\ pc = "tail"
  /\ ret = 0
  /\ pc' = "done"
  /\ UNCHANGED <<file, places, lines, pLength, Termchar, been_called, ret, caller, hist>>

TailFlush ==
  /\ pc = "tail"
  /\ ret = -1
  /\ ForcedFlushFails \/ (ForcedFlush /\ pc' = "advance")
  /\ UNCHANGED <<been_called, caller, hist>>

TailCopies ==
  /\ pc = "tail"
  /\ ret \notin {0, -1}
  /\ copied' = Append(copied, ret)
  /\ pc' = "advance"
  /\ ret' = NONE
  /\ UNCHANGED <<file, places, lines, pLength, Termchar, been_called, caller, text>>

----------------------------------------------------------------------------
ScannerCalls ==
  \/ \E who \in {"scanner", "input", "terminated"} : CallAdvance(who)
  \/ ScannerFlush
  \/ MarkStart \/ MarkEnd \/ MoveStart \/ ToMark \/ MarkPrev
  \/ Term \/ CallUnterm
  \/ Pushback \/ Unput
  \/ EnterTail

Continues ==
  \/ AdvanceAtEnd \/ AdvanceRefused \/ FlushInAdvance \/ AdvanceReads
  \/ InputReturns
  \/ TailEnds \/ TailFlush \/ TailCopies

Next == ScannerCalls \/ Continues

\* A call that has begun runs to its end, and tail() calls again until it is done.
Spec == Init /\ [][Next]_vars /\ WF_vars(Continues)

----------------------------------------------------------------------------
(***************************************************************************)
(* Properties.                                                             *)
(***************************************************************************)
\* The marks keep their order, and every place the code reads or writes through a pointer
\* is in the buffer: *next, and the character behind the previous lexeme that yyparse()
\* replaces by a NUL while an action runs (rbison.par:346).
TypeOK ==
  /\ rest \in Seq(Chars)
  /\ Start_buf \in [0 .. BUFSIZE - 1 -> Chars]
  /\ next \in 0 .. END
  /\ End_buf \in next .. END
  /\ eMark \in 0 .. next
  /\ sMark \in 0 .. eMark
  /\ pMark \in (0 .. sMark) \cup {NULL}
  /\ pLength \in Nat
  /\ been_called => /\ next < END
                    /\ pMark # NULL => pMark + pLength \in pMark .. End_buf
  /\ Lineno \in Nat /\ Mline \in Nat
  /\ Termchar \in Chars
  /\ {Eof_read, been_called} \subseteq BOOLEAN
  /\ ret \in Chars \cup {NONE}
  /\ caller \in {"scanner", "input", "terminated", "tail"}
  /\ pc \in {"idle", "advance", "read", "mark", "tail", "done", "exit"}
  /\ text \in Seq(Chars) /\ copied \in Seq(Chars)
  /\ shifted \in Int

Newlines(n) == Cardinality({i \in 1 .. n : text[i] = NEWLINE})

\* However often the scanner goes back, moves its marks, puts a character back or has the
\* buffer flushed: Lineno is the number of newlines in front of the next character, and
\* Mline that in front of the end mark.
LineNumbers ==
  been_called => Lineno = Newlines(shifted + next) /\ Mline = Newlines(shifted + eMark)

\* ii_look() and ii_lookahead(), as far as MAXLOOK, which is what DANGER is for.
EOF == -1

ii_look(n) ==
  IF n > End_buf - next THEN (IF Eof_read THEN EOF ELSE 0)
  ELSE IF n - 1 < -next THEN 0
  ELSE Start_buf[next + n - 1]

ii_lookahead(n) == IF n = 1 /\ Termchar # 0 THEN Termchar ELSE ii_look(n)

\* Between two calls the scanner can look at the MAXLOOK characters to come, and sees EOF
\* behind the last one, at whatever place of the buffer it is and also when the next
\* character has a NUL in its place.  (A NUL that ii_term() has put behind the last
\* character of the file is not covered: ii_lookahead(1) returns what was under it.)
LookaheadTrue ==
  pc = "idle" /\ been_called /\ (Termchar # 0 => next < End_buf) =>
    \A n \in 1 .. MAXLOOK :
      ii_lookahead(n) = LET i == shifted + next + n IN IF i <= Len(text) THEN text[i] ELSE EOF

\* The promised stream, in places of the text.  ii_newfile()'s marks of a previous lexeme
\* are no lexeme's.
Stream == INSTANCE InputStream WITH
  next  <- shifted + next,
  sMark <- shifted + sMark,
  eMark <- shifted + eMark,
  pMark <- IF pMark = NULL \/ ~been_called THEN NULL ELSE shifted + pMark

\* ii_pushback(1) is true only if it has not come to the mark, so that the character ii_unput()
\* is given in place of the first one of a lexeme is lost: against the comment on
\* ii_pushback() (input.c:303-306), by which it has pushed what it was asked to.
LosesUnput == Unput /\ next = sMark + 1

\* Every call does on the stream what the call of its name does, with that one exception.
AsCalled ==
  /\ AdvanceAtEnd \/ AdvanceRefused \/ AdvanceReads => Stream!Advance
  /\ (ScannerFlush \/ TailFlush) /\ pc' # "exit" => Stream!Flush
  /\ MarkStart => Stream!MarkStart
  /\ MarkEnd \/ InputReturns => Stream!MarkEnd
  /\ MoveStart => Stream!MoveStart
  /\ ToMark => Stream!ToMark
  /\ MarkPrev /\ been_called => Stream!MarkPrev
  /\ Pushback \/ LosesUnput => Stream!Pushback
  /\ Unput /\ ~LosesUnput => Stream!Unput

\* The buffer does not show, as long as ferr() does not end the program: the characters come
\* as they stand in the file, each once and in order, 0 comes at its end and only there, -1
\* only for a lexeme of more than MAXLEX characters, no flush moves a mark to another
\* character, and every call does what it promises, but for the lost characters of ii_unput().
ImplementsStream == Stream!Spec /\ [][AsCalled]_vars

\* ferr() ends the program only within the lookahead of the end of the text, or where a
\* scanner has taken a byte above 127 for a refusal and forces a flush.  The comment on
\* ii_advance() (input.c:153-157) knows neither, and promises 0 at the end of the file: a
\* file that ends just with a read is stopped with characters still to come (input.c:227).
StopsOnlyAtEnd ==
  pc = "exit" =>
    \/ shifted + next + MAXLOOK >= Len(text)
    \/ ret < 0 /\ shifted + next > 0 /\ ret = text[shifted + next]

\* tail() comes to an end, and has written the whole rest of the file unless ferr() has
\* ended the program.
TailComplete == caller = "tail" ~> pc = "exit" \/ (pc = "done" /\ copied = text)
============================================================================
