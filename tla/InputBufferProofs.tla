-------------------------- MODULE InputBufferProofs --------------------------
(***************************************************************************)
(* Proofs about InputBuffer, for every file, every MAXLEX and every        *)
(* MAXLOOK.  The invariant says where the text is while it wanders through *)
(* the buffer: from the left edge to End_buf the buffer holds the text, at *)
(* a distance of `shifted', and the rest of the text is still to be read.  *)
(***************************************************************************)
EXTENDS InputBuffer, FiniteSetTheorems, TLAPS

\* Before the first call of ii_advance() everything is as ii_newfile() left it.
Fresh ==
  ~been_called =>
    /\ pc = "idle" /\ ret = NONE /\ Termchar = 0 /\ ~Eof_read
    /\ next = END /\ sMark = END /\ eMark = END /\ pMark = END /\ End_buf = END
    /\ pLength = 0
    /\ Lineno = 1 /\ Mline = 1
    /\ shifted = -END
    /\ text = <<NEWLINE>> \o rest

\* A call has begun only with the NUL taken out; a character is delivered only if it has
\* been read in.
Phases ==
  /\ pc # "idle" => been_called
  /\ pc \in {"advance", "read", "mark", "tail"} => Termchar = 0
  /\ pc \in {"advance", "read"} => ret = NONE
  /\ pc = "tail" => ret # NONE
  /\ pc = "read" => next < End_buf /\ (Eof_read \/ next < DANGER)

\* The first call finds the newline behind DANGER, and nothing to keep.
AtNewline == next = END - 1 /\ End_buf = END /\ left_edge = END - 1

\* While there is more to read the buffer is full up to less than a unit, and MAXLOOK
\* characters lie behind the next one whenever the scanner can look; behind the last
\* character of the text there is room for a NUL.
Room ==
  been_called =>
    /\ Eof_read => End_buf < END /\ rest = <<>>
    /\ ~Eof_read => /\ End_buf > END - MAXLEX
                    /\ next < End_buf
                    /\ \/ next <= End_buf - MAXLOOK
                       \/ pc \in {"advance", "exit"} /\ AtNewline

\* Where the text is.
Window ==
  been_called =>
    /\ shifted + left_edge >= 0
    /\ Len(text) = shifted + End_buf + Len(rest)
    /\ \A p \in left_edge .. End_buf - 1 : Unterm[p] = text[shifted + p + 1]
    /\ \A i \in 1 .. Len(rest) : rest[i] = text[shifted + End_buf + i]

IInv == TypeOK /\ Fresh /\ Phases /\ Room /\ Window /\ LineNumbers

----------------------------------------------------------------------------
(***************************************************************************)
(* Arithmetic of the buffer.                                               *)
(***************************************************************************)

\* MAXLEX and MAXLOOK as the other proofs use them.
LEMMA Sizes ==
  /\ MAXLEX \in Nat /\ MAXLOOK \in Nat /\ 1 <= MAXLOOK /\ MAXLOOK < MAXLEX
  /\ END = 3 * MAXLEX + 2 * MAXLOOK /\ BUFSIZE = END /\ END \in Nat
BY InputAssumption DEF END, BUFSIZE

\* Rounding down to whole units.
LEMMA Division ==
  ASSUME NEW a \in Nat, NEW b \in Nat \ {0}
  PROVE  /\ (a \div b) * b \in Nat
         /\ (a \div b) * b <= a
         /\ a < (a \div b) * b + b
         /\ (a \div b) * b = 0 \/ (a \div b) * b >= b
<1>. DEFINE q == a \div b
<1>1. a = b * q + (a % b)
  OBVIOUS
<1>2. a % b \in 0 .. b - 1
  OBVIOUS
<1>3. q \in Nat
  OBVIOUS
<1>4. q = 0 \/ q >= 1
  BY <1>3
<1>5. b * q = q * b /\ q * b \in Nat
  BY <1>3
<1>6. q >= 1 => q * b >= b
  BY <1>3
<1>. QED
  BY <1>1, <1>2, <1>3, <1>4, <1>5, <1>6

\* What ii_fillbuf() asks for behind `copy' characters: it fits, leaves less than a unit,
\* and is nothing or a unit at least.
LEMMA NeedFits ==
  ASSUME NEW copy \in 0 .. END
  PROVE  /\ Need(copy) \in 0 .. END - copy
         /\ END - copy - MAXLEX < Need(copy)
         /\ Need(copy) = 0 \/ Need(copy) >= MAXLEX
<1>1. END - copy \in Nat /\ MAXLEX \in Nat \ {0}
  BY Sizes
<1>. QED
  BY <1>1, Sizes, Division, Z3 DEF Need

LEMMA LeftEdge ==
  ASSUME TypeOK
  PROVE  left_edge \in 0 .. sMark
BY Sizes DEF TypeOK, left_edge

\* Taking the NUL out gives a buffer again.
LEMMA UntermType ==
  ASSUME TypeOK
  PROVE  /\ Unterm \in [0 .. BUFSIZE - 1 -> Chars]
         /\ \A p \in 0 .. BUFSIZE - 1 : p # next => Unterm[p] = Start_buf[p]
         /\ Termchar = 0 => Unterm = Start_buf
BY Sizes DEF TypeOK, Unterm

\* What MoveToFront() leaves: the text from `left' on stands at the front, and what was
\* read behind it.
LEMMA MovedToFront ==
  ASSUME TypeOK, Room, Window, been_called, ~Eof_read,
         NEW left \in left_edge .. next,
         MoveToFront(Unterm, left)
  PROVE  /\ Got(left) \in Nat \ {0}
         /\ End_buf' = End_buf - left + Got(left)
         /\ End_buf' <= END
         /\ Start_buf' \in [0 .. BUFSIZE - 1 -> Chars]
         /\ rest' \in Seq(Chars)
         /\ Eof_read' \in BOOLEAN
         /\ Eof_read' => End_buf' < END /\ rest' = <<>>
         /\ ~Eof_read' => End_buf' > END - MAXLEX /\ Got(left) >= MAXLEX
         /\ shifted' = shifted + left
         /\ Len(text) = shifted' + End_buf' + Len(rest')
         /\ \A p \in 0 .. End_buf' - 1 : Start_buf'[p] = text[shifted' + p + 1]
         /\ \A i \in 1 .. Len(rest') : rest'[i] = text[shifted' + End_buf' + i]
<1>. DEFINE copy == End_buf - left
            got  == Got(left)
<1>1. /\ left \in 0 .. next /\ next <= End_buf /\ End_buf \in 0 .. END
      /\ copy \in 0 .. END
  BY LeftEdge, Sizes DEF TypeOK
<1>2. /\ Need(copy) \in 0 .. END - copy
      /\ END - copy - MAXLEX < Need(copy)
      /\ Need(copy) = 0 \/ Need(copy) >= MAXLEX
  BY <1>1, NeedFits
<1>3. rest \in Seq(Chars) /\ Len(rest) \in Nat
  BY DEF TypeOK
<1>4. /\ got \in Nat \ {0} /\ got <= Need(copy) /\ got <= Len(rest)
      /\ got < Need(copy) => got = Len(rest)
  BY <1>2, <1>3 DEF MoveToFront, Got, Least
<1>5. /\ End_buf' = copy + got
      /\ shifted' = shifted + left
  BY DEF MoveToFront
<1>15. rest' = SubSeq(rest, got + 1, Len(rest))
  BY DEF MoveToFront
<1>16. Eof_read' \in BOOLEAN /\ (Eof_read' <=> got < Need(copy))
  <2>1. Eof_read' = (got < Need(copy))
    BY DEF MoveToFront
  <2>2. (got < Need(copy)) \in BOOLEAN
    BY SMT
  <2>. QED
    BY <2>1, <2>2, Zenon
<1>17. Start_buf' = [p \in 0 .. BUFSIZE - 1 |->
                      IF p < copy THEN Unterm[left + p]
                      ELSE IF p < copy + got THEN rest[p - copy + 1]
                      ELSE Unterm[p]]
  BY DEF MoveToFront
<1>6. /\ rest' \in Seq(Chars)
      /\ Len(rest') = Len(rest) - got
      /\ \A i \in 1 .. Len(rest') : rest'[i] = rest[got + i]
  <2>1. got + 1 \in 1 .. Len(rest) + 1
    BY <1>3, <1>4
  <2>. QED
    BY <1>3, <1>4, <1>15, <2>1
<1>7. End_buf' <= END
  BY <1>1, <1>2, <1>4, <1>5, Sizes
<1>8. Start_buf' \in [0 .. BUFSIZE - 1 -> Chars]
  <2>1. ASSUME NEW p \in 0 .. BUFSIZE - 1, p < copy
        PROVE  Unterm[left + p] \in Chars
    BY <1>1, <2>1, UntermType, Sizes
  <2>2. ASSUME NEW p \in 0 .. BUFSIZE - 1, ~(p < copy), p < copy + got
        PROVE  rest[p - copy + 1] \in Chars
    <3>1. p - copy + 1 \in 1 .. Len(rest)
      BY <1>1, <1>3, <1>4, <2>2, Sizes
    <3>. QED
      BY <1>3, <3>1
  <2>3. \A p \in 0 .. BUFSIZE - 1 : Unterm[p] \in Chars
    BY UntermType
  <2>. QED
    BY <1>17, <2>1, <2>2, <2>3
<1>9. Eof_read' => End_buf' < END /\ rest' = <<>>
  <2>1. ASSUME Eof_read' PROVE got = Len(rest) /\ got < Need(copy)
    BY <1>4, <1>16, <2>1
  <2>2. ASSUME Eof_read' PROVE rest' = <<>>
    BY <1>3, <1>6, <2>1, <2>2
  <2>. QED
    BY <1>1, <1>2, <1>4, <1>5, <2>1, <2>2, Sizes
<1>10. ~Eof_read' => End_buf' > END - MAXLEX /\ got >= MAXLEX
  BY <1>1, <1>2, <1>4, <1>5, <1>16, Sizes
<1>11. shifted \in Int /\ Len(text) = shifted + End_buf + Len(rest)
  BY DEF TypeOK, Window
<1>12. Len(text) = shifted' + End_buf' + Len(rest')
  BY <1>1, <1>3, <1>4, <1>5, <1>6, <1>11, Sizes
<1>13. \A p \in 0 .. End_buf' - 1 : Start_buf'[p] = text[shifted' + p + 1]
  <2>. SUFFICES ASSUME NEW p \in 0 .. End_buf' - 1
                PROVE  Start_buf'[p] = text[shifted' + p + 1]
    OBVIOUS
  <2>0. p \in 0 .. BUFSIZE - 1
    BY <1>1, <1>4, <1>5, <1>7, Sizes
  <2>1. CASE p < copy
    <3>1. left + p \in left_edge .. End_buf - 1
      BY <1>1, <2>0, <2>1, LeftEdge, Sizes DEF TypeOK
    <3>2. Unterm[left + p] = text[shifted + (left + p) + 1]
      BY <3>1 DEF Window
    <3>3. shifted + (left + p) + 1 = shifted' + p + 1
      BY <1>1, <1>5, <1>11, <2>0, Sizes
    <3>. QED
      BY <1>17, <2>0, <2>1, <3>2, <3>3
  <2>2. CASE ~(p < copy)
    <3>1. p - copy + 1 \in 1 .. Len(rest) /\ p < copy + got
      BY <1>1, <1>3, <1>4, <1>5, <2>0, <2>2, Sizes
    <3>2. rest[p - copy + 1] = text[shifted + End_buf + (p - copy + 1)]
      BY <3>1 DEF Window
    <3>3. shifted + End_buf + (p - copy + 1) = shifted' + p + 1
      BY <1>1, <1>5, <1>11, <2>0, Sizes
    <3>. QED
      BY <1>17, <2>0, <2>2, <3>1, <3>2, <3>3
  <2>. QED
    BY <2>1, <2>2
<1>14. \A i \in 1 .. Len(rest') : rest'[i] = text[shifted' + End_buf' + i]
  <2>. SUFFICES ASSUME NEW i \in 1 .. Len(rest')
                PROVE  rest'[i] = text[shifted' + End_buf' + i]
    OBVIOUS
  <2>1. got + i \in 1 .. Len(rest)
    BY <1>3, <1>4, <1>6
  <2>2. rest[got + i] = text[shifted + End_buf + (got + i)]
    BY <2>1 DEF Window
  <2>3. shifted + End_buf + (got + i) = shifted' + End_buf' + i
    BY <1>1, <1>3, <1>4, <1>5, <1>6, <1>11, Sizes
  <2>. QED
    BY <1>6, <2>2, <2>3
<1>. QED
  BY <1>4, <1>5, <1>6, <1>7, <1>8, <1>9, <1>10, <1>12, <1>13, <1>14, <1>16

----------------------------------------------------------------------------
(***************************************************************************)
(* The steps that move marks and nothing else.                             *)
(***************************************************************************)

\* A mark is set between two calls; the character to come stays.
MovesMarks ==
  /\ IInv
  /\ MarkStart \/ MarkEnd \/ MoveStart \/ MarkPrev

LEMMA MarksSame ==
  ASSUME MovesMarks
  PROVE  /\ pc = "idle" /\ pc' = pc /\ ret' = NONE /\ caller' = caller
         /\ been_called' = been_called /\ Eof_read' = Eof_read
         /\ next' = next /\ Lineno' = Lineno /\ End_buf' = End_buf
         /\ rest' = rest /\ shifted' = shifted /\ text' = text /\ copied' = copied
         /\ Start_buf' = Start_buf /\ Termchar' = Termchar
BY DEF MovesMarks, MarkStart, MarkEnd, MoveStart, MarkPrev, Idle, KeepBuffer, lines,
       file, hist

LEMMA MarksOrdered ==
  ASSUME MovesMarks
  PROVE  /\ eMark' \in 0 .. next
         /\ sMark' \in 0 .. eMark'
         /\ pMark' \in (0 .. sMark') \cup {NULL}
         /\ pLength' \in Nat
         /\ been_called /\ pMark' # NULL => pMark' + pLength' \in pMark' .. End_buf
         /\ left_edge' >= left_edge /\ left_edge' \in 0 .. sMark'
         /\ \/ eMark' = eMark /\ Mline' = Mline
            \/ eMark' = next /\ Mline' = Lineno
<1>1. /\ next \in 0 .. END /\ End_buf \in next .. END
      /\ eMark \in 0 .. next /\ sMark \in 0 .. eMark
      /\ pMark \in (0 .. sMark) \cup {NULL}
      /\ pLength \in Nat
      /\ been_called /\ pMark # NULL => pMark + pLength \in pMark .. End_buf
  BY DEF MovesMarks, IInv, TypeOK
<1>2. CASE MarkStart
  BY <1>1, <1>2, Sizes DEF MarkStart, left_edge, NULL
<1>3. CASE MarkEnd
  BY <1>1, <1>3, Sizes DEF MarkEnd, left_edge, NULL
<1>4. CASE MoveStart
  BY <1>1, <1>4, Sizes DEF MoveStart, lines, left_edge, NULL
<1>5. CASE MarkPrev
  BY <1>1, <1>5, Sizes DEF MarkPrev, lines, left_edge, NULL
<1>. QED
  BY <1>2, <1>3, <1>4, <1>5 DEF MovesMarks

LEMMA KeepMarks ==
  ASSUME MovesMarks
  PROVE  IInv'
<1>. USE MarksSame
<1>0. IInv
  BY DEF MovesMarks
<1>1. TypeOK'
  BY <1>0, MarksOrdered, Sizes DEF IInv, TypeOK
<1>2. Fresh'
  BY <1>0, MarksOrdered, Sizes DEF IInv, Fresh, MovesMarks, MarkStart, MarkEnd, MoveStart, MarkPrev, lines
<1>3. Phases'
  BY <1>0 DEF IInv, Phases
<1>4. Room'
  BY <1>0 DEF IInv, Room
<1>5. Window'
  <2>1. Unterm' = Unterm
    BY DEF Unterm
  <2>2. left_edge \in Int /\ left_edge' \in Int /\ left_edge' >= left_edge /\ shifted \in Int
    BY <1>0, MarksOrdered, LeftEdge, Sizes DEF IInv, TypeOK
  <2>3. \A p : p \in left_edge' .. End_buf - 1 => p \in left_edge .. End_buf - 1
    BY <1>0, <2>2, Sizes DEF IInv, TypeOK
  <2>4. ASSUME been_called
        PROVE  /\ shifted + left_edge >= 0
               /\ Len(text) = shifted + End_buf + Len(rest)
               /\ \A p \in left_edge .. End_buf - 1 : Unterm[p] = text[shifted + p + 1]
               /\ \A i \in 1 .. Len(rest) : rest[i] = text[shifted + End_buf + i]
    BY <1>0, <2>4 DEF IInv, Window
  <2>5. been_called => shifted + left_edge' >= 0
    BY <2>2, <2>4
  <2>6. been_called => \A p \in left_edge' .. End_buf - 1 : Unterm[p] = text[shifted + p + 1]
    BY <2>3, <2>4
  <2>. QED
    BY <2>1, <2>4, <2>5, <2>6 DEF Window
<1>6. LineNumbers'
  BY <1>0, MarksOrdered DEF IInv, LineNumbers, Newlines
<1>. QED
  BY <1>1, <1>2, <1>3, <1>4, <1>5, <1>6 DEF IInv

----------------------------------------------------------------------------
(***************************************************************************)
(* Counting lines.                                                         *)
(***************************************************************************)
LEMMA NewlinesType ==
  ASSUME NEW n \in Int
  PROVE  IsFiniteSet({i \in 1 .. n : text[i] = NEWLINE}) /\ Newlines(n) \in Nat
<1>1. IsFiniteSet(1 .. n)
  BY FS_Interval
<1>2. {i \in 1 .. n : text[i] = NEWLINE} \in SUBSET (1 .. n)
  OBVIOUS
<1>3. IsFiniteSet({i \in 1 .. n : text[i] = NEWLINE})
  BY <1>1, <1>2, FS_Subset
<1>. QED
  BY <1>3, FS_CardinalityType DEF Newlines

\* One character further.
LEMMA NewlinesNext ==
  ASSUME NEW n \in Nat
  PROVE  Newlines(n + 1) = Newlines(n) + CountsLine(text[n + 1])
<1>. DEFINE before == {i \in 1 .. n : text[i] = NEWLINE}
            after  == {i \in 1 .. n + 1 : text[i] = NEWLINE}
<1>1. IsFiniteSet(before) /\ Cardinality(before) \in Nat
  BY NewlinesType DEF Newlines
<1>2. CASE text[n + 1] = NEWLINE
  <2>1. after = before \cup {n + 1} /\ n + 1 \notin before
    BY <1>2
  <2>2. Cardinality(after) = Cardinality(before) + 1
    BY <1>1, <2>1, FS_AddElement
  <2>. QED
    BY <1>2, <2>2 DEF Newlines, CountsLine
<1>3. CASE text[n + 1] # NEWLINE
  <2>1. \A i \in 1 .. n + 1 : i # n + 1 => i \in 1 .. n
    OBVIOUS
  <2>2. after = before
    BY <1>3, <2>1
  <2>3. CountsLine(text[n + 1]) = 0
    BY <1>3 DEF CountsLine
  <2>. QED
    BY <1>1, <2>2, <2>3 DEF Newlines
<1>. QED
  BY <1>2, <1>3

\* Characters pushed back: their newlines in the buffer are those in the text.
LEMMA NewlinesBetween ==
  ASSUME NEW place \in Int, next \in Int, shifted \in Int,
         place <= next, shifted + place >= 0,
         \A p \in place .. next - 1 : Start_buf[p] = text[shifted + p + 1]
  PROVE  /\ LinesFrom(place) \in Nat
         /\ Newlines(shifted + next) = Newlines(shifted + place) + LinesFrom(place)
<1>. DEFINE inBuffer == {p \in place .. next - 1 : Start_buf[p] = NEWLINE}
            upTo     == {i \in 1 .. shifted + place : text[i] = NEWLINE}
            behind   == {i \in shifted + place + 1 .. shifted + next : text[i] = NEWLINE}
            all      == {i \in 1 .. shifted + next : text[i] = NEWLINE}
            f        == [p \in inBuffer |-> shifted + p + 1]
<1>1. IsFiniteSet(inBuffer)
  <2>1. IsFiniteSet(place .. next - 1)
    BY FS_Interval
  <2>2. inBuffer \in SUBSET (place .. next - 1)
    OBVIOUS
  <2>. QED
    BY <2>1, <2>2, FS_Subset
<1>2. f \in Bijection(inBuffer, behind)
  <2>1. f \in [inBuffer -> behind]
    OBVIOUS
  <2>2. \A a, b \in inBuffer : f[a] = f[b] => a = b
    OBVIOUS
  <2>3. \A i \in behind : \E p \in inBuffer : f[p] = i
    <3>. SUFFICES ASSUME NEW i \in behind PROVE \E p \in inBuffer : f[p] = i
      OBVIOUS
    <3>1. i - shifted - 1 \in inBuffer /\ f[i - shifted - 1] = i
      OBVIOUS
    <3>. QED
      BY <3>1
  <2>. QED
    BY <2>1, <2>2, <2>3 DEF Bijection, Injection, Surjection, IsInjective
<1>3. IsFiniteSet(behind) /\ Cardinality(behind) = Cardinality(inBuffer)
  BY <1>1, <1>2, FS_Bijection DEF ExistsBijection
<1>4. IsFiniteSet(upTo) /\ Newlines(shifted + place) = Cardinality(upTo)
  BY NewlinesType DEF Newlines
<1>5. upTo \cup behind = all
  OBVIOUS
<1>6. upTo \cap behind = {}
  OBVIOUS
<1>7. Cardinality({}) = 0
  BY FS_EmptySet
<1>8. Cardinality(all) = Cardinality(upTo) + Cardinality(behind)
  <2>1. /\ Cardinality(upTo) \in Nat
        /\ Cardinality(behind) \in Nat
    BY <1>3, <1>4, FS_CardinalityType
  <2>2. Cardinality(all) = Cardinality(upTo) + Cardinality(behind) - Cardinality({})
    BY <1>3, <1>4, <1>5, <1>6, FS_Union
  <2>. QED
    BY <1>7, <2>1, <2>2
<1>9. Cardinality(inBuffer) \in Nat
  BY <1>1, FS_CardinalityType
<1>. QED
  BY <1>3, <1>4, <1>8, <1>9 DEF Newlines, LinesFrom

----------------------------------------------------------------------------
(***************************************************************************)
(* The steps that go back.                                                 *)
(***************************************************************************)
LEMMA LeftAndNext ==
  ASSUME IInv
  PROVE  /\ next \in 0 .. END /\ End_buf \in next .. END
         /\ eMark \in 0 .. next /\ sMark \in 0 .. eMark
         /\ left_edge \in 0 .. sMark /\ shifted \in Int
         /\ been_called => next < END /\ shifted + left_edge >= 0
BY LeftEdge, Sizes DEF IInv, TypeOK, Window

LEMMA GoneBack ==
  ASSUME IInv, NEW place \in sMark .. next, GoBack(place)
  PROVE  /\ next' = place /\ sMark' = sMark /\ pMark' = pMark /\ pLength' = pLength
         /\ eMark' \in sMark .. place /\ eMark' <= eMark
         /\ left_edge' = left_edge
         /\ been_called => /\ Lineno' = Newlines(shifted + place)
                           /\ Mline' = Newlines(shifted + eMark')
         /\ ~been_called => place = END /\ eMark' = END /\ Lineno' = 1 /\ Mline' = 1
<1>1. /\ next' = place /\ sMark' = sMark /\ pMark' = pMark /\ pLength' = pLength
      /\ Lineno' = Lineno - LinesFrom(place)
      /\ \/ place < eMark /\ eMark' = place /\ Mline' = Lineno'
         \/ ~(place < eMark) /\ eMark' = eMark /\ Mline' = Mline
  BY DEF GoBack
<1>2. /\ eMark' \in sMark .. place /\ eMark' <= eMark
  BY <1>1, LeftAndNext
<1>3. left_edge' = left_edge
  BY <1>1 DEF left_edge
<1>4. ASSUME been_called
      PROVE  Lineno' = Newlines(shifted + place) /\ Mline' = Newlines(shifted + eMark')
  <2>1. ASSUME NEW p \in place .. next - 1
        PROVE  Start_buf[p] = text[shifted + p + 1]
    <3>1. p \in left_edge .. End_buf - 1 /\ p \in 0 .. BUFSIZE - 1 /\ p # next
      BY LeftAndNext, Sizes
    <3>2. Unterm[p] = text[shifted + p + 1]
      BY <1>4, <3>1 DEF IInv, Window
    <3>. QED
      BY <3>1, <3>2, UntermType DEF IInv
  <2>2. shifted + place >= 0
    BY <1>4, LeftAndNext
  <2>3. /\ LinesFrom(place) \in Nat
        /\ Newlines(shifted + next) = Newlines(shifted + place) + LinesFrom(place)
    BY <2>1, <2>2, LeftAndNext, NewlinesBetween
  <2>4. Lineno = Newlines(shifted + next) /\ Mline = Newlines(shifted + eMark)
    BY <1>4 DEF IInv, LineNumbers
  <2>5. Newlines(shifted + place) \in Nat
    <3>1. shifted + place \in Int
      BY LeftAndNext
    <3>. QED
      BY <3>1, NewlinesType
  <2>6. Lineno' = Newlines(shifted + place)
    BY <1>1, <2>3, <2>4, <2>5
  <2>. QED
    BY <1>1, <2>4, <2>6
<1>5. ASSUME ~been_called
      PROVE  place = END /\ eMark' = END /\ Lineno' = 1 /\ Mline' = 1
  <2>1. /\ next = END /\ sMark = END /\ eMark = END /\ Lineno = 1 /\ Mline = 1
    BY <1>5 DEF IInv, Fresh
  <2>2. {p \in END .. END - 1 : Start_buf[p] = NEWLINE} = {}
    BY Sizes
  <2>3. LinesFrom(END) = 0
    BY <2>1, <2>2, FS_EmptySet DEF LinesFrom
  <2>. QED
    BY <1>1, <2>1, <2>3, Sizes
<1>. QED
  BY <1>1, <1>2, <1>3, <1>4, <1>5

LEMMA KeepPushback ==
  ASSUME IInv, Pushback
  PROVE  IInv'
<1>1. PICK place \in sMark .. next : GoBack(place)
  BY DEF Pushback
<1>2. /\ pc = "idle" /\ pc' = pc /\ ret' = NONE /\ caller' = caller
      /\ been_called' = been_called /\ Eof_read' = Eof_read /\ End_buf' = End_buf
      /\ rest' = rest /\ shifted' = shifted /\ text' = text /\ copied' = copied
      /\ Start_buf' = Start_buf /\ Termchar' = Termchar /\ Termchar = 0
  BY DEF Pushback, Idle, KeepBuffer, file, hist, Unterminated
<1>3. /\ next' = place /\ sMark' = sMark /\ pMark' = pMark /\ pLength' = pLength
      /\ eMark' \in sMark .. place /\ eMark' <= eMark
      /\ left_edge' = left_edge
      /\ been_called => /\ Lineno' = Newlines(shifted + place)
                        /\ Mline' = Newlines(shifted + eMark')
      /\ ~been_called => place = END /\ eMark' = END /\ Lineno' = 1 /\ Mline' = 1
  BY <1>1, GoneBack
<1>4. Lineno' \in Nat /\ Mline' \in Nat
  <2>1. shifted + place \in Int /\ shifted + eMark' \in Int
    BY <1>3, LeftAndNext
  <2>2. Newlines(shifted + place) \in Nat /\ Newlines(shifted + eMark') \in Nat
    BY <2>1, NewlinesType
  <2>. QED
    BY <1>3, <2>2
<1>5. TypeOK'
  BY <1>1, <1>2, <1>3, <1>4, LeftAndNext, Sizes DEF IInv, TypeOK
<1>6. Fresh'
  BY <1>2, <1>3 DEF IInv, Fresh
<1>7. Phases'
  BY <1>2 DEF IInv, Phases
<1>8. Room'
  BY <1>1, <1>2, <1>3, LeftAndNext, Sizes DEF IInv, Room
<1>9. Window'
  <2>1. Unterm' = Unterm
    BY <1>2 DEF Unterm
  <2>. QED
    BY <1>2, <1>3, <2>1 DEF IInv, Window
<1>10. LineNumbers'
  <2>1. \A n : Newlines(n)' = Newlines(n)
    BY <1>2 DEF Newlines
  <2>. QED
    BY <1>2, <1>3, <2>1 DEF LineNumbers
<1>. QED
  BY <1>5, <1>6, <1>7, <1>8, <1>9, <1>10 DEF IInv

LEMMA KeepToMark ==
  ASSUME IInv, ToMark
  PROVE  IInv'
<1>1. /\ pc = "idle" /\ pc' = pc /\ ret' = NONE /\ caller' = caller
      /\ been_called' = been_called /\ Eof_read' = Eof_read /\ End_buf' = End_buf
      /\ rest' = rest /\ shifted' = shifted /\ text' = text /\ copied' = copied
      /\ Start_buf' = Start_buf /\ Termchar' = Termchar /\ Termchar = 0
      /\ next' = eMark /\ Lineno' = Mline /\ Mline' = Mline
      /\ sMark' = sMark /\ eMark' = eMark /\ pMark' = pMark /\ pLength' = pLength
  BY DEF ToMark, Idle, KeepBuffer, file, hist, Unterminated
<1>2. left_edge' = left_edge
  BY <1>1 DEF left_edge
<1>3. TypeOK'
  BY <1>1, LeftAndNext, Sizes DEF IInv, TypeOK
<1>4. Fresh'
  BY <1>1 DEF IInv, Fresh
<1>5. Phases'
  BY <1>1 DEF IInv, Phases
<1>6. Room'
  BY <1>1, LeftAndNext, Sizes DEF IInv, Room
<1>7. Window'
  <2>1. Unterm' = Unterm
    BY <1>1 DEF Unterm
  <2>. QED
    BY <1>1, <1>2, <2>1 DEF IInv, Window
<1>8. LineNumbers'
  <2>1. \A n : Newlines(n)' = Newlines(n)
    BY <1>1 DEF Newlines
  <2>. QED
    BY <1>1, <2>1 DEF IInv, LineNumbers
<1>. QED
  BY <1>3, <1>4, <1>5, <1>6, <1>7, <1>8 DEF IInv

----------------------------------------------------------------------------
(***************************************************************************)
(* The steps that put a NUL into the buffer, or take it out.               *)
(***************************************************************************)

\* A buffer in which only the character at `place' may differ from the text and has been
\* remembered.
LEMMA NulPut ==
  ASSUME NEW buffer \in [0 .. BUFSIZE - 1 -> Chars], NEW place \in 0 .. END - 1,
         PutNul(buffer, place), next' = place
  PROVE  /\ Start_buf' \in [0 .. BUFSIZE - 1 -> Chars]
         /\ Termchar' \in Chars
         /\ Unterm' = buffer
<1>1. place \in 0 .. BUFSIZE - 1 /\ 0 \in Chars
  BY Sizes DEF Chars
<1>2. /\ Termchar' = buffer[place]
      /\ Start_buf' = [buffer EXCEPT ![place] = 0]
  BY DEF PutNul
<1>3. CASE Termchar' # 0
  BY <1>1, <1>2, <1>3 DEF Unterm
<1>4. CASE Termchar' = 0
  BY <1>1, <1>2, <1>4 DEF Unterm
<1>. QED
  BY <1>1, <1>2, <1>3, <1>4

LEMMA KeepTerm ==
  ASSUME IInv, Term \/ CallUnterm
  PROVE  IInv'
<1>1. /\ pc = "idle" /\ pc' = pc /\ ret' = NONE /\ caller' = caller
      /\ been_called' = been_called /\ Eof_read' = Eof_read /\ End_buf' = End_buf
      /\ rest' = rest /\ shifted' = shifted /\ text' = text /\ copied' = copied
      /\ next' = next /\ Lineno' = Lineno /\ Mline' = Mline
      /\ sMark' = sMark /\ eMark' = eMark /\ pMark' = pMark /\ pLength' = pLength
  BY DEF Term, CallUnterm, Idle, places, lines, file, hist
<1>2. /\ been_called
      /\ Start_buf' \in [0 .. BUFSIZE - 1 -> Chars]
      /\ Termchar' \in Chars
      /\ Unterm' = Unterm
  <2>1. CASE Term
    <3>1. been_called /\ Termchar = 0 /\ PutNul(Start_buf, next)
      BY <2>1 DEF Term, Unterminated
    <3>2. next \in 0 .. END - 1
      BY <3>1, LeftAndNext, Sizes
    <3>3. Start_buf \in [0 .. BUFSIZE - 1 -> Chars]
      BY DEF IInv, TypeOK
    <3>. QED
      BY <1>1, <3>1, <3>2, <3>3, NulPut, UntermType DEF IInv
  <2>2. CASE CallUnterm
    <3>1. Termchar # 0 /\ Start_buf' = Unterm /\ Termchar' = 0
      BY <2>2 DEF CallUnterm, Unterminated
    <3>2. been_called
      BY <3>1 DEF IInv, Fresh
    <3>3. 0 \in Chars
      BY DEF Chars
    <3>. QED
      BY <3>1, <3>2, <3>3, UntermType DEF IInv, Unterm
  <2>. QED
    BY <2>1, <2>2
<1>3. left_edge' = left_edge
  BY <1>1 DEF left_edge
<1>4. TypeOK'
  BY <1>1, <1>2 DEF IInv, TypeOK
<1>5. Fresh'
  BY <1>1, <1>2 DEF Fresh
<1>6. Phases'
  BY <1>1 DEF IInv, Phases
<1>7. Room'
  BY <1>1 DEF IInv, Room
<1>8. Window'
  BY <1>1, <1>2, <1>3 DEF IInv, Window
<1>9. LineNumbers'
  <2>1. \A n : Newlines(n)' = Newlines(n)
    BY <1>1 DEF Newlines
  <2>. QED
    BY <1>1, <2>1 DEF IInv, LineNumbers
<1>. QED
  BY <1>4, <1>5, <1>6, <1>7, <1>8, <1>9 DEF IInv

LEMMA KeepUnput ==
  ASSUME IInv, Unput
  PROVE  IInv'
<1>. DEFINE place  == IF next > sMark THEN next - 1 ELSE next
            unputs == place > sMark
            buffer == IF unputs THEN [Unterm EXCEPT ![place] = UnputChar] ELSE Unterm
            index  == shifted + place + 1
<1>1. /\ pc = "idle" /\ pc' = pc /\ ret' = NONE /\ caller' = caller
      /\ been_called /\ been_called' = been_called /\ Eof_read' = Eof_read
      /\ End_buf' = End_buf /\ rest' = rest /\ shifted' = shifted /\ copied' = copied
      /\ GoBack(place)
      /\ IF Termchar # 0 THEN PutNul(buffer, place)
         ELSE Start_buf' = buffer /\ Termchar' = Termchar
      /\ text' = IF unputs THEN [text EXCEPT ![index] = UnputChar] ELSE text
  BY DEF Unput, Idle
<1>2. /\ place \in sMark .. next /\ place \in 0 .. END - 1 /\ place \in 0 .. BUFSIZE - 1
      /\ place < END /\ index \in Int
  BY <1>1, LeftAndNext, Sizes
<1>3. /\ next' = place /\ sMark' = sMark /\ pMark' = pMark /\ pLength' = pLength
      /\ eMark' \in sMark .. place /\ eMark' <= eMark
      /\ left_edge' = left_edge
      /\ Lineno' = Newlines(shifted + place)
      /\ Mline' = Newlines(shifted + eMark')
  BY <1>1, <1>2, GoneBack
<1>4. UnputChar \in Chars
  BY InputAssumption
<1>5. /\ buffer \in [0 .. BUFSIZE - 1 -> Chars]
      /\ unputs => buffer[place] = UnputChar
      /\ \A p \in 0 .. BUFSIZE - 1 : p # place \/ ~unputs => buffer[p] = Unterm[p]
  <2>1. Unterm \in [0 .. BUFSIZE - 1 -> Chars]
    BY UntermType DEF IInv
  <2>. QED
    BY <1>2, <1>4, <2>1
<1>6. /\ Start_buf' \in [0 .. BUFSIZE - 1 -> Chars]
      /\ Termchar' \in Chars
      /\ Unterm' = buffer
  <2>1. CASE Termchar # 0
    BY <1>1, <1>2, <1>3, <1>5, <2>1, NulPut
  <2>2. CASE Termchar = 0
    <3>1. Start_buf' = buffer /\ Termchar' = 0
      BY <1>1, <2>2
    <3>2. Unterm' = Start_buf'
      BY <3>1 DEF Unterm
    <3>3. 0 \in Chars
      BY DEF Chars
    <3>. HIDE DEF buffer
    <3>. QED
      BY <1>5, <3>1, <3>2, <3>3
  <2>. QED
    BY <2>1, <2>2
<1>7. /\ Len(text) = shifted + End_buf + Len(rest)
      /\ \A p \in left_edge .. End_buf - 1 : Unterm[p] = text[shifted + p + 1]
      /\ \A i \in 1 .. Len(rest) : rest[i] = text[shifted + End_buf + i]
      /\ text \in Seq(Chars) /\ rest \in Seq(Chars)
      /\ Len(text) \in Nat /\ Len(rest) \in Nat
  BY <1>1 DEF IInv, TypeOK, Window
<1>8. /\ text' \in Seq(Chars)
      /\ Len(text') = Len(text)
      /\ \A i \in 1 .. Len(text) : i # index \/ ~unputs => text'[i] = text[i]
      /\ unputs => index \in 1 .. Len(text) /\ text'[index] = UnputChar
  <2>1. CASE unputs
    <3>1. place < next
      BY <2>1, LeftAndNext
    <3>2. index \in 1 .. Len(text)
      <4>1. /\ place \in sMark .. next /\ sMark \in Nat /\ next \in Int /\ End_buf \in next .. END
            /\ left_edge \in 0 .. sMark /\ shifted + left_edge >= 0 /\ shifted \in Int
        BY <1>1, <1>2, LeftAndNext
      <4>2. END \in Int /\ End_buf \in Int
        BY <4>1, Sizes
      <4>. QED
        BY <1>7, <3>1, <4>1, <4>2
    <3>. QED
      BY <1>1, <1>4, <1>7, <2>1, <3>2
  <2>2. CASE ~unputs
    BY <1>1, <1>7, <2>2
  <2>. QED
    BY <2>1, <2>2
<1>9. Lineno' \in Nat /\ Mline' \in Nat
  <2>1. shifted + place \in Int /\ shifted + eMark' \in Int
    BY <1>2, <1>3, LeftAndNext
  <2>. QED
    BY <1>3, <2>1, NewlinesType
<1>10. TypeOK'
  BY <1>1, <1>2, <1>3, <1>6, <1>8, <1>9, LeftAndNext, Sizes DEF IInv, TypeOK
<1>11. Fresh' /\ Phases'
  BY <1>1 DEF Fresh, Phases
<1>12. Room'
  BY <1>1, <1>2, <1>3, LeftAndNext, Sizes DEF IInv, Room
<1>13. Window'
  <2>0. /\ next \in 0 .. END /\ next < END /\ End_buf \in next .. END /\ shifted \in Int
        /\ left_edge \in 0 .. next /\ shifted + left_edge >= 0
        /\ Len(rest) \in Nat /\ Len(text) = shifted + End_buf + Len(rest)
    BY <1>1, <1>7, LeftAndNext
  <2>1. \A p \in left_edge .. End_buf - 1 : buffer[p] = text'[shifted + p + 1]
    <3>. SUFFICES ASSUME NEW p \in left_edge .. End_buf - 1
                  PROVE  buffer[p] = text'[shifted + p + 1]
      OBVIOUS
    <3>1. p \in 0 .. BUFSIZE - 1 /\ shifted + p + 1 \in 1 .. Len(text)
      BY <2>0, Sizes
    <3>2. Unterm[p] = text[shifted + p + 1]
      BY <1>7
    <3>3. p = place <=> shifted + p + 1 = index
      <4>1. p \in Int /\ place \in Int /\ shifted \in Int
        BY <1>2, <2>0
      <4>. QED
        BY <4>1
    <3>. QED
      BY <1>5, <1>8, <3>1, <3>2, <3>3
  <2>2. \A i \in 1 .. Len(rest) : rest[i] = text'[shifted + End_buf + i]
    <3>. SUFFICES ASSUME NEW i \in 1 .. Len(rest)
                  PROVE  rest[i] = text'[shifted + End_buf + i]
      OBVIOUS
    <3>1. shifted + End_buf + i \in 1 .. Len(text)
      BY <2>0
    <3>2. unputs => shifted + End_buf + i # index
      BY <1>2, <2>0
    <3>. QED
      BY <1>7, <1>8, <3>1, <3>2
  <2>. QED
    BY <1>1, <1>3, <1>6, <1>7, <1>8, <2>1, <2>2, LeftAndNext DEF Window
<1>14. LineNumbers'
  <2>1. ASSUME NEW n \in Int, n < index
        PROVE  {i \in 1 .. n : text'[i] = NEWLINE} = {i \in 1 .. n : text[i] = NEWLINE}
    <3>1. \A i \in 1 .. n : i \in 1 .. Len(text) \/ ~unputs
      BY <1>2, <1>8, <2>1
    <3>2. \A i \in 1 .. n : text'[i] = text[i]
      BY <1>1, <1>2, <1>8, <2>1, <3>1
    <3>. QED
      BY <3>2
  <2>2. /\ shifted + place \in Int /\ shifted + place < index
        /\ shifted + eMark' \in Int /\ shifted + eMark' < index
    BY <1>2, <1>3, LeftAndNext
  <2>3. /\ Lineno' = Cardinality({i \in 1 .. shifted + place : text'[i] = NEWLINE})
        /\ Mline' = Cardinality({i \in 1 .. shifted + eMark' : text'[i] = NEWLINE})
    BY <1>3, <2>1, <2>2 DEF Newlines
  <2>. QED
    BY <1>1, <1>3, <2>3 DEF LineNumbers, Newlines
<1>. QED
  BY <1>10, <1>11, <1>12, <1>13, <1>14 DEF IInv

----------------------------------------------------------------------------
(***************************************************************************)
(* ii_advance() and ii_flush().                                            *)
(***************************************************************************)
LEMMA KeepFirstCall ==
  ASSUME IInv, ~been_called, NEW who, who \in {"scanner", "input", "terminated", "tail"},
         CallAdvance(who)
  PROVE  IInv'
<1>1. /\ pc = "idle" /\ ret = NONE /\ Termchar = 0 /\ Eof_read = FALSE
      /\ next = END /\ sMark = END /\ eMark = END /\ pMark = END /\ End_buf = END
      /\ Lineno = 1 /\ Mline = 1 /\ shifted = -END
      /\ text = <<NEWLINE>> \o rest
      /\ rest \in Seq(Chars) /\ Start_buf \in [0 .. BUFSIZE - 1 -> Chars]
      /\ copied \in Seq(Chars) /\ text \in Seq(Chars)
  BY DEF IInv, Fresh, TypeOK
<1>2. /\ caller' = who /\ pc' = "advance" /\ Termchar' = 0 /\ been_called' = TRUE
      /\ ret' = NONE /\ rest' = rest /\ End_buf' = End_buf /\ Eof_read' = FALSE
      /\ text' = text /\ copied' = copied
      /\ Start_buf' = [Start_buf EXCEPT ![END - 1] = NEWLINE]
      /\ next' = END - 1 /\ sMark' = END - 1 /\ eMark' = END - 1
      /\ pMark' = NULL /\ pLength' = 0
      /\ Lineno' = 0 /\ Mline' = 0 /\ shifted' = 1 - END
  BY <1>1 DEF CallAdvance, hist
<1>3. /\ NEWLINE \in Chars /\ 0 \in Chars /\ END - 1 \in 0 .. BUFSIZE - 1 /\ END - 1 # NULL
      /\ END - 1 \in 0 .. END
  BY Sizes DEF Chars, NEWLINE, NULL
<1>4. /\ Start_buf' \in [0 .. BUFSIZE - 1 -> Chars]
      /\ Start_buf'[END - 1] = NEWLINE
  BY <1>1, <1>2, <1>3
<1>5. left_edge' = END - 1
  BY <1>2 DEF left_edge
<1>6. TypeOK'
  <2>1. /\ next' \in 0 .. END /\ next' < END /\ End_buf' \in next' .. END
        /\ eMark' \in 0 .. next' /\ sMark' \in 0 .. eMark'
        /\ shifted' \in Int
    BY <1>1, <1>2, Sizes
  <2>. QED
    BY <1>1, <1>2, <1>3, <1>4, <2>1 DEF TypeOK
<1>7. Fresh' /\ Phases'
  BY <1>2 DEF Fresh, Phases
<1>8. Room'
  BY <1>1, <1>2, <1>5, Sizes DEF Room, AtNewline
<1>9. Window'
  <2>1. Unterm' = Start_buf'
    BY <1>2 DEF Unterm
  <2>2. /\ Len(text) = 1 + Len(rest)
        /\ text[1] = NEWLINE
        /\ \A i \in 1 .. Len(rest) : text[1 + i] = rest[i]
        /\ Len(rest) \in Nat
    BY <1>1, <1>3
  <2>3. \A p \in END - 1 .. END - 1 : Start_buf'[p] = text[(1 - END) + p + 1]
    <3>1. \A p \in END - 1 .. END - 1 : p = END - 1 /\ (1 - END) + p + 1 = 1
      BY Sizes
    <3>. QED
      BY <1>4, <2>2, <3>1
  <2>4. \A i \in 1 .. Len(rest) : rest[i] = text[(1 - END) + END + i]
    <3>1. \A i \in 1 .. Len(rest) : (1 - END) + END + i = 1 + i
      BY <2>2, Sizes
    <3>. QED
      BY <2>2, <3>1
  <2>5. /\ (1 - END) + (END - 1) >= 0
        /\ Len(text) = (1 - END) + END + Len(rest)
    BY <2>2, Sizes
  <2>. QED
    BY <1>1, <1>2, <1>5, <2>1, <2>3, <2>4, <2>5 DEF Window
<1>10. LineNumbers'
  <2>1. (1 - END) + (END - 1) = 0
    BY Sizes
  <2>2. {i \in 1 .. 0 : text[i] = NEWLINE} = {}
    OBVIOUS
  <2>3. Cardinality({i \in 1 .. 0 : text[i] = NEWLINE}) = 0
    BY <2>2, FS_EmptySet
  <2>. QED
    BY <1>2, <2>1, <2>3 DEF LineNumbers, Newlines
<1>. QED
  BY <1>6, <1>7, <1>8, <1>9, <1>10 DEF IInv

\* Any other call of ii_advance(), and what only changes the result, the caller, the place
\* in the program and what has been copied.
LEMMA KeepControl ==
  ASSUME IInv, been_called, been_called' = been_called,
         UNCHANGED <<rest, End_buf, Eof_read, shifted, places, lines, pLength, text>>,
         Start_buf' = Unterm, Termchar' = 0,
         ret' \in Chars \cup {NONE},
         caller' \in {"scanner", "input", "terminated", "tail"},
         pc' \in {"idle", "advance", "mark", "tail", "done"},
         pc' = "advance" => ret' = NONE, pc' = "tail" => ret' # NONE,
         pc \in {"advance", "exit"} => pc' = "advance" \/ ~AtNewline,
         copied' \in Seq(Chars)
  PROVE  IInv'
<1>1. /\ next' = next /\ Lineno' = Lineno /\ Mline' = Mline
      /\ sMark' = sMark /\ eMark' = eMark /\ pMark' = pMark
  BY DEF places, lines
<1>2. /\ left_edge' = left_edge
      /\ Unterm' = Unterm
      /\ Unterm \in [0 .. BUFSIZE - 1 -> Chars]
      /\ 0 \in Chars
  BY <1>1, UntermType DEF left_edge, Unterm, IInv, Chars
<1>3. TypeOK'
  BY <1>1, <1>2 DEF IInv, TypeOK
<1>4. Fresh'
  BY DEF Fresh
<1>5. Phases'
  BY DEF Phases
<1>6. Room'
  BY <1>1, <1>2 DEF IInv, Room, AtNewline
<1>7. Window'
  BY <1>1, <1>2 DEF IInv, Window
<1>8. LineNumbers'
  <2>1. \A n : Newlines(n)' = Newlines(n)
    BY DEF Newlines
  <2>. QED
    BY <1>1, <2>1 DEF IInv, LineNumbers
<1>. QED
  BY <1>3, <1>4, <1>5, <1>6, <1>7, <1>8 DEF IInv

LEMMA KeepCall ==
  ASSUME IInv, been_called, NEW who \in {"scanner", "input", "terminated"}, CallAdvance(who)
  PROVE  IInv'
<1>1. copied \in Seq(Chars)
  BY DEF IInv, TypeOK
<1>. QED
  BY <1>1, KeepControl DEF CallAdvance, places, lines, hist

\* Nothing is changed by a result that is not a character read.
LEMMA KeepNoCharacter ==
  ASSUME IInv, AdvanceAtEnd \/ AdvanceRefused
  PROVE  IInv'
<1>1. /\ been_called /\ Termchar = 0 /\ pc = "advance"
  BY DEF IInv, Phases, AdvanceAtEnd, AdvanceRefused
<1>2. PICK value \in {0, -1} : Returns(value)
  BY DEF AdvanceAtEnd, AdvanceRefused
<1>3. /\ ret' = value /\ pc' = After(caller)
      /\ UNCHANGED <<rest, Start_buf, End_buf, Eof_read, shifted, sMark, eMark, pMark, Mline>>
      /\ UNCHANGED <<pLength, Termchar, been_called, caller, text, copied>>
      /\ UNCHANGED <<next, Lineno>>
  BY <1>2 DEF Returns, AdvanceAtEnd, AdvanceRefused, file, hist
<1>4. value \in Chars /\ value # NONE
  BY DEF Chars, NONE
<1>5. /\ caller \in {"scanner", "input", "terminated", "tail"}
      /\ copied \in Seq(Chars)
      /\ Start_buf = Unterm
  BY <1>1, UntermType DEF IInv, TypeOK
<1>6. After(caller) \in {"idle", "mark", "tail"}
  BY <1>5 DEF After
<1>7. ~AtNewline
  <2>1. CASE AdvanceAtEnd
    BY <1>1, <2>1, Sizes DEF AdvanceAtEnd, NO_MORE_CHARS, AtNewline, IInv, Room
  <2>2. CASE AdvanceRefused
    BY <2>2, Sizes DEF AdvanceRefused, NotEnoughRoom, AtNewline
  <2>. QED
    BY <2>1, <2>2
<1>8. UNCHANGED <<places, lines>>
  BY <1>3 DEF places, lines
<1>. QED
  BY <1>1, <1>3, <1>4, <1>5, <1>6, <1>7, <1>8, KeepControl

\* Where ferr() ends the program.
LEMMA KeepExit ==
  ASSUME IInv, NEW left, CannotRead(left), been_called,
         UNCHANGED <<been_called, caller, hist>>
  PROVE  IInv'
<1>1. /\ UNCHANGED <<rest, Start_buf, End_buf, Eof_read, shifted, text, copied>>
      /\ UNCHANGED <<next, sMark, eMark, pMark, Lineno, Mline, pLength, Termchar, ret>>
      /\ UNCHANGED <<been_called, caller>>
      /\ pc' = "exit"
  BY DEF CannotRead, file, places, lines, hist
<1>2. left_edge' = left_edge /\ Unterm' = Unterm
  BY <1>1 DEF left_edge, Unterm
<1>3. TypeOK'
  BY <1>1 DEF IInv, TypeOK
<1>4. Fresh' /\ Phases'
  BY <1>1 DEF Fresh, Phases
<1>5. Room'
  BY <1>1, <1>2 DEF IInv, Room, AtNewline
<1>6. Window'
  BY <1>1, <1>2 DEF IInv, Window
<1>7. LineNumbers'
  <2>1. \A n : Newlines(n)' = Newlines(n)
    BY <1>1 DEF Newlines
  <2>. QED
    BY <1>1, <2>1 DEF IInv, LineNumbers
<1>. QED
  BY <1>3, <1>4, <1>5, <1>6, <1>7 DEF IInv

\* After a flush everything stands `left' places further to the front.
LEMMA KeepMoved ==
  ASSUME IInv, been_called, ~Eof_read, NEW left \in left_edge .. next,
         MoveToFront(Unterm, left),
         NEW start, NEW end, NEW previous, NEW length,
         Move(next, start, end, previous, left),
         end \in left .. next, start \in left .. end,
         previous \in (left .. start) \cup {NULL},
         length \in Nat,
         previous # NULL => previous + length \in previous .. End_buf,
         pLength' = length, Lineno' = Lineno, Mline' = Newlines(shifted + end),
         Termchar' = 0, been_called' = been_called, caller' = caller,
         text' = text, copied' = copied,
         ret' = NONE, pc' \in {"idle", "advance", "read"}
  PROVE  IInv'
<1>1. /\ Got(left) \in Nat \ {0}
      /\ End_buf' = End_buf - left + Got(left)
      /\ End_buf' <= END
      /\ shifted' = shifted + left
  BY MovedToFront DEF IInv
<1>2. /\ Start_buf' \in [0 .. BUFSIZE - 1 -> Chars]
      /\ rest' \in Seq(Chars)
      /\ Eof_read' \in BOOLEAN
  BY MovedToFront DEF IInv
<1>3. /\ Eof_read' => End_buf' < END /\ rest' = <<>>
      /\ ~Eof_read' => End_buf' > END - MAXLEX /\ Got(left) >= MAXLEX
  BY MovedToFront DEF IInv
<1>4. /\ Len(text) = shifted' + End_buf' + Len(rest')
      /\ \A p \in 0 .. End_buf' - 1 : Start_buf'[p] = text[shifted' + p + 1]
      /\ \A i \in 1 .. Len(rest') : rest'[i] = text[shifted' + End_buf' + i]
  BY MovedToFront DEF IInv
<1>5. /\ next' = next - left /\ sMark' = start - left /\ eMark' = end - left
      /\ pMark' = IF previous # NULL THEN previous - left ELSE NULL
  BY DEF Move
<1>6. /\ left \in Int /\ next \in Int /\ End_buf \in Int /\ shifted \in Int /\ END \in Int
      /\ left_edge \in Int /\ left_edge <= left /\ 0 <= left /\ left <= next
      /\ next <= End_buf /\ End_buf <= END /\ shifted + left_edge >= 0
  BY LeftAndNext, Sizes
<1>15. /\ start \in Int /\ end \in Int
       /\ left <= start /\ start <= end /\ end <= next
  BY <1>6
<1>7. /\ next' \in 0 .. END /\ next' < END /\ End_buf' \in next' .. END
      /\ eMark' \in 0 .. next' /\ sMark' \in 0 .. eMark'
      /\ next' < End_buf'
      /\ ~Eof_read' => next' < End_buf' - MAXLOOK /\ next' <= End_buf' - MAXLOOK
      /\ shifted' \in Int /\ shifted' >= 0 /\ End_buf' \in Int
  <2>1. /\ shifted' \in Int /\ shifted' >= 0
    BY <1>1, <1>6
  <2>2. /\ End_buf' \in Int /\ next' \in Int /\ sMark' \in Int /\ eMark' \in Int
        /\ 0 <= sMark' /\ sMark' <= eMark' /\ eMark' <= next' /\ next' < End_buf'
    BY <1>1, <1>5, <1>6, <1>15
  <2>3. ~Eof_read' => next' < End_buf' - MAXLOOK /\ next' <= End_buf' - MAXLOOK
    BY <1>1, <1>3, <1>5, <1>6, Sizes
  <2>. QED
    BY <1>1, <1>6, <2>1, <2>2, <2>3
<1>8. /\ pMark' \in (0 .. sMark') \cup {NULL}
      /\ pMark' # NULL => pMark' + pLength' \in pMark' .. End_buf'
      /\ left_edge' \in Int /\ left_edge' >= 0
  BY <1>1, <1>5, <1>6, <1>15 DEF left_edge, NULL
<1>9. Lineno \in Nat /\ Mline' \in Nat
  <2>1. shifted + end \in Int
    BY <1>6
  <2>. QED
    BY <2>1, NewlinesType DEF IInv, TypeOK
<1>10. TypeOK'
  <2>1. /\ copied \in Seq(Chars) /\ text \in Seq(Chars) /\ been_called \in BOOLEAN
        /\ caller \in {"scanner", "input", "terminated", "tail"}
        /\ 0 \in Chars
    BY DEF IInv, TypeOK, Chars
  <2>. QED
    BY <1>2, <1>7, <1>8, <1>9, <2>1 DEF TypeOK
<1>11. Fresh' /\ Phases'
  BY <1>7 DEF Fresh, Phases, NONE, DANGER
<1>12. Room'
  BY <1>3, <1>7, Sizes DEF Room
<1>13. Window'
  <2>1. Unterm' = Start_buf'
    BY DEF Unterm
  <2>4. PICK e \in Nat : left_edge' = e
    BY <1>8
  <2>5. PICK n \in Int : End_buf' = n
    BY <1>7
  <2>2. \A p : p \in e .. n - 1 => p \in 0 .. n - 1
    OBVIOUS
  <2>6. PICK k \in Nat : shifted' = k
    BY <1>7
  <2>7. k + e >= 0
    OBVIOUS
  <2>3. shifted' + e >= 0
    BY <2>6, <2>7
  <2>. QED
    BY <1>4, <2>1, <2>2, <2>3, <2>4, <2>5 DEF Window
<1>14. LineNumbers'
  <2>1. shifted' + next' = shifted + next /\ shifted' + eMark' = shifted + end
    BY <1>1, <1>5, <1>6, <1>15
  <2>2. \A n : Newlines(n)' = Newlines(n)
    BY DEF Newlines
  <2>3. Lineno = Newlines(shifted + next)
    BY DEF IInv, LineNumbers
  <2>. QED
    BY <2>1, <2>2, <2>3 DEF LineNumbers
<1>. QED
  BY <1>10, <1>11, <1>12, <1>13, <1>14 DEF IInv

\* The step that delivers a character.
LEMMA KeepRead ==
  ASSUME IInv, AdvanceReads
  PROVE  IInv'
<1>1. /\ been_called /\ Termchar = 0 /\ next < End_buf
      /\ Eof_read \/ next < DANGER
  <2>1. CASE pc = "read"
    BY <2>1 DEF IInv, Phases
  <2>2. CASE pc = "advance" /\ ~NO_MORE_CHARS /\ (Eof_read \/ next < DANGER)
    <3>1. been_called /\ Termchar = 0
      BY <2>2 DEF IInv, Phases
    <3>2. next < End_buf
      BY <2>2, <3>1, LeftAndNext DEF IInv, Room, NO_MORE_CHARS
    <3>. QED
      BY <2>2, <3>1, <3>2
  <2>. QED
    BY <2>1, <2>2 DEF AdvanceReads
<1>2. /\ next' = next + 1 /\ Lineno' = Lineno + CountsLine(Start_buf[next])
      /\ ret' = Start_buf[next] /\ pc' = After(caller)
      /\ UNCHANGED <<rest, Start_buf, End_buf, Eof_read, shifted, sMark, eMark, pMark, Mline>>
      /\ UNCHANGED <<pLength, Termchar, been_called, caller, text, copied>>
  BY DEF AdvanceReads, Returns, file, hist
<1>3. /\ caller \in {"scanner", "input", "terminated", "tail"}
      /\ Start_buf = Unterm
      /\ Start_buf[next] \in Chars
      /\ next \in left_edge .. End_buf - 1
  BY <1>1, UntermType, LeftAndNext, Sizes DEF IInv, TypeOK
<1>4. After(caller) \in {"idle", "mark", "tail"}
  BY <1>3 DEF After
<1>5. left_edge' = left_edge /\ Unterm' = Start_buf
  BY <1>1, <1>2 DEF left_edge, Unterm
<1>6. /\ next' \in 0 .. END /\ next' < END /\ End_buf \in next' .. END
      /\ next \in Int /\ End_buf \in Int
      /\ eMark \in 0 .. next' /\ sMark \in 0 .. eMark
      /\ ~Eof_read => next' <= End_buf - MAXLOOK /\ next' < End_buf
  BY <1>1, <1>2, LeftAndNext, Sizes DEF IInv, Room, DANGER
<1>7. Start_buf[next] = text[shifted + next + 1]
  BY <1>1, <1>3 DEF IInv, Window
<1>8. Lineno' = Newlines(shifted + next')
  <2>1. shifted + next \in Nat /\ shifted + next' = (shifted + next) + 1
    BY <1>1, <1>2, <1>6, LeftAndNext
  <2>2. Newlines((shifted + next) + 1) = Newlines(shifted + next) + CountsLine(text[(shifted + next) + 1])
    BY <2>1, NewlinesNext
  <2>3. Lineno = Newlines(shifted + next)
    BY <1>1 DEF IInv, LineNumbers
  <2>. QED
    BY <1>2, <1>7, <2>1, <2>2, <2>3
<1>9. Lineno' \in Nat
  <2>1. shifted + next' \in Int
    BY <1>6, LeftAndNext
  <2>. QED
    BY <1>8, <2>1, NewlinesType
<1>10. TypeOK'
  BY <1>1, <1>2, <1>3, <1>4, <1>6, <1>9 DEF IInv, TypeOK
<1>11. Fresh' /\ Phases'
  <2>1. ret' # NONE
    BY <1>2, <1>3 DEF Chars, NONE
  <2>. QED
    BY <1>1, <1>2, <1>4, <2>1 DEF Fresh, Phases
<1>12. Room'
  BY <1>1, <1>2, <1>6 DEF IInv, Room
<1>13. Window'
  BY <1>2, <1>3, <1>5 DEF IInv, Window
<1>14. LineNumbers'
  <2>1. \A n : Newlines(n)' = Newlines(n)
    BY <1>2 DEF Newlines
  <2>. QED
    BY <1>1, <1>2, <1>8, <2>1 DEF IInv, LineNumbers
<1>. QED
  BY <1>10, <1>11, <1>12, <1>13, <1>14 DEF IInv

LEMMA KeepInput ==
  ASSUME IInv, InputReturns
  PROVE  IInv'
<1>1. /\ pc = "mark" /\ pc' = "idle" /\ eMark' = next /\ Mline' = Lineno
      /\ UNCHANGED <<rest, End_buf, Eof_read, shifted, next, sMark, pMark, Lineno, pLength>>
      /\ UNCHANGED <<been_called, ret, caller, text, copied>>
      /\ IF caller = "terminated" THEN PutNul(Start_buf, next)
         ELSE Start_buf' = Start_buf /\ Termchar' = Termchar
  BY DEF InputReturns, hist
<1>2. been_called /\ Termchar = 0
  BY <1>1 DEF IInv, Phases
<1>3. Start_buf = Unterm /\ Start_buf \in [0 .. BUFSIZE - 1 -> Chars]
  BY <1>2, UntermType DEF IInv, TypeOK
<1>4. /\ Start_buf' \in [0 .. BUFSIZE - 1 -> Chars]
      /\ Termchar' \in Chars
      /\ Unterm' = Unterm
  <2>1. CASE caller = "terminated"
    <3>1. next \in 0 .. END - 1
      BY <1>2, LeftAndNext, Sizes
    <3>. QED
      BY <1>1, <1>3, <2>1, <3>1, NulPut
  <2>2. CASE caller # "terminated"
    <3>1. Unterm' = Start_buf'
      BY <1>1, <1>2, <2>2 DEF Unterm
    <3>2. Termchar' \in Chars
      BY <1>1, <2>2 DEF IInv, TypeOK
    <3>. QED
      BY <1>1, <1>3, <2>2, <3>1, <3>2
  <2>. QED
    BY <2>1, <2>2
<1>5. left_edge' = left_edge
  BY <1>1 DEF left_edge
<1>6. TypeOK'
  <2>1. eMark' \in 0 .. next' /\ sMark' \in 0 .. eMark'
    BY <1>1, LeftAndNext
  <2>. QED
    BY <1>1, <1>4, <2>1 DEF IInv, TypeOK
<1>7. Fresh' /\ Phases'
  BY <1>1, <1>2 DEF Fresh, Phases
<1>8. Room'
  BY <1>1 DEF IInv, Room
<1>9. Window'
  BY <1>1, <1>4, <1>5 DEF IInv, Window
<1>10. LineNumbers'
  <2>1. \A n : Newlines(n)' = Newlines(n)
    BY <1>1 DEF Newlines
  <2>. QED
    BY <1>1, <2>1 DEF IInv, LineNumbers
<1>. QED
  BY <1>6, <1>7, <1>8, <1>9, <1>10 DEF IInv

\* ii_advance() flushes the buffer by itself.
LEMMA KeepFlushed ==
  ASSUME IInv, FlushInAdvance
  PROVE  IInv'
<1>1. /\ been_called /\ Termchar = 0 /\ ret = NONE /\ ~Eof_read
      /\ UNCHANGED <<been_called, caller, hist>>
  BY DEF IInv, Phases, FlushInAdvance
<1>2. CASE CannotRead(left_edge)
  BY <1>1, <1>2, KeepExit
<1>3. CASE /\ MoveToFront(Start_buf, left_edge)
           /\ Move(next, sMark, eMark, pMark, left_edge)
           /\ pc' = "read"
           /\ UNCHANGED <<lines, pLength, Termchar, ret>>
  <2>1. MoveToFront(Unterm, left_edge)
    BY <1>1, <1>3, UntermType DEF IInv
  <2>2. /\ left_edge \in left_edge .. next
        /\ eMark \in left_edge .. next /\ sMark \in left_edge .. eMark
        /\ pMark \in (left_edge .. sMark) \cup {NULL}
        /\ pLength \in Nat
        /\ pMark # NULL => pMark + pLength \in pMark .. End_buf
    <3>1. /\ left_edge = IF pMark # NULL THEN pMark ELSE sMark
          /\ pMark \in (0 .. sMark) \cup {NULL}
      BY DEF left_edge, IInv, TypeOK
    <3>2. pMark \in (left_edge .. sMark) \cup {NULL}
      BY <3>1, LeftAndNext
    <3>. QED
      BY <1>1, <3>2, LeftAndNext DEF IInv, TypeOK
  <2>3. Mline = Newlines(shifted + eMark)
    BY <1>1 DEF IInv, LineNumbers
  <2>4. /\ pLength' = pLength /\ Lineno' = Lineno /\ Mline' = Mline
        /\ Termchar' = 0 /\ ret' = NONE /\ been_called' = been_called /\ caller' = caller
        /\ text' = text /\ copied' = copied
    BY <1>1, <1>3 DEF lines, hist
  <2>. QED
    BY <1>1, <1>3, <2>1, <2>2, <2>3, <2>4, KeepMoved
<1>. QED
  BY <1>2, <1>3 DEF FlushInAdvance

\* A flush that is forced, by the scanner or by tail().
LEMMA KeepForced ==
  ASSUME IInv, been_called, ForcedFlush, pc \in {"idle", "tail"}, pc' \in {"idle", "advance"},
         UNCHANGED <<been_called, caller, hist>>
  PROVE  IInv'
<1>1. /\ been_called' = been_called /\ caller' = caller
      /\ text' = text /\ copied' = copied
      /\ Termchar' = 0 /\ ret' = NONE
      /\ copied \in Seq(Chars) /\ caller \in {"scanner", "input", "terminated", "tail"}
  BY DEF ForcedFlush, hist, IInv, TypeOK
<1>2. CASE Eof_read
  <2>1. /\ UNCHANGED <<rest, End_buf, Eof_read, shifted, places, lines, pLength>>
        /\ Start_buf' = Unterm
    BY <1>2 DEF ForcedFlush
  <2>. QED
    BY <1>1, <2>1, KeepControl
<1>3. Lineno = Newlines(shifted + next) /\ Mline = Newlines(shifted + eMark)
  BY DEF IInv, LineNumbers
<1>4. CASE ~Eof_read /\ NotEnoughRoom(left_edge)
  <2>1. /\ MoveToFront(Unterm, next)
        /\ Move(next, next, next, next, next)
        /\ Mline' = Newlines(shifted + next) /\ pLength' = 0 /\ Lineno' = Lineno
    BY <1>3, <1>4 DEF ForcedFlush
  <2>2. /\ next \in left_edge .. next /\ next \in next .. next
        /\ next \in (next .. next) \cup {NULL}
        /\ 0 \in Nat /\ next + 0 \in next .. End_buf
    BY LeftAndNext
  <2>. QED
    BY <1>1, <1>4, <2>1, <2>2, KeepMoved
<1>5. CASE ~Eof_read /\ ~NotEnoughRoom(left_edge)
  <2>1. /\ MoveToFront(Unterm, left_edge)
        /\ Move(next, sMark, eMark, pMark, left_edge)
        /\ pLength' = pLength /\ Lineno' = Lineno /\ Mline' = Newlines(shifted + eMark)
    BY <1>3, <1>5 DEF ForcedFlush, lines
  <2>2. /\ left_edge \in left_edge .. next
        /\ eMark \in left_edge .. next /\ sMark \in left_edge .. eMark
        /\ pMark \in (left_edge .. sMark) \cup {NULL}
        /\ pLength \in Nat
        /\ pMark # NULL => pMark + pLength \in pMark .. End_buf
    <3>1. /\ left_edge = IF pMark # NULL THEN pMark ELSE sMark
          /\ pMark \in (0 .. sMark) \cup {NULL}
      BY DEF left_edge, IInv, TypeOK
    <3>2. pMark \in (left_edge .. sMark) \cup {NULL}
      BY <3>1, LeftAndNext
    <3>. QED
      BY <3>2, LeftAndNext DEF IInv, TypeOK
  <2>. QED
    BY <1>1, <1>5, <2>1, <2>2, KeepMoved
<1>. QED
  BY <1>2, <1>4, <1>5

LEMMA KeepFlush ==
  ASSUME IInv, ScannerFlush \/ TailFlush
  PROVE  IInv'
<1>1. /\ been_called /\ pc \in {"idle", "tail"}
      /\ UNCHANGED <<been_called, caller, hist>>
      /\ ForcedFlushFails \/ (ForcedFlush /\ pc' \in {"idle", "advance"})
  <2>1. CASE ScannerFlush
    <3>1. ret < 0
      BY <2>1 DEF ScannerFlush
    <3>2. ret # NONE
      BY <3>1 DEF NONE
    <3>. QED
      BY <2>1, <3>2 DEF ScannerFlush, IInv, Fresh
  <2>2. CASE TailFlush
    BY <2>2 DEF TailFlush, IInv, Phases
  <2>. QED
    BY <2>1, <2>2
<1>2. CASE ForcedFlushFails
  <2>1. PICK left : CannotRead(left)
    BY <1>2 DEF ForcedFlushFails
  <2>. QED
    BY <1>1, <2>1, KeepExit
<1>. QED
  BY <1>1, <1>2, KeepForced

----------------------------------------------------------------------------
(***************************************************************************)
(* tail().                                                                 *)
(***************************************************************************)
LEMMA KeepTail ==
  ASSUME IInv, EnterTail \/ TailEnds \/ TailCopies
  PROVE  IInv'
<1>1. copied \in Seq(Chars) /\ text \in Seq(Chars) /\ Len(text) \in Nat
  BY DEF IInv, TypeOK
<1>2. CASE EnterTail
  <2>. DEFINE lexeme == [i \in 1 .. next - sMark |-> Start_buf[sMark + i - 1]]
  <2>1. been_called
    BY <1>2 DEF EnterTail
  <2>2. lexeme \in Seq(Chars)
    <3>1. next - sMark \in Nat
      BY LeftAndNext
    <3>2. \A i \in 1 .. next - sMark : sMark + i - 1 \in 0 .. BUFSIZE - 1
      BY LeftAndNext, Sizes
    <3>3. \A p \in 0 .. BUFSIZE - 1 : Start_buf[p] \in Chars
      BY DEF IInv, TypeOK
    <3>4. lexeme \in [1 .. next - sMark -> Chars]
      BY <3>2, <3>3
    <3>. QED
      BY <3>1, <3>4
  <2>3. SubSeq(text, 1, shifted + sMark) \in Seq(Chars)
    <3>1. /\ Len(text) = shifted + End_buf + Len(rest) /\ Len(rest) \in Nat
          /\ shifted + sMark \in Nat
      BY <2>1, LeftAndNext DEF IInv, Window, TypeOK
    <3>2. shifted + sMark <= Len(text)
      BY <3>1, LeftAndNext
    <3>3. \A i \in 1 .. shifted + sMark : text[i] \in Chars
      BY <1>1, <3>1, <3>2
    <3>. QED
      BY <1>1, <3>1, <3>2, <3>3
  <2>4. copied' \in Seq(Chars)
    <3>1. copied' = SubSeq(text, 1, shifted + sMark) \o lexeme
      BY <1>2 DEF EnterTail
    <3>. HIDE DEF lexeme
    <3>. QED
      BY <2>2, <2>3, <3>1
  <2>. QED
    BY <1>2, <2>1, <2>4, KeepControl DEF EnterTail
<1>3. CASE TailEnds \/ TailCopies
  <2>1. been_called /\ Termchar = 0 /\ pc = "tail" /\ ret # NONE
    BY <1>3 DEF IInv, Phases, TailEnds, TailCopies
  <2>2. /\ Start_buf = Unterm /\ ret \in Chars
        /\ caller \in {"scanner", "input", "terminated", "tail"}
    BY <2>1, UntermType DEF IInv, TypeOK
  <2>3. /\ UNCHANGED <<rest, End_buf, Eof_read, shifted, places, lines, pLength, text>>
        /\ Start_buf' = Unterm /\ Termchar' = 0 /\ been_called' = been_called
        /\ caller' = caller
    BY <1>3, <2>1, <2>2 DEF TailEnds, TailCopies, file, hist
  <2>4. /\ ret' \in Chars \cup {NONE} /\ pc' \in {"done", "advance"}
        /\ pc' = "advance" => ret' = NONE
    BY <1>3, <2>2 DEF TailEnds, TailCopies
  <2>5. copied' \in Seq(Chars)
    BY <1>1, <1>3, <2>2 DEF TailEnds, TailCopies, hist
  <2>. QED
    BY <2>1, <2>2, <2>3, <2>4, <2>5, KeepControl
<1>. QED
  BY <1>2, <1>3

----------------------------------------------------------------------------
(***************************************************************************)
(* The invariant.                                                          *)
(***************************************************************************)
LEMMA InitIInv == Init => IInv
<1>. SUFFICES ASSUME Init PROVE IInv
  OBVIOUS
<1>1. /\ rest \in Seq(Chars) /\ End_buf = END /\ next = END /\ sMark = END /\ eMark = END
      /\ pMark = END /\ pLength = 0 /\ Lineno = 1 /\ Mline = 1 /\ Termchar = 0
      /\ Eof_read = FALSE /\ been_called = FALSE /\ ret = NONE /\ caller = "scanner"
      /\ pc = "idle" /\ text = <<NEWLINE>> \o rest /\ shifted = -END /\ copied = <<>>
      /\ Start_buf = [p \in 0 .. BUFSIZE - 1 |-> 0]
  BY InputAssumption DEF Init
<1>2. NEWLINE \in Chars /\ 0 \in Chars
  BY DEF Chars, NEWLINE
<1>3. Start_buf \in [0 .. BUFSIZE - 1 -> Chars]
  BY <1>1, <1>2
<1>4. text \in Seq(Chars) /\ copied \in Seq(Chars)
  BY <1>1, <1>2
<1>5. TypeOK
  <2>1. /\ next \in 0 .. END /\ End_buf \in next .. END /\ eMark \in 0 .. next
        /\ sMark \in 0 .. eMark /\ pMark \in (0 .. sMark) \cup {NULL}
        /\ pLength \in Nat /\ Lineno \in Nat /\ Mline \in Nat /\ shifted \in Int
    BY <1>1, Sizes
  <2>2. {Eof_read, been_called} \subseteq BOOLEAN
    BY <1>1
  <2>3. ~been_called
    BY <1>1
  <2>. QED
    BY <1>1, <1>2, <1>3, <1>4, <2>1, <2>2, <2>3 DEF TypeOK
<1>. QED
  BY <1>1, <1>5 DEF IInv, Fresh, Phases, Room, Window, LineNumbers

LEMMA KeepStill ==
  ASSUME IInv, UNCHANGED vars
  PROVE  IInv'
<1>1. /\ UNCHANGED <<rest, Start_buf, End_buf, Eof_read, shifted, next, sMark, eMark, pMark>>
      /\ UNCHANGED <<Lineno, Mline, pLength, Termchar, been_called, ret, caller, pc>>
      /\ UNCHANGED <<text, copied>>
  BY DEF vars, file, places, lines, hist
<1>2. left_edge' = left_edge /\ Unterm' = Unterm /\ \A n : Newlines(n)' = Newlines(n)
  BY <1>1 DEF left_edge, Unterm, Newlines
<1>3. TypeOK' /\ Fresh' /\ Phases'
  BY <1>1 DEF IInv, TypeOK, Fresh, Phases, DANGER
<1>4. Room' /\ Window' /\ LineNumbers'
  BY <1>1, <1>2 DEF IInv, Room, AtNewline, Window, LineNumbers
<1>. QED
  BY <1>3, <1>4 DEF IInv

LEMMA NextIInv == IInv /\ [Next]_vars => IInv'
<1>. SUFFICES ASSUME IInv, [Next]_vars PROVE IInv'
  OBVIOUS
<1>1. ASSUME NEW who \in {"scanner", "input", "terminated"}, CallAdvance(who)
      PROVE  IInv'
  BY <1>1, KeepFirstCall, KeepCall
<1>2. CASE ScannerFlush \/ TailFlush
  BY <1>2, KeepFlush
<1>3. CASE MarkStart \/ MarkEnd \/ MoveStart \/ MarkPrev
  BY <1>3, KeepMarks DEF MovesMarks
<1>4. CASE ToMark
  BY <1>4, KeepToMark
<1>5. CASE Term \/ CallUnterm
  BY <1>5, KeepTerm
<1>6. CASE Pushback
  BY <1>6, KeepPushback
<1>7. CASE Unput
  BY <1>7, KeepUnput
<1>8. CASE EnterTail \/ TailEnds \/ TailCopies
  BY <1>8, KeepTail
<1>9. CASE AdvanceAtEnd \/ AdvanceRefused
  BY <1>9, KeepNoCharacter
<1>10. CASE FlushInAdvance
  BY <1>10, KeepFlushed
<1>11. CASE AdvanceReads
  BY <1>11, KeepRead
<1>12. CASE InputReturns
  BY <1>12, KeepInput
<1>13. CASE UNCHANGED vars
  BY <1>13, KeepStill
<1>. QED
  BY <1>1, <1>2, <1>3, <1>4, <1>5, <1>6, <1>7, <1>8, <1>9, <1>10, <1>11, <1>12, <1>13
  DEF Next, ScannerCalls, Continues

\* The invariant holds for every file and every size of the buffer.
THEOREM InductiveInvariant == Spec => []IInv
BY InitIInv, NextIInv, PTL DEF Spec

\* The marks stay in order and inside the buffer, and so does the place behind the previous
\* lexeme that yyparse() replaces by a NUL (rbison.par:346).
THEOREM TypeCorrect == Spec => []TypeOK
<1>1. IInv => TypeOK
  BY DEF IInv
<1>. QED
  BY <1>1, InductiveInvariant, PTL

\* However the scanner goes back and whatever it unputs, Lineno and Mline are the numbers
\* of newlines in front of the next character and in front of the end mark.
THEOREM LinesCounted == Spec => []LineNumbers
<1>1. IInv => LineNumbers
  BY DEF IInv
<1>. QED
  BY <1>1, InductiveInvariant, PTL

----------------------------------------------------------------------------
(***************************************************************************)
(* Looking ahead, and the text behind the buffer.                          *)
(***************************************************************************)

\* Between two calls a scanner sees the MAXLOOK characters to come, and EOF behind the
\* last one, wherever in the buffer it is.
THEOREM LookaheadRight == Spec => []LookaheadTrue
<1>1. IInv => LookaheadTrue
  <2>. SUFFICES ASSUME IInv, pc = "idle", been_called, Termchar # 0 => next < End_buf,
                       NEW n \in 1 .. MAXLOOK
                PROVE  ii_lookahead(n) =
                         LET i == shifted + next + n IN IF i <= Len(text) THEN text[i] ELSE EOF
    BY DEF LookaheadTrue
  <2>. DEFINE i == shifted + next + n
  <2>1. /\ next \in 0 .. END /\ End_buf \in next .. END /\ left_edge \in 0 .. next
        /\ shifted \in Int /\ i \in Int /\ n \in Int
        /\ Len(rest) \in Nat /\ Len(text) = shifted + End_buf + Len(rest)
    <3>1. rest \in Seq(Chars) /\ Len(text) = shifted + End_buf + Len(rest)
      BY DEF IInv, TypeOK, Window
    <3>2. /\ next \in 0 .. END /\ End_buf \in next .. END /\ sMark \in 0 .. next
          /\ left_edge \in 0 .. sMark /\ shifted \in Int /\ END \in Nat
      BY LeftAndNext, Sizes
    <3>. QED
      BY <3>1, <3>2
  <2>2. CASE n = 1 /\ Termchar # 0
    <3>1. ii_lookahead(n) = Termchar
      BY <2>2 DEF ii_lookahead
    <3>2. next \in left_edge .. End_buf - 1 /\ next \in 0 .. BUFSIZE - 1
      BY <2>1, <2>2, Sizes
    <3>3. Unterm[next] = Termchar
      BY <2>2, <3>2 DEF Unterm, IInv, TypeOK
    <3>4. Unterm[next] = text[shifted + next + 1]
      BY <3>2 DEF IInv, Window
    <3>5. i <= Len(text) /\ i = shifted + next + 1
      BY <2>1, <2>2, <3>2
    <3>. QED
      BY <3>1, <3>3, <3>4, <3>5
  <2>3. CASE ~(n = 1 /\ Termchar # 0) /\ n > End_buf - next
    <3>1. Eof_read
      <4>1. ~Eof_read => next <= End_buf - MAXLOOK
        BY DEF IInv, Room
      <4>. QED
        BY <2>1, <2>3, <4>1, Sizes
    <3>2. ii_lookahead(n) = EOF
      BY <2>3, <3>1 DEF ii_lookahead, ii_look
    <3>3. Len(rest) = 0
      BY <3>1 DEF IInv, Room
    <3>4. ~(i <= Len(text))
      BY <2>1, <2>3, <3>3
    <3>. QED
      BY <3>2, <3>4
  <2>4. CASE ~(n = 1 /\ Termchar # 0) /\ ~(n > End_buf - next)
    <3>1. ~(n - 1 < -next)
      BY <2>1
    <3>2. ii_lookahead(n) = Start_buf[next + n - 1]
      BY <2>4, <3>1 DEF ii_lookahead, ii_look
    <3>3. next + n - 1 \in left_edge .. End_buf - 1 /\ next + n - 1 \in 0 .. BUFSIZE - 1
      BY <2>1, <2>4, Sizes
    <3>4. Start_buf[next + n - 1] = Unterm[next + n - 1]
      <4>1. CASE n = 1
        BY <2>4, <4>1, UntermType DEF IInv
      <4>2. CASE n # 1
        <5>1. next + n - 1 # next
          BY <2>1, <4>2
        <5>. QED
          BY <3>3, <5>1, UntermType DEF IInv
      <4>. QED
        BY <4>1, <4>2
    <3>5. Unterm[next + n - 1] = text[shifted + (next + n - 1) + 1]
      BY <3>3 DEF IInv, Window
    <3>6. shifted + (next + n - 1) + 1 = i /\ i <= Len(text)
      BY <2>1, <2>4
    <3>. QED
      BY <3>2, <3>4, <3>5, <3>6
  <2>. QED
    BY <2>2, <2>3, <2>4
<1>. QED
  BY <1>1, InductiveInvariant, PTL

\* A result of ii_advance() is 0, the character in front of the next one, or a refusal.
Answer ==
  ret # NONE =>
    \/ ret = 0
    \/ shifted + next > 0 /\ ret = text[shifted + next]
    \/ ret = -1 /\ ~Eof_read /\ next >= DANGER /\ NotEnoughRoom(left_edge)

LEMMA NextAnswer == IInv /\ Answer /\ [Next]_vars => Answer'
<1>. SUFFICES ASSUME IInv, Answer, [Next]_vars PROVE Answer'
  OBVIOUS
<1>1. ASSUME ret' = NONE PROVE Answer'
  BY <1>1 DEF Answer
<1>2. ASSUME ret' = ret, UNCHANGED <<Eof_read, End_buf, shifted, next, sMark, pMark, text>>
      PROVE  Answer'
  <2>1. left_edge' = left_edge
    BY <1>2 DEF left_edge
  <2>. QED
    BY <1>2, <2>1 DEF Answer, DANGER, NotEnoughRoom
<1>3. CASE AdvanceAtEnd
  BY <1>3 DEF AdvanceAtEnd, Returns, Answer
<1>4. CASE AdvanceRefused
  <2>1. ret' = -1 /\ UNCHANGED <<Eof_read, End_buf, next, sMark, pMark>>
    BY <1>4 DEF AdvanceRefused, Returns, file
  <2>2. left_edge' = left_edge
    BY <2>1 DEF left_edge
  <2>. QED
    BY <1>4, <2>1, <2>2 DEF AdvanceRefused, Answer, DANGER, NotEnoughRoom
<1>5. CASE AdvanceReads
  <2>1. /\ been_called /\ Termchar = 0 /\ next < End_buf
    <3>1. CASE pc = "read"
      BY <3>1 DEF IInv, Phases
    <3>2. CASE pc = "advance" /\ ~NO_MORE_CHARS
      <4>1. been_called /\ Termchar = 0
        BY <3>2 DEF IInv, Phases
      <4>. QED
        BY <3>2, <4>1, LeftAndNext DEF IInv, Room, NO_MORE_CHARS
    <3>. QED
      BY <1>5, <3>1, <3>2 DEF AdvanceReads
  <2>2. /\ ret' = Start_buf[next] /\ next' = next + 1
        /\ shifted' = shifted /\ text' = text
    BY <1>5 DEF AdvanceReads, Returns, file, hist
  <2>3. Start_buf[next] = text[shifted + next + 1]
    <3>1. next \in left_edge .. End_buf - 1
      BY <2>1, LeftAndNext
    <3>. QED
      BY <2>1, <3>1, UntermType DEF IInv, Window
  <2>4. shifted' + next' = shifted + next + 1 /\ shifted' + next' > 0
    BY <2>1, <2>2, LeftAndNext
  <2>. QED
    BY <2>2, <2>3, <2>4 DEF Answer
<1>6. CASE FlushInAdvance
  <2>1. ret' = NONE
    BY <1>6 DEF FlushInAdvance, CannotRead, IInv, Phases
  <2>. QED
    BY <1>1, <2>1
<1>7. CASE InputReturns \/ TailEnds
  BY <1>2, <1>7 DEF InputReturns, TailEnds, hist, file, places
<1>8. CASE ScannerFlush \/ TailFlush
  <2>1. CASE ForcedFlushFails
    BY <1>2, <1>8, <2>1 DEF ForcedFlushFails, CannotRead, ScannerFlush, TailFlush, hist, file, places
  <2>2. CASE ForcedFlush
    BY <1>1, <2>2 DEF ForcedFlush
  <2>. QED
    BY <1>8, <2>1, <2>2 DEF ScannerFlush, TailFlush
<1>9. CASE UNCHANGED vars
  BY <1>2, <1>9 DEF vars, hist, file, places
<1>10. CASE \/ \E who \in {"scanner", "input", "terminated"} : CallAdvance(who)
            \/ MarkStart \/ MarkEnd \/ MoveStart \/ ToMark \/ MarkPrev
            \/ Term \/ CallUnterm \/ Pushback \/ Unput \/ EnterTail \/ TailCopies
  <2>1. ret' = NONE
    BY <1>10 DEF CallAdvance, MarkStart, MarkEnd, MoveStart, ToMark, MarkPrev, Term, CallUnterm,
       Pushback, Unput, EnterTail, TailCopies, Idle
  <2>. QED
    BY <1>1, <2>1
<1>. QED
  BY <1>3, <1>4, <1>5, <1>6, <1>7, <1>8, <1>9, <1>10 DEF Next, ScannerCalls, Continues

\* The previous lexeme as a place in the text.
Previous == IF pMark = NULL \/ ~been_called THEN NULL ELSE shifted + pMark

\* A call after which only the result is forgotten.
LEMMA Forgets ==
  ASSUME shifted' + next' = shifted + next, shifted' + sMark' = shifted + sMark,
         shifted' + eMark' = shifted + eMark, Previous' = Previous, text' = text,
         ret' = NONE
  PROVE  Stream!Forget
BY DEF Stream!Forget, Stream!NONE, NONE, Previous

LEMMA Still ==
  ASSUME shifted' + next' = shifted + next, shifted' + sMark' = shifted + sMark,
         shifted' + eMark' = shifted + eMark, Previous' = Previous, text' = text,
         ret' = ret
  PROVE  UNCHANGED Stream!vars
BY DEF Stream!vars, Previous

\* ferr() changes nothing.
LEMMA ExitStill ==
  ASSUME NEW left, CannotRead(left), UNCHANGED <<been_called, caller, hist>>
  PROVE  UNCHANGED Stream!vars
<1>1. UNCHANGED <<shifted, next, sMark, eMark, pMark, been_called, ret, text>>
  BY DEF CannotRead, file, places, hist
<1>. QED
  BY <1>1, Still DEF Previous

\* The buffer has moved: every mark stands at the same character as before.
LEMMA MovedSame ==
  ASSUME IInv, been_called, been_called', NEW left \in left_edge .. next,
         MoveToFront(Unterm, left), ~Eof_read, Move(next, sMark, eMark, pMark, left),
         pMark # NULL => left <= pMark
  PROVE  /\ shifted' + next' = shifted + next
         /\ shifted' + sMark' = shifted + sMark
         /\ shifted' + eMark' = shifted + eMark
         /\ Previous' = Previous
<1>1. shifted' = shifted + left
  BY MovedToFront DEF IInv
<1>2. left \in Int /\ next \in Int /\ sMark \in Int /\ eMark \in Int /\ shifted \in Int
  BY LeftAndNext
<1>3. /\ next' = next - left /\ sMark' = sMark - left /\ eMark' = eMark - left
      /\ pMark' = IF pMark # NULL THEN pMark - left ELSE NULL
  BY DEF Move
<1>4. pMark # NULL => pMark \in Int /\ pMark - left >= 0
  <2>1. pMark \in (0 .. sMark) \cup {NULL}
    BY DEF IInv, TypeOK
  <2>. QED
    BY <1>2, <2>1
<1>5. pMark # NULL <=> pMark' # NULL
  BY <1>2, <1>3, <1>4 DEF NULL
<1>6. pMark # NULL => shifted' + pMark' = shifted + pMark
  BY <1>1, <1>2, <1>3, <1>4
<1>7. Previous' = Previous
  BY <1>5, <1>6 DEF Previous
<1>. QED
  BY <1>1, <1>2, <1>3, <1>7

\* What the stream calls its left edge is that of the buffer.
LEMMA SameEdge ==
  ASSUME IInv, been_called
  PROVE  Stream!LeftEdge = shifted + left_edge
<1>1. left_edge = IF pMark # NULL THEN pMark ELSE sMark
  BY DEF left_edge
<1>2. shifted + left_edge >= 0 /\ shifted \in Int /\ left_edge \in Int
  BY LeftAndNext
<1>3. pMark # NULL => shifted + pMark # NULL
  BY <1>1, <1>2 DEF NULL
<1>. QED
  BY <1>1, <1>3 DEF Stream!LeftEdge, Stream!NULL, NULL

\* ferr() ends the program only at the end of the text, or where a byte above 127 has been
\* taken for a refusal.
LEMMA ExitAllowed ==
  ASSUME IInv, Answer, been_called, ~Eof_read, pc # "exit",
         UNCHANGED <<been_called, caller, hist>>,
         \/ ForcedFlushFails /\ ret < 0 /\ ret # NONE
         \/ CannotRead(left_edge) /\ next >= DANGER /\ ~NotEnoughRoom(left_edge)
  PROVE  StopsOnlyAtEnd'
<1>1. /\ next \in Int /\ End_buf \in Int /\ left_edge \in Int /\ shifted \in Int
      /\ 0 <= left_edge /\ left_edge <= next /\ next <= End_buf /\ End_buf <= END
      /\ Len(rest) \in Nat /\ Len(text) = shifted + End_buf + Len(rest)
      /\ End_buf > END - MAXLEX
      /\ text \in Seq(Chars)
  <2>1. text \in Seq(Chars) /\ rest \in Seq(Chars)
    BY DEF IInv, TypeOK
  <2>2. Len(text) = shifted + End_buf + Len(rest) /\ End_buf > END - MAXLEX
    BY DEF IInv, Room, Window
  <2>3. /\ next \in 0 .. END /\ End_buf \in next .. END /\ sMark \in 0 .. next
        /\ left_edge \in 0 .. sMark /\ shifted \in Int /\ END \in Nat
    BY LeftAndNext, Sizes
  <2>. QED
    BY <2>1, <2>2, <2>3
<1>2. PICK left \in {left_edge, next} :
        /\ CannotRead(left)
        /\ \/ left = left_edge /\ ~NotEnoughRoom(left_edge)
           \/ left = next /\ NotEnoughRoom(left_edge)
  BY DEF ForcedFlushFails
<1>3. /\ pc' = "exit"
      /\ UNCHANGED <<shifted, next, sMark, eMark, pMark, been_called, ret, text>>
  BY <1>2 DEF CannotRead, file, places, hist
<1>5. CASE ret < 0 /\ shifted + next > 0 /\ ret = text[shifted + next]
  BY <1>3, <1>5 DEF StopsOnlyAtEnd
<1>6. CASE next >= DANGER /\ left >= MAXLEX
  <2>1. End_buf - left \in 0 .. END
    BY <1>1, <1>2, Sizes
  <2>2. Need(End_buf - left) > 0
    <3>1. END - (End_buf - left) - MAXLEX < Need(End_buf - left)
      BY <2>1, NeedFits
    <3>2. Need(End_buf - left) \in Int
      BY <2>1, NeedFits
    <3>3. left \in Int
      BY <1>1, <1>2
    <3>. QED
      BY <1>1, <1>6, <3>1, <3>2, <3>3, Sizes
  <2>3. Len(rest) = 0
    <3>1. Least(Need(End_buf - left), Len(rest)) = 0
      BY <1>2 DEF CannotRead, Got
    <3>. QED
      BY <1>1, <2>2, <3>1 DEF Least
  <2>4. shifted + next + MAXLOOK >= Len(text)
    BY <1>1, <1>6, <2>3, Sizes DEF DANGER
  <2>. QED
    BY <1>3, <2>4 DEF StopsOnlyAtEnd
<1>7. CASE ForcedFlushFails /\ ret < 0 /\ ret # NONE
  <2>1. CASE ret = -1 /\ next >= DANGER /\ NotEnoughRoom(left_edge)
    <3>1. left >= MAXLEX
      BY <1>1, <1>2, <2>1, Sizes DEF DANGER
    <3>. QED
      BY <1>6, <2>1, <3>1
  <2>. QED
    BY <1>5, <1>7, <2>1 DEF Answer
<1>8. CASE CannotRead(left_edge) /\ next >= DANGER /\ ~NotEnoughRoom(left_edge)
  <2>1. left_edge >= MAXLEX /\ next >= MAXLEX
    BY <1>1, <1>8, Sizes DEF NotEnoughRoom
  <2>. QED
    BY <1>2, <1>6, <1>8, <2>1
<1>. QED
  BY <1>7, <1>8

LEMMA InitStream == Init => Stream!Init
<1>. SUFFICES ASSUME Init PROVE Stream!Init
  OBVIOUS
<1>1. /\ rest \in Files /\ next = END /\ sMark = END /\ eMark = END /\ been_called = FALSE
      /\ ret = NONE /\ pc = "idle" /\ text = <<NEWLINE>> \o rest /\ shifted = -END
  BY DEF Init
<1>2. shifted + next = 0 /\ shifted + sMark = 0 /\ shifted + eMark = 0
  BY <1>1, Sizes
<1>3. text \in {<<Stream!NEWLINE>> \o text0 : text0 \in Files}
  BY <1>1 DEF NEWLINE, Stream!NEWLINE
<1>. QED
  BY <1>1, <1>2, <1>3 DEF Stream!Init, Stream!NONE, NONE, Stream!NULL, NULL

\* ii_advance() gives what Stream!Advance gives.
LEMMA AdvanceStream ==
  ASSUME IInv, AdvanceAtEnd \/ AdvanceRefused \/ AdvanceReads
  PROVE  Stream!Advance
<1>1. /\ ret' \in {0, -1, Start_buf[next]} /\ pc' = After(caller)
      /\ UNCHANGED <<shifted, sMark, eMark, pMark, been_called, text>>
      /\ caller \in {"scanner", "input", "terminated", "tail"}
      /\ pc # "exit"
  BY DEF AdvanceAtEnd, AdvanceRefused, AdvanceReads, Returns, file, hist, IInv, TypeOK
<1>2. been_called /\ Termchar = 0
  BY DEF AdvanceAtEnd, AdvanceRefused, AdvanceReads, IInv, Phases
<1>3. Previous' = Previous /\ pc' # "exit"
  BY <1>1 DEF Previous, After
<1>4. /\ next \in Int /\ End_buf \in Int /\ left_edge \in Int /\ shifted \in Int
      /\ 0 <= left_edge /\ left_edge <= next /\ next <= End_buf /\ End_buf <= END
      /\ Len(rest) \in Nat /\ Len(text) = shifted + End_buf + Len(rest)
  <2>1. /\ next \in 0 .. END /\ End_buf \in next .. END /\ sMark \in 0 .. next
        /\ left_edge \in 0 .. sMark /\ shifted \in Int /\ END \in Nat
    BY LeftAndNext, Sizes
  <2>2. rest \in Seq(Chars) /\ Len(text) = shifted + End_buf + Len(rest)
    BY <1>2 DEF IInv, Window, TypeOK
  <2>. QED
    BY <2>1, <2>2
<1>5. CASE AdvanceAtEnd
  <2>1. shifted + next = Len(text)
    BY <1>2, <1>4, <1>5 DEF AdvanceAtEnd, NO_MORE_CHARS, IInv, Room
  <2>2. ret' = 0 /\ next' = next
    BY <1>5 DEF AdvanceAtEnd, Returns
  <2>. QED
    BY <1>1, <1>3, <2>1, <2>2 DEF Stream!Advance, Previous
<1>6. CASE AdvanceRefused
  <2>1. left_edge < MAXLEX /\ next >= End_buf - MAXLOOK /\ ~Eof_read
    BY <1>6 DEF AdvanceRefused, NotEnoughRoom, DANGER
  <2>2. End_buf > END - MAXLEX
    BY <1>2, <2>1 DEF IInv, Room
  <2>3. (shifted + next) - (shifted + left_edge) > MAXLEX
    BY <1>4, <2>1, <2>2, Sizes
  <2>4. ret' = -1 /\ next' = next
    BY <1>6 DEF AdvanceRefused, Returns
  <2>. QED
    BY <1>1, <1>2, <1>3, <2>3, <2>4, SameEdge DEF Stream!Advance, Previous
<1>7. CASE AdvanceReads
  <2>1. next < End_buf
    <3>1. CASE pc = "read"
      BY <3>1 DEF IInv, Phases
    <3>2. CASE pc = "advance" /\ ~NO_MORE_CHARS
      BY <1>2, <1>4, <3>2 DEF IInv, Room, NO_MORE_CHARS
    <3>. QED
      BY <1>7, <3>1, <3>2 DEF AdvanceReads
  <2>2. Start_buf[next] = text[shifted + next + 1]
    <3>1. next \in left_edge .. End_buf - 1
      BY <1>4, <2>1
    <3>. QED
      BY <1>2, <3>1, UntermType DEF IInv, Window
  <2>3. /\ ret' = Start_buf[next] /\ next' = next + 1
        /\ shifted + next < Len(text) /\ shifted' + next' = (shifted + next) + 1
    BY <1>1, <1>4, <1>7, <2>1 DEF AdvanceReads, Returns
  <2>. QED
    BY <1>1, <1>3, <2>2, <2>3 DEF Stream!Advance, Previous
<1>. QED
  BY <1>5, <1>6, <1>7

\* Marks move as in the stream.
LEMMA MarkStream ==
  ASSUME IInv
  PROVE  /\ MarkStart => Stream!MarkStart
         /\ MarkEnd \/ InputReturns => Stream!MarkEnd
         /\ MoveStart => Stream!MoveStart
         /\ ToMark => Stream!ToMark
         /\ MarkPrev => IF been_called THEN Stream!MarkPrev ELSE Stream!Forget
<1>. DEFINE Calls == MarkStart \/ MarkEnd \/ MoveStart \/ MarkPrev \/ ToMark
<1>1. Calls => /\ ret' = NONE /\ been_called' = been_called
               /\ shifted' = shifted /\ text' = text
  BY DEF MarkStart, MarkEnd, MoveStart, MarkPrev, ToMark, Idle, KeepBuffer, file, hist
<1>2. Calls /\ pMark' = pMark => Previous' = Previous
  BY <1>1 DEF Previous
<1>3. shifted \in Int /\ next \in Int /\ sMark \in Int /\ eMark \in Int /\ 0 <= sMark
  BY LeftAndNext
<1>4. ASSUME MarkStart PROVE Stream!MarkStart
  <2>1. next' = next /\ sMark' = next /\ eMark' = next /\ pMark' = pMark
    BY <1>4 DEF MarkStart
  <2>. QED
    BY <1>1, <1>2, <1>4, <2>1 DEF Stream!MarkStart, Previous, Stream!NONE, NONE
<1>5. ASSUME MarkEnd \/ InputReturns PROVE Stream!MarkEnd
  <2>1. /\ next' = next /\ sMark' = sMark /\ eMark' = next /\ pMark' = pMark
        /\ shifted' = shifted /\ text' = text /\ been_called' = been_called
        /\ ret' \in {ret, NONE}
    BY <1>1, <1>5 DEF MarkEnd, InputReturns, hist
  <2>2. Previous' = Previous
    BY <2>1 DEF Previous
  <2>. QED
    BY <2>1, <2>2 DEF Stream!MarkEnd, Previous, Stream!NONE, NONE
<1>6. ASSUME MoveStart PROVE Stream!MoveStart
  <2>1. next' = next /\ sMark' = sMark + 1 /\ eMark' = eMark /\ pMark' = pMark /\ sMark < eMark
    BY <1>6 DEF MoveStart
  <2>2. shifted + sMark < shifted + eMark /\ shifted + sMark' = (shifted + sMark) + 1
    BY <1>3, <2>1
  <2>. QED
    BY <1>1, <1>2, <1>6, <2>1, <2>2 DEF Stream!MoveStart, Previous, Stream!NONE, NONE
<1>7. ASSUME ToMark PROVE Stream!ToMark
  <2>1. next' = eMark /\ sMark' = sMark /\ eMark' = eMark /\ pMark' = pMark
    BY <1>7 DEF ToMark
  <2>. QED
    BY <1>1, <1>2, <1>7, <2>1 DEF Stream!ToMark, Previous, Stream!NONE, NONE
<1>8. ASSUME MarkPrev PROVE IF been_called THEN Stream!MarkPrev ELSE Stream!Forget
  <2>1. next' = next /\ sMark' = sMark /\ eMark' = eMark /\ pMark' = sMark
    BY <1>8 DEF MarkPrev
  <2>2. CASE been_called
    <3>1. Previous' = shifted + sMark
      BY <1>1, <1>3, <1>8, <2>1, <2>2 DEF Previous, NULL
    <3>. QED
      BY <1>1, <1>8, <2>1, <2>2, <3>1 DEF Stream!MarkPrev, Previous, Stream!NONE, NONE
  <2>3. CASE ~been_called
    <3>1. Previous' = Previous
      BY <1>1, <1>8, <2>3 DEF Previous
    <3>. QED
      BY <1>1, <1>8, <2>1, <2>3, <3>1, Forgets
  <2>. QED
    BY <2>2, <2>3
<1>. QED
  BY <1>4, <1>5, <1>6, <1>7, <1>8

\* ii_pushback() and ii_unput() go back as in the stream.
LEMMA BackStream ==
  ASSUME IInv, NEW place \in sMark .. next, GoBack(place),
         ret' = NONE, been_called' = been_called, shifted' = shifted
  PROVE  Stream!GoBack(shifted + place) /\ shifted + place \in shifted + sMark .. shifted + next
<1>. DEFINE n == shifted + place
<1>1. /\ next' = place /\ sMark' = sMark /\ pMark' = pMark
      /\ eMark' = IF place < eMark THEN place ELSE eMark
  BY DEF GoBack
<1>2. Previous' = Previous
  BY <1>1 DEF Previous
<1>3. n \in shifted + sMark .. shifted + next /\ (n < shifted + eMark <=> place < eMark)
  BY LeftAndNext
<1>4. shifted' + eMark' = IF n < shifted + eMark THEN n ELSE shifted + eMark
  BY <1>1, <1>3
<1>. QED
  BY <1>1, <1>2, <1>3, <1>4 DEF Stream!GoBack, Previous, Stream!NONE, NONE

LEMMA PushBackStream ==
  ASSUME IInv
  PROVE  /\ Pushback => Stream!Pushback
         /\ Unput => IF next = sMark + 1 THEN Stream!Pushback ELSE Stream!Unput
<1>1. ASSUME Pushback PROVE Stream!Pushback
  <2>1. PICK place \in sMark .. next : GoBack(place)
    BY <1>1 DEF Pushback
  <2>2. ret' = NONE /\ been_called' = been_called /\ shifted' = shifted /\ text' = text
    BY <1>1 DEF Pushback, Idle, KeepBuffer, file, hist
  <2>. QED
    BY <2>1, <2>2, BackStream DEF Stream!Pushback
<1>2. ASSUME Unput PROVE IF next = sMark + 1 THEN Stream!Pushback ELSE Stream!Unput
  <2>. DEFINE place == IF next > sMark THEN next - 1 ELSE next
  <2>1. place \in sMark .. next
    BY LeftAndNext
  <2>2. /\ GoBack(place) /\ ret' = NONE /\ been_called' = been_called /\ shifted' = shifted
        /\ text' = IF place > sMark THEN [text EXCEPT ![shifted + place + 1] = UnputChar]
                   ELSE text
    BY <1>2 DEF Unput, Idle
  <2>3. Stream!GoBack(shifted + place) /\ shifted + place \in shifted + sMark .. shifted + next
    BY <2>1, <2>2, BackStream
  <2>4. shifted \in Int /\ next \in Int /\ sMark \in Int /\ sMark <= next
    BY LeftAndNext
  <2>5. CASE next = sMark + 1
    <3>1. text' = text
      BY <2>2, <2>4, <2>5
    <3>. QED
      BY <2>3, <2>5, <3>1 DEF Stream!Pushback
  <2>6. CASE next > sMark + 1
    <3>1. /\ place = next - 1 /\ place > sMark
          /\ shifted + place = (shifted + next) - 1 /\ shifted + place + 1 = shifted + next
          /\ shifted + next > shifted + sMark
      BY <2>4, <2>6
    <3>2. next # sMark + 1
      BY <2>4, <2>6
    <3>3. Stream!GoBack((shifted + next) - 1)
      BY <2>3, <3>1
    <3>4. text' = [text EXCEPT ![shifted + next] = UnputChar]
      BY <2>2, <3>1
    <3>. QED
      BY <3>1, <3>2, <3>3, <3>4 DEF Stream!Unput
  <2>7. CASE next = sMark
    <3>1. place = next /\ text' = text /\ shifted + next = shifted + sMark
      BY <2>2, <2>4, <2>7
    <3>2. next # sMark + 1
      BY <2>4, <2>7
    <3>3. Stream!GoBack(shifted + next)
      BY <2>3, <3>1
    <3>. QED
      BY <3>1, <3>2, <3>3 DEF Stream!Unput
  <2>. QED
    BY <2>4, <2>5, <2>6, <2>7
<1>. QED
  BY <1>1, <1>2

\* A flush that is forced.
LEMMA FlushStream ==
  ASSUME IInv, Answer, ScannerFlush \/ TailFlush
  PROVE  IF pc' = "exit" THEN UNCHANGED Stream!vars /\ StopsOnlyAtEnd' ELSE Stream!Flush
<1>1. /\ pc \in {"idle", "tail"} /\ ret < 0 /\ ret # NONE /\ been_called
      /\ UNCHANGED <<been_called, caller, hist>>
      /\ ForcedFlushFails \/ (ForcedFlush /\ pc' \in {"idle", "advance"})
  <2>1. CASE ScannerFlush
    <3>1. ret < 0
      BY <2>1 DEF ScannerFlush
    <3>2. ret # NONE
      BY <3>1 DEF NONE
    <3>. QED
      BY <2>1, <3>1, <3>2 DEF ScannerFlush, IInv, Fresh
  <2>2. CASE TailFlush
    BY <2>2 DEF TailFlush, IInv, Phases, NONE
  <2>. QED
    BY <2>1, <2>2
<1>2. CASE ForcedFlushFails
  <2>1. ~Eof_read
    BY <1>2 DEF ForcedFlushFails
  <2>. QED
    <3>1. PICK left : CannotRead(left)
      BY <1>2 DEF ForcedFlushFails
    <3>2. pc' = "exit" /\ pc # "exit"
      BY <1>1, <3>1 DEF CannotRead
    <3>. QED
      BY <1>1, <1>2, <2>1, <3>1, <3>2, ExitAllowed, ExitStill
<1>3. CASE ForcedFlush /\ pc' \in {"idle", "advance"}
  <2>1. /\ ret' = NONE /\ pc # "exit" /\ pc' # "exit" /\ text' = text
        /\ been_called' = been_called
    BY <1>1, <1>2, <1>3 DEF ForcedFlush, hist
  <2>2. CASE Eof_read
    <3>1. UNCHANGED <<shifted, next, sMark, eMark, pMark>>
      BY <1>3, <2>2 DEF ForcedFlush, places
    <3>2. Previous' = Previous
      BY <2>1, <3>1 DEF Previous
    <3>. QED
      BY <1>1, <2>1, <3>1, <3>2 DEF Stream!Flush, Previous, Stream!NONE, NONE
  <2>3. CASE ~Eof_read /\ NotEnoughRoom(left_edge)
    <3>1. MoveToFront(Unterm, next) /\ Move(next, next, next, next, next)
      BY <1>3, <2>3 DEF ForcedFlush
    <3>2. shifted' = shifted + next
      BY <3>1 DEF MoveToFront
    <3>3. next \in Int /\ shifted \in Int /\ 0 <= next
      BY LeftAndNext
    <3>4. next' = 0 /\ sMark' = 0 /\ eMark' = 0 /\ pMark' = 0
      BY <3>1, <3>3 DEF Move, NULL
    <3>5. Previous' = shifted + next
      BY <1>1, <2>1, <3>2, <3>3, <3>4 DEF Previous, NULL
    <3>6. /\ shifted' + next' = shifted + next /\ shifted' + sMark' = shifted + next
          /\ shifted' + eMark' = shifted + next
      BY <3>2, <3>3, <3>4
    <3>. QED
      BY <1>1, <2>1, <3>5, <3>6 DEF Stream!Flush, Previous, Stream!NONE, NONE
  <2>4. CASE ~Eof_read /\ ~NotEnoughRoom(left_edge)
    <3>1. MoveToFront(Unterm, left_edge) /\ Move(next, sMark, eMark, pMark, left_edge)
      BY <1>3, <2>4 DEF ForcedFlush
    <3>2. left_edge \in left_edge .. next /\ (pMark # NULL => left_edge <= pMark)
      <4>1. pMark # NULL => left_edge = pMark
        BY DEF left_edge
      <4>. QED
        BY <4>1, LeftAndNext
    <3>3. /\ shifted' + next' = shifted + next /\ shifted' + sMark' = shifted + sMark
          /\ shifted' + eMark' = shifted + eMark /\ Previous' = Previous
      BY <1>1, <2>1, <2>4, <3>1, <3>2, MovedSame
    <3>. QED
      BY <1>1, <2>1, <3>3 DEF Stream!Flush, Previous, Stream!NONE, NONE
  <2>. QED
    BY <2>2, <2>3, <2>4
<1>. QED
  BY <1>1, <1>2, <1>3

\* The flush in ii_advance() is not seen, or ends the program.
LEMMA FlushedStream ==
  ASSUME IInv, Answer, FlushInAdvance
  PROVE  UNCHANGED Stream!vars /\ (pc' = "exit" => StopsOnlyAtEnd')
<1>1. /\ pc = "advance" /\ been_called /\ Termchar = 0 /\ ~Eof_read
      /\ next >= DANGER /\ ~NotEnoughRoom(left_edge)
      /\ UNCHANGED <<been_called, caller, hist>>
  BY DEF FlushInAdvance, IInv, Phases
<1>2. CASE CannotRead(left_edge)
  <2>1. pc # "exit"
    BY <1>1
  <2>. QED
    BY <1>1, <1>2, <2>1, ExitAllowed, ExitStill
<1>3. CASE /\ MoveToFront(Start_buf, left_edge)
           /\ Move(next, sMark, eMark, pMark, left_edge)
           /\ pc' = "read"
           /\ UNCHANGED <<lines, pLength, Termchar, ret>>
  <2>1. MoveToFront(Unterm, left_edge)
    BY <1>1, <1>3, UntermType DEF IInv
  <2>2. left_edge \in left_edge .. next /\ (pMark # NULL => left_edge <= pMark)
    <3>1. pMark # NULL => left_edge = pMark
      BY DEF left_edge
    <3>. QED
      BY <3>1, LeftAndNext
  <2>3. been_called' /\ text' = text /\ ret' = ret /\ pc # "exit" /\ pc' # "exit"
    BY <1>1, <1>3 DEF hist
  <2>4. /\ shifted' + next' = shifted + next /\ shifted' + sMark' = shifted + sMark
        /\ shifted' + eMark' = shifted + eMark /\ Previous' = Previous
    BY <1>1, <1>3, <2>1, <2>2, <2>3, MovedSame
  <2>. QED
    BY <2>3, <2>4, Still
<1>. QED
  BY <1>2, <1>3 DEF FlushInAdvance

\* Calls that leave the places as they are: the first call of ii_advance() sees the text
\* where it was, since its newline is the first character of the text.
LEMMA CallStream ==
  ASSUME IInv,
         \/ \E who \in {"scanner", "input", "terminated"} : CallAdvance(who)
         \/ Term \/ CallUnterm \/ EnterTail \/ TailCopies
  PROVE  Stream!Forget
<1>1. /\ pc # "exit" /\ pc' # "exit" /\ ret' = NONE /\ text' = text
  BY DEF CallAdvance, Term, CallUnterm, EnterTail, TailCopies, Idle, hist
<1>2. CASE UNCHANGED <<shifted, places, been_called>>
  <2>1. UNCHANGED <<shifted, next, sMark, eMark>> /\ Previous' = Previous
    BY <1>2 DEF Previous, places
  <2>. QED
    BY <1>1, <2>1, Forgets
<1>3. CASE ~UNCHANGED <<shifted, places, been_called>>
  <2>1. PICK who \in {"scanner", "input", "terminated"} : CallAdvance(who)
    BY <1>3 DEF Term, CallUnterm, EnterTail, TailCopies, Idle, file
  <2>2. CASE been_called
    BY <1>3, <2>1, <2>2 DEF CallAdvance, IInv, TypeOK
  <2>3. CASE ~been_called
    <3>1. /\ next = END /\ sMark = END /\ eMark = END /\ shifted = -END
      BY <2>3 DEF IInv, Fresh
    <3>2. /\ next' = END - 1 /\ sMark' = END - 1 /\ eMark' = END - 1 /\ pMark' = NULL
          /\ shifted' = 1 - END
      BY <2>1, <2>3 DEF CallAdvance
    <3>3. Previous = NULL /\ Previous' = NULL
      BY <2>3, <3>2 DEF Previous
    <3>4. /\ shifted' + next' = shifted + next /\ shifted' + sMark' = shifted + sMark
          /\ shifted' + eMark' = shifted + eMark
      BY <3>1, <3>2, Sizes
    <3>. QED
      BY <1>1, <3>3, <3>4, Forgets
  <2>. QED
    BY <2>2, <2>3
<1>. QED
  BY <1>2, <1>3

\* Only ferr() ends the program.
LEMMA OnlyFerr ==
  ASSUME IInv, Next, ~(ScannerFlush \/ TailFlush \/ FlushInAdvance)
  PROVE  pc' # "exit"
<1>1. ASSUME \/ \E who \in {"scanner", "input", "terminated"} : CallAdvance(who)
             \/ EnterTail \/ TailEnds \/ TailCopies \/ InputReturns
      PROVE  pc' # "exit"
  BY <1>1 DEF CallAdvance, EnterTail, TailEnds, TailCopies, InputReturns
<1>2. ASSUME \/ MarkStart \/ MarkEnd \/ MoveStart \/ ToMark \/ MarkPrev
             \/ Term \/ CallUnterm \/ Pushback \/ Unput
      PROVE  pc' # "exit"
  BY <1>2 DEF MarkStart, MarkEnd, MoveStart, ToMark, MarkPrev, Term, CallUnterm, Pushback,
     Unput, Idle
<1>3. ASSUME AdvanceAtEnd \/ AdvanceRefused \/ AdvanceReads
      PROVE  pc' # "exit"
  BY <1>3 DEF AdvanceAtEnd, AdvanceRefused, AdvanceReads, Returns, After, IInv, TypeOK
<1>. QED
  BY <1>1, <1>2, <1>3 DEF Next, ScannerCalls, Continues

LEMMA NextStream ==
  IInv /\ Answer /\ [Next]_vars => [Stream!Next]_(Stream!vars) /\ [AsCalled]_vars
<1>. SUFFICES ASSUME IInv, Answer, [Next]_vars
              PROVE  (Stream!Next \/ UNCHANGED Stream!vars) /\ (AsCalled \/ UNCHANGED vars)
  OBVIOUS
<1>1. AdvanceAtEnd \/ AdvanceRefused \/ AdvanceReads => Stream!Advance
  BY AdvanceStream
<1>2. FlushInAdvance => UNCHANGED Stream!vars
  BY FlushedStream
<1>3. ScannerFlush \/ TailFlush =>
        IF pc' = "exit" THEN UNCHANGED Stream!vars ELSE Stream!Flush
  BY FlushStream
<1>5. (\/ \E who \in {"scanner", "input", "terminated"} : CallAdvance(who)
       \/ Term \/ CallUnterm \/ EnterTail \/ TailCopies) => Stream!Forget
  BY CallStream
<1>9. TailEnds \/ UNCHANGED vars => UNCHANGED Stream!vars
  <2>. SUFFICES ASSUME TailEnds \/ UNCHANGED vars
                PROVE  UNCHANGED Stream!vars
    OBVIOUS
  <2>1. UNCHANGED <<shifted, next, sMark, eMark, pMark, been_called, ret, text>>
    BY DEF TailEnds, vars, file, places, hist
  <2>. QED
    BY <2>1, Still DEF Previous
<1>10. AsCalled
  BY <1>1, <1>3, MarkStream, PushBackStream DEF AsCalled, LosesUnput
<1>11. Next => Stream!Next \/ UNCHANGED Stream!vars
  BY <1>1, <1>2, <1>3, <1>5, <1>9, MarkStream, PushBackStream
     DEF Next, ScannerCalls, Continues, Stream!Next
<1>. QED
  BY <1>9, <1>10, <1>11

\* The program is ended where StopsOnlyAtEnd has it, and then nothing changes.
LEMMA NextStops == IInv /\ Answer /\ StopsOnlyAtEnd /\ [Next]_vars => StopsOnlyAtEnd'
<1>. SUFFICES ASSUME IInv, Answer, StopsOnlyAtEnd, [Next]_vars, pc' = "exit"
              PROVE  StopsOnlyAtEnd'
  BY DEF StopsOnlyAtEnd
<1>1. CASE UNCHANGED vars
  BY <1>1 DEF vars, file, places, hist, StopsOnlyAtEnd
<1>2. CASE Next
  BY <1>2, OnlyFerr, FlushStream, FlushedStream
<1>. QED
  BY <1>1, <1>2

LEMMA AnswersAlways == Spec => [](IInv /\ Answer)
<1>1. Init => Answer
  BY DEF Init, Answer
<1>. QED
  BY <1>1, InitIInv, NextIInv, NextAnswer, PTL DEF Spec

\* ferr() ends the program nowhere but within MAXLOOK characters of the end of the text, or
\* where a byte above 127 was returned and taken for a refusal, whatever the file.
THEOREM StopsRight == Spec => []StopsOnlyAtEnd
<1>1. Init => StopsOnlyAtEnd
  BY DEF Init, StopsOnlyAtEnd
<1>. QED
  BY <1>1, AnswersAlways, NextStops, PTL DEF Spec

\* The buffer does not show, whatever the file and the sizes: until ferr() ends the program a
\* scanner reads the text as it stands in the file, each character once and in order, is
\* refused only behind a lexeme of more than MAXLEX characters, finds its marks at the
\* characters it set them at, and every call does what the comments promise of it, but for
\* ii_unput() at the first character of a lexeme.
THEOREM Implements == Spec => ImplementsStream
BY AnswersAlways, InitStream, NextStream, PTL
   DEF Spec, ImplementsStream, Stream!Spec
============================================================================
