------------------------------- MODULE Parser -------------------------------
(***************************************************************************)
(* The parser of rbison.par: yyparse() with yy_shift(), yy_reduce() and    *)
(* yy_recover(), driven by the tables make_parse_tables() prints.          *)
(*                                                                         *)
(* Elements of both stacks are counted from the bottom, and a stack        *)
(* pointer is the number of elements: sp is yystk_ele(Yy_stack), vsp is    *)
(* YYMAXDEPTH - (Yy_vsp - Yy_vstack).  What is above a pointer stays in    *)
(* the array, as yy_recover() counts on.                                   *)
(*                                                                         *)
(* yylex() and the actions of the grammar are external: yylex() delivers   *)
(* the tokens of `input' and then 0, and an action sets $$ to all that     *)
(* $1, $2, ... stand for, or makes yyparse() return.                       *)
(***************************************************************************)
EXTENDS ParserTables

CONSTANTS
  Programs,         \* parsers by name, see ParserTables
  YYMAXDEPTH,
  YYMAXERR,
  YYCASCADE

ASSUME ProgramsAssumption ==
  \A name \in DOMAIN Programs :
    IsParser(Programs[name]) /\ Programs[name].maxInput \in 0 .. Programs[name].longest

ASSUME LimitsAssumption ==
  YYMAXDEPTH \in Nat \ {0} /\ YYMAXERR \in Nat /\ YYCASCADE \in Nat

VARIABLES
  program,          \* the name of the parser
  input,            \* what yylex() will have delivered before 0
  rest,             \* what yylex() has still to deliver
  yylookahead,      \* in yy_recover(), its parameter token
  Yy_stack,         \* state stack
  sp,
  Yy_vstack,        \* value stack
  vsp,
  Yy_val,           \* $$
  suppress_err,
  yynerrs,
  old_sp,           \* local to yy_recover()
  pc,               \* "parse", "recover"; "accept", "abort", "user", "overflow", "undefined"
  shifted           \* history: the tokens shifted so far

vars == <<program, input, rest, yylookahead, Yy_stack, sp, Yy_vstack, vsp, Yy_val,
          suppress_err, yynerrs, old_sp, pc, shifted>>

given == <<program, input>>

stacks == <<Yy_stack, sp, Yy_vstack, vsp>>

Elements == 1 .. YYMAXDEPTH

Tables == Programs[program]

\* yy_next() on either table.
yy_next(table, state, sym) ==
  IF sym \in DOMAIN table[state] THEN table[state][sym] ELSE YYF

Action == yy_next(Tables.Yy_action, Yy_stack[sp], yylookahead)

\* yylex(): the next token, 0 at the end and from then on.
NextToken == IF rest = <<>> THEN 0 ELSE Head(rest)
AfterNext == IF rest = <<>> THEN <<>> ELSE Tail(rest)

Init ==
  /\ program \in DOMAIN Programs
  /\ input \in Inputs(Tables)
  /\ yylookahead = IF input = <<>> THEN 0 ELSE Head(input)
  /\ rest = IF input = <<>> THEN <<>> ELSE Tail(input)
  /\ Yy_stack = [n \in Elements |-> 0]
  /\ sp = 1
  /\ Yy_vstack = [n \in Elements |-> <<>>]
  /\ vsp = 1
  /\ Yy_val = <<>>
  /\ suppress_err = 0
  /\ yynerrs = 0
  /\ old_sp = 1
  /\ pc = "parse"
  /\ shifted = <<>>

----------------------------------------------------------------------------
\* Mutant: the counter goes round.
SuppressedAgain == IF suppress_err > 0 THEN suppress_err - 1 ELSE YYCASCADE

\* if (suppress_err) --suppress_err: in every cycle, before anything else is done.
Suppressed == IF suppress_err > 0 THEN suppress_err - 1 ELSE 0

\* Mutant: the stack is taken for full one element too late.
FullOneLate == sp > YYMAXDEPTH

\* yystk_full(Yy_stack)
StackFull == sp >= YYMAXDEPTH

\* yy_shift(), ii_mark_prev() and yy_nextoken()
Shift ==
  /\ pc = "parse"
  /\ Action # YYF
  /\ Action > 0
  /\ ~StackFull
  /\ sp' = sp + 1
  /\ Yy_stack' = [Yy_stack EXCEPT ![sp + 1] = Action]
  /\ vsp' = vsp + 1
  /\ Yy_vstack' = [Yy_vstack EXCEPT ![vsp + 1] = <<yylookahead>>]
  /\ shifted' = Append(shifted, yylookahead)
  /\ yylookahead' = NextToken
  /\ rest' = AfterNext
  /\ suppress_err' = Suppressed
  /\ UNCHANGED <<given, Yy_val, yynerrs, old_sp, pc>>

\* yypush() on a full stack: ferr("stack overflow\n") ends the program.
StackOverflow ==
  /\ pc = "parse"
  /\ Action # YYF
  /\ Action > 0
  /\ StackFull
  /\ pc' = "overflow"
  /\ UNCHANGED <<given, rest, yylookahead, stacks, Yy_val, suppress_err, yynerrs, old_sp,
                 shifted>>

\* Mutant: the right-hand side is read upwards from the top of the value stack.
TopElement(n, amount) == vsp - n + 1

\* Yy_vsp[Yy_rhslen - n], the element of $n
DollarElement(n, amount) == vsp - amount + n

\* What the action of a production makes of $1, $2, ...
ActionValue(amount) ==
  LET joined[n \in 0 .. amount] ==
        IF n = 0 THEN <<>> ELSE joined[n - 1] \o Yy_vstack[DollarElement(n, amount)]
  IN joined[amount]

\* yystk_item(Yy_stack, 0) after yypopn()
UncoveredState(amount) == Yy_stack[sp - amount]

\* yy_act() and yy_reduce(): the stacks shrink by the right-hand side and grow by one.
Reduce ==
  /\ pc = "parse"
  /\ Action # YYF
  /\ Action < 0
  /\ LET amount == Tables.Yy_reduce[-Action]
     IN /\ sp - amount + 1 <= YYMAXDEPTH
        /\ Yy_val' = ActionValue(amount)
        /\ sp' = sp - amount + 1
        /\ Yy_stack' = [Yy_stack EXCEPT
                          ![sp - amount + 1] = yy_next(Tables.Yy_goto, UncoveredState(amount),
                                                       Tables.Yy_lhs[-Action])]
        /\ vsp' = vsp - amount + 1
        /\ Yy_vstack' = [Yy_vstack EXCEPT ![vsp - amount + 1] = ActionValue(amount)]
  /\ suppress_err' = Suppressed
  /\ UNCHANGED <<given, rest, yylookahead, yynerrs, old_sp, pc, shifted>>

\* yypush_() does not look whether the stack is full: a reduction by an empty right-hand
\* side writes in front of both arrays, and what happens next is not modelled.
WriteOutside ==
  /\ pc = "parse"
  /\ Action # YYF
  /\ Action < 0
  /\ sp - Tables.Yy_reduce[-Action] + 1 > YYMAXDEPTH
  /\ pc' = "undefined"
  /\ UNCHANGED <<given, rest, yylookahead, stacks, Yy_val, suppress_err, yynerrs, old_sp,
                 shifted>>

\* A reduction by production 0.
Accept ==
  /\ pc = "parse"
  /\ Action = 0
  /\ Yy_val' = ActionValue(Tables.Yy_reduce[0])
  /\ suppress_err' = Suppressed
  /\ pc' = "accept"
  /\ UNCHANGED <<given, rest, yylookahead, stacks, yynerrs, old_sp, shifted>>

\* An action of the grammar returns a value of its own.
ActionReturns ==
  /\ pc = "parse"
  /\ Action # YYF
  /\ Action <= 0
  /\ pc' = "user"
  /\ UNCHANGED <<given, rest, yylookahead, stacks, Yy_val, suppress_err, yynerrs, old_sp,
                 shifted>>

----------------------------------------------------------------------------
\* The first part of yy_recover(): the message, unless it is suppressed.
ErrorFound ==
  /\ pc = "parse"
  /\ Action = YYF
  /\ suppress_err' = Suppressed
  /\ yynerrs' = IF Suppressed > 0 THEN yynerrs ELSE yynerrs + 1
  /\ pc' = IF Suppressed = 0 /\ yynerrs + 1 > YYMAXERR THEN "abort" ELSE "recover"
  /\ old_sp' = sp
  /\ UNCHANGED <<given, rest, yylookahead, stacks, Yy_val, shifted>>

\* while (!yystk_empty(Yy_stack) && yy_next(...) == YYF)
PopState ==
  /\ pc = "recover"
  /\ sp > 0
  /\ Action = YYF
  /\ sp' = sp - 1
  /\ UNCHANGED <<given, rest, yylookahead, Yy_stack, Yy_vstack, vsp, Yy_val,
                 suppress_err, yynerrs, old_sp, pc, shifted>>

\* Mutant: the value stack is left as it was when the error was found.
KeptValues(elements) == vsp

\* Yy_vsp = Yy_vstack + (YYMAXDEPTH - yystk_ele(Yy_stack))
AlignedValues(elements) == elements

\* A state that can go on with the token; yyparse() takes token 0 for a failure.
Recovered ==
  /\ pc = "recover"
  /\ sp > 0
  /\ Action # YYF
  /\ vsp' = AlignedValues(sp)
  /\ suppress_err' = YYCASCADE
  /\ pc' = IF yylookahead = 0 THEN "abort" ELSE "parse"
  /\ UNCHANGED <<given, rest, yylookahead, Yy_stack, sp, Yy_vstack, Yy_val, yynerrs,
                 old_sp, shifted>>

\* Mutant: the states popped for the last token are gone for the next one.
KeepPopped == 1

\* yystk_p(Yy_stack) = old_sp
RestoredPointer == old_sp

\* Mutant: 0 is a token like any other.
NeverLast(token) == FALSE

\* while (..., token = yy_nextoken())
LastToken(token) == token = 0

\* No state can: the states come back, and the next token is tried.
SkipToken ==
  /\ pc = "recover"
  /\ sp = 0
  /\ sp' = RestoredPointer
  /\ yylookahead' = NextToken
  /\ rest' = AfterNext
  /\ pc' = IF LastToken(NextToken) THEN "abort" ELSE "recover"
  /\ UNCHANGED <<given, Yy_stack, Yy_vstack, vsp, Yy_val, suppress_err, yynerrs,
                 old_sp, shifted>>

Next ==
  \/ Shift
  \/ StackOverflow
  \/ Reduce
  \/ WriteOutside
  \/ Accept
  \/ ActionReturns
  \/ ErrorFound
  \/ PopState
  \/ Recovered
  \/ SkipToken

\* yyparse() is sequential, and yylex() and the actions return.
Fairness == WF_vars(Next)

Spec == Init /\ [][Next]_vars /\ Fairness

----------------------------------------------------------------------------
(***************************************************************************)
(* Properties.                                                             *)
(***************************************************************************)
Running == pc \in {"parse", "recover"}

TypeOK ==
  /\ rest \in Seq(Nat)
  /\ yylookahead \in Nat
  /\ Yy_stack \in [Elements -> DOMAIN Tables.Yy_action]
  /\ sp \in 0 .. YYMAXDEPTH
  /\ DOMAIN Yy_vstack = Elements
  /\ vsp \in 1 .. YYMAXDEPTH
  /\ suppress_err \in 0 .. YYCASCADE
  /\ yynerrs \in 0 .. YYMAXERR + 1
  /\ old_sp \in 1 .. YYMAXDEPTH
  /\ pc \in {"parse", "recover", "accept", "abort", "user", "overflow", "undefined"}

\* The state stack is a path from state 0 in the tables, after every recovery too, and
\* also what yy_recover() has popped but may restore. With it, no reduction pops more
\* states than there are, and each finds its goto. The value stack stays in step: every
\* element of it is the value of a string that the symbol of the state beside it derives,
\* however many states yy_recover() has popped meanwhile. ($1, $2, ... in yy_act(); the
\* alignment of Yy_vsp in yy_recover())
StateStackIsPath ==
  Running =>
    LET top == IF pc = "recover" THEN old_sp ELSE sp
    IN /\ Yy_stack[1] = 0
       /\ \A n \in 2 .. top :
            \E sym \in DOMAIN Tables.strings :
              Leads(Tables, Yy_stack[n - 1], sym, Yy_stack[n])

ValuesMatchStates ==
  pc = "parse" =>
    /\ vsp = sp
    /\ \A n \in 2 .. sp : Yy_vstack[n] \in Tables.strings[Tables.accessing[Yy_stack[n]]]

StacksInStep == StateStackIsPath /\ ValuesMatchStates

\* Exactly the sentences are accepted without a message: input that is accepted with none
\* is a sentence and $$ of the goal stands for all of it; a message, and so a failure,
\* means that the input is none.
Sentences == Tables.strings[Tables.Yy_lhs[0]]

Sentence == input \in Sentences

ErrorFreeIffSentence ==
  /\ pc = "accept" /\ yynerrs = 0 => Sentence /\ Yy_val = input
  /\ yynerrs > 0 => ~Sentence
  /\ pc = "abort" => yynerrs > 0

\* The first message comes for the first token no sentence can go on with, before that
\* token is shifted and whatever was reduced because of it.
BeginsSentence(tokens) ==
  \E sentence \in Sentences :
    /\ Len(tokens) <= Len(sentence)
    /\ SubSeq(sentence, 1, Len(tokens)) = tokens

FirstErrorInTime ==
  [][yynerrs = 0 /\ yynerrs' = 1 =>
       /\ BeginsSentence(shifted)
       /\ IF yylookahead = 0
          THEN shifted \notin Sentences
          ELSE ~BeginsSentence(Append(shifted, yylookahead))]_vars

\* A token is skipped only when no state of the stack as it was when the error was found
\* can go on with it.
SkipsOnlyHopeless ==
  [][pc = "recover" /\ rest' # rest =>
       \A n \in 1 .. old_sp :
         yy_next(Tables.Yy_action, Yy_stack[n], yylookahead) = YYF]_vars

\* yyparse() returns on every input: recovery by popping, which reads no token, cannot go
\* on for ever, though its messages are suppressed.
ParserReturns == <>~Running

\* What the macros of yystack.h promise of a stack YYMAXDEPTH deep: a push on a full one
\* ends in `stack overflow', not in memory outside of it.
NoWriteOutside == pc # "undefined"
============================================================================
