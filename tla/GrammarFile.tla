---------------------------- MODULE GrammarFile ----------------------------
(***************************************************************************)
(* yyparse() of parser.c, the recursive-descent parser of grammar files,   *)
(* with its recovery by lookfor().  One step handles one token, or leaves  *)
(* a loop.                                                                 *)
(*                                                                         *)
(* A token is <<kind, text>>.  The scanner is external: yylex() delivers   *)
(* the tokens of `input', without WHITESPACE, and then <<"EOI", "">>; the  *)
(* tokens behind the second SEPARATOR are those it makes of the code that  *)
(* follows the rules.                                                      *)
(***************************************************************************)
EXTENDS SymbolTable

CONSTANT Files      \* the sequences of tokens it may have to read

\* What llout.h names; _EOI_ is none that yylex() finds in the file.
TokenKinds ==
  {"SEPARATOR", "PERCENT_UNION", "TYPE", "TERM_SPEC", "LEFT", "RIGHT", "NONASSOC",
   "CODE_BLOCK", "NAME", "FIELD", "ACTION", "PREC", "COLON", "OR", "SEMI"}

ASSUME FilesAssumption == Files \subseteq Seq(TokenKinds \X STRING)

VARIABLES
  input,            \* the file, fixed
  rest,             \* what yylex() has still to deliver
  Lookahead,
  tables,           \* see SymbolTable
  pc,               \* the loop the parser is in
  names,            \* in fnames(), tnames(), pnames(): which of them
  stops,            \* in lookfor(): the kinds of token it compares with
  return            \* and where it returns to

vars == <<input, rest, Lookahead, tables, pc, names, stops, return>>

Kind == Lookahead[1]
Text == Lookahead[2]

EndToken == <<"EOI", "">>

TokenAt(tokens) == IF tokens = <<>> THEN EndToken ELSE Head(tokens)
Behind(tokens)  == IF tokens = <<>> THEN <<>> ELSE Tail(tokens)

Init ==
  /\ input \in Files
  /\ Lookahead = TokenAt(input)
  /\ rest = Behind(input)
  /\ tables = InitialTables
  /\ pc = "definitions"
  /\ names = "TYPE"
  /\ stops = {}
  /\ return = "definitions"

\* Mutant: no %nonassoc behind a list of names.
StartersButNonassoc ==
  {"SEPARATOR", "PERCENT_UNION", "TYPE", "TERM_SPEC", "LEFT", "RIGHT", "CODE_BLOCK"}

\* What begins a definition, or ends them.
Starters ==
  {"SEPARATOR", "PERCENT_UNION", "TYPE", "TERM_SPEC", "LEFT", "RIGHT", "NONASSOC",
   "CODE_BLOCK"}

----------------------------------------------------------------------------
\* advance(): once at the end of the input, it stays there.
Advance ==
  /\ Lookahead' = IF Kind = "EOI" THEN Lookahead ELSE TokenAt(rest)
  /\ rest' = IF Kind = "EOI" THEN rest ELSE Behind(rest)

Stay == UNCHANGED <<rest, Lookahead>>

\* The tables after a call, and where the parser goes on unless the call ended rbison.
Call(called, next) ==
  /\ tables' = called
  /\ pc' = IF called.status = "run" THEN next ELSE called.status

Locals == <<names, stops, return>>

\* An error message, and lookfor(first, ..., 0).  lookfor() takes its arguments to lie in
\* memory one behind the other, which C does not promise: where they are passed in
\* registers, it finds the first one only.
CallLookfor(first, others, next) ==
  /\ tables' = NonFatal(tables)
  /\ pc' = "lookfor"
  /\ stops' \in {{first}, {first} \cup others}
  /\ return' = next
  /\ Stay
  /\ UNCHANGED <<input, names>>

\* Mutant: lookfor() does not stop at the end of the input.
NeverEnds == FALSE

\* match(_EOI_), after the advance()
InputEnds == Lookahead' = EndToken

Lookfor ==
  /\ pc = "lookfor"
  /\ Advance
  /\ IF Lookahead'[1] \in stops
     THEN Call(tables, return)
     ELSE IF InputEnds
     THEN Call(Fatal(tables), "lookfor")
     ELSE Call(tables, "lookfor")
  /\ UNCHANGED <<input, Locals>>

----------------------------------------------------------------------------
(***************************************************************************)
(* definitions()                                                           *)
(***************************************************************************)
UnionKeyword ==
  /\ pc = "definitions"
  /\ Kind = "PERCENT_UNION"
  /\ Advance
  /\ Call(tables, "union")
  /\ UNCHANGED <<input, Locals>>

\* union_def() only writes to the output, and turns fields on.
UnionAction ==
  /\ pc = "union"
  /\ Advance
  /\ Call(IF Kind = "ACTION" THEN tables ELSE NonFatal(tables), "definitions")
  /\ UNCHANGED <<input, Locals>>

NamesKeyword ==
  /\ pc = "definitions"
  /\ Kind \in {"TYPE", "TERM_SPEC", "LEFT", "RIGHT", "NONASSOC"}
  /\ Advance
  /\ names' = Kind
  /\ Call(CASE Kind = "TYPE"      -> tables
            [] Kind = "TERM_SPEC" -> new_lev(tables, "none")
            [] OTHER              -> new_lev(tables, Kind), "names")
  /\ UNCHANGED <<input, stops, return>>

CodeBlock ==
  /\ pc = "definitions"
  /\ Kind = "CODE_BLOCK"
  /\ Advance
  /\ Call(tables, "definitions")
  /\ UNCHANGED <<input, Locals>>

IllegalDefinition ==
  /\ pc = "definitions"
  /\ Kind \notin Starters \cup {"EOI"}
  /\ Advance
  /\ Call(NonFatal(tables), "definitions")
  /\ UNCHANGED <<input, Locals>>

\* The loops of fnames(), tnames() and pnames().
OneName ==
  /\ pc = "names"
  /\ Kind = "NAME"
  /\ Advance
  /\ Call(CASE names = "TYPE"      -> new_nonterm(tables, Text, FALSE)
            [] names = "TERM_SPEC" -> make_term(tables, Text)
            [] OTHER               -> prec_list(tables, Text), "names")
  /\ UNCHANGED <<input, Locals>>

OneField ==
  /\ pc = "names"
  /\ Kind = "FIELD"
  /\ Advance
  /\ Call(new_field(tables, Text), "names")
  /\ UNCHANGED <<input, Locals>>

NamesEnd ==
  /\ pc = "names"
  /\ Kind \in Starters
  /\ Stay
  /\ Call(tables, "definitions")
  /\ UNCHANGED <<input, Locals>>

IllegalName ==
  /\ pc = "names"
  /\ Kind \notin Starters \cup {"NAME", "FIELD"}
  /\ CallLookfor("SEPARATOR", Starters, "definitions")

\* Past the %%, or at the end of a file without one.
DefinitionsEnd ==
  /\ pc = "definitions"
  /\ Kind \in {"SEPARATOR", "EOI"}
  /\ Advance
  /\ Call(first_sym(tables), "body")
  /\ UNCHANGED <<input, Locals>>

----------------------------------------------------------------------------
(***************************************************************************)
(* body(), right_side() and rhs()                                          *)
(***************************************************************************)
LeftHandSide ==
  /\ pc = "body"
  /\ Kind = "NAME"
  /\ Advance
  /\ Call(new_nonterm(tables, Text, TRUE), "colon")
  /\ UNCHANGED <<input, Locals>>

IllegalLeftHandSide ==
  /\ pc = "body"
  /\ Kind \notin {"NAME", "SEPARATOR", "EOI"}
  /\ CallLookfor("SEMI", {"SEPARATOR"}, "skipped")

SkippedRule ==
  /\ pc = "skipped"
  /\ IF Kind = "SEMI" THEN Advance ELSE Stay
  /\ Call(tables, "body")
  /\ UNCHANGED <<input, Locals>>

Colon ==
  /\ pc = "colon"
  /\ IF Kind = "COLON" THEN Advance ELSE Stay
  /\ Call(new_rhs(IF Kind = "COLON" THEN tables ELSE NonFatal(tables)), "rhs")
  /\ UNCHANGED <<input, Locals>>

RhsObject ==
  /\ pc = "rhs"
  /\ Kind \in {"NAME", "FIELD", "ACTION"}
  /\ Advance
  /\ Call(add_to_rhs(tables, Text, Kind = "ACTION"), "rhs")
  /\ UNCHANGED <<input, Locals>>

PrecKeyword ==
  /\ pc = "rhs"
  /\ Kind = "PREC"
  /\ Advance
  /\ Call(tables, "prec")
  /\ UNCHANGED <<input, Locals>>

PrecName ==
  /\ pc = "prec"
  /\ Kind = "NAME"
  /\ Advance
  /\ Call(prec(tables, Text), "rhs")
  /\ UNCHANGED <<input, Locals>>

IllegalPrec ==
  /\ pc = "prec"
  /\ Kind # "NAME"
  /\ CallLookfor("SEMI", {"SEPARATOR", "OR"}, "rhs")

\* match(OR) || match(SEMI)
EndsRhs == Kind \in {"OR", "SEMI"}

RhsEnd ==
  /\ pc = "rhs"
  /\ Kind \notin {"NAME", "FIELD", "ACTION", "PREC"}
  /\ EndsRhs
  /\ Stay
  /\ Call(tables, "right_side")
  /\ UNCHANGED <<input, Locals>>

IllegalRhs ==
  /\ pc = "rhs"
  /\ Kind \notin {"NAME", "FIELD", "ACTION", "PREC"}
  /\ ~EndsRhs
  /\ CallLookfor("SEMI", {"SEPARATOR", "OR"}, "right_side")

NextRhs ==
  /\ pc = "right_side"
  /\ Kind = "OR"
  /\ Advance
  /\ Call(new_rhs(tables), "rhs")
  /\ UNCHANGED <<input, Locals>>

RuleEnd ==
  /\ pc = "right_side"
  /\ Kind # "OR"
  /\ IF Kind = "SEMI" THEN Advance ELSE Stay
  /\ Call(IF Kind = "SEMI" THEN tables ELSE NonFatal(tables), "body")
  /\ UNCHANGED <<input, Locals>>

BodyEnd ==
  /\ pc = "body"
  /\ Kind \in {"SEPARATOR", "EOI"}
  /\ Stay
  /\ Call(tables, "parsed")
  /\ UNCHANGED <<input, Locals>>

Parse ==
  \/ Lookfor
  \/ UnionKeyword
  \/ UnionAction
  \/ NamesKeyword
  \/ CodeBlock
  \/ IllegalDefinition
  \/ OneName
  \/ OneField
  \/ NamesEnd
  \/ IllegalName
  \/ DefinitionsEnd
  \/ LeftHandSide
  \/ IllegalLeftHandSide
  \/ SkippedRule
  \/ Colon
  \/ RhsObject
  \/ PrecKeyword
  \/ PrecName
  \/ IllegalPrec
  \/ RhsEnd
  \/ IllegalRhs
  \/ NextRhs
  \/ RuleEnd
  \/ BodyEnd
============================================================================
