---------------------------- MODULE FileMeaning ----------------------------
(***************************************************************************)
(* What a grammar file says, read off its tokens by their positions and    *)
(* neighbours, without a parser: which files are correct, and what symbols,*)
(* productions and precedences they declare.  The parser of GrammarFile is *)
(* held against these definitions; they translate the grammar in the       *)
(* comments of parser.c, and not its code.                                 *)
(***************************************************************************)
EXTENDS SymbolTable, FiniteSetsExt

KindAt(s, i) == IF i \in DOMAIN s THEN s[i][1] ELSE "EOI"
TextAt(s, i) == s[i][2]

Positions(s, kinds) == {i \in DOMAIN s : KindAt(s, i) \in kinds}

\* The definitions end at the first %%, the rules at the second or the end of the file.
DefsEnd(s)  == Min(Positions(s, {"SEPARATOR"}) \cup {Len(s) + 1})
RulesEnd(s) == Min({i \in Positions(s, {"SEPARATOR"}) : i > DefsEnd(s)} \cup {Len(s) + 1})

Defs(s)  == 1 .. DefsEnd(s) - 1
Rules(s) == DefsEnd(s) + 1 .. RulesEnd(s) - 1

TermKeywords == {"TERM_SPEC", "LEFT", "RIGHT", "NONASSOC"}
PrecKeywords == {"LEFT", "RIGHT", "NONASSOC"}
ListKeywords == TermKeywords \cup {"TYPE"}

----------------------------------------------------------------------------
(***************************************************************************)
(* Which files follow the grammar.                                         *)
(***************************************************************************)
DefinitionFits(s, i) ==
  /\ KindAt(s, i) \in
       ListKeywords \cup {"PERCENT_UNION", "ACTION", "CODE_BLOCK", "NAME", "FIELD"}
  /\ KindAt(s, i) = "ACTION" <=> KindAt(s, i - 1) = "PERCENT_UNION"
  /\ KindAt(s, i) \in {"NAME", "FIELD"} =>
       KindAt(s, i - 1) \in ListKeywords \cup {"NAME", "FIELD"}

HasSeparator(s) == Positions(s, {"SEPARATOR"}) # {}

CorrectDefinitions(s) ==
  /\ HasSeparator(s)
  /\ \A i \in Defs(s) : DefinitionFits(s, i)
  /\ KindAt(s, DefsEnd(s) - 1) # "PERCENT_UNION"

IsLhs(s, i) ==
  /\ i \in Rules(s)
  /\ KindAt(s, i) = "NAME"
  /\ KindAt(s, i - 1) \in {"SEPARATOR", "SEMI"}

RuleFits(s, i) ==
  /\ KindAt(s, i) \in {"NAME", "FIELD", "ACTION", "PREC", "COLON", "OR", "SEMI"}
  /\ KindAt(s, i - 1) \in {"SEPARATOR", "SEMI"} => IsLhs(s, i)
  /\ KindAt(s, i) = "COLON" <=> IsLhs(s, i - 1)
  /\ KindAt(s, i - 1) = "PREC" => KindAt(s, i) = "NAME"

CorrectRules(s) ==
  /\ \A i \in Rules(s) : RuleFits(s, i)
  /\ KindAt(s, RulesEnd(s) - 1) \in {"SEPARATOR", "SEMI"}

----------------------------------------------------------------------------
(***************************************************************************)
(* Names.                                                                  *)
(***************************************************************************)

\* The names in lists that begin with one of these keywords.
Listed(s, keywords) ==
  {i \in Defs(s) :
     /\ KindAt(s, i) = "NAME"
     /\ \E k \in Positions(s, keywords) :
          k < i /\ \A j \in k + 1 .. i - 1 : KindAt(s, j) \in {"NAME", "FIELD"}}

\* The symbols of right-hand sides; the name behind %prec is none.
Objects(s) ==
  {i \in Rules(s) : /\ KindAt(s, i) \in {"NAME", "FIELD", "ACTION"}
                    /\ ~IsLhs(s, i)
                    /\ KindAt(s, i - 1) # "PREC"}

PrecNames(s) == {i \in Rules(s) : KindAt(s, i) = "NAME" /\ KindAt(s, i - 1) = "PREC"}

\* The first list with a name decides what it names; any other is a nonterminal.
IsTerminalName(s, x) ==
  \E i \in Listed(s, TermKeywords) :
    /\ TextAt(s, i) = x
    /\ \A j \in Listed(s, ListKeywords) : TextAt(s, j) = x => j >= i

Lhss(s) == {i \in Rules(s) : IsLhs(s, i)}

\* Where a symbol is named.
Namings(s) ==
  Listed(s, ListKeywords) \cup Lhss(s) \cup {i \in Objects(s) : KindAt(s, i) # "ACTION"}

Names(s) == {TextAt(s, i) : i \in Namings(s)}

Terminals(s)    == {x \in Names(s) : IsTerminalName(s, x)}
Nonterminals(s) == Names(s) \ Terminals(s)

\* Used on a right-hand side, with no rule to define them.
Undefined(s) ==
  {x \in Nonterminals(s) : /\ \E i \in Objects(s) : KindAt(s, i) # "ACTION" /\ TextAt(s, i) = x
                           /\ \A i \in Lhss(s) : TextAt(s, i) # x}

----------------------------------------------------------------------------
(***************************************************************************)
(* Productions, named by the position of the colon or bar they follow.     *)
(***************************************************************************)
Starts(s) == {i \in Rules(s) : KindAt(s, i) \in {"COLON", "OR"}}

Number(s, start) == Cardinality({i \in Starts(s) : i < start})

StartOf(s, i) == Max({k \in Starts(s) : k < i})

LhsOf(s, start) == TextAt(s, Max({i \in Lhss(s) : i < start}))

ObjectsOf(s, start) == {i \in Objects(s) : i > start /\ StartOf(s, i) = start}

\* The place of an object in its right-hand side, from 1.
Place(s, i) == Cardinality({j \in ObjectsOf(s, StartOf(s, i)) : j <= i})

\* A terminal's level: how many %left, %right and %nonassoc come before its last listing.
LevelOf(s, x) ==
  LET listed == {i \in Listed(s, PrecKeywords) : TextAt(s, i) = x}
  IN IF listed = {} THEN 0
     ELSE Cardinality({k \in Positions(s, PrecKeywords) : k < Max(listed)})

AssocOf(s, x) ==
  LET listed == {i \in Listed(s, PrecKeywords) : TextAt(s, i) = x}
  IN IF listed = {} THEN "none"
     ELSE KindAt(s, Max({k \in Positions(s, PrecKeywords) : k < Max(listed)}))

FirstNaming(s, x) == Min({i \in Namings(s) : TextAt(s, i) = x})

FieldsBefore(s, x) == {i \in Defs(s) : KindAt(s, i) = "FIELD" /\ i < FirstNaming(s, x)}

\* Those of the list the name comes first in.
OwnFields(s, x) ==
  {i \in FieldsBefore(s, x) :
     \A j \in i + 1 .. FirstNaming(s, x) - 1 : KindAt(s, j) \in {"NAME", "FIELD"}}

\* A field holds to the end of its list, which new_field("") follows.
FieldOf(s, x) == IF OwnFields(s, x) = {} THEN "" ELSE TextAt(s, Max(OwnFields(s, x)))

\* Only earlier lists have named a field.
FieldLeft(s, x) == OwnFields(s, x) = {} /\ FieldsBefore(s, x) # {}

\* A production's level: its last terminal or its last %prec, whichever is later.
Giving(s, start) ==
  {i \in ObjectsOf(s, start) : KindAt(s, i) # "ACTION" /\ TextAt(s, i) \in Terminals(s)}
  \cup {i \in PrecNames(s) : i > start /\ StartOf(s, i) = start}

LevelBy(s, giving) ==
  LET x == TextAt(s, Max(giving))
  IN IF giving = {} THEN 0 ELSE IF x \in DOMAIN Numerals THEN Numerals[x] ELSE LevelOf(s, x)

PrecOf(s, start) == LevelBy(s, Giving(s, start))

----------------------------------------------------------------------------
\* Names are used as what they are, and the tables have room.
CorrectNames(s) ==
  /\ \A i \in Listed(s, TermKeywords) : TextAt(s, i) \in CIdentifiers
  /\ \A i \in Listed(s, PrecKeywords) : IsTerminalName(s, TextAt(s, i))
  /\ \A i \in Listed(s, {"TYPE"}) \cup Lhss(s) : ~IsTerminalName(s, TextAt(s, i))
  /\ \A i \in PrecNames(s) : TextAt(s, i) \in Terminals(s) \cup DOMAIN Numerals
  /\ \A start \in Starts(s) : Cardinality(ObjectsOf(s, start)) <= MAXRHS
  /\ Cardinality(Terminals(s)) <= MAXTERM
  /\ Cardinality(Nonterminals(s)) <= MAXNONTERM - MINNONTERM + 1
  /\ Cardinality(Starts(s)) <= MAXPROD

\* A file rbison should have nothing to object to.
CorrectFile(s) == CorrectDefinitions(s) /\ CorrectRules(s) /\ CorrectNames(s)
============================================================================
