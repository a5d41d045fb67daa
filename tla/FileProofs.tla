----------------------------- MODULE FileProofs -----------------------------
(***************************************************************************)
(* That do_file() understands the grammar file as FileMeaning reads it:    *)
(* an error is counted just where the file is wrong, the symbol table of a *)
(* correct file is what the file says, and each of its actions is one case *)
(* of yy_act().  The invariant, Faithful, says it of the tokens read so    *)
(* far, and of the productions patched so far.                             *)
(***************************************************************************)
EXTENDS GeneratorProofs, SequenceTheorems

----------------------------------------------------------------------------
(***************************************************************************)
(* What the parser has understood of the file at each position it can have *)
(* come to without an error, and dopatch() of the productions.             *)
(***************************************************************************)
At(s, h) ==
  /\ h \in 1 .. Len(s) + 1
  /\ Lookahead = IF h <= Len(s) THEN s[h] ELSE EndToken
  /\ rest = SubSeq(s, h + 1, Len(s))

\* The places of definitions(), and what they say of the tokens around h.
DefinitionsSoFar(s, h, place, nm) ==
  /\ place \in DefinitionsPlaces
  /\ \A i \in 1 .. h - 1 : KindAt(s, i) # "SEPARATOR" /\ DefinitionFits(s, i)
  /\ place = "union" <=> KindAt(s, h - 1) = "PERCENT_UNION"
  /\ place = "names" => nm \in ListKeywords /\ InList(s, h, nm)
  /\ place = "definitions" =>
       \/ KindAt(s, h - 1) \in {"EOI", "ACTION", "CODE_BLOCK"}
       \/ KindAt(s, h) \in Starters

AfterObject(s, h) ==
  /\ KindAt(s, h - 1) \in {"COLON", "OR", "NAME", "FIELD", "ACTION"}
  /\ ~IsLhs(s, h - 1)

\* The places of body().
RulesSoFar(s, h, place) ==
  /\ AcceptedDefinitions(s)
  /\ IF DefsEnd(s) <= Len(s) THEN DefsEnd(s) < h ELSE h = Len(s) + 1 /\ place = "body"
  /\ \A i \in DefsEnd(s) + 1 .. h - 1 : KindAt(s, i) # "SEPARATOR" /\ RuleFits(s, i)
  /\ place = "body" => DefsEnd(s) > Len(s) \/ KindAt(s, h - 1) \in {"SEPARATOR", "SEMI"}
  /\ place = "colon" => IsLhs(s, h - 1)
  /\ place = "rhs" => AfterObject(s, h)
  /\ place = "prec" => KindAt(s, h - 1) = "PREC"
  /\ place = "right_side" => AfterObject(s, h) /\ KindAt(s, h) \in {"OR", "SEMI"}

DefinitionsRead(s, h, t, place, nm) ==
  /\ DefinitionsSoFar(s, h, place, nm)
  /\ NamesFit(s, h)
  /\ NamesRead(s, h, t)
  /\ PrecsRead(s, h, t)
  /\ LevelRead(s, h, t, place, nm)

InDefinitions ==
  \E h \in 1 .. Len(input) + 1 : At(input, h) /\ DefinitionsRead(input, h, tables, pc, names)

BodyRead(s, h, t, place) ==
  /\ place \in {"body", "colon"} \cup RhsPlaces
  /\ RulesSoFar(s, h, place)
  /\ NamesFit(s, h)
  /\ NamesRead(s, h, t)
  /\ PrecsRead(s, h, t)
  /\ RulesRead(s, h, t)
  /\ place \in RhsPlaces => AtRhs(s, h, t)

InRules == \E h \in 1 .. Len(input) + 1 : At(input, h) /\ BodyRead(input, h, tables, pc)

AllRead ==
  LET h == RulesEnd(input)
  IN /\ pc \in {"parsed", "first"}
     /\ AcceptedFile(input)
     /\ NamesRead(input, h, tables)
     /\ PrecsRead(input, h, tables)
     /\ RulesRead(input, h, tables)

\* A production that dopatch() has still to see.
Unpatched(s, t, cs, start) ==
  LET prod == t.productions[Number(s, start)]
  IN /\ \A c \in cs : c.prod # Number(s, start)
     /\ t.symbols[prod.lhs].field = LastField(s, LhsOf(s, start))
     /\ prod.rhs_len = Cardinality(ObjectsOf(s, start))
     /\ prod.rhs_len = Len(prod.rhs)
     /\ \A i \in ObjectsOf(s, start) :
          LET v == prod.rhs[Place(s, i)]
          IN IF KindAt(s, i) = "ACTION"
             THEN IsAct(v) /\ t.symbols[v].name = TextAt(s, i) /\ t.symbols[v].field = ""
             ELSE ~IsAct(v) /\ t.symbols[v].field = LastField(s, TextAt(s, i))

ActionsOf(s, start) == {i \in ObjectsOf(s, start) : KindAt(s, i) = "ACTION"}

IsLast(s, i) == Place(s, i) = Cardinality(ObjectsOf(s, StartOf(s, i)))

\* The fields for $$ and $n in an action.
FieldsFor(s, i) ==
  [n \in 0 .. Place(s, i) - 1 |->
     IF n = 0 THEN LastField(s, LhsOf(s, StartOf(s, i)))
     ELSE LET j == CHOOSE j \in ObjectsOf(s, StartOf(s, i)) : Place(s, j) = n
          IN IF KindAt(s, j) = "ACTION" THEN "" ELSE LastField(s, TextAt(s, j))]

CaseFor(s, i, val) ==
  [case_val |-> val, action |-> TextAt(s, i), rhs_size |-> Place(s, i) - 1,
   prod |-> Number(s, StartOf(s, i)), fields |-> FieldsFor(s, i)]

\* The production an action is reduced with.
ReducedBy(s, t, i) ==
  LET own == Number(s, StartOf(s, i))
  IN IF IsLast(s, i) THEN own
     ELSE Head(t.symbols[t.productions[own].rhs[Place(s, i)]].productions)

\* A production dopatch() has nothing more to do with.
ActionsMade(s, t, cs, start) ==
  LET rhs == t.productions[Number(s, start)].rhs
  IN /\ {c \in cs : c.prod = Number(s, start)}
          = {CaseFor(s, i, ReducedBy(s, t, i)) : i \in ActionsOf(s, start)}
     /\ \A i \in ActionsOf(s, start) :
          IF IsLast(s, i) THEN Len(rhs) = Place(s, i) - 1
          ELSE /\ Place(s, i) <= Len(rhs)
               /\ rhs[Place(s, i)] \in DOMAIN t.symbols
               /\ \E q \in DOMAIN t.productions :
                    /\ t.symbols[rhs[Place(s, i)]].productions = <<q>>
                    /\ t.productions[q].lhs = rhs[Place(s, i)]
                    /\ t.productions[q].rhs = <<>>

HasActions(prod) == \E i \in 1 .. Len(prod.rhs) : IsAct(prod.rhs[i])

\* The actions in the middle that are nonterminals by now.
Replaced(s, t) ==
  {i \in Inner(s) : ~HasActions(t.productions[Number(s, StartOf(s, i))])}

PatchedSoFar(s, t, cs) ==
  /\ AcceptedFile(s)
  /\ \A start \in Starts(s) :
       /\ t.symbols[t.productions[Number(s, start)].lhs].name = LhsOf(s, start)
       /\ IF HasActions(t.productions[Number(s, start)])
          THEN Unpatched(s, t, cs, start)
          ELSE ActionsMade(s, t, cs, start)
  /\ \A c \in cs : \E start \in Starts(s) : c.prod = Number(s, start)
  /\ \A p \in DOMAIN t.productions : t.productions[p].rhs_len = Len(t.productions[p].rhs)
  /\ t.Num_productions >= Cardinality(Starts(s))
  /\ t.Cur_nonterm = MINNONTERM - 1 + Cardinality(Nonterminals(s)) + Cardinality(Replaced(s, t))
  /\ \A p \in Cardinality(Starts(s)) .. t.Num_productions - 1 :
       /\ t.productions[p].lhs > MINNONTERM - 1 + Cardinality(Nonterminals(s))
       /\ t.productions[p].rhs = <<>>
  /\ t.Goal_symbol # NULL =>
       /\ t.Goal_symbol < MINNONTERM + Cardinality(Nonterminals(s))
       /\ t.symbols[t.Goal_symbol].name = TextAt(s, Min(Lhss(s)))

InPatch == pc \in PatchPlaces /\ PatchedSoFar(input, tables, cases)

\* rbison stopped on a correct file.
Stopped ==
  /\ pc = "exit"
  /\ tables.yynerrs = 1
  /\ AcceptedFile(input)
  /\ \/ Starts(input) = {}
     \/ Cardinality({p \in Starts(input) :
                       LhsOf(input, p) = TextAt(input, Min(Lhss(input)))}) > 1
     \/ Cardinality(Nonterminals(input)) + Cardinality(Inner(input))
          > MAXNONTERM - MINNONTERM + 1

Wrong == ~AcceptedFile(input) /\ (tables.yynerrs > 0 \/ pc \in {"exit", "undefined"})

Faithful ==
  /\ input \in Files
  /\ pc \in PatchPlaces \/ cases = {} \/ pc \in {"exit", "undefined"}
  /\ \/ Wrong
     \/ tables.yynerrs = 0 /\ (InDefinitions \/ InRules \/ AllRead \/ InPatch)
     \/ Stopped

----------------------------------------------------------------------------
(***************************************************************************)
(* definitions() reads a token.                                            *)
(***************************************************************************)
\* What is read of the names and their precedences.
SymbolsRead(s, h, t) == NamesFit(s, h) /\ NamesRead(s, h, t) /\ PrecsRead(s, h, t)

\* A token that brings no name.
LEMMA SymbolsStay ==
  ASSUME NEW s, IsFile(s), NEW h \in 1 .. Len(s), NEW t, Sound(t), SymbolsRead(s, h, t),
         NEW u, Grows(t, u), Named(u) = Named(t), u.Field_name = FieldBefore(s, h + 1),
         u.Precedence = t.Precedence, u.Cur_term = t.Cur_term,
         h \notin Namings(s) \/ TextAt(s, h) \in Known(s, h),
         h \notin Listed(s, PrecKeywords), NamesFit(s, h + 1)
  PROVE  SymbolsRead(s, h + 1, u)
<1>1. NamesRead(s, h + 1, u)
  BY NamesStay DEF SymbolsRead
<1>2. \A v \in 1 .. MAXTERM : v <= t.Cur_term => u.symbols[v].name = t.symbols[v].name
  BY Limits DEF Grows, Sound, Numbers, SymbolsHold, Values
<1>3. PrecsRead(s, h + 1, u)
  BY <1>2, PrecsStay DEF SymbolsRead
<1>. QED
  BY <1>1, <1>3 DEF SymbolsRead

\* The rules about names say nothing of a token that is no name.
LEMMA NoNameHere ==
  ASSUME NEW s, IsFile(s), NEW h \in 1 .. Len(s), NamesFit(s, h), KindAt(s, h) # "NAME"
  PROVE  /\ NamesFit(s, h + 1)
         /\ \A keywords : h \notin Listed(s, keywords)
         /\ h \notin Lhss(s) /\ h \notin PrecNames(s)
<1>1. /\ \A keywords : h \notin Listed(s, keywords)
      /\ h \notin Lhss(s) /\ h \notin PrecNames(s)
  BY DEF Listed, Lhss, IsLhs, PrecNames
<1>. QED
  BY <1>1, NamesFitNext

LEMMA InListNext ==
  ASSUME NEW s, NEW h \in Nat \ {0}, NEW nm
  PROVE  /\ InList(s, h, nm) /\ KindAt(s, h) \in {"NAME", "FIELD"} => InList(s, h + 1, nm)
         /\ KindAt(s, h) = nm => InList(s, h + 1, nm)
         /\ InList(s, h, nm) => KindAt(s, h - 1) \in {nm, "NAME", "FIELD"}
<1>1. ASSUME InList(s, h, nm), KindAt(s, h) \in {"NAME", "FIELD"}
      PROVE  InList(s, h + 1, nm)
  <2>1. PICK k \in 1 .. h - 1 : /\ KindAt(s, k) = nm
                                /\ \A j \in k + 1 .. h - 1 : KindAt(s, j) \in {"NAME", "FIELD"}
    BY <1>1 DEF InList
  <2>2. k \in 1 .. h + 1 - 1 /\ \A j \in k + 1 .. h + 1 - 1 : KindAt(s, j) \in {"NAME", "FIELD"}
    BY <1>1, <2>1
  <2>. QED
    BY <2>1, <2>2 DEF InList
<1>2. ASSUME KindAt(s, h) = nm
      PROVE  InList(s, h + 1, nm)
  <2>1. h \in 1 .. h + 1 - 1 /\ \A j \in h + 1 .. h + 1 - 1 : KindAt(s, j) \in {"NAME", "FIELD"}
    OBVIOUS
  <2>. QED
    BY <1>2, <2>1 DEF InList
<1>3. ASSUME InList(s, h, nm)
      PROVE  KindAt(s, h - 1) \in {nm, "NAME", "FIELD"}
  <2>1. PICK k \in 1 .. h - 1 : /\ KindAt(s, k) = nm
                                /\ \A j \in k + 1 .. h - 1 : KindAt(s, j) \in {"NAME", "FIELD"}
    BY <1>3 DEF InList
  <2>2. k = h - 1 \/ h - 1 \in k + 1 .. h - 1
    BY <2>1
  <2>. QED
    BY <2>1, <2>2
<1>. QED
  BY <1>1, <1>2, <1>3

\* Where the parser is in the definitions, and that the token there is one of them.
LEMMA DefinitionsHere ==
  ASSUME NEW s, IsFile(s), NEW h \in 1 .. Len(s) + 1, NEW place, NEW nm,
         DefinitionsSoFar(s, h, place, nm)
  PROVE  /\ h <= DefsEnd(s)
         /\ KindAt(s, h) \in {"SEPARATOR", "EOI"} => h = DefsEnd(s)
         /\ KindAt(s, h) \notin {"SEPARATOR", "EOI"} => h \in Defs(s) /\ h \in 1 .. Len(s)
<1>1. \A i \in 1 .. h - 1 : KindAt(s, i) # "SEPARATOR"
  BY DEF DefinitionsSoFar
<1>. QED
  BY <1>1, EndReached, FileFacts

\* One token further.
LEMMA DefinitionsNext ==
  ASSUME NEW s, IsFile(s), NEW h \in Defs(s), NEW place, NEW nm,
         DefinitionsSoFar(s, h, place, nm), DefinitionFits(s, h),
         NEW place2 \in DefinitionsPlaces, NEW nm2,
         place2 = "union" <=> KindAt(s, h) = "PERCENT_UNION",
         place2 = "names" => nm2 \in ListKeywords /\ InList(s, h + 1, nm2),
         place2 = "definitions" => KindAt(s, h) \in {"ACTION", "CODE_BLOCK"}
  PROVE  DefinitionsSoFar(s, h + 1, place2, nm2)
<1>1. h \in 1 .. Len(s) /\ Len(s) \in Nat
  BY PositionSets, FileFacts
<1>2. KindAt(s, h) # "SEPARATOR"
  BY DEF DefinitionFits, ListKeywords, TermKeywords
<1>3. PICK g \in Nat : g = h + 1
  BY <1>1
<1>4. g - 1 = h /\ \A i \in 1 .. g - 1 : i \in 1 .. h - 1 \/ i = h
  BY <1>1, <1>3
<1>5. \A i \in 1 .. g - 1 : KindAt(s, i) # "SEPARATOR" /\ DefinitionFits(s, i)
  BY <1>2, <1>4 DEF DefinitionsSoFar
<1>6. DefinitionsSoFar(s, g, place2, nm2)
  BY <1>3, <1>4, <1>5 DEF DefinitionsSoFar
<1>. QED
  BY <1>3, <1>6

\* definitions(), token by token: the tokens that bring no name,
LEMMA ReadOther ==
  ASSUME NEW s, IsFile(s), NEW h \in Defs(s), NEW t, Sound(t), NEW place, NEW nm,
         DefinitionsRead(s, h, t, place, nm), DefinitionFits(s, h),
         KindAt(s, h) \notin {"NAME", "FIELD"}, KindAt(s, h) \notin PrecKeywords,
         NEW u, u.symbols = t.symbols, u.Field_name = t.Field_name,
         u.Precedence = t.Precedence, u.Cur_term = t.Cur_term, u.Prec_lev = t.Prec_lev,
         NEW place2 \in DefinitionsPlaces, NEW nm2,
         place2 = "union" <=> KindAt(s, h) = "PERCENT_UNION",
         place2 = "names" => nm2 \in ListKeywords /\ InList(s, h + 1, nm2) /\ nm2 \notin PrecKeywords,
         place2 = "definitions" => KindAt(s, h) \in {"ACTION", "CODE_BLOCK"}
  PROVE  DefinitionsRead(s, h + 1, u, place2, nm2)
<1>1. /\ DefinitionsSoFar(s, h, place, nm) /\ SymbolsRead(s, h, t)
      /\ LevelRead(s, h, t, place, nm) /\ NamesFit(s, h) /\ NamesRead(s, h, t)
  BY DEF DefinitionsRead, SymbolsRead
<1>2. h \in 1 .. Len(s)
  BY PositionSets
<1>3. DefinitionsSoFar(s, h + 1, place2, nm2)
  BY <1>1, DefinitionsNext
<1>4. NamesFit(s, h + 1) /\ \A keywords : h \notin Listed(s, keywords)
  BY <1>1, <1>2, NoNameHere
<1>5. h \notin Namings(s)
  BY <1>4, DefsHere
<1>6. u.Field_name = FieldBefore(s, h + 1)
  BY <1>1, <1>2, FieldNext DEF NamesRead
<1>7. Grows(t, u) /\ Named(u) = Named(t)
  BY DEF Grows, Named
<1>8. SymbolsRead(s, h + 1, u)
  BY <1>1, <1>2, <1>4, <1>5, <1>6, <1>7, SymbolsStay
<1>9. LevelRead(s, h + 1, u, place2, nm2)
  BY <1>1, LevelStays
<1>. QED
  BY <1>3, <1>8, <1>9 DEF DefinitionsRead, SymbolsRead

\* %left, %right and %nonassoc,
LEMMA ReadPrecKeyword ==
  ASSUME NEW s, IsFile(s), NEW h \in Defs(s), NEW t, Sound(t), NEW place, NEW nm,
         DefinitionsRead(s, h, t, place, nm), DefinitionFits(s, h),
         KindAt(s, h) \in PrecKeywords,
         NEW u, u.symbols = t.symbols, u.Field_name = t.Field_name,
         u.Precedence = t.Precedence, u.Cur_term = t.Cur_term,
         u.Prec_lev = t.Prec_lev + 1, u.Associativity = KindAt(s, h)
  PROVE  DefinitionsRead(s, h + 1, u, "names", KindAt(s, h))
<1>1. /\ DefinitionsSoFar(s, h, place, nm) /\ SymbolsRead(s, h, t)
      /\ LevelRead(s, h, t, place, nm) /\ NamesFit(s, h) /\ NamesRead(s, h, t)
  BY DEF DefinitionsRead, SymbolsRead
<1>2. h \in 1 .. Len(s) /\ h \in Nat \ {0}
  BY PositionSets, FileFacts
<1>3. KindAt(s, h) \in ListKeywords /\ KindAt(s, h) \notin {"NAME", "FIELD", "PERCENT_UNION"}
  BY DEF PrecKeywords, ListKeywords, TermKeywords
<1>4. InList(s, h + 1, KindAt(s, h))
  BY <1>2, InListNext
<1>. DEFINE place2 == "names"
<1>5. place2 \in DefinitionsPlaces /\ place2 # "union" /\ place2 # "definitions"
  BY DEF DefinitionsPlaces
<1>. HIDE DEF place2
<1>6. DefinitionsSoFar(s, h + 1, place2, KindAt(s, h))
  BY <1>1, <1>3, <1>4, <1>5, DefinitionsNext
<1>7. NamesFit(s, h + 1) /\ \A keywords : h \notin Listed(s, keywords)
  BY <1>1, <1>2, <1>3, NoNameHere
<1>8. h \notin Namings(s)
  BY <1>7, DefsHere
<1>9. u.Field_name = FieldBefore(s, h + 1)
  BY <1>1, <1>2, <1>3, FieldNext DEF NamesRead
<1>10. Grows(t, u) /\ Named(u) = Named(t)
  BY DEF Grows, Named
<1>11. SymbolsRead(s, h + 1, u)
  BY <1>1, <1>2, <1>7, <1>8, <1>9, <1>10, SymbolsStay
<1>12. LevelRead(s, h + 1, u, place2, KindAt(s, h))
  BY <1>1, LevelNext DEF place2
<1>. QED
  BY <1>6, <1>11, <1>12 DEF DefinitionsRead, SymbolsRead, place2

\* fields,
LEMMA ReadField ==
  ASSUME NEW s, IsFile(s), NEW h \in Defs(s), NEW t, Sound(t), NEW nm,
         DefinitionsRead(s, h, t, "names", nm), KindAt(s, h) = "FIELD",
         NEW u, Only(t, u, {"Field_name"}), u.Field_name = TextAt(s, h)
  PROVE  DefinitionsRead(s, h + 1, u, "names", nm)
<1>. DEFINE place == "names"
<1>0. place = "names" /\ place \in DefinitionsPlaces /\ place # "union" /\ place # "definitions"
  BY DEF DefinitionsPlaces
<1>1. DefinitionsRead(s, h, t, place, nm)
  OBVIOUS
<1>. HIDE DEF place
<1>2. /\ DefinitionsSoFar(s, h, place, nm) /\ SymbolsRead(s, h, t)
      /\ LevelRead(s, h, t, place, nm) /\ NamesFit(s, h) /\ NamesRead(s, h, t)
      /\ nm \in ListKeywords /\ InList(s, h, nm)
  BY <1>0, <1>1 DEF DefinitionsRead, SymbolsRead, DefinitionsSoFar
<1>3. h \in 1 .. Len(s) /\ h \in Nat \ {0}
  BY PositionSets, FileFacts
<1>4. InList(s, h + 1, nm) /\ KindAt(s, h - 1) \in {nm, "NAME", "FIELD"}
  BY <1>2, <1>3, InListNext
<1>5. DefinitionFits(s, h)
  BY <1>2, <1>4 DEF DefinitionFits, ListKeywords, TermKeywords
<1>6. DefinitionsSoFar(s, h + 1, place, nm)
  BY <1>0, <1>2, <1>4, <1>5, DefinitionsNext
<1>7. NamesFit(s, h + 1) /\ \A keywords : h \notin Listed(s, keywords)
  BY <1>2, <1>3, NoNameHere
<1>8. h \notin Namings(s)
  BY <1>7, DefsHere
<1>9. u.Field_name = FieldBefore(s, h + 1)
  BY <1>3, FieldNext
<1>10. /\ u.symbols = t.symbols /\ u.Precedence = t.Precedence /\ u.Cur_term = t.Cur_term
       /\ u.Prec_lev = t.Prec_lev /\ u.Associativity = t.Associativity
  BY DEF Only, TableFields
<1>11. Grows(t, u) /\ Named(u) = Named(t)
  BY <1>10 DEF Grows, Named
<1>12. SymbolsRead(s, h + 1, u)
  BY <1>2, <1>3, <1>7, <1>8, <1>9, <1>10, <1>11, SymbolsStay
<1>13. KindAt(s, h) \notin PrecKeywords
  BY DEF PrecKeywords
<1>14. LevelRead(s, h + 1, u, place, nm)
  BY <1>2, <1>10, <1>13, LevelStays
<1>. QED
  BY <1>6, <1>12, <1>14 DEF DefinitionsRead, SymbolsRead, place

\* and names, which are known,
LEMMA ListedNames ==
  ASSUME NEW s, IsFile(s), NEW h \in Defs(s), NEW t, NEW nm,
         DefinitionsRead(s, h, t, "names", nm), KindAt(s, h) = "NAME"
  PROVE  /\ nm \in ListKeywords
         /\ h \in Listed(s, ListKeywords) /\ h \in Namings(s)
         /\ h \in Listed(s, TermKeywords) <=> nm # "TYPE"
         /\ h \in Listed(s, PrecKeywords) <=> nm \in PrecKeywords
         /\ h \in Listed(s, {"TYPE"}) <=> nm = "TYPE"
         /\ h \notin Lhss(s) /\ h \notin PrecNames(s)
         /\ DefinitionsSoFar(s, h + 1, "names", nm)
         /\ InList(s, h, nm)
         /\ KindAt(s, h) \notin PrecKeywords
         /\ FieldBefore(s, h + 1) = FieldBefore(s, h)
<1>. DEFINE place == "names"
<1>0. place = "names" /\ place \in DefinitionsPlaces /\ place # "union" /\ place # "definitions"
  BY DEF DefinitionsPlaces
<1>1. DefinitionsRead(s, h, t, place, nm)
  OBVIOUS
<1>. HIDE DEF place
<1>2. /\ DefinitionsSoFar(s, h, place, nm) /\ nm \in ListKeywords /\ InList(s, h, nm)
  BY <1>0, <1>1 DEF DefinitionsRead, DefinitionsSoFar
<1>3. h \in 1 .. Len(s) /\ h \in Nat \ {0}
  BY PositionSets, FileFacts
<1>4. InList(s, h + 1, nm) /\ KindAt(s, h - 1) \in {nm, "NAME", "FIELD"}
  BY <1>2, <1>3, InListNext
<1>5. DefinitionFits(s, h)
  BY <1>2, <1>4 DEF DefinitionFits, ListKeywords, TermKeywords
<1>6. DefinitionsSoFar(s, h + 1, place, nm)
  BY <1>0, <1>2, <1>4, <1>5, DefinitionsNext
<1>7. /\ ListKeywords \in SUBSET ListKeywords /\ TermKeywords \in SUBSET ListKeywords
      /\ PrecKeywords \in SUBSET ListKeywords /\ {"TYPE"} \in SUBSET ListKeywords
      /\ (nm \in TermKeywords <=> nm # "TYPE")
  BY <1>2 DEF ListKeywords, TermKeywords, PrecKeywords
<1>8. \A keywords \in SUBSET ListKeywords : h \in Listed(s, keywords) <=> nm \in keywords
  BY <1>2, ListedHere
<1>9. h \in Namings(s) /\ h \notin Lhss(s) /\ h \notin PrecNames(s)
  BY <1>2, <1>7, <1>8, DefsHere
<1>10. KindAt(s, h) \notin PrecKeywords
  BY DEF PrecKeywords
<1>11. FieldBefore(s, h + 1) = FieldBefore(s, h)
  BY <1>3, FieldNext
<1>. QED
  BY <1>2, <1>6, <1>7, <1>8, <1>9, <1>10, <1>11 DEF place

\* A file is not correct where a name is not what it has to be.
LEMMA NamesMustFit ==
  ASSUME NEW s, AcceptedFile(s), NEW h
  PROVE  /\ h \in Listed(s, TermKeywords) => TextAt(s, h) \in CIdentifiers
         /\ h \in Listed(s, PrecKeywords) => IsTerminalName(s, TextAt(s, h))
         /\ h \in Listed(s, {"TYPE"}) \cup Lhss(s) => ~IsTerminalName(s, TextAt(s, h))
         /\ h \in PrecNames(s) => TextAt(s, h) \in Terminals(s) \cup DOMAIN Numerals
  BY DEF AcceptedFile, CorrectNames

\* Terminals are the symbols up to Cur_term.
LEMMA TermSymbols ==
  ASSUME NEW t, Sound(t)
  PROVE  /\ t.Cur_term \in Nat
         /\ \A v \in 1 .. MAXTERM :
              /\ v <= t.Cur_term => v \in Named(t)
              /\ IsTerm(v) /\ ~IsAct(v)
         /\ \A v \in MINNONTERM .. MAXNONTERM : ~IsTerm(v) /\ ~IsAct(v)
<1>1. DOMAIN t.symbols = Values(t) /\ t.Cur_term \in 0 .. MAXTERM
  BY DEF Sound, Numbers, SymbolsHold
<1>2. \A v \in 1 .. MAXTERM : v <= t.Cur_term => v \in DOMAIN t.symbols
  BY <1>1, Limits DEF Values
<1>3. /\ \A v \in 1 .. MAXTERM : ~IsAct(v)
      /\ \A v \in MINNONTERM .. MAXNONTERM : ~IsTerm(v) /\ ~IsAct(v)
  BY Limits DEF IsAct, IsTerm
<1>. QED
  BY <1>1, <1>2, <1>3, Limits DEF Named, IsTerm

\* new_nonterm() for a name in a %type list.
LEMMA ReadType ==
  ASSUME NEW s, IsFile(s), NEW h \in Defs(s), KindAt(s, h) = "NAME",
         NEW t, Sound(t), BeforeRules(t), NEW nm, nm = "TYPE",
         DefinitionsRead(s, h, t, "names", nm),
         NEW is_lhs \in BOOLEAN, ~is_lhs,
         NEW u, u = new_nonterm(t, TextAt(s, h), is_lhs)
  PROVE  /\ NoFewer(t, u)
         /\ \/ Failed(t, u) /\ ~AcceptedFile(s)
            \/ /\ u.yynerrs = t.yynerrs /\ u.status = t.status
               /\ DefinitionsRead(s, h + 1, u, "names", nm)
<1>. DEFINE x == TextAt(s, h)
            place == "names"
<1>1. /\ h \in 1 .. Len(s) /\ h \in 1 .. Len(s) + 1
  BY PositionSets, FileFacts
<1>2. DefinitionsRead(s, h, t, place, nm)
  OBVIOUS
<1>3. ~is_lhs /\ is_lhs \in BOOLEAN /\ place = "names" /\ t.Goal_symbol_is_next = FALSE
  BY DEF BeforeRules
<1>4. /\ h \in Namings(s) /\ h \notin Listed(s, TermKeywords)
      /\ h \notin Listed(s, PrecKeywords) /\ h \in Listed(s, {"TYPE"})
      /\ h \notin PrecNames(s) /\ KindAt(s, h) \notin PrecKeywords
      /\ FieldBefore(s, h + 1) = FieldBefore(s, h)
      /\ DefinitionsSoFar(s, h + 1, place, nm)
  <2>1. nm \notin PrecKeywords
    BY DEF PrecKeywords
  <2>. QED
    BY <2>1, ListedNames
<1>. HIDE DEF place
<1>5. /\ NamesFit(s, h) /\ NamesRead(s, h, t) /\ PrecsRead(s, h, t) /\ SymbolsRead(s, h, t)
      /\ LevelRead(s, h, t, place, nm) /\ t.Field_name = FieldBefore(s, h)
  BY <1>2 DEF DefinitionsRead, SymbolsRead, NamesRead
<1>6. /\ NoFewer(t, u)
      /\ \/ Found(t, x) # NULL /\ ~IsNonterm(Found(t, x)) /\ Failed(t, u)
         \/ Found(t, x) = NULL /\ t.Cur_nonterm = MAXNONTERM /\ Failed(t, u)
         \/ NontermKnown(t, u, x, is_lhs)
         \/ NontermMade(t, u, x, is_lhs)
  BY <1>3, NewNontermDoes
<1>7. ASSUME ~IsTerminalName(s, x)
      PROVE  NamesFit(s, h + 1)
  BY <1>1, <1>4, <1>5, <1>7, NamesFitNext
<1>8. CASE Found(t, x) # NULL /\ ~IsNonterm(Found(t, x)) /\ Failed(t, u)
  <2>1. IsTerminalName(s, x)
    BY <1>5, <1>8, NameFound
  <2>2. ~AcceptedFile(s)
    BY <1>4, <2>1, NamesMustFit
  <2>. QED
    BY <1>6, <1>8, <2>2
<1>9. ASSUME Found(t, x) = NULL
      PROVE  x \notin Known(s, h) /\ ~IsTerminalName(s, x)
  BY <1>4, <1>5, <1>9, NameFound, FirstNamedHere
<1>10. CASE Found(t, x) = NULL /\ t.Cur_nonterm = MAXNONTERM /\ Failed(t, u)
  <2>1. ~AcceptedFile(s)
    BY <1>1, <1>4, <1>5, <1>9, <1>10, TableFull
  <2>. QED
    BY <1>6, <1>10, <2>1
<1>11. CASE NontermKnown(t, u, x, is_lhs)
  <2>1. u = t /\ Found(t, x) # NULL /\ IsNonterm(Found(t, x))
    BY <1>3, <1>11 DEF NontermKnown
  <2>2. ~IsTerm(Found(t, x))
    BY <2>1, TermSymbols DEF IsNonterm
  <2>3. ~IsTerminalName(s, x) /\ x \in Known(s, h)
    BY <1>5, <2>1, <2>2, NameFound
  <2>4. Grows(t, u) /\ Named(u) = Named(t) /\ u.Field_name = FieldBefore(s, h + 1)
    BY <1>4, <1>5, <2>1 DEF Grows
  <2>5. SymbolsRead(s, h + 1, u)
    BY <1>1, <1>4, <1>5, <1>7, <2>1, <2>3, <2>4, SymbolsStay
  <2>6. LevelRead(s, h + 1, u, place, nm)
    BY <1>4, <1>5, <2>1, LevelStays
  <2>7. DefinitionsRead(s, h + 1, u, place, nm)
    BY <1>4, <2>5, <2>6 DEF DefinitionsRead, SymbolsRead
  <2>. QED
    BY <1>6, <2>1, <2>7 DEF place
<1>12. CASE NontermMade(t, u, x, is_lhs)
  <2>. DEFINE v == t.Cur_nonterm + 1
  <2>1. /\ Found(t, x) = NULL /\ Grows(t, u) /\ NewName(t, u, v, x)
        /\ v \in MINNONTERM .. MAXNONTERM /\ Only(t, u, {"symbols", "Cur_nonterm"})
    BY <1>3, <1>12 DEF NontermMade
  <2>. HIDE DEF v
  <2>2. /\ u.Field_name = t.Field_name /\ u.Precedence = t.Precedence
        /\ u.Cur_term = t.Cur_term /\ u.Prec_lev = t.Prec_lev
        /\ u.Associativity = t.Associativity /\ u.yynerrs = t.yynerrs
        /\ u.status = t.status
    BY <2>1 DEF Only, TableFields
  <2>3. x \notin Known(s, h) /\ ~IsTerminalName(s, x) /\ ~IsTerm(v)
    BY <1>9, <2>1, TermSymbols
  <2>4. NamesRead(s, h + 1, u)
    BY <1>4, <1>5, <2>1, <2>2, <2>3, NamesNew
  <2>5. \A w \in 1 .. MAXTERM : w <= t.Cur_term => u.symbols[w].name = t.symbols[w].name
    BY <2>1, TermSymbols DEF Grows, Named
  <2>6. PrecsRead(s, h + 1, u)
    BY <1>1, <1>4, <1>5, <2>2, <2>5, PrecsStay
  <2>7. LevelRead(s, h + 1, u, place, nm)
    BY <1>4, <1>5, <2>2, LevelStays
  <2>8. DefinitionsRead(s, h + 1, u, place, nm)
    BY <1>4, <1>7, <2>3, <2>4, <2>6, <2>7 DEF DefinitionsRead
  <2>. QED
    BY <1>6, <2>2, <2>8 DEF place
<1>. QED
  BY <1>6, <1>8, <1>10, <1>11, <1>12

\* A new terminal.
LEMMA TermMadeRead ==
  ASSUME NEW s, IsFile(s), NEW h \in Namings(s), h \in Listed(s, TermKeywords),
         FieldBefore(s, h + 1) = FieldBefore(s, h),
         NEW t, Sound(t), SymbolsRead(s, h, t), NEW u, TermMade(t, u, TextAt(s, h))
  PROVE  /\ NamesRead(s, h + 1, u) /\ PrecsRead(s, h, u)
         /\ IsTerminalName(s, TextAt(s, h)) /\ TextAt(s, h) \in CIdentifiers
         /\ u.Cur_term = t.Cur_term + 1 /\ u.Cur_term \in 1 .. MAXTERM
         /\ u.symbols[u.Cur_term].name = TextAt(s, h)
         /\ u.Prec_lev = t.Prec_lev /\ u.Associativity = t.Associativity
         /\ u.yynerrs = t.yynerrs /\ u.status = t.status
         /\ \A w \in 1 .. MAXTERM :
              w <= u.Cur_term /\ u.symbols[w].name = TextAt(s, h) => w = u.Cur_term
<1>. DEFINE x == TextAt(s, h)
            v == t.Cur_term + 1
<1>1. /\ x \in CIdentifiers /\ Found(t, x) = NULL /\ t.Cur_term < MAXTERM
      /\ AddedAs(t, u, v, x, t.Field_name)
      /\ Only(t, u, {"symbols", "Cur_term"}) /\ u.Cur_term = v
  BY DEF TermMade
<1>2. /\ NamesRead(s, h, t) /\ PrecsRead(s, h, t) /\ t.Field_name = FieldBefore(s, h)
  BY DEF SymbolsRead, NamesRead
<1>3. t.Cur_term \in Nat /\ v \in 1 .. MAXTERM
  BY <1>1, TermSymbols, Limits
<1>4. IsTerm(v) /\ ~IsAct(v)
  BY <1>3, TermSymbols
<1>. HIDE DEF x
<1>5. NewName(t, u, v, x) /\ Grows(t, u)
  <2>. HIDE DEF v
  <2>1. Grows(t, u)
    BY <1>1, AddedGrows
  <2>2. NewName(t, u, v, x)
    BY <1>1, <1>4, AddedGrows
  <2>. QED
    BY <2>1, <2>2
<1>6. /\ u.Field_name = t.Field_name /\ u.Precedence = t.Precedence
      /\ u.Prec_lev = t.Prec_lev /\ u.Associativity = t.Associativity
      /\ u.yynerrs = t.yynerrs /\ u.status = t.status
  BY <1>1 DEF Only, TableFields
<1>7. x \notin Known(s, h) /\ IsTerminalName(s, x)
  BY <1>1, <1>2, NameFound, FirstNamedHere DEF x
<1>8. NamesRead(s, h + 1, u)
  <2>. HIDE DEF v
  <2>. QED
    BY <1>2, <1>4, <1>5, <1>6, <1>7, NamesNew DEF x
<1>9. \A w \in 1 .. MAXTERM : w <= t.Cur_term =>
        /\ u.symbols[w].name = t.symbols[w].name
        /\ t.symbols[w].name \in Known(s, h)
  <2>1. \A w \in Named(t) : /\ u.symbols[w].name = t.symbols[w].name
                            /\ t.symbols[w].name \in Known(s, h)
    BY <1>2, <1>5 DEF Grows, Named, NamesRead
  <2>. QED
    BY <2>1, TermSymbols
<1>10. u.symbols[t.Cur_term + 1].name = x
  BY <1>5 DEF NewName
<1>11. PrecsRead(s, h, u)
  BY <1>1, <1>2, <1>3, <1>6, <1>7, <1>9, <1>10, PrecsNew
<1>12. \A w \in 1 .. MAXTERM : w <= u.Cur_term /\ u.symbols[w].name = x => w = u.Cur_term
  BY <1>1, <1>3, <1>7, <1>9, <1>10
<1>. QED
  BY <1>1, <1>3, <1>6, <1>7, <1>8, <1>10, <1>11, <1>12 DEF x

\* make_term() for a name in a %term list.
LEMMA ReadTerm ==
  ASSUME NEW s, IsFile(s), NEW h \in Defs(s), KindAt(s, h) = "NAME",
         NEW t, Sound(t), NEW nm, nm = "TERM_SPEC", DefinitionsRead(s, h, t, "names", nm)
  PROVE  LET u == make_term(t, TextAt(s, h))
         IN /\ NoFewer(t, u)
            /\ \/ Failed(t, u) /\ ~AcceptedFile(s)
               \/ /\ u.yynerrs = t.yynerrs /\ u.status = t.status
                  /\ DefinitionsRead(s, h + 1, u, "names", nm)
<1>. DEFINE x == TextAt(s, h)
            place == "names"
            u == make_term(t, x)
<1>1. /\ h \in 1 .. Len(s) /\ h \in 1 .. Len(s) + 1
  BY PositionSets, FileFacts
<1>2. DefinitionsRead(s, h, t, place, nm) /\ place = "names"
  OBVIOUS
<1>4. /\ h \in Namings(s) /\ h \in Listed(s, TermKeywords)
      /\ h \notin Listed(s, PrecKeywords) /\ h \notin Listed(s, {"TYPE"})
      /\ h \notin PrecNames(s) /\ h \notin Lhss(s) /\ KindAt(s, h) \notin PrecKeywords
      /\ FieldBefore(s, h + 1) = FieldBefore(s, h)
      /\ DefinitionsSoFar(s, h + 1, place, nm)
  <2>1. nm \notin PrecKeywords /\ nm # "TYPE"
    BY DEF PrecKeywords
  <2>. QED
    BY <2>1, ListedNames
<1>. HIDE DEF place, u
<1>5. /\ NamesFit(s, h) /\ NamesRead(s, h, t) /\ PrecsRead(s, h, t) /\ SymbolsRead(s, h, t)
      /\ LevelRead(s, h, t, place, nm) /\ t.Field_name = FieldBefore(s, h)
  BY <1>2 DEF DefinitionsRead, SymbolsRead, NamesRead
<1>6. /\ NoFewer(t, u)
      /\ \/ x \notin CIdentifiers /\ Failed(t, u)
         \/ x \in CIdentifiers /\ Found(t, x) # NULL /\ u = t
         \/ Found(t, x) = NULL /\ t.Cur_term = MAXTERM /\ Failed(t, u)
         \/ TermMade(t, u, x)
  BY MakeTermDoes DEF u
<1>7. ASSUME x \in CIdentifiers
      PROVE  NamesFit(s, h + 1)
  BY <1>1, <1>4, <1>5, <1>7, NamesFitNext
<1>8. CASE x \notin CIdentifiers /\ Failed(t, u)
  <2>1. ~AcceptedFile(s)
    BY <1>4, <1>8, NamesMustFit
  <2>. QED
    BY <1>6, <1>8, <2>1 DEF u
<1>9. CASE x \in CIdentifiers /\ Found(t, x) # NULL /\ u = t
  <2>1. x \in Known(s, h)
    BY <1>5, <1>9, NameFound
  <2>2. Grows(t, u) /\ Named(u) = Named(t) /\ u.Field_name = FieldBefore(s, h + 1)
    BY <1>4, <1>5, <1>9 DEF Grows
  <2>3. SymbolsRead(s, h + 1, u)
    BY <1>1, <1>4, <1>5, <1>7, <1>9, <2>1, <2>2, SymbolsStay
  <2>4. LevelRead(s, h + 1, u, place, nm)
    BY <1>4, <1>5, <1>9, LevelStays
  <2>5. DefinitionsRead(s, h + 1, u, place, nm)
    BY <1>4, <2>3, <2>4 DEF DefinitionsRead, SymbolsRead
  <2>. QED
    BY <1>6, <1>9, <2>5 DEF u, place
<1>10. CASE Found(t, x) = NULL /\ t.Cur_term = MAXTERM /\ Failed(t, u)
  <2>1. x \notin Known(s, h)
    BY <1>5, <1>10, NameFound
  <2>2. IsTerminalName(s, x)
    BY <1>4, <2>1, FirstNamedHere
  <2>3. ~AcceptedFile(s)
    BY <1>1, <1>4, <1>5, <1>10, <2>1, <2>2, TableFull
  <2>. QED
    BY <1>6, <1>10, <2>3 DEF u
<1>11. CASE TermMade(t, u, x)
  <2>1. /\ NamesRead(s, h + 1, u) /\ PrecsRead(s, h, u) /\ x \in CIdentifiers
        /\ u.Prec_lev = t.Prec_lev /\ u.Associativity = t.Associativity
        /\ u.yynerrs = t.yynerrs /\ u.status = t.status
    BY <1>4, <1>5, <1>11, TermMadeRead
  <2>2. PrecsRead(s, h + 1, u)
    BY <1>1, <1>4, <2>1, PrecsStay
  <2>3. LevelRead(s, h + 1, u, place, nm)
    BY <1>4, <1>5, <2>1, LevelStays
  <2>4. DefinitionsRead(s, h + 1, u, place, nm)
    BY <1>4, <1>7, <2>1, <2>2, <2>3 DEF DefinitionsRead
  <2>. QED
    BY <1>6, <2>1, <2>4 DEF u, place
<1>. QED
  BY <1>6, <1>8, <1>9, <1>10, <1>11

\* prec_list() for a name in a list of precedences.
LEMMA ReadPrecName ==
  ASSUME NEW s, IsFile(s), NEW h \in Defs(s), KindAt(s, h) = "NAME",
         NEW t, Sound(t), t.status = "run", NEW nm \in PrecKeywords,
         DefinitionsRead(s, h, t, "names", nm)
  PROVE  LET u == prec_list(t, TextAt(s, h))
         IN /\ NoFewer(t, u)
            /\ \/ Failed(t, u) /\ ~AcceptedFile(s)
               \/ /\ u.yynerrs = t.yynerrs /\ u.status = t.status
                  /\ DefinitionsRead(s, h + 1, u, "names", nm)
<1>. DEFINE x == TextAt(s, h)
            place == "names"
            u == prec_list(t, x)
<1>1. /\ h \in 1 .. Len(s) /\ h \in 1 .. Len(s) + 1
  BY PositionSets, FileFacts
<1>2. DefinitionsRead(s, h, t, place, nm) /\ place = "names"
  OBVIOUS
<1>4. /\ h \in Namings(s) /\ h \in Listed(s, TermKeywords)
      /\ h \in Listed(s, PrecKeywords) /\ h \notin Listed(s, {"TYPE"})
      /\ h \notin PrecNames(s) /\ h \notin Lhss(s) /\ KindAt(s, h) \notin PrecKeywords
      /\ FieldBefore(s, h + 1) = FieldBefore(s, h)
      /\ DefinitionsSoFar(s, h + 1, place, nm) /\ InList(s, h, nm)
  <2>1. nm # "TYPE"
    BY DEF PrecKeywords
  <2>. QED
    BY <2>1, ListedNames
<1>. HIDE DEF place, u
<1>5. /\ NamesFit(s, h) /\ NamesRead(s, h, t) /\ PrecsRead(s, h, t) /\ SymbolsRead(s, h, t)
      /\ LevelRead(s, h, t, place, nm) /\ t.Field_name = FieldBefore(s, h)
  BY <1>2 DEF DefinitionsRead, SymbolsRead, NamesRead
<1>6. /\ NoFewer(t, u)
      /\ \/ Found(t, x) = NULL /\ Failed(t, u) /\ (x \notin CIdentifiers \/ t.Cur_term = MAXTERM)
         \/ Found(t, x) # NULL /\ ~IsTerm(Found(t, x)) /\ Failed(t, u)
         \/ Found(t, x) # NULL /\ IsTerm(Found(t, x)) /\ PrecSet(t, u, Found(t, x))
         \/ \E known : TermMade(t, known, x) /\ PrecSet(known, u, t.Cur_term + 1)
  BY PrecListDoes DEF u
<1>7. ASSUME x \in CIdentifiers, IsTerminalName(s, x)
      PROVE  NamesFit(s, h + 1)
  BY <1>1, <1>4, <1>5, <1>7, NamesFitNext
<1>8. CASE Found(t, x) = NULL /\ Failed(t, u) /\ (x \notin CIdentifiers \/ t.Cur_term = MAXTERM)
  <2>1. x \notin Known(s, h)
    BY <1>5, <1>8, NameFound
  <2>2. IsTerminalName(s, x)
    BY <1>4, <2>1, FirstNamedHere
  <2>3. t.Cur_term = MAXTERM => ~AcceptedFile(s)
    BY <1>1, <1>4, <1>5, <2>1, <2>2, TableFull
  <2>4. x \notin CIdentifiers => ~AcceptedFile(s)
    BY <1>4, NamesMustFit
  <2>. QED
    BY <1>6, <1>8, <2>3, <2>4 DEF u
<1>9. CASE Found(t, x) # NULL /\ ~IsTerm(Found(t, x)) /\ Failed(t, u)
  <2>1. ~IsTerminalName(s, x)
    BY <1>5, <1>9, NameFound
  <2>2. ~AcceptedFile(s)
    BY <1>4, <2>1, NamesMustFit
  <2>. QED
    BY <1>6, <1>9, <2>2 DEF u
<1>10. CASE Found(t, x) # NULL /\ IsTerm(Found(t, x)) /\ PrecSet(t, u, Found(t, x))
  <2>. DEFINE v == Found(t, x)
  <2>1. /\ x \in Known(s, h) /\ v \in Named(t) /\ t.symbols[v].name = x
        /\ IsTerminalName(s, x) /\ v \in 1 .. MAXTERM /\ v <= t.Cur_term
    BY <1>5, <1>10, NameFound
  <2>2. PrecSet(t, u, v)
    BY <1>10
  <2>. HIDE DEF v
  <2>3. x \in CIdentifiers
    BY <1>1, <1>5, <2>1, TerminalNames
  <2>4. /\ u.symbols = t.symbols /\ u.Cur_term = t.Cur_term /\ u.Field_name = t.Field_name
        /\ u.Prec_lev = t.Prec_lev /\ u.Associativity = t.Associativity
        /\ u.yynerrs = t.yynerrs /\ u.status = t.status
        /\ u.Precedence = [t.Precedence EXCEPT ![v] = [level |-> t.Prec_lev,
                                                       assoc |-> t.Associativity]]
    BY <2>2 DEF PrecSet, Only, TableFields
  <2>5. Grows(t, u) /\ Named(u) = Named(t) /\ u.Field_name = FieldBefore(s, h + 1)
    BY <1>4, <1>5, <2>4 DEF Grows, Named
  <2>6. NamesRead(s, h + 1, u)
    BY <1>1, <1>5, <2>1, <2>5, NamesStay
  <2>7. \A w \in 1 .. MAXTERM : w <= t.Cur_term /\ t.symbols[w].name = x => w = v
    BY <1>5, <2>1, TermSymbols DEF NamesRead
  <2>8. PrecsRead(s, h + 1, u)
    BY <1>4, <1>5, <2>1, <2>4, <2>7, PrecsSet DEF place
  <2>9. LevelRead(s, h + 1, u, place, nm)
    BY <1>4, <1>5, <2>4, LevelStays
  <2>10. DefinitionsRead(s, h + 1, u, place, nm)
    BY <1>4, <1>7, <2>1, <2>3, <2>6, <2>8, <2>9 DEF DefinitionsRead
  <2>. QED
    BY <1>6, <2>4, <2>10 DEF u, place
<1>11. ASSUME NEW known, TermMade(t, known, x), PrecSet(known, u, t.Cur_term + 1)
       PROVE  /\ u.yynerrs = t.yynerrs /\ u.status = t.status
              /\ DefinitionsRead(s, h + 1, u, place, nm)
  <2>. DEFINE v == known.Cur_term
  <2>1. /\ NamesRead(s, h + 1, known) /\ PrecsRead(s, h, known)
        /\ IsTerminalName(s, x) /\ x \in CIdentifiers
        /\ v = t.Cur_term + 1 /\ v \in 1 .. MAXTERM
        /\ known.symbols[v].name = x
        /\ known.Prec_lev = t.Prec_lev /\ known.Associativity = t.Associativity
        /\ known.yynerrs = t.yynerrs /\ known.status = t.status
        /\ \A w \in 1 .. MAXTERM : w <= v /\ known.symbols[w].name = x => w = v
    BY <1>4, <1>5, <1>11, TermMadeRead
  <2>2. PrecSet(known, u, v)
    BY <1>11, <2>1
  <2>4. /\ u.symbols = known.symbols /\ u.Cur_term = known.Cur_term
        /\ u.Field_name = known.Field_name
        /\ u.Prec_lev = known.Prec_lev /\ u.Associativity = known.Associativity
        /\ u.yynerrs = known.yynerrs /\ u.status = known.status
        /\ u.Precedence = [known.Precedence EXCEPT ![v] = [level |-> known.Prec_lev,
                                                           assoc |-> known.Associativity]]
    BY <2>2 DEF PrecSet, Only, TableFields
  <2>5. NamesRead(s, h + 1, u)
    BY <2>1, <2>4 DEF NamesRead, Named
  <2>6. LevelRead(s, h, known, place, nm)
    BY <1>5, <2>1 DEF LevelRead
  <2>. HIDE DEF v
  <2>7. v <= known.Cur_term
    BY <2>1 DEF v
  <2>8. PrecsRead(s, h + 1, u)
    BY <1>4, <2>1, <2>4, <2>6, <2>7, PrecsSet DEF place, v
  <2>9. LevelRead(s, h + 1, u, place, nm)
    BY <1>4, <2>4, <2>6, LevelStays
  <2>10. DefinitionsRead(s, h + 1, u, place, nm)
    BY <1>4, <1>7, <2>1, <2>5, <2>8, <2>9 DEF DefinitionsRead
  <2>. QED
    BY <2>1, <2>4, <2>10
<1>. QED
  BY <1>6, <1>8, <1>9, <1>10, <1>11 DEF u, place

----------------------------------------------------------------------------
(***************************************************************************)
(* Tokens consumed, and the ends of the definitions.                       *)
(***************************************************************************)
\* The lookahead is the token at h, and what yylex() has left is what lies behind.
LEMMA AtFacts ==
  ASSUME IsFile(input), NEW h \in 1 .. Len(input) + 1, At(input, h)
  PROVE  /\ Kind = KindAt(input, h)
         /\ h <= Len(input) => Text = TextAt(input, h)
         /\ Kind = "EOI" <=> h = Len(input) + 1
         /\ Kind \in TokenKinds \cup {"EOI"}
<1>1. Len(input) \in Nat /\ DOMAIN input = 1 .. Len(input)
  BY FileFacts
<1>2. CASE h <= Len(input)
  <2>1. Lookahead = input[h] /\ h \in 1 .. Len(input)
    BY <1>1, <1>2 DEF At
  <2>2. Kind = KindAt(input, h) /\ Text = TextAt(input, h)
    BY <1>1, <2>1 DEF Kind, Text, KindAt, TextAt
  <2>. QED
    BY <1>1, <1>2, <2>1, <2>2, KindFacts
<1>3. CASE ~(h <= Len(input))
  <2>1. Lookahead = EndToken /\ h = Len(input) + 1 /\ h \notin 1 .. Len(input)
    BY <1>1, <1>3 DEF At
  <2>2. Kind = "EOI"
    BY <2>1 DEF Kind, EndToken
  <2>. QED
    BY <1>1, <1>3, <2>1, <2>2, KindFacts
<1>. QED
  BY <1>2, <1>3

LEMMA Advanced ==
  ASSUME IsFile(input), NEW h \in 1 .. Len(input) + 1, At(input, h), Advance, input' = input
  PROVE  /\ h <= Len(input) => h + 1 \in 1 .. Len(input) + 1 /\ At(input, h + 1)'
         /\ h = Len(input) + 1 => At(input, h)'
<1>1. Len(input) \in Nat /\ DOMAIN input = 1 .. Len(input)
  BY FileFacts
<1>2. CASE h = Len(input) + 1
  <2>1. Kind = "EOI" /\ ~(h <= Len(input))
    BY <1>1, <1>2, AtFacts
  <2>2. UNCHANGED <<Lookahead, rest>>
    BY <2>1 DEF Advance
  <2>3. At(input, h)'
    BY <2>2 DEF At
  <2>. QED
    BY <2>1, <2>3
<1>3. CASE h <= Len(input)
  <2>0. Kind # "EOI"
    BY <1>1, <1>3, AtFacts
  <2>1. Lookahead' = TokenAt(rest) /\ rest' = Behind(rest)
    BY <2>0 DEF Advance
  <2>2. rest = SubSeq(input, h + 1, Len(input))
    BY DEF At
  <2>3. h + 1 \in 1 .. Len(input) + 1
    BY <1>1, <1>3
  <2>. DEFINE T == TokenKinds \X STRING
  <2>4. input \in Seq(T)
    BY DEF IsFile
  <2>. HIDE DEF T
  <2>5. CASE h + 1 <= Len(input)
    <3>1. /\ rest # <<>> /\ Head(rest) = input[h + 1]
          /\ Tail(rest) = SubSeq(input, h + 1 + 1, Len(input))
      <4>. PICK g \in Nat : g = h + 1
        BY <1>1
      <4>1. g \in 1 .. Len(input) /\ rest = SubSeq(input, g, Len(input))
        BY <1>1, <2>2, <2>5
      <4>2. Head(rest) = input[g] /\ Tail(rest) = SubSeq(input, g + 1, Len(input))
        BY <1>1, <2>4, <4>1, HeadTailOfSubSeq
      <4>3. Len(rest) # 0
        <5>1. Len(rest) = IF g <= Len(input) THEN Len(input) - g + 1 ELSE 0
          BY <1>1, <2>4, <4>1, SubSeqProperties
        <5>. DEFINE k == Len(rest)
                    l == Len(input)
        <5>2. k = (IF g <= l THEN l - g + 1 ELSE 0) /\ l \in Nat /\ g <= l
          BY <1>1, <4>1, <5>1
        <5>. HIDE DEF k, l
        <5>3. k # 0
          BY <5>2
        <5>. QED
          BY <5>3 DEF k
      <4>4. rest # <<>>
        BY <4>3
      <4>. QED
        BY <4>2, <4>4
    <3>2. Lookahead' = input[h + 1] /\ rest' = SubSeq(input, h + 1 + 1, Len(input))
      BY <2>1, <3>1 DEF TokenAt, Behind
    <3>3. At(input, h + 1)'
      BY <2>3, <2>5, <3>2 DEF At
    <3>. QED
      BY <1>1, <1>3, <2>3, <3>3
  <2>6. CASE ~(h + 1 <= Len(input))
    <3>1. rest = <<>> /\ SubSeq(input, h + 1 + 1, Len(input)) = <<>>
      BY <1>1, <2>2, <2>4, <2>6, SubSeqEmpty
    <3>2. Lookahead' = EndToken /\ rest' = SubSeq(input, h + 1 + 1, Len(input))
      BY <2>1, <3>1 DEF TokenAt, Behind
    <3>3. At(input, h + 1)'
      BY <2>3, <2>6, <3>2 DEF At
    <3>. QED
      BY <1>1, <1>3, <2>3, <3>3
  <2>. QED
    BY <1>1, <1>3, <2>5, <2>6
<1>. QED
  BY <1>1, <1>2, <1>3

LEMMA Stayed ==
  ASSUME IsFile(input), NEW h, At(input, h), Stay, input' = input
  PROVE  At(input, h)'
BY DEF At, Stay

\* What the places of definitions() make of a token.
LEMMA DefinitionsLegal ==
  ASSUME NEW s, IsFile(s), NEW h \in 1 .. Len(s) + 1, NEW place, NEW nm,
         DefinitionsSoFar(s, h, place, nm)
  PROVE  /\ place = "definitions" /\ KindAt(s, h) \in Starters \ {"SEPARATOR"} =>
              DefinitionFits(s, h)
         /\ place = "union" /\ KindAt(s, h) = "ACTION" => DefinitionFits(s, h)
         /\ place = "names" /\ KindAt(s, h) \in Starters =>
              \A nm2 : DefinitionsSoFar(s, h, "definitions", nm2)
<1>1. /\ place = "union" <=> KindAt(s, h - 1) = "PERCENT_UNION"
      /\ place = "names" => nm \in ListKeywords /\ InList(s, h, nm)
  BY DEF DefinitionsSoFar
<1>3. ASSUME place = "definitions", KindAt(s, h) \in Starters \ {"SEPARATOR"}
      PROVE  DefinitionFits(s, h)
  BY <1>1, <1>3 DEF DefinitionFits, Starters, ListKeywords, TermKeywords
<1>4. ASSUME place = "union", KindAt(s, h) = "ACTION"
      PROVE  DefinitionFits(s, h)
  BY <1>1, <1>4 DEF DefinitionFits
<1>5. ASSUME place = "names", KindAt(s, h) \in Starters, NEW nm2
      PROVE  DefinitionsSoFar(s, h, "definitions", nm2)
  BY <1>1, <1>5 DEF DefinitionsSoFar, DefinitionsPlaces
<1>. QED
  BY <1>3, <1>4, <1>5

\* The tokens it reports are errors of the file,
LEMMA DefinitionsIllegal ==
  ASSUME NEW s, IsFile(s), NEW h \in 1 .. Len(s) + 1, NEW place, NEW nm,
         DefinitionsSoFar(s, h, place, nm),
         \/ place = "definitions" /\ KindAt(s, h) \notin Starters \cup {"EOI"}
         \/ place = "union" /\ KindAt(s, h) # "ACTION"
         \/ place = "names" /\ KindAt(s, h) \notin Starters \cup {"NAME", "FIELD"}
  PROVE  ~AcceptedFile(s)
<1>1. /\ place = "union" <=> KindAt(s, h - 1) = "PERCENT_UNION"
      /\ place = "names" => nm \in ListKeywords /\ InList(s, h, nm)
      /\ place = "definitions" =>
           \/ KindAt(s, h - 1) \in {"EOI", "ACTION", "CODE_BLOCK"}
           \/ KindAt(s, h) \in Starters
  BY DEF DefinitionsSoFar
<1>2. place = "names" => KindAt(s, h - 1) \in {nm, "NAME", "FIELD"}
  BY <1>1, InListNext
<1>3. /\ KindAt(s, h) \in {"SEPARATOR", "EOI"} => h = DefsEnd(s)
      /\ KindAt(s, h) = "EOI" => h = Len(s) + 1
      /\ KindAt(s, h) \notin {"SEPARATOR", "EOI"} => h \in Defs(s)
  BY DefinitionsHere, KindFacts, FileFacts
<1>4. SUFFICES ASSUME AcceptedDefinitions(s)
               PROVE  FALSE
  BY DEF AcceptedFile, CorrectNames
<1>5. /\ h \in Defs(s) => DefinitionFits(s, h)
      /\ h = DefsEnd(s) => KindAt(s, h - 1) # "PERCENT_UNION"
      /\ h = DefsEnd(s) /\ h = Len(s) + 1 => KindAt(s, h - 1) \in {"ACTION", "CODE_BLOCK", "EOI"}
  <2>1. ASSUME h = DefsEnd(s), h = Len(s) + 1
        PROVE  KindAt(s, h - 1) \in {"ACTION", "CODE_BLOCK", "EOI"}
    <3>1. Len(s) \in Nat
      BY FileFacts
    <3>2. DefsEnd(s) > Len(s) /\ h - 1 = Len(s)
      BY <2>1, <3>1
    <3>. QED
      BY <1>4, <3>2 DEF AcceptedDefinitions
  <2>. QED
    BY <1>4, <2>1 DEF AcceptedDefinitions
<1>6. KindAt(s, h) \in TokenKinds \cup {"EOI"}
  BY KindFacts
<1>7. CASE place = "definitions" /\ KindAt(s, h) \notin Starters \cup {"EOI"}
  <2>1. KindAt(s, h) \notin {"SEPARATOR", "EOI"}
    BY <1>7 DEF Starters
  <2>2. KindAt(s, h - 1) \in {"EOI", "ACTION", "CODE_BLOCK"} /\ DefinitionFits(s, h)
    BY <1>1, <1>3, <1>5, <1>7, <2>1
  <2>. QED
    BY <1>7, <2>2 DEF DefinitionFits, Starters, ListKeywords, TermKeywords
<1>8. CASE place = "union" /\ KindAt(s, h) # "ACTION"
  BY <1>1, <1>3, <1>5, <1>8 DEF DefinitionFits
<1>9. CASE place = "names" /\ KindAt(s, h) \notin Starters \cup {"NAME", "FIELD"}
  <2>1. KindAt(s, h) # "SEPARATOR"
    BY <1>9 DEF Starters
  <2>2. KindAt(s, h - 1) \in ListKeywords \cup {"NAME", "FIELD"}
    BY <1>1, <1>2, <1>9
  <2>3. CASE KindAt(s, h) = "EOI"
    BY <1>3, <1>5, <2>2, <2>3 DEF ListKeywords, TermKeywords
  <2>4. CASE KindAt(s, h) # "EOI"
    BY <1>3, <1>5, <1>9, <2>1, <2>2, <2>4
       DEF DefinitionFits, Starters, ListKeywords, TermKeywords
  <2>. QED
    BY <2>3, <2>4
<1>. QED
  BY <1>7, <1>8, <1>9

\* and where it goes on to the rules, the definitions are correct.
LEMMA DefinitionsDone ==
  ASSUME NEW s, IsFile(s), NEW h \in 1 .. Len(s) + 1, NEW nm,
         DefinitionsSoFar(s, h, "definitions", nm), KindAt(s, h) \in {"SEPARATOR", "EOI"}
  PROVE  h = DefsEnd(s) /\ AcceptedDefinitions(s)
<1>. DEFINE place == "definitions"
<1>0. DefinitionsSoFar(s, h, place, nm)
  OBVIOUS
<1>1. /\ \A i \in 1 .. h - 1 : DefinitionFits(s, i)
      /\ KindAt(s, h - 1) # "PERCENT_UNION"
      /\ \/ KindAt(s, h - 1) \in {"EOI", "ACTION", "CODE_BLOCK"}
         \/ KindAt(s, h) \in Starters
  BY DEF DefinitionsSoFar
<1>. HIDE DEF place
<1>2. h = DefsEnd(s) /\ Len(s) \in Nat
  BY <1>0, DefinitionsHere, FileFacts
<1>3. DefsEnd(s) > Len(s) => KindAt(s, Len(s)) \in {"ACTION", "CODE_BLOCK", "EOI"}
  <2>. HAVE DefsEnd(s) > Len(s)
  <2>1. h = Len(s) + 1 /\ h - 1 = Len(s) /\ h \notin 1 .. Len(s)
    BY <1>2
  <2>2. KindAt(s, h) = "EOI"
    BY <2>1, FileFacts
  <2>. QED
    BY <1>1, <2>1, <2>2 DEF Starters
<1>. QED
  BY <1>1, <1>2, <1>3 DEF AcceptedDefinitions, Defs

\* body() begins with a symbol table for the definitions, and no rules.
LEMMA RulesBegin ==
  ASSUME NEW s, IsFile(s), NEW h \in 1 .. Len(s) + 1, NEW nm, NEW t, Sound(t), BeforeRules(t),
         DefinitionsRead(s, h, t, "definitions", nm), KindAt(s, h) \in {"SEPARATOR", "EOI"},
         NEW h2 \in 1 .. Len(s) + 1, h2 = IF h <= Len(s) THEN h + 1 ELSE h
  PROVE  BodyRead(s, h2, first_sym(t), "body")
<1>. DEFINE u == first_sym(t)
            place == "definitions"
            place2 == "body"
<1>1. /\ Only(t, u, {"Goal_symbol_is_next"})
      /\ u.symbols = t.symbols /\ u.Field_name = t.Field_name
      /\ u.Precedence = t.Precedence /\ u.Cur_term = t.Cur_term
      /\ u.lhs = NULL /\ u.Num_productions = 0
  BY DEF first_sym, Sound, Numbers, BeforeRules, Only, TableFields
<1>2. h = DefsEnd(s) /\ AcceptedDefinitions(s)
  BY DefinitionsDone DEF DefinitionsRead
<1>3. Len(s) \in Nat
  BY FileFacts
<1>4. /\ DefinitionsRead(s, h, t, place, nm)
      /\ SymbolsRead(s, h, t)
      /\ t.Field_name = FieldBefore(s, h)
  BY DEF DefinitionsRead, SymbolsRead, NamesRead
<1>. HIDE DEF u, place
<1>5. h <= Len(s) => KindAt(s, h) = "SEPARATOR"
  BY <1>3, KindFacts
<1>6. SymbolsRead(s, h2, u)
  <2>1. CASE h <= Len(s)
    <3>1. h \in 1 .. Len(s) /\ h2 = h + 1 /\ KindAt(s, h) = "SEPARATOR"
      BY <1>3, <1>5, <2>1
    <3>2. NamesFit(s, h + 1) /\ \A keywords : h \notin Listed(s, keywords)
      BY <1>4, <3>1, NoNameHere DEF SymbolsRead
    <3>3. h \notin Defs(s) /\ h \notin Rules(s)
      BY <1>2 DEF Defs, Rules
    <3>4. h \notin Namings(s) /\ FieldBefore(s, h + 1) = FieldBefore(s, h)
      BY <3>1, <3>3, PositionSets, FieldNext
    <3>5. Grows(t, u) /\ Named(u) = Named(t)
      BY <1>1 DEF Grows, Named
    <3>. QED
      BY <1>1, <1>4, <3>1, <3>2, <3>4, <3>5, SymbolsStay
  <2>2. CASE ~(h <= Len(s))
    BY <1>1, <1>4, <2>2 DEF SymbolsRead, NamesRead, PrecsRead, Named
  <2>. QED
    BY <2>1, <2>2
<1>7. RulesSoFar(s, h2, place2)
  <2>1. CASE h <= Len(s)
    <3>1. h2 = h + 1 /\ h2 - 1 = h /\ DefsEnd(s) < h2 /\ DefsEnd(s) <= Len(s)
          /\ KindAt(s, h2 - 1) = "SEPARATOR"
      BY <1>2, <1>3, <1>5, <2>1
    <3>2. DefsEnd(s) + 1 .. h2 - 1 = {}
      BY <1>2, <1>3, <3>1
    <3>. QED
      BY <1>2, <3>1, <3>2 DEF RulesSoFar
  <2>2. CASE ~(h <= Len(s))
    <3>1. h2 = Len(s) + 1 /\ ~(DefsEnd(s) <= Len(s)) /\ DefsEnd(s) > Len(s)
      BY <1>2, <1>3, <2>2
    <3>2. DefsEnd(s) + 1 .. h2 - 1 = {}
      BY <1>2, <1>3, <2>2
    <3>. QED
      BY <1>2, <3>1, <3>2 DEF RulesSoFar
  <2>. QED
    BY <2>1, <2>2
<1>8. RulesRead(s, h2, u)
  <2>1. \A i \in Rules(s) : ~(i < h2)
    BY <1>2, <1>3 DEF Rules
  <2>2. Until(Starts(s), h2) = {} /\ Until(Lhss(s), h2) = {}
    BY <2>1, PositionSets DEF Until
  <2>3. Cardinality({}) = 0
    BY FS_EmptySet
  <2>4. u.Num_productions = Cardinality(Until(Starts(s), h2)) /\ u.Num_productions <= MAXPROD
    <3>1. 0 <= MAXPROD
      BY Limits
    <3>2. Cardinality(Until(Starts(s), h2)) = 0
      BY <2>2, <2>3
    <3>. QED
      BY <1>1, <3>1, <3>2
  <2>5. \A start \in Until(Starts(s), h2) : ProductionRead(s, h2, u, start)
    BY <2>2
  <2>6. u.lhs = NULL /\ Until(Lhss(s), h2) = {}
    BY <1>1, <2>2
  <2>. QED
    BY <2>4, <2>5, <2>6 DEF RulesRead
<1>. QED
  BY <1>6, <1>7, <1>8 DEF BodyRead, SymbolsRead, u, RhsPlaces

----------------------------------------------------------------------------
(***************************************************************************)
(* The handlers of definitions() keep Faithful.                            *)
(***************************************************************************)
\* The parser has understood all tokens so far, or has reported a file that is not correct.
ReadOn == Wrong \/ (tables.yynerrs = 0 /\ (InDefinitions \/ InRules \/ AllRead))

LEMMA FilesRead ==
  ASSUME input \in Files
  PROVE  IsFile(input) /\ Len(input) \in Nat
<1>1. IsFile(input)
  BY FilesAssumption DEF IsFile
<1>. QED
  BY <1>1, FileFacts

LEMMA WrongNow ==
  ASSUME input' = input, ~AcceptedFile(input), Failed(tables, tables'), tables.yynerrs \in Nat
  PROVE  Wrong'
<1>1. tables'.yynerrs > 0
  BY DEF Failed
<1>. QED
  BY <1>1 DEF Wrong

LEMMA DefinitionsOn ==
  ASSUME input' = input, NEW h \in 1 .. Len(input) + 1, At(input, h)', tables'.yynerrs = 0,
         DefinitionsRead(input, h, tables', pc', names')
  PROVE  ReadOn'
BY DEF ReadOn, InDefinitions

LEMMA RulesOn ==
  ASSUME input' = input, NEW h \in 1 .. Len(input) + 1, At(input, h)', tables'.yynerrs = 0,
         BodyRead(input, h, tables', pc')
  PROVE  ReadOn'
BY DEF ReadOn, InRules

\* The steps of definitions() on the tokens it expects.
LEMMA ReadDefinitions ==
  ASSUME input \in Files, Sound(tables), tables.status = "run", tables.yynerrs = 0,
         InDefinitions,
         UnionKeyword \/ UnionAction \/ NamesKeyword \/ CodeBlock \/ IllegalDefinition
  PROVE  ReadOn'
<1>0. IsFile(input) /\ Len(input) \in Nat /\ input' = input
  BY FilesRead DEF UnionKeyword, UnionAction, NamesKeyword, CodeBlock, IllegalDefinition
<1>1. PICK h \in 1 .. Len(input) + 1 :
        At(input, h) /\ DefinitionsRead(input, h, tables, pc, names)
  BY DEF InDefinitions
<1>2. /\ Kind = KindAt(input, h)
      /\ Kind = "EOI" <=> h = Len(input) + 1
      /\ DefinitionsSoFar(input, h, pc, names)
      /\ Kind \notin {"SEPARATOR", "EOI"} => h \in Defs(input)
  BY <1>0, <1>1, AtFacts, DefinitionsHere DEF DefinitionsRead
<1>3. Advance
  BY DEF UnionKeyword, UnionAction, NamesKeyword, CodeBlock, IllegalDefinition
<1>4. Kind # "EOI" => h + 1 \in 1 .. Len(input) + 1 /\ At(input, h + 1)'
  BY <1>0, <1>1, <1>2, <1>3, Advanced
<1>5. Failed(tables, NonFatal(tables)) /\ tables.yynerrs \in Nat
  BY ErrorsCounted
<1>6. CASE UnionKeyword
  <2>1. /\ pc = "definitions" /\ Kind = "PERCENT_UNION" /\ tables' = tables /\ pc' = "union"
        /\ names' = names
    BY <1>6 DEF UnionKeyword, Call, Locals
  <2>2. h \in Defs(input) /\ DefinitionFits(input, h)
    BY <1>0, <1>2, <2>1, DefinitionsLegal DEF Starters
  <2>3. DefinitionsRead(input, h + 1, tables', pc', names')
    BY <1>0, <1>1, <1>2, <2>1, <2>2, ReadOther DEF DefinitionsPlaces, PrecKeywords
  <2>. QED
    BY <1>0, <1>4, <2>1, <2>3, DefinitionsOn
<1>7. CASE UnionAction
  <2>1. pc = "union" /\ names' = names
    BY <1>7 DEF UnionAction, Locals
  <2>2. CASE Kind = "ACTION"
    <3>1. tables' = tables /\ pc' = "definitions"
      BY <1>7, <2>2 DEF UnionAction, Call
    <3>2. h \in Defs(input) /\ DefinitionFits(input, h)
      BY <1>0, <1>2, <2>1, <2>2, DefinitionsLegal
    <3>3. DefinitionsRead(input, h + 1, tables', pc', names')
      BY <1>0, <1>1, <1>2, <2>2, <3>1, <3>2, ReadOther DEF DefinitionsPlaces, PrecKeywords
    <3>. QED
      BY <1>0, <1>4, <2>2, <3>1, <3>3, DefinitionsOn
  <2>3. CASE Kind # "ACTION"
    <3>1. tables' = NonFatal(tables)
      BY <1>7, <2>3 DEF UnionAction, Call
    <3>2. ~AcceptedFile(input)
      BY <1>0, <1>2, <2>1, <2>3, DefinitionsIllegal
    <3>. QED
      BY <1>0, <1>5, <3>1, <3>2, WrongNow DEF ReadOn
  <2>. QED
    BY <2>2, <2>3
<1>8. CASE NamesKeyword
  <2>1. /\ pc = "definitions" /\ Kind \in {"TYPE", "TERM_SPEC", "LEFT", "RIGHT", "NONASSOC"}
        /\ names' = Kind
    BY <1>8 DEF NamesKeyword
  <2>2. h \in Defs(input) /\ DefinitionFits(input, h)
    BY <1>0, <1>2, <2>1, DefinitionsLegal DEF Starters
  <2>3. InList(input, h + 1, Kind)
    BY <1>2, <2>2, InListNext
  <2>4. CASE Kind = "TYPE"
    <3>1. tables' = tables /\ pc' = "names"
      BY <1>8, <2>4 DEF NamesKeyword, Call
    <3>2. DefinitionsRead(input, h + 1, tables', pc', names')
      BY <1>0, <1>1, <1>2, <2>1, <2>2, <2>3, <2>4, <3>1, ReadOther
         DEF DefinitionsPlaces, PrecKeywords, ListKeywords
    <3>. QED
      BY <1>0, <1>4, <2>4, <3>1, <3>2, DefinitionsOn
  <2>5. CASE Kind = "TERM_SPEC"
    <3>1. tables' = new_lev(tables, "none") /\ (tables'.status = "run" => pc' = "names")
      BY <1>8, <2>5 DEF NamesKeyword, Call
    <3>2. /\ tables'.symbols = tables.symbols /\ tables'.Field_name = tables.Field_name
          /\ tables'.Precedence = tables.Precedence /\ tables'.Cur_term = tables.Cur_term
          /\ tables'.Prec_lev = tables.Prec_lev /\ tables'.yynerrs = 0
          /\ tables'.status = "run"
      BY <3>1 DEF new_lev, Sound, Numbers, TableFields
    <3>3. DefinitionsRead(input, h + 1, tables', pc', names')
      BY <1>0, <1>1, <1>2, <2>1, <2>2, <2>3, <2>5, <3>1, <3>2, ReadOther
         DEF DefinitionsPlaces, PrecKeywords, ListKeywords, TermKeywords
    <3>. QED
      BY <1>0, <1>4, <2>5, <3>2, <3>3, DefinitionsOn
  <2>6. CASE Kind \in {"LEFT", "RIGHT", "NONASSOC"}
    <3>1. tables' = new_lev(tables, Kind) /\ (tables'.status = "run" => pc' = "names")
      BY <1>8, <2>6 DEF NamesKeyword, Call
    <3>2. /\ tables'.symbols = tables.symbols /\ tables'.Field_name = tables.Field_name
          /\ tables'.Precedence = tables.Precedence /\ tables'.Cur_term = tables.Cur_term
          /\ tables'.Prec_lev = tables.Prec_lev + 1 /\ tables'.yynerrs = 0
          /\ tables'.status = "run" /\ tables'.Associativity = Kind
      BY <2>6, <3>1 DEF new_lev, Sound, Numbers, TableFields
    <3>3. KindAt(input, h) \in PrecKeywords
      BY <1>2, <2>6 DEF PrecKeywords
    <3>4. DefinitionsRead(input, h + 1, tables', "names", KindAt(input, h))
      BY <1>0, <1>1, <1>2, <2>2, <3>2, <3>3, ReadPrecKeyword
    <3>5. DefinitionsRead(input, h + 1, tables', pc', names')
      BY <1>2, <2>1, <3>1, <3>2, <3>4
    <3>. QED
      BY <1>0, <1>4, <2>6, <3>2, <3>5, DefinitionsOn
  <2>. QED
    BY <2>1, <2>4, <2>5, <2>6
<1>9. CASE CodeBlock
  <2>1. /\ pc = "definitions" /\ Kind = "CODE_BLOCK" /\ tables' = tables /\ pc' = "definitions"
        /\ names' = names
    BY <1>9 DEF CodeBlock, Call, Locals
  <2>2. h \in Defs(input) /\ DefinitionFits(input, h)
    BY <1>0, <1>2, <2>1, DefinitionsLegal DEF Starters
  <2>3. DefinitionsRead(input, h + 1, tables', pc', names')
    BY <1>0, <1>1, <1>2, <2>1, <2>2, ReadOther DEF DefinitionsPlaces, PrecKeywords
  <2>. QED
    BY <1>0, <1>4, <2>1, <2>3, DefinitionsOn
<1>10. CASE IllegalDefinition
  <2>1. pc = "definitions" /\ Kind \notin Starters \cup {"EOI"} /\ tables' = NonFatal(tables)
    BY <1>10 DEF IllegalDefinition, Call
  <2>2. ~AcceptedFile(input)
    BY <1>0, <1>2, <2>1, DefinitionsIllegal
  <2>. QED
    BY <1>0, <1>5, <2>1, <2>2, WrongNow DEF ReadOn
<1>. QED
  BY <1>6, <1>7, <1>8, <1>9, <1>10

\* The names in a list, and what ends it.
LEMMA ReadNames ==
  ASSUME input \in Files, Sound(tables), tables.status = "run", tables.yynerrs = 0,
         BeforeRules(tables), InDefinitions,
         OneName \/ OneField \/ NamesEnd \/ IllegalName \/ DefinitionsEnd
  PROVE  ReadOn'
<1>0. IsFile(input) /\ Len(input) \in Nat /\ input' = input
  BY FilesRead DEF OneName, OneField, NamesEnd, IllegalName, DefinitionsEnd, CallLookfor
<1>1. PICK h \in 1 .. Len(input) + 1 :
        At(input, h) /\ DefinitionsRead(input, h, tables, pc, names)
  BY DEF InDefinitions
<1>2. /\ Kind = KindAt(input, h)
      /\ Kind = "EOI" <=> h = Len(input) + 1
      /\ h <= Len(input) => Text = TextAt(input, h)
      /\ DefinitionsSoFar(input, h, pc, names)
      /\ Kind \notin {"SEPARATOR", "EOI"} => h \in Defs(input)
  BY <1>0, <1>1, AtFacts, DefinitionsHere DEF DefinitionsRead
<1>3. ASSUME Advance
      PROVE  /\ Kind # "EOI" => h + 1 \in 1 .. Len(input) + 1 /\ At(input, h + 1)'
             /\ Kind = "EOI" => At(input, h)'
  BY <1>0, <1>1, <1>2, <1>3, Advanced
<1>4. Failed(tables, NonFatal(tables)) /\ tables.yynerrs \in Nat
  BY ErrorsCounted
<1>5. CASE OneName
  <2>1. pc = "names" /\ Kind = "NAME" /\ Advance /\ names' = names
    BY <1>5 DEF OneName, Locals
  <2>2. h \in Defs(input) /\ KindAt(input, h) = "NAME" /\ Text = TextAt(input, h)
    BY <1>0, <1>2, <2>1
  <2>3. h + 1 \in 1 .. Len(input) + 1 /\ At(input, h + 1)'
    BY <1>3, <2>1
  <2>4. names \in ListKeywords
    BY <1>2, <2>1 DEF DefinitionsSoFar
  <2>. DEFINE place == "names"
  <2>5. DefinitionsRead(input, h, tables, "names", names)
    BY <1>1, <2>1
  <2>6. /\ \/ Failed(tables, tables') /\ ~AcceptedFile(input)
           \/ /\ tables'.yynerrs = tables.yynerrs /\ tables'.status = tables.status
              /\ DefinitionsRead(input, h + 1, tables', "names", names)
        /\ tables'.status = "run" => pc' = "names"
    <3>1. CASE names = "TYPE"
      <4>1. tables' = new_nonterm(tables, TextAt(input, h), FALSE)
            /\ (tables'.status = "run" => pc' = "names")
        BY <1>5, <2>2, <3>1 DEF OneName, Call
      <4>2. tables.Goal_symbol_is_next = FALSE
        BY DEF BeforeRules
      <4>. DEFINE is_lhs == FALSE
                  u == new_nonterm(tables, TextAt(input, h), is_lhs)
      <4>3. is_lhs \in BOOLEAN /\ ~is_lhs
        OBVIOUS
      <4>4. tables' = u
        BY <4>1
      <4>. HIDE DEF is_lhs
      <4>5. u = new_nonterm(tables, TextAt(input, h), is_lhs)
        OBVIOUS
      <4>. HIDE DEF u
      <4>6. /\ NoFewer(tables, u)
            /\ \/ Failed(tables, u) /\ ~AcceptedFile(input)
               \/ /\ u.yynerrs = tables.yynerrs /\ u.status = tables.status
                  /\ DefinitionsRead(input, h + 1, u, "names", names)
        BY <1>0, <2>2, <2>5, <3>1, <4>2, <4>3, <4>5, ReadType
      <4>. QED
        BY <4>1, <4>4, <4>6
    <3>2. CASE names = "TERM_SPEC"
      <4>1. tables' = make_term(tables, TextAt(input, h))
            /\ (tables'.status = "run" => pc' = "names")
        BY <1>5, <2>2, <3>2 DEF OneName, Call
      <4>. QED
        BY <1>0, <2>2, <2>5, <3>2, <4>1, ReadTerm
    <3>3. CASE names \in PrecKeywords
      <4>1. names # "TYPE" /\ names # "TERM_SPEC"
        BY <3>3 DEF PrecKeywords
      <4>2. tables' = prec_list(tables, TextAt(input, h))
            /\ (tables'.status = "run" => pc' = "names")
        BY <1>5, <2>2, <4>1 DEF OneName, Call
      <4>. QED
        BY <1>0, <2>2, <2>5, <3>3, <4>2, ReadPrecName
    <3>. QED
      BY <2>4, <3>1, <3>2, <3>3 DEF ListKeywords, TermKeywords, PrecKeywords
  <2>7. CASE Failed(tables, tables') /\ ~AcceptedFile(input)
    BY <1>0, <1>4, <2>7, WrongNow DEF ReadOn
  <2>8. CASE ~(Failed(tables, tables') /\ ~AcceptedFile(input))
    <3>1. /\ tables'.yynerrs = 0 /\ pc' = "names"
          /\ DefinitionsRead(input, h + 1, tables', "names", names)
      BY <2>6, <2>8
    <3>2. DefinitionsRead(input, h + 1, tables', pc', names')
      BY <2>1, <3>1
    <3>. QED
      BY <1>0, <2>3, <3>1, <3>2, DefinitionsOn
  <2>. QED
    BY <2>7, <2>8
<1>6. CASE OneField
  <2>1. /\ pc = "names" /\ Kind = "FIELD" /\ Advance /\ names' = names
        /\ tables' = new_field(tables, Text) /\ (tables'.status = "run" => pc' = "names")
    BY <1>6 DEF OneField, Locals, Call
  <2>2. h \in Defs(input) /\ KindAt(input, h) = "FIELD" /\ Text = TextAt(input, h)
    BY <1>0, <1>2, <2>1
  <2>3. h + 1 \in 1 .. Len(input) + 1 /\ At(input, h + 1)'
    BY <1>3, <2>1
  <2>4. /\ Only(tables, tables', {"Field_name"})
        /\ tables'.Field_name = TextAt(input, h)
        /\ tables'.yynerrs = 0 /\ tables'.status = "run"
    BY <2>1, <2>2 DEF new_field, Sound, Numbers, Only, TableFields
  <2>5. DefinitionsRead(input, h + 1, tables', "names", names)
    BY <1>0, <1>1, <2>1, <2>2, <2>4, ReadField
  <2>6. DefinitionsRead(input, h + 1, tables', pc', names')
    BY <2>1, <2>4, <2>5
  <2>. QED
    BY <1>0, <2>3, <2>4, <2>6, DefinitionsOn
<1>7. CASE NamesEnd
  <2>1. /\ pc = "names" /\ Kind \in Starters /\ Stay /\ names' = names
        /\ tables' = tables /\ pc' = "definitions"
    BY <1>7 DEF NamesEnd, Locals, Call
  <2>2. DefinitionsSoFar(input, h, pc', names')
    BY <1>0, <1>2, <2>1, DefinitionsLegal
  <2>3. LevelRead(input, h, tables', pc', names')
    BY <1>1, <2>1 DEF DefinitionsRead, LevelRead
  <2>4. DefinitionsRead(input, h, tables', pc', names')
    BY <1>1, <2>1, <2>2, <2>3 DEF DefinitionsRead
  <2>5. At(input, h)'
    BY <1>0, <1>1, <2>1, Stayed
  <2>. QED
    BY <1>0, <2>1, <2>4, <2>5, DefinitionsOn
<1>8. CASE IllegalName
  <2>1. /\ pc = "names" /\ Kind \notin Starters \cup {"NAME", "FIELD"}
        /\ tables' = NonFatal(tables)
    BY <1>8 DEF IllegalName, CallLookfor
  <2>2. ~AcceptedFile(input)
    BY <1>0, <1>2, <2>1, DefinitionsIllegal
  <2>. QED
    BY <1>0, <1>4, <2>1, <2>2, WrongNow DEF ReadOn
<1>9. CASE DefinitionsEnd
  <2>1. /\ pc = "definitions" /\ Kind \in {"SEPARATOR", "EOI"} /\ Advance
        /\ tables' = first_sym(tables) /\ (tables'.status = "run" => pc' = "body")
    BY <1>9 DEF DefinitionsEnd, Call
  <2>2. tables'.yynerrs = 0 /\ tables'.status = "run"
    BY <2>1 DEF first_sym, Sound, Numbers, TableFields
  <2>4. PICK h2 \in 1 .. Len(input) + 1 : h2 = IF h <= Len(input) THEN h + 1 ELSE h
    BY <1>0
  <2>3. At(input, h2)'
    <3>1. CASE h <= Len(input)
      BY <1>0, <1>2, <1>3, <2>1, <2>4, <3>1
    <3>2. CASE ~(h <= Len(input))
      BY <1>0, <1>2, <1>3, <2>1, <2>4, <3>2
    <3>. QED
      BY <3>1, <3>2
  <2>5. DefinitionsRead(input, h, tables, "definitions", names)
    BY <1>1, <2>1
  <2>6. BodyRead(input, h2, first_sym(tables), "body")
    BY <1>0, <1>2, <2>1, <2>3, <2>4, <2>5, RulesBegin
  <2>7. BodyRead(input, h2, tables', pc')
    BY <2>1, <2>2, <2>6
  <2>. QED
    BY <1>0, <2>2, <2>3, <2>7, RulesOn
<1>. QED
  BY <1>5, <1>6, <1>7, <1>8, <1>9

----------------------------------------------------------------------------
(***************************************************************************)
(* The handlers of body() and right_sides() keep it.                       *)
(***************************************************************************)
\* What is known in body(), rhs() and right_side().
LEMMA BodyHere ==
  ASSUME NEW s, IsFile(s), NEW h \in 1 .. Len(s) + 1, NEW t, NEW place, BodyRead(s, h, t, place)
  PROVE  /\ SymbolsRead(s, h, t) /\ NamesFit(s, h) /\ NamesRead(s, h, t) /\ PrecsRead(s, h, t)
         /\ RulesRead(s, h, t) /\ RulesSoFar(s, h, place)
         /\ t.Field_name = FieldBefore(s, h)
         /\ place \in RhsPlaces => AtRhs(s, h, t)
         /\ KindAt(s, h) \in {"SEPARATOR", "EOI"} => h = RulesEnd(s)
         /\ KindAt(s, h) \notin {"SEPARATOR", "EOI"} =>
              /\ h \in Rules(s) /\ h \in 1 .. Len(s) /\ h \notin Defs(s)
              /\ DefsEnd(s) <= Len(s)
         /\ \A i \in Defs(s) : i < h
<1>1. /\ RulesSoFar(s, h, place) /\ NamesFit(s, h) /\ NamesRead(s, h, t) /\ PrecsRead(s, h, t)
      /\ RulesRead(s, h, t)
      /\ place \in RhsPlaces => AtRhs(s, h, t)
  BY DEF BodyRead
<1>2. /\ IF DefsEnd(s) <= Len(s) THEN DefsEnd(s) < h ELSE h = Len(s) + 1
      /\ \A i \in DefsEnd(s) + 1 .. h - 1 : KindAt(s, i) # "SEPARATOR"
  BY <1>1 DEF RulesSoFar
<1>3. /\ \A i \in Defs(s) \cup Until(Rules(s), h) : i < h
      /\ KindAt(s, h) \in {"SEPARATOR", "EOI"} => h = RulesEnd(s)
      /\ KindAt(s, h) \notin {"SEPARATOR", "EOI"} =>
           h \in Rules(s) /\ h <= Len(s) /\ DefsEnd(s) < h
  BY <1>2, RulesReached
<1>4. /\ Len(s) \in Nat /\ DefsEnd(s) \in 1 .. Len(s) + 1
      /\ Defs(s) \in SUBSET (1 .. Len(s))
  BY FileFacts, Ends, PositionSets
<1>5. KindAt(s, h) \notin {"SEPARATOR", "EOI"} =>
        h \in 1 .. Len(s) /\ h \notin Defs(s) /\ DefsEnd(s) <= Len(s)
  BY <1>3, <1>4
<1>6. SymbolsRead(s, h, t) /\ t.Field_name = FieldBefore(s, h)
  BY <1>1 DEF SymbolsRead, NamesRead
<1>. QED
  BY <1>1, <1>3, <1>5, <1>6

\* One token further.
LEMMA RulesNext ==
  ASSUME NEW s, IsFile(s), NEW h \in Rules(s), NEW place, RulesSoFar(s, h, place),
         RuleFits(s, h), NEW place2,
         place2 = "body" => KindAt(s, h) = "SEMI",
         place2 = "colon" => IsLhs(s, h),
         place2 = "rhs" =>
           KindAt(s, h) \in {"COLON", "OR", "NAME", "FIELD", "ACTION"} /\ ~IsLhs(s, h),
         place2 = "prec" => KindAt(s, h) = "PREC",
         place2 # "right_side"
  PROVE  RulesSoFar(s, h + 1, place2)
<1>1. /\ AcceptedDefinitions(s)
      /\ IF DefsEnd(s) <= Len(s) THEN DefsEnd(s) < h ELSE h = Len(s) + 1
      /\ \A i \in DefsEnd(s) + 1 .. h - 1 : KindAt(s, i) # "SEPARATOR" /\ RuleFits(s, i)
  BY DEF RulesSoFar
<1>2. /\ Len(s) \in Nat /\ DefsEnd(s) \in 1 .. Len(s) + 1 /\ h \in 1 .. Len(s)
      /\ KindAt(s, h) # "SEPARATOR"
  BY FileFacts, Ends, PositionSets DEF Rules
<1>3. DefsEnd(s) <= Len(s) /\ DefsEnd(s) < h + 1
  BY <1>1, <1>2
<1>. PICK g \in Nat : g = h + 1
  BY <1>2
<1>4. g - 1 = h
  BY <1>2
<1>5. \A i \in DefsEnd(s) + 1 .. g - 1 : KindAt(s, i) # "SEPARATOR" /\ RuleFits(s, i)
  <2>. TAKE i \in DefsEnd(s) + 1 .. g - 1
  <2>1. i \in DefsEnd(s) + 1 .. h - 1 \/ i = h
    BY <1>2, <1>4
  <2>. QED
    BY <1>1, <1>2, <2>1
<1>6. place2 = "rhs" => AfterObject(s, g)
  BY <1>4 DEF AfterObject
<1>7. DefsEnd(s) < g
  BY <1>3
<1>8. RulesSoFar(s, g, place2)
  BY <1>1, <1>3, <1>4, <1>5, <1>6, <1>7 DEF RulesSoFar
<1>. QED
  BY <1>8

LEMMA BodyNext ==
  ASSUME NEW s, NEW h, NEW t, NEW place \in {"body", "colon"} \cup RhsPlaces,
         RulesSoFar(s, h, place), SymbolsRead(s, h, t), RulesRead(s, h, t),
         place \in RhsPlaces => AtRhs(s, h, t)
  PROVE  BodyRead(s, h, t, place)
BY DEF BodyRead, SymbolsRead

\* A token that fits none of the rules is an error of the file.
LEMMA RuleMustFit ==
  ASSUME NEW s, AcceptedFile(s)
  PROVE  /\ \A h \in Rules(s) : RuleFits(s, h)
         /\ DefsEnd(s) <= Len(s) => KindAt(s, RulesEnd(s) - 1) \in {"SEPARATOR", "SEMI"}
BY DEF AcceptedFile, CorrectNames, AcceptedRules

\* What the places of body() and rhs() report.
LEMMA RulesIllegal ==
  ASSUME NEW s, IsFile(s), NEW h \in 1 .. Len(s) + 1, NEW t, NEW place, BodyRead(s, h, t, place),
         \/ place = "body" /\ KindAt(s, h) \notin {"NAME", "SEPARATOR", "EOI"}
         \/ place = "colon" /\ KindAt(s, h) # "COLON"
         \/ place = "prec" /\ KindAt(s, h) # "NAME"
         \/ place = "rhs" /\ KindAt(s, h) \notin {"NAME", "FIELD", "ACTION", "PREC", "OR", "SEMI"}
  PROVE  ~AcceptedFile(s)
<1>1. /\ place = "body" => DefsEnd(s) > Len(s) \/ KindAt(s, h - 1) \in {"SEPARATOR", "SEMI"}
      /\ place = "colon" => IsLhs(s, h - 1)
      /\ place = "rhs" => AfterObject(s, h)
      /\ place = "prec" => KindAt(s, h - 1) = "PREC"
      /\ place # "body" => DefsEnd(s) <= Len(s)
  BY BodyHere DEF RulesSoFar
<1>2. /\ KindAt(s, h) \in {"SEPARATOR", "EOI"} => h = RulesEnd(s)
      /\ KindAt(s, h) \notin {"SEPARATOR", "EOI"} => h \in Rules(s) /\ DefsEnd(s) <= Len(s)
  BY BodyHere
<1>3. Len(s) \in Nat /\ DefsEnd(s) \in 1 .. Len(s) + 1
  BY FileFacts, Ends
<1>4. SUFFICES ASSUME AcceptedFile(s)
               PROVE  FALSE
  OBVIOUS
<1>5. /\ h \in Rules(s) => RuleFits(s, h)
      /\ h = RulesEnd(s) /\ DefsEnd(s) <= Len(s) => KindAt(s, h - 1) \in {"SEPARATOR", "SEMI"}
  BY <1>4, RuleMustFit
<1>6. CASE place = "body" /\ KindAt(s, h) \notin {"NAME", "SEPARATOR", "EOI"}
  <2>1. h \in Rules(s) /\ KindAt(s, h - 1) \in {"SEPARATOR", "SEMI"}
    BY <1>1, <1>2, <1>3, <1>6
  <2>. QED
    BY <1>5, <1>6, <2>1 DEF RuleFits, IsLhs
<1>7. CASE place = "colon" /\ KindAt(s, h) # "COLON"
  <2>1. KindAt(s, h - 1) = "NAME"
    BY <1>1, <1>7 DEF IsLhs
  <2>. QED
    BY <1>1, <1>2, <1>5, <1>7, <2>1 DEF RuleFits
<1>8. CASE place = "prec" /\ KindAt(s, h) # "NAME"
  BY <1>1, <1>2, <1>5, <1>8 DEF RuleFits
<1>9. CASE place = "rhs" /\ KindAt(s, h) \notin {"NAME", "FIELD", "ACTION", "PREC", "OR", "SEMI"}
  <2>1. KindAt(s, h - 1) \notin {"SEPARATOR", "SEMI"} /\ ~IsLhs(s, h - 1)
    BY <1>1, <1>9 DEF AfterObject
  <2>. QED
    BY <1>1, <1>2, <1>5, <1>9, <2>1 DEF RuleFits
<1>. QED
  BY <1>6, <1>7, <1>8, <1>9

\* new_nonterm() for a left-hand side.
LEMMA ReadLhs ==
  ASSUME NEW s, IsFile(s), NEW h \in 1 .. Len(s) + 1, KindAt(s, h) = "NAME",
         NEW t, Sound(t), GoalKept(t), BodyRead(s, h, t, "body"),
         NEW is_lhs \in BOOLEAN, is_lhs, NEW u, u = new_nonterm(t, TextAt(s, h), is_lhs)
  PROVE  /\ NoFewer(t, u)
         /\ \/ Failed(t, u) /\ ~AcceptedFile(s)
            \/ /\ u.yynerrs = t.yynerrs /\ u.status = t.status
               /\ BodyRead(s, h + 1, u, "colon")
<1>. DEFINE x == TextAt(s, h)
            place == "body"
            place2 == "colon"
<1>1. /\ SymbolsRead(s, h, t) /\ NamesFit(s, h) /\ NamesRead(s, h, t) /\ PrecsRead(s, h, t)
      /\ RulesRead(s, h, t) /\ RulesSoFar(s, h, place)
      /\ t.Field_name = FieldBefore(s, h)
      /\ h \in Rules(s) /\ h \in 1 .. Len(s) /\ h \notin Defs(s) /\ DefsEnd(s) <= Len(s)
  BY BodyHere
<1>2. KindAt(s, h - 1) \in {"SEPARATOR", "SEMI"}
  <2>1. Len(s) \in Nat /\ DefsEnd(s) \in 1 .. Len(s) + 1
    BY FileFacts, Ends
  <2>. QED
    BY <1>1, <2>1 DEF RulesSoFar
<1>3. IsLhs(s, h)
  BY <1>1, <1>2 DEF IsLhs
<1>4. /\ h \in Lhss(s) /\ h \in Namings(s)
      /\ \A keywords : h \notin Listed(s, keywords)
      /\ h \notin Objects(s) /\ h \notin PrecNames(s) /\ h \notin Starts(s)
      /\ FieldBefore(s, h + 1) = FieldBefore(s, h)
  <2>1. /\ h \in Lhss(s) /\ h \in Namings(s)
        /\ \A keywords : h \notin Listed(s, keywords)
        /\ h \notin Objects(s) /\ h \notin PrecNames(s) /\ h \notin Starts(s)
    BY <1>1, <1>2, <1>3, RulesHere
  <2>2. FieldBefore(s, h + 1) = FieldBefore(s, h)
    BY <1>1, FieldNext
  <2>. QED
    BY <2>1, <2>2
<1>5. RuleFits(s, h)
  <2>1. ~IsLhs(s, h - 1)
    BY <1>2 DEF IsLhs
  <2>. QED
    BY <1>2, <1>3, <2>1 DEF RuleFits
<1>6. place2 = "colon"
  OBVIOUS
<1>. HIDE DEF place, place2
<1>7. RulesSoFar(s, h + 1, place2)
  BY <1>1, <1>3, <1>5, <1>6, RulesNext
<1>8. /\ NoFewer(t, u)
      /\ \/ Found(t, x) # NULL /\ ~IsNonterm(Found(t, x)) /\ Failed(t, u)
         \/ Found(t, x) = NULL /\ t.Cur_nonterm = MAXNONTERM /\ Failed(t, u)
         \/ NontermKnown(t, u, x, is_lhs)
         \/ NontermMade(t, u, x, is_lhs)
  BY NewNontermDoes
<1>. HIDE DEF x
<1>9. ASSUME ~IsTerminalName(s, x)
      PROVE  NamesFit(s, h + 1)
  BY <1>1, <1>4, <1>9, NamesFitNext DEF x
<1>10. ASSUME Found(t, x) = NULL
       PROVE  x \notin Known(s, h) /\ ~IsTerminalName(s, x)
  BY <1>1, <1>4, <1>10, NameFound, FirstNamedHere DEF x
<1>11. CASE Found(t, x) # NULL /\ ~IsNonterm(Found(t, x)) /\ Failed(t, u)
  <2>1. IsTerminalName(s, x)
    BY <1>1, <1>11, NameFound
  <2>2. ~AcceptedFile(s)
    BY <1>4, <2>1, NamesMustFit DEF x
  <2>. QED
    BY <1>8, <1>11, <2>2
<1>12. CASE Found(t, x) = NULL /\ t.Cur_nonterm = MAXNONTERM /\ Failed(t, u)
  <2>1. ~AcceptedFile(s)
    BY <1>1, <1>4, <1>10, <1>12, TableFull DEF x
  <2>. QED
    BY <1>8, <1>12, <2>1
<1>13. ASSUME u.Field_name = t.Field_name, u.Precedence = t.Precedence,
              u.Cur_term = t.Cur_term, u.yynerrs = t.yynerrs, u.status = t.status,
              u.productions = t.productions, u.Num_productions = t.Num_productions,
              Grows(t, u), NamesRead(s, h + 1, u), ~IsTerminalName(s, x),
              u.lhs # NULL, u.symbols[u.lhs].name = x,
              u.Goal_symbol = (IF t.Goal_symbol_is_next THEN u.lhs ELSE t.Goal_symbol)
       PROVE  BodyRead(s, h + 1, u, place2)
  <2>1. \A w \in 1 .. MAXTERM : w <= t.Cur_term => u.symbols[w].name = t.symbols[w].name
    BY <1>13, TermSymbols DEF Grows, Named
  <2>2. PrecsRead(s, h + 1, u)
    BY <1>1, <1>4, <1>13, <2>1, PrecsStay
  <2>3. SymbolsRead(s, h + 1, u)
    BY <1>9, <1>13, <2>2 DEF SymbolsRead
  <2>4. RulesRead(s, h + 1, u)
    BY <1>1, <1>4, <1>13, RulesLhs DEF x
  <2>5. place2 \notin RhsPlaces
    BY DEF place2, RhsPlaces
  <2>. QED
    BY <1>6, <1>7, <2>3, <2>4, <2>5, BodyNext
<1>14. CASE NontermKnown(t, u, x, is_lhs)
  <2>1. /\ Found(t, x) # NULL /\ IsNonterm(Found(t, x)) /\ Grows(t, u)
        /\ DOMAIN u.symbols = DOMAIN t.symbols /\ Only(t, u, InitParts)
        /\ u.lhs = Found(t, x)
        /\ u.Goal_symbol = (IF t.Goal_symbol_is_next THEN u.lhs ELSE t.Goal_symbol)
    BY <1>14 DEF NontermKnown
  <2>2. /\ u.Field_name = t.Field_name /\ u.Precedence = t.Precedence
        /\ u.Cur_term = t.Cur_term /\ u.yynerrs = t.yynerrs /\ u.status = t.status
        /\ u.productions = t.productions /\ u.Num_productions = t.Num_productions
    BY <2>1 DEF Only, TableFields, InitParts
  <2>3. ~IsTerm(Found(t, x))
    BY <2>1, TermSymbols DEF IsNonterm
  <2>4. /\ ~IsTerminalName(s, x) /\ x \in Known(s, h)
        /\ Found(t, x) \in Named(t) /\ t.symbols[Found(t, x)].name = x
    BY <1>1, <2>1, <2>3, NameFound
  <2>5. u.lhs # NULL /\ u.symbols[u.lhs].name = x
    BY <2>1, <2>4 DEF Grows, Named
  <2>6. Named(u) = Named(t) /\ u.Field_name = FieldBefore(s, h + 1)
    BY <1>1, <1>4, <2>1, <2>2 DEF Named
  <2>7. NamesRead(s, h + 1, u)
    BY <1>1, <2>1, <2>4, <2>6, NamesStay DEF x
  <2>8. BodyRead(s, h + 1, u, place2)
    BY <1>13, <2>1, <2>2, <2>4, <2>5, <2>7
  <2>. QED
    BY <1>8, <2>2, <2>8 DEF place2
<1>15. CASE NontermMade(t, u, x, is_lhs)
  <2>. DEFINE v == t.Cur_nonterm + 1
  <2>1. /\ Found(t, x) = NULL /\ Grows(t, u) /\ NewName(t, u, v, x)
        /\ v \in MINNONTERM .. MAXNONTERM
        /\ Only(t, u, InitParts \cup {"Cur_nonterm"})
        /\ u.lhs = v
        /\ u.Goal_symbol = (IF t.Goal_symbol_is_next THEN u.lhs ELSE t.Goal_symbol)
    BY <1>15 DEF NontermMade
  <2>. HIDE DEF v
  <2>2. /\ u.Field_name = t.Field_name /\ u.Precedence = t.Precedence
        /\ u.Cur_term = t.Cur_term /\ u.yynerrs = t.yynerrs /\ u.status = t.status
        /\ u.productions = t.productions /\ u.Num_productions = t.Num_productions
    BY <2>1 DEF Only, TableFields, InitParts
  <2>3. x \notin Known(s, h) /\ ~IsTerminalName(s, x) /\ ~IsTerm(v) /\ v # NULL
    BY <1>10, <2>1, TermSymbols, Limits
  <2>4. u.lhs # NULL /\ u.symbols[u.lhs].name = x
    BY <2>1, <2>3 DEF NewName
  <2>5. NamesRead(s, h + 1, u)
    BY <1>1, <1>4, <2>1, <2>2, <2>3, NamesNew DEF x
  <2>6. BodyRead(s, h + 1, u, place2)
    BY <1>13, <2>1, <2>2, <2>3, <2>4, <2>5
  <2>. QED
    BY <1>8, <2>2, <2>6 DEF place2
<1>. QED
  BY <1>8, <1>11, <1>12, <1>14, <1>15

\* A token that brings no name to the rules.
LEMMA NoNameInRule ==
  ASSUME NEW s, IsFile(s), NEW h \in Rules(s), NEW t, Sound(t), SymbolsRead(s, h, t),
         h \notin Namings(s), NamesFit(s, h + 1),
         NEW u, Grows(t, u), Named(u) = Named(t), u.Field_name = t.Field_name,
         u.Precedence = t.Precedence, u.Cur_term = t.Cur_term
  PROVE  SymbolsRead(s, h + 1, u)
<1>1. /\ h \in 1 .. Len(s) /\ h \notin Defs(s) /\ \A keywords : h \notin Listed(s, keywords)
  BY RulesHere
<1>2. FieldBefore(s, h + 1) = FieldBefore(s, h)
  BY <1>1, FieldNext
<1>3. t.Field_name = FieldBefore(s, h)
  BY DEF SymbolsRead, NamesRead
<1>4. u.Field_name = FieldBefore(s, h + 1)
  BY <1>2, <1>3
<1>. QED
  BY <1>1, <1>4, SymbolsStay

LEMMA LhsSeen ==
  ASSUME NEW s, IsFile(s), NEW h \in 1 .. Len(s) + 1, NEW t, Sound(t), GoalKept(t),
         NEW place \in {"colon"} \cup RhsPlaces, BodyRead(s, h, t, place)
  PROVE  t.lhs # NULL
<1>1. /\ RulesRead(s, h, t) /\ RulesSoFar(s, h, place)
      /\ place \in RhsPlaces => AtRhs(s, h, t)
  BY BodyHere
<1>2. Len(s) \in Nat
  BY FileFacts
<1>3. CASE place = "colon"
  <2>1. IsLhs(s, h - 1)
    BY <1>1, <1>3 DEF RulesSoFar
  <2>2. h - 1 \in Lhss(s) /\ h - 1 < h
    BY <1>2, <2>1 DEF IsLhs, Lhss
  <2>3. Until(Lhss(s), h) # {}
    BY <2>2 DEF Until
  <2>. QED
    BY <1>1, <2>3 DEF RulesRead
<1>4. CASE place \in RhsPlaces
  <2>1. Until(Starts(s), h) # {} /\ t.Num_productions = Cardinality(Until(Starts(s), h))
    BY <1>1, <1>4 DEF AtRhs, RulesRead
  <2>2. IsFiniteSet(Until(Starts(s), h)) /\ Cardinality(Until(Starts(s), h)) \in Nat
    BY PositionsInFile, UntilHere
  <2>3. Cardinality(Until(Starts(s), h)) # 0
    BY <2>1, <2>2, FS_EmptySet
  <2>4. t.Num_productions > 0
    BY <2>1, <2>2, <2>3
  <2>. QED
    BY <2>4 DEF GoalKept
<1>. QED
  BY <1>3, <1>4

\* new_rhs() behind a colon or a bar.
LEMMA ReadStart ==
  ASSUME NEW s, IsFile(s), NEW h \in 1 .. Len(s) + 1,
         NEW t, Sound(t), GoalKept(t), NEW place, BodyRead(s, h, t, place),
         \/ place = "colon" /\ KindAt(s, h) = "COLON"
         \/ place = "right_side" /\ KindAt(s, h) = "OR",
         NEW u, u = new_rhs(t)
  PROVE  /\ NoFewer(t, u)
         /\ \/ Failed(t, u) /\ ~AcceptedFile(s)
            \/ /\ u.yynerrs = t.yynerrs /\ u.status = t.status
               /\ BodyRead(s, h + 1, u, "rhs")
<1>. DEFINE place2 == "rhs"
<1>1. /\ SymbolsRead(s, h, t) /\ RulesRead(s, h, t) /\ RulesSoFar(s, h, place)
      /\ h \in Rules(s) /\ h \in 1 .. Len(s)
  BY BodyHere
<1>2. place \in {"colon"} \cup RhsPlaces /\ place2 = "rhs" /\ place2 \in RhsPlaces
  BY DEF RhsPlaces
<1>. HIDE DEF place2
<1>3. t.lhs # NULL
  BY <1>2, LhsSeen
<1>4. /\ place = "colon" => IsLhs(s, h - 1)
      /\ place = "right_side" => AfterObject(s, h)
  BY <1>1 DEF RulesSoFar
<1>5. RuleFits(s, h) /\ ~IsLhs(s, h)
  BY <1>4 DEF RuleFits, IsLhs, AfterObject
<1>6. /\ h \in Starts(s) /\ h \notin Lhss(s) /\ h \notin PrecNames(s) /\ h \notin Objects(s)
      /\ h \notin Namings(s)
  BY <1>1, <1>5, RulesHere
<1>7. RulesSoFar(s, h + 1, place2)
  BY <1>1, <1>2, <1>5, RulesNext
<1>8. NamesFit(s, h + 1)
  BY <1>1, NoNameHere DEF SymbolsRead
<1>9. /\ NoFewer(t, u)
      /\ \/ t.Num_productions >= MAXPROD /\ Failed(t, u)
         \/ t.Num_productions < MAXPROD /\ ProductionMade(t, u)
  BY <1>3, NewRhsDoes
<1>10. CASE t.Num_productions >= MAXPROD /\ Failed(t, u)
  <2>1. /\ Cardinality(Until(Starts(s), h)) < Cardinality(Starts(s))
        /\ Cardinality(Until(Starts(s), h)) \in Nat
    BY <1>6, PositionsInFile, UntilHere
  <2>2. t.Num_productions = Cardinality(Until(Starts(s), h))
    BY <1>1 DEF RulesRead
  <2>3. Cardinality(Starts(s)) \in Nat
    BY <1>6, NumberFacts
  <2>4. ~(Cardinality(Starts(s)) <= MAXPROD)
    BY <1>10, <2>1, <2>2, <2>3, Limits
  <2>5. ~AcceptedFile(s)
    BY <2>4 DEF AcceptedFile, CorrectNames
  <2>. QED
    BY <1>9, <1>10, <2>5
<1>11. CASE t.Num_productions < MAXPROD /\ ProductionMade(t, u)
  <2>1. /\ u.Field_name = t.Field_name /\ u.Precedence = t.Precedence
        /\ u.Cur_term = t.Cur_term /\ u.yynerrs = t.yynerrs /\ u.status = t.status
        /\ Grows(t, u) /\ Named(u) = Named(t)
    BY <1>11 DEF ProductionMade, Only, TableFields, Named
  <2>2. SymbolsRead(s, h + 1, u)
    BY <1>1, <1>6, <1>8, <2>1, NoNameInRule
  <2>3. RulesRead(s, h + 1, u) /\ AtRhs(s, h + 1, u)
    BY <1>1, <1>3, <1>6, <1>11, RulesStart
  <2>4. BodyRead(s, h + 1, u, place2)
    BY <1>2, <1>7, <2>2, <2>3, BodyNext
  <2>. QED
    BY <1>9, <2>1, <2>4 DEF place2
<1>. QED
  BY <1>9, <1>10, <1>11

\* A token of a right-hand side that leaves the tables alone.
LEMMA ReadInRule ==
  ASSUME NEW s, IsFile(s), NEW h \in 1 .. Len(s) + 1,
         NEW t, Sound(t), GoalKept(t), NEW place, BodyRead(s, h, t, place), NEW place2,
         \/ place = "rhs" /\ KindAt(s, h) = "PREC" /\ place2 = "prec"
         \/ place = "right_side" /\ KindAt(s, h) = "SEMI" /\ place2 = "body"
  PROVE  BodyRead(s, h + 1, t, place2)
<1>1. /\ SymbolsRead(s, h, t) /\ RulesRead(s, h, t) /\ RulesSoFar(s, h, place)
      /\ h \in Rules(s) /\ h \in 1 .. Len(s) /\ AtRhs(s, h, t)
  BY BodyHere DEF RhsPlaces
<1>2. AfterObject(s, h)
  BY <1>1 DEF RulesSoFar
<1>3. RuleFits(s, h) /\ ~IsLhs(s, h)
  BY <1>2 DEF RuleFits, IsLhs, AfterObject
<1>4. /\ h \notin Starts(s) /\ h \notin Lhss(s) /\ h \notin PrecNames(s) /\ h \notin Objects(s)
      /\ h \notin Namings(s)
  BY <1>1, <1>3, RulesHere
<1>5. RulesSoFar(s, h + 1, place2)
  BY <1>1, <1>3, RulesNext
<1>6. NamesFit(s, h + 1)
  BY <1>1, NoNameHere DEF SymbolsRead
<1>7. Grows(t, t)
  BY DEF Grows
<1>8. SymbolsRead(s, h + 1, t)
  BY <1>1, <1>4, <1>6, <1>7, NoNameInRule
<1>9. \A start : h \notin ObjectsOf(s, start) /\ h \notin Giving(s, start)
  BY <1>4, PositionSets
<1>10. RulesRead(s, h + 1, t)
  BY <1>1, <1>4, <1>7, <1>9, RulesStay
<1>11. Until(Starts(s), h + 1) = Until(Starts(s), h)
  BY <1>1, <1>4, PositionsInFile, UntilHere
<1>12. AtRhs(s, h + 1, t)
  BY <1>1, <1>11 DEF AtRhs
<1>13. place2 \in {"body", "colon"} \cup RhsPlaces
  BY DEF RhsPlaces
<1>. QED
  BY <1>5, <1>8, <1>10, <1>12, <1>13, BodyNext

\* add_to_rhs() for an object of a right-hand side.
LEMMA ReadObject ==
  ASSUME NEW s, IsFile(s), NEW h \in 1 .. Len(s) + 1,
         KindAt(s, h) \in {"NAME", "FIELD", "ACTION"},
         NEW t, Sound(t), t.status = "run", InRhs(t), BodyRead(s, h, t, "rhs"),
         NEW u, u = add_to_rhs(t, TextAt(s, h), KindAt(s, h) = "ACTION")
  PROVE  /\ NoFewer(t, u)
         /\ \/ Failed(t, u) /\ ~AcceptedFile(s)
            \/ /\ u.yynerrs = t.yynerrs /\ u.status = t.status
               /\ BodyRead(s, h + 1, u, "rhs")
<1>. DEFINE x == TextAt(s, h)
            kind == KindAt(s, h)
            place == "rhs"
            now == Max(Until(Starts(s), h))
<1>1. /\ SymbolsRead(s, h, t) /\ NamesFit(s, h) /\ NamesRead(s, h, t) /\ PrecsRead(s, h, t)
      /\ RulesRead(s, h, t) /\ RulesSoFar(s, h, place)
      /\ t.Field_name = FieldBefore(s, h)
      /\ h \in Rules(s) /\ h \in 1 .. Len(s) /\ h \notin Defs(s) /\ AtRhs(s, h, t)
  BY BodyHere DEF RhsPlaces
<1>2. AfterObject(s, h)
  BY <1>1 DEF RulesSoFar
<1>3. RuleFits(s, h) /\ ~IsLhs(s, h) /\ KindAt(s, h - 1) # "PREC"
  BY <1>2 DEF RuleFits, IsLhs, AfterObject
<1>4. /\ h \in Objects(s) /\ h \notin Starts(s) /\ h \notin Lhss(s) /\ h \notin PrecNames(s)
      /\ \A keywords : h \notin Listed(s, keywords)
      /\ h \in Namings(s) <=> kind # "ACTION"
  BY <1>1, <1>3, RulesHere
<1>5. place = "rhs" /\ place \in RhsPlaces
  BY DEF RhsPlaces
<1>. HIDE DEF place
<1>6. RulesSoFar(s, h + 1, place)
  BY <1>1, <1>3, <1>5, RulesNext
<1>7. NamesFit(s, h + 1) /\ FieldBefore(s, h + 1) = FieldBefore(s, h)
  BY <1>1, <1>4, NamesFitNext, FieldNext
<1>8. /\ NoFewer(t, u)
      /\ \/ kind # "ACTION" /\ Found(t, x) = NULL /\ t.Cur_nonterm = MAXNONTERM /\ Failed(t, u)
         \/ t.productions[t.rhs].rhs_len >= MAXRHS /\ Failed(t, u)
         \/ /\ t.productions[t.rhs].rhs_len < MAXRHS
            /\ \E known, v : SymbolFor(t, known, v, x, kind) /\ LongerBy(t, known, u, v)
  BY AddToRhsDoes
<1>9. CASE kind # "ACTION" /\ Found(t, x) = NULL /\ t.Cur_nonterm = MAXNONTERM /\ Failed(t, u)
  <2>1. x \notin Known(s, h) /\ h \in Namings(s)
    BY <1>1, <1>4, <1>9, NameFound
  <2>2. ~IsTerminalName(s, x)
    BY <1>4, <2>1, FirstNamedHere
  <2>3. ~AcceptedFile(s)
    BY <1>1, <1>9, <2>1, <2>2, TableFull
  <2>. QED
    BY <1>8, <1>9, <2>3
<1>10. CASE t.productions[t.rhs].rhs_len >= MAXRHS /\ Failed(t, u)
  <2>1. /\ now \in Starts(s) /\ now \in Until(Starts(s), h)
        /\ h \in ObjectsOf(s, now) /\ t.rhs = Number(s, now)
    <3>1. now \in Starts(s) /\ now < h /\ h \in ObjectsOf(s, now) /\ now \in 1 .. Len(s)
      BY <1>1, <1>4, ObjectHere DEF AtRhs
    <3>2. t.rhs = Number(s, now)
      BY <1>1 DEF AtRhs
    <3>. QED
      BY <3>1, <3>2 DEF Until
  <2>. HIDE DEF now
  <2>2. t.productions[t.rhs].rhs_len = Cardinality(Until(ObjectsOf(s, now), h))
    BY <1>1, <2>1 DEF RulesRead, ProductionRead
  <2>3. /\ Cardinality(Until(ObjectsOf(s, now), h)) < Cardinality(ObjectsOf(s, now))
        /\ Cardinality(Until(ObjectsOf(s, now), h)) \in Nat
    BY <2>1, PositionsInFile, UntilHere
  <2>4. Cardinality(ObjectsOf(s, now)) \in Nat
    BY <2>1, PlaceFacts
  <2>5. ~(Cardinality(ObjectsOf(s, now)) <= MAXRHS)
    BY <1>10, <2>2, <2>3, <2>4, Limits
  <2>6. ~AcceptedFile(s)
    BY <2>1, <2>5 DEF AcceptedFile, CorrectNames
  <2>. QED
    BY <1>8, <1>10, <2>6
<1>11. ASSUME NEW known, NEW v, SymbolFor(t, known, v, x, kind), LongerBy(t, known, u, v)
       PROVE  /\ u.yynerrs = t.yynerrs /\ u.status = t.status
              /\ BodyRead(s, h + 1, u, place)
  <2>1. ObjectSymbol(s, h, t, known, v)
    BY <1>1, <1>4, <1>11, SymbolForFacts
  <2>2. /\ Grows(t, known) /\ v \in DOMAIN known.symbols
        /\ kind # "ACTION" /\ Found(t, x) = NULL => NewName(t, known, v, x) /\ ~IsTerm(v)
        /\ kind = "ACTION" \/ Found(t, x) # NULL => Named(known) = Named(t)
        /\ Only(t, known, {"symbols", "Cur_act", "Cur_nonterm"})
    BY <2>1 DEF ObjectSymbol
  <2>3. /\ Only(known, u, {"symbols", "productions"}) /\ DOMAIN u.symbols = DOMAIN known.symbols
        /\ Grows(known, u)
    BY <1>11 DEF LongerBy
  <2>4. /\ u.Field_name = t.Field_name /\ u.Precedence = t.Precedence
        /\ u.Cur_term = t.Cur_term /\ u.yynerrs = t.yynerrs /\ u.status = t.status
    BY <2>2, <2>3 DEF Only, TableFields
  <2>5. Grows(t, u) /\ Named(u) = Named(known)
    BY <2>2, <2>3 DEF Grows, Named
  <2>6. \A w \in 1 .. MAXTERM : w <= t.Cur_term => u.symbols[w].name = t.symbols[w].name
    BY <2>5, TermSymbols DEF Grows, Named
  <2>7. PrecsRead(s, h + 1, u)
    BY <1>1, <1>4, <2>4, <2>6, PrecsStay
  <2>8. NamesRead(s, h + 1, u)
    <3>1. CASE kind = "ACTION" \/ Found(t, x) # NULL
      <4>1. h \notin Namings(s) \/ x \in Known(s, h)
        BY <1>1, <1>4, <3>1, NameFound
      <4>2. Named(u) = Named(t) /\ u.Field_name = FieldBefore(s, h + 1)
        BY <1>1, <1>7, <2>2, <2>4, <2>5, <3>1
      <4>. QED
        BY <1>1, <2>5, <4>1, <4>2, NamesStay
    <3>2. CASE kind # "ACTION" /\ Found(t, x) = NULL
      <4>1. h \in Namings(s) /\ x \notin Known(s, h)
        BY <1>1, <1>4, <3>2, NameFound
      <4>2. NewName(t, known, v, x) /\ ~IsTerm(v) /\ h \notin Listed(s, TermKeywords)
        BY <1>4, <2>2, <3>2
      <4>3. NewName(t, u, v, x)
        <5>1. v \in DOMAIN known.symbols
          BY <2>2
        <5>. QED
          BY <2>3, <2>5, <4>2, <5>1 DEF NewName, Grows
      <4>. QED
        BY <1>1, <2>4, <4>1, <4>2, <4>3, NamesNew
    <3>. QED
      BY <3>1, <3>2
  <2>9. SymbolsRead(s, h + 1, u)
    BY <1>7, <2>7, <2>8 DEF SymbolsRead
  <2>10. RulesRead(s, h + 1, u) /\ AtRhs(s, h + 1, u)
    BY <1>1, <1>4, <1>11, RulesObject
  <2>11. BodyRead(s, h + 1, u, place)
    BY <1>5, <1>6, <2>9, <2>10, BodyNext
  <2>. QED
    BY <2>4, <2>11
<1>. QED
  BY <1>8, <1>9, <1>10, <1>11 DEF place

\* prec() for the name behind %prec.
LEMMA ReadPrec ==
  ASSUME NEW s, IsFile(s), NEW h \in 1 .. Len(s) + 1, KindAt(s, h) = "NAME",
         NEW t, Sound(t), t.status = "run", InRhs(t), BodyRead(s, h, t, "prec"),
         NEW u, u = prec(t, TextAt(s, h))
  PROVE  /\ NoFewer(t, u)
         /\ \/ Failed(t, u) /\ ~AcceptedFile(s)
            \/ /\ u.yynerrs = t.yynerrs /\ u.status = t.status
               /\ BodyRead(s, h + 1, u, "rhs")
<1>. DEFINE x == TextAt(s, h)
            place == "prec"
            place2 == "rhs"
<1>1. /\ SymbolsRead(s, h, t) /\ NamesFit(s, h) /\ NamesRead(s, h, t) /\ PrecsRead(s, h, t)
      /\ RulesRead(s, h, t) /\ RulesSoFar(s, h, place)
      /\ h \in Rules(s) /\ h \in 1 .. Len(s) /\ AtRhs(s, h, t)
      /\ \A i \in Defs(s) : i < h
  BY BodyHere DEF RhsPlaces
<1>2. KindAt(s, h - 1) = "PREC"
  BY <1>1 DEF RulesSoFar
<1>3. RuleFits(s, h) /\ ~IsLhs(s, h)
  BY <1>2 DEF RuleFits, IsLhs
<1>4. /\ h \in PrecNames(s) /\ h \notin Starts(s) /\ h \notin Lhss(s) /\ h \notin Objects(s)
      /\ \A keywords : h \notin Listed(s, keywords)
      /\ h \notin Namings(s)
  BY <1>1, <1>2, <1>3, RulesHere
<1>5. place2 = "rhs" /\ place2 \in RhsPlaces
  BY DEF RhsPlaces
<1>. HIDE DEF place, place2
<1>6. RulesSoFar(s, h + 1, place2)
  BY <1>1, <1>3, <1>5, RulesNext
<1>7. /\ NoFewer(t, u)
      /\ \/ x \in DOMAIN Numerals /\ PrecGiven(t, u, Numerals[x])
         \/ x \notin DOMAIN Numerals /\ ~IsTerm(Found(t, x)) /\ Failed(t, u)
         \/ x \notin DOMAIN Numerals /\ IsTerm(Found(t, x))
            /\ PrecGiven(t, u, t.Precedence[Found(t, x)].level)
  BY PrecDoes
<1>. HIDE DEF x
<1>8. x \in Terminals(s) <=> IsTerm(Found(t, x))
  <2>1. ASSUME x \in Terminals(s)
        PROVE  IsTerm(Found(t, x))
    <3>1. IsTerminalName(s, x)
      BY <2>1 DEF Terminals
    <3>2. PICK i \in Listed(s, TermKeywords) : TextAt(s, i) = x
      BY <3>1 DEF IsTerminalName
    <3>3. i \in Namings(s) /\ i < h
      <4>1. i \in Defs(s) /\ i \in Listed(s, ListKeywords)
        BY PositionSets DEF Listed, ListKeywords, Positions
      <4>. QED
        BY <1>1, <4>1 DEF Namings
    <3>4. x \in Known(s, h)
      BY <3>2, <3>3 DEF Known, Until
    <3>. QED
      BY <1>1, <3>1, <3>4, NameFound
  <2>2. ASSUME IsTerm(Found(t, x))
        PROVE  x \in Terminals(s)
    <3>1. x \in Known(s, h) /\ IsTerminalName(s, x)
      BY <1>1, <2>2, NameFound
    <3>. QED
      BY <1>1, <3>1, NamesFinite DEF Terminals
  <2>. QED
    BY <2>1, <2>2
<1>9. CASE x \notin DOMAIN Numerals /\ ~IsTerm(Found(t, x)) /\ Failed(t, u)
  <2>1. ~AcceptedFile(s)
    BY <1>4, <1>8, <1>9, NamesMustFit DEF x
  <2>. QED
    BY <1>7, <1>9, <2>1
<1>10. ASSUME NEW level, PrecGiven(t, u, level),
              \/ x \in DOMAIN Numerals /\ level = Numerals[x]
              \/ /\ x \notin DOMAIN Numerals /\ IsTerm(Found(t, x))
                 /\ level = t.Precedence[Found(t, x)].level
       PROVE  u.yynerrs = t.yynerrs /\ u.status = t.status /\ BodyRead(s, h + 1, u, place2)
  <2>1. /\ u.Field_name = t.Field_name /\ u.Precedence = t.Precedence
        /\ u.Cur_term = t.Cur_term /\ u.yynerrs = t.yynerrs /\ u.status = t.status
        /\ u.symbols = t.symbols
    BY <1>10 DEF PrecGiven, Only, TableFields
  <2>2. Grows(t, u) /\ Named(u) = Named(t)
    BY <2>1 DEF Grows, Named
  <2>3. NamesFit(s, h + 1)
    BY <1>1, <1>4, <1>8, <1>10, NamesFitNext DEF x
  <2>4. SymbolsRead(s, h + 1, u)
    BY <1>1, <1>4, <2>1, <2>2, <2>3, NoNameInRule
  <2>5. RulesRead(s, h + 1, u) /\ AtRhs(s, h + 1, u)
    BY <1>1, <1>4, <1>10, RulesPrec DEF x
  <2>6. BodyRead(s, h + 1, u, place2)
    BY <1>5, <1>6, <2>4, <2>5, BodyNext
  <2>. QED
    BY <2>1, <2>6
<1>. QED
  BY <1>7, <1>9, <1>10 DEF place2

\* At the end of the rules, everything is behind the parser.
LEMMA AllBehind ==
  ASSUME NEW s, IsFile(s), NEW h \in 1 .. Len(s) + 1,
         \A i \in Defs(s) : i < h, h = RulesEnd(s), NEW S, S \in SUBSET (Defs(s) \cup Rules(s))
  PROVE  Until(S, h) = S
<1>1. \A i \in Rules(s) : i < h
  BY FileFacts, Ends DEF Rules
<1>2. \A i \in S : i < h
  BY <1>1
<1>. QED
  BY <1>2 DEF Until

\* body() returns without an error where the file is correct.
LEMMA RulesDone ==
  ASSUME NEW s, IsFile(s), NEW h \in 1 .. Len(s) + 1, NEW t, Sound(t),
         BodyRead(s, h, t, "body"), KindAt(s, h) \in {"SEPARATOR", "EOI"}
  PROVE  h = RulesEnd(s) /\ AcceptedFile(s)
<1>. DEFINE place == "body"
<1>1. /\ SymbolsRead(s, h, t) /\ NamesFit(s, h) /\ NamesRead(s, h, t)
      /\ RulesRead(s, h, t) /\ RulesSoFar(s, h, place)
      /\ h = RulesEnd(s)
      /\ \A i \in Defs(s) : i < h
  BY BodyHere
<1>2. /\ AcceptedDefinitions(s)
      /\ \A i \in Rules(s) : RuleFits(s, i)
      /\ DefsEnd(s) > Len(s) \/ KindAt(s, h - 1) \in {"SEPARATOR", "SEMI"}
  BY <1>1 DEF RulesSoFar, Rules
<1>. HIDE DEF place
<1>3. DefsEnd(s) \in 1 .. Len(s) + 1 /\ Len(s) \in Nat
  BY FileFacts, Ends
<1>4. AcceptedRules(s)
  BY <1>1, <1>2, <1>3 DEF AcceptedRules
<1>5. /\ \A keywords : Until(Listed(s, keywords), h) = Listed(s, keywords)
      /\ Until(Listed(s, {"TYPE"}) \cup Lhss(s), h) = Listed(s, {"TYPE"}) \cup Lhss(s)
      /\ Until(PrecNames(s), h) = PrecNames(s)
      /\ Until(Starts(s), h) = Starts(s)
      /\ Until(Namings(s), h) = Namings(s)
      /\ \A start : Until(ObjectsOf(s, start), h) = ObjectsOf(s, start)
  <2>1. /\ \A keywords : Listed(s, keywords) \in SUBSET (Defs(s) \cup Rules(s))
        /\ Listed(s, {"TYPE"}) \cup Lhss(s) \in SUBSET (Defs(s) \cup Rules(s))
        /\ PrecNames(s) \in SUBSET (Defs(s) \cup Rules(s))
        /\ Starts(s) \in SUBSET (Defs(s) \cup Rules(s))
        /\ Namings(s) \in SUBSET (Defs(s) \cup Rules(s))
        /\ \A start : ObjectsOf(s, start) \in SUBSET (Defs(s) \cup Rules(s))
    BY PositionSets
  <2>. QED
    BY <1>1, <2>1, AllBehind
<1>6. /\ \A i \in Listed(s, TermKeywords) : TextAt(s, i) \in CIdentifiers
      /\ \A i \in Listed(s, PrecKeywords) : IsTerminalName(s, TextAt(s, i))
      /\ \A i \in Listed(s, {"TYPE"}) \cup Lhss(s) : ~IsTerminalName(s, TextAt(s, i))
      /\ \A i \in PrecNames(s) : TextAt(s, i) \in Terminals(s) \cup DOMAIN Numerals
  BY <1>1, <1>5 DEF NamesFit
<1>7. ASSUME NEW start \in Starts(s)
      PROVE  Cardinality(ObjectsOf(s, start)) <= MAXRHS
  <2>. DEFINE prod == t.productions[Number(s, start)]
  <2>1. start \in Until(Starts(s), h)
    BY <1>5, <1>7
  <2>2. IsProduction(t, prod)
    BY <1>1, <2>1, ReadSoFar
  <2>3. ProductionRead(s, h, t, start)
    BY <1>1, <2>1 DEF RulesRead
  <2>4. prod.rhs_len = Cardinality(ObjectsOf(s, start)) /\ prod.rhs_len = Len(prod.rhs)
    BY <1>5, <2>3 DEF ProductionRead
  <2>. HIDE DEF prod
  <2>. QED
    BY <2>2, <2>4 DEF IsProduction
<1>8. Known(s, h) = Names(s)
  BY <1>5 DEF Known, Names
<1>9. /\ Terminals(s) \cap Known(s, h) = Terminals(s)
      /\ Nonterminals(s) \cap Known(s, h) = Nonterminals(s)
  BY <1>8 DEF Terminals, Nonterminals
<1>10. /\ t.Cur_term = Cardinality(Terminals(s))
       /\ t.Cur_nonterm = MINNONTERM - 1 + Cardinality(Nonterminals(s))
  BY <1>1, <1>9, NamesCounted
<1>11. Cardinality(Terminals(s)) \in Nat /\ Cardinality(Nonterminals(s)) \in Nat
  BY NamesFinite
<1>12. t.Cur_term <= MAXTERM /\ t.Cur_nonterm <= MAXNONTERM
  BY Limits DEF Sound, Numbers
<1>13. /\ Cardinality(Terminals(s)) <= MAXTERM
       /\ Cardinality(Nonterminals(s)) <= MAXNONTERM - MINNONTERM + 1
  BY <1>10, <1>11, <1>12, Limits
<1>14. Cardinality(Starts(s)) <= MAXPROD
  BY <1>1, <1>5 DEF RulesRead
<1>. QED
  BY <1>1, <1>2, <1>4, <1>6, <1>7, <1>13, <1>14 DEF AcceptedFile, CorrectNames

\* The steps of body().
LEMMA ReadBody ==
  ASSUME input \in Files, Sound(tables), Phase(tables, pc), tables.yynerrs = 0, InRules,
         LeftHandSide \/ IllegalLeftHandSide \/ Colon \/ BodyEnd
  PROVE  ReadOn'
<1>0. IsFile(input) /\ Len(input) \in Nat /\ input' = input
  BY FilesRead DEF LeftHandSide, IllegalLeftHandSide, Colon, BodyEnd, CallLookfor
<1>1. PICK h \in 1 .. Len(input) + 1 : At(input, h) /\ BodyRead(input, h, tables, pc)
  BY DEF InRules
<1>2. /\ Kind = KindAt(input, h)
      /\ Kind = "EOI" <=> h = Len(input) + 1
      /\ h <= Len(input) => Text = TextAt(input, h)
  BY <1>0, <1>1, AtFacts
<1>3. ASSUME Advance, Kind # "EOI"
      PROVE  h + 1 \in 1 .. Len(input) + 1 /\ At(input, h + 1)'
  BY <1>0, <1>1, <1>2, <1>3, Advanced
<1>4. Failed(tables, NonFatal(tables)) /\ tables.yynerrs \in Nat /\ tables.status = "run"
  BY ErrorsCounted DEF Phase
<1>5. CASE LeftHandSide
  <2>1. pc = "body" /\ Kind = "NAME" /\ Advance /\ Text = TextAt(input, h)
    BY <1>0, <1>2, <1>5 DEF LeftHandSide
  <2>2. tables' = new_nonterm(tables, TextAt(input, h), TRUE)
        /\ (tables'.status = "run" => pc' = "colon")
    BY <1>5, <2>1 DEF LeftHandSide, Call
  <2>3. PICK is_lhs \in BOOLEAN : is_lhs = TRUE
    OBVIOUS
  <2>4. PICK u : u = new_nonterm(tables, TextAt(input, h), is_lhs) /\ u = tables'
    BY <2>2, <2>3
  <2>5. GoalKept(tables) /\ BodyRead(input, h, tables, "body") /\ KindAt(input, h) = "NAME"
    BY <1>1, <1>2, <2>1 DEF Phase, BodyPlaces, InBody
  <2>6. \/ Failed(tables, u) /\ ~AcceptedFile(input)
        \/ /\ u.yynerrs = tables.yynerrs /\ u.status = tables.status
           /\ BodyRead(input, h + 1, u, "colon")
    BY <1>0, <2>3, <2>4, <2>5, ReadLhs
  <2>7. CASE Failed(tables, u) /\ ~AcceptedFile(input)
    BY <1>0, <1>4, <2>4, <2>7, WrongNow DEF ReadOn
  <2>8. CASE ~(Failed(tables, u) /\ ~AcceptedFile(input))
    <3>1. h + 1 \in 1 .. Len(input) + 1 /\ At(input, h + 1)'
      BY <1>3, <2>1
    <3>2. tables'.yynerrs = 0 /\ BodyRead(input, h + 1, tables', pc')
      BY <1>4, <2>2, <2>4, <2>6, <2>8
    <3>. QED
      BY <1>0, <3>1, <3>2, RulesOn
  <2>. QED
    BY <2>7, <2>8
<1>6. CASE IllegalLeftHandSide
  <2>1. /\ pc = "body" /\ Kind \notin {"NAME", "SEPARATOR", "EOI"}
        /\ tables' = NonFatal(tables)
    BY <1>6 DEF IllegalLeftHandSide, CallLookfor
  <2>2. ~AcceptedFile(input)
    BY <1>0, <1>1, <1>2, <2>1, RulesIllegal
  <2>. QED
    BY <1>0, <1>4, <2>1, <2>2, WrongNow DEF ReadOn
<1>7. CASE Colon
  <2>1. pc = "colon" /\ GoalKept(tables)
    BY <1>7 DEF Colon, Phase
  <2>2. CASE Kind = "COLON"
    <3>1. /\ Advance /\ tables' = new_rhs(tables) /\ (tables'.status = "run" => pc' = "rhs")
      BY <1>7, <2>2 DEF Colon, Call
    <3>2. \/ Failed(tables, tables') /\ ~AcceptedFile(input)
          \/ /\ tables'.yynerrs = tables.yynerrs /\ tables'.status = tables.status
             /\ BodyRead(input, h + 1, tables', "rhs")
      <4>1. BodyRead(input, h, tables, pc) /\ KindAt(input, h) = "COLON"
        BY <1>1, <1>2, <2>2
      <4>. QED
        BY <1>0, <2>1, <3>1, <4>1, ReadStart
    <3>3. CASE Failed(tables, tables') /\ ~AcceptedFile(input)
      BY <1>0, <1>4, <3>3, WrongNow DEF ReadOn
    <3>4. CASE ~(Failed(tables, tables') /\ ~AcceptedFile(input))
      <4>1. h + 1 \in 1 .. Len(input) + 1 /\ At(input, h + 1)'
        BY <1>3, <2>2, <3>1
      <4>2. tables'.yynerrs = 0 /\ BodyRead(input, h + 1, tables', pc')
        BY <1>4, <3>1, <3>2, <3>4
      <4>. QED
        BY <1>0, <4>1, <4>2, RulesOn
    <3>. QED
      BY <3>3, <3>4
  <2>3. CASE Kind # "COLON"
    <3>1. tables' = new_rhs(NonFatal(tables))
      BY <1>7, <2>3 DEF Colon, Call
    <3>2. Sound(NonFatal(tables))
      BY NonFatalSound
    <3>. DEFINE r == NonFatal(tables)
    <3>3. NoFewer(tables, r) /\ Failed(tables, r) /\ Sound(r) /\ tables' = new_rhs(r)
      BY <3>1, <3>2, ErrorsCounted
    <3>. HIDE DEF r
    <3>4. NoFewer(r, tables')
      BY <3>3, NewRhsDoes
    <3>5. Failed(tables, tables')
      BY <1>4, <3>3, <3>4, NoFewerTwice
    <3>6. ~AcceptedFile(input)
      BY <1>0, <1>1, <1>2, <2>1, <2>3, RulesIllegal
    <3>. QED
      BY <1>0, <1>4, <3>5, <3>6, WrongNow DEF ReadOn
  <2>. QED
    BY <2>2, <2>3
<1>8. CASE BodyEnd
  <2>1. /\ pc = "body" /\ Kind \in {"SEPARATOR", "EOI"} /\ tables' = tables /\ pc' = "parsed"
    BY <1>4, <1>8 DEF BodyEnd, Call
  <2>2. BodyRead(input, h, tables, "body")
    BY <1>1, <2>1
  <2>3. h = RulesEnd(input) /\ AcceptedFile(input)
    BY <1>0, <1>2, <2>1, <2>2, RulesDone
  <2>4. /\ NamesRead(input, RulesEnd(input), tables) /\ PrecsRead(input, RulesEnd(input), tables)
        /\ RulesRead(input, RulesEnd(input), tables)
    BY <1>1, <2>3 DEF BodyRead
  <2>5. AllRead'
    BY <1>0, <2>1, <2>3, <2>4 DEF AllRead
  <2>. QED
    BY <2>1, <2>5 DEF ReadOn
<1>. QED
  BY <1>5, <1>6, <1>7, <1>8

\* A call that has understood a token of the rules, or found an error of the file.
LEMMA CallRead ==
  ASSUME input \in Files, input' = input, tables.yynerrs = 0, tables.status = "run",
         NEW h \in Nat, h + 1 \in 1 .. Len(input) + 1, At(input, h + 1)',
         NEW place2, tables'.status = "run" => pc' = place2,
         \/ Failed(tables, tables') /\ ~AcceptedFile(input)
         \/ /\ tables'.yynerrs = tables.yynerrs /\ tables'.status = tables.status
            /\ BodyRead(input, h + 1, tables', place2)
  PROVE  ReadOn'
<1>1. CASE Failed(tables, tables') /\ ~AcceptedFile(input)
  BY <1>1, WrongNow DEF ReadOn
<1>2. CASE ~(Failed(tables, tables') /\ ~AcceptedFile(input))
  <2>1. tables'.yynerrs = 0 /\ BodyRead(input, h + 1, tables', pc')
    BY <1>2
  <2>. QED
    BY <2>1, RulesOn
<1>. QED
  BY <1>1, <1>2

\* The steps of rhs() and right_side().
LEMMA ReadRhs ==
  ASSUME input \in Files, Sound(tables), Phase(tables, pc), tables.yynerrs = 0, InRules,
         \/ RhsObject \/ PrecKeyword \/ PrecName \/ IllegalPrec
         \/ RhsEnd \/ IllegalRhs \/ NextRhs \/ RuleEnd
  PROVE  ReadOn'
<1>0. IsFile(input) /\ Len(input) \in Nat /\ input' = input
  BY FilesRead DEF RhsObject, PrecKeyword, PrecName, IllegalPrec, RhsEnd, IllegalRhs,
                   NextRhs, RuleEnd, CallLookfor
<1>1. PICK h \in 1 .. Len(input) + 1 : At(input, h) /\ BodyRead(input, h, tables, pc)
  BY DEF InRules
<1>2. /\ Kind = KindAt(input, h)
      /\ Kind = "EOI" <=> h = Len(input) + 1
      /\ h <= Len(input) => Text = TextAt(input, h)
      /\ h \in Nat
  BY <1>0, <1>1, AtFacts
<1>3. ASSUME Advance, Kind # "EOI"
      PROVE  h + 1 \in 1 .. Len(input) + 1 /\ At(input, h + 1)'
  BY <1>0, <1>1, <1>2, <1>3, Advanced
<1>4. Failed(tables, NonFatal(tables)) /\ tables.yynerrs \in Nat /\ tables.status = "run"
  BY ErrorsCounted DEF Phase
<1>5. pc \in RhsPlaces
  BY DEF RhsObject, PrecKeyword, PrecName, IllegalPrec, RhsEnd, IllegalRhs, NextRhs, RuleEnd,
         RhsPlaces
<1>6. InRhs(tables) /\ GoalKept(tables) /\ NoFewer(tables, tables)
  BY <1>5, ErrorsCounted DEF Phase, InRhs
<1>7. CASE RhsObject
  <2>1. /\ pc = "rhs" /\ Kind \in {"NAME", "FIELD", "ACTION"} /\ Advance
        /\ Text = TextAt(input, h)
    BY <1>0, <1>2, <1>7 DEF RhsObject
  <2>2. /\ tables' = add_to_rhs(tables, TextAt(input, h), KindAt(input, h) = "ACTION")
        /\ tables'.status = "run" => pc' = "rhs"
    BY <1>2, <1>7, <2>1 DEF RhsObject, Call
  <2>3. \/ Failed(tables, tables') /\ ~AcceptedFile(input)
        \/ /\ tables'.yynerrs = tables.yynerrs /\ tables'.status = tables.status
           /\ BodyRead(input, h + 1, tables', "rhs")
    <3>1. BodyRead(input, h, tables, "rhs") /\ KindAt(input, h) \in {"NAME", "FIELD", "ACTION"}
      BY <1>1, <1>2, <2>1
    <3>. QED
      BY <1>0, <1>4, <1>6, <2>2, <3>1, ReadObject
  <2>4. h + 1 \in 1 .. Len(input) + 1 /\ At(input, h + 1)'
    BY <1>3, <2>1
  <2>. QED
    BY <1>0, <1>2, <1>4, <2>2, <2>3, <2>4, CallRead
<1>8. CASE PrecKeyword
  <2>1. pc = "rhs" /\ Kind = "PREC" /\ Advance /\ tables' = tables /\ pc' = "prec"
    BY <1>4, <1>8 DEF PrecKeyword, Call
  <2>2. BodyRead(input, h + 1, tables', pc')
    BY <1>0, <1>1, <1>2, <1>6, <2>1, ReadInRule
  <2>3. h + 1 \in 1 .. Len(input) + 1 /\ At(input, h + 1)'
    BY <1>3, <2>1
  <2>. QED
    BY <1>0, <2>1, <2>2, <2>3, RulesOn
<1>9. CASE PrecName
  <2>1. pc = "prec" /\ Kind = "NAME" /\ Advance /\ Text = TextAt(input, h)
    BY <1>0, <1>2, <1>9 DEF PrecName
  <2>2. /\ tables' = prec(tables, TextAt(input, h))
        /\ tables'.status = "run" => pc' = "rhs"
    BY <1>9, <2>1 DEF PrecName, Call
  <2>3. \/ Failed(tables, tables') /\ ~AcceptedFile(input)
        \/ /\ tables'.yynerrs = tables.yynerrs /\ tables'.status = tables.status
           /\ BodyRead(input, h + 1, tables', "rhs")
    <3>1. BodyRead(input, h, tables, "prec") /\ KindAt(input, h) = "NAME"
      BY <1>1, <1>2, <2>1
    <3>. QED
      BY <1>0, <1>4, <1>6, <2>2, <3>1, ReadPrec
  <2>4. h + 1 \in 1 .. Len(input) + 1 /\ At(input, h + 1)'
    BY <1>3, <2>1
  <2>. QED
    BY <1>0, <1>2, <1>4, <2>2, <2>3, <2>4, CallRead
<1>10. CASE IllegalPrec
  <2>1. pc = "prec" /\ Kind # "NAME" /\ tables' = NonFatal(tables)
    BY <1>10 DEF IllegalPrec, CallLookfor
  <2>2. ~AcceptedFile(input)
    BY <1>0, <1>1, <1>2, <2>1, RulesIllegal
  <2>. QED
    BY <1>0, <1>4, <2>1, <2>2, WrongNow DEF ReadOn
<1>11. CASE RhsEnd
  <2>1. /\ pc = "rhs" /\ Kind \in {"OR", "SEMI"} /\ Stay /\ tables' = tables
        /\ pc' = "right_side"
    BY <1>4, <1>11 DEF RhsEnd, Call, EndsRhs
  <2>2. At(input, h)'
    BY <1>0, <1>1, <2>1, Stayed
  <2>3. BodyRead(input, h, tables', pc')
    BY <1>1, <1>2, <2>1 DEF BodyRead, RulesSoFar, RhsPlaces
  <2>. QED
    BY <1>0, <2>1, <2>2, <2>3, RulesOn
<1>12. CASE IllegalRhs
  <2>1. /\ pc = "rhs" /\ Kind \notin {"NAME", "FIELD", "ACTION", "PREC", "OR", "SEMI"}
        /\ tables' = NonFatal(tables)
    BY <1>12 DEF IllegalRhs, CallLookfor, EndsRhs
  <2>2. ~AcceptedFile(input)
    BY <1>0, <1>1, <1>2, <2>1, RulesIllegal
  <2>. QED
    BY <1>0, <1>4, <2>1, <2>2, WrongNow DEF ReadOn
<1>13. CASE NextRhs
  <2>1. /\ pc = "right_side" /\ Kind = "OR" /\ Advance /\ tables' = new_rhs(tables)
        /\ tables'.status = "run" => pc' = "rhs"
    BY <1>13 DEF NextRhs, Call
  <2>2. BodyRead(input, h, tables, pc) /\ KindAt(input, h) = "OR"
    BY <1>1, <1>2, <2>1
  <2>3. \/ Failed(tables, tables') /\ ~AcceptedFile(input)
        \/ /\ tables'.yynerrs = tables.yynerrs /\ tables'.status = tables.status
           /\ BodyRead(input, h + 1, tables', "rhs")
    BY <1>0, <1>6, <2>1, <2>2, ReadStart
  <2>4. h + 1 \in 1 .. Len(input) + 1 /\ At(input, h + 1)'
    BY <1>3, <2>1
  <2>. QED
    BY <1>0, <1>2, <1>4, <2>1, <2>3, <2>4, CallRead
<1>14. CASE RuleEnd
  <2>1. pc = "right_side" /\ Kind # "OR"
    BY <1>14 DEF RuleEnd
  <2>2. Kind = "SEMI"
    BY <1>1, <1>2, <2>1 DEF BodyRead, RulesSoFar
  <2>3. Advance /\ tables' = tables /\ pc' = "body"
    BY <1>4, <1>14, <2>2 DEF RuleEnd, Call
  <2>4. BodyRead(input, h + 1, tables', pc')
    BY <1>0, <1>1, <1>2, <1>6, <2>1, <2>2, <2>3, ReadInRule
  <2>5. h + 1 \in 1 .. Len(input) + 1 /\ At(input, h + 1)'
    BY <1>3, <2>2, <2>3
  <2>. QED
    BY <1>0, <2>3, <2>4, <2>5, RulesOn
<1>. QED
  BY <1>7, <1>8, <1>9, <1>10, <1>11, <1>12, <1>13, <1>14

\* No call takes an error back.
LEMMA ErrorsStay ==
  ASSUME Sound(tables), AtPlace, Parse
  PROVE  NoFewer(tables, tables') /\ input' = input
<1>0. input' = input
  BY DEF Parse, Lookfor, UnionKeyword, UnionAction, NamesKeyword, CodeBlock, IllegalDefinition,
         OneName, OneField, NamesEnd, IllegalName, DefinitionsEnd, LeftHandSide,
         IllegalLeftHandSide, SkippedRule, Colon, RhsObject, PrecKeyword, PrecName, IllegalPrec,
         RhsEnd, IllegalRhs, NextRhs, RuleEnd, BodyEnd, CallLookfor
<1>. SUFFICES NoFewer(tables, tables')
  BY <1>0
<1>1. /\ NoFewer(tables, tables) /\ NoFewer(tables, NonFatal(tables))
      /\ NoFewer(tables, Fatal(tables)) /\ tables.yynerrs \in Nat
  BY ErrorsCounted
<1>2. CASE Lookfor
  BY <1>1, <1>2 DEF Lookfor, Call
<1>3. CASE \/ UnionKeyword \/ CodeBlock \/ NamesEnd \/ SkippedRule \/ PrecKeyword \/ RhsEnd
           \/ BodyEnd
  BY <1>1, <1>3 DEF UnionKeyword, CodeBlock, NamesEnd, SkippedRule, PrecKeyword, RhsEnd,
                    BodyEnd, Call
<1>4. CASE UnionAction \/ IllegalDefinition \/ RuleEnd
  BY <1>1, <1>4 DEF UnionAction, IllegalDefinition, RuleEnd, Call
<1>5. CASE IllegalName \/ IllegalLeftHandSide \/ IllegalPrec \/ IllegalRhs
  BY <1>1, <1>5 DEF IllegalName, IllegalLeftHandSide, IllegalPrec, IllegalRhs, CallLookfor
<1>6. CASE NamesKeyword
  <2>1. \A how : new_lev(tables, how).yynerrs = tables.yynerrs
    BY DEF new_lev, Sound, Numbers, TableFields
  <2>2. /\ Kind = "TYPE" => tables' = tables
        /\ Kind = "TERM_SPEC" => tables' = new_lev(tables, "none")
        /\ Kind \notin {"TYPE", "TERM_SPEC"} => tables' = new_lev(tables, Kind)
    BY <1>6 DEF NamesKeyword, Call
  <2>3. tables'.yynerrs = tables.yynerrs
    BY <2>1, <2>2
  <2>. QED
    BY <1>1, <2>3, NoneFewer
<1>7. CASE OneField \/ DefinitionsEnd
  <2>1. tables'.yynerrs = tables.yynerrs
    BY <1>7 DEF OneField, DefinitionsEnd, Call, new_field, first_sym, Sound, Numbers, TableFields
  <2>. QED
    BY <1>1, <2>1, NoneFewer
<1>8. CASE OneName
  <2>0. tables.status = "run"
    BY <1>8 DEF OneName, AtPlace, Phase
  <2>1. /\ names = "TYPE" => tables' = new_nonterm(tables, Text, FALSE)
        /\ names = "TERM_SPEC" => tables' = make_term(tables, Text)
        /\ names \notin {"TYPE", "TERM_SPEC"} => tables' = prec_list(tables, Text)
    BY <1>8 DEF OneName, Call
  <2>2. CASE names = "TYPE"
    <3>1. PICK is_lhs \in BOOLEAN : is_lhs = FALSE
      OBVIOUS
    <3>2. tables' = new_nonterm(tables, Text, is_lhs)
      BY <2>1, <2>2, <3>1
    <3>. QED
      BY <3>2, NewNontermDoes
  <2>3. CASE names = "TERM_SPEC"
    BY <2>1, <2>3, MakeTermDoes
  <2>4. CASE names \notin {"TYPE", "TERM_SPEC"}
    BY <2>0, <2>1, <2>4, PrecListDoes
  <2>. QED
    BY <2>2, <2>3, <2>4
<1>9. CASE LeftHandSide
  <2>1. PICK is_lhs \in BOOLEAN : is_lhs = TRUE
    OBVIOUS
  <2>2. tables' = new_nonterm(tables, Text, is_lhs)
    BY <1>9, <2>1 DEF LeftHandSide, Call
  <2>. QED
    BY <2>2, NewNontermDoes
<1>10. CASE Colon
  <2>. DEFINE r == IF Kind = "COLON" THEN tables ELSE NonFatal(tables)
  <2>1. tables' = new_rhs(r)
    BY <1>10 DEF Colon, Call
  <2>2. Sound(NonFatal(tables))
    BY NonFatalSound
  <2>3. Sound(r) /\ NoFewer(tables, r)
    BY <1>1, <2>2
  <2>. HIDE DEF r
  <2>4. NoFewer(r, tables')
    BY <2>1, <2>3, NewRhsDoes
  <2>. QED
    BY <1>1, <2>3, <2>4, NoFewerTwice
<1>11. CASE NextRhs
  <2>1. tables' = new_rhs(tables)
    BY <1>11 DEF NextRhs, Call
  <2>. QED
    BY <2>1, NewRhsDoes
<1>12. CASE RhsObject
  <2>1. tables' = add_to_rhs(tables, Text, Kind = "ACTION") /\ pc = "rhs"
    BY <1>12 DEF RhsObject, Call
  <2>2. tables.status = "run" /\ InRhs(tables)
    BY <2>1 DEF AtPlace, Phase, RhsPlaces
  <2>. QED
    BY <2>1, <2>2, AddToRhsDoes
<1>13. CASE PrecName
  <2>1. tables' = prec(tables, Text) /\ pc = "prec"
    BY <1>13 DEF PrecName, Call
  <2>2. InRhs(tables)
    BY <2>1 DEF AtPlace, Phase, RhsPlaces
  <2>. QED
    BY <2>1, <2>2, PrecDoes
<1>. QED
  BY <1>2, <1>3, <1>4, <1>5, <1>6, <1>7, <1>8, <1>9, <1>10, <1>11, <1>12, <1>13
     DEF Parse

\* Each action of the parser belongs to a place.
LEMMA ParserAt ==
  ASSUME Parse
  PROVE  /\ pc \in DefinitionsPlaces \cup {"body", "colon", "skipped", "lookfor"} \cup RhsPlaces
         /\ pc \in DefinitionsPlaces =>
              \/ UnionKeyword \/ UnionAction \/ NamesKeyword \/ CodeBlock \/ IllegalDefinition
              \/ OneName \/ OneField \/ NamesEnd \/ IllegalName \/ DefinitionsEnd
         /\ pc \in {"body", "colon"} =>
              LeftHandSide \/ IllegalLeftHandSide \/ Colon \/ BodyEnd
         /\ pc \in RhsPlaces =>
              \/ RhsObject \/ PrecKeyword \/ PrecName \/ IllegalPrec
              \/ RhsEnd \/ IllegalRhs \/ NextRhs \/ RuleEnd
BY DEF Parse, Lookfor, UnionKeyword, UnionAction, NamesKeyword, CodeBlock, IllegalDefinition,
       OneName, OneField, NamesEnd, IllegalName, DefinitionsEnd, LeftHandSide,
       IllegalLeftHandSide, SkippedRule, Colon, RhsObject, PrecKeyword, PrecName, IllegalPrec,
       RhsEnd, IllegalRhs, NextRhs, RuleEnd, BodyEnd, CallLookfor, DefinitionsPlaces, RhsPlaces

LEMMA FaithfulParses ==
  ASSUME IInv, Faithful, Parsing
  PROVE  Faithful'
<1>0. /\ Parse /\ cases' = cases /\ input \in Files /\ Sound(tables) /\ AtPlace
  BY DEF Parsing, Faithful, IInv
<1>1. NoFewer(tables, tables') /\ input' = input
  BY <1>0, ErrorsStay
<1>2. pc \in DefinitionsPlaces \cup {"body", "colon", "skipped", "lookfor"} \cup RhsPlaces
  BY <1>0, ParserAt
<1>3. cases' = {}
  BY <1>0, <1>2 DEF Faithful, PatchPlaces, DefinitionsPlaces, RhsPlaces
<1>4. ASSUME ReadOn'
      PROVE  Faithful'
  BY <1>0, <1>1, <1>3, <1>4 DEF Faithful, ReadOn
<1>5. CASE Wrong
  <2>1. tables.yynerrs > 0 /\ ~AcceptedFile(input)
    BY <1>2, <1>5 DEF Wrong, DefinitionsPlaces, RhsPlaces
  <2>2. tables'.yynerrs > 0
    BY <1>0, <1>1, <2>1, ErrorsCounted DEF NoFewer
  <2>3. Wrong'
    BY <1>1, <2>1, <2>2 DEF Wrong
  <2>. QED
    BY <1>4, <2>3 DEF ReadOn
<1>6. CASE tables.yynerrs = 0 /\ InDefinitions
  <2>1. pc \in DefinitionsPlaces
    BY <1>6 DEF InDefinitions, DefinitionsRead, DefinitionsSoFar
  <2>2. tables.status = "run" /\ BeforeRules(tables)
    BY <1>0, <2>1 DEF AtPlace, Phase, DefinitionsPlaces
  <2>3. ReadOn'
    BY <1>0, <1>6, <2>1, <2>2, ParserAt, ReadDefinitions, ReadNames
  <2>. QED
    BY <1>4, <2>3
<1>7. CASE tables.yynerrs = 0 /\ InRules
  <2>1. pc \in {"body", "colon"} \cup RhsPlaces
    BY <1>7 DEF InRules, BodyRead
  <2>2. Phase(tables, pc)
    BY <1>0, <2>1 DEF AtPlace, RhsPlaces
  <2>3. ReadOn'
    BY <1>0, <1>7, <2>1, <2>2, ParserAt, ReadBody, ReadRhs
  <2>. QED
    BY <1>4, <2>3
<1>8. ~AllRead /\ ~InPatch /\ ~Stopped
  BY <1>2 DEF AllRead, InPatch, Stopped, DefinitionsPlaces, RhsPlaces, PatchPlaces
<1>. QED
  BY <1>5, <1>6, <1>7, <1>8 DEF Faithful

----------------------------------------------------------------------------
(***************************************************************************)
(* A correct file at the end of the parser.                                *)
(***************************************************************************)
\* In a correct file a production has begun in front of every object.
LEMMA ObjectStart ==
  ASSUME NEW s, IsFile(s), AcceptedFile(s), NEW i \in Objects(s)
  PROVE  /\ i \in 1 .. Len(s)
         /\ StartOf(s, i) \in Starts(s)
         /\ i \in ObjectsOf(s, StartOf(s, i))
<1>. DEFINE d == DefsEnd(s)
<1>1. /\ Len(s) \in Nat /\ d \in 1 .. Len(s) + 1 /\ i \in Rules(s) /\ i \in 1 .. Len(s)
      /\ i \in d + 1 .. RulesEnd(s) - 1 /\ RulesEnd(s) \in Nat
  BY FileFacts, Ends, PositionSets DEF Rules
<1>2. d <= Len(s) /\ KindAt(s, d) = "SEPARATOR"
  BY <1>1, Ends
<1>3. \A h \in Rules(s) : RuleFits(s, h)
  BY RuleMustFit
<1>4. KindAt(s, i) \in {"NAME", "FIELD", "ACTION"} /\ ~IsLhs(s, i)
  BY DEF Objects
<1>. HIDE DEF d
<1>5. PICK a \in Nat : a = d + 1
  BY <1>1
<1>6. a \in Rules(s) /\ a - 1 = d
  BY <1>1, <1>5 DEF Rules, d
<1>7. IsLhs(s, a)
  BY <1>2, <1>3, <1>6 DEF RuleFits
<1>8. a < i
  <2>1. i # a
    BY <1>4, <1>7
  <2>2. i \in Nat /\ i >= d + 1
    BY <1>1 DEF d
  <2>. QED
    BY <1>1, <1>5, <2>1, <2>2
<1>9. PICK b \in Nat : b = a + 1
  OBVIOUS
<1>10. b \in Rules(s) /\ b - 1 = a
  BY <1>1, <1>5, <1>8, <1>9 DEF Rules, d
<1>11. KindAt(s, b) = "COLON"
  BY <1>3, <1>7, <1>10 DEF RuleFits
<1>12. b < i /\ b \in Starts(s)
  <2>1. i # b
    BY <1>4, <1>11
  <2>2. b \in Starts(s)
    BY <1>10, <1>11 DEF Starts
  <2>. QED
    BY <1>1, <1>8, <1>9, <2>1, <2>2
<1>13. Until(Starts(s), i) # {}
  BY <1>12 DEF Until
<1>. QED
  BY <1>1, <1>13, ObjectHere

\* What the tables have to do with the whole file, as it is correct.
WholeFile(s, t) ==
  /\ t.Num_productions = Cardinality(Starts(s))
  /\ \A start \in Starts(s) :
       LET prod == t.productions[Number(s, start)]
       IN /\ Number(s, start) \in DOMAIN t.productions
          /\ IsProduction(t, prod)
          /\ t.symbols[prod.lhs].name = LhsOf(s, start)
          /\ prod.lhs \in Named(t)
          /\ prod.rhs_len = Cardinality(ObjectsOf(s, start))
          /\ prod.rhs_len = Len(prod.rhs)
          /\ prod.prec = PrecOf(s, start)
          /\ \A i \in ObjectsOf(s, start) :
               LET v == prod.rhs[Place(s, i)]
               IN /\ Place(s, i) \in 1 .. Len(prod.rhs)
                  /\ v \in DOMAIN t.symbols
                  /\ t.symbols[v].name = TextAt(s, i)
                  /\ IsAct(v) <=> KindAt(s, i) = "ACTION"
                  /\ IsAct(v) => t.symbols[v].field = ""
  /\ \A v \in Named(t) :
       /\ IsTerm(v) <=> IsTerminalName(s, t.symbols[v].name)
       /\ t.symbols[v].field = LastField(s, t.symbols[v].name)
       /\ t.symbols[v].name \in Names(s)
  /\ t.Cur_nonterm = MINNONTERM - 1 + Cardinality(Nonterminals(s))
  /\ \A v \in 1 .. MAXTERM : v <= t.Cur_term =>
       t.Precedence[v] = [level |-> LevelOf(s, t.symbols[v].name),
                          assoc |-> AssocOf(s, t.symbols[v].name)]
  /\ t.lhs = NULL <=> Lhss(s) = {}
  /\ t.lhs # NULL => t.symbols[t.Goal_symbol].name = TextAt(s, Min(Lhss(s)))

LEMMA AllReadFacts ==
  ASSUME NEW s, IsFile(s), NEW t, Sound(t), NamesRead(s, RulesEnd(s), t),
         PrecsRead(s, RulesEnd(s), t), RulesRead(s, RulesEnd(s), t)
  PROVE  WholeFile(s, t)
<1>. DEFINE h == RulesEnd(s)
<1>1. /\ h \in 1 .. Len(s) + 1 /\ Len(s) \in Nat
      /\ \A i \in Defs(s) : i < h
  BY FileFacts, Ends DEF Defs
<1>2. /\ Until(Starts(s), h) = Starts(s)
      /\ Until(Namings(s), h) = Namings(s)
      /\ Until(Lhss(s), h) = Lhss(s)
      /\ \A start : Until(ObjectsOf(s, start), h) = ObjectsOf(s, start)
      /\ \A start : Until(Giving(s, start), h) = Giving(s, start)
  <2>1. /\ Starts(s) \in SUBSET (Defs(s) \cup Rules(s))
        /\ Namings(s) \in SUBSET (Defs(s) \cup Rules(s))
        /\ Lhss(s) \in SUBSET (Defs(s) \cup Rules(s))
        /\ \A start : ObjectsOf(s, start) \in SUBSET (Defs(s) \cup Rules(s))
        /\ \A start : Giving(s, start) \in SUBSET (Defs(s) \cup Rules(s))
    BY PositionSets
  <2>. QED
    BY <1>1, <2>1, AllBehind
<1>. HIDE DEF h
<1>3. NamesRead(s, h, t) /\ PrecsRead(s, h, t) /\ RulesRead(s, h, t)
  BY DEF h
<1>4. Known(s, h) = Names(s)
  BY <1>2 DEF Known, Names
<1>5. /\ t.Num_productions = Cardinality(Starts(s))
      /\ t.lhs = NULL <=> Lhss(s) = {}
      /\ t.lhs # NULL => t.symbols[t.Goal_symbol].name = TextAt(s, Min(Lhss(s)))
      /\ \A start \in Starts(s) : ProductionRead(s, h, t, start)
  BY <1>2, <1>3 DEF RulesRead
<1>6. ASSUME NEW start \in Starts(s)
      PROVE  LET prod == t.productions[Number(s, start)]
             IN /\ Number(s, start) \in DOMAIN t.productions
                /\ IsProduction(t, prod)
                /\ t.symbols[prod.lhs].name = LhsOf(s, start)
                /\ prod.lhs \in Named(t)
                /\ prod.rhs_len = Cardinality(ObjectsOf(s, start))
                /\ prod.rhs_len = Len(prod.rhs)
                /\ prod.prec = PrecOf(s, start)
                /\ \A i \in ObjectsOf(s, start) :
                     LET v == prod.rhs[Place(s, i)]
                     IN /\ Place(s, i) \in 1 .. Len(prod.rhs)
                        /\ v \in DOMAIN t.symbols
                        /\ t.symbols[v].name = TextAt(s, i)
                        /\ IsAct(v) <=> KindAt(s, i) = "ACTION"
                        /\ IsAct(v) => t.symbols[v].field = ""
  <2>. DEFINE prod == t.productions[Number(s, start)]
  <2>1. start \in Until(Starts(s), h)
    BY <1>2
  <2>2. /\ Number(s, start) \in DOMAIN t.productions
        /\ IsProduction(t, prod)
        /\ prod.lhs \in DOMAIN t.symbols
        /\ prod.lhs \in MINNONTERM .. t.Cur_nonterm
        /\ \A i \in ObjectsOf(s, start) :
             /\ Place(s, i) \in 1 .. Len(prod.rhs)
             /\ prod.rhs[Place(s, i)] \in DOMAIN t.symbols
    BY <1>1, <1>2, <1>3, <2>1, ReadSoFar
  <2>3. ProductionRead(s, h, t, start)
    BY <1>5
  <2>4. ~IsAct(prod.lhs)
    BY <2>2, Limits DEF IsAct, Sound, Numbers
  <2>. HIDE DEF prod
  <2>5. /\ t.symbols[prod.lhs].name = LhsOf(s, start)
        /\ prod.rhs_len = Cardinality(ObjectsOf(s, start))
        /\ prod.rhs_len = Len(prod.rhs)
        /\ prod.prec = LevelBy(s, Giving(s, start))
        /\ \A i \in ObjectsOf(s, start) :
             /\ t.symbols[prod.rhs[Place(s, i)]].name = TextAt(s, i)
             /\ IsAct(prod.rhs[Place(s, i)]) <=> KindAt(s, i) = "ACTION"
             /\ IsAct(prod.rhs[Place(s, i)]) => t.symbols[prod.rhs[Place(s, i)]].field = ""
    BY <1>2, <2>3 DEF ProductionRead, prod
  <2>6. prod.lhs \in Named(t)
    BY <2>2, <2>4 DEF Named
  <2>. QED
    BY <2>2, <2>5, <2>6 DEF prod, PrecOf
<1>7. \A v \in Named(t) :
        /\ IsTerm(v) <=> IsTerminalName(s, t.symbols[v].name)
        /\ t.symbols[v].field = LastField(s, t.symbols[v].name)
        /\ t.symbols[v].name \in Names(s)
  BY <1>3, <1>4 DEF NamesRead
<1>8. t.Cur_nonterm = MINNONTERM - 1 + Cardinality(Nonterminals(s))
  <2>1. Nonterminals(s) \cap Known(s, h) = Nonterminals(s)
    BY <1>4 DEF Nonterminals
  <2>. QED
    BY <1>1, <1>3, <2>1, NamesCounted
<1>9. \A v \in 1 .. MAXTERM : v <= t.Cur_term =>
        t.Precedence[v] = [level |-> LevelOf(s, t.symbols[v].name),
                           assoc |-> AssocOf(s, t.symbols[v].name)]
  BY <1>1, <1>3, LevelKnown
<1>. QED
  BY <1>5, <1>6, <1>7, <1>8, <1>9 DEF WholeFile

\* A file with an error keeps it.
LEMMA WrongKept ==
  ASSUME Wrong, input' = input, NoFewer(tables, tables'),
         tables.yynerrs \in Nat, tables.yynerrs > 0
  PROVE  Wrong'
<1>1. tables'.yynerrs > 0
  BY DEF NoFewer
<1>. QED
  BY <1>1 DEF Wrong

\* problems() is only called where there is an error already.
LEMMA FaithfulChecks ==
  ASSUME IInv, Faithful, CheckProblems
  PROVE  Faithful'
<1>1. /\ pc = "parsed" /\ input' = input /\ cases' = cases /\ input \in Files
      /\ Sound(tables) /\ tables.yynerrs \in Nat
  BY ErrorsCounted DEF CheckProblems, Faithful, IInv
<1>2. cases = {}
  BY <1>1 DEF Faithful, PatchPlaces
<1>3. CASE tables.yynerrs = 0
  <2>1. tables' = tables /\ pc' = "first"
    BY <1>3 DEF CheckProblems
  <2>2. AllRead
    BY <1>1, <1>3 DEF Faithful, Wrong, Stopped, InPatch, PatchPlaces, InDefinitions,
      DefinitionsRead, DefinitionsSoFar, DefinitionsPlaces, InRules, BodyRead, RhsPlaces
  <2>3. AllRead'
    BY <1>1, <2>1, <2>2 DEF AllRead
  <2>. QED
    BY <1>1, <1>2, <1>3, <2>1, <2>3 DEF Faithful
<1>4. CASE tables.yynerrs # 0
  <2>. DEFINE n == Cardinality(Unset(tables))
  <2>1. n \in Nat /\ DOMAIN tables = TableFields
    BY <1>1, TablesFinite DEF Sound, Numbers
  <2>2. tables' = [tables EXCEPT !.yynerrs = @ + n]
    BY <1>4 DEF CheckProblems, Problems
  <2>. HIDE DEF n
  <2>3. tables'.yynerrs = tables.yynerrs + n
    BY <2>1, <2>2 DEF TableFields
  <2>4. tables'.yynerrs > 0
    BY <1>1, <1>4, <2>1, <2>3
  <2>5. ~AcceptedFile(input)
    BY <1>1, <1>4 DEF Faithful, Wrong, Stopped
  <2>6. Wrong'
    BY <1>1, <2>4, <2>5 DEF Wrong
  <2>. QED
    BY <1>1, <1>2, <2>6 DEF Faithful
<1>. QED
  BY <1>3, <1>4

\* Where patch() begins, every action is still in its production.
LEMMA NothingPatched ==
  ASSUME NEW s, IsFile(s), AcceptedFile(s), NEW t, Sound(t), InBody(t), WholeFile(s, t)
  PROVE  PatchedSoFar(s, t, {})
<1>1. ASSUME NEW start \in Starts(s)
      PROVE  /\ t.symbols[t.productions[Number(s, start)].lhs].name = LhsOf(s, start)
             /\ IF HasActions(t.productions[Number(s, start)])
                THEN Unpatched(s, t, {}, start)
                ELSE ActionsMade(s, t, {}, start)
             /\ ActionsOf(s, start) # {} => HasActions(t.productions[Number(s, start)])
  <2>. DEFINE prod == t.productions[Number(s, start)]
  <2>1. /\ t.symbols[prod.lhs].name = LhsOf(s, start)
        /\ prod.lhs \in Named(t)
        /\ prod.rhs_len = Cardinality(ObjectsOf(s, start))
        /\ prod.rhs_len = Len(prod.rhs)
        /\ \A i \in ObjectsOf(s, start) :
             /\ Place(s, i) \in 1 .. Len(prod.rhs)
             /\ prod.rhs[Place(s, i)] \in DOMAIN t.symbols
             /\ t.symbols[prod.rhs[Place(s, i)]].name = TextAt(s, i)
             /\ IsAct(prod.rhs[Place(s, i)]) <=> KindAt(s, i) = "ACTION"
             /\ IsAct(prod.rhs[Place(s, i)]) => t.symbols[prod.rhs[Place(s, i)]].field = ""
    BY DEF WholeFile
  <2>2. \A v \in Named(t) : t.symbols[v].field = LastField(s, t.symbols[v].name)
    BY DEF WholeFile
  <2>. HIDE DEF prod
  <2>3. Unpatched(s, t, {}, start)
    <3>1. t.symbols[prod.lhs].field = LastField(s, LhsOf(s, start))
      BY <2>1, <2>2
    <3>2. ASSUME NEW i \in ObjectsOf(s, start)
          PROVE  IF KindAt(s, i) = "ACTION"
                 THEN /\ IsAct(prod.rhs[Place(s, i)])
                      /\ t.symbols[prod.rhs[Place(s, i)]].name = TextAt(s, i)
                      /\ t.symbols[prod.rhs[Place(s, i)]].field = ""
                 ELSE /\ ~IsAct(prod.rhs[Place(s, i)])
                      /\ t.symbols[prod.rhs[Place(s, i)]].field = LastField(s, TextAt(s, i))
      <4>1. CASE KindAt(s, i) = "ACTION"
        BY <2>1, <4>1
      <4>2. CASE KindAt(s, i) # "ACTION"
        <5>1. prod.rhs[Place(s, i)] \in Named(t)
          BY <2>1, <4>2 DEF Named
        <5>. QED
          BY <2>1, <2>2, <4>2, <5>1
      <4>. QED
        BY <4>1, <4>2
    <3>. QED
      BY <2>1, <3>1, <3>2 DEF Unpatched, prod
  <2>4. ActionsOf(s, start) # {} => HasActions(prod)
    BY <2>1 DEF ActionsOf, HasActions
  <2>5. ASSUME ~HasActions(prod)
        PROVE  ActionsMade(s, t, {}, start)
    <3>1. ActionsOf(s, start) = {}
      BY <2>4, <2>5
    <3>. QED
      BY <3>1 DEF ActionsMade
  <2>. QED
    BY <2>1, <2>3, <2>4, <2>5 DEF prod
<1>2. Replaced(s, t) = {}
  <2>. SUFFICES ASSUME NEW i \in Inner(s)
                PROVE  HasActions(t.productions[Number(s, StartOf(s, i))])
    BY DEF Replaced
  <2>1. i \in Objects(s) /\ KindAt(s, i) = "ACTION"
    BY DEF Inner
  <2>2. StartOf(s, i) \in Starts(s) /\ i \in ActionsOf(s, StartOf(s, i))
    BY <2>1, ObjectStart DEF ActionsOf
  <2>. QED
    BY <1>1, <2>2
<1>3. /\ t.Num_productions = Cardinality(Starts(s))
      /\ t.Num_productions \in Nat
      /\ t.Cur_nonterm = MINNONTERM - 1 + Cardinality(Nonterminals(s))
      /\ t.lhs # NULL => t.symbols[t.Goal_symbol].name = TextAt(s, Min(Lhss(s)))
      /\ DOMAIN t.productions = 0 .. t.Num_productions - 1
  BY DEF WholeFile, Sound, Numbers, ProductionsHold
<1>4. Cardinality(Replaced(s, t)) = 0
  BY <1>2, FS_EmptySet
<1>5. \A p \in DOMAIN t.productions : t.productions[p].rhs_len = Len(t.productions[p].rhs)
  <2>. TAKE p \in DOMAIN t.productions
  <2>1. PICK start \in Starts(s) : Number(s, start) = p
    BY <1>3, StartWithNumber
  <2>. QED
    BY <2>1 DEF WholeFile
<1>6. Cardinality(Nonterminals(s)) \in Nat /\ t.Cur_nonterm \in Nat
  BY <1>3, NamesFinite, Limits
<1>7. t.Goal_symbol # NULL =>
        /\ t.Goal_symbol < MINNONTERM + Cardinality(Nonterminals(s))
        /\ t.symbols[t.Goal_symbol].name = TextAt(s, Min(Lhss(s)))
  <2>. HAVE t.Goal_symbol # NULL
  <2>1. t.lhs # NULL
    BY DEF InBody, GoalKept
  <2>2. t.Goal_symbol \in MINNONTERM .. t.Cur_nonterm
    BY <2>1 DEF InBody, GoalKept
  <2>3. t.Goal_symbol \in Int /\ t.Goal_symbol <= t.Cur_nonterm
    BY <1>6, <2>2, Limits
  <2>. QED
    BY <1>3, <1>6, <2>1, <2>3, Limits
<1>8. \A p : p \notin Cardinality(Starts(s)) .. t.Num_productions - 1
  BY <1>3
<1>9. /\ t.Cur_nonterm = MINNONTERM - 1 + Cardinality(Nonterminals(s)) + Cardinality(Replaced(s, t))
      /\ t.Num_productions >= Cardinality(Starts(s))
  BY <1>3, <1>4, <1>6, Limits
<1>. QED
  BY <1>1, <1>5, <1>7, <1>8, <1>9 DEF PatchedSoFar

LEMMA FaithfulFinds ==
  ASSUME IInv, Faithful, FindFirst
  PROVE  Faithful'
<1>. DEFINE C == CodeFirst(GrammarOf(tables, <<>>))
            u == [tables EXCEPT !.status = "undefined"]
<1>1. /\ pc = "first" /\ input' = input /\ cases' = cases /\ input \in Files
      /\ Sound(tables) /\ tables.yynerrs \in Nat
  BY ErrorsCounted DEF FindFirst, AfterParsing, Faithful, IInv
<1>2. \/ RunsOut(tables, C) /\ Call(u, "first")
      \/ tables' = tables /\ pc' = "patch"
  BY DEF FindFirst
<1>3. u.status = "undefined" /\ u.yynerrs = tables.yynerrs
  BY <1>1 DEF Sound, Numbers, TableFields
<1>. HIDE DEF C, u
<1>4. \/ RunsOut(tables, C) /\ pc' = "undefined" /\ tables'.yynerrs = tables.yynerrs
      \/ tables' = tables /\ pc' = "patch"
  BY <1>2, <1>3 DEF Call
<1>5. cases = {}
  BY <1>1 DEF Faithful, PatchPlaces
<1>6. CASE tables.yynerrs = 0
  <2>1. AllRead
    BY <1>1, <1>6 DEF Faithful, Wrong, Stopped, InPatch, PatchPlaces, InDefinitions,
      DefinitionsRead, DefinitionsSoFar, DefinitionsPlaces, InRules, BodyRead, RhsPlaces
  <2>2. IsFile(input) /\ AcceptedFile(input) /\ WholeFile(input, tables)
    BY <1>1, <2>1, FilesRead, AllReadFacts DEF AllRead
  <2>3. InBody(tables)
    <3>1. Phase(tables, "first")
      BY <1>1, HerePhase DEF IInv, AllPlaces, BodyPlaces
    <3>. QED
      BY <3>1, Places DEF BodyPlaces
  <2>4. PatchedSoFar(input, tables, {})
    BY <1>1, <2>2, <2>3, NothingPatched
  <2>5. ~RunsOut(tables, C)
    <3>1. \A p \in DOMAIN tables.productions :
            /\ tables.productions[p].rhs_len = Len(tables.productions[p].rhs)
            /\ tables.productions[p].rhs_len \in Nat
      BY <1>1, <2>4, LeftSides DEF PatchedSoFar, IsProduction
    <3>2. TooLong(tables) = {}
      BY <3>1 DEF TooLong
    <3>. QED
      BY <3>2 DEF RunsOut
  <2>6. tables' = tables /\ pc' = "patch"
    BY <1>4, <2>5
  <2>7. PatchedSoFar(input, tables, cases)'
    BY <1>1, <1>5, <2>4, <2>6
  <2>8. InPatch'
    BY <2>6, <2>7 DEF InPatch, PatchPlaces
  <2>. QED
    BY <1>1, <1>5, <1>6, <2>6, <2>8 DEF Faithful
<1>7. CASE tables.yynerrs # 0
  <2>1. Wrong
    BY <1>1, <1>7 DEF Faithful, Stopped
  <2>2. Wrong'
    BY <1>1, <1>7, <1>4, <2>1 DEF Wrong
  <2>. QED
    BY <1>1, <1>5, <2>2 DEF Faithful
<1>. QED
  BY <1>6, <1>7

LEMMA FaithfulGoesOn ==
  ASSUME IInv, Faithful, PatchSymbol \/ PatchReturns
  PROVE  Faithful'
<1>1. /\ pc \in PatchPlaces /\ pc' \in PatchPlaces /\ input' = input /\ cases' = cases
      /\ tables' = tables /\ input \in Files
  BY DEF PatchSymbol, PatchReturns, AfterParsing, Faithful, PatchPlaces
<1>2. CASE Wrong
  BY <1>1, <1>2 DEF Faithful, Wrong, PatchPlaces
<1>3. CASE ~Wrong
  <2>1. tables.yynerrs = 0 /\ InPatch
    BY <1>1, <1>3 DEF Faithful, Stopped, PatchPlaces, AllRead, InDefinitions,
      DefinitionsRead, DefinitionsSoFar, DefinitionsPlaces, InRules, BodyRead, RhsPlaces
  <2>2. PatchedSoFar(input, tables, cases)'
    BY <1>1, <2>1 DEF InPatch
  <2>. QED
    BY <1>1, <2>1, <2>2 DEF Faithful, InPatch
<1>. QED
  BY <1>2, <1>3

----------------------------------------------------------------------------
(***************************************************************************)
(* dopatch() on a production of a correct file.                            *)
(***************************************************************************)
PatchLeaves(t, p, u) ==
  LET prod == t.productions[p]
      n    == Cardinality(Embedded(prod))
  IN /\ n \in Nat
     /\ u.Cur_nonterm = t.Cur_nonterm + n
     /\ u.Num_productions = t.Num_productions + n
     /\ u.Goal_symbol = t.Goal_symbol
     /\ u.yynerrs = t.yynerrs
     /\ u.status = t.status
     /\ \A v \in DOMAIN t.symbols :
          v \notin Acts(prod) => v \in DOMAIN u.symbols /\ u.symbols[v] = t.symbols[v]
     /\ DOMAIN u.productions = 0 .. t.Num_productions + n - 1
     /\ \A q \in DOMAIN t.productions \ {p} : u.productions[q] = t.productions[q]
     /\ u.productions[p].lhs = prod.lhs
     /\ u.productions[p].rhs = RhsAfter(t, prod)
     /\ u.productions[p].rhs_len = prod.rhs_len - Dropped(prod)

PatchBrings(t, p, u) ==
  LET prod == t.productions[p]
  IN /\ \A i \in Embedded(prod) :
          /\ NewProduction(t, prod, i) \in DOMAIN u.productions
          /\ u.productions[NewProduction(t, prod, i)].lhs = NewSymbol(t, prod, i)
          /\ u.productions[NewProduction(t, prod, i)].rhs = <<>>
          /\ u.productions[NewProduction(t, prod, i)].rhs_len = 0
          /\ NewSymbol(t, prod, i) \in DOMAIN u.symbols
          /\ u.symbols[NewSymbol(t, prod, i)].productions = <<NewProduction(t, prod, i)>>
          /\ NewSymbol(t, prod, i) \in Int
          /\ NewSymbol(t, prod, i) > t.Cur_nonterm
          /\ NewSymbol(t, prod, i) <= MAXNONTERM
     /\ \A q \in DOMAIN u.productions \ DOMAIN t.productions :
          \E i \in Embedded(prod) : q = NewProduction(t, prod, i)

LEMMA PatchDoes ==
  ASSUME NEW t, Sound(t), NEW p \in DOMAIN t.productions, NEW u, u = Patched(t, p),
         t.Cur_nonterm + Cardinality(Embedded(t.productions[p])) <= MAXNONTERM
  PROVE  PatchLeaves(t, p, u) /\ PatchBrings(t, p, u)
<1>. DEFINE prod == t.productions[p]
            E    == Embedded(prod)
            n    == Cardinality(E)
            S    == SymbolsAfter(t, prod)
            P    == ProductionsAfter(t, p)
<1>1. /\ DOMAIN t = TableFields /\ IsProduction(t, prod)
      /\ t.Cur_nonterm \in Int /\ t.Cur_nonterm >= MINNONTERM - 1 /\ t.Num_productions \in Nat
      /\ DOMAIN t.productions = 0 .. t.Num_productions - 1
      /\ DOMAIN t.symbols = Values(t)
      /\ t.Cur_term \in 0 .. MAXTERM
  BY Limits DEF Sound, Numbers, ProductionsHold, SymbolsHold
<1>2. prod.rhs \in Seq(Nat)
  BY <1>1 DEF IsProduction
<1>3. /\ n \in Nat
      /\ {NewSymbol(t, prod, i) : i \in E} = t.Cur_nonterm + 1 .. t.Cur_nonterm + n
      /\ {NewProduction(t, prod, i) : i \in E} = t.Num_productions .. t.Num_productions + n - 1
  BY <1>2, NewNumbers
<1>4. /\ DOMAIN S = (DOMAIN t.symbols \ Acts(prod)) \cup (t.Cur_nonterm + 1 .. t.Cur_nonterm + n)
      /\ \A v \in DOMAIN S \ (t.Cur_nonterm + 1 .. t.Cur_nonterm + n) : S[v] = t.symbols[v]
      /\ \A i \in E : /\ NewSymbol(t, prod, i) \in t.Cur_nonterm + 1 .. t.Cur_nonterm + n
                      /\ S[NewSymbol(t, prod, i)].productions
                           = <<NewProduction(t, prod, i)>>
  BY <1>1, SymbolsAfterFacts DEF Acts
<1>5. /\ DOMAIN P = 0 .. t.Num_productions + n - 1
      /\ \A q \in DOMAIN t.productions \ {p} : P[q] = t.productions[q]
      /\ P[p].lhs = prod.lhs /\ P[p].rhs = RhsAfter(t, prod)
      /\ P[p].rhs_len = prod.rhs_len - Dropped(prod)
      /\ \A i \in E :
           P[NewProduction(t, prod, i)] =
             [lhs |-> NewSymbol(t, prod, i), rhs |-> <<>>, rhs_len |-> 0, prec |-> 0]
      /\ \A q \in DOMAIN P :
           q \in DOMAIN t.productions \/ \E i \in E : q = NewProduction(t, prod, i)
  BY ProductionsAfterFacts
<1>. HIDE DEF S, P
<1>6. u = [t EXCEPT !.symbols = S, !.productions = P, !.Cur_nonterm = @ + n,
                    !.Num_productions = @ + n]
  BY DEF Patched, S, P
<1>7. /\ u.symbols = S /\ u.productions = P
      /\ u.Cur_nonterm = t.Cur_nonterm + n /\ u.Num_productions = t.Num_productions + n
      /\ u.Goal_symbol = t.Goal_symbol /\ u.yynerrs = t.yynerrs /\ u.status = t.status
  <2>. HIDE DEF n
  <2>. QED
    BY <1>1, <1>6 DEF TableFields
<1>8. ASSUME NEW v \in DOMAIN t.symbols
      PROVE  v \notin t.Cur_nonterm + 1 .. t.Cur_nonterm + n
  <2>. DEFINE last == t.Cur_nonterm + n
  <2>1. last \in Int /\ last <= MAXNONTERM
    BY <1>1, <1>3
  <2>2. v \in 1 .. t.Cur_term \/ v \in MINNONTERM .. t.Cur_nonterm \/ v \in MINACT .. t.Cur_act
    BY <1>1 DEF Values
  <2>. HIDE DEF last
  <2>3. /\ MAXTERM \in Int /\ MAXNONTERM \in Int /\ MINACT \in Int /\ MINNONTERM \in Int
        /\ MAXTERM < MINNONTERM /\ MAXNONTERM < MINACT
    BY Limits
  <2>4. v \notin t.Cur_nonterm + 1 .. last
    <3>1. CASE v \in 1 .. t.Cur_term
      BY <1>1, <2>1, <2>3, <3>1
    <3>2. CASE v \in MINNONTERM .. t.Cur_nonterm
      BY <1>1, <2>1, <2>3, <3>2
    <3>3. CASE v \in MINACT .. t.Cur_act
      BY <1>1, <2>1, <2>3, <3>3
    <3>. QED
      BY <2>2, <3>1, <3>2, <3>3
  <2>. QED
    BY <2>4 DEF last
<1>9. ASSUME NEW v \in DOMAIN t.symbols, v \notin Acts(prod)
      PROVE  v \in DOMAIN u.symbols /\ u.symbols[v] = t.symbols[v]
  BY <1>4, <1>7, <1>8, <1>9
<1>10. PatchLeaves(t, p, u)
  <2>. HIDE DEF n
  <2>. QED
    BY <1>3, <1>5, <1>7, <1>9 DEF PatchLeaves, n, E, prod
<1>11. ASSUME NEW i \in E
       PROVE  /\ NewProduction(t, prod, i) \in DOMAIN u.productions
              /\ u.productions[NewProduction(t, prod, i)].lhs = NewSymbol(t, prod, i)
              /\ u.productions[NewProduction(t, prod, i)].rhs = <<>>
              /\ u.productions[NewProduction(t, prod, i)].rhs_len = 0
              /\ NewSymbol(t, prod, i) \in DOMAIN u.symbols
              /\ u.symbols[NewSymbol(t, prod, i)].productions = <<NewProduction(t, prod, i)>>
              /\ NewSymbol(t, prod, i) \in Int
              /\ NewSymbol(t, prod, i) > t.Cur_nonterm
              /\ NewSymbol(t, prod, i) <= MAXNONTERM
  <2>1. PICK q : q = NewProduction(t, prod, i)
    OBVIOUS
  <2>2. PICK v : v = NewSymbol(t, prod, i)
    OBVIOUS
  <2>3. P[q] = [lhs |-> v, rhs |-> <<>>, rhs_len |-> 0, prec |-> 0]
    BY <1>5, <2>1, <2>2
  <2>4. v \in t.Cur_nonterm + 1 .. t.Cur_nonterm + n /\ S[v].productions = <<q>>
    BY <1>4, <2>1, <2>2
  <2>5. q \in t.Num_productions .. t.Num_productions + n - 1
    BY <1>3, <2>1
  <2>. DEFINE last == t.Cur_nonterm + n
              total == t.Num_productions + n
  <2>6. last \in Int /\ last <= MAXNONTERM /\ v \in t.Cur_nonterm + 1 .. last
    BY <1>1, <1>3, <2>4
  <2>7. total \in Int /\ q \in t.Num_productions .. total - 1
    BY <1>1, <1>3, <2>5
  <2>8. v \in DOMAIN S
    BY <1>4, <2>4
  <2>13. t.Num_productions + (n - 1) = total - 1
    <3>1. \A a, b \in Nat : (a + b) - 1 = a + (b - 1)
      OBVIOUS
    <3>. HIDE DEF n
    <3>. QED
      BY <1>1, <1>3, <3>1
  <2>14. DOMAIN P = 0 .. total - 1
    <3>. HIDE DEF n, total
    <3>. QED
      BY <1>5, <2>13
  <2>. HIDE DEF last, prod, E
  <2>9. v \in Int /\ v > t.Cur_nonterm /\ v <= MAXNONTERM
    <3>1. PICK c \in Int : c = t.Cur_nonterm
      BY <1>1
    <3>2. v \in c + 1 .. last
      BY <2>6, <3>1
    <3>3. MAXNONTERM \in Int
      BY Limits
    <3>. QED
      BY <2>6, <3>1, <3>2, <3>3
  <2>. HIDE DEF total
  <2>10. q \in 0 .. total - 1
    BY <1>1, <2>7
  <2>11. q \in DOMAIN P
    BY <2>10, <2>14
  <2>12. P[q].lhs = v /\ P[q].rhs = <<>> /\ P[q].rhs_len = 0
    BY <2>3
  <2>. QED
    BY <1>7, <2>1, <2>2, <2>4, <2>8, <2>9, <2>11, <2>12
<1>12. PatchBrings(t, p, u)
  BY <1>5, <1>7, <1>11 DEF PatchBrings
<1>. QED
  BY <1>10, <1>12

\* Nothing happens to a production without actions.
LEMMA NothingToPatch ==
  ASSUME NEW t, Sound(t), NEW p \in DOMAIN t.productions,
         ~HasActions(t.productions[p])
  PROVE  LET prod == t.productions[p]
         IN /\ Embedded(prod) = {} /\ Cardinality(Embedded(prod)) = 0
            /\ Dropped(prod) = 0
            /\ Acts(prod) = {}
            /\ RhsAfter(t, prod) = prod.rhs
            /\ CasesOf(t, p) = {}
<1>. DEFINE prod == t.productions[p]
            new  == RhsAfter(t, prod)
<1>1. IsProduction(t, prod) /\ prod.rhs \in Seq(Nat) /\ Len(prod.rhs) \in Nat
      /\ DOMAIN prod.rhs = 1 .. Len(prod.rhs)
  BY DEF Sound, ProductionsHold, IsProduction
<1>2. \A i \in 1 .. Len(prod.rhs) : ~IsAct(prod.rhs[i])
  BY DEF HasActions
<1>. HIDE DEF prod, new
<1>3. Embedded(prod) = {} /\ ~EndsWithAction(prod) /\ Acts(prod) = {}
  BY <1>1, <1>2 DEF Embedded, EndsWithAction, Acts
<1>4. Dropped(prod) = 0 /\ Cardinality(Embedded(prod)) = 0
  BY <1>3, FS_EmptySet DEF Dropped
<1>5. /\ new \in Seq(Nat) /\ Len(new) = Len(prod.rhs)
      /\ \A i \in 1 .. Len(new) : new[i] = prod.rhs[i]
  BY <1>1, <1>3, <1>4, RhsAfterFacts DEF new
<1>6. new = prod.rhs
  BY <1>1, <1>5, SeqEqual
<1>7. CasesOf(t, p) = {}
  BY <1>3 DEF CasesOf, prod
<1>. QED
  BY <1>3, <1>4, <1>6, <1>7 DEF prod, new

\* No action is left in a production that dopatch() has seen.
LEMMA NoActionLeft ==
  ASSUME NEW t, Sound(t), NEW p \in DOMAIN t.productions, NEW u, PatchLeaves(t, p, u),
         PatchBrings(t, p, u)
  PROVE  ~HasActions(u.productions[p])
<1>. DEFINE prod == t.productions[p]
            new  == RhsAfter(t, prod)
<1>1. IsProduction(t, prod)
  BY DEF Sound, ProductionsHold
<1>2. /\ \A i \in Embedded(prod) : new[i] = NewSymbol(t, prod, i)
      /\ \A i \in 1 .. Len(new) : i \notin Embedded(prod) => ~IsAct(new[i])
  <2>. HIDE DEF prod
  <2>. QED
    BY <1>1, RhsAfterFacts
<1>3. \A i \in Embedded(prod) : ~IsAct(NewSymbol(t, prod, i))
  <2>. TAKE i \in Embedded(prod)
  <2>1. NewSymbol(t, prod, i) \in Int /\ NewSymbol(t, prod, i) <= MAXNONTERM
    BY DEF PatchBrings
  <2>. QED
    BY <2>1, Limits DEF IsAct
<1>4. u.productions[p].rhs = new
  BY DEF PatchLeaves
<1>. HIDE DEF new, prod
<1>. QED
  BY <1>2, <1>3, <1>4 DEF HasActions

\* What PatchedSoFar has to say of one production.
PatchedStart(s, t, cs, start) ==
  /\ t.symbols[t.productions[Number(s, start)].lhs].name = LhsOf(s, start)
  /\ IF HasActions(t.productions[Number(s, start)])
     THEN Unpatched(s, t, cs, start)
     ELSE ActionsMade(s, t, cs, start)

SameSides(t, u, q) ==
  /\ u.productions[q].lhs = t.productions[q].lhs
  /\ u.productions[q].rhs = t.productions[q].rhs
  /\ u.productions[q].rhs_len = t.productions[q].rhs_len

\* A production that is not patched, or has nothing to patch, stays as it is.
LEMMA SidesStay ==
  ASSUME NEW t, Sound(t), NEW p \in DOMAIN t.productions, NEW u, PatchLeaves(t, p, u),
         NEW q \in DOMAIN t.productions, q # p \/ ~HasActions(t.productions[p])
  PROVE  /\ SameSides(t, u, q)
         /\ HasActions(u.productions[q]) <=> HasActions(t.productions[q])
         /\ q \in DOMAIN u.productions
         /\ u.productions[q].lhs \in DOMAIN u.symbols
         /\ u.symbols[u.productions[q].lhs] = t.symbols[t.productions[q].lhs]
         /\ \A i \in 1 .. Len(t.productions[q].rhs) :
              /\ t.productions[q].rhs[i] \in DOMAIN u.symbols
              /\ u.symbols[t.productions[q].rhs[i]] = t.symbols[t.productions[q].rhs[i]]
<1>. DEFINE prod == t.productions[p]
            n    == Cardinality(Embedded(prod))
<1>1. SameSides(t, u, q)
  <2>1. CASE q # p
    BY <2>1 DEF PatchLeaves, SameSides
  <2>2. CASE q = p
    <3>1. ~HasActions(t.productions[p])
      BY <2>2
    <3>2. /\ Dropped(prod) = 0 /\ RhsAfter(t, prod) = prod.rhs
      BY <3>1, NothingToPatch
    <3>3. prod.rhs_len \in Nat
      BY DEF Sound, ProductionsHold, IsProduction
    <3>4. /\ u.productions[p].lhs = prod.lhs
          /\ u.productions[p].rhs = RhsAfter(t, prod)
          /\ u.productions[p].rhs_len = prod.rhs_len - Dropped(prod)
      BY DEF PatchLeaves
    <3>. QED
      BY <2>2, <3>2, <3>3, <3>4 DEF SameSides
  <2>. QED
    BY <2>1, <2>2
<1>2. HasActions(u.productions[q]) <=> HasActions(t.productions[q])
  BY <1>1 DEF SameSides, HasActions
<1>3. /\ n \in Nat /\ t.Num_productions \in Nat
      /\ DOMAIN t.productions = 0 .. t.Num_productions - 1
      /\ DOMAIN u.productions = 0 .. t.Num_productions + n - 1
      /\ t.Cur_nonterm \in Int /\ t.Cur_nonterm <= MAXNONTERM
  BY Limits DEF PatchLeaves, Sound, ProductionsHold, Numbers
<1>4. q \in DOMAIN u.productions
  <2>. HIDE DEF n
  <2>. QED
    BY <1>3
<1>5. \A v \in DOMAIN t.symbols :
        v \notin Acts(prod) => v \in DOMAIN u.symbols /\ u.symbols[v] = t.symbols[v]
  BY DEF PatchLeaves
<1>6. /\ t.productions[q].lhs \in MINNONTERM .. t.Cur_nonterm
      /\ t.productions[q].lhs \in DOMAIN t.symbols
      /\ IsProduction(t, t.productions[q]) /\ IsProduction(t, prod)
  BY LeftSides
<1>7. \A v \in Acts(prod) : IsAct(v)
  BY DEF Acts
<1>8. ~IsAct(t.productions[q].lhs)
  <2>1. PICK v \in MINNONTERM .. t.Cur_nonterm : v = t.productions[q].lhs
    BY <1>6
  <2>2. v < MINACT /\ v \in Int
    <3>1. PICK c \in Int : c = t.Cur_nonterm /\ c <= MAXNONTERM
      BY <1>3
    <3>2. v \in Int /\ v <= c
      BY <2>1, <3>1, Limits
    <3>. QED
      BY <3>1, <3>2, Limits
  <2>. QED
    BY <2>1, <2>2, Limits DEF IsAct
<1>9. ASSUME NEW i \in 1 .. Len(t.productions[q].rhs)
      PROVE  /\ t.productions[q].rhs[i] \in DOMAIN t.symbols
             /\ t.productions[q].rhs[i] \notin Acts(prod)
  <2>1. t.productions[q].rhs[i] \in DOMAIN t.symbols
    BY <1>6 DEF IsProduction
  <2>2. CASE q # p
    <3>1. prod.rhs \in Seq(Nat) /\ DOMAIN prod.rhs = 1 .. Len(prod.rhs)
      BY <1>6 DEF IsProduction
    <3>2. ActionsOnce(t)
      BY DEF Sound
    <3>3. ASSUME t.productions[q].rhs[i] \in Acts(prod)
          PROVE  FALSE
      <4>1. PICK j \in 1 .. Len(prod.rhs) :
              prod.rhs[j] = t.productions[q].rhs[i] /\ IsAct(prod.rhs[j])
        BY <3>1, <3>3 DEF Acts
      <4>. QED
        BY <2>2, <3>2, <4>1 DEF ActionsOnce
    <3>. QED
      BY <2>1, <3>3
  <2>3. CASE ~HasActions(prod)
    BY <2>1, <2>3, NothingToPatch
  <2>. QED
    BY <2>2, <2>3
<1>. HIDE DEF prod, n
<1>10. u.productions[q].lhs = t.productions[q].lhs
  BY <1>1 DEF SameSides
<1>. QED
  BY <1>1, <1>2, <1>4, <1>5, <1>6, <1>7, <1>8, <1>9, <1>10

\* Where the productions are.
LEMMA StartInTables ==
  ASSUME NEW s, IsFile(s), NEW t, Sound(t), t.Num_productions >= Cardinality(Starts(s)),
         NEW start \in Starts(s)
  PROVE  /\ Number(s, start) \in DOMAIN t.productions
         /\ IsProduction(t, t.productions[Number(s, start)])
<1>1. /\ Number(s, start) \in Nat /\ Number(s, start) < Cardinality(Starts(s))
      /\ Cardinality(Starts(s)) \in Nat
  BY NumberFacts
<1>2. t.Num_productions \in Nat /\ DOMAIN t.productions = 0 .. t.Num_productions - 1
  BY DEF Sound, Numbers, ProductionsHold
<1>3. Number(s, start) \in DOMAIN t.productions
  BY <1>1, <1>2
<1>. QED
  BY <1>3, LeftSides

\* And what is known of it stays known.
LEMMA OthersPatched ==
  ASSUME NEW s, IsFile(s), NEW t, Sound(t), NEW cs,
         t.Num_productions >= Cardinality(Starts(s)),
         NEW p \in DOMAIN t.productions, NEW u, PatchLeaves(t, p, u),
         NEW start \in Starts(s), PatchedStart(s, t, cs, start),
         Number(s, start) # p \/ ~HasActions(t.productions[p]),
         NEW cs2, \A c : c.prod = Number(s, start) => (c \in cs2 <=> c \in cs)
  PROVE  /\ PatchedStart(s, u, cs2, start)
         /\ HasActions(u.productions[Number(s, start)])
              <=> HasActions(t.productions[Number(s, start)])
<1>. DEFINE q    == Number(s, start)
            prod == t.productions[q]
            rhs  == prod.rhs
<1>1. q \in DOMAIN t.productions /\ IsProduction(t, prod)
  BY StartInTables
<1>2. /\ SameSides(t, u, q)
      /\ HasActions(u.productions[q]) <=> HasActions(prod)
      /\ q \in DOMAIN u.productions
      /\ u.productions[q].lhs \in DOMAIN u.symbols
      /\ u.symbols[u.productions[q].lhs] = t.symbols[prod.lhs]
      /\ \A i \in 1 .. Len(rhs) : rhs[i] \in DOMAIN u.symbols /\ u.symbols[rhs[i]] = t.symbols[rhs[i]]
  <2>. HIDE DEF q
  <2>. QED
    BY <1>1, SidesStay DEF q
<1>3. /\ u.productions[q].lhs = prod.lhs /\ u.productions[q].rhs = rhs
      /\ u.productions[q].rhs_len = prod.rhs_len
  BY <1>2 DEF SameSides
<1>4. t.symbols[prod.lhs].name = LhsOf(s, start)
  BY DEF PatchedStart
<1>5. u.symbols[u.productions[q].lhs].name = LhsOf(s, start)
  BY <1>2, <1>4
<1>6. ASSUME HasActions(prod)
      PROVE  Unpatched(s, u, cs2, start)
  <2>1. Unpatched(s, t, cs, start)
    BY <1>6 DEF PatchedStart
  <2>2. /\ \A c \in cs : c.prod # q
        /\ t.symbols[prod.lhs].field = LastField(s, LhsOf(s, start))
        /\ prod.rhs_len = Cardinality(ObjectsOf(s, start))
        /\ prod.rhs_len = Len(rhs)
        /\ \A i \in ObjectsOf(s, start) :
             IF KindAt(s, i) = "ACTION"
             THEN /\ IsAct(rhs[Place(s, i)]) /\ t.symbols[rhs[Place(s, i)]].name = TextAt(s, i)
                  /\ t.symbols[rhs[Place(s, i)]].field = ""
             ELSE /\ ~IsAct(rhs[Place(s, i)])
                  /\ t.symbols[rhs[Place(s, i)]].field = LastField(s, TextAt(s, i))
    BY <2>1 DEF Unpatched
  <2>3. \A i \in ObjectsOf(s, start) : Place(s, i) \in 1 .. Len(rhs)
    <3>. TAKE i \in ObjectsOf(s, start)
    <3>1. Place(s, i) \in Nat \ {0} /\ Place(s, i) <= Cardinality(ObjectsOf(s, start))
          /\ Cardinality(ObjectsOf(s, start)) \in Nat
      BY PlaceFacts
    <3>2. Len(rhs) = Cardinality(ObjectsOf(s, start))
      BY <2>2
    <3>. HIDE DEF rhs
    <3>3. PICK n \in Nat : n = Len(rhs)
      BY <3>1, <3>2
    <3>4. Place(s, i) <= n
      BY <3>1, <3>2, <3>3
    <3>. QED
      BY <3>1, <3>3, <3>4
  <2>4. \A c \in cs2 : c.prod # q
    BY <2>2
  <2>5. u.symbols[u.productions[q].lhs].field = LastField(s, LhsOf(s, start))
    BY <1>2, <2>2
  <2>. HIDE DEF q, prod, rhs
  <2>6. \A i \in ObjectsOf(s, start) :
             IF KindAt(s, i) = "ACTION"
             THEN /\ IsAct(rhs[Place(s, i)]) /\ u.symbols[rhs[Place(s, i)]].name = TextAt(s, i)
                  /\ u.symbols[rhs[Place(s, i)]].field = ""
             ELSE /\ ~IsAct(rhs[Place(s, i)])
                  /\ u.symbols[rhs[Place(s, i)]].field = LastField(s, TextAt(s, i))
    BY <1>2, <2>2, <2>3
  <2>. QED
    BY <1>3, <2>2, <2>4, <2>5, <2>6 DEF Unpatched, q
<1>7. ASSUME ~HasActions(prod)
      PROVE  ActionsMade(s, u, cs2, start)
  <2>1. ActionsMade(s, t, cs, start)
    BY <1>7 DEF PatchedStart
  <2>2. {c \in cs2 : c.prod = q} = {c \in cs : c.prod = q}
    OBVIOUS
  <2>3. ASSUME NEW i \in ActionsOf(s, start)
        PROVE  /\ IsLast(s, i) => Len(rhs) = Place(s, i) - 1
               /\ ~IsLast(s, i) =>
                    /\ Place(s, i) <= Len(rhs)
                    /\ Place(s, i) \in 1 .. Len(rhs)
                    /\ rhs[Place(s, i)] \in DOMAIN t.symbols
                    /\ \E r \in DOMAIN t.productions :
                         /\ t.symbols[rhs[Place(s, i)]].productions = <<r>>
                         /\ t.productions[r].lhs = rhs[Place(s, i)]
                         /\ t.productions[r].rhs = <<>>
               /\ StartOf(s, i) = start
    <3>1. i \in ObjectsOf(s, start)
      BY DEF ActionsOf
    <3>2. Place(s, i) \in Nat \ {0} /\ StartOf(s, i) = start
      BY <3>1, PlaceFacts
    <3>3. Len(rhs) \in Nat
      BY <1>1 DEF IsProduction
    <3>4. IF IsLast(s, i) THEN Len(rhs) = Place(s, i) - 1
          ELSE /\ Place(s, i) <= Len(rhs)
               /\ rhs[Place(s, i)] \in DOMAIN t.symbols
               /\ \E r \in DOMAIN t.productions :
                    /\ t.symbols[rhs[Place(s, i)]].productions = <<r>>
                    /\ t.productions[r].lhs = rhs[Place(s, i)]
                    /\ t.productions[r].rhs = <<>>
      BY <2>1 DEF ActionsMade
    <3>. HIDE DEF rhs
    <3>5. Place(s, i) <= Len(rhs) => Place(s, i) \in 1 .. Len(rhs)
      BY <3>2, <3>3
    <3>. QED
      BY <3>2, <3>4, <3>5
  <2>4. ASSUME NEW i \in ActionsOf(s, start)
        PROVE  ReducedBy(s, u, i) = ReducedBy(s, t, i)
    <3>1. StartOf(s, i) = start
      BY <2>3
    <3>2. CASE IsLast(s, i)
      BY <3>2 DEF ReducedBy
    <3>3. CASE ~IsLast(s, i)
      <4>1. u.symbols[rhs[Place(s, i)]] = t.symbols[rhs[Place(s, i)]]
        BY <1>2, <2>3, <3>3
      <4>2. u.symbols[u.productions[Number(s, StartOf(s, i))].rhs[Place(s, i)]]
              = t.symbols[t.productions[Number(s, StartOf(s, i))].rhs[Place(s, i)]]
        BY <1>3, <3>1, <4>1
      <4>. QED
        BY <3>3, <4>2 DEF ReducedBy
    <3>. QED
      BY <3>2, <3>3
  <2>5. {c \in cs : c.prod = q} = {CaseFor(s, i, ReducedBy(s, t, i)) : i \in ActionsOf(s, start)}
    BY <2>1 DEF ActionsMade
  <2>6. {CaseFor(s, i, ReducedBy(s, u, i)) : i \in ActionsOf(s, start)}
          = {CaseFor(s, i, ReducedBy(s, t, i)) : i \in ActionsOf(s, start)}
    BY <2>4
  <2>7. ASSUME NEW r \in DOMAIN t.productions, t.productions[r].rhs = <<>>
        PROVE  /\ r \in DOMAIN u.productions
               /\ u.productions[r].lhs = t.productions[r].lhs
               /\ u.productions[r].rhs = <<>>
    <3>1. Len(t.productions[r].rhs) = 0
      BY <2>7
    <3>2. ~HasActions(t.productions[r])
      BY <3>1 DEF HasActions
    <3>3. r # p \/ ~HasActions(t.productions[p])
      BY <3>2
    <3>4. SameSides(t, u, r) /\ r \in DOMAIN u.productions
      BY <3>3, SidesStay
    <3>. QED
      BY <2>7, <3>4 DEF SameSides
  <2>8. ASSUME NEW i \in ActionsOf(s, start)
        PROVE  IF IsLast(s, i) THEN Len(rhs) = Place(s, i) - 1
               ELSE /\ Place(s, i) <= Len(rhs)
                    /\ rhs[Place(s, i)] \in DOMAIN u.symbols
                    /\ \E r \in DOMAIN u.productions :
                         /\ u.symbols[rhs[Place(s, i)]].productions = <<r>>
                         /\ u.productions[r].lhs = rhs[Place(s, i)]
                         /\ u.productions[r].rhs = <<>>
    <3>1. CASE IsLast(s, i)
      BY <2>3, <3>1
    <3>2. CASE ~IsLast(s, i)
      <4>1. /\ Place(s, i) <= Len(rhs) /\ Place(s, i) \in 1 .. Len(rhs)
            /\ \E r \in DOMAIN t.productions :
                 /\ t.symbols[rhs[Place(s, i)]].productions = <<r>>
                 /\ t.productions[r].lhs = rhs[Place(s, i)]
                 /\ t.productions[r].rhs = <<>>
        BY <2>3, <3>2
      <4>2. PICK r \in DOMAIN t.productions :
                 /\ t.symbols[rhs[Place(s, i)]].productions = <<r>>
                 /\ t.productions[r].lhs = rhs[Place(s, i)]
                 /\ t.productions[r].rhs = <<>>
        BY <4>1
      <4>3. /\ rhs[Place(s, i)] \in DOMAIN u.symbols
            /\ u.symbols[rhs[Place(s, i)]] = t.symbols[rhs[Place(s, i)]]
        BY <1>2, <4>1
      <4>4. /\ r \in DOMAIN u.productions /\ u.productions[r].lhs = rhs[Place(s, i)]
            /\ u.productions[r].rhs = <<>>
        BY <2>7, <4>2
      <4>. HIDE DEF rhs
      <4>. QED
        BY <3>2, <4>1, <4>2, <4>3, <4>4
    <3>. QED
      BY <3>1, <3>2
  <2>. HIDE DEF prod, rhs, q
  <2>. QED
    BY <1>3, <2>2, <2>5, <2>6, <2>8 DEF ActionsMade, q
<1>. QED
  BY <1>2, <1>5, <1>6, <1>7 DEF PatchedStart

\* The actions of the file and those of the right-hand side, while they are all there.
LEMMA ActionPlaces ==
  ASSUME NEW s, IsFile(s), NEW t, Sound(t), NEW cs, NEW start \in Starts(s),
         Unpatched(s, t, cs, start), NEW prod, prod = t.productions[Number(s, start)],
         IsProduction(t, prod)
  PROVE  /\ \A i \in ActionsOf(s, start) :
              /\ i \in ObjectsOf(s, start) /\ StartOf(s, i) = start
              /\ Place(s, i) \in 1 .. Len(prod.rhs)
              /\ IsAct(prod.rhs[Place(s, i)])
              /\ t.symbols[prod.rhs[Place(s, i)]].name = TextAt(s, i)
              /\ IsLast(s, i) => EndsWithAction(prod) /\ Place(s, i) = prod.rhs_len
              /\ ~IsLast(s, i) => Place(s, i) \in Embedded(prod)
         /\ \A j \in Embedded(prod) :
              \E i \in ActionsOf(s, start) : Place(s, i) = j /\ ~IsLast(s, i)
         /\ EndsWithAction(prod) =>
              \E i \in ActionsOf(s, start) : Place(s, i) = prod.rhs_len /\ IsLast(s, i)
<1>. DEFINE rhs == prod.rhs
            n   == Len(rhs)
<1>1. /\ rhs \in Seq(Nat) /\ n \in Nat /\ prod.rhs_len = n
      /\ Cardinality(ObjectsOf(s, start)) = n
      /\ \A i \in ObjectsOf(s, start) :
             IF KindAt(s, i) = "ACTION"
             THEN IsAct(rhs[Place(s, i)]) /\ t.symbols[rhs[Place(s, i)]].name = TextAt(s, i)
             ELSE ~IsAct(rhs[Place(s, i)])
  BY DEF Unpatched, IsProduction
<1>2. /\ EndsWithAction(prod) <=> n \in 1 .. n /\ IsAct(rhs[n])
      /\ Embedded(prod) = {j \in 1 .. n : IsAct(rhs[j]) /\ ~(EndsWithAction(prod) /\ j = n)}
  BY <1>1 DEF EndsWithAction, Embedded
<1>. HIDE DEF rhs, n
<1>3. ASSUME NEW i \in ObjectsOf(s, start)
      PROVE  /\ StartOf(s, i) = start
             /\ Place(s, i) \in 1 .. n
             /\ IsLast(s, i) <=> Place(s, i) = n
  <2>1. /\ StartOf(s, i) = start /\ Place(s, i) \in Nat \ {0}
        /\ Place(s, i) <= Cardinality(ObjectsOf(s, start))
    BY PlaceFacts
  <2>. QED
    BY <1>1, <2>1 DEF IsLast
<1>4. ASSUME NEW i \in ActionsOf(s, start)
      PROVE  /\ i \in ObjectsOf(s, start) /\ StartOf(s, i) = start
             /\ Place(s, i) \in 1 .. n
             /\ IsAct(rhs[Place(s, i)])
             /\ t.symbols[rhs[Place(s, i)]].name = TextAt(s, i)
             /\ IsLast(s, i) => EndsWithAction(prod) /\ Place(s, i) = n
             /\ ~IsLast(s, i) => Place(s, i) \in Embedded(prod)
  <2>1. i \in ObjectsOf(s, start) /\ KindAt(s, i) = "ACTION"
    BY DEF ActionsOf
  <2>2. IsAct(rhs[Place(s, i)]) /\ t.symbols[rhs[Place(s, i)]].name = TextAt(s, i)
    BY <1>1, <2>1
  <2>3. StartOf(s, i) = start /\ Place(s, i) \in 1 .. n /\ (IsLast(s, i) <=> Place(s, i) = n)
    BY <1>3, <2>1
  <2>. QED
    BY <1>2, <2>1, <2>2, <2>3
<1>5. ASSUME NEW j \in 1 .. n, IsAct(rhs[j])
      PROVE  \E i \in ActionsOf(s, start) : Place(s, i) = j /\ (IsLast(s, i) <=> j = n)
  <2>1. PICK i \in ObjectsOf(s, start) : Place(s, i) = j
    BY <1>1, ObjectAtPlace
  <2>2. KindAt(s, i) = "ACTION"
    BY <1>1, <1>5, <2>1
  <2>3. i \in ActionsOf(s, start)
    BY <2>2 DEF ActionsOf
  <2>. QED
    BY <1>3, <2>1, <2>3
<1>6. ASSUME NEW j \in Embedded(prod)
      PROVE  \E i \in ActionsOf(s, start) : Place(s, i) = j /\ ~IsLast(s, i)
  <2>1. j \in 1 .. n /\ IsAct(rhs[j]) /\ j # n
    BY <1>2
  <2>. QED
    BY <1>5, <2>1
<1>7. ASSUME EndsWithAction(prod)
      PROVE  \E i \in ActionsOf(s, start) : Place(s, i) = n /\ IsLast(s, i)
  BY <1>2, <1>5, <1>7
<1>8. prod.rhs = rhs /\ Len(prod.rhs) = n
  BY DEF rhs, n
<1>. QED
  BY <1>1, <1>4, <1>6, <1>7, <1>8

\* The fields for $$ and $n are those the file names.
LEMMA FieldsRight ==
  ASSUME NEW s, IsFile(s), NEW t, Sound(t), NEW cs, NEW start \in Starts(s),
         Unpatched(s, t, cs, start), NEW prod, prod = t.productions[Number(s, start)],
         IsProduction(t, prod), NEW i \in ObjectsOf(s, start)
  PROVE  FieldsOf(t, prod, Place(s, i)) = FieldsFor(s, i)
<1>. DEFINE rhs == prod.rhs
            k   == Place(s, i)
            object(n) == CHOOSE j \in ObjectsOf(s, start) : Place(s, j) = n
<1>1. /\ t.symbols[prod.lhs].field = LastField(s, LhsOf(s, start))
      /\ \A j \in ObjectsOf(s, start) :
             IF KindAt(s, j) = "ACTION" THEN t.symbols[rhs[Place(s, j)]].field = ""
             ELSE t.symbols[rhs[Place(s, j)]].field = LastField(s, TextAt(s, j))
  BY DEF Unpatched
<1>2. /\ StartOf(s, i) = start /\ k \in Nat \ {0}
      /\ k <= Cardinality(ObjectsOf(s, start)) /\ Cardinality(ObjectsOf(s, start)) \in Nat
  BY PlaceFacts
<1>3. ASSUME NEW n \in 0 .. k - 1
      PROVE  t.symbols[IF n = 0 THEN prod.lhs ELSE rhs[n]].field
               = IF n = 0 THEN LastField(s, LhsOf(s, start))
                 ELSE IF KindAt(s, object(n)) = "ACTION" THEN ""
                      ELSE LastField(s, TextAt(s, object(n)))
  <2>1. CASE n = 0
    BY <1>1, <2>1
  <2>2. CASE n # 0
    <3>1. n \in 1 .. Cardinality(ObjectsOf(s, start))
      BY <1>2, <2>2
    <3>2. \E j \in ObjectsOf(s, start) : Place(s, j) = n
      BY <3>1, ObjectAtPlace
    <3>3. object(n) \in ObjectsOf(s, start) /\ Place(s, object(n)) = n
      BY <3>2
    <3>. QED
      BY <1>1, <2>2, <3>3
  <2>. QED
    BY <2>1, <2>2
<1>4. FieldsFor(s, i) = [n \in 0 .. k - 1 |->
                           IF n = 0 THEN LastField(s, LhsOf(s, start))
                           ELSE IF KindAt(s, object(n)) = "ACTION" THEN ""
                                ELSE LastField(s, TextAt(s, object(n)))]
  BY <1>2 DEF FieldsFor
<1>5. FieldsOf(t, prod, k)
        = [n \in 0 .. k - 1 |-> t.symbols[IF n = 0 THEN prod.lhs ELSE rhs[n]].field]
  BY DEF FieldsOf, RhsSize
<1>. QED
  BY <1>3, <1>4, <1>5

\* The cases dopatch() prints for a production are those of its actions.
LEMMA CasesRight ==
  ASSUME NEW s, IsFile(s), NEW t, Sound(t), NEW cs, NEW start \in Starts(s),
         Unpatched(s, t, cs, start), NEW p \in DOMAIN t.productions, p = Number(s, start),
         NEW u, PatchLeaves(t, p, u), PatchBrings(t, p, u)
  PROVE  /\ CasesOf(t, p) = {CaseFor(s, i, ReducedBy(s, u, i)) : i \in ActionsOf(s, start)}
         /\ \A c \in CasesOf(t, p) : c.prod = p
         /\ \A i \in ActionsOf(s, start) :
              ~IsLast(s, i) =>
                /\ Place(s, i) \in Embedded(t.productions[p])
                /\ u.productions[p].rhs[Place(s, i)] = NewSymbol(t, t.productions[p], Place(s, i))
                /\ Place(s, i) <= Len(u.productions[p].rhs)
         /\ \A i \in ActionsOf(s, start) :
              IsLast(s, i) => Len(u.productions[p].rhs) = Place(s, i) - 1
<1>. DEFINE prod == t.productions[p]
            E    == Embedded(prod)
            rhs  == prod.rhs
            C(j, val) == [case_val |-> val, action |-> t.symbols[rhs[j]].name,
                          rhs_size |-> RhsSize(prod, j), prod |-> p,
                          fields |-> FieldsOf(t, prod, j)]
<1>1. IsProduction(t, prod)
  BY LeftSides
<1>2. /\ \A i \in ActionsOf(s, start) :
           /\ i \in ObjectsOf(s, start) /\ StartOf(s, i) = start
           /\ Place(s, i) \in 1 .. Len(rhs)
           /\ IsAct(rhs[Place(s, i)])
           /\ t.symbols[rhs[Place(s, i)]].name = TextAt(s, i)
           /\ IsLast(s, i) => EndsWithAction(prod) /\ Place(s, i) = prod.rhs_len
           /\ ~IsLast(s, i) => Place(s, i) \in E
      /\ \A j \in E : \E i \in ActionsOf(s, start) : Place(s, i) = j /\ ~IsLast(s, i)
      /\ EndsWithAction(prod) =>
           \E i \in ActionsOf(s, start) : Place(s, i) = prod.rhs_len /\ IsLast(s, i)
  BY <1>1, ActionPlaces
<1>3. CasesOf(t, p) = {C(j, NewProduction(t, prod, j)) : j \in E}
                        \cup (IF EndsWithAction(prod) THEN {C(prod.rhs_len, p)} ELSE {})
  BY DEF CasesOf
<1>4. \A i \in ActionsOf(s, start) : FieldsOf(t, prod, Place(s, i)) = FieldsFor(s, i)
  BY <1>1, <1>2, FieldsRight
<1>5. /\ u.productions[p].rhs = RhsAfter(t, prod)
      /\ \A i \in E : u.symbols[NewSymbol(t, prod, i)].productions = <<NewProduction(t, prod, i)>>
      /\ u.productions[p].rhs \in Seq(Nat)
      /\ Len(u.productions[p].rhs) = Len(rhs) - Dropped(prod)
      /\ E \subseteq 1 .. Len(u.productions[p].rhs)
      /\ \A i \in E : u.productions[p].rhs[i] = NewSymbol(t, prod, i)
  BY <1>1, RhsAfterFacts DEF PatchLeaves, PatchBrings
<1>6. rhs \in Seq(Nat) /\ Len(rhs) \in Nat /\ prod.rhs_len = Len(rhs)
  BY <1>1 DEF Unpatched, IsProduction
<1>. HIDE DEF prod, rhs, E
<1>7. ASSUME NEW i \in ActionsOf(s, start), NEW val
      PROVE  C(Place(s, i), val) = CaseFor(s, i, val)
  BY <1>2, <1>4 DEF CaseFor, RhsSize
<1>8. ASSUME NEW i \in ActionsOf(s, start)
      PROVE  ReducedBy(s, u, i) = IF IsLast(s, i) THEN p ELSE NewProduction(t, prod, Place(s, i))
  <2>1. CASE IsLast(s, i)
    BY <1>2, <2>1 DEF ReducedBy
  <2>2. CASE ~IsLast(s, i)
    <3>1. Place(s, i) \in E /\ StartOf(s, i) = start
      BY <1>2, <2>2
    <3>2. u.symbols[u.productions[p].rhs[Place(s, i)]].productions
            = <<NewProduction(t, prod, Place(s, i))>>
      BY <1>5, <3>1
    <3>3. ReducedBy(s, u, i) = Head(<<NewProduction(t, prod, Place(s, i))>>)
      BY <2>2, <3>1, <3>2 DEF ReducedBy
    <3>. QED
      BY <2>2, <3>3
  <2>. QED
    BY <2>1, <2>2
<1>. HIDE DEF C
<1>9. ASSUME NEW c \in CasesOf(t, p)
      PROVE  \E i \in ActionsOf(s, start) : c = CaseFor(s, i, ReducedBy(s, u, i))
  <2>1. CASE \E j \in E : c = C(j, NewProduction(t, prod, j))
    <3>1. PICK j \in E : c = C(j, NewProduction(t, prod, j))
      BY <2>1
    <3>2. PICK i \in ActionsOf(s, start) : Place(s, i) = j /\ ~IsLast(s, i)
      BY <1>2
    <3>. QED
      BY <1>7, <1>8, <3>1, <3>2
  <2>2. CASE EndsWithAction(prod) /\ c = C(prod.rhs_len, p)
    <3>1. PICK i \in ActionsOf(s, start) : Place(s, i) = prod.rhs_len /\ IsLast(s, i)
      BY <1>2, <2>2
    <3>. QED
      BY <1>7, <1>8, <2>2, <3>1
  <2>. QED
    BY <1>3, <2>1, <2>2
<1>10. ASSUME NEW i \in ActionsOf(s, start)
       PROVE  CaseFor(s, i, ReducedBy(s, u, i)) \in CasesOf(t, p)
  <2>1. CASE IsLast(s, i)
    <3>1. C(Place(s, i), p) = CaseFor(s, i, ReducedBy(s, u, i))
      BY <1>7, <1>8, <2>1
    <3>. QED
      BY <1>2, <1>3, <2>1, <3>1
  <2>2. CASE ~IsLast(s, i)
    <3>1. C(Place(s, i), NewProduction(t, prod, Place(s, i))) = CaseFor(s, i, ReducedBy(s, u, i))
      BY <1>7, <1>8, <2>2
    <3>. QED
      BY <1>2, <1>3, <2>2, <3>1
  <2>. QED
    BY <2>1, <2>2
<1>11. \A c \in CasesOf(t, p) : c.prod = p
  BY <1>3 DEF C
<1>12. \A i \in ActionsOf(s, start) :
         ~IsLast(s, i) =>
           /\ Place(s, i) \in E
           /\ u.productions[p].rhs[Place(s, i)] = NewSymbol(t, prod, Place(s, i))
           /\ Place(s, i) <= Len(u.productions[p].rhs)
  <2>. TAKE i \in ActionsOf(s, start)
  <2>. HAVE ~IsLast(s, i)
  <2>1. Place(s, i) \in E
    BY <1>2
  <2>2. PICK w \in Seq(Nat) : w = u.productions[p].rhs
    BY <1>5
  <2>3. PICK k \in Nat : k = Len(w)
    BY <2>2
  <2>4. Place(s, i) <= k
    <3>1. E \subseteq 1 .. k
      BY <1>5, <2>2, <2>3
    <3>2. PICK m \in 1 .. k : m = Place(s, i)
      BY <2>1, <3>1
    <3>. QED
      BY <3>2
  <2>. QED
    BY <1>5, <2>1, <2>2, <2>3, <2>4
<1>13. \A i \in ActionsOf(s, start) : IsLast(s, i) => Len(u.productions[p].rhs) = Place(s, i) - 1
  <2>. TAKE i \in ActionsOf(s, start)
  <2>. HAVE IsLast(s, i)
  <2>1. EndsWithAction(prod) /\ Place(s, i) = Len(rhs)
    BY <1>2, <1>6
  <2>. QED
    BY <1>5, <2>1 DEF Dropped
<1>. QED
  BY <1>9, <1>10, <1>11, <1>12, <1>13 DEF E, prod

LEMMA ThisPatched ==
  ASSUME NEW s, IsFile(s), NEW t, Sound(t), NEW cs, NEW start \in Starts(s),
         PatchedStart(s, t, cs, start), NEW p \in DOMAIN t.productions, p = Number(s, start),
         HasActions(t.productions[p]),
         NEW u, PatchLeaves(t, p, u), PatchBrings(t, p, u)
  PROVE  PatchedStart(s, u, cs \cup CasesOf(t, p), start)
<1>. DEFINE prod == t.productions[p]
            new  == u.productions[p].rhs
<1>1. Unpatched(s, t, cs, start) /\ t.symbols[prod.lhs].name = LhsOf(s, start)
  BY DEF PatchedStart
<1>2. /\ CasesOf(t, p) = {CaseFor(s, i, ReducedBy(s, u, i)) : i \in ActionsOf(s, start)}
      /\ \A c \in CasesOf(t, p) : c.prod = p
      /\ \A i \in ActionsOf(s, start) :
           ~IsLast(s, i) =>
             /\ Place(s, i) \in Embedded(prod)
             /\ new[Place(s, i)] = NewSymbol(t, prod, Place(s, i))
             /\ Place(s, i) <= Len(new)
      /\ \A i \in ActionsOf(s, start) : IsLast(s, i) => Len(new) = Place(s, i) - 1
  BY <1>1, CasesRight
<1>3. \A c \in cs : c.prod # p
  BY <1>1 DEF Unpatched
<1>4. {c \in cs \cup CasesOf(t, p) : c.prod = p} = CasesOf(t, p)
  BY <1>2, <1>3
<1>5. ~HasActions(u.productions[p])
  BY NoActionLeft
<1>6. u.symbols[u.productions[p].lhs].name = LhsOf(s, start)
  <2>1. prod.lhs \in MINNONTERM .. t.Cur_nonterm /\ prod.lhs \in DOMAIN t.symbols
    BY LeftSides
  <2>2. ~IsAct(prod.lhs)
    <3>1. PICK c \in Int : c = t.Cur_nonterm /\ c <= MAXNONTERM
      BY Limits DEF Sound, Numbers
    <3>2. PICK v \in MINNONTERM .. c : v = prod.lhs
      BY <2>1, <3>1
    <3>. QED
      BY <3>1, <3>2, Limits DEF IsAct
  <2>3. prod.lhs \notin Acts(prod)
    BY <2>2 DEF Acts
  <2>4. u.productions[p].lhs = prod.lhs /\ u.symbols[prod.lhs] = t.symbols[prod.lhs]
    BY <2>1, <2>3 DEF PatchLeaves
  <2>. QED
    BY <1>1, <2>4
<1>7. ASSUME NEW i \in ActionsOf(s, start), ~IsLast(s, i)
      PROVE  /\ Place(s, i) <= Len(new)
             /\ new[Place(s, i)] \in DOMAIN u.symbols
             /\ \E r \in DOMAIN u.productions :
                  /\ u.symbols[new[Place(s, i)]].productions = <<r>>
                  /\ u.productions[r].lhs = new[Place(s, i)]
                  /\ u.productions[r].rhs = <<>>
  <2>1. PICK j \in Embedded(prod) : j = Place(s, i)
    BY <1>2, <1>7
  <2>2. j <= Len(new) /\ new[j] = NewSymbol(t, prod, j)
    BY <1>2, <1>7, <2>1
  <2>3. PICK r : r = NewProduction(t, prod, j)
    OBVIOUS
  <2>4. /\ r \in DOMAIN u.productions
        /\ u.productions[r].lhs = NewSymbol(t, prod, j)
        /\ u.productions[r].rhs = <<>>
        /\ NewSymbol(t, prod, j) \in DOMAIN u.symbols
        /\ u.symbols[NewSymbol(t, prod, j)].productions = <<r>>
    BY <2>3 DEF PatchBrings
  <2>. HIDE DEF new, prod
  <2>. QED
    BY <2>1, <2>2, <2>4
<1>8. ActionsMade(s, u, cs \cup CasesOf(t, p), start)
  BY <1>2, <1>4, <1>7 DEF ActionsMade
<1>. QED
  BY <1>5, <1>6, <1>8 DEF PatchedStart

\* The inner actions of a production.
InnerOf(s, start) == {i \in Inner(s) : StartOf(s, i) = start}

LEMMA InnerActions ==
  ASSUME NEW s, IsFile(s), AcceptedFile(s), NEW start \in Starts(s)
  PROVE  /\ InnerOf(s, start) = {i \in ActionsOf(s, start) : ~IsLast(s, i)}
         /\ IsFiniteSet(Inner(s)) /\ Cardinality(Inner(s)) \in Nat
<1>1. ASSUME NEW i \in InnerOf(s, start)
      PROVE  i \in ActionsOf(s, start) /\ ~IsLast(s, i)
  <2>1. /\ i \in Objects(s) /\ KindAt(s, i) = "ACTION" /\ StartOf(s, i) = start
        /\ Place(s, i) < Cardinality(ObjectsOf(s, StartOf(s, i)))
    BY DEF InnerOf, Inner
  <2>2. i \in ObjectsOf(s, start)
    BY <2>1, ObjectStart
  <2>3. Place(s, i) \in Nat /\ Cardinality(ObjectsOf(s, start)) \in Nat
    BY <2>2, PlaceFacts
  <2>4. Place(s, i) # Cardinality(ObjectsOf(s, start))
    BY <2>1, <2>3
  <2>. QED
    BY <2>1, <2>2, <2>4 DEF ActionsOf, IsLast
<1>2. ASSUME NEW i \in ActionsOf(s, start), ~IsLast(s, i)
      PROVE  i \in InnerOf(s, start)
  <2>1. i \in ObjectsOf(s, start) /\ KindAt(s, i) = "ACTION"
    BY DEF ActionsOf
  <2>2. /\ StartOf(s, i) = start /\ i \in Objects(s)
        /\ Place(s, i) \in Nat /\ Cardinality(ObjectsOf(s, start)) \in Nat
        /\ Place(s, i) <= Cardinality(ObjectsOf(s, start))
    BY <2>1, PlaceFacts
  <2>3. Place(s, i) < Cardinality(ObjectsOf(s, start))
    BY <1>2, <2>2 DEF IsLast
  <2>. QED
    BY <2>1, <2>2, <2>3 DEF InnerOf, Inner
<1>3. IsFiniteSet(Inner(s)) /\ Cardinality(Inner(s)) \in Nat
  <2>1. Inner(s) \in SUBSET (1 .. Len(s)) /\ Len(s) \in Nat
    BY PositionsInFile DEF Inner, Within
  <2>2. IsFiniteSet(1 .. Len(s))
    BY <2>1, FS_Interval
  <2>. QED
    BY <2>1, <2>2, FS_Subset, FS_CardinalityType
<1>. QED
  BY <1>1, <1>2, <1>3

LEMMA InnerCounted ==
  ASSUME NEW s, IsFile(s), AcceptedFile(s), NEW t, Sound(t), NEW cs, NEW start \in Starts(s),
         Unpatched(s, t, cs, start), NEW prod, prod = t.productions[Number(s, start)],
         IsProduction(t, prod)
  PROVE  Cardinality(InnerOf(s, start)) = Cardinality(Embedded(prod))
<1>. DEFINE S == InnerOf(s, start)
            E == Embedded(prod)
            f == [i \in S |-> Place(s, i)]
<1>1. S = {i \in ActionsOf(s, start) : ~IsLast(s, i)} /\ IsFiniteSet(S)
  <2>1. S \subseteq Inner(s)
    BY DEF InnerOf
  <2>. QED
    BY <2>1, InnerActions, FS_Subset
<1>2. /\ \A i \in S : i \in ObjectsOf(s, start) /\ Place(s, i) \in E
      /\ \A j \in E : \E i \in S : Place(s, i) = j
  BY <1>1, ActionPlaces
<1>3. \A i, j \in S : Place(s, i) = Place(s, j) => i = j
  BY <1>2, PlaceFacts
<1>. HIDE DEF S, E
<1>4. E = {f[i] : i \in S}
  BY <1>2
<1>5. \A i, j \in S : f[i] = f[j] => i = j
  BY <1>3
<1>6. DOMAIN f = S /\ f = [i \in S |-> f[i]]
  OBVIOUS
<1>. HIDE DEF f
<1>7. Cardinality(E) = Cardinality(S)
  BY <1>1, <1>4, <1>5, <1>6, OneToOne
<1>. QED
  BY <1>7 DEF S, E

\* The nonterminals that are needed for one production more.
LEMMA OneMoreCounted ==
  ASSUME NEW s, IsFile(s), AcceptedFile(s), NEW t, Sound(t), NEW cs, NEW start \in Starts(s),
         Unpatched(s, t, cs, start), NEW prod, prod = t.productions[Number(s, start)],
         IsProduction(t, prod), HasActions(prod)
  PROVE  LET both == Replaced(s, t) \cup InnerOf(s, start)
         IN /\ Cardinality(both) = Cardinality(Replaced(s, t)) + Cardinality(Embedded(prod))
            /\ Cardinality(both) <= Cardinality(Inner(s))
            /\ Cardinality(Replaced(s, t)) \in Nat
            /\ Cardinality(both) \in Nat
            /\ Cardinality(Inner(s)) \in Nat
<1>. DEFINE R == Replaced(s, t)
            S == InnerOf(s, start)
            I == Inner(s)
<1>1. IsFiniteSet(I) /\ R \in SUBSET I /\ S \in SUBSET I /\ Cardinality(I) \in Nat
  BY InnerActions DEF Replaced, InnerOf
<1>2. R \cap S = {}
  BY DEF Replaced, InnerOf
<1>3. Cardinality(S) = Cardinality(Embedded(prod))
  BY InnerCounted
<1>. HIDE DEF R, S, I
<1>4. /\ IsFiniteSet(R) /\ IsFiniteSet(S) /\ Cardinality(R) \in Nat /\ Cardinality(S) \in Nat
  BY <1>1, FS_Subset, FS_CardinalityType
<1>5. Cardinality(R \cup S) = Cardinality(R) + Cardinality(S) - Cardinality(R \cap S)
  BY <1>4, FS_Union
<1>6. Cardinality(R \cap S) = 0
  BY <1>2, FS_EmptySet
<1>7. Cardinality(R \cup S) = Cardinality(R) + Cardinality(S)
  BY <1>4, <1>5, <1>6
<1>8. R \cup S \in SUBSET I
  BY <1>1
<1>9. Cardinality(R \cup S) <= Cardinality(I)
  BY <1>1, <1>8, FS_Subset
<1>10. Cardinality(R \cup S) \in Nat
  BY <1>4, <1>7
<1>. QED
  BY <1>1, <1>3, <1>4, <1>7, <1>9, <1>10 DEF R, S, I

\* Only productions of the file have actions.
LEMMA ActionsInStarts ==
  ASSUME NEW s, IsFile(s), NEW t, Sound(t), NEW cs, PatchedSoFar(s, t, cs),
         NEW p \in DOMAIN t.productions, HasActions(t.productions[p])
  PROVE  \E start \in Starts(s) : Number(s, start) = p
<1>1. /\ t.Num_productions \in Nat /\ DOMAIN t.productions = 0 .. t.Num_productions - 1
  BY DEF Sound, Numbers, ProductionsHold
<1>2. Starts(s) \in SUBSET (1 .. Len(s)) /\ Len(s) \in Nat
  BY PositionsInFile DEF Within
<1>3. Cardinality(Starts(s)) \in Nat
  <2>1. IsFiniteSet(1 .. Len(s))
    BY <1>2, FS_Interval
  <2>. QED
    BY <1>2, <2>1, FS_Subset, FS_CardinalityType
<1>4. p \notin Cardinality(Starts(s)) .. t.Num_productions - 1
  <2>. SUFFICES ASSUME p \in Cardinality(Starts(s)) .. t.Num_productions - 1
                PROVE  FALSE
    OBVIOUS
  <2>1. t.productions[p].rhs = <<>>
    BY DEF PatchedSoFar
  <2>2. Len(t.productions[p].rhs) = 0
    BY <2>1
  <2>. QED
    BY <2>2 DEF HasActions
<1>5. p \in 0 .. Cardinality(Starts(s)) - 1
  BY <1>1, <1>3, <1>4
<1>. QED
  BY <1>5, StartWithNumber

\* What dopatch() has done it keeps, and one production is done more.
LEMMA StartsOn ==
  ASSUME NEW s, IsFile(s), NEW t, Sound(t), NEW cs, PatchedSoFar(s, t, cs),
         NEW p \in DOMAIN t.productions,
         NEW u, PatchLeaves(t, p, u), PatchBrings(t, p, u), NEW start \in Starts(s)
  PROVE  /\ PatchedStart(s, u, cs \cup CasesOf(t, p), start)
         /\ HasActions(u.productions[Number(s, start)])
              <=> HasActions(t.productions[Number(s, start)]) /\ Number(s, start) # p
<1>. DEFINE cs2 == cs \cup CasesOf(t, p)
<1>1. PatchedStart(s, t, cs, start) /\ t.Num_productions >= Cardinality(Starts(s))
  BY DEF PatchedSoFar, PatchedStart
<1>2. CASE ~HasActions(t.productions[p])
  <2>1. CasesOf(t, p) = {}
    BY <1>2, NothingToPatch
  <2>2. \A c : c.prod = Number(s, start) => (c \in cs2 <=> c \in cs)
    BY <2>1
  <2>. HIDE DEF cs2
  <2>3. /\ PatchedStart(s, u, cs2, start)
        /\ HasActions(u.productions[Number(s, start)])
             <=> HasActions(t.productions[Number(s, start)])
    BY <1>1, <1>2, <2>2, OthersPatched
  <2>. QED
    BY <1>2, <2>3 DEF cs2
<1>3. CASE HasActions(t.productions[p]) /\ Number(s, start) = p
  <2>1. PatchedStart(s, u, cs \cup CasesOf(t, p), start)
    BY <1>1, <1>3, ThisPatched
  <2>2. ~HasActions(u.productions[p])
    BY NoActionLeft
  <2>. QED
    BY <1>3, <2>1, <2>2
<1>4. CASE HasActions(t.productions[p]) /\ Number(s, start) # p
  <2>1. PICK start2 \in Starts(s) : p = Number(s, start2)
    BY <1>4, ActionsInStarts
  <2>2. Unpatched(s, t, cs, start2)
    BY <1>4, <2>1 DEF PatchedSoFar
  <2>3. \A c \in CasesOf(t, p) : c.prod = p
    BY <2>1, <2>2, CasesRight
  <2>4. \A c : c.prod = Number(s, start) => (c \in cs2 <=> c \in cs)
    BY <1>4, <2>3
  <2>. HIDE DEF cs2
  <2>5. /\ PatchedStart(s, u, cs2, start)
        /\ HasActions(u.productions[Number(s, start)])
             <=> HasActions(t.productions[Number(s, start)])
    BY <1>1, <1>4, <2>4, OthersPatched
  <2>. QED
    BY <1>4, <2>5 DEF cs2
<1>. QED
  BY <1>2, <1>3, <1>4

LEMMA ReplacedOn ==
  ASSUME NEW s, IsFile(s), NEW t, Sound(t), NEW cs, PatchedSoFar(s, t, cs),
         NEW p \in DOMAIN t.productions,
         NEW u, PatchLeaves(t, p, u), PatchBrings(t, p, u)
  PROVE  /\ Cardinality(Replaced(s, u))
              = Cardinality(Replaced(s, t)) + Cardinality(Embedded(t.productions[p]))
         /\ Cardinality(Replaced(s, t)) \in Nat
<1>. DEFINE prod == t.productions[p]
            n    == Cardinality(Embedded(prod))
<1>0. AcceptedFile(s)
  BY DEF PatchedSoFar
<1>1. \A i \in Inner(s) : StartOf(s, i) \in Starts(s)
  BY <1>0, ObjectStart DEF Inner
<1>2. \A i \in Inner(s) : HasActions(u.productions[Number(s, StartOf(s, i))])
              <=> HasActions(t.productions[Number(s, StartOf(s, i))]) /\ Number(s, StartOf(s, i)) # p
  BY <1>1, StartsOn
<1>3. Cardinality(Replaced(s, t)) \in Nat
  <2>1. (Replaced(s, t) \in SUBSET Inner(s) /\ IsFiniteSet(Inner(s))) \/ Inner(s) = {}
    <3>1. CASE Starts(s) = {}
      BY <1>1, <3>1
    <3>2. CASE Starts(s) # {}
      BY <1>0, <3>2, InnerActions DEF Replaced
    <3>. QED
      BY <3>1, <3>2
  <2>2. IsFiniteSet(Replaced(s, t))
    BY <2>1, FS_Subset, FS_EmptySet DEF Replaced
  <2>. QED
    BY <2>2, FS_CardinalityType
<1>4. CASE ~HasActions(prod)
  <2>1. n = 0
    BY <1>4, NothingToPatch
  <2>2. Replaced(s, u) = Replaced(s, t)
    BY <1>2, <1>4 DEF Replaced
  <2>. QED
    BY <1>3, <2>1, <2>2
<1>5. CASE HasActions(prod)
  <2>1. PICK start \in Starts(s) : p = Number(s, start)
    BY <1>5, ActionsInStarts
  <2>2. Unpatched(s, t, cs, start)
    BY <1>5, <2>1 DEF PatchedSoFar
  <2>3. IsProduction(t, prod)
    BY LeftSides
  <2>4. Replaced(s, u) = Replaced(s, t) \cup InnerOf(s, start)
    <3>1. ASSUME NEW i \in Inner(s)
          PROVE  i \in Replaced(s, u) <=> i \in Replaced(s, t) \/ i \in InnerOf(s, start)
      <4>1. Number(s, StartOf(s, i)) = p <=> StartOf(s, i) = start
        BY <1>1, <2>1, NumberFacts
      <4>2. i \in InnerOf(s, start) <=> StartOf(s, i) = start
        BY DEF InnerOf
      <4>. QED
        BY <1>2, <4>1, <4>2 DEF Replaced
    <3>2. Replaced(s, u) \subseteq Inner(s) /\ Replaced(s, t) \subseteq Inner(s)
          /\ InnerOf(s, start) \subseteq Inner(s)
      BY DEF Replaced, InnerOf
    <3>. QED
      BY <3>1, <3>2
  <2>. HIDE DEF prod
  <2>5. Cardinality(Replaced(s, t) \cup InnerOf(s, start)) = Cardinality(Replaced(s, t)) + n
    BY <1>0, <1>5, <2>1, <2>2, <2>3, OneMoreCounted DEF prod
  <2>. QED
    BY <1>3, <2>4, <2>5 DEF prod
<1>. QED
  BY <1>4, <1>5

LEMMA PatchedOn ==
  ASSUME NEW s, IsFile(s), NEW t, Sound(t), InBody(t), NEW cs, PatchedSoFar(s, t, cs),
         NEW p \in DOMAIN t.productions,
         NEW u, PatchLeaves(t, p, u), PatchBrings(t, p, u)
  PROVE  PatchedSoFar(s, u, cs \cup CasesOf(t, p))
<1>. DEFINE prod == t.productions[p]
            n    == Cardinality(Embedded(prod))
            cs2  == cs \cup CasesOf(t, p)
            total == t.Num_productions + n
            real == MINNONTERM - 1 + Cardinality(Nonterminals(s))
<1>1. /\ AcceptedFile(s)
      /\ t.Num_productions >= Cardinality(Starts(s))
      /\ t.Cur_nonterm = real + Cardinality(Replaced(s, t))
      /\ \A q \in Cardinality(Starts(s)) .. t.Num_productions - 1 :
           t.productions[q].lhs > real /\ t.productions[q].rhs = <<>>
      /\ \A q \in DOMAIN t.productions : t.productions[q].rhs_len = Len(t.productions[q].rhs)
      /\ \A c \in cs : \E start \in Starts(s) : c.prod = Number(s, start)
      /\ t.Goal_symbol # NULL =>
           /\ t.Goal_symbol < MINNONTERM + Cardinality(Nonterminals(s))
           /\ t.symbols[t.Goal_symbol].name = TextAt(s, Min(Lhss(s)))
  BY DEF PatchedSoFar
<1>2. /\ n \in Nat /\ u.Cur_nonterm = t.Cur_nonterm + n /\ u.Num_productions = total
      /\ u.Goal_symbol = t.Goal_symbol
      /\ t.Num_productions \in Nat /\ t.Cur_nonterm \in Int
      /\ DOMAIN t.productions = 0 .. t.Num_productions - 1
  BY Limits DEF PatchLeaves, Sound, Numbers, ProductionsHold
<1>3. DOMAIN u.productions = 0 .. total - 1 /\ total \in Nat /\ total >= t.Num_productions
  <2>1. \A a, b \in Nat : /\ (a + b) - 1 = a + (b - 1)
                          /\ a + b \in Nat /\ a + b >= a
    OBVIOUS
  <2>2. DOMAIN u.productions = 0 .. t.Num_productions + n - 1
    BY DEF PatchLeaves
  <2>. HIDE DEF n
  <2>. QED
    BY <1>2, <2>1, <2>2
<1>4. /\ Cardinality(Nonterminals(s)) \in Nat /\ real \in Nat
      /\ Cardinality(Replaced(s, t)) \in Nat
      /\ Cardinality(Replaced(s, u)) = Cardinality(Replaced(s, t)) + n
  BY NamesFinite, ReplacedOn, Limits
<1>. HIDE DEF n, total, real
<1>5. u.Cur_nonterm = real + Cardinality(Replaced(s, u))
  BY <1>1, <1>2, <1>4
<1>6. \A start \in Starts(s) : PatchedStart(s, u, cs2, start)
  BY StartsOn
<1>7. \A c \in cs2 : \E start \in Starts(s) : c.prod = Number(s, start)
  <2>1. CASE ~HasActions(prod)
    <3>1. CasesOf(t, p) = {}
      BY <2>1, NothingToPatch
    <3>. QED
      BY <1>1, <3>1
  <2>2. CASE HasActions(prod)
    <3>1. PICK start \in Starts(s) : p = Number(s, start)
      BY <2>2, ActionsInStarts
    <3>2. Unpatched(s, t, cs, start)
      BY <2>2, <3>1 DEF PatchedSoFar
    <3>3. \A c \in CasesOf(t, p) : c.prod = p
      BY <3>1, <3>2, CasesRight
    <3>. QED
      BY <1>1, <3>1, <3>3
  <2>. QED
    BY <2>1, <2>2
<1>8. ASSUME NEW q \in DOMAIN u.productions, q \notin DOMAIN t.productions
      PROVE  /\ u.productions[q].lhs > real
             /\ u.productions[q].rhs = <<>>
             /\ u.productions[q].rhs_len = 0
  <2>1. PICK i \in Embedded(prod) : q = NewProduction(t, prod, i)
    BY <1>8 DEF PatchBrings
  <2>2. PICK v : v = NewSymbol(t, prod, i)
    OBVIOUS
  <2>3. /\ u.productions[q].lhs = v /\ u.productions[q].rhs = <<>>
        /\ u.productions[q].rhs_len = 0 /\ v \in Int /\ v > t.Cur_nonterm
    BY <2>1, <2>2 DEF PatchBrings
  <2>4. v > real
    BY <1>1, <1>4, <2>3
  <2>. QED
    BY <2>3, <2>4
<1>9. ASSUME NEW q \in DOMAIN u.productions
      PROVE  u.productions[q].rhs_len = Len(u.productions[q].rhs)
  <2>1. CASE q \notin DOMAIN t.productions
    BY <1>8, <2>1
  <2>2. CASE q \in DOMAIN t.productions \ {p}
    BY <1>1, <2>2 DEF PatchLeaves
  <2>3. CASE q = p
    <3>1. /\ u.productions[p].rhs = RhsAfter(t, prod)
          /\ u.productions[p].rhs_len = prod.rhs_len - Dropped(prod)
      BY DEF PatchLeaves
    <3>2. IsProduction(t, prod)
      BY LeftSides
    <3>3. Len(RhsAfter(t, prod)) = Len(prod.rhs) - Dropped(prod)
      BY <3>2, RhsAfterFacts
    <3>. QED
      BY <1>1, <2>3, <3>1, <3>3
  <2>. QED
    BY <2>1, <2>2, <2>3
<1>10. ASSUME NEW q \in Cardinality(Starts(s)) .. u.Num_productions - 1
       PROVE  u.productions[q].lhs > real /\ u.productions[q].rhs = <<>>
  <2>0. Cardinality(Starts(s)) \in Nat
    <3>1. Starts(s) \in SUBSET (1 .. Len(s)) /\ Len(s) \in Nat
      BY PositionsInFile DEF Within
    <3>2. IsFiniteSet(1 .. Len(s))
      BY <3>1, FS_Interval
    <3>. QED
      BY <3>1, <3>2, FS_Subset, FS_CardinalityType
  <2>1. q \in DOMAIN u.productions
    BY <1>2, <1>3, <2>0
  <2>2. CASE q \notin DOMAIN t.productions
    BY <1>8, <2>1, <2>2
  <2>3. CASE q \in DOMAIN t.productions
    <3>1. q \in Cardinality(Starts(s)) .. t.Num_productions - 1
      BY <1>2, <2>0, <2>3
    <3>2. t.productions[q].lhs > real /\ t.productions[q].rhs = <<>>
      BY <1>1, <3>1
    <3>3. Len(t.productions[q].rhs) = 0
      BY <3>2
    <3>4. ~HasActions(t.productions[q])
      BY <3>3 DEF HasActions
    <3>5. SameSides(t, u, q)
      BY <2>3, <3>4, SidesStay
    <3>. QED
      BY <3>2, <3>5 DEF SameSides
  <2>. QED
    BY <2>2, <2>3
<1>11. u.Goal_symbol # NULL =>
         /\ u.Goal_symbol < MINNONTERM + Cardinality(Nonterminals(s))
         /\ u.symbols[u.Goal_symbol].name = TextAt(s, Min(Lhss(s)))
  <2>. HAVE u.Goal_symbol # NULL
  <2>1. t.Goal_symbol # NULL
    BY <1>2
  <2>2. t.Goal_symbol \in MINNONTERM .. t.Cur_nonterm
    BY <2>1 DEF InBody, GoalKept
  <2>3. t.Goal_symbol \in DOMAIN t.symbols
    BY <2>2 DEF Sound, SymbolsHold, Values
  <2>4. ~IsAct(t.Goal_symbol)
    <3>1. PICK c \in Int : c = t.Cur_nonterm /\ c <= MAXNONTERM
      BY Limits DEF Sound, Numbers
    <3>2. PICK v \in MINNONTERM .. c : v = t.Goal_symbol
      BY <2>2, <3>1
    <3>. QED
      BY <3>1, <3>2, Limits DEF IsAct
  <2>5. t.Goal_symbol \notin Acts(prod)
    BY <2>4 DEF Acts
  <2>6. u.symbols[t.Goal_symbol] = t.symbols[t.Goal_symbol]
    BY <2>3, <2>5 DEF PatchLeaves
  <2>. QED
    BY <1>1, <1>2, <2>1, <2>6
<1>12. u.Num_productions >= Cardinality(Starts(s))
  <2>1. Cardinality(Starts(s)) \in Nat
    <3>1. Starts(s) \in SUBSET (1 .. Len(s)) /\ Len(s) \in Nat
      BY PositionsInFile DEF Within
    <3>2. IsFiniteSet(1 .. Len(s))
      BY <3>1, FS_Interval
    <3>. QED
      BY <3>1, <3>2, FS_Subset, FS_CardinalityType
  <2>. QED
    BY <1>1, <1>2, <1>3, <2>1
<1>. HIDE DEF cs2
<1>13. PatchedSoFar(s, u, cs2)
  BY <1>1, <1>5, <1>6, <1>7, <1>9, <1>10, <1>11, <1>12 DEF PatchedSoFar, PatchedStart, real
<1>. QED
  BY <1>13 DEF cs2

----------------------------------------------------------------------------
(***************************************************************************)
(* patch() and make_parse_tables() keep Faithful.                          *)
(***************************************************************************)
LEMMA WhilePatching ==
  ASSUME IInv, Faithful, pc \in PatchPlaces
  PROVE  /\ input \in Files /\ IsFile(input)
         /\ Sound(tables) /\ tables.status = "run" /\ InBody(tables)
         /\ tables.yynerrs \in Nat
         /\ \/ ~AcceptedFile(input) /\ tables.yynerrs > 0
            \/ /\ tables.yynerrs = 0 /\ AcceptedFile(input)
               /\ PatchedSoFar(input, tables, cases)
<1>1. input \in Files /\ IsFile(input) /\ Sound(tables) /\ tables.yynerrs \in Nat
  BY FilesRead, ErrorsCounted DEF IInv, Faithful
<1>2. tables.status = "run" /\ InBody(tables)
  <2>1. Phase(tables, pc)
    BY HerePhase DEF IInv, AllPlaces, BodyPlaces, PatchPlaces
  <2>. QED
    BY <2>1, Places DEF BodyPlaces, PatchPlaces
<1>3. CASE Wrong
  BY <1>1, <1>2, <1>3 DEF Wrong, PatchPlaces
<1>4. CASE ~Wrong
  <2>1. tables.yynerrs = 0 /\ InPatch
    BY <1>4 DEF Faithful, Stopped, PatchPlaces, AllRead, InDefinitions,
      DefinitionsRead, DefinitionsSoFar, DefinitionsPlaces, InRules, BodyRead, RhsPlaces
  <2>. QED
    BY <1>1, <1>2, <2>1 DEF InPatch, PatchedSoFar
<1>. QED
  BY <1>3, <1>4

\* Where the nonterminals do not suffice, the file has too many inner actions.
LEMMA NoNontermLeft ==
  ASSUME NEW s, IsFile(s), NEW t, Sound(t), NEW cs, PatchedSoFar(s, t, cs),
         NEW p \in DOMAIN t.productions,
         t.Cur_nonterm + Cardinality(Embedded(t.productions[p])) > MAXNONTERM
  PROVE  Cardinality(Nonterminals(s)) + Cardinality(Inner(s)) > MAXNONTERM - MINNONTERM + 1
<1>. DEFINE prod == t.productions[p]
            n    == Cardinality(Embedded(prod))
<1>1. IsProduction(t, prod) /\ t.Cur_nonterm \in Int /\ t.Cur_nonterm <= MAXNONTERM
  BY LeftSides, Limits DEF Sound, Numbers
<1>2. HasActions(prod)
  <2>. SUFFICES ASSUME ~HasActions(prod)
                PROVE  FALSE
    OBVIOUS
  <2>1. n = 0
    BY NothingToPatch
  <2>. QED
    BY <1>1, <2>1, Limits
<1>3. PICK start \in Starts(s) : p = Number(s, start)
  BY <1>2, ActionsInStarts
<1>4. AcceptedFile(s) /\ Unpatched(s, t, cs, start)
  BY <1>2, <1>3 DEF PatchedSoFar
<1>5. PICK both : /\ Cardinality(both) = Cardinality(Replaced(s, t)) + n
                  /\ Cardinality(both) <= Cardinality(Inner(s))
                  /\ Cardinality(Replaced(s, t)) \in Nat
                  /\ Cardinality(both) \in Nat
                  /\ Cardinality(Inner(s)) \in Nat
  BY <1>1, <1>2, <1>3, <1>4, OneMoreCounted
<1>6. /\ t.Cur_nonterm = MINNONTERM - 1 + Cardinality(Nonterminals(s)) + Cardinality(Replaced(s, t))
      /\ Cardinality(Nonterminals(s)) \in Nat
  BY NamesFinite DEF PatchedSoFar
<1>7. n \in Nat
  <2>1. prod.rhs \in Seq(Nat)
    BY <1>1 DEF IsProduction
  <2>. QED
    BY <2>1, NewNumbers
<1>8. t.Cur_nonterm + n > MAXNONTERM
  OBVIOUS
<1>. HIDE DEF n
<1>9. PICK a \in Nat, b \in Nat, c \in Nat, d \in Nat :
        /\ a = Cardinality(Nonterminals(s)) /\ b = Cardinality(Replaced(s, t))
        /\ c = Cardinality(both) /\ d = Cardinality(Inner(s))
  BY <1>5, <1>6
<1>10. /\ c = b + n /\ c <= d
       /\ t.Cur_nonterm = MINNONTERM - 1 + a + b
  BY <1>5, <1>6, <1>9
<1>11. a + d > MAXNONTERM - MINNONTERM + 1
  BY <1>7, <1>8, <1>10, Limits
<1>. QED
  BY <1>9, <1>11

LEMMA FaithfulPatches ==
  ASSUME IInv, Faithful, PatchProduction
  PROVE  Faithful'
<1>. DEFINE p    == Head(chain)
            prod == tables.productions[p]
            new  == {NewSymbol(tables, prod, i) : i \in Embedded(prod)}
            u    == Patched(tables, p)
<1>1. pc = "patch" /\ chain # <<>> /\ input' = input
  BY DEF PatchProduction, AfterParsing
<1>2. /\ input \in Files /\ IsFile(input)
      /\ Sound(tables) /\ tables.status = "run" /\ InBody(tables)
      /\ tables.yynerrs \in Nat
      /\ \/ ~AcceptedFile(input) /\ tables.yynerrs > 0
         \/ /\ tables.yynerrs = 0 /\ AcceptedFile(input)
            /\ PatchedSoFar(input, tables, cases)
  BY <1>1, WhilePatching DEF PatchPlaces
<1>3. p \in DOMAIN tables.productions
  <2>1. chain \in Seq(DOMAIN tables.productions)
    BY <1>1 DEF IInv, ToPatch, PatchPlaces
  <2>. QED
    BY <1>1, <2>1
<1>4. /\ IsProduction(tables, prod) /\ prod.rhs \in Seq(Nat) /\ prod.rhs_len \in Nat
      /\ tables.Cur_nonterm \in Int /\ DOMAIN tables = TableFields
  <2>. HIDE DEF p
  <2>1. IsProduction(tables, prod)
    BY <1>2, <1>3, LeftSides
  <2>2. tables.Cur_nonterm \in Int /\ DOMAIN tables = TableFields
    BY <1>2, Limits DEF Sound, Numbers
  <2>3. prod.rhs \in Seq(Nat) /\ prod.rhs_len \in Nat
    <3>. HIDE DEF prod
    <3>. QED
      BY <2>1 DEF IsProduction
  <2>. QED
    BY <2>1, <2>2, <2>3
<1>5. Cardinality(new) \in Nat /\ Cardinality(new) = Cardinality(Embedded(prod))
  BY <1>2, <1>4, NewNumbers
<1>6. \/ prod.rhs_len > MAXRHS + 1 /\ Call([tables EXCEPT !.status = "undefined"], "patch")
      \/ tables.Cur_nonterm + Cardinality(new) > MAXNONTERM /\ Call(Fatal(tables), "patch")
      \/ /\ tables.Cur_nonterm + Cardinality(new) <= MAXNONTERM
         /\ Call(u, "patch")
         /\ cases' = cases \cup CasesOf(tables, p)
  <2>. HIDE DEF u, new, prod, p
  <2>3. prod.rhs_len > MAXRHS + 1 \/ prod.rhs_len <= MAXRHS + 1
    BY <1>4, Limits
  <2>4. \/ tables.Cur_nonterm + Cardinality(new) > MAXNONTERM
        \/ tables.Cur_nonterm + Cardinality(new) <= MAXNONTERM
    BY <1>4, <1>5, Limits
  <2>. QED
    BY <2>3, <2>4 DEF PatchProduction, u, new, prod, p
<1>7. CASE prod.rhs_len > MAXRHS + 1 /\ Call([tables EXCEPT !.status = "undefined"], "patch")
  <2>1. pc' = "undefined"
    BY <1>4, <1>7 DEF Call, TableFields
  <2>2. ~AcceptedFile(input)
    <3>. SUFFICES ASSUME PatchedSoFar(input, tables, cases)
                  PROVE  FALSE
      BY <1>2
    <3>1. prod.rhs_len = Len(prod.rhs) /\ Len(prod.rhs) <= MAXRHS
      BY <1>3, <1>4 DEF PatchedSoFar, IsProduction
    <3>. HIDE DEF prod
    <3>2. prod.rhs_len <= MAXRHS
      BY <3>1
    <3>. QED
      BY <1>4, <1>7, <3>2, Limits
  <2>. QED
    BY <1>1, <1>2, <2>1, <2>2 DEF Faithful, Wrong
<1>8. CASE tables.Cur_nonterm + Cardinality(new) > MAXNONTERM /\ Call(Fatal(tables), "patch")
  <2>1. pc' = "exit" /\ tables'.yynerrs = tables.yynerrs + 1
    BY <1>4, <1>8 DEF Call, Fatal, TableFields
  <2>2. CASE ~AcceptedFile(input)
    BY <1>1, <1>2, <2>1, <2>2 DEF Faithful, Wrong
  <2>3. CASE AcceptedFile(input)
    <3>1. tables.yynerrs = 0 /\ PatchedSoFar(input, tables, cases)
      BY <1>2, <2>3
    <3>2. Cardinality(Nonterminals(input)) + Cardinality(Inner(input))
            > MAXNONTERM - MINNONTERM + 1
      BY <1>2, <1>3, <1>5, <1>8, <3>1, NoNontermLeft
    <3>3. Stopped'
      BY <1>1, <2>1, <2>3, <3>1, <3>2 DEF Stopped
    <3>. QED
      BY <1>1, <1>2, <2>1, <3>3 DEF Faithful
  <2>. QED
    BY <2>2, <2>3
<1>9. CASE /\ tables.Cur_nonterm + Cardinality(new) <= MAXNONTERM
           /\ Call(u, "patch")
           /\ cases' = cases \cup CasesOf(tables, p)
  <2>1. PatchLeaves(tables, p, u) /\ PatchBrings(tables, p, u)
    <3>1. tables.Cur_nonterm + Cardinality(Embedded(tables.productions[p])) <= MAXNONTERM
      BY <1>5, <1>9
    <3>. QED
      BY <1>2, <1>3, <3>1, PatchDoes
  <2>2. u.status = tables.status /\ u.yynerrs = tables.yynerrs
    BY <2>1 DEF PatchLeaves
  <2>. HIDE DEF u
  <2>3. tables' = u /\ pc' = "patch" /\ tables'.yynerrs = tables.yynerrs
    BY <1>2, <1>9, <2>2 DEF Call
  <2>4. CASE ~AcceptedFile(input)
    BY <1>1, <1>2, <2>3, <2>4 DEF Faithful, Wrong, PatchPlaces
  <2>5. CASE AcceptedFile(input)
    <3>1. tables.yynerrs = 0 /\ PatchedSoFar(input, tables, cases)
      BY <1>2, <2>5
    <3>2. PatchedSoFar(input, u, cases \cup CasesOf(tables, p))
      BY <1>2, <1>3, <2>1, <3>1, PatchedOn
    <3>. HIDE DEF p
    <3>3. PatchedSoFar(input, tables, cases)'
      BY <1>1, <1>9, <2>3, <3>2
    <3>. QED
      BY <1>1, <1>2, <2>3, <3>1, <3>3 DEF Faithful, InPatch, PatchPlaces
  <2>. QED
    BY <2>4, <2>5
<1>. HIDE DEF u, new, prod, p
<1>. QED
  BY <1>6, <1>7, <1>8, <1>9

LEMMA TwoOfThem ==
  ASSUME NEW S, IsFiniteSet(S), NEW a \in S, NEW b \in S, a # b
  PROVE  Cardinality(S) > 1
<1>1. IsFiniteSet({a}) /\ Cardinality({a}) = 1
  BY FS_Singleton
<1>2. IsFiniteSet({a} \cup {b}) /\ Cardinality({a} \cup {b}) = 2
  <2>1. b \notin {a}
    OBVIOUS
  <2>. QED
    BY <1>1, <2>1, FS_AddElement
<1>3. {a} \cup {b} \subseteq S
  OBVIOUS
<1>4. Cardinality({a} \cup {b}) <= Cardinality(S) /\ Cardinality(S) \in Nat
  BY <1>3, FS_Subset, FS_CardinalityType
<1>. QED
  BY <1>2, <1>4

LEMMA StartsFinite ==
  ASSUME NEW s, IsFile(s)
  PROVE  /\ IsFiniteSet(Starts(s)) /\ Cardinality(Starts(s)) \in Nat
         /\ IsFiniteSet(Objects(s))
<1>1. /\ Len(s) \in Nat /\ Starts(s) \in SUBSET (1 .. Len(s))
      /\ Objects(s) \in SUBSET (1 .. Len(s))
  BY PositionsInFile DEF Within
<1>2. IsFiniteSet(1 .. Len(s))
  BY <1>1, FS_Interval
<1>. QED
  BY <1>1, <1>2, FS_Subset, FS_CardinalityType

\* Without a goal symbol the file has no production,
LEMMA GoalMissing ==
  ASSUME NEW s, IsFile(s), NEW t, Sound(t), InBody(t), NEW cs, PatchedSoFar(s, t, cs),
         t.Goal_symbol = NULL
  PROVE  Starts(s) = {}
<1>. SUFFICES ASSUME NEW start \in Starts(s)
              PROVE  FALSE
  OBVIOUS
<1>1. /\ Number(s, start) \in Nat /\ Number(s, start) < Cardinality(Starts(s))
      /\ Cardinality(Starts(s)) \in Nat
  BY NumberFacts
<1>2. t.Num_productions \in Nat /\ t.Num_productions >= Cardinality(Starts(s))
  BY DEF Sound, Numbers, PatchedSoFar
<1>3. t.Num_productions > 0
  BY <1>1, <1>2
<1>4. t.Goal_symbol = t.productions[0].lhs /\ 0 \in DOMAIN t.productions
  BY <1>2, <1>3 DEF InBody, GoalKept, Sound, ProductionsHold
<1>5. t.Goal_symbol \in MINNONTERM .. t.Cur_nonterm
  BY <1>4, LeftSides
<1>6. t.Cur_nonterm \in Int
  BY DEF Sound, Numbers
<1>. QED
  BY <1>5, <1>6, Limits

\* and a chain of two productions is two starts of the first left-hand side.
LEMMA GoalTwice ==
  ASSUME NEW s, IsFile(s), NEW t, Sound(t), InBody(t), NEW cs, PatchedSoFar(s, t, cs),
         NEW goal, goal = t.Goal_symbol, goal # NULL, Len(t.symbols[goal].productions) > 1
  PROVE  Cardinality({p \in Starts(s) : LhsOf(s, p) = TextAt(s, Min(Lhss(s)))}) > 1
<1>. DEFINE linked == t.symbols[goal].productions
            ofGoal == {p \in Starts(s) : LhsOf(s, p) = TextAt(s, Min(Lhss(s)))}
<1>1. goal \in DOMAIN t.symbols
  BY DEF InBody, GoalKept, Sound, SymbolsHold, Values
<1>2. IsChain(t, goal, linked)
  BY <1>1 DEF Sound, Linked
<1>. HIDE DEF linked
<1>3. linked \in Seq(Nat) /\ Len(linked) \in Nat /\ Len(linked) > 1
  BY <1>2 DEF IsChain, linked
<1>4. 1 \in 1 .. Len(linked) /\ 2 \in 1 .. Len(linked)
  BY <1>3
<1>5. /\ \A i \in {1, 2} : /\ linked[i] \in DOMAIN t.productions
                           /\ t.productions[linked[i]].lhs = goal
      /\ linked[1] > linked[2]
      /\ linked[1] \in Nat /\ linked[2] \in Nat
  BY <1>2, <1>3, <1>4 DEF IsChain
<1>6. ASSUME NEW p \in DOMAIN t.productions, t.productions[p].lhs = goal
      PROVE  \E start \in ofGoal : Number(s, start) = p
  <2>1. /\ p \in 0 .. t.Num_productions - 1 /\ t.Num_productions \in Nat
    BY DEF Sound, ProductionsHold, Numbers
  <2>2. PICK n \in Nat : n = Cardinality(Starts(s))
    BY StartsFinite
  <2>3. PICK m \in Nat : m = Cardinality(Nonterminals(s))
    BY NamesFinite
  <2>4. goal < MINNONTERM + m /\ t.symbols[goal].name = TextAt(s, Min(Lhss(s)))
    BY <2>3 DEF PatchedSoFar
  <2>5. p < n
    <3>. SUFFICES ASSUME p >= n
                  PROVE  FALSE
      BY <2>1, <2>2
    <3>1. p \in n .. t.Num_productions - 1
      BY <2>1, <2>2
    <3>2. goal > MINNONTERM - 1 + m
      BY <2>2, <2>3, <3>1, <1>6 DEF PatchedSoFar
    <3>3. goal \in Int
      BY <1>6, LeftSides
    <3>. QED
      BY <2>3, <2>4, <3>2, <3>3, Limits
  <2>6. PICK start \in Starts(s) : Number(s, start) = p
    BY <2>1, <2>2, <2>5, StartWithNumber
  <2>7. t.symbols[t.productions[p].lhs].name = LhsOf(s, start)
    BY <2>6 DEF PatchedSoFar
  <2>. QED
    BY <1>6, <2>4, <2>6, <2>7
<1>7. PICK a \in ofGoal, b \in ofGoal : Number(s, a) = linked[1] /\ Number(s, b) = linked[2]
  BY <1>5, <1>6
<1>8. a # b
  BY <1>5, <1>7
<1>9. IsFiniteSet(ofGoal)
  <2>1. IsFiniteSet(Starts(s))
    BY StartsFinite
  <2>. QED
    BY <2>1, FS_Subset
<1>. HIDE DEF ofGoal
<1>10. Cardinality(ofGoal) > 1
  BY <1>7, <1>8, <1>9, TwoOfThem
<1>. QED
  BY <1>10 DEF ofGoal

LEMMA FaithfulTables ==
  ASSUME IInv, Faithful, MakeParseTables
  PROVE  Faithful'
<1>. DEFINE goal == tables.Goal_symbol
            stop == goal = NULL \/ Len(tables.symbols[goal].productions) > 1
<1>1. /\ pc = "tables" /\ input' = input /\ cases' = cases
      /\ Call(IF stop THEN Fatal(tables) ELSE tables, "lr")
  BY DEF MakeParseTables, AfterParsing
<1>2. /\ input \in Files /\ IsFile(input)
      /\ Sound(tables) /\ tables.status = "run" /\ InBody(tables)
      /\ tables.yynerrs \in Nat
      /\ \/ ~AcceptedFile(input) /\ tables.yynerrs > 0
         \/ /\ tables.yynerrs = 0 /\ AcceptedFile(input)
            /\ PatchedSoFar(input, tables, cases)
  BY <1>1, WhilePatching DEF PatchPlaces
<1>3. CASE ~stop
  <2>1. tables' = tables /\ pc' = "lr"
    <3>1. Call(tables, "lr")
      BY <1>1, <1>3
    <3>. QED
      BY <1>2, <3>1 DEF Call
  <2>2. CASE ~AcceptedFile(input)
    BY <1>1, <1>2, <2>1, <2>2 DEF Faithful, Wrong, PatchPlaces
  <2>3. CASE AcceptedFile(input)
    <3>1. PatchedSoFar(input, tables, cases)'
      BY <1>1, <1>2, <2>1, <2>3
    <3>. QED
      BY <1>1, <1>2, <2>1, <2>3, <3>1 DEF Faithful, InPatch, PatchPlaces
  <2>. QED
    BY <2>2, <2>3
<1>4. CASE stop
  <2>0. Call(Fatal(tables), "lr")
    BY <1>1, <1>4
  <2>1. pc' = "exit" /\ tables'.yynerrs = tables.yynerrs + 1
    <3>1. DOMAIN tables = TableFields
      BY <1>2 DEF Sound, Numbers
    <3>. QED
      BY <2>0, <3>1 DEF Call, Fatal, TableFields
  <2>2. CASE ~AcceptedFile(input)
    BY <1>1, <1>2, <2>1, <2>2 DEF Faithful, Wrong
  <2>3. CASE AcceptedFile(input)
    <3>1. tables.yynerrs = 0 /\ PatchedSoFar(input, tables, cases)
      BY <1>2, <2>3
    <3>2. \/ Starts(input) = {}
          \/ Cardinality({p \in Starts(input) :
                            LhsOf(input, p) = TextAt(input, Min(Lhss(input)))}) > 1
      <4>1. CASE goal = NULL
        BY <1>2, <3>1, <4>1, GoalMissing
      <4>2. CASE goal # NULL
        <5>1. Len(tables.symbols[goal].productions) > 1
          BY <1>4, <4>2
        <5>. HIDE DEF goal
        <5>2. goal = tables.Goal_symbol
          BY DEF goal
        <5>. QED
          BY <1>2, <3>1, <4>2, <5>1, <5>2, GoalTwice
      <4>. QED
        BY <4>1, <4>2
    <3>3. Stopped'
      BY <1>1, <2>1, <2>3, <3>1, <3>2 DEF Stopped
    <3>. QED
      BY <1>1, <1>2, <2>1, <3>3 DEF Faithful
  <2>. QED
    BY <2>2, <2>3
<1>. QED
  BY <1>3, <1>4

----------------------------------------------------------------------------
(***************************************************************************)
(* The first token, every step, and what it shows.                         *)
(***************************************************************************)
\* Nothing has been read yet.
LEMMA NothingBehind ==
  ASSUME NEW s, IsFile(s)
  PROVE  \A S : S \in SUBSET (Defs(s) \cup Rules(s)) => Until(S, 1) = {}
<1>1. /\ Defs(s) \in SUBSET (1 .. Len(s)) /\ Rules(s) \in SUBSET (1 .. Len(s))
      /\ Len(s) \in Nat
  BY PositionSets, FileFacts
<1>2. ASSUME NEW S, S \in SUBSET (Defs(s) \cup Rules(s)), NEW i \in S
      PROVE  ~(i < 1)
  <2>1. i \in 1 .. Len(s)
    BY <1>1, <1>2
  <2>. QED
    BY <1>1, <2>1
<1>. QED
  BY <1>2 DEF Until

LEMMA FirstToken ==
  ASSUME NEW s, IsFile(s), Lookahead = TokenAt(s), rest = Behind(s)
  PROVE  At(s, 1)
<1>1. Len(s) \in Nat /\ s \in Seq(TokenKinds \X STRING)
  BY FileFacts DEF IsFile
<1>2. CASE s = <<>>
  <2>1. Len(s) = 0 /\ SubSeq(s, 2, Len(s)) = <<>>
    BY <1>2
  <2>. QED
    BY <1>2, <2>1 DEF At, TokenAt, Behind
<1>3. CASE s # <<>>
  <2>1. Len(s) > 0
    BY <1>1, <1>3
  <2>2. Head(s) = s[1] /\ Tail(s) = SubSeq(s, 2, Len(s))
    BY <1>1, <1>3
  <2>. QED
    BY <1>1, <1>3, <2>1, <2>2 DEF At, TokenAt, Behind
<1>. QED
  BY <1>2, <1>3

LEMMA FaithfulStarts ==
  ASSUME GeneratorInit
  PROVE  Faithful
<1>. DEFINE s == input
            t == tables
            place == "definitions"
            nm == names
<1>1. /\ input \in Files /\ IsFile(input) /\ Len(input) \in Nat
      /\ pc = "definitions" /\ cases = {} /\ tables = InitialTables
      /\ Lookahead = TokenAt(input) /\ rest = Behind(input)
  BY FilesRead DEF GeneratorInit, Init
<1>2. At(s, 1)
  BY <1>1, FirstToken
<1>3. /\ t.symbols = [v \in {} |-> [name |-> ""]]
      /\ t.Precedence = [v \in 1 .. MAXTERM |-> [level |-> 0, assoc |-> "none"]]
      /\ t.Cur_term = 0 /\ t.Prec_lev = 0 /\ t.Field_name = "" /\ t.yynerrs = 0
  BY <1>1 DEF InitialTables
<1>4. \A S : S \in SUBSET (Defs(s) \cup Rules(s)) => Until(S, 1) = {}
  BY <1>1, NothingBehind
<1>5. DefinitionsSoFar(s, 1, place, nm)
  <2>1. KindAt(s, 0) = "EOI"
    BY <1>1, FileFacts
  <2>. QED
    BY <1>1, <2>1 DEF DefinitionsSoFar, DefinitionsPlaces
<1>6. /\ \A keywords : Until(Listed(s, keywords), 1) = {}
      /\ Until(Listed(s, {"TYPE"}) \cup Lhss(s), 1) = {}
      /\ Until(PrecNames(s), 1) = {}
      /\ Until(Namings(s), 1) = {}
  <2>1. /\ \A keywords : Listed(s, keywords) \in SUBSET (Defs(s) \cup Rules(s))
        /\ Listed(s, {"TYPE"}) \cup Lhss(s) \in SUBSET (Defs(s) \cup Rules(s))
        /\ PrecNames(s) \in SUBSET (Defs(s) \cup Rules(s))
        /\ Namings(s) \in SUBSET (Defs(s) \cup Rules(s))
    BY <1>1, PositionSets
  <2>. QED
    BY <1>4, <2>1
<1>7. NamesFit(s, 1)
  BY <1>6 DEF NamesFit
<1>8. NamesRead(s, 1, t)
  <2>1. Named(t) = {} /\ Known(s, 1) = {}
    BY <1>3, <1>6 DEF Named, Known
  <2>2. {i \in Defs(s) : KindAt(s, i) = "FIELD" /\ i < 1} = {}
    <3>1. Until(Defs(s), 1) = {}
      BY <1>4
    <3>. QED
      BY <3>1 DEF Until
  <2>3. FieldBefore(s, 1) = ""
    BY <2>2 DEF FieldBefore
  <2>. QED
    BY <1>3, <2>1, <2>3 DEF NamesRead
<1>9. PrecsRead(s, 1, t)
  <2>0. t.Cur_term = 0
    BY <1>3
  <2>1. \A v \in 1 .. MAXTERM : ~(v <= t.Cur_term)
    <3>1. MAXTERM \in Nat /\ \A v \in 1 .. MAXTERM : ~(v <= 0)
      BY Limits
    <3>. QED
      BY <2>0, <3>1
  <2>. QED
    BY <1>3, <2>1 DEF PrecsRead
<1>10. LevelRead(s, 1, t, place, nm)
  <2>1. Until(Positions(s, PrecKeywords), 1) = {}
    <3>1. /\ Positions(s, PrecKeywords) \in SUBSET (1 .. Len(s))
      BY <1>1, PositionSets
    <3>2. \A i \in Positions(s, PrecKeywords) : ~(i < 1)
      BY <1>1, <3>1
    <3>. QED
      BY <3>2 DEF Until
  <2>. QED
    BY <1>3, <2>1, FS_EmptySet DEF LevelRead
<1>11. DefinitionsRead(s, 1, t, place, nm)
  BY <1>5, <1>7, <1>8, <1>9, <1>10 DEF DefinitionsRead
<1>12. InDefinitions
  BY <1>1, <1>2, <1>11 DEF InDefinitions
<1>. QED
  BY <1>1, <1>3, <1>12 DEF Faithful

LEMMA FaithfulSteps ==
  ASSUME IInv, Faithful, [Next]_allVars
  PROVE  Faithful'
<1>1. CASE Parsing
  BY <1>1, FaithfulParses
<1>2. CASE CheckProblems
  BY <1>2, FaithfulChecks
<1>3. CASE FindFirst
  BY <1>3, FaithfulFinds
<1>4. CASE PatchSymbol \/ PatchReturns
  BY <1>4, FaithfulGoesOn
<1>5. CASE PatchProduction
  BY <1>5, FaithfulPatches
<1>6. CASE MakeParseTables
  BY <1>6, FaithfulTables
<1>7. CASE UNCHANGED allVars
  <2>1. /\ input' = input /\ rest' = rest /\ Lookahead' = Lookahead /\ tables' = tables
        /\ pc' = pc /\ names' = names /\ cases' = cases
    BY <1>7 DEF allVars, vars
  <2>2. Wrong' <=> Wrong
    BY <2>1 DEF Wrong
  <2>3. Stopped' <=> Stopped
    BY <2>1 DEF Stopped
  <2>4. InPatch' <=> InPatch
    BY <2>1 DEF InPatch
  <2>5. AllRead' <=> AllRead
    BY <2>1 DEF AllRead
  <2>6. \A h : At(input, h)' <=> At(input, h)
    BY <2>1 DEF At
  <2>7. InRules' <=> InRules
    BY <2>1, <2>6 DEF InRules
  <2>8. InDefinitions' <=> InDefinitions
    BY <2>1, <2>6 DEF InDefinitions
  <2>. QED
    BY <2>1, <2>2, <2>3, <2>4, <2>5, <2>7, <2>8 DEF Faithful
<1>. QED
  BY <1>1, <1>2, <1>3, <1>4, <1>5, <1>6, <1>7 DEF Next

\* Behind every token, the tables hold what FileMeaning reads from the tokens so far, or the
\* file is wrong and an error has been counted.
THEOREM FileUnderstood == Spec => []Faithful
<1>1. GeneratorInit => IInv /\ Faithful
  BY GeneratorStarts, FaithfulStarts
<1>2. (IInv /\ Faithful) /\ [Next]_allVars => (IInv /\ Faithful)'
  BY GeneratorSteps, FaithfulSteps
<1>. QED
  BY <1>1, <1>2, PTL DEF Spec

\* The correct files are those among the accepted ones that have a %%.
LEMMA CorrectIsAccepted ==
  ASSUME NEW s, IsFile(s)
  PROVE  /\ CorrectFile(s) => AcceptedFile(s)
         /\ AcceptedFile(s) /\ HasSeparator(s) => CorrectFile(s)
<1>1. HasSeparator(s) <=> DefsEnd(s) <= Len(s)
  <2>1. /\ Len(s) \in Nat /\ DOMAIN s = 1 .. Len(s) /\ DefsEnd(s) \in 1 .. Len(s) + 1
        /\ DefsEnd(s) <= Len(s) => KindAt(s, DefsEnd(s)) = "SEPARATOR"
        /\ \A i \in 1 .. DefsEnd(s) - 1 : KindAt(s, i) # "SEPARATOR"
    BY FileFacts, Ends
  <2>2. HasSeparator(s) <=> \E i \in 1 .. Len(s) : KindAt(s, i) = "SEPARATOR"
    BY <2>1 DEF HasSeparator, Positions
  <2>3. ASSUME DefsEnd(s) <= Len(s)
        PROVE  \E i \in 1 .. Len(s) : KindAt(s, i) = "SEPARATOR"
    BY <2>1, <2>3
  <2>4. ASSUME ~(DefsEnd(s) <= Len(s)), NEW i \in 1 .. Len(s)
        PROVE  KindAt(s, i) # "SEPARATOR"
    <3>1. i \in 1 .. DefsEnd(s) - 1
      BY <2>1, <2>4
    <3>. QED
      BY <2>1, <3>1
  <2>. QED
    BY <2>2, <2>3, <2>4
<1>2. HasSeparator(s) => ~(DefsEnd(s) > Len(s))
  <2>1. Len(s) \in Nat /\ DefsEnd(s) \in 1 .. Len(s) + 1
    BY FileFacts, Ends
  <2>. QED
    BY <1>1, <2>1
<1>3. HasSeparator(s) => (CorrectDefinitions(s) <=> AcceptedDefinitions(s))
  BY <1>2 DEF CorrectDefinitions, AcceptedDefinitions
<1>4. HasSeparator(s) => (CorrectRules(s) <=> AcceptedRules(s))
  BY <1>1 DEF CorrectRules, AcceptedRules
<1>5. CorrectFile(s) => HasSeparator(s)
  BY DEF CorrectFile, CorrectDefinitions
<1>. QED
  BY <1>3, <1>4, <1>5 DEF CorrectFile, AcceptedFile

LEMMA ErrorsFollow ==
  ASSUME Faithful
  PROVE  NoErrorIffCorrect
<1>. DEFINE correct == CorrectFile(input)
            has     == HasSeparator(input)
<1>1. correct => AcceptedFile(input)
  BY FilesRead, CorrectIsAccepted DEF Faithful
<1>2. AcceptedFile(input) /\ has => correct
  BY FilesRead, CorrectIsAccepted DEF Faithful
<1>. HIDE DEF correct, has
<1>3. ASSUME pc = "parsed", has
      PROVE  tables.yynerrs = 0 <=> correct
  <2>1. tables.yynerrs = 0 <=> AcceptedFile(input)
    BY <1>3 DEF Faithful, Wrong, Stopped, AllRead, InPatch, PatchPlaces, InDefinitions,
      DefinitionsRead, DefinitionsSoFar, DefinitionsPlaces, InRules, BodyRead, RhsPlaces
  <2>. QED
    BY <1>1, <1>2, <1>3, <2>1
<1>4. ASSUME pc \in {"exit", "undefined"}, correct
      PROVE  Stopped
  BY <1>1, <1>4 DEF Faithful, Wrong, AllRead, InPatch, PatchPlaces, InDefinitions,
    DefinitionsRead, DefinitionsSoFar, DefinitionsPlaces, InRules, BodyRead, RhsPlaces
<1>. QED
  BY <1>3, <1>4 DEF Stopped, NoErrorIffCorrect, correct, has

LEMMA SymbolsFollow ==
  ASSUME IInv, Faithful
  PROVE  SymbolsAsDeclared
<1>. SUFFICES ASSUME pc = "parsed", tables.yynerrs = 0
              PROVE  SymbolsAsDeclared
  BY DEF SymbolsAsDeclared
<1>1. IsFile(input) /\ Sound(tables) /\ AllRead
  BY FilesRead DEF IInv, Faithful, Wrong, Stopped, InPatch, PatchPlaces,
    InDefinitions, DefinitionsRead, DefinitionsSoFar, DefinitionsPlaces, InRules, BodyRead,
    RhsPlaces
<1>2. WholeFile(input, tables)
  BY <1>1, AllReadFacts DEF AllRead
<1>. DEFINE name(v) == tables.symbols[v].name
<1>3. ASSUME NEW start \in Starts(input)
      PROVE  LET prod == tables.productions[Number(input, start)]
             IN /\ name(prod.lhs) = LhsOf(input, start)
                /\ prod.rhs_len = Cardinality(ObjectsOf(input, start))
                /\ prod.rhs_len = Len(prod.rhs)
                /\ prod.prec = PrecOf(input, start)
                /\ \A i \in ObjectsOf(input, start) :
                     LET v == prod.rhs[Place(input, i)]
                     IN /\ name(v) = TextAt(input, i)
                        /\ IsAct(v) <=> KindAt(input, i) = "ACTION"
                        /\ IsTerm(v) <=> KindAt(input, i) # "ACTION" /\ name(v) \in Terminals(input)
  <2>. DEFINE prod == tables.productions[Number(input, start)]
  <2>1. ASSUME NEW i \in ObjectsOf(input, start)
        PROVE  LET v == prod.rhs[Place(input, i)]
               IN /\ name(v) = TextAt(input, i)
                  /\ IsAct(v) <=> KindAt(input, i) = "ACTION"
                  /\ IsTerm(v) <=> KindAt(input, i) # "ACTION" /\ name(v) \in Terminals(input)
    <3>. DEFINE v == prod.rhs[Place(input, i)]
    <3>1. /\ v \in DOMAIN tables.symbols
          /\ name(v) = TextAt(input, i)
          /\ IsAct(v) <=> KindAt(input, i) = "ACTION"
      BY <1>2 DEF WholeFile
    <3>. HIDE DEF v, prod, name
    <3>2. ASSUME IsAct(v)
          PROVE  IsTerm(v) <=> KindAt(input, i) # "ACTION" /\ name(v) \in Terminals(input)
      <4>1. ~IsTerm(v)
        <5>1. v \in 1 .. tables.Cur_term \cup MINNONTERM .. tables.Cur_nonterm
                \cup {w \in MINACT .. tables.Cur_act : w \in DOMAIN tables.symbols}
          BY <1>1, <3>1 DEF Sound, SymbolsHold, Values
        <5>2. tables.Cur_term \in Nat /\ tables.Cur_nonterm \in Int /\ tables.Cur_act \in Int
          BY <1>1, Limits DEF Sound, Numbers
        <5>. QED
          BY <3>2, <5>1, <5>2, Limits DEF IsAct, IsTerm
      <4>. QED
        BY <3>1, <3>2, <4>1
    <3>3. ASSUME ~IsAct(v)
          PROVE  IsTerm(v) <=> KindAt(input, i) # "ACTION" /\ name(v) \in Terminals(input)
      <4>1. v \in Named(tables)
        BY <3>1, <3>3 DEF Named
      <4>2. /\ IsTerm(v) <=> IsTerminalName(input, name(v))
            /\ name(v) \in Names(input)
        BY <1>2, <4>1 DEF WholeFile, name
      <4>3. name(v) \in Terminals(input) <=> IsTerminalName(input, name(v))
        BY <4>2 DEF Terminals
      <4>. QED
        BY <3>1, <3>3, <4>2, <4>3
    <3>4. /\ name(v) = TextAt(input, i)
          /\ IsAct(v) <=> KindAt(input, i) = "ACTION"
          /\ IsTerm(v) <=> KindAt(input, i) # "ACTION" /\ name(v) \in Terminals(input)
      BY <3>1, <3>2, <3>3
    <3>. QED
      BY <3>4 DEF v
  <2>2. /\ name(prod.lhs) = LhsOf(input, start)
        /\ prod.rhs_len = Cardinality(ObjectsOf(input, start))
        /\ prod.rhs_len = Len(prod.rhs)
        /\ prod.prec = PrecOf(input, start)
    BY <1>2 DEF WholeFile
  <2>. QED
    BY <2>1, <2>2
<1>4. ASSUME NEW v \in 1 .. tables.Cur_term
      PROVE  tables.Precedence[v] =
               [level |-> LevelOf(input, name(v)), assoc |-> AssocOf(input, name(v))]
  <2>1. tables.Cur_term \in Nat /\ tables.Cur_term <= MAXTERM
    BY <1>1, Limits DEF Sound, Numbers
  <2>2. v \in 1 .. MAXTERM /\ v <= tables.Cur_term
    BY <2>1, Limits
  <2>. QED
    BY <1>2, <2>2 DEF WholeFile
<1>5. /\ tables.Num_productions = Cardinality(Starts(input))
      /\ Lhss(input) # {} => name(tables.Goal_symbol) = TextAt(input, Min(Lhss(input)))
  BY <1>2 DEF WholeFile
<1>. HIDE DEF name
<1>. QED
  BY <1>3, <1>4, <1>5 DEF SymbolsAsDeclared, name

Actions(s) == {i \in Objects(s) : KindAt(s, i) = "ACTION"}

\* Where no earlier list has left a field, the last one is that of the name's own list.
LEMMA FieldKept ==
  ASSUME NEW s, IsFile(s), NEW x, ~FieldLeft(s, x)
  PROVE  LastField(s, x) = FieldOf(s, x)
<1>. DEFINE own    == OwnFields(s, x)
            before == FieldsBefore(s, x)
<1>1. LastField(s, x) = IF before = {} THEN "" ELSE TextAt(s, Max(before))
  BY Zenon DEF LastField, FieldsBefore, FirstNaming
<1>2. own \in SUBSET before
  BY DEF OwnFields
<1>3. CASE own = {}
  BY <1>1, <1>3 DEF FieldLeft, FieldOf
<1>4. CASE own # {}
  <2>1. PICK n \in Nat : n = Len(s)
    BY FileFacts
  <2>2. before \in SUBSET (0 .. n)
    <3>1. before \in SUBSET (1 .. n)
      BY <2>1, PositionSets DEF FieldsBefore
    <3>. QED
      BY <3>1
  <2>3. before # {} /\ own \in SUBSET (0 .. n)
    BY <1>2, <1>4, <2>2
  <2>4. /\ Max(before) \in before /\ \A i \in before : i <= Max(before)
        /\ Max(own) \in own
        /\ \A m \in own : (\A i \in own : i <= m) => m = Max(own)
    BY <1>4, <2>2, <2>3, MaxFacts
  <2>5. PICK last \in before : last = Max(before)
    BY <2>4
  <2>6. last \in own
    <3>1. PICK i \in own : TRUE
      BY <1>4
    <3>2. i \in Nat /\ last \in Nat /\ i <= last
      BY <1>2, <2>2, <2>4, <2>5
    <3>3. \A j \in last + 1 .. FirstNaming(s, x) - 1 : j \in i + 1 .. FirstNaming(s, x) - 1
      BY <3>2
    <3>4. \A j \in i + 1 .. FirstNaming(s, x) - 1 : KindAt(s, j) \in {"NAME", "FIELD"}
      BY DEF OwnFields
    <3>5. last \in FieldsBefore(s, x)
      OBVIOUS
    <3>6. \A j \in last + 1 .. FirstNaming(s, x) - 1 : KindAt(s, j) \in {"NAME", "FIELD"}
      BY <3>3, <3>4
    <3>. QED
      BY <3>5, <3>6 DEF OwnFields
  <2>7. Max(own) = last
    BY <1>2, <2>4, <2>5, <2>6
  <2>8. FieldOf(s, x) = TextAt(s, Max(own))
    BY <1>4 DEF FieldOf
  <2>. QED
    BY <1>1, <2>3, <2>5, <2>7, <2>8
<1>. QED
  BY <1>3, <1>4

\* $$ and $n, as the property reads them.
ObjectAt(s, i, n) == CHOOSE j \in ObjectsOf(s, StartOf(s, i)) : Place(s, j) = n

NameAt(s, i, n) == IF n = 0 THEN LhsOf(s, StartOf(s, i)) ELSE TextAt(s, ObjectAt(s, i, n))

FieldFits(s, i, n, field) ==
  IF n # 0 /\ ObjectAt(s, i, n) \in Actions(s) THEN field = ""
  ELSE FieldLeft(s, NameAt(s, i, n)) \/ field = FieldOf(s, NameAt(s, i, n))

LEMMA FieldsAsNamed ==
  ASSUME NEW s, IsFile(s), AcceptedFile(s), NEW i \in Objects(s),
         NEW n \in 0 .. Place(s, i) - 1
  PROVE  FieldFits(s, i, n, FieldsFor(s, i)[n])
<1>. DEFINE start  == StartOf(s, i)
            object == ObjectAt(s, i, n)
            x      == NameAt(s, i, n)
<1>1. /\ i \in ObjectsOf(s, start)
      /\ Place(s, i) \in Nat \ {0} /\ Place(s, i) <= Cardinality(ObjectsOf(s, start))
      /\ Cardinality(ObjectsOf(s, start)) \in Nat
  BY ObjectStart, PlaceFacts
<1>2. ASSUME n # 0
      PROVE  object \in Actions(s) <=> KindAt(s, object) = "ACTION"
  <2>1. n \in 1 .. Cardinality(ObjectsOf(s, start))
    BY <1>1, <1>2
  <2>2. \E j \in ObjectsOf(s, start) : Place(s, j) = n
    BY <2>1, ObjectAtPlace
  <2>3. object \in ObjectsOf(s, start)
    BY <2>2 DEF ObjectAt
  <2>4. object \in Objects(s)
    BY <2>3, PositionSets
  <2>. QED
    BY <2>4 DEF Actions
<1>3. FieldsFor(s, i)[n] = IF n = 0 THEN LastField(s, LhsOf(s, start))
                           ELSE IF KindAt(s, object) = "ACTION" THEN ""
                           ELSE LastField(s, TextAt(s, object))
  BY Zenon DEF FieldsFor, ObjectAt
<1>4. ~FieldLeft(s, x) => LastField(s, x) = FieldOf(s, x)
  BY FieldKept
<1>. DEFINE F == FieldsFor(s, i)[n]
<1>5. IF n = 0 THEN x = LhsOf(s, start) ELSE x = TextAt(s, object)
  BY DEF NameAt
<1>. HIDE DEF F, object, x
<1>6. IF n # 0 /\ object \in Actions(s) THEN F = "" ELSE FieldLeft(s, x) \/ F = FieldOf(s, x)
  <2>1. CASE n = 0
    BY <1>3, <1>4, <1>5, <2>1 DEF F
  <2>2. CASE n # 0
    BY <1>2, <1>3, <1>4, <1>5, <2>2 DEF F
  <2>. QED
    BY <2>1, <2>2
<1>. QED
  BY <1>6 DEF FieldFits, F, object, x

\* An action is one of the actions of its right-hand side.
LEMMA ActionStart ==
  ASSUME NEW s, IsFile(s), AcceptedFile(s), NEW i \in Actions(s)
  PROVE  /\ StartOf(s, i) \in Starts(s)
         /\ i \in ActionsOf(s, StartOf(s, i))
         /\ i \in ObjectsOf(s, StartOf(s, i))
         /\ i \in Objects(s)
  BY ObjectStart DEF Actions, ActionsOf

\* When every action is a nonterminal or gone, the cases are those of the actions, one each.
LEMMA CasesOfActions ==
  ASSUME NEW s, IsFile(s), AcceptedFile(s), NEW t, NEW cs,
         \A start \in Starts(s) : ActionsMade(s, t, cs, start),
         \A c \in cs : \E start \in Starts(s) : c.prod = Number(s, start)
  PROVE  /\ cs = {CaseFor(s, i, ReducedBy(s, t, i)) : i \in Actions(s)}
         /\ Cardinality(cs) = Cardinality(Actions(s))
<1>. DEFINE made(i) == CaseFor(s, i, ReducedBy(s, t, i))
            f == [i \in Actions(s) |-> made(i)]
<1>1. ASSUME NEW i \in Actions(s)
      PROVE  made(i) \in cs
  <2>1. StartOf(s, i) \in Starts(s) /\ i \in ActionsOf(s, StartOf(s, i))
    BY ActionStart
  <2>2. made(i) \in {c \in cs : c.prod = Number(s, StartOf(s, i))}
    BY <2>1 DEF ActionsMade
  <2>. QED
    BY <2>2
<1>2. ASSUME NEW c \in cs
      PROVE  \E i \in Actions(s) : c = made(i)
  <2>1. PICK start \in Starts(s) : c.prod = Number(s, start)
    OBVIOUS
  <2>2. c \in {made(i) : i \in ActionsOf(s, start)}
    BY <2>1 DEF ActionsMade
  <2>3. ActionsOf(s, start) \in SUBSET Actions(s)
    BY PositionSets DEF ActionsOf, Actions
  <2>. QED
    BY <2>2, <2>3
<1>3. ASSUME NEW i \in Actions(s), NEW j \in Actions(s), made(i) = made(j)
      PROVE  i = j
  <2>1. /\ StartOf(s, i) \in Starts(s) /\ i \in ObjectsOf(s, StartOf(s, i))
        /\ StartOf(s, j) \in Starts(s) /\ j \in ObjectsOf(s, StartOf(s, j))
    BY ActionStart
  <2>2. /\ Number(s, StartOf(s, i)) = Number(s, StartOf(s, j))
        /\ Place(s, i) - 1 = Place(s, j) - 1
    <3>1. made(i).prod = made(j).prod /\ made(i).rhs_size = made(j).rhs_size
      BY <1>3
    <3>. QED
      BY <3>1 DEF CaseFor
  <2>3. StartOf(s, i) = StartOf(s, j)
    BY <2>1, <2>2, NumberFacts
  <2>4. Place(s, i) \in Nat /\ Place(s, j) \in Nat
    BY <2>1, PlaceFacts
  <2>5. Place(s, i) = Place(s, j)
    BY <2>2, <2>4
  <2>. QED
    BY <2>1, <2>3, <2>5, PlaceFacts
<1>. HIDE DEF made
<1>4. cs = {made(i) : i \in Actions(s)}
  BY <1>1, <1>2
<1>5. IsFiniteSet(Actions(s))
  BY StartsFinite, FS_Subset DEF Actions
<1>6. Cardinality(cs) = Cardinality(Actions(s))
  <2>1. cs = {f[i] : i \in Actions(s)}
    BY <1>4
  <2>2. \A i, j \in Actions(s) : f[i] = f[j] => i = j
    BY <1>3
  <2>3. DOMAIN f = Actions(s) /\ f = [i \in Actions(s) |-> f[i]]
    OBVIOUS
  <2>. HIDE DEF f
  <2>. QED
    BY <1>5, <2>1, <2>2, <2>3, OneToOne
<1>. QED
  BY <1>4, <1>6 DEF made

LEMMA ActionsFollow ==
  ASSUME IInv, Faithful
  PROVE  ActionsPlaced
<1>. SUFFICES ASSUME pc = "tables", tables.yynerrs = 0
              PROVE  ActionsPlaced
  BY DEF ActionsPlaced
<1>. DEFINE object(i, n) == CHOOSE j \in ObjectsOf(input, StartOf(input, i)) : Place(input, j) = n
            named(i, n) == IF n = 0 THEN LhsOf(input, StartOf(input, i))
                           ELSE TextAt(input, object(i, n))
            field(c, i, n) ==
              IF n # 0 /\ object(i, n) \in Actions(input) THEN c.fields[n] = ""
              ELSE FieldLeft(input, named(i, n)) \/ c.fields[n] = FieldOf(input, named(i, n))
            printed(i, val) ==
              \E c \in cases : /\ c.case_val = val
                               /\ c.action = TextAt(input, i)
                               /\ c.rhs_size = Place(input, i) - 1
                               /\ c.prod = Number(input, StartOf(input, i))
                               /\ \A n \in 0 .. Place(input, i) - 1 : field(c, i, n)
<1>1. /\ IsFile(input) /\ AcceptedFile(input) /\ Sound(tables)
      /\ PatchedSoFar(input, tables, cases)
  BY WhilePatching DEF PatchPlaces
<1>2. ASSUME NEW start \in Starts(input)
      PROVE  ActionsMade(input, tables, cases, start)
  <2>. DEFINE p == Number(input, start)
  <2>1. p \in DOMAIN tables.productions
    BY <1>1, StartInTables DEF PatchedSoFar
  <2>2. \A i \in 1 .. Len(tables.productions[p].rhs) : ~IsAct(tables.productions[p].rhs[i])
    <3>1. ToPatch /\ todo = {} /\ chain = <<>>
      BY DEF IInv, ToPatch, PatchPlaces
    <3>. HIDE DEF p
    <3>2. \A k \in 1 .. Len(chain) : FALSE
      BY <3>1
    <3>. QED
      BY <2>1, <3>1, <3>2 DEF ToPatch, PatchPlaces
  <2>. QED
    BY <1>1, <2>2 DEF PatchedSoFar, HasActions
<1>3. \A c \in cases : \E start \in Starts(input) : c.prod = Number(input, start)
  BY <1>1 DEF PatchedSoFar
<1>4. /\ cases = {CaseFor(input, i, ReducedBy(input, tables, i)) : i \in Actions(input)}
      /\ Cardinality(cases) = Cardinality(Actions(input))
  BY <1>1, <1>2, <1>3, CasesOfActions
<1>5. ASSUME NEW i \in Actions(input), NEW val, CaseFor(input, i, val) \in cases
      PROVE  printed(i, val)
  <2>. DEFINE c == CaseFor(input, i, val)
  <2>1. i \in Objects(input)
    BY DEF Actions
  <2>2. /\ c \in cases /\ c.case_val = val /\ c.action = TextAt(input, i)
        /\ c.rhs_size = Place(input, i) - 1 /\ c.prod = Number(input, StartOf(input, i))
        /\ c.fields = FieldsFor(input, i)
    BY <1>5 DEF CaseFor
  <2>. HIDE DEF c
  <2>3. ASSUME NEW n \in 0 .. Place(input, i) - 1
        PROVE  field(c, i, n)
    <3>1. FieldFits(input, i, n, c.fields[n])
      BY <1>1, <2>1, <2>2, FieldsAsNamed
    <3>2. object(i, n) = ObjectAt(input, i, n)
      BY Zenon DEF ObjectAt
    <3>. HIDE DEF object
    <3>. QED
      BY <3>1, <3>2 DEF FieldFits, NameAt
  <2>. HIDE DEF field
  <2>. QED
    BY <2>2, <2>3
<1>. HIDE DEF printed
<1>6. ASSUME NEW i \in Actions(input)
      PROVE  LET own == Number(input, StartOf(input, i))
                 rhs == tables.productions[own].rhs
             IN IF Place(input, i) = Cardinality(ObjectsOf(input, StartOf(input, i)))
                THEN /\ printed(i, own)
                     /\ Len(rhs) = Place(input, i) - 1
                ELSE \E q \in DOMAIN tables.productions :
                       /\ tables.productions[q].lhs = rhs[Place(input, i)]
                       /\ tables.symbols[rhs[Place(input, i)]].productions = <<q>>
                       /\ tables.productions[q].rhs = <<>>
                       /\ printed(i, q)
  <2>. DEFINE own == Number(input, StartOf(input, i))
              rhs == tables.productions[own].rhs
  <2>1. StartOf(input, i) \in Starts(input) /\ i \in ActionsOf(input, StartOf(input, i))
    BY <1>1, ActionStart
  <2>2. IF IsLast(input, i) THEN Len(rhs) = Place(input, i) - 1
        ELSE \E q \in DOMAIN tables.productions :
               /\ tables.symbols[rhs[Place(input, i)]].productions = <<q>>
               /\ tables.productions[q].lhs = rhs[Place(input, i)]
               /\ tables.productions[q].rhs = <<>>
    BY <1>2, <2>1 DEF ActionsMade
  <2>3. printed(i, ReducedBy(input, tables, i))
    BY <1>4, <1>5
  <2>4. CASE IsLast(input, i)
    <3>1. ReducedBy(input, tables, i) = own
      BY <2>4 DEF ReducedBy
    <3>. HIDE DEF own, rhs
    <3>2. Len(rhs) = Place(input, i) - 1 /\ printed(i, own)
      BY <2>2, <2>3, <2>4, <3>1
    <3>3. Place(input, i) = Cardinality(ObjectsOf(input, StartOf(input, i)))
      BY <2>4 DEF IsLast
    <3>. QED
      BY <3>2, <3>3 DEF own, rhs
  <2>5. CASE ~IsLast(input, i)
    <3>1. PICK q \in DOMAIN tables.productions :
            /\ tables.symbols[rhs[Place(input, i)]].productions = <<q>>
            /\ tables.productions[q].lhs = rhs[Place(input, i)]
            /\ tables.productions[q].rhs = <<>>
      BY <2>2, <2>5
    <3>2. ReducedBy(input, tables, i) = q
      <4>1. ReducedBy(input, tables, i) = Head(tables.symbols[rhs[Place(input, i)]].productions)
        BY <2>5 DEF ReducedBy
      <4>2. Head(<<q>>) = q
        OBVIOUS
      <4>. QED
        BY <3>1, <4>1, <4>2
    <3>3. printed(i, q)
      BY <2>3, <3>2
    <3>4. ~(Place(input, i) = Cardinality(ObjectsOf(input, StartOf(input, i))))
      BY <2>5 DEF IsLast
    <3>. QED
      BY <3>1, <3>3, <3>4
  <2>. QED
    BY <2>4, <2>5
<1>. HIDE DEF object, named, field
<1>. QED
  BY <1>4, <1>6, Zenon DEF ActionsPlaced, Actions, printed, field, named, object

\* Parsing a file that has a %% counts no error just when the file is correct, whatever its
\* tokens are, and a correct file makes rbison stop only for want of a goal, for a goal with
\* two right-hand sides, or for want of nonterminals for its inner actions.
THEOREM ErrorsRight == Spec => []NoErrorIffCorrect
<1>1. Faithful => NoErrorIffCorrect
  BY ErrorsFollow
<1>. QED
  BY <1>1, FileUnderstood, PTL

\* lr() begins with a grammar as it needs it, whatever errors were found in the file but a
\* right-hand side that is too long; without any error, rhs_len is the number of symbols.
THEOREM LrGetsItsGrammar == Spec => []ReadyForLr
<1>1. ASSUME IInv, Faithful, pc = "lr", tables.yynerrs = 0
      PROVE  TooLong(tables) = {}
  <2>1. InPatch
    BY <1>1 DEF Faithful, Wrong, Stopped, AllRead, PatchPlaces, InDefinitions,
      DefinitionsRead, DefinitionsSoFar, DefinitionsPlaces, InRules, BodyRead, RhsPlaces
  <2>2. \A p \in DOMAIN tables.productions :
          /\ tables.productions[p].rhs_len = Len(tables.productions[p].rhs)
          /\ tables.productions[p].rhs_len \in Nat
    BY <1>1, <2>1, LeftSides DEF IInv, InPatch, PatchedSoFar, IsProduction
  <2>. QED
    BY <2>2 DEF TooLong
<1>2. IInv /\ Faithful => ReadyForLr
  BY <1>1, GrammarReady DEF ReadyForLr
<1>. QED
  BY <1>2, GeneratorInvariant, FileUnderstood, PTL

\* The symbol table of a file without errors is what the file says, and after patch() every
\* action is a case of yy_act(), with its fields, under the production it is reduced with.
THEOREM TableRight == Spec => []TableIsFile
<1>1. IInv /\ Faithful => TableIsFile
  BY SymbolsFollow, ActionsFollow DEF TableIsFile
<1>. QED
  BY <1>1, GeneratorInvariant, FileUnderstood, PTL
=============================================================================
