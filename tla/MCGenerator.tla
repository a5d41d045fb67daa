---------------------------- MODULE MCGenerator ----------------------------
(***************************************************************************)
(* Grammar files of small pieces: every two definitions with every two     *)
(* rules, some files with every slip of one token, and long right-hand     *)
(* sides.                                                                  *)
(***************************************************************************)
EXTENDS Generator

K(kind) == <<kind, kind>>
N(x)    == <<"NAME", x>>
Act(x)  == <<"ACTION", x>>
F(x)    == <<"FIELD", x>>

MCCIdentifiers == {"A", "B", "C", "s", "e", "f"}
MCNumerals     == [x \in {"5"} |-> 5]

\* One declaration each; "s" and "e" are what the rules define, "5" is no identifier.
Declarations ==
  {<<>>,
   <<K("TERM_SPEC"), N("A"), F("x"), N("B")>>,
   <<K("LEFT"), N("A"), N("B")>>,
   <<K("RIGHT"), F("x"), N("B")>>,
   <<K("NONASSOC"), N("C"), K("TERM_SPEC"), N("A")>>,
   <<K("TYPE"), F("y"), N("s"), N("e")>>,
   <<K("PERCENT_UNION"), Act("u"), K("CODE_BLOCK")>>,
   <<K("LEFT"), N("s"), K("TERM_SPEC"), N("e")>>,
   <<K("TERM_SPEC"), N("5"), N("f"), N("C")>>}

RuleTexts ==
  {<<>>,
   <<N("s"), K("COLON"), N("e"), Act("1"), N("A"), K("SEMI")>>,
   <<N("s"), K("COLON"), Act("1"), Act("2"), N("e"), K("SEMI")>>,
   <<N("e"), K("COLON"), N("A"), K("PREC"), N("B"), K("OR"), N("B"), Act("3"), K("SEMI")>>,
   <<N("e"), K("COLON"), K("PREC"), N("5"), N("e"), K("OR"), K("SEMI")>>,
   <<N("s"), K("COLON"), N("A"), N("e"), N("A"), Act("1"), K("SEMI")>>,
   <<N("f"), K("COLON"), Act("1"), N("B"), Act("2"), N("f"), N("A"), N("A"), K("SEMI")>>,
   <<N("f"), K("COLON"), N("f"), K("PREC"), N("e"), K("SEMI")>>,
   <<N("A"), K("COLON"), N("B"), K("OR"), N("C"), F("x"), K("SEMI")>>}

\* The code behind the second %% is not read, except by a recovery that goes too far.
Code == <<K("SEPARATOR"), N("s"), K("SEMI")>>

Combined ==
  {d1 \o d2 \o <<K("SEPARATOR")>> \o r1 \o r2 \o c :
     d1, d2 \in Declarations, r1, r2 \in RuleTexts, c \in {Code}}

Base ==
  {<<K("TERM_SPEC"), N("A"), K("LEFT"), F("x"), N("B"), K("SEPARATOR"),
     N("s"), K("COLON"), N("e"), Act("1"), N("A"), K("SEMI"),
     N("e"), K("COLON"), N("A"), K("PREC"), N("B"), K("OR"), K("SEMI")>>,
   <<K("PERCENT_UNION"), Act("u"), K("CODE_BLOCK"), K("TYPE"), N("e"), K("SEPARATOR"),
     N("s"), K("COLON"), Act("1"), N("e"), K("SEMI"), N("e"), K("COLON"), Act("2"),
     K("SEMI")>> \o Code}

Tokens1 ==
  {K(kind) : kind \in {"SEPARATOR", "TERM_SPEC", "PERCENT_UNION", "COLON", "OR", "SEMI",
                       "PREC"}}
  \cup {N("e"), N("B"), Act("4"), F("x")}

Before(s, i) == SubSeq(s, 1, i - 1)
From(s, i)   == SubSeq(s, i, Len(s))

Slips ==
  UNION {UNION {{Before(s, i) \o From(s, i + 1), Before(s, i)}
                  \cup {Before(s, i) \o <<t>> \o From(s, i + 1) : t \in Tokens1}
                  \cup {Before(s, i) \o <<t>> \o From(s, i) : t \in Tokens1} :
                i \in DOMAIN s} : s \in Base}

\* Right-hand sides that are too long, of which some or all can be empty.
Long ==
  {<<K("TERM_SPEC"), N("A"), K("SEPARATOR"),
     N("s"), K("COLON")>> \o rhs \o <<K("SEMI"), N("e"), K("COLON"), K("SEMI")>> :
     rhs \in {<<N("e"), N("e"), N("e"), N("e"), N("e")>>,
              <<N("e"), Act("1"), N("e"), Act("2"), N("A")>>,
              <<N("e"), N("e"), N("A"), N("e"), N("e")>>,
              <<Act("1"), Act("2"), Act("3"), Act("4"), Act("5")>>,
              <<Act("1"), N("e"), N("A"), Act("2"), Act("3"), Act("4")>>}}

MCFiles == Combined \cup Slips \cup Long
============================================================================
