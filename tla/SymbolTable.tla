---------------------------- MODULE SymbolTable ----------------------------
(***************************************************************************)
(* The symbol table of rbison and the functions of acts.c that the parser  *)
(* of grammar files builds it with.  Each takes the tables and returns     *)
(* them as it leaves them; the tables are a record:                        *)
(*   symbols     val -> name, field, set, used, productions of a symbol    *)
(*               (Symtab and Terms[] in one; productions newest first)     *)
(*   productions num -> lhs, rhs, rhs_len, prec                            *)
(*   Precedence  terminal -> level, assoc                                  *)
(*   Cur_term, Cur_nonterm, Cur_act, Num_productions                       *)
(*   Goal_symbol, lhs     values of symbols, NULL for none                 *)
(*   rhs                  the current production                           *)
(*   Goal_symbol_is_next, Associativity, Prec_lev, Field_name              *)
(*   yynerrs              errors reported                                  *)
(*   status               "run"; "exit" after a FATAL error; "undefined"   *)
(*                        after a NULL pointer was followed                *)
(***************************************************************************)
EXTENDS Integers, FirstSets

CONSTANTS
  MAXTERM,          \* largest value of a terminal
  MAXNONTERM,       \* and of a nonterminal, nonterminals starting at MINNONTERM
  MAXPROD,
  MAXRHS,
  CIdentifiers,     \* the names c_identifier() accepts
  Numerals          \* function from the names that start with a digit to their atoi()

ASSUME LimitsAssumption ==
  /\ MAXTERM \in 1 .. MINNONTERM - 2
  /\ MAXNONTERM \in MINNONTERM .. MINACT - 1
  /\ MAXPROD \in Nat \ {0}
  /\ MAXRHS \in Nat \ {0}

\* No identifier starts with a digit. (isdigit() in c_identifier())
ASSUME NamesAssumption == CIdentifiers \cap DOMAIN Numerals = {}

NULL == 0

InitialTables ==
  [symbols |-> [v \in {} |-> [name |-> ""]],
   productions |-> [p \in {} |-> [lhs |-> NULL]],
   Precedence |-> [v \in 1 .. MAXTERM |-> [level |-> 0, assoc |-> "none"]],
   Cur_term |-> 0, Cur_nonterm |-> MINNONTERM - 1, Cur_act |-> MINACT - 1,
   Num_productions |-> 0, Goal_symbol |-> NULL, Goal_symbol_is_next |-> FALSE,
   lhs |-> NULL, rhs |-> NULL, Associativity |-> "none", Prec_lev |-> 0, Field_name |-> "",
   yynerrs |-> 0, status |-> "run"]

\* lerror(NONFATAL, ...) and lerror(FATAL, ...)
NonFatal(t) == [t EXCEPT !.yynerrs = @ + 1]
Fatal(t)    == [t EXCEPT !.yynerrs = @ + 1, !.status = "exit"]

IsTerm(v)    == v \in 1 .. MAXTERM
IsNonterm(v) == v \in MINNONTERM .. MAXNONTERM
IsAct(v)     == v >= MINACT

\* findsym(Symtab, name); the names of actions, "{DDD}", are no names of the input
Found(t, name) ==
  IF \E v \in DOMAIN t.symbols : ~IsAct(v) /\ t.symbols[v].name = name
  THEN CHOOSE v \in DOMAIN t.symbols : ~IsAct(v) /\ t.symbols[v].name = name
  ELSE NULL

\* newsym() and addsym(), and the entry in Terms[]
AddSymbol(t, v, name, field, set) ==
  [t EXCEPT !.symbols =
     [w \in DOMAIN @ \cup {v} |->
        IF w = v
        THEN [name |-> name, field |-> field, set |-> set, used |-> FALSE,
              productions |-> <<>>]
        ELSE @[w]]]

\* Mutant: one terminal more than Terms[] and Precedence[] have room for.
TermsOverfull(t) == t.Cur_term > MAXTERM

TermsFull(t) == t.Cur_term >= MAXTERM

make_term(t, name) ==
  CASE name \notin CIdentifiers -> NonFatal(t)
    [] name \in CIdentifiers /\ Found(t, name) # NULL -> t
    [] name \in CIdentifiers /\ Found(t, name) = NULL /\ TermsFull(t) -> Fatal(t)
    [] OTHER -> AddSymbol([t EXCEPT !.Cur_term = @ + 1], t.Cur_term + 1, name,
                          t.Field_name, TRUE)

first_sym(t) == [t EXCEPT !.Goal_symbol_is_next = TRUE]

\* The second half of new_nonterm(), for the symbol found or added.
InitNonterm(t, v, is_lhs) ==
  LET goal == IF t.Goal_symbol_is_next
              THEN [t EXCEPT !.Goal_symbol = v, !.Goal_symbol_is_next = FALSE]
              ELSE t
  IN IF is_lhs
     THEN [goal EXCEPT !.lhs = v, !.rhs = NULL, !.symbols[v].set = TRUE]
     ELSE goal

new_nonterm(t, name, is_lhs) ==
  LET v == Found(t, name)
  IN CASE v # NULL /\ ~IsNonterm(v) -> NonFatal(t)
       [] v = NULL /\ t.Cur_nonterm >= MAXNONTERM -> Fatal(t)
       [] v # NULL /\ IsNonterm(v) -> InitNonterm(t, v, is_lhs)
       [] OTHER -> InitNonterm(AddSymbol([t EXCEPT !.Cur_nonterm = @ + 1],
                                         t.Cur_nonterm + 1, name, t.Field_name, FALSE),
                               t.Cur_nonterm + 1, is_lhs)

\* A production at the head of the chain of the current left-hand side, which is NULL
\* when all left-hand sides so far were terminals.
new_rhs(t) ==
  LET num == t.Num_productions
      linked == [t EXCEPT
        !.symbols[t.lhs].productions = <<num>> \o @,
        !.productions = [p \in DOMAIN @ \cup {num} |->
                           IF p = num
                           THEN [lhs |-> t.lhs, rhs |-> <<>>, rhs_len |-> 0, prec |-> 0]
                           ELSE @[p]],
        !.Num_productions = @ + 1,
        !.rhs = num]
  IN CASE t.lhs = NULL -> [t EXCEPT !.status = "undefined"]
       [] t.lhs # NULL /\ num >= MAXPROD -> Fatal(t)
       [] OTHER -> linked

\* The symbol for an object of a right-hand side, added to the tables if it is new.
WithObject(t, object, is_an_action) ==
  CASE is_an_action ->
         AddSymbol([t EXCEPT !.Cur_act = @ + 1], t.Cur_act + 1, object, "", FALSE)
    [] ~is_an_action /\ Found(t, object) = NULL -> new_nonterm(t, object, FALSE)
    [] OTHER -> t

\* Mutant: the first terminal's precedence counts.
FirstPrec(t, v) ==
  IF t.productions[t.rhs].prec # 0
  THEN t.productions[t.rhs].prec
  ELSE IF IsTerm(v) THEN t.Precedence[v].level ELSE 0

\* if (ISTERM(p)) p_cur_sym->rhs->prec = Precedence[p->val].level
PrecAfter(t, v) ==
  IF IsTerm(v) THEN t.Precedence[v].level ELSE t.productions[t.rhs].prec

add_to_rhs(t, object, is_an_action) ==
  LET known == WithObject(t, object, is_an_action)
      v == IF is_an_action THEN known.Cur_act ELSE Found(known, object)
      counted == [known EXCEPT !.symbols[v].used = TRUE,
                               !.productions[t.rhs].rhs_len = @ + 1]
  IN CASE known.status # "run" -> known
       [] known.status = "run" /\ t.productions[t.rhs].rhs_len >= MAXRHS ->
            NonFatal(counted)
       [] OTHER -> [counted EXCEPT !.productions[t.rhs].rhs = Append(@, v),
                                   !.productions[t.rhs].prec = PrecAfter(t, v)]

new_lev(t, how) ==
  IF how = "none" THEN [t EXCEPT !.Associativity = how]
  ELSE [t EXCEPT !.Associativity = how, !.Prec_lev = @ + 1]

prec_list(t, name) ==
  LET known == IF Found(t, name) = NULL THEN make_term(t, name) ELSE t
      v == Found(known, name)
  IN CASE known.status # "run" -> known
       [] known.status = "run" /\ ~IsTerm(v) -> NonFatal(known)
       [] OTHER -> [known EXCEPT !.Precedence[v] =
                      [level |-> t.Prec_lev, assoc |-> t.Associativity]]

prec(t, name) ==
  CASE name \in DOMAIN Numerals -> [t EXCEPT !.productions[t.rhs].prec = Numerals[name]]
    [] name \notin DOMAIN Numerals /\ ~IsTerm(Found(t, name)) -> NonFatal(t)
    [] OTHER -> [t EXCEPT !.productions[t.rhs].prec = t.Precedence[Found(t, name)].level]

new_field(t, name) == [t EXCEPT !.Field_name = name]
============================================================================
