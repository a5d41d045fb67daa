# rbison in TLA+

rbison (`src/`) is an LALR(1) parser generator after Holub's occs: it reads a grammar file,
computes FIRST sets, builds the LALR(1) state machine, settles conflicts by precedence, and
prints a C parser made of compressed tables and a template. This directory holds a
specification of the parts that carry its logic, the TLC runs that check it on small
instances, and proofs, checked by TLAPS, that hold for every grammar, file and table size.

`tlc -config MCFirst.cfg MCFirst` runs one configuration, `tlapm LrStatesProofs.tla` checks
one module of proofs. `PROJECT.json` maps each definition to the source lines it stands for,
lists the runs, and names for each property a change to the code that would break it.

## The system

The generator is a sequential program of phases that share global tables; the generated
parser is a second program that shares with the first only the tables it prints.

| component | state | operations | modules |
|---|---|---|---|
| driver, `main.c` | options, error counts, output files | `do_file()` runs the phases | `Generator` |
| grammar-file parser, `parser.c` with `parser.l` | one token of lookahead | recursive descent, recovery by `lookfor()` | `GrammarFile`, `FileMeaning`, `FileProofs` |
| symbol table, `acts.c`, `lib/hash.c` | `Symtab`, `Terms[]`, `Precedence[]`, current left- and right-hand side | `make_term()`, `new_nonterm()`, `new_rhs()`, `add_to_rhs()`, `prec()`, ... | `SymbolTable`, `GeneratorProofs`, `FileProofs` |
| FIRST sets, `first.c` | `first` of each symbol, `Did_something` | `first()`, `first_closure()`, `first_rhs()` | `Grammar`, `FirstSets`, `First`, `GeneratorProofs` |
| patching, `yypatch.c`, `yydollar.c` | the symbol table | `dopatch()` makes embedded actions nonterminals, `do_dollar()` finds what `$n` is | `Generator`, `FileMeaning`, `GeneratorProofs`, `FileProofs` |
| state machine, `yystate.c` | `States`, `Actions[]`, `Gotos[]`, item lists with lookaheads | `lr()`, `newstate()`, `closure()`, `move_eps()`, `merge_lookaheads()` | `LalrTable`, `LrStates`, `LrStatesInv`, `LrStatesProofs`, `LalrReference` |
| unfinished states, `yystate.c` | a binary tree and a free list in `Heap[]` | `add_unfinished()`, `get_unfinished()` | `UnfinishedSet`, `UnfinishedTree`, `UnfinishedTreeProofs` |
| conflicts, `yystate.c` | the row of a state in `Actions[]`, two counters | `addreductions()`, `reduce_one_item()` | `Reductions`, `ActionTable`, `TableProofs` |
| table output, `yystate.c` | the chains, the set of redundant rows | `print_tab()` | `PrintTab`, `ActionTable`, `TableProofs` |
| generated parser, `rbison.par`, `yystack.h` | state stack, value stack, lookahead, error counters | `yyparse()`, `yy_shift()`, `yy_reduce()`, `yy_recover()` | `ParserTables`, `Parser`, `ParserProofs` |
| input system, `lib/input.c`, `tail()` of `main.c` | buffer, marks, pointers, line numbers | `ii_advance()`, `ii_flush()`, `ii_mark_start()`, `ii_unput()`, `ii_term()`, ... | `InputStream`, `InputBuffer`, `InputBufferProofs` |
| sets, `lib/set.c`, `set.h` | bitmaps that grow, the place of `next_member()` | `_set_op()`, `_set_test()`, `subset()`, `enlarge()`, `next_member()` | `PlainSets`, `BitSet`, `BitSetProofs` |
| output of code, small library routines | - | copy text | not modelled |

What is hard about it is not concurrency but order and repetition: FIRST sets and lookaheads
are fixed points reached by walking tables in an order that depends on names and hash
values; states are closed, used and then reopened when lookaheads arrive late; lists are
merged by position; fixed arrays fill up; conflicts are settled one item at a time; and the
generated parser recovers from errors by popping states of one stack while the other waits.
Before all that, the grammar-file parser goes on after errors, and everything behind it works
on what its recovery left in the tables. Under the scanner the text wanders through a buffer
while pointers go on pointing into it, and two bitmaps that mean the same set may differ in
length. The hazards in `PROJECT.json` name the lines.

The components meet in few places. `LrStates` uses the promises of `UnfinishedSet` (which
`UnfinishedTree` keeps) and takes FIRST sets as `First` leaves them; `Generator` composes the
parser, the symbol table, patching and FIRST up to the call of `lr()`; `Parser` runs on
tables settled as `Reductions` settles them, and reads them as `ActionTable` shows that
`print_tab()` leaves them. That sets are sets everywhere is what `BitSet`
shows, and that a scanner reads a text is what `InputBuffer` shows.

## Modules

**Grammar, FirstSets, First.** A grammar is a record of terminals, nonterminals, productions
(left- and right-hand sides by production number) and the FIRST set of each nonterminal.
Token numbers follow the code: 0 is end of input, nonterminals start at 256, actions at 512.
`Grammar` holds the operators several modules need (`FirstRhs`, items, dots, what
`do_close()` derives from an item). `First` is `first()`: `VisitSymbol` is one call of
`first_closure()`, `unvisited` the symbols a pass has still to visit. The hash table is visited
in any order, another one in every pass, because the code's order depends on the names.
`OrderIndependent` says what the end of it is without saying how it is computed: the least
family of sets that `first_closure()` leaves as it is.
`FirstSets` gives the sets two definitions: `CodeFirst`, the least sets the code's rule
leaves as they are, and `TrueFirst`, what FIRST is.

**SymbolTable, GrammarFile, Generator.** `Generator` composes the phases of `do_file()` up to
`lr()`. `SymbolTable` has the functions of `acts.c` as operators on a record of the tables;
each reports errors as the code does, ends the program (`Fatal`) or follows a NULL pointer
(`new_rhs()` when the first left-hand side was a terminal). `GrammarFile` is `parser.c`: a
step handles a token or leaves a loop, and `pc` names the loop. The scanner is external:
files are sequences of tokens. `lookfor()` finds its arguments by walking up from the
address of the first; whether it sees more than the first is left open (`stops`). In
`Generator`, `CheckProblems` is the condition that decides whether to go on, `FindFirst` is
`first()` in one step (`First` has the loops and shows that they end in `CodeFirst`),
`PatchProduction` is `dopatch()` on one production, with the new symbols and productions
numbered from right to left, and `MakeParseTables` is what `make_parse_tables()` asks before
`lr()`. The symbols reach `dopatch()` in any order. `rhs_len` is a field of its own, since
`add_to_rhs()` counts a symbol that it does not store: `TooLong` names the productions where
it is more than there are symbols, and where `first_closure()` comes to the NULL behind those
(`RunsOut`) the behaviour is undefined and ends. `Unset` is what `find_problems()` counts,
used or not; its test of `used` is for a warning only.

`FileMeaning` says what a file means from the positions and neighbours of its tokens alone:
which files are correct (the grammar in the comments of `parser.c`, with its `%%`, the rules
about names, the limits), and their symbols, productions, precedences and fields. It is what
the properties of `Generator` hold the parser against, and follows the comments where the code
does not: `CorrectDefinitions` asks for a separator, and `FieldOf` ends a field with its list,
as `new_field("")` behind each list has it. The parser keeps to neither. `FieldsAsDeclared`
states the second and has a run that refutes it; the properties that hold are restricted to
files with a separator (`HasSeparator`), and except the fields of symbols first met behind a
list that named one (`FieldLeft`). `do_dollar()` prints the field behind the element of the
value stack that `DollarElement` of `Parser` stands for.

**LalrTable, LrStates.** `lr()` with the whole of what it calls. A list of items (kernel,
epsilon, closure) is a function from items to lookahead sets: the code keeps such lists
sorted, so that merging by position is merging by item, and `MergeLists` is defined only
where the items agree. `GetUnfinished` takes the least state number, which is the order the
tree delivers; `CloseKernelItem` and `CloseClosureItem` are single calls of `do_close()`, in
any order within a pass; `StartPass` repeats the pass while something changed; `ClosureDone`
is `kclosure()`, `move_eps()` and the sorting, up to the first transition; `MakeNewState`
and `UseExistingState` are the two outcomes of `newstate()`, with the new lookaheads merged
and the state added to the unfinished ones; `CloseState` ends the iteration; `FatalError` is
`error(FATAL, ...)` where an array is full. `closed_items` is a history variable: the items
and lookaheads a state had when it was last closed.

`Reference` is what the lookaheads are held against: any set of entries
`<<core, item, token>>` closed under the LALR(1) rules (`LalrClosed`). The proofs need no
more. In the runs it is the least such set, and `LalrReference` checks by ASSUME that this
is what merging the canonical LR(1) states gives (`MergedLr1`), the textbook's definition.

**UnfinishedSet, UnfinishedTree.** The abstract set `LrStates` counts on, and the code's
implementation: nodes, left and right links, the reuse of nodes through the free list, node
by node as the loops descend. `parent` and `root` are the code's double and single pointer.
`ImplementsSet` is the refinement, with the numbers in the tree as the set.

**Reductions.** One state's row of the action table as `addreductions()` completes it. The
machine (shifts, items with precedence and lookaheads, precedence of tokens) is chosen at
the beginning; one action handles one lookahead of one item. States are visited one by one
and share only the two counters, so that one state is enough.

**InputStream, InputBuffer.** The abstract module is what the comments of `input.c` promise a
scanner: the file as one text, with a cursor, a lexeme and the lexeme before it. Its calls read,
mark and push back; none of them ends the program or loses a character. The refinement
`ImplementsStream` has the steps of `ferr()` as stuttering steps and says, in `AsCalled`, which
call of the buffer is which of the stream. What the code does against the promises has two
names: `LosesUnput` is the one call excepted there, and `StopsOnlyAtEnd` bounds where `ferr()`
is met. `InputBuffer` is `lib/input.c`: places are indices into `Start_buf`, a read takes as
many whole units as there is room for, or what is left of the file, and a flush moves everything
from the left edge. One action is one function of the interface, but `ii_advance()` is taken
apart at its flush and its read, and `tail()` runs behind the scanner. `text`, `shifted` and
`copied` are history variables: what the file says, how far the buffer's first character is from
the start of it, and what `tail()` wrote. A scanner may call in any order the comments allow:
`ii_unput()` only into the lexeme, marks only after a first `ii_advance()`. Characters are
signed, as on the machines it is built for.

**PlainSets, BitSet.** Sets of numbers and maps of words. A word is the set of its bits. Both
modules record the last call with its arguments (`call`, a history variable), and the
refinement maps one to the other: an `ADD` has to add the element it was given to the set it
was given, a comparison has to leave both alone.
`ADD`, `REMOVE`, `dupset()`, `truncate()`, `CLEAR`, `FILL`, `invert()`, `_set_op()`,
`_set_test()`, `setcmp()`, `subset()` and the loops over `next_member()` are there, with the
cases in which one map is shorter; a loop is a number of steps, with other calls of
`next_member()` in front of it but none within, as the code uses it.

**PrintTab.** `print_tab()` in its three loops, one action per step of a loop, and
`yy_next()` as it reads the result. A table element that points at another element instead
of a chain is the number of that element's state.

**ActionTable.** What `make_parse_tables()` does behind `lr()`, for one state: the row that
`Reductions` completes becomes a chain, in the order its actions may have come in, and stands
at some place among given rows when `PrintTab` begins. `ParserReadsRules` goes from one end to
the other: from shifts, items and precedences to what `yy_next()` reads.

**ParserTables, Parser.** The tables `yyparse()` is linked with are a record, and beside them,
for the properties only, are the grammar they were made from: its items, what each symbol
derives up to a length, the height of a derivation, and how many tokens it takes to end what a
state begins (`cost`, `most`). `IsParser` says that all but the last belong together, and is
what `Parser` assumes of `Programs`, whatever conflicts were settled and however.
`ConflictFree`, `AcceptsAtEnd` and `CanFinish` are the conditions of single theorems.

`Parser` is the generated parser. Both stacks are counted from the bottom, and elements above
the pointers stay: recovery depends on that. `yylex()` and the user's actions are external.
An action makes the value of a production the concatenation of what `$1`, `$2`, ... stand
for, so that the value of a symbol is the string it derived, and any action may return a
value of its own (`ActionReturns`). `PopState`, `Recovered` and `SkipToken` are the steps of
`yy_recover()`. `WriteOutside` is the push that the code does not guard; the behaviour ends
there. Handling of the lexeme around `yy_act()` is left out. The tables are those
`LalrReference` gives for the grammars of `MCParser`, with conflicts settled as
`Reductions` settles them.

## Runs

| run | bounds | what it shows |
|---|---|---|
| `first` | 6,156 grammars: three nonterminals, four productions, right-hand sides of up to two symbols, an action, two terminals | `first()` ends (`FirstTermination`) and `FirstSetsRight`: the result does not depend on the order, nothing is missing, and it is exact where no production goes on behind a nullable symbol to one that is not |
| `generator` | 6,175 files: every two of 9 declarations with every two of 9 rules, two files with every deletion, insertion, replacement and cut at one token, and five with right-hand sides that are too long; limits of 3 terminals, 4 nonterminals, 4 productions, 4 symbols | `NoErrorIffCorrect`: of the files with a `%%`, no error is counted just for the correct ones; `TableIsFile`: symbols, productions, precedences and fields are those of the file, and each action is one case, at the right reduction, with the right `$n`; `ReadyForLr`: what `lr()` gets is a grammar with right FIRST sets, after any error but a right-hand side that is too long; `Termination` |
| `generator_problems` | same | violation: a nonterminal that a right-hand side uses and no rule defines comes to `lr()` without a message |
| `generator_fields` | same | violation: a field goes on to symbols first met behind its list |
| `lr_states` | 7 grammars known as awkward (LALR but not SLR, merged states, nested epsilon productions, lookaheads regained after closing, undefined symbols, embedded actions), 5 that fill one array each, a family of 2-production nonterminals | `LookaheadsSound`, `TableClosed`: exactly the LALR(1) lookaheads; `CanonicalStates` (the states, with one transition on a symbol at most), `SettledStates`, `Termination` |
| `unfinished_tree` | 4 states, 3 nodes, every sequence of calls | `ImplementsSet`, no node is lost (`NodesAccounted`), every call returns |
| `action_table` | up to three reducing productions, production 0 included, every split between kernel and epsilon items, all precedences, one row of a table of four; for states without conflicts every table of four rows out of seven chains, and every place | `TableTypeOK`; `RowByRules`: the finished row; `NothingSilent`: no message means that precedence settled everything; `LookupAgrees`: the printed tables are the chains; `NamesDeclared`: what the pointer array names was printed, once; `ParserReadsRules`: what is read is what the rules say |
| `parser` | four grammars, inputs of up to 4 to 7 tokens, stacks of 5, `YYMAXERR` 1, `YYCASCADE` 3 | `StacksInStep` (the states are a path of the machine, and the values those of its symbols), `ErrorFreeIffSentence`, `FirstErrorInTime`, `SkipsOnlyHopeless`, `ParserReturns` |
| `parser_stack` | same | violation: a reduction by an epsilon production writes outside a full stack |
| `input_buffer` | `MAXLEX` 2, `MAXLOOK` 1, so a buffer of 8; files of 0, 6, 8 and 12 characters and one of 9 with a byte above 127; every sequence of calls | `ImplementsStream`: each call does what the stream's call does, and no flush shows; `StopsOnlyAtEnd`; `LineNumbers`, `LookaheadTrue`, `TailComplete` (`tail()` copies the whole rest, or `ferr()` ends the program), and `TypeOK` with every access inside the buffer |
| `bit_set` | two sets, words of 2 bits, 2 words at first, elements 0, 3 and 4; every sequence of calls | `ImplementsSets`: every call does to the sets what its operation does; `AnswersTrue` (equality and subset, `_set_test()` as far as it goes), `WalkVisitsAll` |
| `parser_whitespace` | a grammar with a terminal numbered 16 | violation: the parser accepts in the middle of the input |

The bounds are chosen so that the interesting cases happen. The tree needs one more state than
nodes, to run out of nodes and to use the free list, and three nodes, to splice below the root.
`YYCASCADE` must be at least 3 for an error to be found while messages are still suppressed, and
the stacks at most 5 deep for inputs of 7 tokens to fill them by a shift as well as by a
reduction. Four rows are the least with two templates that have a duplicate each; with the
conflicts of a state, one fixed table is enough, since its row is a chain like any other then. A
file of `generator` exceeds each of its limits, in the file or only by its embedded actions, and
correct files make up enough of the rest for three actions in one grammar, undefined symbols,
`%prec` with numbers and names, and grammars where `first()` is not exact. The limits of `lr()`
(`MAXSTATE` 14, `MAXKERNEL` 3, `MAXCLOSE` 8, `MAXEPSILON` 2, `MAX_UNFINISHED` 7) are as small as
the other grammars allow, and each is exceeded by a grammar of its own. A buffer of 8 is flushed
at least twice by a file of 12, and refuses a lexeme of three with the lexeme before it; the end
of a file shows only by a read that delivers less than was asked for, which the files of 0, 6
and 8 do not all have: one that ends just with a read is stopped by the next flush. Element 4 is
the first that two words of two bits have no room for, so that every operation meets equal,
shorter and longer maps; 0 and 3 are the first and the last bit of them.

Something RowByRules brings out: a token's action depends on the order of the items. Once a
reduction has beaten the shift, a later item is compared with the reduction only, and wins
by a smaller production number even if it would have lost to the shift; `Outcome` says so
exactly.

**Fairness.** The program is sequential and waits for nobody: the only fairness is that a
step that can be taken is taken (WF of `Next`). `Parser` adds that `yylex()` and the user's
actions return.

**Disagreements found** (`findings` in `PROJECT.json`, a run each): the unguarded push
against the stack macros; the second lookahead of the start item against the comment above
it; `problems()`, which never runs on a file without errors, against the comments on it and
on its call; and the fields that are not reset, against the grammar in the comments of
`parser.c`.

Met on the way, without a run of their own; the first four are exceptions that a property names:

- A file that ends in its definitions is parsed without an error (`parser.c:139` and `:176`),
  against the grammar in the comments (`parser.c:288`, `parser.y:44`), which asks for the `%%`.
  `FileMeaning` calls it incorrect, and `NoErrorIffCorrect` leaves it out (`HasSeparator`).
- `rhs_len` is counted before the room is looked at (`acts.c:406`), against its declaration
  (`parser.h:121`). The analysis goes on behind the message, and where all the symbols that fit
  can be empty, `first_closure()` (`first.c:49`) or `first_rhs()` as `do_close()` calls it
  (`yystate.c:797`) follows the NULL behind them. `FindFirst` has the first; `ReadyForLr` says
  nothing of such a grammar.
- A file that ends just with a read stops the program in the next flush (`input.c:227`),
  although characters are still to come, as does an empty file, against the comment on
  `ii_advance()` (`input.c:153-157`), which promises 0 at the end. `StopsOnlyAtEnd` says where
  this can happen.
- `ii_pushback()` answers 0 when it has pushed all it was given and stands at the mark
  (`input.c:320`, against `input.c:303-306`), so that `ii_unput()` loses its character there
  (`LosesUnput`).
- `first_rhs()` calls right-hand sides nullable that are not (`first.c:57`, against the
  comment at `first.c:88-90`); `FirstSetsRight` says exactly what it computes.
- `rbison.par:283` says that `yyparse()` returns -1 when recovery fails; `YYABORT` returns 1.
- `_set_test()` answers DISJ for sets that have their common elements in equal words, and
  `_DIFFERENCE` is the symmetric difference. `AnswersTrue` and `PlainSets` say so; nothing
  in rbison calls either.
- `ii_lookahead(1)` behind the end of a file returns what is under the NUL of `ii_term()`
  (excepted in `LookaheadTrue`). `tail()` stops at a NUL byte and drops bytes of value 255,
  and a byte above 127 in a comment is taken for a refusal (`parser.l:39`).
- A goal symbol that is used on a right-hand side (`yystate.c:1419`), as in
  `program: expr; expr: NUM | '(' program ')'`, gives some states the start item twice.

## Proofs

`LrStatesProofs` proves for every set of grammars and every limit, from the assumptions that
grammars are well-formed (`GrammarsAssumption`), that `Reference` is closed
(`ReferenceAssumption`) and that the limits are natural numbers (`LimitsAssumption`):

- `TypeCorrect`, `Soundness` (no lookahead is wrong), `Canonical` (the states are the
  canonical collection), `OneTransition`, `Settlement` (a state at rest has handed on all of
  its lookaheads), `Completeness` (the finished table is closed under the rules) and
  `Monotone` (`OnlyLookaheadsGrow`, which no run checks: steps only add lookaheads).

None of them is inductive. `IInv` in `LrStatesInv` is: it says of every state which of the
promises of the finished table hold already. The core of it is that an item's lookaheads as
of the last closing (`closed_items`) are in the closure and in all successors, unless the
state is unfinished again or is being worked on (`ExpandedItems`, `Propagated`), that the
running closure has handed on what it visited unless a change was noticed
(`ClosureProgress`), that the items left are all the items on the symbols left
(`PendingItems`), and that no state is forgotten (`Accounted`). When `lr()` returns nothing
is unfinished, and `Completeness` follows. There is one lemma per action, one step per part.
Its first part holds what is needed of items, `Follow` and the LR(0) closure.

`TableProofs` proves about `print_tab()`, for every number of rows and all chains,
`PrintTypeCorrect`, `Lossless` (lookups in the printed tables agree with the chains),
and `Declared`. The invariant: a marked row has an unmarked template before it
with the same chain, and rows compared so far and not marked differ.

About `addreductions()` it proves, for any number of items, tokens and precedences,
`TypeCorrect`, `RowRight` and `NothingPassedOver`. The properties are about the finished row;
the invariant says the same of the items seen so far (`Seen`): a cell has the least production
since the first one that beat the shift, and while no message has come every conflict seen was
settled.

About both, one behind the other, it proves `TableInvariant`, `TableTypeCorrect`, `TableParts` and `ReadsRules`
(`ParserReadsRules`), from the assumption that the rows of all states are among the chains
(`ActionTableAssumption`). A finished row is a chain in any order of its cells, and looking a
token up does not depend on that order, since a token is in a row once (`LookupInChain`).

`InputBufferProofs` proves for every file, every `MAXLEX` and every smaller `MAXLOOK`
`TypeCorrect`, `LinesCounted`, `LookaheadRight`, `Implements` (the buffer is a stream, call by
call, with the exception of `LosesUnput`) and `StopsRight` (`StopsOnlyAtEnd`). The invariant
follows the text: from the left edge to `End_buf` the buffer holds it at the distance `shifted`,
and the rest is still to be read (`Window`); while there is a rest the buffer is full but for
less than a unit, and `MAXLOOK` characters lie behind the next one whenever a scanner can look
(`Room`). That is inductive because a flush keeps the left edge, and because a read comes when
`next` is at `DANGER`.

`BitSetProofs` proves for words of any size, maps of any lengths and any elements `TypeCorrect`,
`Answers`, `Implements` (every call does to the maps what it does to plain sets) and
`WalksRight`. It rests on lemmas about division and bits, and one per operation on the members
of its result; the invariant is the shape of the maps (`Bitmaps`), and for the loops that what
has been got is what lies below `current_member` (`Walk`).

`GeneratorProofs` proves about `first()`, for every set of grammars, `FirstTypeCorrect`,
`LeastFamily` and `SetsRight` (`FirstSetsRight` as it stands in the run): when `first()`
returns, the sets are the least family that `first_closure()` leaves as it is, nothing FIRST
has is missing, they are FIRST where the grammar is plain, and the fixed point `CodeFirst` is
that family. The invariant: the sets are below every closed family, because `first_closure()`
is monotone, and in a pass that has changed nothing the symbols visited are as it leaves
them. `CodeFirst` and `TrueFirst` iterate a rule as often as there are members to gain; that
this is enough is an argument by counting: an iteration that still changes something makes
the family larger by one member at least.

About `do_file()` up to `lr()` it proves, for every set of files, all limits the code can have
and whatever `lookfor()` sees, `GeneratorInvariant` and `GeneratorTypeCorrect`, and the lemma
`GrammarReady`: what reaches `lr()` is a grammar with right FIRST sets after any number of
errors, up to the last symbol stored of each right-hand side. That `rhs_len` counts just those
is in `LrGetsItsGrammar` (`ReadyForLr`) of `FileProofs`, since in a file without errors it
follows from what the file says. The invariant has five parts.

- `Sound`: numbers without gaps, every production in the chain of its left-hand side, once,
  newest first, and every action of the file on one right-hand side and there once
  (`ActionsOnce`). Without the last, patching a production would delete a symbol that another
  one still uses.
- `AtPlace`: what each loop of the parser counts on, and what `lookfor()` has to leave true for
  the loop it goes back to: no production in front of `%%`, a left-hand side behind it, room
  in the right-hand side that is being collected.
- `BeforeFirst`: nothing is there yet that `first()` and `patch()` leave.
- `ToPatch`: every production with an action is still to come, under a symbol `ptab()` has not
  reached or in the chain of the one it is at. When nothing is left, no action is.
- `FirstHolds`: the sets are closed under the rule of FIRST, and below all that the code's
  rule leaves as it is. `first()` makes them so, for right-hand sides with actions, which it
  passes over. `dopatch()` keeps them: a new nonterminal comes with EPSILON, as nullable as
  the action in its place, and an action that was last goes without a trace (`GrownFirst`).
  That is why nothing has to be computed again behind `patch()`.

`FileProofs` proves that the grammar file is understood as `FileMeaning` reads it, for every set
of files, all limits and whatever `lookfor()` sees: `FileUnderstood`, `ErrorsRight`
(`NoErrorIffCorrect`), `TableRight` (`TableIsFile`) and `LrGetsItsGrammar` (`ReadyForLr`). It
adds two assumptions to the limits: files are sequences of tokens (`FilesAssumption`), and no
identifier starts with a digit, which `c_identifier()` asks (`NamesAssumption`). What is shown
is `Faithful`, beside the invariant of `GeneratorProofs`, by whose second half (lemmas on files,
and on what the functions of `acts.c` add to the tables) it goes. `Faithful` says that one of
these holds:

- `Wrong`: the file is not correct, and an error has been counted or the program has stopped.
  No recovery comes back from there, since errors are never taken back.
- `InDefinitions`, `InRules`, `AllRead`: there is no error, and the parser stands at a position
  of the file, in a loop that goes with the tokens around it. The tokens before it are where
  the grammar of `parser.c` allows them, the rules about names hold for the names so far
  (`NamesFit`), and the tables hold just these: a symbol for each name, with its field
  (`NamesRead`), the levels of the lists so far (`PrecsRead`, `LevelRead`), a production for
  each right-hand side, as far as it has been read (`RulesRead`).
- `InPatch`: each production of the file either is still as it was read, actions and all
  (`Unpatched`), or has its cases and its new nonterminals (`ActionsMade`), and the nonterminals
  in use are those of the file and one for each inner action replaced. Counting them is what
  shows that a correct file has room for all of them, or stops.
- `Stopped`: a correct file has no rules, or two right-hand sides for its goal, or more inner
  actions than nonterminals are left.

There is a lemma per loop of the parser, and one per kind of token below it: a token that fits
takes the position one on, and one that does not makes the file wrong and counts an error.
`CorrectFile` is a statement about the whole file: that the prefixes decide it is most of the
work. The limits are where counting comes in: `make_term()` finds no room just when the file has
more names of terminals than there are values for them.

`ParserProofs` proves for all tables made from item sets, every input and stacks of every
size:

- `TypeCorrect`, `StacksStayInStep` (`StacksInStep`) and `OnlyHopelessTokensSkipped`
  (`SkipsOnlyHopeless`), with no assumption but `IsParser`.
- `AcceptsTheLanguage`: where the tables are free of conflicts (`ConflictFree`) and accept at
  the end only (`AcceptsAtEnd`), `ErrorFreeIffSentence`.
- `FirstErrorIsOne`: without conflicts, the first message is no false alarm, which is the
  second conjunct of `FirstErrorInTime`.
- `FirstErrorIsRight`: all of `FirstErrorInTime`, where every state can be left (`CanFinish`)
  and `strings` is complete to the length of the input and what it takes to leave the deepest
  stack (`SentencesLong`).

The invariant says where each state of the stack comes from and what its value derives
(`StacksHold`), also above the pointer while `yy_recover()` may still go back there, how far
the input has been read (`Reading`), that a message counts (`Counters`), and that the states
popped so far cannot go on with the token (`Hopeless`). That a reduction finds as many states
as it pops, and a goto below them, follows from the items: an item with the dot at `d` has
the same item with the dot at `d - 1` in the state before (`FollowsItems`).

The other direction, that a sentence meets no error, is not about the stacks but about what is
still to come. `OnCourse` says it: for each sentence that agrees with what has been read, there
are items `open` on the stack and places in the sentence such that each open item's rest derives
the sentence's piece up to the next place (`Course`). A shift goes on along it; where the token
is not what the top item waits for, that item's next symbol has a production that begins with
it, of less height (`rank`), so that the search for the item the table acts on ends; and the
table does what that item asks for because nothing was lost to a conflict. `lines`, whose
conflicts precedence settles, is the run's parser that `ConflictFree` is not true of: there
`ErrorFreeIffSentence` is model-checked. `HypothesesHold` in `MCParser` has TLC evaluate both
conditions for the others.

That what was shifted begins a sentence is about neither the input nor what is to come, but
about how the stack can be left. A production a state begins is begun for an item of that
state, and going from one to the other leads to an item whose production was begun further
down, since `cost` falls on the way; the item on top ends in few tokens, and by induction on
the element of the stack and then on `cost` so does every production begun below (`Ends`,
`AllEnd`), down to production 0 in state 0. That takes a string for every symbol, and strings
that long to be in `strings`: `CanFinish` and `SentencesLong`, which TLC evaluates for all
four parsers and the run's stacks and inputs.

`UnfinishedTreeProofs` proves for any states and a pool of any size `TypeCorrect`,
`Accounted` (no node is lost) and `Implements` (the tree is the bounded set of
`UnfinishedSet`). That links make a tree is usually said by recursion; here every node has
the two bounds between which the search comes to it (`Tree`), and every free node a rank
(`List`), both chosen with the invariant. What an insertion, a removal of the leftmost node,
a push and a pop do to them are the lemmas `InsertedLeft`, `InsertedRight`, `Taken`,
`Pushed` and `Popped`; `TreeBehind` and `ListBehind` say that what follows from the root is
just the tree. The nodes are chosen afresh in each step, so that the invariant is an
existential statement, and the slot the descent has come to is between its parent's bounds
(`AddPlace`).

Model-checked only:

- Termination and the other liveness properties (out of the prover's reach).
- `ErrorFreeIffSentence` and `FirstErrorInTime` for tables with conflicts settled by
  precedence, the latter except for its first conjunct (`ShiftedBegins` asks nothing about
  conflicts).

## Not modelled

- `lib/hash.c` is taken for a map walked in any order; deletion during `ptab()` takes out
  symbols other than the one visited, and in `dopatch()` only symbols of actions.
- `COMPLEMENT` and `sethash()` of `set.c`, `ii_io()`, a second `ii_newfile()` and `pLineno`
  of `input.c`: nothing uses them.
- The scanner (`parser.l`): patterns for another tool, without control of their own.
- `print_reductions()`, `make_yy_lhs()`, `make_yy_reduce()`, `mkprod()`: they print arrays of
  production fields, which `Parser` takes as given.
- `IsGrammar` excludes a goal symbol that is used on a right-hand side: the code accepts it
  and gives some states the start item twice.
- Names of actions (`{0}`) are taken to differ from all text in the file, and `rhs_len`, an
  `unsigned char`, not to wrap.
- Text: messages, layout, names of files, `y.output`, `#line` directives.

## Plan

What could follow: the hash table bucket by bucket, with deletion under `ptab()`; `lr()` on
grammars whose goal symbol is used.
