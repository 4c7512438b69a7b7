# A verification development for skibicc

skibicc is a small C compiler: `cpp` preprocesses, `lexer.c` makes tokens,
`parser.c` a tree, `ir.c` three-address code, `codegen.c` x86-64 assembly, and
`as` and `ld` the executable. The TLA+ modules here model its core logic; TLC
checks them on small instances and TLAPS proves the most important results for
every value of the constants. `PROJECT.json` maps each definition to the lines it
models and lists the runs, the mutants that show each property can fail, the
hazards, the findings and the theorems.

The program is sequential. What is hard about it is not threads but long
sequences of calls on hand-written data structures, ownership of shared heap
objects, code that must be right on every path of a program it generates, deep
recursion, and a driver that leaves files behind for its own next run.

## 1. The system

| component | state | operations | talks to | what makes it correct |
|---|---|---|---|---|
| hash map (`hashmap.c`) | array, size, capacity | init, insert (with rehash), get, remove, destroy | used by the stack allocator and the lexer's keyword table | stored keys are found, probing ends, removal takes one entry |
| list (`list.c`) | nodes, head, tail, size | init, push_front, push_back, insert, next, destroy | holds the assembly instructions | the pointers spell the sequence asked for; each node freed once |
| array (`array.c`) | buffer, size, capacity | init, at, push_back, clear, destroy | tokens, block items, IR instructions, alerts | elements survive growth; no pointer outlives the buffer |
| lexer (`lexer.c`) | position, line, column, tokens | lex, its sub-lexers, destroy_tokens | array, alerts, unicode; feeds the parser | the token sequence is that of C; one TK_EOF ends it; every block is freed once |
| alerts (`errors.c`) | queued messages with token pointers | push, report, clear; `error` | lexer, parser, code generator | reported in order, the first error ends the run |
| parser (`parser.c`) | token array, cursor, C stack | one function per production | reads tokens, feeds `emit_ir` | the grammar's tree, in range, always ends |
| IR generator (`ir.c`) | instructions, values with reference counts, name counters | emit_ir, ir_destroy | reads the tree, feeds the lowering | each path writes what it reads; labels resolve; values freed once |
| code generator (`codegen.c`) | assembly list, stack allocator | lowering, printing, destruction | IR, list, hash map | the assembler accepts it and it computes what C says |
| stack allocator (`codegen.c`) | lowest offset, variable-to-offset map | get, destroy | hash map | one fixed slot per variable, none overlapping, all in the frame |
| driver (`skibicc.c`) | options, files, exit status | main, run_preprocessor, emit_code | every stage, `cpp`, `as`, `ld`, the file system | no stale file is used; the status tells the truth |
| strings, unicode, prettyprint | none | pure functions, printing | lexer, driver, tests | conversions are what the encoding says |

Hard behaviours: a sequence of legal map calls that leaves an unreachable entry;
growth of the table between two halves of an operation; values shared by pointer
and freed by count; nested short circuits, whose temporaries and labels interleave;
operand forms that reach an instruction only in some combinations; recursion that
peeks ahead without asking whether a token is there; a tool that fails, a run
that dies between two steps, and the intermediate files they leave.

## 2. The modules

    Slots <-- StackAllocator --> HashMap                 StackAllocator <-- StackAllocatorProofs
    Ast <-- Ir <-- Codegen <-- Machine <-- Compiler      Compiler <-- CodegenProofs <-- ResultProofs
    Ast <-- Parser <-- Grammar <-- ParserProofs
    List <-- ListProofs                 Driver <-- DriverProofs
    Array <-- Alerts, Unicode, Chars <-- Lexer <-- Lexemes <-- LexerProofs <-- LexemesProofs

**HashMap** has one action per loop iteration of `hashmap.c`. `pc` names the loop:
`home` and `probe` are the two halves of `maybe_probe_and_insert`, `rehash` the
loop of `rehash`, `get` the loop of `hashmap_get` (which `hashmap_remove` calls
first), `shift` the loop of `hashmap_remove`. `Insert`, `Get`, `Remove`, `Destroy`
and `Reinit` are the caller's. A zeroed entry is `Empty`. FNV-1a is an arbitrary
function `hash`, chosen once, so every pattern of collisions occurs. The read past
the array in `hashmap_remove` (line 148) is undefined: it ends the loop, as the
zeroed padding of the allocation would, or faults.

**Slots** is what code generation needs of the stack allocator, with no map in
it. **StackAllocator** is the one of `codegen.c` on top of `HashMap`: `Ask` is
`stack_allocator_get` up to the return of `hashmap_get`, `Known` its early return,
`Fresh` the new slot and the start of `hashmap_insert`, `Recorded` its end, and
`Reserve` the end of `lower_ir_func_def`. It is shown to implement `Slots` with
`slot` read off the entries (those of the old array during a rehash).

**Ast** has the constructors of `parser.h`'s trees. **Ir** is `emit_expression` with
the C stack as the sequence `frames`; a value is its position in `vals`, because
the code shares `ir_val`s by pointer and counts references. `ir_destroy` is one
instruction per step, begun (`DestroyBegins`) when the assembly is printed; `IrSpec` is these two functions
alone. **Codegen** lowers one IR instruction per step, and `Translate` puts `emit_ir`, `emit` and `ir_destroy` behind
each other as `main` does (`TranslateSpec`); each
`lower_` and `insert_` function of the code is the operator of that name, giving the
instructions it appends. An operand carries a name `obj` for its heap object.
**Machine** is external: what `as` accepts of the operand forms `emit_asm_instruction`
prints (any immediate, but eight bits for the count of a shift), and what the processor does, on `W`-bit words. **Compiler** composes the four as
`main` runs them, and says what C means by an expression (`Meaning`, a recursive function on the expressions it is
made of). `Depth` is how deep the expressions nest, so that these are found level by level; the code knows no such bound.

**Parser** is `parser.c` with the C stack as `frames`: `pc` is the function that runs,
or what a returned node goes to. A token is its text. **Grammar** gives the trees of
a token sequence by C's expression grammar, one level per nonterminal, written without
the parser's precedences or its climbing: `Trees` is a recursive function from a level and a span of the tokens to the
trees, a chart. Its productions are left-recursive where C's are, so that an operator is parted from its operands wherever it can be.
It is written twice over, by `strict`: loosely, as the trees the parser may build, and as C has it. In the second the left operand of `=` is any
unary expression but a constant in parentheses (`IsTarget`). The parser asks another question, whether what is left of the operand is a constant
once a subscript, a call or a member was dropped from it, so that it refuses `1[p] = 2`, which is C. `AcceptsGrammar` names
that exception (`AssignsToDropped`). A `sizeof` has no production as C has it, and nothing is claimed of a definition with one.

**Array** is `array.c` on a heap: the sequence of the blocks that `malloc` returned, each
counting its frees, so that a block is its number and is live while its count is 0. An
operation that allocates gives back the heap with its result; growing moves the elements
to a new block and frees the old one. **Alerts** is the queue of `errors.c`: an alert points
to its token by buffer and index and owns its message, a block too. **Unicode** has
`decode_utf8` and the two encoders, and a table-free definition of UTF-8 and UTF-16 to compare them
with. **Chars** names bytes by their characters. **Lexer** is `lexer.c` and the
loop of `destroy_tokens`: `pc` is where `lex` is, the sub-lexer tried next or the literal it is inside;
a sub-lexer without inner state is one action (`lex_numeric_constant`, `lex_identifier`,
`lex_punctuator`), a literal one action per character or escape, because each may push an alert or
grow the literal's array, and the reports and the loop of `destroy_tokens` one action per element.
A token has the fields of `token_t`; `chars` stands for the contents of a string
literal's block or the bytes of a character's value. **Lexemes** says what the tokens of a text
are by C's lexical grammar, by longest match over sets of lexemes and without the order of the sub-lexers or
of the tables. `TokensAreLexemes` includes that one TK_EOF ends the tokens, which is what
`InputsEndWithEOF` assumes in `Parser`: the lexer's run discharges the parser's assumption.

**List** is `list.c`; `order` is a history of the sequence the calls asked for.
**Driver** is `main` with one action per stage: a file holds the version of the source
it was made from, `Edit` is the user, `Kill` a signal at any point, and a tool that
fails leaves or removes its output. `remove()` and `fopen` may fail, and `main` looks at neither result: the file stays (`kept`
records which), and without the assembly file the run ends in `emit`, refused or by the null pointer. `LeavesNoMore`
says, of every way in which a run ends by itself, the error exits among them, which intermediate files may then be there.

Definitions whose comment begins with "Mutant" are deliberate bugs, used by no
specification; the manifest names the property that each one breaks.

## 3. The runs

| run | instance | shows |
|---|---|---|
| hashmap | 3 keys, hash values {1, 3, 7}, capacity 4 growing to 8, size up to 6 | the type invariant, room to probe, exact removal, termination of every call |
| hashmap_insert | 2 keys, one hash value | *violated*: a key away from its home slot is inserted twice |
| hashmap_remove | 3 keys, hash values {2, 3} | *violated*: after a removal in the last slot a stored key is not found |
| stack_allocator | 4 variables, hash values {2, 3, 7}, capacity 4 to 8, size up to 4 | `Slots` is implemented; lookups miss nothing; size is exact |
| compiler | about 2,800 expressions of up to three operators, nested up to depth 3, 4-bit ints | the returned value is C's, nothing is read unwritten, what the assembler refuses, labels, ownership, frame, termination |
| compiler_shift | shifts by computed counts | *violated*: a computed shift count is refused by the assembler |
| compiler_body | as the run compiler | *violated*: a return behind another statement is not compiled |
| list | 2 items, 5 nodes | the pointers spell the sequence; destruction frees each node once and ends |
| driver | 3 versions, 3 runs | no stale file is compiled or linked, status 0 is honest about refusals, where intermediate files are left |
| driver_output | 2 versions, 2 runs | *violated*: status 0 without an executable |
| lexer | 37,000 texts: all up to length 4 over the characters of numbers and of literals, up to three punctuators, structured literals and lines; arrays begin with 2 elements | tokens are C's lexemes, positions, alerts that point to live tokens, every block freed once, errors end the run and warnings do not, lex ends |
| parser | every expression of up to 5 tokens over 7 kinds, up to 4 over 8, all operator pairs, damaged programs | in range, ends, only the grammar's trees, rejects nothing of the grammar but assignments to `1[p]` and its like |

Why the bounds are enough. *hashmap*: capacity 4 with home slots 1, 3 and 3 (hash 7 is
slot 3 of 4 and slot 7 of 8) has collisions that wrap around, clusters that reach the end
of the array, and entries that part company when the table grows; size 6 is past the
first growth at 3 of 4. *stack_allocator*: the fourth variable makes the table grow, so
variables are asked for before, across and after it. *compiler*: each way of lowering meets
constants and temporaries on either side (an operator below another gives a temporary),
and short circuits nest to the left, the right and both; with 4 bits there are values that
overflow, negative ones and INT_MIN, and a mistake in an operand's place or register is
one at any width. `Meaning` leaves open what C does: overflow, division by zero, shifts of
negative numbers, constants that are no ints, variables (the compiler gives them no storage). *list*: five nodes allow an insertion
at the head, in the middle and at the tail of a list with earlier ones. *driver*: three runs are
one that leaves a file behind, one that could use it and one after that. *parser*: pairs of
operators decide precedence and associativity; longer chains are covered by triples over one
operator per level, and nesting by parentheses, subscripts and calls. *lexer*: a capacity of
two makes the buffers of tokens, of alerts and of literals grow within three elements, alerts queued meanwhile
included; four characters hold every prefix, suffix, exponent and escape with the character behind it
that decides where it ends; with ULLONG_MAX at 99,999,999 nine digits saturate as twenty do,
and with UINT32_MAX at 2,147,483,647, the widest that TLC has, a byte that is sign-extended is still none that a character has.
Shift counts of 255 and 256 are beside the boundary of the assembler's immediate. A constant is put to the left of `=` in
parentheses, behind operators, and in front of a subscript, a call and a member.

Deadlock is off where the system stops by itself: a program returns, a parser ends, a
list is gone, a read past the array faults, the bound on runs is reached.

## 4. Fairness

All fairness is weak and says only that the program keeps executing: `WF(Step)` for a map
call or a run that has begun, `WF(AllocStep)`, `WF(FreeNode \/ FreeList)` for the loop of
`list_destroy`, and `WF(Next)` for the compiler, the parser and the lexer, which are sequential. No
fairness is put on callers, edits or kills, and a choice of a tool's success is never forced.
In `Driver` it includes that a tool which is started ends, since `system` waits for it.

The liveness properties count a crash as an ending: `EveryCallReturns`, `Finishes` and `ParseEnds` say that no loop and no
recursion goes on for ever, and not that no undefined read faults. The undefined reads (behind the array in
`hashmap_remove`, of the first item of an empty body, of the operand that a `sizeof (` leaves NULL) are in the model as choices, and
the hazards list them without a property.

## 5. The proofs

Each proof module names an inductive invariant `IInv`, proves it of `Init` and of every action,
and derives the properties from it.

* **StackAllocatorProofs**, first part, on the hash map alone, for every set of keys, hash function into the naturals, initial size that is a
  power of two of at least 4, and bound. `TypeOK` and `SizeCoversEntries` are not inductive alone.
  `Load` bounds `size` by the load factor, which gives a free slot, and ties the bound to the loops
  that insert; `Growth` says when a rehash can be running and which entry it holds;
  `Hole` says that removal's scan is past an empty slot, so that a move into it loses nothing.
  `RoomToProbe` follows by counting: fewer entries than slots. `RemovalExact` proves what each answered call of
  `hashmap_remove` does to the entries; it needs besides that a lookup that still runs has answered nothing (`Unanswered`),
  so that the entry it removes is the one it found.
* **StackAllocatorProofs**, second part, for the same and every set of variables and slot size: the allocator
  implements `Slots` (`AllocatorKeepsSlots`), with a variable's slot read off the map's entries. The map alone
  keeps no such promise (section 6), so the invariant `AInv` adds to the map's how the allocator uses it.
  `Phase`: nothing is removed, and a key is inserted only behind a lookup that answered NULL. `Lowest`: the offset is
  the number of slots given out times their size, the one that is being recorded included. `Paths`:
  every slot from an entry's home to its place is full, wrapping around the end, and so are those that the running
  probe or lookup has passed (a lookup that stops at an empty slot has then missed nothing). `Moving`: while
  the table grows, the new array holds what the loop has passed in the old one. `Recalled`: one entry for
  each variable, none below the offset, and an ended lookup has found the entry or there is none. Under the mapping
  every step stutters but three: `Known` and `Recorded` are an `Ask` of `Slots`, `Reserve` is its `Reserve`.
  `AllocatorSizeExact` turns `SizeCoversEntries` into an equality: without removal, `size` is counted up once for
  each entry (`Counted`), and the slots map onto the entries, so there are no fewer slots in use than `size`.
  `AllocatorFindsStored` and `AllocatorInsertReports` say of the allocator's use of the map what section 6 shows the map
  alone to break: a lookup finds what is stored, and an insertion reports a key that was there.
* **CodegenProofs**, first part, for any set of bodies: any expressions, missing operands and nested short circuits. It proves of
  `IrSpec` (`emit_ir` and `ir_destroy` alone) what the run compiler checks where they are two of four parts; `EmitIr` and
  `DestroyIr` of `Codegen` are steps of it, and no other action changes a variable of `Ir` (`TranslateEmits`). `ValsFreedOnce` says nothing of
  references, so it is not inductive. `Counted` says that each value is named by the instructions left to destroy, by the frames that
  wait for a right operand (`Kept`) and by the value being returned exactly as often as it is still to be released
  (`Owed`: its references and one). Every emitting step keeps the sum, one case each; an instruction that is
  destroyed takes as many names as releases. At the end nothing is named, so nothing is owed. For `LabelsResolve`, `Labels` says that the
  names of open operators are pairs of neighbours, those of an operand behind those of its operator, defined by nothing yet,
  and that every other name is jumped to and defined once.
* **CodegenProofs**, second part, for any bodies and slot size: `SlotsInFrame` and `OperandsOwnedOnce` of `TranslateSpec`, the part of the
  compiler before the machine. The invariant says that every operand so far is in one of the slots given out so far (`Framed`), and at the end
  that the first instruction reserves that many. A list of instructions stays framed when one more is put behind it or
  the slots grow, so each `insert_` and `lower_` function is a lemma: it uses the slots of its operands only. That the
  operands are there is a fact about `emit_ir` (`Whole`): a binary instruction has its right operand and its
  destination whatever the expression lacks, and a missing left one stops the lowering. Ownership is proved along
  the same functions: `Owned` gives each list of instructions the set its operand objects are from, all different, and a list may be
  put behind another when their sets are disjoint.
* **CodegenProofs**, third part, for any bodies, widths and slot sizes: the assembler refuses nothing but a shift whose count the source
  computes, or gives as a constant that does not fit eight bits (`OnlyShiftsRefused`). The assembler sees instructions; that a count is an immediate there is known only from the
  expression that `emit_ir` is at. So the invariant ties the two: each frame is of the operand that its caller has come to
  (`Tree`), hence of a part of the source, and a value just made of a constant is a constant (`Kinds`), so an
  instruction's destination is a variable and a shift's count a constant that fits unless the source has one that is not (`UnfitCount`). Each
  `insert_` and `lower_` function is then a lemma that its instructions are accepted when its operands are an immediate or a slot and
  its destination a slot.
* **ResultProofs**, for any bodies, widths from 2 to 32 bits and slot sizes:
  `ProgramCorrect`, that the program returns C's value and does not trap whenever C gives the expression a value, and
  `NothingUnsetRead`, that it reads nothing it has not written, whether C gives one or not. Both are instances of one
  argument. A *claim* `k` (`Backed`) gives to some parts of the source a set of words that they may be worth, and is closed under C's
  operators: for `ProgramCorrect` the one value that `Meaning` gives each part (`SoundExact`), for `NothingUnsetRead`
  all words for every part (`SoundAny`). From there it is carried through three phases.
  1. *emit_ir*: what has been emitted has a plan for the claim (`Planned`): which instructions can be reached,
     which variables are then written, which words each value may be. `Emits` says so in the middle of the recursion, where the
     jumps of open `&&` and `||` go to labels that are still to come: each frame promises what will be known there
     (`Promises`). A plan is only ever widened by a value, an instruction or a frame.
  2. *Lowering*: each `insert_` and `lower_` function is a lemma about a run of the processor (`Runs`): from an environment, the values
     of the places known to be written, it reads known places only, puts the operator's result in the destination, and
     changes nothing else but the helper registers and the flags. The division is the one that needs the claim to exclude a
     trap. `Layout` says that the code is the lowerings one behind another, and that different variables have different slots
     although the table of slots still grows; `Certified` puts the two together.
  3. *The machine*: every register and slot of the environment has been written and has its value (`Agrees`), and from where the processor is, a
     walk along known instructions ends where the plan goes on (`Ahead`); each action of `Machine` keeps both (`Doing`).
  The invariant `Obedient` is the conjunction. It speaks of all claims at once, since which one is of use depends on the property.
  The proofs needed three changes of form in the model: `Meaning` and `Word` are recursive functions, the subterms of an expression are collected
  level by level (`Levels`), and an immediate wider than the instruction is cut off where it is read.
* **ListProofs**, for any items and bound. `Represents` needs that `order` is a permutation of the
  nodes (`Listed`), without which an insertion could disturb two places, and, during
  destruction, that the freed nodes are those before the cursor (`Swept`).
* **DriverProofs**, for any numbers of versions and runs. The invariant says which file holds the
  version `seen` at each stage; `LinksThisRun` and `LeavesNoMore` are action properties proved from it;
  for the second it says that from its removal on the `.i` file is there only if that failed (`Gone`). `TypeCorrect` is its type invariant.
* **ParserProofs**, for every token array that ends in its only TK_EOF. Every advance of the cursor is
  past a token that is not TK_EOF, so there is one behind it: this holds for each advance by one, two or three
  tokens because each of those was looked at first. For `ParserSound` and `ParserComplete` the parser is compared with `Grammar`,
  through any nesting. That there is a chart, and what holds of all trees of one, is proved of the shortest span where it would fail.
  Every invariant here links the frames, from the statement to the function that runs, by a relation of what each caller and its callee are there for.
  1. *Soundness* (`SInv`): a function is called for a kind of expression from a position, and a frame says that any tree of
     the callee's span gives the caller one of its own. The loop of binary operators has a left operand that is ready
     (`Ready`) for whichever operator it takes next: this is where the precedence table, `next_min_pred` and the levels of
     the grammar are compared. A statement's tokens have no `;` or `}` in an expression (`TreesPlain`), so the items are the statements' one by one (`BlockGrows`).
  2. *Completeness* (`CInv`, beside `SInv`): if the tokens are a definition of C, each function has an aim, a tree and the position behind
     it, and a frame says that the caller reaches its aim once its callee has. Trees of a left-recursive level are the
     rounds of a loop (`PostfixIsRounds`, `ExpressionIsRounds`), and what may stand behind an expression (`AfterLevel`) decides that a loop
     goes on exactly as long as rounds are left; what may begin one (`FirstToken`) decides the branch. So no check fails and no operand of `=` is missing,
     but where the operand's tree is a constant and its tokens are not: there the definition is the exception that `AcceptsGrammar` names.
* **LexerProofs**, for every text and every initial capacity. The properties count the frees of each
  block, which is not inductive: nothing in them says that a block without an owner is freed already, or that no two
  owners share one. The invariant keeps a register of pairs <<owner, block>> (the token array, each literal,
  the lexer, the queue, its array and buffer, each message, the array of the literal that is open) that is
  one to one between the owners of a state and its live blocks. Each operation is a lemma about registers: a new owner
  (`Allocated`), an owner less (`Freed`), a block handed on (`Passed`, a literal's array to its token), a
  buffer that moves (`Replaced`). `Pointing` adds that `lex` adds a token only when no alert is
  queued, which is why no alert dangles when the tokens move. Nothing about the text or the cursor is needed,
  except that a numeric constant is no string literal (`NumberType`), whose old block would be lost.
  `LexerTypeCorrect` is proved beside it (`TInv`): what a state of the lexer holds besides blocks. `LexerPositions` says that line and
  column are those of the cursor, whatever the sub-lexers consume; its invariant (`Tracked`) needs for each of them how many newlines are in what it
  consumes, and that a token's place is the cursor's where it began. Where a sub-lexer ends is a recursive function
  of the text; what its result is bounded by is proved with the least position that would be a counterexample.
  `LexerOverruns` says when reads leave the text: its invariant (`Inside`) is that a literal's cursor is in the text or the
  text is cut off inside a literal already.
* **LexemesProofs**, for every text and every initial capacity: `LexerTokens` and `LexerRejects`, the lexer against the grammar of
  `Lexemes`. The grammar is made of sets of lexemes and of longest match; the code scans once, from left to right, in a fixed order of
  sub-lexers and tables. The first half of the module is about the text alone. Each scanner (numbers, suffixes, identifiers,
  punctuators, the elements of literals) ends where the longest lexeme of its kind ends, or sees that there is none; its value is
  the grammar's. A number's value is a sum by places from its end in the grammar and one digit after another in the code, which
  saturates: both are recursive functions, compared at the first position where they would differ. What a literal's body is is
  proved from the end of the text. The classes of first characters tell which sub-lexers cannot match at a position,
  so the order of those that can is all that matters; for the tables, that longer entries come first is `TablesAssumption`.
  The second half is an invariant of the steps (`Lexed`), for ordinary texts. `Chained`: the finished tokens are C's,
  white space between them and up to the cursor. `Tried`: the sub-lexers that came before the one that is next have found
  nothing. `Read`: what has been read of a literal, in front of any body that may follow, is the literal, or an error is queued and there is
  none. `Decided`: the token in the making is C's, or an error is queued and what begins there is none. `Warned` ties the queue to what is printed:
  the run ends with an error only if one was queued.
  The attempt showed that the properties had been false: of code points above 10FFFF (F7 BF BF BF) a wide literal
  makes values that no C text has. Such a text is not `Ordinary` now, and the run has it among its inputs.

The proofs rest on the named ASSUMEs of the modules only, which TLC evaluates in the runs. Of the bodies they say (`Compiler`): expressions
are finite (`DepthAssumption`, with any bound), a constant is an integer of any size, and a unary operator has no right
operand, as the parser makes them (`TreeAssumption`). Of the lexer: a text ends with its only NUL, and the codes of the string
constants (`LiteralsAssumption`), and that the tables of `lexer.c` are C's, no entry behind one it begins with (`TablesAssumption`). Of the machine: a word has 2, 4, 8, 16 or 32 bits.

Every invariant and action property that a run finds to hold is a theorem. Model-checked only: liveness, which is out of the prover's reach, as is what a
recursive operator computes. A recursive function is not, as long
as what is said of it follows at the least argument where it would fail.

## 6. What the runs found

Five places where the code does not do what its text says; `PROJECT.json` has each with the line quoted.

1. `hashmap_insert` looks for the key in its home slot only.
2. `hashmap_remove` does not close a gap across the end of the array, and a stored key is then not
   found. The stack allocator never removes, and the run stack_allocator shows that it is safe from both.
3. A shift by a computed count is printed as `movl` to `%cl`.
4. Only the first statement of `main` is compiled.
5. A failed assembler or linker is not reported: the run exits with 0.

## 7. Not modelled

* In the **lexer**: values of floating constants, the wording of messages, embedded NUL bytes (a text ends at its first). What is read
  behind the NUL of a text is undefined and ends the model's run. The keyword map is the set of its keys (HashMap is
  its model).
* `string_concat` and **prettyprint** (printing of trees, for debugging). `replace_ext` is abstracted in Driver to a change of
  extension, so an input that itself ends in `.i`, `.s` or `.o` is out.
* Printing of assembly beyond which operand form is printed, and what C says of constants wider than an int: the model's assembler cuts
  them off (`Read`), and `Meaning` leaves such an expression open.
* `ast_destroy`, `asm` destruction as steps (operand ownership is checked instead), memory exhaustion
  (`malloc_safe` ends the program), a full disk, two compilers running at once. The `.o` file is
  never removed by the code, and nothing promises that it is.
* Tests, and Unity, which is third-party.

### What the lexer does that a reader would not guess

All of these are in the model as the code has them.

* A backslash before the end of the text takes the NUL for the escaped character, a truncated UTF-8 sequence takes it for a
  continuation, and the literal goes on behind the text (`Overrun`); so does `u'` at the end.
* An octal escape takes up to four digits; the comment at lexer.c:463 says three.
* A raw newline is accepted as the one character of a wide literal, and an escaped newline inside any literal; behind
  one, line and column of later tokens are wrong. `PositionsTrue` holds up to there.
* A four-byte sequence up to F7 BF BF BF is taken for a character, beyond the last code point, 10FFFF.
* An escaped character that is not ASCII has its first byte taken for a signed `char` and sign-extended, and the rest of its bytes follow as
  characters of their own. No C text has such an escape, and it is not `Ordinary`.
* A hexadecimal escape keeps its last eight digits, a character constant its last four bytes.

## 8. What remains

* **Composition** `Parser` -> `Ir`: the statements parsed are the body compiled, with `sizeof ( )` and
  dropped subscripts followed through to the value returned.
* **prettyprint**, `string_concat`.
