# TLA+ models of the re2c code generator (pass 2)

This directory holds TLA+ models of `src/src/codegen/pass2_generate.cc`, the
pass of re2c that turns a DFA into a code tree, and of the front end in
`src/parser.h` (the grammar actions and `parse()`), and TLC configurations
that check them. The generator itself is a single-threaded, pure tree builder, so
its hard behaviour is not in how it runs. It is in the run-time behaviour of
the code it emits:
- YYFILL refills that bring short chunks or fail;
- the end-of-input rule `$`, with its sentinel and `YYLIMIT <= YYCURSOR` checks;
- fallback transitions and their elision;
- backtracking through YYBACKUP/YYRESTORE and `yyaccept`;
- the push model (storable state), where YYFILL returns to the caller and the
  caller re-enters through a `YYGETSTATE()` switch.

The models therefore build the program that pass 2 emits, execute it against
every chunking of every small input, and check that it implements a
longest-match tokenizer.

## Parts of the system (inventory)

The component letters follow `spec.md` §2.

| Part | State / inputs | Operations (source) | Interacts with |
|---|---|---|---|
| A Scratch/Arena | arena, scratch buffer | allocation (not in `src/`) | everything |
| B Code tree | lists, labels, gotos, if/else, switches | `code_*` constructors (not in `src/`) | C–H |
| C API templater | options: API style, sigils, names | `gen_less_than`, `gen_state_set`, `gen_cond_set`, `argsubst` | D, E, G |
| D Tag actions | tag-command lists, tag versions, history | `gen_settags`, `gen_settag`, `gen_assign_many*` | E, F, G |
| D′ Final tags | rule tag ranges, fixed/variable tags | `gen_fintags`, `expand_fintags` | G (`emit_rule`) |
| E Fill/EOF planner | `fill`, `fill_label`, `fill_state`, fallback | `gen_fill`, `gen_fill_falllback`, `gen_goto_after_fill`, `gen_fill_and_label`, `gen_if` | F, H |
| F Transitions | `go`: switch/if tree, bitmap, cpgoto, dot | `gen_go`, `gen_gosw`, `gen_goif*`, `gen_gobm`, `gen_gocp`, `gen_goto` | E, G |
| G Actions | action kind, save slot, accepts, rule | `emit_action`, `emit_accept(_binary)`, `emit_rule`, `emit_state` | E, F |
| H Block assembler | block options, start label, fill-goto map | `gen_block_code`, `gen_dfa_as_*`, `gen_state_goto(_implicit)` | all |
| I Directives | cross-block conditions, tags, maxima | `expand_cond_enum`, `add_condition_from_block`, `gen_cond_goto_binary`, `gen_yymax`, `expand_tags_directive` | H |
| Grammar parser (`src/parser.h`) | statics `accept`, `spec`; symbol table; output stream | the bison actions of `spec` … `primary`, `parse`, `line_source` | the scanner, `genCode` |

What makes the emitted lexer correct, and is hard to test:
- the guard, fill and fallback code of every eof transition must keep the
  cursor within YYLIMIT for every split of the input;
- a rematch after YYFILL must neither lose nor repeat input;
- a fallback may be elided only where control falls through to an
  identical transition;
- YYRESTORE must return to the YYBACKUP of the current token, and the
  `yyaccept` dispatch must pick the rule that backup recorded;
- a push-model lexer must resume exactly where YYFILL left it, reset its
  state after each rule, and eventually reach `$` even when YYFILL brings
  nothing.

## Modules

- **`CodeTree.tla`** is the flattened code tree shared by the generator
  models: labels, the instructions, the conditions, `IfThenElse` and `Switch`,
  and the small `gen_*` helpers that each build one instruction (`gen_abort`,
  `gen_state_set`, `gen_less_than`, `gen_restore`, `gen_fill_label`).

- **`Codegen.tla`** models pass 2 in goto/label, loop/switch and rec/func mode for one
  DFA without conditions (the constant `CodeModel`). The DFA, its fallback states and the options are CONSTANTS, one
  per field of `State` and per option. Each C++ function is an operator with the
  same name in CamelCase, and returns the code the function appends. The code
  tree is flattened into a sequence of instructions:
  - a `code_if_then_else` becomes an `if` with a relative offset;
  - a switch becomes one instruction with an offset per case, the default last;
  - labels and gotos are instructions naming a label;
  - YYSKIP, YYPEEK, YYBACKUP, YYRESTORE, `yyaccept = n`, YYSETSTATE,
    YYFILL and the rule action are one instruction each, whatever their
    rendering.

  A SWITCH_IF go is a switch (`GenGoSw`) or an if-tree (`GenGoIf`). An
  if-tree is given as the pass 1 tree: binary nodes are one if/else
  (`gen_goifb`), linear nodes a chain of independent ifs, one per
  conditional branch, then the unconditional last branch (`gen_goifl`). In
  rec/func mode the branches are one if/else-if/else (`IfElseChain`), and a
  single unconditional branch is the bare transition.

  `Program` is `gen_block_code`. In goto/label mode it is the state switch
  when there is storable state, the start label, then
  `gen_dfa_as_blocks_with_labels`. In loop/switch mode it is the `yystate`
  declaration (`GenYYStateDef`, `YYGETSTATE()` with storable state, else 0)
  and `wrap_dfas_in_loop_switch`: an endless loop around a switch on
  `yystate`. The switch has one case per state with a used label
  (`gen_dfa_as_switch_cases`); a state with an unused label continues the
  case before it (`CaseStarts`). With storable state the fill-goto cases follow,
  and the first case covers `[-1, 1)` (`GenStorableStateCases`). A state abort
  adds an abort default. Every jump to a state (`GenJumpTo`, and the resume
  after YYFILL, `FillResume`) is `yystate = n; continue` (`GenContinueYYLoop`).
  In rec/func mode (`gen_dfa_as_recursive_functions`) every state with a
  used label opens a function (`FnDef` ... `FnEnd`) holding the code of that
  state and of the unlabelled states after it (`GroupCode`, shared with the
  switch cases). A jump is a tail call, which passes `yych` exactly when the
  callee has no YYPEEK, more than one span and is not an end state
  (`NeedYYChArg`). The resume after YYFILL tail-calls the fill state's
  function. `gen_start_function` adds the entry function, which tail-calls the
  first state (only its form without storable state and conditions is
  modelled).
  `LabelIndex` gives the label number of each state. `EmitAcceptBinary` is
  the RECURSIVE `emit_accept_binary`.

- **`GeneratedLexer.tla`** runs `Program`, one instruction per step, on an input
  that arrives in chunks:
  - `limit` is YYLIMIT and `cursor`, `marker`, `yych`, `yyaccept` and `yystate`
    are the lexer's variables;
  - `ExecPeek` reads the sentinel `NUL` at YYLIMIT;
  - `ExecFillOk` and `ExecFillFail` are `YYFILL() == 0`: it loads at least one
    more symbol, or fails exactly when the whole input is loaded;
  - `ExecFillReturn` and `Reenter` are the push model: YYFILL returns from the
    lexer, and the caller loads more input if there is any and calls the lexer
    again at the top (the `YYGETSTATE()` switch);
  - `ExecDefState` and `ExecSetLoop` are the loop/switch `yystate`
    declaration and assignment; `continue` goes to the top of the loop;
  - `ExecCall` is a rec/func tail call: it jumps to the callee's function and
    sets `yych` to the passed value, or to `NoYych` (an uninitialized
    parameter) when nothing is passed. The program starts at the entry
    function (`EntryPc`). Running into `FnEnd` means control fell off the end
    of a function;
  - `ExecTags` runs the tag operations of a transition (`gen_settags`). The
    variable `applied` records each application as `<<tags, cursor>>`. It is
    cleared when a token is accepted;
  - `ExecAction` is the semantic action. It records a token `[rule, start, end]`.
    `$` ends lexing, and every other rule starts the next token at the top of
    the block.

- **`Tokenizer.tla`** is the abstract specification of what a re2c lexer
  promises. Its tokens are the longest match from the end of the previous
  token, a tie going to the earlier rule, then `$` at the end of the input. It
  emits one token per step, and the step is weakly fair.

- **`MCGeneratedLexer.tla`** fixes the DFA that re2c builds for these rules, over
  the symbols 0 (the sentinel), `a` and `b`:

  ```
  re2c:eof = 0;
  "a" {A}  "aa" {B}  "abb" {C}  "aabb" {D}  * {Def}  $ {Eof}
  ```

  - It has two SAVE states (accept 0 and 1), two non-final states that
    backtrack through an ACCEPT state with two entries, and five YYFILL labels.
  - Fallbacks are explicit in the initial state and elided elsewhere.
  - It instantiates `Tokenizer` with `out <- tokens` as the refinement mapping:
    the tokens the generated actions emit are the abstract lexer's output.

- **`MCLexerFixture.tla`** holds the fixtures of `MCGeneratedLexer`: the
  DFA above, its loop/switch and if-tree variants, and a tunnelled variant
  for rec/func. In it the tunnelling pass of re2c has split the path from
  `SAB` with a MOVE state `SM` that has no YYPEEK. `SM` comes last, after
  the states that jump to it, and `SAB` falls into it with a single,
  unconditional branch. `SM` dispatches with a rec/func if/else on `yych`.
  This is the only shape in which a state function takes `yych` as an
  argument.

- **`MCLexerModels.tla`** extends `MCGeneratedLexer` with the loop/switch
  constants of its configuration, and instantiates it once more, as `RF`,
  with the rec/func constants and the same variables. The initial state
  loads either program into `code`. The steps of the generated code read
  the program only through `code`, and the two agree on every constant a
  step reads, so one `LexerStep` runs both. The properties are those of
  `GeneratedLexer`.

- **`CondDispatch.tla`** models the start-condition dispatch at the top of a
  goto/label block: `gen_cond_goto` in its three forms, the recursive
  `gen_cond_goto_binary`, `gen_cond_table`, and the condition-order warning
  that `gen_cond_goto` issues. Conditions are numbered `0 .. ncond - 1` in
  block order, and `yyc_<cond>` is `CondLabel(i)`.

- **`Dispatch.tla`** executes one dispatch fragment, such as the `yyaccept`
  dispatch of an ACCEPT state or the condition dispatch, on one value of the
  variable it dispatches on, until control leaves it. Control leaves by a
  goto, a `goto *yyctable[c]`, an abort, or by falling off the end. Its
  `Jobs` constant pairs each fragment with the label that the reference
  dispatch names.

- **`MCDispatch.tla`** builds the jobs:
  - `emit_accept` of `Codegen` (through a parameterised `INSTANCE`) for 1 to 6
    accept values, with nested ifs and with a switch;
  - `gen_cond_goto` for 1 to 6 conditions in every form, with and without
    `cond_abort`, including the out-of-range value that the abort default
    catches;
  - `gen_goif` of `Codegen` for 8,114 if-trees on every symbol 0 to 3. The
    trees are linear chains of up to two conditional branches and a last
    unconditional one, binary nodes over them, and binary nodes with a
    binary subtree, over the comparisons `==`, `<=` and `>=`. The
    reference `GoIfTarget` is what a tree means: a binary node takes the
    subtree its comparison selects, a linear node the first branch whose
    comparison holds.
  - `gen_gocp` of `Codegen`: a 3-entry `yytarget` table for symbols 0 to 2
    over two target states. Without `hgo`, the table covers every symbol.
    With `hgo`, symbols past the table take it. `hgo` is either a switch on
    symbol 3 or a linear if-tree. This covers 88 gos in all. The 256-entry
    table is scaled down to 3 entries, and `yych & ~0xFF` is the test
    `HighChar` for "past the table". A test one entry too late makes the
    table read out of bounds, and TLC reports that. The lexer fixtures do
    not use computed gotos: they bypass the eof check, which is a pass-1
    decision.

- **`TagCode.tla`** holds the statements of emitted tag code and how they
  execute on a store of variables. The store holds tag versions, final tags,
  YYCTXMARKER, YYCURSOR and yynmatch. The statements are:
  - `code_assign` to one or several variables;
  - the four setters YYSTAGP/N and YYMTAGP/N;
  - YYBACKUPCTX, YYRESTORECTX and YYRESTORETAG;
  - YYSHIFT and YYSHIFTSTAG;
  - `if (a != b) { ... }`.

  NULL is -1, positions are `>= 0`, and an m-tag holds its history as a
  sequence.

- **`TagActions.tla`** is `gen_settags`, which turns a tag-command list into
  code. The command kinds are copy, save and save with history. It also covers
  the C-API collapse of a run of saves into a NULL assignment and a cursor
  assignment, and the old-style context marker. Each `Transition` runs the
  emitted code for one command list and then YYSKIP. The reference `ref`
  applies the same commands one by one by their meaning.
  - Assumptions about the command lists (built by determinization, outside
    `src/`): saves without history are on s-tags, saves with history on
    m-tags, and no version is assigned twice in one list.
  - The old-style branch has no run of its own: with its single trailing tag
    it only saves the cursor in YYCTXMARKER.
  - `MCTagActions` uses three s-tag and two m-tag versions: every list of up
    to two commands, and every list of three s-tag commands, over runs of two
    transitions.

- **`FinTags.tla`** is `gen_fintags` with `expand_fintags`, `gen_shift` and
  `gen_assign_many_to_first`. It emits the code that sets the final tags of a
  rule before its action:
  - variable, fixed, fictive and trailing tags;
  - the C-API NULL guard of inner fixed tags;
  - the generic-API `negtag` fence;
  - old-style trailing context.

  The code runs one statement per step from a store of tag versions, and is
  compared with what the tags mean: a fixed tag is its base minus `dist`, or
  NULL when the base is NULL. `MCFinTags` builds rules from two variable base
  tags (one toplevel, one inner that may be NULL) followed by up to two tags
  of every kind, on either base or on the cursor, with `dist` 0 and 2.
  `MCTagActions` instantiates `MCFinTags`: a behaviour with `api = "FINAL"`
  runs one of its jobs. The two tag emitters are checked in the one run
  `tags`. `MCFinTags` keeps its own configuration for the expected violation.

- **`Bitmap.tla`** is `gen_bitmap` with `gen_gobm`. `gen_bitmap` lays out
  the table `yybm`. Each group of up to 8 bitmap states shares one row of
  `nchars` elements. Each state holds one bit of every element, its mask
  `0x80 >> k`. Each state records its row offset and its mask.
  - `GenBitmapGroup` is one iteration of the outer loop. It covers the
    state list and the mask loop for one group. It also covers the span
    loop that sets the bits of the spans to the state.
  - `GenTransition` generates the `gen_gobm` code of one state and picks
    a symbol. This happens only after the table is built, as in
    `gen_block_code`.
  - The generated code is the high-byte branch to `hgo`, then the bitmap
    test, then the sub-dispatch `lgo`. The steps after `GenTransition` run
    this code on the chosen symbol.
  - `HighBound` stands for 0x100 and is 2 in `MCBitmap`.
  - `hgo` and `lgo` are built outside `src/` (`unmap`), so they are modelled
    from the spec. `lgo` drops the spans to the bitmap state.
  - `MCBitmap` uses 9 states, so the second group has a single state. It
    uses 2 symbols (no high branch) or 3 (with it). One state at position
    1, 8 or 9 ranges over every go and destination; the other states are
    fixed.
  - `MCBitmap` has no configuration of its own: `MCDispatch` instantiates
    it, and a behaviour with `form = "BITMAP"` runs one of its jobs.
    The dispatches of generated code are checked in one run.

- **`Directives.tla`** is the directive loop of pass 2: `codegen_generate`
  visits the blocks of the file in order and `codegen_generate_block` their
  code items. The variables are the program (`prog`), the two constant options
  `target` and `model`, the item counter `pc`, the return status, the flag
  `output.state_goto` (`stateGoto`), and `out`, the expansion of each item
  visited so far.
  - `GenerateDfas` is a DFAS item. With storable state in goto/label or
    rec/func mode it calls `StateGotoImplicit` (`gen_state_goto_implicit`).
    A use block gets a local switch. The first other block that finds the
    flag clear emits the global switch and sets the flag.
  - `ExpandDirective` is `getstate:re2c` (`GenStateGoto`), `stags`/`mtags`
    (`ExpandTags`), `types:re2c` (`ExpandCondEnum`, with
    `AddCondition` and `GenCondEnum`) and `max`/`maxnmatch` (`GenYYMax`).
    Each one gathers from all blocks or from the named ones (`FindBlocks`).
  - An expansion that is an error stops the loop, as `CHECK_RET` does.
    Rendering (formats, separators, line directives) is abstracted to the
    data gathered: a tag directive is the set of names, an enum is the list
    of members with their values, and a state switch is its set of
    `<<block, fill state>>` cases.
  - Assumptions about the inputs, which are built outside `src/`: the lexer
    sets `output.state_goto` when the file has any `getstate:re2c`
    directive; pass 1 fixes each block's conditions and numbers, tags,
    maxima, `start_label` and `fill_goto`. Only one output file
    (`cblocks`) is modelled.
  - `MCDirectives` has three families of two-block programs, under code and
    DOT output and every code model:
    - every list of at most two conditions `x` and `y`, numbered 0 or 1, in
      each block; block `b` with or without a prefix and with every
      dispatch form; a `types:re2c` that is global, names both blocks, or
      names a missing block;
    - every mix of use and non-use blocks, with storable state or not, `a`
      generating code or not, and a `getstate:re2c` that is absent, global
      (before or after the blocks) or naming `a`;
    - the tag and maximum directives.

- **`Parser.tla`** is the front end in `src/parser.h`:
  - `parse()` writes a header and a `#line` directive (`Start`). It then
    loops on `in->echo`. `Echo` is the start of `yyparse`, whose first
    reduction (`spec:` empty) resets the statics `accept` and `spec`.
  - `ParseRule` and `ParseDecl` are the actions of `rule` (with `spec rule`)
    and `decl`. `EndBlock` is `genCode` when `spec` is set, followed by
    `line_source`.
  - `Build` is the bottom-up value of a parse tree. It covers `expr`,
    `diff`, `term`, `factor`, `close` and `primary`, with their fatal
    errors: a symbol with no definition, and a difference of non-sets.
  - The symbol table (`syms`) is static and outlives the blocks.
  - A block is the sequence of its top-level items, already reduced. The
    scanner, syntax errors (`yyerror`), `STRING` tokens and `in->config`
    are left out.
  - A CODE token is its position `<<block, item>>`. `genCode`'s output is
    the spec it is given.
  - `mkAlt` and `mkDiff` live in `re.h`, which is not in this repository.
    They are modelled as the actions need them: two character sets merge,
    and a difference of non-sets is NULL.
  - `LineSource` is `line_source`: nothing under `-i`. Otherwise the name
    (or `<stdin>`) is split by strtok on backslashes, and the tokens are
    joined by an escaped backslash.
  - When there is no token, `o << NULL` is undefined. The model takes
    both outcomes of a build: a crash, or (libstdc++) `badbit`, after
    which nothing more reaches the output (`bad`).
  - `MCParser` has three input families:
    - every file name of up to two characters over `a` and `\` (and
      stdin), with and without `-i`;
    - files of one or two blocks of up to two items each, over eight
      rules and definitions of the name `x`, covering every action and
      every fatal error;
    - a rule `[1]` followed by each of the 39 runs of one to three
      postfix operators.

### Assumptions about inputs built outside `src/`

These are built by earlier passes and are stated as CONSTANTS of the fixture:
- the DFA: spans with equal targets are merged, so a single span is a single
  switch case;
- `fallback_state_with_eof_rule`, which gives the rule a state accepts, or `$`
  in the initial state;
- RULE and ACCEPT states have no outgoing dispatch;
- the fill-goto map of the block is `gen_goto_after_fill(s, nullptr)` for each
  YYFILL label.

## Runs

| Run | Configuration | What it shows |
|---|---|---|
| `lexer_eof` | `$`, YYFILL with status, no storable state | `BufferBounds`, `RestoreWithinToken`, `TypeOK`, and `RefinesTokenizer` (safety and liveness) for all 121 inputs of at most 4 symbols, every initial chunk and every YYFILL chunking (18,895 states, about 5 s), and `TagsAppliedOnce` with tags on the transition into `SA`. |
| `lexer_storable` | the same with storable state (push model), and every transition an if-tree (`MCGoIf`: binary nodes for the first two states, linear chains elsewhere) | The same properties with re-entry through the state switch after every YYFILL, and the eof transitions inside if branches (38,423 states, about 8 s). |
| `lexer_ls_rf_eof` | `MCLexerModels`: `lexer_eof` in loop/switch mode with eager skip, and in rec/func mode on the tunnelled DFA | `BufferBounds` and `RefinesTokenizer` in both modes; `EveryPathTailcalls` and `YychSetWhenRead` in rec/func (49,733 states, about 10 s). |
| `lexer_ls_storable` | storable state in loop/switch mode, transitions as switches (`MCGo`) | `RefinesTokenizer` across re-entries through `yystate = YYGETSTATE()` and the `[-1, 1)` first case (50,885 states). |
| `lexer_ls_tags` | loop/switch, `$`, eager skip, tags into `SA`; expected violation | `TagsAppliedOnce` fails: the rematch after YYFILL re-runs the hoisted tags (see Findings). |
| `dispatch` | `emit_accept` for 1 to 6 accepts (ifs and switch), `gen_cond_goto` for 1 to 6 conditions in every form, `gen_goif` on 8,114 if-trees, `gen_gocp` on 88 computed gotos; and `gen_bitmap` with `gen_gobm`, 9 states in two groups | `DispatchesCorrect` (`DispatchCorrect` of the fragments) for every value, condition and symbol, `WarnsIffNumbered`, and `GoBmCorrect` and `BitmapReadInRow` for every bitmap state and symbol (154,031 states). |
| `tags` | `gen_settags`, C API and generic API; `gen_fintags`, both APIs (captures of one element); each behaviour picks one | `TagsAgreeBothApis`, i.e. `TagsAgree` of both instances, over all runs of two transitions, and `FinTagsCorrect` and `NoShiftOfNull` (45,542 states). |
| `directives` | `MCDirectives`: the directive loop over 3,218 two-block programs | `CondEnumCorrect` and `StateSwitchesCover` (76,920 states, about 3 s). |
| `directives_enum_order` | `MCDirectives` in goto/label mode | expected violation of `EnumMatchesDispatch` (see Findings). |
| `fintags_generic_capture` | `gen_fintags`, generic API, inner fixed captures of two elements | expected violation of `FinTagsCorrect` (see Findings). |
| `parser` | `MCParser`: the three input families | `SpecOfOwnBlock` and `CloseFoldSound` (30,978 states, about 2 s). |
| `parser_line_source` | `MCParser` | expected violation of `LineDirectiveNamesFile` (see Findings). |

The properties:
- **`CondEnumCorrect`**: every `types:re2c` expands to what spec §4.I
  describes, stated without the loop:
  - an error if a listed block is missing, or if a prefixed name is gathered
    with two numbers;
  - nothing if there are no conditions;
  - otherwise every name once, in the order of its first occurrence,
    numbered by position in goto/label mode and by its own number in the
    other modes.
- **`StateSwitchesCover`**: once a goto/label or rec/func program without a
  `getstate:re2c` block list has been generated, the state switches resume
  every fill state of every storable block. At most one global switch is
  implicit. A use block's fill states are resumed only by its own switch,
  which resumes nothing else. This takes several blocks: the flag set by
  the first block decides what the later ones emit.
- **`EnumMatchesDispatch`** (expected to fail): in goto/label mode, the enum
  value of every condition of a block with a computed-goto table or nested
  ifs is its position in that block, which is what the block's dispatch
  compares with.
- **`SpecOfOwnBlock`**: `accept` and `spec` are statics that outlive
  `yyparse`. The code generated for each block holds exactly that block's
  rules, in order and numbered from 0. Once `parse()` has returned with a
  good stream, every block with rules, and no other, has had its code
  generated, once and in order. Breaking it takes two blocks and the reset
  done by the `spec:` empty reduction.
- **`CloseFoldSound`**: `close: close CLOSE` folds a run of postfix
  operators pairwise (`+?` into `*`). In the generated code, a rule written
  as a range with postfix operators matches the same repetition counts
  (up to 4) as the operators applied one by one.
- **`LineDirectiveNamesFile`** (expected to fail): every `#line` directive
  names the input file. Its string literal, read back, is the file name.
- **`TagsAgree`** (checked as `TagsAgreeBothApis` in `MCTagActions`, which
  instantiates `TagActions` once per API): after every transition the tag variables hold what the
  commands define. Histories are replayed oldest first, a save with history
  starts from the history of its rhs, and save runs are regrouped without
  crossing a copy.
- **`FinTagsCorrect`**: when the code before a rule action has run, every
  final tag, yynmatch and YYCURSOR (at the trailing context) hold what the
  rule's tags mean.
- **`NoShiftOfNull`**: no shift is applied to a NULL tag value.
- **`GoBmCorrect`**: the bitmap transition of every state sends every symbol
  to the state of its span. This depends on the shared row, the mask, the
  offset, the high-byte branch and `lgo` all being right.
- **`BitmapReadInRow`**: `yybm[offset + yych]` is read only within the
  state's own row. A symbol at or above 0x100 never reaches the test.
- **`DispatchCorrect`**: control leaves the dispatch for exactly the label that
  the reference dispatch names, for every value. It catches an off-by-one
  split of the binary trees and a misnumbered switch case.
- **`WarnsIffNumbered`**: the note [condition order] says re2c warns when the
  generated code relies on the internal numbering of the conditions. The
  property states that the warning is issued exactly when the dispatch
  contains a computed-goto table or an `if` on the condition number.
- **`BufferBounds`**: `tok <= cursor <= limit`. The emitted code never skips
  past the loaded buffer.
- **`RestoreWithinToken`**: every YYRESTORE goes back to a position inside the
  current token.
- **`RefinesTokenizer`** is `Tokenizer!Spec` under the mapping above. The
  lexer's tokens are always a prefix of the longest-match tokenization, and
  eventually all of it, `$` included.
- **`TagsAppliedOnce`**: spec.md and the comment in `gen_fill_and_label`
  say tags are hoisted before the YYFILL label so that a rematch after
  YYFILL does not apply them again. The property states that within one
  token no tag operation is applied twice at the same cursor.
- **`EveryPathTailcalls`**: in rec/func mode control never reaches the end
  of a state function. Every path through it, the YYFILL-failure branch of an
  eof check included, ends in a tail call or a rule action. This is what the
  comment at `pass2_generate.cc:507` asks of fallback elision.
- **`YychSetWhenRead`**: in rec/func mode, no switch or comparison on
  `yych` runs while `yych` is an unpassed parameter. A state function
  without YYPEEK must have received `yych` from its caller. Breaking it takes
  the tunnelled MOVE state, its predecessor's tail call and the callee's
  dispatch.
- **`TypeOK`** also bounds `yyaccept` by the accept numbers and `yystate` by
  -1 and the fill labels.

Each property has a mutant in `PROJECT.json`: a plausible bug in the modelled
generator code that TLC detects under the run's configuration.
- YYBACKUP dropped, or moved before YYSKIP, in a SAVE state.
- An off-by-one accept number.
- A fallback elided without comparing its destination.
- An eof transition emitted without its YYLESSTHAN check.
- The binary accept tree with its branches swapped.
- The `yyaccept` switch cases numbered from 1.
- The condition-order warning issued for nested ifs with a single condition.
- The storable-state dispatch resuming at the fill label without its
  `YYLESSTHAN(1)` fallback check. TLC finds this as a liveness violation: at
  the end of input the lexer calls YYFILL forever.
- In loop/switch and rec/func mode (`lexer_ls_rf_eof`): the eof check
  dropped again (`BufferBounds`); the rec/func resume after YYFILL calling
  the state that called YYFILL instead of the fill state, so its dispatch
  reads the stale sentinel and the token ends early (`RefinesTokenizer`);
  `need_yych_arg` with its `omit_peek` test inverted (`YychSetWhenRead`); the
  fallback elided in rec/func mode with YYFILL, so the failure branch
  falls off the function (`EveryPathTailcalls`).
- In loop/switch mode: the first case kept as
  the single number 0, so the fresh start `yystate = -1` hits the abort
  default (`lexer_ls_storable`, a liveness violation).
- For the if-trees: the linear chain without its last branch
  (`lexer_storable`, `BufferBounds`).
- The hoisted tags emitted after the YYFILL label instead of before it
  (`lexer_eof`, `lexer_storable`, `TagsAppliedOnce`).

For the directives: a condition gathered again with another number dropped
instead of failing (`CondEnumCorrect`); the implicit global switch emitted
without setting `output.state_goto`, so every storable block emits one
(`StateSwitchesCover`).

For the parser: the rule counter not reset for the next block
(`SpecOfOwnBlock`); a pair of different postfix operators folded to the
second one (`CloseFoldSound`).

Further mutants, for the tag runs:
- the history replayed forward;
- an add command that skips the copy of its rhs;
- trailing context restored before the fixed tags;
- the inner NULL check dropped;
- the span loop of `gen_bitmap` not advancing `c` past spans to other
  states;
- `gen_gobm` without its high-byte branch.

## Findings

- **`line_source` drops backslashes from the `#line` file name, and writes
  a NULL token for a name of backslashes only** (`src/parser.h:265`, run
  `parser_line_source`).
  - What the code does: it escapes backslashes by splitting the name with
    `strtok(..., "\\")` and writing the tokens with `\\` between them.
    strtok skips empty tokens.
  - So a leading, trailing or doubled backslash disappears: a rooted or
    UNC Windows path names another file.
  - A name with no other character gives a NULL first token, which line
    267 writes with `operator<<`. That is undefined behaviour. The build
    crashes, or with libstdc++ sets `badbit` and loses the rest of the
    output, including the generated code.
  - What TLC shows: for the file `\`, the first directive names nothing
    and the stream is bad. For `\a`, the directive names `a`.

- **goto/label: the `types:re2c` enum and a block's numeric dispatch
  disagree** (`pass2_generate.cc:1584`, run `directives_enum_order`).
  - What the code does: in goto/label mode `gen_cond_enum` gives each
    member its position in the list merged over all blocks (`cid =
    cond_number`; the enum form has no explicit values).
    `gen_cond_goto_binary` and `gen_cond_table` dispatch on
    `YYGETCONDITION()` by the condition's position in its own block.
  - What the code's comments say: the note [condition order] says that a
    condition type from `types:re2c` makes it safe to rely on the
    numbering. The clash error recommends `re2c:condenumprefix` for blocks
    that share a condition name.
  - What TLC shows: block `a` has condition `x` and block `b` the same `x`
    with prefix `p` and `-g`. The enum is `{x = 0, px = 1}`, so block `b`
    indexes its one-element `yyctable` with 1.
  - Caveat: this assumes pass 1 numbers each block's conditions from 0, as
    the clash error implies. The numbering, and whether the warning is
    suppressed, are outside `src/`.

- **Loop/switch: hoisted tags re-applied on rematch after YYFILL**
  (`pass2_generate.cc:575`, run `lexer_ls_tags`).
  - What the code does: in loop/switch mode the rematch after a successful
    YYFILL is `yystate = <fill state>; continue`. That enters the fill
    state's case at its top, where `gen_fill_and_label` put the hoisted tags.
  - What spec.md and the comment at lines 666-669 say: the tags are placed
    before the fill label so that they are not applied again on rematch.
  - What TLC shows: on input `aa` loaded one symbol at a time, the tags of
    the transition into `SA` are applied twice at cursor 1. It matters only
    when pass 1 hoists tags into a state that needs YYFILL.
  - The rec/func resume, a tail call to the fill state's function (line
    580), enters the state at the same point. TLC finds the same double
    application with `TagsAppliedOnce` on the rec/func configuration of
    `MCLexerModels`. That configuration is not one of the runs, because it
    shows nothing `lexer_ls_tags` does not.

- **Generic API: inner fixed capture tags set only their first `yypmatch`
  element** (`pass2_generate.cc:387`, run `fintags_generic_capture`).
  - What the code does: for a fixed, non-toplevel tag under the generic API,
    `gen_fintags` assigns the base to the first final tag and postpones the
    shift behind the `negtag` fence. It never calls
    `gen_assign_many_to_first`. The C-API branch and the generic toplevel
    branch both call it.
  - What spec.md §4.D′ says: the inner case must "then propagate the first
    fintag to the rest".
  - What TLC shows: for a capture spanning `yypmatch[30]` and `yypmatch[32]`,
    the second element is never written.

**Bounds.** Inputs of up to 4 symbols are needed to reach the longest rule
(`aabb`) and both backtracking paths (`aab`, `ab` followed by anything). The
initial load `limit` and every YYFILL step range over all possible chunk
sizes, so every split of the input is checked, including those that end a
chunk inside a token that must be backtracked.

**Fairness.** `WF(LexerStep)` is justified because the generated code is
straight-line code with gotos, and YYFILL returns. `WF(Reenter)` is the
caller of a push-model lexer calling it again. `MCLexerModels` has no
storable state, so it has no `Reenter` and only `WF` of the lexer step. After `$` nothing is enabled,
because the lexer has returned for good. The configurations say
CHECK_DEADLOCK FALSE for that reason. A state stuck before `$` would violate
the liveness part of `RefinesTokenizer`.

## Not modelled (yet), and the plan

Left out for good:
- the arena and the code-tree constructors (not in `src/`);
- API templating and string formatting: a rendering is the instruction it
  renders;
- DOT and skeleton output;
- in `src/parser.h`: bison's LR parse itself (the model starts from
  reduced parse trees), syntax errors, `STRING` tokens and `in->config`
  (their effect lives in the scanner, which is not in this repository),
  and what `in->fatal` does with the output already written;
- in rec/func mode, storable state: the start function is then
  `gen_state_goto_implicit`, which dispatches through functions declared by
  the code-tree layer outside `src/`; also the condition function
  (`gen_cond_func`);
- the generated tests and examples (`src/test`, `src/examples`,
  `src/unnamed/part_000`, a generated Go test).

Planned, in order:
Done: the accept dispatch and the condition dispatch (`MCDispatch`).

Done: `gen_settags` (`TagActions`) and `gen_fintags` (`FinTags`).

1. Executing the tag operations' values (not only their application) in
   `GeneratedLexer`, so that a tagged fixture is checked against tag
   positions. Today `ExecTags` records which operations ran and where.
2. Done: the computed-goto table `gen_gocp` (`dispatch`), the if-trees
   (`dispatch`, `lexer_storable`) and the bitmap (`Bitmap`). Still open:
   `gen_gocp` inside a generated lexer. `gen_bitmap` is called only
   in goto/label mode, and whether the option handling (outside `src/`)
   turns bitmaps off in the other modes is not modelled.
3. Done: the directive loop (`Directives`), including CondEnum. Still
   open there: the header file's blocks (`hblocks`).
4. YYFILL(n) without `$`. Loop/switch and rec/func without storable state
   are done (`lexer_ls_rf_eof`, `lexer_ls_storable`). In the loop/switch fixture the
   skip is eager and the fill labels are numbered after the state labels.
   The rematch question is answered by `lexer_ls_tags` (see Findings).
