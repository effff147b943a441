----------------------------- MODULE Directives -----------------------------
(***************************************************************************)
(* The directive loop of pass 2 (codegen_generate and                     *)
(* codegen_generate_block): the code items of every block are visited in  *)
(* file order.  A DFAS item generates the block's code, and with storable *)
(* state in goto/label or rec/func mode it emits the implicit state       *)
(* switch (gen_state_goto_implicit).  The directives getstate:re2c,       *)
(* stags:re2c, mtags:re2c, types:re2c, max:re2c and maxnmatch:re2c        *)
(* gather data across blocks.  The first error stops the loop (CHECK_RET). *)
(*                                                                         *)
(* What the directives read of a block is fixed by pass 1: its name,      *)
(* kind (a use block or not), conditions with their numbers, tag names,   *)
(* maximum fill and nmatch, whether it generates code (start_label), and  *)
(* its fill states (fill_goto).  A program is one file (cblocks); a      *)
(* directive item belongs to a block and takes its options.               *)
(***************************************************************************)
EXTENDS Naturals, Sequences, SequencesExt, FiniteSets

CONSTANTS
  Programs,   \* the inputs: [blocks, items, prefix]
  Targets,    \* subset of {"CODE", "DOT", "SKELETON"}
  CodeModels  \* subset of {"GOTO_LABEL", "LOOP_SWITCH", "REC_FUNC"}

VARIABLES
  prog,       \* the program being generated
  target,     \* opts->target (a constant option)
  model,      \* opts->code_model (a constant option)
  pc,         \* index of the next code item
  status,     \* "run", "ok" or "error" (the Ret of codegen_generate)
  stateGoto,  \* output.state_goto
  out         \* the expansion of every item visited so far

vars == <<prog, target, model, pc, status, stateGoto, out>>

Blocks == prog.blocks
Items  == prog.items
Item   == Items[pc]
Owner  == Blocks[Item.block]

Error == [kind |-> "error"]
Empty == [kind |-> "empty"]

(* find_block_with_name / find_blocks: the blocks named by a directive,  *)
(* in the order of the list, or an error if a name has no block.         *)
BlockNamed(n) == {b \in DOMAIN Blocks : Blocks[b].name = n}

FindBlocks(names) ==
  IF \E k \in DOMAIN names : BlockNamed(names[k]) = {}
  THEN Error
  ELSE [kind |-> "blocks",
        list |-> [k \in DOMAIN names |-> CHOOSE b \in BlockNamed(names[k]) : TRUE]]

(* The blocks a directive gathers from: all of them, or those it names.  *)
Gathered(item) ==
  IF item.global THEN [kind |-> "blocks", list |-> [b \in DOMAIN Blocks |-> b]]
  ELSE FindBlocks(item.names)
-----------------------------------------------------------------------------
(* gen_state_goto_cases: one case per fill state of the block.          *)
FillCases(b) == {<<b, f>> : f \in Blocks[b].fill}

(* gen_state_goto: a global switch dispatches to the fill states of all  *)
(* non-use blocks and needs one that generates code; a switch for a list *)
(* of blocks needs every listed block to generate code.                  *)
GenStateGoto(item) ==
  LET g == Gathered(item)
      nonuse == {b \in DOMAIN Blocks : Blocks[b].kind # "USE"}
  IN CASE target # "CODE" -> Empty
       [] item.global ->
            IF \A b \in nonuse : ~Blocks[b].code THEN Error
            ELSE [kind |-> "switch", global |-> TRUE, implicit |-> item.implicit,
                  cases |-> UNION {FillCases(b) : b \in nonuse}]
       [] g = Error -> Error
       [] \E k \in DOMAIN g.list : ~Blocks[g.list[k]].code -> Error
       [] OTHER ->
            [kind |-> "switch", global |-> FALSE, implicit |-> item.implicit,
             cases |-> UNION {FillCases(g.list[k]) : k \in DOMAIN g.list}]

(* The state-switch item gen_state_goto_implicit makes for block b.     *)
LocalSwitch(b) == [global |-> FALSE, names |-> <<Blocks[b].name>>, implicit |-> TRUE]
GlobalSwitch   == [global |-> TRUE, names |-> <<>>, implicit |-> TRUE]
-----------------------------------------------------------------------------
(* The prefixed name of a condition (cond_enum_prefix + name).          *)
CondsOf(b) == [k \in DOMAIN Blocks[b].conds |->
                 [name |-> <<Blocks[b].prefix, Blocks[b].conds[k].name>>,
                  number |-> Blocks[b].conds[k].number]]

(* Mutant: a condition gathered again with another number is dropped   *)
(* instead of being an error.                                             *)
AddConditionKeepFirst(acc, c) ==
  LET same == SelectSeq(acc.conds, LAMBDA d : d.name = c.name)
  IN IF acc.ok /\ same = <<>> THEN [acc EXCEPT !.conds = Append(@, c)] ELSE acc

(* add_condition_from_block: a condition already gathered under the     *)
(* same name is dropped if it has the same number and is an error if not. *)
(* The accumulator is [ok, conds]; once not ok it stays so (CHECK_RET).  *)
AddCondition(acc, c) ==
  LET same == SelectSeq(acc.conds, LAMBDA d : d.name = c.name)
  IN CASE ~acc.ok                  -> acc
       [] same = <<>>              -> [acc EXCEPT !.conds = Append(@, c)]
       [] same[1].number = c.number -> acc
       [] OTHER                    -> [acc EXCEPT !.ok = FALSE]

(* add_conditions_from_blocks over the gathered blocks, in order.       *)
AddConditionsFromBlocks(list) ==
  FoldLeft(AddCondition, [ok |-> TRUE, conds |-> <<>>],
           FlattenSeq([k \in DOMAIN list |-> CondsOf(list[k])]))

(* gen_cond_enum: the enum members in order; in goto/label mode a member *)
(* has the number of its position, in the other modes its own number.   *)
GenCondEnum(conds) ==
  [kind |-> "enum",
   elems |-> [k \in DOMAIN conds |->
                [name |-> conds[k].name,
                 id |-> IF model = "GOTO_LABEL" THEN k - 1 ELSE conds[k].number]]]

(* expand_cond_enum (types:re2c).                                       *)
ExpandCondEnum(item) ==
  LET g == Gathered(item)
      acc == AddConditionsFromBlocks(g.list)
  IN CASE target # "CODE" -> Empty
       [] g = Error -> Error
       [] ~acc.ok -> Error
       [] acc.conds = <<>> -> Empty
       [] OTHER -> GenCondEnum(acc.conds)
-----------------------------------------------------------------------------
(* expand_tags_directive and gen_tags (stags:re2c, mtags:re2c): the     *)
(* union of the tag names, rendered once each (tagnames_t is a set).    *)
ExpandTags(item) ==
  LET g == Gathered(item)
      field == IF item.kind = "MTAGS" THEN "mtags" ELSE "stags"
  IN CASE target # "CODE" -> Empty
       [] g = Error -> Error
       [] OTHER -> [kind |-> "tags",
                    tags |-> UNION {Blocks[g.list[k]][field] : k \in DOMAIN g.list}]

(* max_among_blocks and gen_yymax (max:re2c, maxnmatch:re2c): the        *)
(* maximum over the gathered blocks, and at least 1.                    *)
GenYYMax(item) ==
  LET g == Gathered(item)
      field == IF item.kind = "MAXFILL" THEN "maxFill" ELSE "maxNmatch"
  IN CASE target # "CODE" -> Empty
       [] g = Error -> Error
       [] OTHER -> [kind |-> "max",
                    max |-> Max({1} \cup {Blocks[g.list[k]][field] : k \in DOMAIN g.list})]
-----------------------------------------------------------------------------
Init ==
  /\ prog \in Programs
  /\ target \in Targets
  /\ model \in CodeModels
  /\ pc = 1
  /\ status = IF prog.items = <<>> THEN "ok" ELSE "run"
  \* the lexer sets output.state_goto on any getstate:re2c directive
  /\ stateGoto = \E i \in DOMAIN prog.items : prog.items[i].kind = "STATE_GOTO"
  /\ out = <<>>

(* The item at pc expands to r: the loop goes on, ends, or stops at the  *)
(* first error.                                                           *)
Expanded(r) ==
  /\ out' = Append(out, r)
  /\ pc' = pc + 1
  /\ status' = CASE r = Error    -> "error"
                [] pc = Len(Items) -> "ok"
                [] OTHER           -> "run"

Visit(kinds) == status = "run" /\ Item.kind \in kinds

(* Mutant: the global switch is emitted without setting the flag.       *)
StateGotoImplicitNoFlag ==
  CASE Owner.kind = "USE" -> <<GenStateGoto(LocalSwitch(Item.block)), stateGoto>>
    [] ~stateGoto         -> <<GenStateGoto(GlobalSwitch), stateGoto>>
    [] OTHER              -> <<Empty, stateGoto>>

(* gen_state_goto_implicit: a use block gets a switch of its own; the    *)
(* first other block to ask emits the global switch, unless a           *)
(* getstate:re2c directive already provides one.                        *)
StateGotoImplicit ==
  CASE Owner.kind = "USE" -> <<GenStateGoto(LocalSwitch(Item.block)), stateGoto>>
    [] ~stateGoto         -> <<GenStateGoto(GlobalSwitch), TRUE>>
    [] OTHER              -> <<Empty, stateGoto>>

(* A DFAS item: gen_block_code.  In goto/label mode (gen_block_code) and *)
(* in rec/func mode (gen_start_function) a block with storable state     *)
(* asks for the state switch; loop/switch mode resumes inside the        *)
(* yystate switch; DOT and skeleton output have no state switch.        *)
GenerateDfas ==
  /\ Visit({"DFAS"})
  /\ IF target = "CODE" /\ model \in {"GOTO_LABEL", "REC_FUNC"} /\ Owner.storable
     THEN /\ Expanded(StateGotoImplicit[1])
          /\ stateGoto' = StateGotoImplicit[2]
     ELSE /\ Expanded(Empty)
          /\ UNCHANGED stateGoto
  /\ UNCHANGED <<prog, target, model>>

ExpandDirective ==
  /\ \/ Visit({"STATE_GOTO"}) /\ Expanded(GenStateGoto(Item))
     \/ Visit({"STAGS", "MTAGS"}) /\ Expanded(ExpandTags(Item))
     \/ Visit({"COND_ENUM"}) /\ Expanded(ExpandCondEnum(Item))
     \/ Visit({"MAXFILL", "MAXNMATCH"}) /\ Expanded(GenYYMax(Item))
  /\ UNCHANGED <<prog, target, model, stateGoto>>

(* Generation has finished or stopped.                                  *)
Done == status # "run" /\ UNCHANGED vars

Next == GenerateDfas \/ ExpandDirective \/ Done

Spec == Init /\ [][Next]_vars
-----------------------------------------------------------------------------
Visited == DOMAIN out

HasNamedGetstate ==
  \E i \in DOMAIN Items : Items[i].kind = "STATE_GOTO" /\ ~Items[i].global

(* The conditions, prefixed, of the blocks a directive gathers from, and  *)
(* the first position of each name.                                       *)
Occurrences(item) == FlattenSeq([k \in DOMAIN Gathered(item).list |->
                                   CondsOf(Gathered(item).list[k])])
FirstAt(occ, n) == CHOOSE k \in DOMAIN occ : occ[k].name = n /\ \A j \in 1..(k - 1) : occ[j].name # n

(* The enum a types:re2c directive must produce: an error for a missing   *)
(* block or for a name gathered with two numbers; otherwise every name   *)
(* once, in the order of first occurrence, numbered by position in        *)
(* goto/label mode (where the enum has no explicit values) and by its     *)
(* number in the other modes.                                             *)
CondEnumAsSpecified(item, r) ==
  LET occ == Occurrences(item)
      names == {occ[k].name : k \in DOMAIN occ}
      clash == \E j, k \in DOMAIN occ : occ[j].name = occ[k].name /\ occ[j].number # occ[k].number
  IN CASE target # "CODE" -> r = Empty
       [] Gathered(item) = Error \/ clash -> r = Error
       [] names = {} -> r = Empty
       [] OTHER ->
            /\ r.kind = "enum"
            /\ {r.elems[k].name : k \in DOMAIN r.elems} = names
            /\ Len(r.elems) = Cardinality(names)
            /\ \A j, k \in DOMAIN r.elems :
                 j < k => FirstAt(occ, r.elems[j].name) < FirstAt(occ, r.elems[k].name)
            /\ \A k \in DOMAIN r.elems :
                 r.elems[k].id = IF model = "GOTO_LABEL" THEN k - 1
                                 ELSE occ[FirstAt(occ, r.elems[k].name)].number

(* Every types:re2c directive expands to the enum described above: the   *)
(* loop of add_condition_from_block drops exact duplicates, stops at a    *)
(* clash, keeps first-occurrence order, and gen_cond_enum numbers the     *)
(* members by the code model.                                             *)
CondEnumCorrect ==
  \A i \in Visited : Items[i].kind = "COND_ENUM" => CondEnumAsSpecified(Items[i], out[i])

(* Once a goto/label or rec/func program without a getstate:re2c list of  *)
(* blocks has been generated, the state switches gen_state_goto emitted   *)
(* resume every fill state of every storable block: at most one global    *)
(* switch is generated implicitly (output.state_goto), and the fill       *)
(* states of a use block are resumed only by its own local switch, which  *)
(* resumes nothing else.                                                  *)
StateSwitchesCover ==
  LET sw == {i \in Visited : out[i].kind = "switch"}
  IN status = "ok" /\ target = "CODE" /\ model # "LOOP_SWITCH" /\ ~HasNamedGetstate =>
       /\ Cardinality({i \in sw : out[i].implicit /\ out[i].global}) <= 1
       /\ \A b \in DOMAIN Blocks : \A f \in Blocks[b].fill :
            \E i \in sw : <<b, f>> \in out[i].cases
       /\ \A b \in DOMAIN Blocks, i \in sw :
            Blocks[b].kind = "USE" /\ FillCases(b) \cap out[i].cases # {} =>
              out[i].cases = FillCases(b)

(* In goto/label mode a block dispatches on YYGETCONDITION() by the      *)
(* position of its conditions (gen_cond_goto_binary, gen_cond_table).     *)
(* The note [condition order] says a condition type from types:re2c makes *)
(* that numbering safe to rely on: the enum value of every condition of   *)
(* a block with a computed-goto table or nested ifs is its position in    *)
(* the block.                                                              *)
EnumMatchesDispatch ==
  \A i \in Visited :
    out[i].kind = "enum" /\ model = "GOTO_LABEL" =>
      \A k \in DOMAIN Gathered(Items[i]).list :
        LET b == Gathered(Items[i]).list[k]
            cs == CondsOf(b)
        IN Blocks[b].computed \/ (Blocks[b].nested /\ Len(cs) > 1) =>
             \A c \in DOMAIN cs, e \in DOMAIN out[i].elems :
               out[i].elems[e].name = cs[c].name => out[i].elems[e].id = c - 1
=============================================================================
