------------------------------- MODULE Codegen -------------------------------
(***************************************************************************)
(* The code-generation pass of re2c (src/codegen/pass2_generate.cc) for    *)
(* one DFA in goto/label, loop/switch or rec/func mode, as a set of pure  *)
(* operators.  Each operator                                               *)
(* returns the code the corresponding C++ function appends to its          *)
(* CodeList, flattened into a sequence of instructions: a code_if_then_else*)
(* becomes an "if" with a relative skip, a switch becomes a "switch" with  *)
(* one relative offset per case, labels are instructions of their own and  *)
(* a goto names a label; in rec/func mode a state function is an "fn"    *)
(* ... "fnend" bracket and a tail call names the function it jumps to.   *)
(* String rendering (API templates, sigils, naked   *)
(* forms, hex printing) is left out: two renderings of the same primitive  *)
(* are one instruction.                                                    *)
(*                                                                         *)
(* The DFA is the input of the pass (built by earlier passes of re2c), so  *)
(* it is a set of constants: one field of struct State per constant.       *)
(***************************************************************************)
EXTENDS CodeTree

CONSTANTS
  States,        \* the DFA states, 1..N in the order of dfa.head ... s->next
  Kind,          \* [States -> ActionKinds]                  s->action.kind
  SaveSlot,      \* [States -> Nat \cup {NOSAVE}]            s->action.info.save
  AcceptsOf,     \* [States -> Seq([state, tags])]           s->action.info.accepts
  RuleOf,        \* [States -> Rules]                        s->action.info.rule
  Go,            \* [States -> [kind, tags, skip, swif, cases, goif]]  s->go
  FillAmount,    \* [States -> Nat]                          s->fill
  FillLabelOf,   \* [States -> Nat \cup {NONE}]              s->fill_label->index
  FillState,     \* [States -> States]                       s->fill_state
  Fallback,      \* [States -> States]  fallback_state_with_eof_rule(..)
  FallTags,      \* [States -> TagCmds] its tag commands (out-parameter)
  Used,          \* [States -> BOOLEAN]                      s->label->used
  LabelIndex,    \* [States -> Nat]                          s->label->index
  InitialUsed,   \* dfa.initial_label->used
  NAccepts,      \* dfa.accepts.size()
  TCID0,         \* the empty tag-command list
  NOSAVE,        \* no save slot in an INITIAL state
  NONE,          \* no fill label
  \* options (opt_t)
  CodeModel,     \* opts->code_model
  EagerSkip,     \* opts->eager_skip
  FillEnable,    \* opts->fill_enable
  EofRule,       \* opts->fill_eof != NOEOF
  StorableState, \* opts->storable_state
  FillCheck,     \* opts->fill_check
  StateAbort,    \* opts->state_abort
  NestedIfs      \* opts->nested_ifs

ActionKinds == {"MATCH", "INITIAL", "SAVE", "MOVE", "ACCEPT", "RULE"}

(* A CodeJump: destination, tag commands and the skip/elide/eof flags.     *)
Jump(to, tags, skip, elide, eof) ==
  [to |-> to, tags |-> tags, skip |-> skip, elide |-> elide, eof |-> eof]

NoJump == [to |-> 0]   \* the null CodeJump pointer

-----------------------------------------------------------------------------
(* Helpers on states.                                                      *)

(* endstate(): one span, and it leads to a RULE or ACCEPT state.  Spans    *)
(* with equal destinations are adjacent-merged by the DFA passes, so one   *)
(* span is one switch case covering the alphabet.                          *)
EndState(s) ==
  /\ Len(Go[s].cases) = 1
  /\ Kind[Go[s].cases[1].jump.to] \in {"RULE", "ACCEPT"}

(* omit_peek()                                                             *)
OmitPeek(s) ==
  \/ Kind[s] = "MOVE"
  \/ /\ Len(Go[s].cases) = 1
     /\ Kind[Go[s].cases[1].jump.to] # "MOVE"

(* gen_peek()                                                              *)
GenPeek(s) == IF OmitPeek(s) THEN <<>> ELSE <<Peek>>

(* gen_settags(): the whole command list is one instruction here (it is   *)
(* expanded by module TagActions); an empty list emits nothing.           *)
GenSettags(tc) == IF tc = TCID0 THEN <<>> ELSE <<Tags(tc)>>

(* gen_continue_yyloop(): yystate = next; continue.                      *)
GenContinueYYLoop(next) == <<SetLoopState(next), Continue>>

(* need_yych_arg(): in rec/func mode the function of a state without     *)
(* YYPEEK that still dispatches on yych gets yych from its caller (the   *)
(* span count is the number of cases, as in EndState).                   *)
NeedYYChArgPeekInverted(s) == ~OmitPeek(s) /\ Len(Go[s].cases) > 1 /\ ~EndState(s)

NeedYYChArg(s) == OmitPeek(s) /\ Len(Go[s].cases) > 1 /\ ~EndState(s)

(* The transfer to a state in gen_goto and gen_fill_falllback: a goto to  *)
(* its label, in loop/switch mode the continuation of the yystate loop    *)
(* with the state's label number, in rec/func mode a tail call of the     *)
(* state's function, with yych as an argument if `yych` says so.          *)
GenJumpTo(to, yych) ==
  CASE CodeModel = "LOOP_SWITCH" -> GenContinueYYLoop(LabelIndex[to])
    [] CodeModel = "REC_FUNC"    -> <<Tailcall(StateLabel(to), yych)>>
    [] OTHER                     -> <<Goto(StateLabel(to))>>

(* gen_if(): one if/else in rec/func mode, else an if followed by the     *)
(* second branch, which control flow reaches unless the first one jumps.  *)
GenIf(cond, trans1, trans2) ==
  IF CodeModel = "REC_FUNC"
  THEN IfThenElse(cond, trans1, trans2)
  ELSE IfThenElse(cond, trans1, <<>>) \o trans2

-----------------------------------------------------------------------------
(* YYFILL and the end-of-input rule.                                       *)

GenFillFallbackRecFuncElide(from, jump) ==
  LET fallback == Fallback[from]
      falltags == IF Go[from].tags # TCID0 THEN TCID0 ELSE FallTags[from]
  IN IF jump # NoJump /\ fallback = jump.to /\ falltags = jump.tags /\ ~jump.skip
     THEN <<>>
     ELSE GenSettags(falltags) \o GenJumpTo(fallback, FALSE)

(* gen_fill_falllback(): the transition taken when YYFILL fails.  It is   *)
(* elided when control falls through to an identical transition.          *)
GenFillFallback(from, jump) ==
  LET fallback == Fallback[from]
      falltags == IF Go[from].tags # TCID0 THEN TCID0 ELSE FallTags[from]
  IN IF /\ jump # NoJump
        /\ fallback = jump.to
        /\ falltags = jump.tags
        /\ ~jump.skip
        /\ ~(CodeModel = "REC_FUNC" /\ FillEnable)
     THEN <<>>
     ELSE GenSettags(falltags) \o GenJumpTo(fallback, FALSE)

(* Mutant: rec/func resumes at the state that asked for input (passing  *)
(* yych if it takes it) instead of its fill state, which peeks again.    *)
FillResumeAtFrom(from) ==
  CASE CodeModel = "LOOP_SWITCH" -> GenContinueYYLoop(LabelIndex[FillState[from]])
    [] CodeModel = "REC_FUNC"    -> <<Tailcall(StateLabel(from), NeedYYChArg(from))>>
    [] StorableState \/ EofRule  -> <<Goto(FillLabel(FillLabelOf[FillState[from]]))>>
    [] OTHER                     -> <<>>

(* The resumption after YYFILL: in goto/label mode a goto to the YYFILL   *)
(* label of the fill state (when the dispatch or the $ rule needs one), in *)
(* loop/switch mode the continuation of the loop at the fill state, in    *)
(* rec/func mode a tail call of the fill state's function.                *)
FillResume(from) ==
  CASE CodeModel = "LOOP_SWITCH" -> GenContinueYYLoop(LabelIndex[FillState[from]])
    [] CodeModel = "REC_FUNC"    -> <<Tailcall(StateLabel(FillState[from]), FALSE)>>
    [] StorableState \/ EofRule  -> <<Goto(FillLabel(FillLabelOf[FillState[from]]))>>
    [] OTHER                     -> <<>>

(* Mutant: the state dispatch resumes at the YYFILL label without the     *)
(* check whether YYFILL brought any input.                                 *)
GenGotoAfterFillNoFallback(from, jump) == FillResume(from)

(* gen_goto_after_fill(): resume at the fill state; with storable state   *)
(* and $ the state dispatch first checks if YYFILL brought any input, and *)
(* takes the fallback transition if it did not.                           *)
GenGotoAfterFill(from, jump) ==
  IF StorableState /\ EofRule
  THEN GenIf(LessThan(1), GenFillFallback(from, jump), FillResume(from))
  ELSE FillResume(from)

(* gen_fill(): YYSETSTATE, the YYFILL call and, with $ and no storable    *)
(* state, the check of its result; guarded by YYLESSTHAN(need) when       *)
(* fill_check is on.  `tail` is the transition that follows.              *)
GenFill(from, jump, tail) ==
  LET need == IF EofRule THEN 1 ELSE FillAmount[from]
      fill ==
        IF FillEnable
        THEN (IF StorableState
              THEN <<SetState(FillLabelOf[FillState[from]])>> ELSE <<>>)
             \o (IF EofRule /\ ~StorableState
                 THEN GenIf(FillOk, GenGotoAfterFill(from, jump),
                                    GenFillFallback(from, jump))
                 ELSE <<FillStmt(need)>>)
        ELSE IF EofRule /\ ~StorableState
             THEN GenFillFallback(from, jump)
             ELSE <<>>
  IN IF FillCheck /\ fill # <<>>
     THEN GenIf(LessThan(need), fill, tail)
     ELSE fill \o tail

(* Mutant: the hoisted tags follow the YYFILL label.                       *)
GenFillAndLabelTagsAfterLabel(s) ==
  (IF FillEnable /\ ~EndState(s) /\ ~EofRule /\ FillAmount[s] > 0
   THEN GenFill(s, NoJump, <<>>) ELSE <<>>)
  \o (IF FillLabelOf[s] # NONE /\ CodeModel = "GOTO_LABEL"
      THEN <<Lbl(FillLabel(FillLabelOf[s]))>> ELSE <<>>)
  \o (IF EofRule THEN GenSettags(Go[s].tags) ELSE <<>>)

(* gen_fill_and_label(): YYFILL on state entry (no $ rule), the hoisted   *)
(* tag commands (with $, before the label, so a rematch after YYFILL does *)
(* not repeat them) and the YYFILL label.                                 *)
GenFillAndLabel(s) ==
  (IF FillEnable /\ ~EndState(s) /\ ~EofRule /\ FillAmount[s] > 0
   THEN GenFill(s, NoJump, <<>>) ELSE <<>>)
  \o (IF EofRule THEN GenSettags(Go[s].tags) ELSE <<>>)
  \o (IF FillLabelOf[s] # NONE /\ CodeModel = "GOTO_LABEL"
      THEN <<Lbl(FillLabel(FillLabelOf[s]))>> ELSE <<>>)

-----------------------------------------------------------------------------
(* Transitions.                                                            *)

(* Mutant: the eof flag of the transition is ignored, so the transition   *)
(* on the sentinel is taken without the YYLESSTHAN check.                  *)
GenGotoNoEof(from, jump) ==
  GenSettags(jump.tags)
  \o (IF jump.skip THEN <<Skip>> ELSE <<>>)
  \o (IF ~jump.elide /\ Used[jump.to] THEN GenJumpTo(jump.to, NeedYYChArg(jump.to)) ELSE <<>>)

(* gen_goto(): tag commands, YYSKIP, the jump (unless elided); an eof     *)
(* transition is wrapped in the YYFILL code.                              *)
GenGoto(from, jump) ==
  LET transition ==
        GenSettags(jump.tags)
        \o (IF jump.skip THEN <<Skip>> ELSE <<>>)
        \o (IF ~jump.elide /\ Used[jump.to] THEN GenJumpTo(jump.to, NeedYYChArg(jump.to)) ELSE <<>>)
  IN IF jump.eof THEN GenFill(from, jump, transition) ELSE transition

(* gen_gosw(): a switch on yych, the default case last; ts are the        *)
(* transitions of the cases.                                               *)
GenGoSwOf(go, ts) ==
  LET cs    == go.cases
      plain == SelectSeq([i \in DOMAIN cs |-> i], LAMBDA i : ~cs[i].dflt)
      dflt  == CHOOSE i \in DOMAIN cs : cs[i].dflt
  IN Switch("yych",
            [k \in 1..Len(plain) |-> [vals |-> cs[plain[k]].chars, body |-> ts[plain[k]]]],
            ts[dflt])

GenGoSw(go, from) ==
  GenGoSwOf(go, [i \in DOMAIN go.cases |-> GenGoto(from, go.cases[i].jump)])

(* gen_goifl() in goto/label and loop/switch mode: one independent if    *)
(* per conditional branch, its body the branch's transition, then the     *)
(* transition of the last, unconditional branch.                          *)
IfBranch(b, transition) ==
  IF b.hascond THEN IfThenElse(CharCmp(b.cmp, b.val), transition, <<>>)
  ELSE transition

(* Mutant: the branch loop stops one short, dropping the last branch.      *)
GenGoIfLNoLast(go, from) ==
  FlattenSeq([i \in 1..(Len(go.branches) - 1) |->
                IfBranch(go.branches[i], GenGoto(from, go.branches[i].jump))])

(* In rec/func mode the branches form one if/else-if/else statement, so   *)
(* that both arms of every if end in a tail call.  ts are the transitions *)
(* of the branches bs; chain[i] is the code of branches i .. n.           *)
IfElseChain(bs, ts) ==
  LET n == Len(bs)
      chain[i \in 1..(n + 1)] ==
        IF i > n THEN <<>>
        ELSE IF ~bs[i].hascond THEN ts[i]
        ELSE IfThenElse(CharCmp(bs[i].cmp, bs[i].val), ts[i], chain[i + 1])
  IN chain[1]

(* The branches of a linear if given their transitions ts: independent  *)
(* ifs, or in rec/func mode one if/else-if/else.                          *)
GenGoIfLOf(go, ts) ==
  IF CodeModel = "REC_FUNC"
  THEN IfElseChain(go.branches, ts)
  ELSE FlattenSeq([i \in DOMAIN go.branches |-> IfBranch(go.branches[i], ts[i])])

GenGoIfL(go, from) ==
  GenGoIfLOf(go, [i \in DOMAIN go.branches |-> GenGoto(from, go.branches[i].jump)])

RECURSIVE IfLeaves(_)
(* The linear nodes of an if-tree.                                         *)
IfLeaves(go) ==
  IF go.kind = "BINARY" THEN IfLeaves(go.gothen) \cup IfLeaves(go.goelse) ELSE {go}

RECURSIVE IfTree(_, _)
(* gen_goifb() over a tree whose linear nodes have the code leaf[node]: a *)
(* binary node is one if/else on its comparison with a subtree in each   *)
(* branch.                                                                *)
IfTree(go, leaf) ==
  IF go.kind = "BINARY"
  THEN IfThenElse(CharCmp(go.cmp, go.val), IfTree(go.gothen, leaf), IfTree(go.goelse, leaf))
  ELSE leaf[go]

(* gen_goif(): binary nodes as if/else, each linear node a chain of       *)
(* branches (gen_goifl).                                                  *)
GenGoIf(go, from) ==
  IfTree(go, [l \in IfLeaves(go) |-> GenGoIfL(l, from)])

(* gen_goswif(): the switch or the if-tree of a SWITCH_IF go.              *)
GenGoSwIf(go, from) ==
  IF go.swif = "SWITCH" THEN GenGoSw(go, from) ELSE GenGoIf(go.goif, from)

(* gen_gocp(): goto *yytarget[yych] through the table of the labels of    *)
(* the target states (gen_gocp_table, always the label, used or not); with *)
(* a go for the symbols past the table (hgo) an if on yych & ~0xFF takes   *)
(* that go, whose code gen_goswif made (hcode), and the table goto is its  *)
(* else branch.                                                            *)
GenGocp(go, hcode) ==
  LET ifelse == <<CharTable([i \in DOMAIN go.table |-> StateLabel(go.table[i])])>>
  IN IF go.hashgo THEN IfThenElse(HighChar(Len(go.table)), hcode, ifelse)
     ELSE ifelse

(* gen_go(): hoisted tags (without $), YYSKIP, then the dispatch.  A go   *)
(* with no spans (RULE and ACCEPT states) has no dispatch.  The BITMAP    *)
(* and CPGOTO dispatches (Bitmap, GenGocp) are run on their own, not in   *)
(* the generated lexer.                                                    *)
GenGo(s) ==
  (IF ~EofRule THEN GenSettags(Go[s].tags) ELSE <<>>)
  \o (IF Go[s].skip THEN <<Skip>> ELSE <<>>)
  \o (IF Go[s].kind = "SWITCH_IF" THEN GenGoSwIf(Go[s], s) ELSE <<>>)

-----------------------------------------------------------------------------
(* State actions.                                                          *)

AccJump(a) == Jump(a.state, a.tags, FALSE, FALSE, FALSE)

RECURSIVE EmitAcceptBinary(_, _, _)

(* Mutant: the branches of the comparison swapped.                         *)
EmitAcceptBinarySwapped(ts, l, r) ==
  IF l < r
  THEN LET m == (l + r) \div 2
       IN IfThenElse(AcceptCmp(IF r = l + 1 THEN "==" ELSE "<=", m),
                     EmitAcceptBinary(ts, m + 1, r),
                     EmitAcceptBinary(ts, l, m))
  ELSE ts[l + 1]

(* emit_accept_binary(): a binary tree of comparisons on yyaccept over     *)
(* accepts l .. r, whose transitions are ts.                               *)
EmitAcceptBinary(ts, l, r) ==
  IF l < r
  THEN LET m == (l + r) \div 2
       IN IfThenElse(AcceptCmp(IF r = l + 1 THEN "==" ELSE "<=", m),
                     EmitAcceptBinary(ts, l, m),
                     EmitAcceptBinary(ts, m + 1, r))
  ELSE ts[l + 1]

(* Mutant: the switch cases numbered from 1.                              *)
EmitAcceptCaseOffByOne(ts) ==
  LET nacc == Len(ts)
  IN IF nacc = 0 THEN <<>>
     ELSE <<Restore>> \o
          (IF nacc = 1 THEN ts[1]
           ELSE IF NestedIfs \/ nacc = 2
           THEN EmitAcceptBinary(ts, 0, nacc - 1)
           ELSE Switch("yyaccept",
                  [i \in 1..(nacc - 1) |-> [vals |-> {i}, body |-> ts[i]]],
                  ts[nacc]))

(* emit_accept() given the transitions ts to the accepted states:          *)
(* YYRESTORE, then dispatch on yyaccept (computed gotos are off in this    *)
(* model).                                                                 *)
EmitAcceptOf(ts) ==
  LET nacc == Len(ts)
  IN IF nacc = 0 THEN <<>>
     ELSE <<Restore>> \o
          (IF nacc = 1 THEN ts[1]
           ELSE IF NestedIfs \/ nacc = 2
           THEN EmitAcceptBinary(ts, 0, nacc - 1)
           ELSE Switch("yyaccept",
                  [i \in 1..(nacc - 1) |-> [vals |-> {i - 1}, body |-> ts[i]]],
                  ts[nacc]))

(* emit_accept(): the transition to each accepted state is gen_goto.      *)
EmitAccept(acc) ==
  EmitAcceptOf([i \in DOMAIN acc |-> GenGoto(0, AccJump(acc[i]))])

(* emit_rule(): final tags (module FinTags), YYSETSTATE(-1) with storable *)
(* state in goto/label mode, then the semantic action.  There is a single *)
(* condition, so no YYSETCONDITION.                                       *)
EmitRule(r) ==
  (IF StorableState THEN <<SetState(-1)>> ELSE <<>>) \o <<RuleAction(r)>>

(* Mutants of the SAVE case: yyaccept off by one, YYBACKUP dropped, and    *)
(* YYBACKUP before YYSKIP.                                                 *)
EmitSaveAcceptOffByOne(s) ==
  (IF NAccepts > 1 THEN <<SetAccept(SaveSlot[s] + 1)>> ELSE <<>>)
  \o (IF ~EagerSkip THEN <<Skip>> ELSE <<>>)
  \o <<Backup>> \o GenFillAndLabel(s) \o GenPeek(s)

EmitSaveNoBackup(s) ==
  (IF NAccepts > 1 THEN <<SetAccept(SaveSlot[s])>> ELSE <<>>)
  \o (IF ~EagerSkip THEN <<Skip>> ELSE <<>>)
  \o GenFillAndLabel(s) \o GenPeek(s)

EmitSaveBackupFirst(s) ==
  (IF NAccepts > 1 THEN <<SetAccept(SaveSlot[s])>> ELSE <<>>)
  \o <<Backup>>
  \o (IF ~EagerSkip THEN <<Skip>> ELSE <<>>)
  \o GenFillAndLabel(s) \o GenPeek(s)

(* The SAVE case of emit_action(): the accept number of this final state  *)
(* (when there is more than one), YYSKIP, YYBACKUP, then YYFILL and peek.  *)
EmitSave(s) ==
  (IF NAccepts > 1 THEN <<SetAccept(SaveSlot[s])>> ELSE <<>>)
  \o (IF ~EagerSkip THEN <<Skip>> ELSE <<>>)
  \o <<Backup>> \o GenFillAndLabel(s) \o GenPeek(s)

(* emit_action()                                                           *)
EmitAction(s) ==
  CASE Kind[s] = "MATCH" ->
         (IF ~EagerSkip THEN <<Skip>> ELSE <<>>)
         \o GenFillAndLabel(s) \o GenPeek(s)
    [] Kind[s] = "INITIAL" ->
         LET backup == SaveSlot[s] # NOSAVE
             ul1    == Used[s]
         IN (IF ul1 /\ NAccepts > 1 /\ backup
             THEN <<SetAccept(SaveSlot[s])>> ELSE <<>>)
            \o (IF ul1 /\ ~EagerSkip THEN <<Skip>> ELSE <<>>)
            \o <<Lbl(InitialLabel)>>
            \o GenFillAndLabel(s)
            \o (IF backup THEN <<Backup>> ELSE <<>>)
            \o GenPeek(s)
    [] Kind[s] = "SAVE"   -> EmitSave(s)
    [] Kind[s] = "MOVE"   -> <<>>
    [] Kind[s] = "ACCEPT" -> EmitAccept(AcceptsOf[s])
    [] Kind[s] = "RULE"   -> EmitRule(RuleOf[s])

(* emit_state(): the numeric label of a used state, in goto/label mode.   *)
EmitState(s) == IF Used[s] /\ CodeModel = "GOTO_LABEL" THEN <<Lbl(StateLabel(s))>> ELSE <<>>

-----------------------------------------------------------------------------
(* The block.                                                              *)

FillStates == {s \in States : FillLabelOf[s] # NONE}

(* A set of numbers in increasing order.                                  *)
Ascending(S) ==
  [i \in 1..Cardinality(S) |-> CHOOSE x \in S : Cardinality({y \in S : y < x}) = i - 1]

(* The fill-goto map of the block: a case per fill label, in the order of *)
(* the map's keys, resuming with gen_goto_after_fill of its state.         *)
FillGotoCases ==
  LET n  == Cardinality(FillStates)
      fl == Ascending({FillLabelOf[s] : s \in FillStates})
      fs == [i \in 1..n |-> CHOOSE s \in FillStates : FillLabelOf[s] = fl[i]]
  IN [i \in 1..n |-> [vals |-> {fl[i]}, body |-> GenGotoAfterFill(fs[i], NoJump)]]

(* gen_state_goto() for the implicit state switch of the block: case -1   *)
(* starts lexing, the fill-goto cases resume after a YYFILL, the default  *)
(* case aborts or starts.                                                 *)
GenStateGoto ==
  LET start == <<Goto(StartLabel)>>
  IN IF StateAbort
     THEN Switch("yystate", <<[vals |-> {-1}, body |-> start]>> \o FillGotoCases, <<Abort>>)
     ELSE Switch("yystate", FillGotoCases, start)

(* gen_dfa_as_blocks_with_labels()                                         *)
GenDfaAsBlocksWithLabels ==
  (IF InitialUsed THEN <<Goto(InitialLabel)>> ELSE <<>>)
  \o FlattenSeq([s \in 1..Cardinality(States) |->
                   EmitState(s) \o EmitAction(s) \o GenGo(s)])

-----------------------------------------------------------------------------
(* Loop/switch mode.                                                       *)

(* gen_yystate_def(): yystate = YYGETSTATE() with storable state, else 0  *)
(* (the initial state; the block has no start conditions).                *)
GenYYStateDef == YYStateVar(StorableState)

(* gen_dfa_as_switch_cases() and gen_dfa_as_recursive_functions(): a     *)
(* group starts at the initial state and at every state with a used      *)
(* label; the states after it with unused labels are continued in the    *)
(* same group.  ss is the set of states of the DFA.                      *)
CaseStarts(ss) == Ascending({1} \cup {s \in ss : s > 1 /\ Used[s]})

GroupCode(i) ==
  LET starts == CaseStarts(States)
      last   == IF i < Len(starts) THEN starts[i + 1] - 1 ELSE Cardinality(States)
  IN FlattenSeq([j \in 1..(last - starts[i] + 1) |->
                   LET t == starts[i] + j - 1 IN EmitState(t) \o EmitAction(t) \o GenGo(t)])

(* gen_dfa_as_switch_cases(): a case per group, numbered by the label of *)
(* its first state.                                                      *)
GenDfaAsSwitchCases ==
  LET starts == CaseStarts(States)
  IN [i \in 1..Len(starts) |-> [vals |-> {LabelIndex[starts[i]]}, body |-> GroupCode(i)]]

(* Mutant: the first case keeps its single number 0, so yystate = -1 of a *)
(* fresh start matches no case.                                            *)
GenStorableStateCasesNoRange(cases) ==
  IF ~StorableState THEN cases ELSE cases \o FillGotoCases

(* gen_storable_state_cases(): with storable state the fill-goto cases    *)
(* follow the state cases, and the first case (the initial state, number *)
(* 0) becomes the range [-1, 1).                                          *)
GenStorableStateCases(cases) ==
  IF ~StorableState THEN cases
  ELSE [cases \o FillGotoCases EXCEPT ![1].vals = {-1, 0}]

(* wrap_dfas_in_loop_switch(): the switch on yystate, with an abort       *)
(* default, in an endless loop.                                            *)
WrapDfasInLoopSwitch(cases) ==
  <<Lbl(LoopLabel)>>
  \o Switch("yyloop", GenStorableStateCases(cases),
            IF StateAbort THEN <<Abort>> ELSE <<>>)
  \o <<Goto(LoopLabel)>>

-----------------------------------------------------------------------------
(* Rec/func mode, a block without conditions or storable state.          *)

(* gen_dfa_as_recursive_functions(): a function per group, named by the  *)
(* label of its first state, with a yych parameter if that state needs   *)
(* one.                                                                  *)
GenDfaAsRecursiveFunctions ==
  LET starts == CaseStarts(States)
  IN FlattenSeq([i \in 1..Len(starts) |->
                <<FnDef(StateLabel(starts[i]), NeedYYChArg(starts[i]))>>
                \o GroupCode(i) \o <<FnEnd>>])

(* gen_start_function(): without storable state, the function the user  *)
(* calls tail-calls the function of the initial state (dfa.head), with   *)
(* the common arguments, which do not include yych.                      *)
GenStartFunction ==
  <<FnDef(EntryLabel, FALSE), Tailcall(StateLabel(1), FALSE), FnEnd>>

-----------------------------------------------------------------------------
(* gen_block_code(): in goto/label mode the state switch (storable        *)
(* state), the block start label and the DFA; in loop/switch mode the     *)
(* yystate variable and the loop; in rec/func mode the state functions    *)
(* followed by the start function.                                        *)
Program ==
  CASE CodeModel = "LOOP_SWITCH" ->
         <<GenYYStateDef>> \o WrapDfasInLoopSwitch(GenDfaAsSwitchCases)
    [] CodeModel = "REC_FUNC" ->
         GenDfaAsRecursiveFunctions \o GenStartFunction
    [] OTHER ->
         (IF StorableState THEN GenStateGoto ELSE <<>>)
         \o <<Lbl(StartLabel)>>
         \o GenDfaAsBlocksWithLabels

=============================================================================
