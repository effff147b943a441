---------------------------- MODULE GeneratedLexer ----------------------------
(***************************************************************************)
(* The lexer that pass2 generates (module Codegen, in any code model), run *)
(* on an input that the caller hands over in chunks.  One step executes    *)
(* one instruction of Program.  The environment is the user's YYFILL (it   *)
(* brings at least one more symbol, or fails at the end of the input) and, *)
(* with storable state, the caller that re-enters the lexer after YYFILL   *)
(* made it return.  YYPEEK at the end of the buffer reads the sentinel,    *)
(* as the YYFILL contract of the $ rule requires.                          *)
(***************************************************************************)
EXTENDS Codegen

CONSTANTS
  Inputs,        \* the inputs the lexer may be run on
  NUL,           \* the sentinel symbol (re2c:eof value)
  EofRuleId      \* the rule id of $, whose action ends lexing

VARIABLES
  input,         \* the whole input of this run (what YYFILL can bring)
  limit,         \* YYLIMIT: symbols loaded so far
  cursor,        \* YYCURSOR
  marker,        \* YYMARKER
  tok,           \* start of the current token (set by the user loop)
  yych,          \* the peeked symbol
  yyaccept,      \* the accept value
  yystate,       \* YYGETSTATE/YYSETSTATE (storable state)
  loopstate,     \* the local yystate of the loop/switch mode
  pc,            \* the next instruction of Program
  phase,         \* "run", "wait" (returned from YYFILL) or "done"
  tokens,        \* the tokens emitted by the semantic actions
  code,          \* the compiled lexer: Program with its labels resolved
  applied        \* the tag lists applied in the current token, each with
                 \* the cursor it was applied at

vars == <<input, limit, cursor, marker, tok, yych, yyaccept, yystate, loopstate,
          pc, phase, tokens, code, applied>>

(* The position of each label and of each function in a program.        *)
LabelPositions(P) ==
  LET defs == {j \in DOMAIN P : P[j].op \in {"label", "fn"}}
  IN [l \in {P[i].l : i \in defs} |-> CHOOSE i \in defs : P[i].l = l]

(* What the C compiler makes of a program: every goto names the position *)
(* of its label, a continue jumps back to the top of the loop, and a tail *)
(* call jumps to the function it calls.                                   *)
Compile(P) ==
  LET at == LabelPositions(P)
  IN [i \in DOMAIN P |->
        CASE P[i].op = "goto"     -> [op |-> "goto", to |-> at[P[i].l]]
          [] P[i].op = "continue" -> [op |-> "goto", to |-> at[LoopLabel]]
          [] P[i].op = "tailcall" -> [op |-> "call", to |-> at[P[i].l], yych |-> P[i].yych]
          [] OTHER                -> P[i]]

Compiled == Compile(Program)

(* Where the lexer is entered in a compiled program P: the function       *)
(* fn->name that gen_start_function adds in rec/func mode, else the top   *)
(* of the block.                                                          *)
EntryPc(P) ==
  IF EntryLabel \in DOMAIN LabelPositions(P) THEN LabelPositions(P)[EntryLabel] ELSE 1

(* The value of a yych local that was neither passed in nor peeked.       *)
NoYych == -1

Ins == code[pc]

Init ==
  /\ code = Compiled
  /\ input \in Inputs
  /\ limit \in (IF FillEnable THEN 0..Len(input) ELSE {Len(input)})
  /\ cursor = 0
  /\ marker = 0
  /\ tok = 0
  /\ yych = NUL
  /\ yyaccept = 0
  /\ yystate = -1
  /\ loopstate = 0
  /\ pc = EntryPc(code)
  /\ phase = "run"
  /\ tokens = <<>>
  /\ applied = <<>>

Running(op) == phase = "run" /\ Ins.op = op

Next1 == pc' = pc + 1

(* YYSKIP                                                                  *)
ExecSkip ==
  /\ Running("skip")
  /\ cursor' = cursor + 1
  /\ Next1
  /\ UNCHANGED <<input, limit, marker, tok, yych, yyaccept, yystate, loopstate, phase, tokens, code, applied>>

(* YYPEEK: the loaded symbol, or the sentinel at YYLIMIT.                   *)
ExecPeek ==
  /\ Running("peek")
  /\ yych' = IF cursor < limit THEN input[cursor + 1] ELSE NUL
  /\ Next1
  /\ UNCHANGED <<input, limit, cursor, marker, tok, yyaccept, yystate, loopstate, phase, tokens, code, applied>>

(* YYBACKUP / YYRESTORE                                                    *)
ExecBackup ==
  /\ Running("backup")
  /\ marker' = cursor
  /\ Next1
  /\ UNCHANGED <<input, limit, cursor, tok, yych, yyaccept, yystate, loopstate, phase, tokens, code, applied>>

ExecRestore ==
  /\ Running("restore")
  /\ cursor' = marker
  /\ Next1
  /\ UNCHANGED <<input, limit, marker, tok, yych, yyaccept, yystate, loopstate, phase, tokens, code, applied>>

(* yyaccept = n                                                            *)
ExecSetAccept ==
  /\ Running("accept")
  /\ yyaccept' = Ins.n
  /\ Next1
  /\ UNCHANGED <<input, limit, cursor, marker, tok, yych, yystate, loopstate, phase, tokens, code, applied>>

(* YYSETSTATE(v)                                                           *)
ExecSetState ==
  /\ Running("setstate")
  /\ yystate' = Ins.v
  /\ Next1
  /\ UNCHANGED <<input, limit, cursor, marker, tok, yych, yyaccept, loopstate, phase, tokens, code, applied>>

(* yystate = YYGETSTATE() or 0 at the entry of a loop/switch lexer, and   *)
(* yystate = n before a continue.                                          *)
ExecDefState ==
  /\ Running("defstate")
  /\ loopstate' = IF Ins.getstate THEN yystate ELSE 0
  /\ Next1
  /\ UNCHANGED <<input, limit, cursor, marker, tok, yych, yyaccept, yystate, phase, tokens, code, applied>>

ExecSetLoop ==
  /\ Running("setloop")
  /\ loopstate' = Ins.n
  /\ Next1
  /\ UNCHANGED <<input, limit, cursor, marker, tok, yych, yyaccept, yystate, phase, tokens, code, applied>>

(* Labels, gotos and the jumps of flattened if/else.                       *)
ExecLabel ==
  /\ phase = "run"
  /\ Ins.op \in {"label", "fn"}
  /\ Next1
  /\ UNCHANGED <<input, limit, cursor, marker, tok, yych, yyaccept, yystate, loopstate, phase, tokens, code, applied>>

ExecGoto ==
  /\ phase = "run"
  /\ Ins.op \in {"goto", "jmp"}
  /\ pc' = IF Ins.op = "goto" THEN Ins.to ELSE pc + Ins.off
  /\ UNCHANGED <<input, limit, cursor, marker, tok, yych, yyaccept, yystate, loopstate, phase, tokens, code, applied>>

(* A tail call: control goes to the called function; yych is its         *)
(* argument, or a fresh local that holds no symbol.  A function whose     *)
(* body ends without a tail call or a semantic action has no step: the    *)
(* lexer would return without a token.                                    *)
ExecCall ==
  /\ Running("call")
  /\ pc' = Ins.to
  /\ yych' = IF Ins.yych THEN yych ELSE NoYych
  /\ UNCHANGED <<input, limit, cursor, marker, tok, yyaccept, yystate, loopstate, phase, tokens, code, applied>>

(* if (cond) on YYLESSTHAN, yyaccept or yych.                                   *)
Holds(cond) ==
  CASE cond.c = "lt" -> limit - cursor < cond.n
    [] cond.c = "acc" /\ cond.cmp = "==" -> yyaccept = cond.n
    [] cond.c = "acc" /\ cond.cmp = "<=" -> yyaccept <= cond.n
    [] cond.c = "ch"                     -> Compare(cond.cmp, yych, cond.n)

ExecIf ==
  /\ Running("if")
  /\ Ins.cond.c # "fill"
  /\ pc' = IF Holds(Ins.cond) THEN pc + 1 ELSE pc + Ins.off
  /\ UNCHANGED <<input, limit, cursor, marker, tok, yych, yyaccept, yystate, loopstate, phase, tokens, code, applied>>

(* if (YYFILL() == 0): YYFILL loads at least one more symbol and returns 0,*)
(* or, at the end of the input, returns non-zero.                          *)
ExecFillOk ==
  /\ Running("if")
  /\ Ins.cond.c = "fill"
  /\ limit < Len(input)
  /\ limit' \in (limit + 1)..Len(input)
  /\ pc' = pc + 1
  /\ UNCHANGED <<input, cursor, marker, tok, yych, yyaccept, yystate, loopstate, phase, tokens, code, applied>>

ExecFillFail ==
  /\ Running("if")
  /\ Ins.cond.c = "fill"
  /\ limit = Len(input)
  /\ pc' = pc + Ins.off
  /\ UNCHANGED <<input, limit, cursor, marker, tok, yych, yyaccept, yystate, loopstate, phase, tokens, code, applied>>

(* switch on yych, yyaccept or YYGETSTATE().                                *)
SwitchValue(on) ==
  CASE on = "yych" -> yych [] on = "yyaccept" -> yyaccept [] on = "yystate" -> yystate
    [] on = "yyloop" -> loopstate

ExecSwitch ==
  /\ Running("switch")
  /\ LET v    == SwitchValue(Ins.on)
         hits == {i \in DOMAIN Ins.vals : v \in Ins.vals[i]}
     IN pc' = pc + (IF hits # {} THEN Ins.offs[CHOOSE i \in hits : TRUE]
                    ELSE Ins.offs[Len(Ins.offs)])
  /\ UNCHANGED <<input, limit, cursor, marker, tok, yych, yyaccept, yystate, loopstate, phase, tokens, code, applied>>

(* The tag commands of a list (gen_settags): their effect on the tag      *)
(* variables is the business of module TagActions; here it is recorded    *)
(* which list was applied at which cursor.                                 *)
ExecTags ==
  /\ Running("tags")
  /\ applied' = Append(applied, <<Ins.tc, cursor>>)
  /\ Next1
  /\ UNCHANGED <<input, limit, cursor, marker, tok, yych, yyaccept, yystate, loopstate, phase, tokens, code>>

(* YYFILL as a statement with storable state: the user's YYFILL returns    *)
(* from the lexer (the push model), to be re-entered through the state     *)
(* switch.                                                                 *)
ExecFillReturn ==
  /\ Running("fill")
  /\ StorableState
  /\ phase' = "wait"
  /\ UNCHANGED <<input, limit, cursor, marker, tok, yych, yyaccept, yystate, loopstate, pc, tokens, code, applied>>

(* The semantic action: emit the token; $ ends lexing, the other actions   *)
(* continue with the next token (tok = cursor, back to the block start).   *)
ExecAction ==
  /\ Running("action")
  /\ tokens' = Append(tokens, [rule |-> Ins.r, start |-> tok, end |-> cursor])
  /\ IF Ins.r = EofRuleId
     THEN phase' = "done" /\ UNCHANGED <<tok, pc>>
     ELSE tok' = cursor /\ pc' = EntryPc(code) /\ UNCHANGED phase
  /\ applied' = <<>>
  /\ UNCHANGED <<input, limit, cursor, marker, yych, yyaccept, yystate, loopstate, code>>

(* The caller of a push-model lexer: on return from YYFILL it loads more   *)
(* input if there is any and calls the lexer again.                        *)
Reenter ==
  /\ phase = "wait"
  /\ limit' \in IF limit < Len(input) THEN (limit + 1)..Len(input) ELSE {limit}
  /\ phase' = "run"
  /\ pc' = EntryPc(code)
  /\ UNCHANGED <<input, cursor, marker, tok, yych, yyaccept, yystate, loopstate, tokens, code, applied>>

LexerStep ==
  \/ ExecSkip \/ ExecPeek \/ ExecBackup \/ ExecRestore \/ ExecSetAccept
  \/ ExecSetState \/ ExecDefState \/ ExecSetLoop \/ ExecLabel \/ ExecGoto \/ ExecCall \/ ExecIf
  \/ ExecFillOk \/ ExecFillFail \/ ExecSwitch \/ ExecFillReturn \/ ExecTags \/ ExecAction

(* After the action of $ the lexer has returned for good: no step is     *)
(* enabled, which the configurations allow (CHECK_DEADLOCK FALSE); that   *)
(* it is reached from every state is part of RefinesTokenizer.            *)
Next == LexerStep \/ Reenter

(* The generated code runs to completion when scheduled, YYFILL returns,   *)
(* and the caller keeps calling the lexer while it is waiting for input.   *)
Spec == Init /\ [][Next]_vars /\ WF_vars(LexerStep) /\ WF_vars(Reenter)

-----------------------------------------------------------------------------
(* Properties.                                                             *)

(* The lexer variables keep their types: yyaccept is one of the accept    *)
(* numbers the SAVE states assign (0 .. dfa.accepts.size() - 1) and the    *)
(* stored state is -1 or the index of a YYFILL label.                      *)
TypeOK ==
  /\ limit \in 0..Len(input)
  /\ {cursor, marker, tok} \subseteq Nat
  /\ yyaccept \in 0..(IF NAccepts > 1 THEN NAccepts - 1 ELSE 0)
  /\ yystate \in {-1} \cup {FillLabelOf[s] : s \in FillStates}
  /\ pc \in DOMAIN code
  /\ phase \in {"run", "wait", "done"}

(* The generated code never reads or skips past the end of the loaded     *)
(* buffer: YYSKIP over the sentinel happens only after the YYLESSTHAN     *)
(* check of an eof transition, or the fallback transition of a failed     *)
(* YYFILL, has ruled out the end of the input, whatever the chunking.     *)
BufferBounds == tok <= cursor /\ cursor <= limit

(* YYRESTORE (in an ACCEPT state) only goes back to a position that a     *)
(* YYBACKUP of the current token saved: after the token start, and not    *)
(* past the cursor.  A missing or misplaced backup would restore a stale  *)
(* marker from an earlier token, or an earlier YYFILL round.              *)
RestoreWithinToken ==
  Running("restore") => tok < marker /\ marker <= cursor

(* A tag list is applied at most once at a position of a token: with the  *)
(* $ rule gen_fill_and_label puts the hoisted tags of a state before its  *)
(* YYFILL label, so that the rematch after YYFILL, which re-enters the    *)
(* state to read the symbol again, does not apply them a second time     *)
(* (spec.md: non-idempotent commands would corrupt the tags).             *)
TagsAppliedOnce == IsInjective(applied)

(* In rec/func mode control never reaches the end of a function body:     *)
(* every path through a state function ends in a tail call or in a       *)
(* semantic action, including the YYFILL code of an eof transition, whose *)
(* if/else has a tail call in both branches because gen_fill_falllback   *)
(* does not elide the fallback there.                                     *)
EveryPathTailcalls == ~Running("fnend")

(* yych is read (a switch or an if on yych) only when it holds a symbol:  *)
(* a rec/func state function that dispatches on yych without YYPEEK      *)
(* received it from its caller (need_yych_arg), every other one peeked.  *)
YychSetWhenRead ==
  (\/ Running("switch") /\ Ins.on = "yych"
   \/ Running("if") /\ Ins.cond.c = "ch")
  => yych # NoYych

=============================================================================
