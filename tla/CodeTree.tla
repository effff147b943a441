------------------------------ MODULE CodeTree ------------------------------
(***************************************************************************)
(* The code tree that pass 2 builds, flattened into a sequence of          *)
(* instructions, as module Codegen and the dispatch modules use it.  A     *)
(* code_if_then_else becomes an "if" with a relative skip, a switch one    *)
(* instruction with a relative offset per case, labels are instructions of *)
(* their own and a goto names a label.  Every API primitive (YYSKIP,       *)
(* YYPEEK, YYFILL, ...) is one instruction whatever its rendering.         *)
(***************************************************************************)
EXTENDS Integers, Sequences, FiniteSets, SequencesExt

(* Labels and instructions of the flattened code tree.                     *)

StateLabel(s) == <<"yy", s>>
InitialLabel  == <<"init">>
StartLabel    == <<"start">>
FillLabel(k)  == <<"fill", k>>
LoopLabel     == <<"loop">>     \* the head of the loop around the yystate switch

Lbl(l)        == [op |-> "label", l |-> l]
Goto(l)       == [op |-> "goto", l |-> l]
Skip          == [op |-> "skip"]
Peek          == [op |-> "peek"]
Backup        == [op |-> "backup"]
Restore       == [op |-> "restore"]
SetAccept(n)  == [op |-> "accept", n |-> n]
SetState(v)   == [op |-> "setstate", v |-> v]
FillStmt(n)   == [op |-> "fill", n |-> n]
Tags(tc)      == [op |-> "tags", tc |-> tc]
RuleAction(r) == [op |-> "action", r |-> r]
Abort         == [op |-> "abort"]
GotoTable(ls) == [op |-> "gototable", ls |-> ls]  \* goto *table[value]
CharTable(ls) == [op |-> "chartable", ls |-> ls]  \* goto *yytarget[yych]
SetLoopState(n) == [op |-> "setloop", n |-> n]    \* yystate = n (loop/switch)
Continue      == [op |-> "continue"]              \* continue the yystate loop
YYStateVar(getstate) == [op |-> "defstate", getstate |-> getstate]
                                    \* yystate = YYGETSTATE() or 0

(* Rec/func mode: code_fndef opens a function l, with a yych parameter or *)
(* not, and the end of its body closes it; code_tailcall calls l, with  *)
(* yych among the arguments or not, and returns what it returns.        *)
EntryLabel    == <<"entry">>    \* fn->name, the function the user calls
FnDef(l, yych) == [op |-> "fn", l |-> l, yych |-> yych]
FnEnd         == [op |-> "fnend"]
Tailcall(l, yych) == [op |-> "tailcall", l |-> l, yych |-> yych]

(* Conditions of if statements.                                            *)
LessThan(n)   == [c |-> "lt", n |-> n]      \* YYLESSTHAN(n)
FillOk        == [c |-> "fill"]             \* YYFILL() == 0
AcceptCmp(cmp, n) == [c |-> "acc", cmp |-> cmp, n |-> n]
CondLess(n)   == [c |-> "cond", n |-> n]    \* YYGETCONDITION() < n
CharCmp(cmp, n) == [c |-> "ch", cmp |-> cmp, n |-> n]  \* yych cmp n
HighChar(size) == [c |-> "high", n |-> size]  \* yych & ~0xFF: past the table

(* What the comparison of a CodeCmp node means for a value v.            *)
Compare(cmp, v, n) ==
  CASE cmp = "==" -> v = n  [] cmp = "!=" -> v # n
    [] cmp = "<"  -> v < n  [] cmp = "<=" -> v <= n
    [] cmp = ">"  -> v > n  [] cmp = ">=" -> v >= n

(* code_if_then_else(cond, then, else): "if" falls into the then-branch   *)
(* when the condition holds and otherwise skips `off` instructions.       *)
IfThenElse(cond, then, else) ==
  IF else = <<>>
  THEN <<[op |-> "if", cond |-> cond, off |-> Len(then) + 1]>> \o then
  ELSE <<[op |-> "if", cond |-> cond, off |-> Len(then) + 2]>> \o then
         \o <<[op |-> "jmp", off |-> Len(else) + 1]>> \o else

(* code_switch over `on`: the cases (seq of [vals, body]) in order, then  *)
(* the default case.  Bodies follow the switch instruction in order, as C  *)
(* case bodies do; an empty default body is a switch without default,     *)
(* which control leaves when no case matches.                              *)
Switch(on, cases, default) ==
  LET bodies == [i \in 1..Len(cases) |-> cases[i].body] \o <<default>>
      offs[i \in 1..Len(bodies)] ==
        IF i = 1 THEN 1 ELSE offs[i - 1] + Len(bodies[i - 1])
  IN <<[op |-> "switch", on |-> on,
        vals |-> [i \in 1..Len(cases) |-> cases[i].vals], offs |-> offs]>>
     \o FlattenSeq(bodies)

=============================================================================
