------------------------------ MODULE Dispatch ------------------------------
(***************************************************************************)
(* Runs a dispatch fragment of generated code (the yyaccept dispatch of an *)
(* ACCEPT state, the start-condition dispatch of a block) on one value of  *)
(* the variable it dispatches on, until control leaves it: by a goto, by   *)
(* an abort, or by falling off its end into the code that follows.         *)
(***************************************************************************)
EXTENDS CodeTree

CONSTANTS
  Jobs     \* a set of [code, val, want, warned]: a fragment, the value
           \* of the dispatch variable, the label where control must go,
           \* and whether re2c warned about the fragment when generating it

NoTarget    == <<"none">>
AbortTarget == <<"abort">>
FallTarget  == <<"fallthrough">>

VARIABLES
  code,    \* the fragment
  val,     \* yyaccept or YYGETCONDITION()
  want,    \* where the reference dispatch goes
  pc,      \* the next instruction
  target,  \* where control went, NoTarget while the fragment runs
  warned   \* the condition-order warning issued with the fragment

vars == <<code, val, want, pc, target, warned>>

Init ==
  /\ \E j \in Jobs : code = j.code /\ val = j.val /\ want = j.want
                     /\ warned = j.warned
  /\ pc = 1
  /\ target = NoTarget

Running(op) == target = NoTarget /\ pc \in DOMAIN code /\ code[pc].op = op

(* yyaccept == n, yyaccept <= n, YYGETCONDITION() < n, yych cmp n, and    *)
(* yych & ~0xFF, which holds for the symbols past the 256-entry table.   *)
Holds(cond) ==
  CASE cond.c = "acc" /\ cond.cmp = "==" -> val = cond.n
    [] cond.c = "acc" /\ cond.cmp = "<=" -> val <= cond.n
    [] cond.c = "cond"                   -> val < cond.n
    [] cond.c = "ch"                     -> Compare(cond.cmp, val, cond.n)
    [] cond.c = "high"                   -> val >= cond.n

(* YYRESTORE, YYSKIP and tag commands do not take part in the dispatch.   *)
ExecStmt ==
  /\ target = NoTarget /\ pc \in DOMAIN code /\ code[pc].op \in {"restore", "skip", "tags"}
  /\ pc' = pc + 1
  /\ UNCHANGED <<code, val, want, target, warned>>

ExecIf ==
  /\ Running("if")
  /\ pc' = IF Holds(code[pc].cond) THEN pc + 1 ELSE pc + code[pc].off
  /\ UNCHANGED <<code, val, want, target, warned>>

ExecSwitch ==
  /\ Running("switch")
  /\ LET ins  == code[pc]
         hits == {i \in DOMAIN ins.vals : val \in ins.vals[i]}
     IN pc' = pc + (IF hits # {} THEN ins.offs[CHOOSE i \in hits : TRUE]
                    ELSE ins.offs[Len(ins.offs)])
  /\ UNCHANGED <<code, val, want, target, warned>>

(* goto, goto *table[val] (yytarget[yych] for a character), abort, or   *)
(* the end of the fragment.                                                *)
ExecLeave ==
  /\ target = NoTarget
  /\ pc \notin DOMAIN code \/ code[pc].op \in {"goto", "gototable", "chartable", "abort"}
  /\ target' = CASE pc \notin DOMAIN code       -> FallTarget
                 [] code[pc].op = "goto"        -> code[pc].l
                 [] code[pc].op \in {"gototable", "chartable"} -> code[pc].ls[val + 1]
                 [] code[pc].op = "abort"       -> AbortTarget
  /\ UNCHANGED <<code, val, want, pc, warned>>

(* Every branch of these dispatches ends in a goto, so the jump over an   *)
(* else branch is never reached and has no step here.  Once control has   *)
(* left the fragment nothing more happens: the configurations do not      *)
(* check deadlock.                                                         *)
Next == ExecStmt \/ ExecIf \/ ExecSwitch \/ ExecLeave

Spec == Init /\ [][Next]_vars /\ WF_vars(Next)

-----------------------------------------------------------------------------
(* The generated dispatch leaves for the label the reference dispatch     *)
(* names, for every value the dispatch variable can have: no comparison   *)
(* in the tree of ifs is off by one and no switch case is misnumbered.    *)
DispatchCorrect == target # NoTarget => target = want

=============================================================================
