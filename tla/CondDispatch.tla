---------------------------- MODULE CondDispatch ----------------------------
(***************************************************************************)
(* The start-condition dispatch of a goto/label block (gen_cond_goto and   *)
(* gen_cond_goto_binary): control goes from the block start to the label  *)
(* yyc_<cond> of the condition YYGETCONDITION() returns.  The conditions   *)
(* of the block are numbered 0 .. ncond - 1 in block order, which is the   *)
(* numbering the binary dispatch and the computed-goto table rely on.      *)
(***************************************************************************)
EXTENDS CodeTree

CondLabel(i) == <<"yyc", i>>

(* gen_cond_goto_binary(): split [lower, upper] at the middle, rounding    *)
(* up, and test YYGETCONDITION() < middle.                                 *)
RECURSIVE GenCondGotoBinary(_, _)

GenCondGotoBinary(lower, upper) ==
  IF lower = upper
  THEN <<Goto(CondLabel(lower))>>
  ELSE LET middle == lower + (upper - lower + 1) \div 2
       IN IfThenElse(CondLess(middle),
                     GenCondGotoBinary(lower, middle - 1),
                     GenCondGotoBinary(middle, upper))

(* gen_cond_table(): the table of condition labels, indexed by the       *)
(* condition number (the array yyctable of &&yyc_<cond>).                  *)
CondTable(ncond) == [i \in 1..ncond |-> CondLabel(i - 1)]

(* gen_cond_goto() for code output: a computed goto through the table of  *)
(* condition labels (gen_cond_table), nested ifs, or a switch on the       *)
(* condition names with an optional abort default.                         *)
GenCondGoto(ncond, computed, nested, condAbort) ==
  CASE computed -> <<GotoTable(CondTable(ncond))>>
    [] nested   -> GenCondGotoBinary(0, ncond - 1)
    [] OTHER    -> Switch("cond",
                          [i \in 1..ncond |->
                             [vals |-> {i - 1}, body |-> <<Goto(CondLabel(i - 1))>>]],
                          IF condAbort THEN <<Abort>> ELSE <<>>)

(* Mutant: nested ifs warn even for a single condition.                   *)
CondOrderWarningAnyNested(warn, ncond, computed, nested, headerFile) ==
  LET w == CASE computed -> warn
             [] nested   -> warn
             [] OTHER    -> FALSE
  IN w /\ ~headerFile

(* The condition-order warning of gen_cond_goto: given whether it is       *)
(* enabled and whether a header file is generated, does the dispatch warn  *)
(* that it depends on the internal condition numbering?                    *)
CondOrderWarning(warn, ncond, computed, nested, headerFile) ==
  LET w == CASE computed -> warn
             [] nested   -> warn /\ ncond > 1
             [] OTHER    -> FALSE
  IN w /\ ~headerFile

=============================================================================
