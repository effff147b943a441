------------------------------ MODULE Tokenizer ------------------------------
(***************************************************************************)
(* What a lexer generated by re2c promises: it splits its whole input into *)
(* tokens by longest match, a tie going to the rule that comes first, and  *)
(* ends with the end-of-input rule $ at the end of the input.  This does   *)
(* not depend on how the input arrives (in one buffer or in chunks brought *)
(* by YYFILL): the abstract lexer sees the whole input at once and emits   *)
(* one token per step.                                                     *)
(***************************************************************************)
EXTENDS Integers, Sequences

CONSTANTS
  Inputs,    \* the inputs the lexer may be run on (sequences of symbols)
  Rules,     \* the rules in priority order: Seq([name, lang]); lang is a
             \* finite set of strings, the last rule is the default rule *
  EofName    \* the name of the end-of-input rule $

VARIABLES
  input,     \* the whole input of this run
  out        \* the tokens emitted so far: Seq([rule, start, end])

vars == <<input, out>>

(* The rules that match the input from position pos (0-based) over len     *)
(* symbols.                                                                *)
Matching(in, pos, len) ==
  {i \in 1..Len(Rules) : SubSeq(in, pos + 1, pos + len) \in Rules[i].lang}

(* The longest match at pos; a tie goes to the first rule.                 *)
LongestLen(in, pos) ==
  CHOOSE len \in 1..(Len(in) - pos) :
    /\ Matching(in, pos, len) # {}
    /\ \A l \in (len + 1)..(Len(in) - pos) : Matching(in, pos, l) = {}

FirstRule(S) == CHOOSE i \in S : \A j \in S : i <= j

(* The token that starts at pos: the longest match, or $ at the end.      *)
NextToken(in, pos) ==
  IF pos >= Len(in)
  THEN [rule |-> EofName, start |-> pos, end |-> pos]
  ELSE LET len == LongestLen(in, pos)
       IN [rule |-> Rules[FirstRule(Matching(in, pos, len))].name,
           start |-> pos, end |-> pos + len]

(* Where the next token starts, and whether $ has been emitted.            *)
Pos == IF out = <<>> THEN 0 ELSE out[Len(out)].end

Ended == out # <<>> /\ out[Len(out)].rule = EofName

Init ==
  /\ input \in Inputs
  /\ out = <<>>

(* Emit the next token.                                                    *)
EmitToken ==
  /\ ~Ended
  /\ out' = Append(out, NextToken(input, Pos))
  /\ UNCHANGED input

Spec == Init /\ [][EmitToken]_vars /\ WF_vars(EmitToken)

=============================================================================
