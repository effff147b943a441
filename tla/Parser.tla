------------------------------- MODULE Parser -------------------------------
(***************************************************************************)
(* The front end of src/parser.h: parse() echoes the text of the input    *)
(* file block by block, runs the bison parser (yyparse) on each /*!re2c   *)
(* block, hands the block's specification to genCode and writes a #line   *)
(* directive (line_source) after the header and after every block.  The   *)
(* grammar actions build regular-expression trees bottom-up, number the    *)
(* rules with the static counter accept, collect them in the static       *)
(* spec, and keep named definitions in the static symbol table, which     *)
(* parse() never clears.                                                   *)
(*                                                                         *)
(* A block is the sequence of its top-level items, each already reduced    *)
(* by bison to its parse tree: a rule (expr look CODE) or a definition    *)
(* (ID '=' expr ';').  The scanner, the text of the blocks and the code    *)
(* generator are not modelled: genCode's output is the spec it is given,  *)
(* echoed text is left out, and a CODE token is its position in the file. *)
(***************************************************************************)
EXTENDS Integers, Sequences, SequencesExt

CONSTANTS
  Files,  \* the inputs: [name, iflag, blocks]; name a sequence of
          \* characters or NoFile (stdin), iflag the -i option
  Names,  \* the identifiers of named definitions
  NoFile  \* fileName == NULL

-----------------------------------------------------------------------------
(* Regular expressions, as the grammar actions build them.                *)

NoRe == [op |-> "none"]                   \* a NULL RegExp*
Null == [op |-> "null"]                   \* new NullOp
Match(cs) == [op |-> "match", cs |-> cs]  \* a RANGE: a MatchOp on a char set
Cat(a, b) == [op |-> "cat", l |-> a, r |-> b]
Close(a) == [op |-> "close", e |-> a]     \* CloseOp: one or more
CloseV(a, lo, hi) == [op |-> "closev", e |-> a, min |-> lo, max |-> hi]
RuleOp(e, look, code, acc) ==
  [op |-> "rule", e |-> e, look |-> look, code |-> code, accept |-> acc]

(* mkAlt (re.h): two character sets merge into one, anything else is an  *)
(* alternative node.                                                       *)
MkAlt(a, b) ==
  IF a.op = "match" /\ b.op = "match" THEN Match(a.cs \cup b.cs)
  ELSE [op |-> "alt", l |-> a, r |-> b]

(* mkDiff (re.h): the difference of two character sets, NULL otherwise.   *)
MkDiff(a, b) ==
  IF a.op = "match" /\ b.op = "match"
  THEN IF a.cs \ b.cs = {} THEN Null ELSE Match(a.cs \ b.cs)
  ELSE NoRe

-----------------------------------------------------------------------------
(* The expression actions: expr, diff, term, factor, close, primary.      *)

(* Mutant: a pair of different operators folds to the second one.        *)
CloseFoldLast(ops) == FoldLeft(LAMBDA a, c : IF a = c THEN a ELSE c, ops[1], Tail(ops))

(* close: close CLOSE { $$ = ($1 == $2) ? $1 : '*'; }, left to right.     *)
CloseFold(ops) == FoldLeft(LAMBDA a, c : IF a = c THEN a ELSE "*", ops[1], Tail(ops))

(* factor: primary close.  '*' is mkAlt(new CloseOp($1), new NullOp()),  *)
(* '+' a CloseOp, '?' mkAlt($1, new NullOp()).                            *)
Factor(p, ops) ==
  LET c == CloseFold(ops)
  IN CASE c = "*" -> MkAlt(Close(p), Null)
       [] c = "+" -> Close(p)
       [] c = "?" -> MkAlt(p, Null)

(* The value of a parse tree under the symbol table syms, bottom-up as    *)
(* bison reduces it; fatal for a symbol with no definition ("can't find  *)
(* symbol") and for a difference of non-sets ("can only difference char  *)
(* sets").  Every in->fatal exits, so only whether one happens matters.   *)
RECURSIVE Build(_, _)
Build(t, syms) ==
  CASE t.t = "range" -> [ok |-> TRUE, re |-> Match(t.cs)]
    [] t.t = "id"    -> [ok |-> syms[t.name] # NoRe, re |-> syms[t.name]]
    [] t.t \in {"alt", "diff", "cat"} ->
         LET l == Build(t.l, syms)
             r == Build(t.r, syms)
             v == CASE t.t = "alt"  -> MkAlt(l.re, r.re)
                    [] t.t = "diff" -> MkDiff(l.re, r.re)
                    [] t.t = "cat"  -> Cat(l.re, r.re)
         IN [ok |-> l.ok /\ r.ok /\ v # NoRe, re |-> v]
    [] t.t = "close" ->
         LET p == Build(t.e, syms) IN [ok |-> p.ok, re |-> Factor(p.re, t.ops)]
    [] t.t = "csize" ->
         LET p == Build(t.e, syms) IN [ok |-> p.ok, re |-> CloseV(p.re, t.min, t.max)]

-----------------------------------------------------------------------------
(* line_source(): #line N "file", the file name (or <stdin>) split by     *)
(* strtok on backslashes and the tokens joined by an escaped backslash.   *)

Backslash == "\\"

(* strtok(buf, "\\") ... strtok(NULL, "\\"): the maximal runs of other    *)
(* characters; empty runs are skipped.                                    *)
StrtokTokens(s) ==
  LET step(acc, c) ==
        IF c = Backslash
        THEN [toks |-> IF acc.cur = <<>> THEN acc.toks ELSE Append(acc.toks, acc.cur),
              cur |-> <<>>]
        ELSE [toks |-> acc.toks, cur |-> Append(acc.cur, c)]
      last == FoldLeft(step, [toks |-> <<>>, cur |-> <<>>], s)
  IN IF last.cur = <<>> THEN last.toks ELSE Append(last.toks, last.cur)

(* The text between the quotes: the tokens with "\\\\" between them.      *)
JoinTokens(toks) ==
  toks[1] \o FlattenSeq([i \in 1..(Len(toks) - 1) |-> <<Backslash, Backslash>> \o toks[i + 1]])

DisplayName(f) == IF f.name = NoFile THEN <<"<stdin>">> ELSE f.name

-----------------------------------------------------------------------------
VARIABLES
  file,    \* the input
  status,  \* "start", "echo", "parse", "done", "fatal" or "crash"
  blk,     \* the block being parsed, or the next one
  item,    \* the next item of the block
  accept,  \* static re2c::uint accept
  spec,    \* static RegExp *spec
  syms,    \* Symbol::symbol_table: name to its RegExp, NoRe if undefined
  out,     \* what reached the output stream: header, line and code items
  bad      \* the stream's badbit: nothing more reaches the output

vars == <<file, status, blk, item, accept, spec, syms, out, bad>>

Block == file.blocks[blk]

(* Write items to the stream; a stream in the bad state writes nothing.   *)
Emit(items) == IF bad THEN out ELSE out \o items

Init ==
  /\ file \in Files
  /\ status = "start"
  /\ blk = 1
  /\ item = 1
  /\ accept = 0
  /\ spec = NoRe
  /\ syms = [n \in Names |-> NoRe]
  /\ out = <<>>
  /\ bad = FALSE

(* line_source(line, o) as the step it is part of: nothing under -i; a    *)
(* name without tokens passes strtok's NULL to operator<<, which is        *)
(* undefined: the build either crashes or (libstdc++) sets badbit, after  *)
(* which the rest of the output is lost.  `then` is the status after it.  *)
LineSource(then, before) ==
  LET toks == StrtokTokens(DisplayName(file))
  IN \/ /\ file.iflag
        /\ out' = Emit(before) /\ bad' = bad /\ status' = then
     \/ /\ ~file.iflag /\ toks # <<>>
        /\ out' = Emit(before \o <<[kind |-> "line", text |-> JoinTokens(toks)]>>)
        /\ bad' = bad /\ status' = then
     \/ /\ ~file.iflag /\ toks = <<>>
        /\ \/ /\ out' = Emit(before \o <<[kind |-> "line", text |-> <<>>]>>)
              /\ bad' = TRUE /\ status' = then
           \/ /\ out' = Emit(before) /\ bad' = bad /\ status' = "crash"

(* parse(): the header comment, then line_source for the first line.      *)
Start ==
  /\ status = "start"
  /\ LineSource("echo", <<[kind |-> "header"]>>)
  /\ UNCHANGED <<file, blk, item, accept, spec, syms>>

(* Mutant: the rule counter is not reset for the next block.             *)
EchoNoAcceptReset ==
  /\ status = "echo"
  /\ IF blk <= Len(file.blocks)
     THEN /\ status' = "parse" /\ item' = 1 /\ spec' = NoRe /\ UNCHANGED accept
     ELSE /\ status' = "done" /\ UNCHANGED <<item, accept, spec>>
  /\ UNCHANGED <<file, blk, syms, out, bad>>

(* while (in->echo(o)): a next block starts yyparse, whose first          *)
(* reduction (spec: empty) sets accept = 0 and spec = NULL; after the     *)
(* last block parse() returns.                                             *)
Echo ==
  /\ status = "echo"
  /\ IF blk <= Len(file.blocks)
     THEN /\ status' = "parse" /\ item' = 1 /\ accept' = 0 /\ spec' = NoRe
     ELSE /\ status' = "done" /\ UNCHANGED <<item, accept, spec>>
  /\ UNCHANGED <<file, blk, syms, out, bad>>

(* rule: expr look CODE { $$ = new RuleOp($1, $2, $3, accept++); } and    *)
(* spec: spec rule { spec = spec? mkAlt(spec, $2) : $2; }.                 *)
ParseRule ==
  /\ status = "parse" /\ item <= Len(Block) /\ Block[item].kind = "rule"
  /\ LET it == Block[item]
         e  == Build(it.re, syms)
         lk == IF it.look.t = "none" THEN [ok |-> TRUE, re |-> Null] ELSE Build(it.look, syms)
         r  == RuleOp(e.re, lk.re, <<blk, item>>, accept)
     IN IF e.ok /\ lk.ok
        THEN /\ spec' = IF spec = NoRe THEN r ELSE MkAlt(spec, r)
             /\ accept' = accept + 1 /\ item' = item + 1
             /\ UNCHANGED status
        ELSE /\ status' = "fatal" /\ UNCHANGED <<spec, accept, item>>
  /\ UNCHANGED <<file, blk, syms, out, bad>>

(* decl: ID '=' expr ';' { if($1->re) in->fatal("sym already defined");  *)
(* $1->re = $3; }: the expression is reduced first.                       *)
ParseDecl ==
  /\ status = "parse" /\ item <= Len(Block) /\ Block[item].kind = "decl"
  /\ LET it == Block[item]
         e  == Build(it.re, syms)
     IN IF e.ok /\ syms[it.id] = NoRe
        THEN /\ syms' = [syms EXCEPT ![it.id] = e.re]
             /\ item' = item + 1 /\ UNCHANGED status
        ELSE /\ status' = "fatal" /\ UNCHANGED <<syms, item>>
  /\ UNCHANGED <<file, blk, accept, spec, out, bad>>

(* The block's end: if (spec) genCode(o, topIndent, spec); then           *)
(* line_source(in->line(), o), and back to in->echo.                      *)
EndBlock ==
  /\ status = "parse" /\ item > Len(Block)
  /\ LineSource("echo", IF spec # NoRe THEN <<[kind |-> "code", blk |-> blk, spec |-> spec]>>
                        ELSE <<>>)
  /\ blk' = blk + 1
  /\ UNCHANGED <<file, item, accept, spec, syms>>

(* parse() has returned, or in->fatal exited, or the build crashed.       *)
Stopped == status \in {"done", "fatal", "crash"} /\ UNCHANGED vars

Next == Start \/ Echo \/ ParseRule \/ ParseDecl \/ EndBlock \/ Stopped

Spec == Init /\ [][Next]_vars /\ WF_vars(Next)

-----------------------------------------------------------------------------
(* The RuleOps of a spec, left to right: mkAlt(spec, rule) nests to the  *)
(* left.                                                                   *)
RECURSIVE RuleOps(_)
RuleOps(re) == IF re.op = "rule" THEN <<re>> ELSE RuleOps(re.l) \o RuleOps(re.r)

RulesOf(re) ==
  LET rs == RuleOps(re) IN [i \in DOMAIN rs |-> [code |-> rs[i].code, accept |-> rs[i].accept]]

(* What block b's spec must hold: its rules, in order, numbered from 0.  *)
ExpectedRules(b) ==
  LET ps == SetToSortSeq({i \in DOMAIN file.blocks[b] : file.blocks[b][i].kind = "rule"}, <)
  IN [j \in DOMAIN ps |-> [code |-> <<b, ps[j]>>, accept |-> j - 1]]

CodeItems == SelectSeq(out, LAMBDA o : o.kind = "code")

(* The statics accept and spec outlive yyparse: each block's code holds   *)
(* exactly the rules of that block, numbered from 0 (the yyaccept values *)
(* and rule numbers of genCode), and once parse() has returned with a      *)
(* good stream every block with rules, and no other, has had its code     *)
(* generated, once and in order.                                           *)
SpecOfOwnBlock ==
  /\ \A i \in DOMAIN CodeItems : RulesOf(CodeItems[i].spec) = ExpectedRules(CodeItems[i].blk)
  /\ status = "done" /\ ~bad =>
       [i \in DOMAIN CodeItems |-> CodeItems[i].blk]
         = SetToSortSeq({b \in DOMAIN file.blocks : ExpectedRules(b) # <<>>}, <)

(* The repetition counts (capped at RepCap) of a factor built over a      *)
(* primary p: p itself once, NullOp none, a CloseOp one or more of its     *)
(* operand, an alternative either side.                                    *)
RepCap == 4
RECURSIVE PlusCounts(_, _)
PlusCounts(c, n) ==
  IF n = 0 THEN c
  ELSE PlusCounts((c \cup {a + b : a \in c, b \in c}) \cap 0..RepCap, n - 1)
RECURSIVE Counts(_, _)
Counts(re, p) ==
  CASE re = p        -> {1}
    [] re.op = "null"  -> {0}
    [] re.op = "close" -> PlusCounts(Counts(re.e, p), RepCap)
    [] re.op = "alt"   -> Counts(re.l, p) \cup Counts(re.r, p)

(* What a sequence of postfix operators means applied one after another.  *)
RefCounts(ops) ==
  FoldLeft(LAMBDA c, o : CASE o = "*" -> {0} \cup PlusCounts(c, RepCap)
                           [] o = "+" -> PlusCounts(c, RepCap)
                           [] o = "?" -> c \cup {0},
           {1}, ops)

(* The close rule folds a run of postfix operators into one ("a+?" into  *)
(* '*', "a**" into '*', "a++" into '+'); in the code generated for a      *)
(* block, the regular expression of every rule written as a range with    *)
(* postfix operators matches the repetitions of the operators applied one *)
(* by one.                                                                 *)
CloseFoldSound ==
  \A i \in DOMAIN CodeItems :
    \A r \in Range(RuleOps(CodeItems[i].spec)) :
      LET t == file.blocks[r.code[1]][r.code[2]].re
      IN t.t = "close" /\ t.e.t = "range" =>
           Counts(r.e, Match(t.e.cs)) = RefCounts(t.ops)

(* The C string literal of a #line directive read back: "\\" is one     *)
(* backslash.                                                               *)
RECURSIVE Unescape(_)
Unescape(t) ==
  IF t = <<>> THEN <<>>
  ELSE IF Head(t) = Backslash /\ Len(t) >= 2 /\ t[2] = Backslash
       THEN <<Backslash>> \o Unescape(Tail(Tail(t)))
       ELSE <<Head(t)>> \o Unescape(Tail(t))

(* Every #line directive line_source writes names the input file (or     *)
(* <stdin>): the file name in the quotes, its backslashes escaped, is the *)
(* name the compiler reports for the lines that follow.                   *)
LineDirectiveNamesFile ==
  \A i \in DOMAIN out : out[i].kind = "line" => Unescape(out[i].text) = DisplayName(file)

=============================================================================
