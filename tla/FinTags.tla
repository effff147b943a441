------------------------------ MODULE FinTags ------------------------------
(***************************************************************************)
(* gen_fintags: the code before a rule action that sets the final tags of *)
(* the rule (named tags, the yypmatch elements of captures, yynmatch) from *)
(* the tag versions the DFA left, and moves YYCURSOR back to the trailing *)
(* context.  A rule is [tags, fins, ncap]: its tags (the range ltag ..    *)
(* htag - 1 of dfa.tags, renumbered from 1), the final version of each    *)
(* (dfa.finvers), and its number of captures.  A tag is a record with the *)
(* fields of struct Tag that gen_fintags reads; base is a tag index or    *)
(* Rightmost (Tag::RIGHTMOST).  Tags with history are not modelled here.  *)
(***************************************************************************)
EXTENDS TagCode

Rightmost == 0
NoNeg     == <<"none">>

FinVar(r, t) == Var(r.fins[t], FALSE)

(* expand_fintags(): no final tag for trailing context, the named        *)
(* variable of a named tag, the yypmatch elements lsub, lsub + 2, ...,    *)
(* hsub of a capture tag.                                                  *)
ExpandFintags(tag) ==
  CASE tag.trailing -> <<>>
    [] ~tag.capture -> <<<<"fin", tag.name>>>>
    [] OTHER        -> [k \in 1..((tag.hsub - tag.lsub) \div 2 + 1) |->
                          <<"yypmatch", tag.lsub + 2 * (k - 1)>>]

(* gen_shift(): nothing for a zero shift.                                  *)
GenShift(v, n) == IF n = 0 THEN <<>> ELSE <<Shift(v, n)>>

(* gen_assign_many_to_first(): the other final tags get the first one.     *)
AssignManyToFirst(fts) ==
  IF Len(fts) <= 1 THEN <<>> ELSE <<Assign(Tail(fts), fts[1])>>

(* A variable tag: trailing context restores the cursor from the tag (or  *)
(* from YYCTXMARKER with the old-style context marker), any other tag is  *)
(* assigned to all its final tags.                                         *)
VarTagOps(acc, r, t, fts, generic, oldstyle) ==
  LET expr == FinVar(r, t)
      src  == IF oldstyle THEN CtxMarker ELSE expr
  IN IF r.tags[t].trailing
     THEN [acc EXCEPT !.trail = @ \o (IF generic THEN <<RestoreCtx(src)>>
                                      ELSE <<Assign(<<CursorExpr>>, src)>>)]
     ELSE [acc EXCEPT !.var = @ \o <<Assign(fts, expr)>>]

(* A fixed trailing tag moves the cursor to its base minus dist.           *)
FixedTrailOps(base, onCursor, dist, generic) ==
  IF generic
  THEN (IF ~onCursor THEN <<RestoreCtx(base)>> ELSE <<>>) \o GenShift(CursorExpr, -dist)
  ELSE IF ~onCursor
       THEN <<Assign(<<CursorExpr>>, IF dist > 0 THEN Minus(base, dist) ELSE base)>>
       ELSE <<Shift(CursorExpr, -dist)>>

(* Mutant: the C-API inner fixed tag shifted without its NULL check.      *)
FixedOpsUnguarded(acc, tag, fts, base, onCursor, dist, generic) ==
  LET first == fts[1]
  IN CASE generic /\ onCursor ->
            [acc EXCEPT !.fix = @ \o <<SetTag(first, FALSE, FALSE)>>
                                  \o GenShift(first, -dist) \o AssignManyToFirst(fts)]
       [] generic /\ dist = 0 -> [acc EXCEPT !.fix = @ \o <<Assign(fts, base)>>]
       [] generic /\ tag.toplevel ->
            [acc EXCEPT !.fix = @ \o <<Assign(<<first>>, base)>>
                                  \o GenShift(first, -dist) \o AssignManyToFirst(fts)]
       [] generic ->
            LET neg == IF acc.neg = NoNeg THEN base ELSE acc.neg
            IN [acc EXCEPT !.neg = neg,
                           !.fix = @ \o <<Assign(<<first>>, base)>>,
                           !.post = @ \o IfNe(first, neg, GenShift(first, -dist))]
       [] dist = 0 -> [acc EXCEPT !.fix = @ \o <<Assign(fts, base)>>]
       [] tag.toplevel -> [acc EXCEPT !.fix = @ \o <<Assign(fts, Minus(base, dist))>>]
       [] OTHER ->
            [acc EXCEPT !.fix = @ \o <<Assign(<<first>>, base), Shift(first, -dist)>>
                                  \o AssignManyToFirst(fts)]

(* A fixed tag that is not trailing context: base minus dist, or NULL     *)
(* when an inner (not toplevel) tag's base is NULL.  With the generic API *)
(* there is no NULL literal: the shift of an inner tag is postponed after *)
(* a fence that sets one base tag (negtag) to the no-match value.         *)
FixedOps(acc, tag, fts, base, onCursor, dist, generic) ==
  LET first == fts[1]
  IN CASE generic /\ onCursor ->
            [acc EXCEPT !.fix = @ \o <<SetTag(first, FALSE, FALSE)>>
                                  \o GenShift(first, -dist) \o AssignManyToFirst(fts)]
       [] generic /\ dist = 0 -> [acc EXCEPT !.fix = @ \o <<Assign(fts, base)>>]
       [] generic /\ tag.toplevel ->
            [acc EXCEPT !.fix = @ \o <<Assign(<<first>>, base)>>
                                  \o GenShift(first, -dist) \o AssignManyToFirst(fts)]
       [] generic ->
            LET neg == IF acc.neg = NoNeg THEN base ELSE acc.neg
            IN [acc EXCEPT !.neg = neg,
                           !.fix = @ \o <<Assign(<<first>>, base)>>,
                           !.post = @ \o IfNe(first, neg, GenShift(first, -dist))]
       [] dist = 0 -> [acc EXCEPT !.fix = @ \o <<Assign(fts, base)>>]
       [] tag.toplevel -> [acc EXCEPT !.fix = @ \o <<Assign(fts, Minus(base, dist))>>]
       [] OTHER ->
            [acc EXCEPT !.fix = @ \o <<Assign(<<first>>, base)>>
                                  \o IfNe(base, NullExpr, <<Shift(first, -dist)>>)
                                  \o AssignManyToFirst(fts)]

(* One iteration of the loop over the tags of the rule.                    *)
FintagStep(acc, r, t, generic, oldstyle) ==
  LET tag      == r.tags[t]
      fts      == ExpandFintags(tag)
      onCursor == tag.base = Rightmost
      base     == IF onCursor THEN CursorExpr ELSE FinVar(r, tag.base)
  IN CASE tag.fictive  -> acc
       [] ~tag.fixed   -> VarTagOps(acc, r, t, fts, generic, oldstyle)
       [] tag.trailing -> [acc EXCEPT !.trail = @ \o FixedTrailOps(base, onCursor, tag.dist, generic)]
       [] OTHER        -> FixedOps(acc, tag, fts, base, onCursor, tag.dist, generic)

FinAcc(r, generic, oldstyle) ==
  FoldLeft(LAMBDA a, t : FintagStep(a, r, t, generic, oldstyle),
           [var |-> <<>>, fix |-> <<>>, trail |-> <<>>, post |-> <<>>, neg |-> NoNeg],
           [i \in 1..Len(r.tags) |-> i])

NMatch(r) == IF r.ncap > 0 THEN <<Assign(<<<<"yynmatch">>>>, Lit(r.ncap))>> ELSE <<>>

(* Mutant: the trailing context restored before the fixed tags.          *)
GenFintagsTrailFirst(r, generic, oldstyle) ==
  LET acc == FinAcc(r, generic, oldstyle)
  IN NMatch(r) \o acc.var \o acc.trail \o acc.fix
     \o (IF acc.neg # NoNeg THEN <<SetTag(acc.neg, TRUE, FALSE)>> \o acc.post ELSE <<>>)

(* gen_fintags(): yynmatch, then the variable tags, the fixed tags and    *)
(* the trailing context; with the generic API and a negtag, the fence    *)
(* and the postponed shifts last.                                         *)
GenFintags(r, generic, oldstyle) ==
  LET acc == FinAcc(r, generic, oldstyle)
  IN NMatch(r) \o acc.var \o acc.fix \o acc.trail
     \o (IF acc.neg # NoNeg THEN <<SetTag(acc.neg, TRUE, FALSE)>> \o acc.post ELSE <<>>)
-----------------------------------------------------------------------------
(* What the final tags mean: a variable tag is its final version (the    *)
(* context marker for old-style trailing context); a fixed tag is its    *)
(* base (a tag, or the cursor on entry) minus dist, and NULL when its    *)
(* base is NULL.  Every final tag of a tag gets its value, YYCURSOR ends *)
(* at the trailing context, yynmatch is the number of captures.          *)
TagVal(r, s0, t, oldstyle) ==
  LET tag == r.tags[t]
      b   == IF tag.base = Rightmost THEN s0[CursorExpr] ELSE s0[FinVar(r, tag.base)]
  IN CASE ~tag.fixed /\ tag.trailing /\ oldstyle -> s0[CtxMarker]
       [] ~tag.fixed -> s0[FinVar(r, t)]
       [] b = Null   -> Null
       [] OTHER      -> b - tag.dist

Live(r) == {t \in 1..Len(r.tags) : ~r.tags[t].fictive}

Want(r, s0, oldstyle) ==
  LET fin   == UNION {{<<t, f>> : f \in Range(ExpandFintags(r.tags[t]))}
                      : t \in {u \in Live(r) : ~r.tags[u].trailing}}
      trail == {t \in Live(r) : r.tags[t].trailing}
  IN [x \in {ft[2] : ft \in fin} |-> TagVal(r, s0, (CHOOSE ft \in fin : ft[2] = x)[1], oldstyle)]
     @@ (CursorExpr :> IF trail = {} THEN s0[CursorExpr]
                       ELSE TagVal(r, s0, CHOOSE t \in trail : TRUE, oldstyle))
     @@ (<<"yynmatch">> :> IF r.ncap > 0 THEN r.ncap ELSE s0[<<"yynmatch">>])

-----------------------------------------------------------------------------
CONSTANT
  Jobs     \* a set of [rule, generic, oldstyle, store]: a rule, the API
           \* style, dfa.oldstyle_ctxmarker and the variables on entry

VARIABLES
  code,    \* the code gen_fintags emits for the rule
  store,   \* tag versions, final tags, YYCTXMARKER, YYCURSOR, yynmatch
  pc,      \* the next statement
  want     \* what the final tags, YYCURSOR and yynmatch must end as

vars == <<code, store, pc, want>>

Init ==
  /\ \E j \in Jobs :
       /\ code = GenFintags(j.rule, j.generic, j.oldstyle)
       /\ store = j.store
       /\ want = Want(j.rule, j.store, j.oldstyle)
  /\ pc = 1

(* One statement of the final-tag code.                                    *)
Step ==
  /\ pc <= Len(code)
  /\ store' = Exec(store, code[pc])
  /\ pc' = NextPc(store, code, pc)
  /\ UNCHANGED <<code, want>>

(* The rule action follows; the configurations do not check deadlock.    *)
Next == Step

Spec == Init /\ [][Next]_vars /\ WF_vars(Next)

(* When the code before the rule action has run, every final tag, the     *)
(* cursor and yynmatch hold what the rule's tags mean: variable tags are *)
(* read before the trailing context moves the cursor, fixed tags on the  *)
(* cursor read it before it moves, a NULL base gives a NULL fixed tag,   *)
(* and every yypmatch element of a capture is set.                       *)
FinTagsCorrect ==
  pc > Len(code) => \A x \in DOMAIN want : store[x] = want[x]

(* No shift (YYSHIFTSTAG, "-= dist") is ever applied to a NULL tag value: *)
(* the guard of an inner fixed tag, or the negtag fence of the generic   *)
(* API, stops it.  In C this would be arithmetic on a NULL pointer.       *)
NoShiftOfNull ==
  pc \in DOMAIN code /\ code[pc].op = "shift" => store[code[pc].v] # Null

=============================================================================
