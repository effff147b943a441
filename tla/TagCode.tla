------------------------------ MODULE TagCode ------------------------------
(***************************************************************************)
(* The statements of the tag code that pass 2 emits (tag actions on        *)
(* transitions, final tags before a rule action) and how they execute on a *)
(* store of variables: tag variables, final-tag variables, YYCTXMARKER and *)
(* YYCURSOR.  An s-tag holds a position or NULL, an m-tag the sequence of *)
(* values its history recorded.                                            *)
(***************************************************************************)
EXTENDS Integers, Sequences, SequencesExt

Null == -1           \* NULL: the value of a tag that did not match (positions are >= 0)

(* Variables and the other expressions: YYCURSOR, NULL, e - d, a number.  *)
CursorExpr == <<"YYCURSOR">>
NullExpr   == <<"NULL">>
CtxMarker  == <<"ctx">>
Minus(e, d) == <<"minus", e, d>>
Lit(n)      == <<"lit", n>>

(* vartag_name()/vartag_expr(): the variable of a tag version; m-tags     *)
(* have their own "m" prefix so that they never overlap with s-tags.      *)
Var(ver, isMtag) == <<IF isMtag THEN "m" ELSE "s", ver>>

(* code_assign of a list of variables (gen_assign, gen_assign_many);      *)
(* YYSTAGP/N, YYMTAGP/N (gen_settag); YYBACKUPCTX; YYRESTORETAG(v) and    *)
(* YYRESTORECTX (gen_restore_ctx, v = CtxMarker); YYSHIFT(n) and           *)
(* YYSHIFTSTAG(v, n) (gen_shift, v = CursorExpr for YYSHIFT), also used   *)
(* for "v -= n"; and "if (a != b) { ... }" over the next off - 1          *)
(* statements.                                                             *)
Assign(lhss, rhs)    == [op |-> "assign", lhss |-> lhss, rhs |-> rhs]
SetTag(v, neg, hist) == [op |-> "settag", v |-> v, neg |-> neg, hist |-> hist]
BackupCtx            == [op |-> "backupctx"]
RestoreCtx(v)        == [op |-> "restore", v |-> v]
Shift(v, n)          == [op |-> "shift", v |-> v, n |-> n]
IfNe(a, b, then)     == <<[op |-> "ifne", a |-> a, b |-> b, off |-> Len(then) + 1]>> \o then

RECURSIVE Value(_, _)
Value(store, e) ==
  CASE e = NullExpr  -> Null
    [] e[1] = "minus" -> Value(store, e[2]) - e[3]
    [] e[1] = "lit"   -> e[2]
    [] OTHER          -> store[e]

(* One statement that does not branch.                                     *)
ExecStmt(store, st) ==
  LET cur == store[CursorExpr]
  IN CASE st.op = "assign" ->
            LET v == Value(store, st.rhs)
            IN [x \in DOMAIN store |-> IF x \in Range(st.lhss) THEN v ELSE store[x]]
       [] st.op = "settag" ->
            LET v == IF st.neg THEN Null ELSE cur
            IN [store EXCEPT ![st.v] = IF st.hist THEN Append(@, v) ELSE v]
       [] st.op = "backupctx" -> [store EXCEPT ![CtxMarker] = cur]
       [] st.op = "restore"   -> [store EXCEPT ![CursorExpr] = store[st.v]]
       [] st.op = "shift"     -> [store EXCEPT ![st.v] = @ + st.n]

(* The position of the statement after the one at pc.                     *)
NextPc(store, code, pc) ==
  IF code[pc].op = "ifne" /\ store[code[pc].a] = Value(store, code[pc].b)
  THEN pc + code[pc].off
  ELSE pc + 1

Exec(store, st) == IF st.op = "ifne" THEN store ELSE ExecStmt(store, st)

(* Straight-line tag code run from pc to its end.                          *)
RECURSIVE RunFrom(_, _, _)
RunFrom(store, code, pc) ==
  IF pc > Len(code) THEN store
  ELSE RunFrom(Exec(store, code[pc]), code, NextPc(store, code, pc))

RunCode(store, code) == RunFrom(store, code, 1)

=============================================================================
