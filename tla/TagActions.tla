----------------------------- MODULE TagActions -----------------------------
(***************************************************************************)
(* gen_settags: the code that pass 2 emits for a tag-command list (tcmd_t) *)
(* on a transition, executed on the tag variables of the lexer.  Each     *)
(* transition of a run executes the commands of one list at the current   *)
(* cursor; the reference applies the same commands one after another by  *)
(* their meaning, and the two stores must agree after every transition.   *)
(*                                                                         *)
(* A command is [lhs, rhs, hist]: rhs = TAGVER_ZERO (0) for a save, and   *)
(* hist is the history array without its TAGVER_ZERO terminator, latest  *)
(* element first, each element Bottom (no match) or Cursor.  The lists   *)
(* are the ones determinization builds: s-tags are saved without history *)
(* (set), m-tags with history (add), a copy stays within s-tags or within *)
(* m-tags, and no version is the lhs of two commands of a list.          *)
(***************************************************************************)
EXTENDS TagCode, FiniteSets

CONSTANTS
  STags,             \* tag versions of s-tags
  MTags,             \* tag versions of m-tags (dfa.mtagvers)
  Generic,           \* opts->api == Api::CUSTOM (YYSTAGP etc. instead of C)
  OldStyleCtxMarker, \* dfa.oldstyle_ctxmarker: one trailing context tag
  CmdLists,          \* the command lists a transition may carry
  MaxCursor          \* bound on the cursor, i.e. on the transitions of a run

TAGVER_ZERO == 0
Bottom == "bottom"   \* TAGVER_BOTTOM
Cursor == "cursor"   \* TAGVER_CURSOR

IsCopy(c) == c.rhs # TAGVER_ZERO /\ c.hist = <<>>
IsAdd(c)  == c.rhs # TAGVER_ZERO /\ c.hist # <<>>
IsSet(c)  == c.rhs = TAGVER_ZERO

IsMtag(ver) == ver \in MTags

(* The number of consecutive set commands from position i.               *)
SetRun(cmds, i) ==
  Cardinality({k \in i..Len(cmds) : \A j \in i..k : IsSet(cmds[j])})

(* Mutant: the history iterated forward, latest element first.           *)
AddSettersForward(le, hist) ==
  [k \in 1..Len(hist) |-> SetTag(le, hist[k] = Bottom, TRUE)]

(* The setters of an add command: its history from the oldest element.  *)
AddSetters(le, hist) ==
  [k \in 1..Len(hist) |-> SetTag(le, Reverse(hist)[k] = Bottom, TRUE)]

(* The two vector assignments of a run of set commands with the C API:  *)
(* the negative ones to NULL, then the positive ones to the cursor.  All *)
(* variables take the m-tag prefix of the first command of the run.     *)
RunAssigns(run, mt) ==
  LET neg == SelectSeq(run, LAMBDA q : q.hist[1] = Bottom)
      pos == SelectSeq(run, LAMBDA q : q.hist[1] # Bottom)
      vs(s) == [k \in DOMAIN s |-> Var(s[k].lhs, mt)]
  IN (IF neg # <<>> THEN <<Assign(vs(neg), NullExpr)>> ELSE <<>>)
     \o (IF pos # <<>> THEN <<Assign(vs(pos), CursorExpr)>> ELSE <<>>)

(* The loop of gen_settags over the commands from position i.            *)
RECURSIVE GenCmds(_, _)

GenCmds(cmds, i) ==
  IF i > Len(cmds) THEN <<>>
  ELSE
    LET p  == cmds[i]
        mt == IsMtag(p.lhs)
        le == Var(p.lhs, mt)
        re == Var(p.rhs, mt)
    IN CASE IsCopy(p) -> <<Assign(<<le>>, re)>> \o GenCmds(cmds, i + 1)
         [] IsAdd(p)  -> (IF p.lhs # p.rhs THEN <<Assign(<<le>>, re)>> ELSE <<>>)
                         \o AddSetters(le, p.hist) \o GenCmds(cmds, i + 1)
         [] Generic   -> <<SetTag(le, p.hist[1] = Bottom, FALSE)>> \o GenCmds(cmds, i + 1)
         [] OTHER     -> LET n == SetRun(cmds, i)
                         IN RunAssigns(SubSeq(cmds, i, i + n - 1), mt)
                            \o GenCmds(cmds, i + n)

(* gen_settags(): with the old-style context marker any command list     *)
(* saves the cursor in YYCTXMARKER.                                       *)
GenSettags(cmds) ==
  IF cmds # <<>> /\ OldStyleCtxMarker
  THEN IF Generic THEN <<BackupCtx>> ELSE <<Assign(<<CtxMarker>>, CursorExpr)>>
  ELSE GenCmds(cmds, 1)
-----------------------------------------------------------------------------
(* The meaning of a command, applied to the tag versions in list order:  *)
(* a copy copies, a set saves the cursor or no-match, an add appends its *)
(* history, oldest first, to the history of its rhs.                     *)
HistVal(h, cur) == IF h = Bottom THEN Null ELSE cur

ApplyCmd(store, c) ==
  LET cur == store[CursorExpr]
      l == Var(c.lhs, IsMtag(c.lhs))
      r == Var(c.rhs, IsMtag(c.lhs))
  IN CASE IsCopy(c) -> [store EXCEPT ![l] = store[r]]
       [] IsSet(c)  -> [store EXCEPT ![l] = HistVal(c.hist[1], cur)]
       [] IsAdd(c)  -> [store EXCEPT ![l] =
                          store[r] \o [k \in 1..Len(c.hist) |->
                                         HistVal(Reverse(c.hist)[k], cur)]]

(* With the old-style context marker the list stands for the one         *)
(* trailing context tag, saved at the cursor.                             *)
ApplyCmds(store, cmds) ==
  IF OldStyleCtxMarker
  THEN IF cmds # <<>> THEN [store EXCEPT ![CtxMarker] = store[CursorExpr]] ELSE store
  ELSE FoldLeft(LAMBDA s, c : ApplyCmd(s, c), store, cmds)

-----------------------------------------------------------------------------
TagVars == {Var(v, FALSE) : v \in STags} \cup {Var(v, TRUE) : v \in MTags}
           \cup {CtxMarker, CursorExpr}

VARIABLES
  tags,    \* the tag variables and YYCURSOR as the generated code leaves them
  ref      \* the tag versions and YYCURSOR as the commands define them

vars == <<tags, ref>>

Init ==
  /\ tags = [x \in TagVars |-> CASE x[1] = "m" -> <<>>
                                  [] x = CursorExpr -> 0
                                  [] OTHER -> Null]
  /\ ref = tags

YYSKIP(store) == [store EXCEPT ![CursorExpr] = @ + 1]

(* A transition: the code gen_settags emits for its command list runs at *)
(* the cursor, then YYSKIP.                                               *)
Transition ==
  /\ tags[CursorExpr] < MaxCursor
  /\ \E cmds \in CmdLists :
       /\ tags' = YYSKIP(RunCode(tags, GenSettags(cmds)))
       /\ ref' = YYSKIP(ApplyCmds(ref, cmds))

Next == Transition

Spec == Init /\ [][Next]_vars

(* After any sequence of transitions the tag variables hold what the     *)
(* commands mean: no run of saves is regrouped across a copy that reads  *)
(* one of them, histories are appended oldest first, and a save-with-    *)
(* history starts from the history of its rhs.                            *)
TagsAgree == tags = ref

=============================================================================
