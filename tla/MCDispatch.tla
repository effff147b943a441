----------------------------- MODULE MCDispatch -----------------------------
(***************************************************************************)
(* The accept dispatch (emit_accept) for 1 .. MaxAcc accept values, with   *)
(* nested ifs and with a switch, and the start-condition dispatch          *)
(* (gen_cond_goto) for 1 .. MaxCond conditions in each of its forms, run   *)
(* on every value of the variable they dispatch on.  A second kind of      *)
(* behaviour (form = "BITMAP") builds the bitmaps of MCBitmap and runs a  *)
(* bitmap transition (gen_gobm) on every symbol, in the same code, pc and *)
(* target: the dispatches of generated code checked in one model.          *)
(***************************************************************************)
EXTENDS Dispatch, CondDispatch

MaxAcc  == 6
MaxCond == 6

(* emit_accept() of module Codegen, for accept rows going to rule states  *)
(* 1 .. n without tags; every state label is used.                        *)
Acc(nested) == INSTANCE Codegen WITH
  States <- 1..MaxAcc, Kind <- [s \in 1..MaxAcc |-> "RULE"],
  SaveSlot <- [s \in 1..MaxAcc |-> -1], AcceptsOf <- [s \in 1..MaxAcc |-> <<>>],
  RuleOf <- [s \in 1..MaxAcc |-> s],
  Go <- [s \in 1..MaxAcc |-> [kind |-> "EMPTY", tags |-> 0, skip |-> FALSE, swif |-> "SWITCH",
                              cases |-> <<>>, goif |-> <<>>]],
  FillAmount <- [s \in 1..MaxAcc |-> 0], FillLabelOf <- [s \in 1..MaxAcc |-> -1],
  FillState <- [s \in 1..MaxAcc |-> s], Fallback <- [s \in 1..MaxAcc |-> s],
  FallTags <- [s \in 1..MaxAcc |-> 0], Used <- [s \in 1..MaxAcc |-> TRUE],
  LabelIndex <- [s \in 1..MaxAcc |-> s - 1],
  InitialUsed <- FALSE, NAccepts <- MaxAcc, TCID0 <- 0, NOSAVE <- -1, NONE <- -1,
  CodeModel <- "GOTO_LABEL", EagerSkip <- FALSE, FillEnable <- FALSE,
  EofRule <- FALSE, StorableState <- FALSE, FillCheck <- FALSE,
  StateAbort <- FALSE, NestedIfs <- nested

AccRows(n) == [i \in 1..n |-> [state |-> i, tags |-> 0]]

AcceptJobs ==
  UNION {{[code |-> Acc(nested)!EmitAccept(AccRows(n)), val |-> v,
           want |-> StateLabel(v + 1), warned |-> FALSE] : v \in 0..(n - 1)}
         : n \in 1..MaxAcc, nested \in BOOLEAN}

(* The condition dispatch in its three forms; with a switch and cond_abort *)
(* a value past the last condition aborts.                                 *)
Forms == {[computed |-> c, nested |-> n] : c \in BOOLEAN, n \in BOOLEAN}

CondJobs ==
  UNION {{[code |-> GenCondGoto(n, f.computed, f.nested, ab), val |-> v,
           want |-> IF v < n THEN CondLabel(v) ELSE AbortTarget,
           warned |-> CondOrderWarning(TRUE, n, f.computed, f.nested, FALSE)]
          : v \in 0..(IF ~f.computed /\ ~f.nested /\ ab THEN n ELSE n - 1)}
         : n \in 1..MaxCond, f \in Forms, ab \in BOOLEAN}

(* The if-trees of gen_goif (SWITCH_IF goes built as comparisons), run   *)
(* on every symbol 0 .. 3, in the goto/label code of state 1 of Acc.      *)
(* The trees are the inputs of the pass: linear chains of up to two       *)
(* conditional branches and an unconditional one, binary nodes over them, *)
(* and binary nodes with a binary subtree.  Each jump is taken (not       *)
(* elided) to a used label.                                                *)
Cmps == {"==", "<=", ">="}
CmpVals == {1, 2}
Tos == {1, 2}

CondBranch(c, n, to) ==
  [hascond |-> TRUE, cmp |-> c, val |-> n, jump |-> Acc(FALSE)!Jump(to, 0, FALSE, FALSE, FALSE)]
LastBranch(to) ==
  [hascond |-> FALSE, cmp |-> "", val |-> 0, jump |-> Acc(FALSE)!Jump(to, 0, FALSE, FALSE, FALSE)]

CondBranches == {CondBranch(c, n, t) : c \in Cmps, n \in CmpVals, t \in Tos}

Linear(bs, to) == [kind |-> "LINEAR", branches |-> bs \o <<LastBranch(to)>>]
Linear0 == {Linear(<<>>, t) : t \in Tos}
Linear1 == {Linear(<<b>>, t) : b \in CondBranches, t \in Tos}
Linear2 == {Linear(<<b1, b2>>, t) : b1, b2 \in CondBranches, t \in Tos}

Binary(c, n, t, e) == [kind |-> "BINARY", cmp |-> c, val |-> n, gothen |-> t, goelse |-> e]
BinaryOver(T, E) == {Binary(c, n, t, e) : c \in Cmps, n \in CmpVals, t \in T, e \in E}

GoIfTrees ==
  Linear0 \cup Linear1 \cup Linear2
  \cup BinaryOver(Linear0 \cup Linear1, Linear0 \cup Linear1)
  \cup BinaryOver(BinaryOver(Linear0, Linear0), Linear0 \cup BinaryOver(Linear0, Linear0))

(* What a tree means: a binary node goes to the subtree its comparison    *)
(* selects, a linear node to the first branch whose comparison holds.     *)
RECURSIVE GoIfTarget(_, _)
GoIfTarget(go, v) ==
  IF go.kind = "BINARY"
  THEN GoIfTarget(IF Compare(go.cmp, v, go.val) THEN go.gothen ELSE go.goelse, v)
  ELSE LET holds(i) == ~go.branches[i].hascond
                       \/ Compare(go.branches[i].cmp, v, go.branches[i].val)
       IN go.branches[CHOOSE i \in DOMAIN go.branches :
                         holds(i) /\ \A j \in 1..(i - 1) : ~holds(j)].jump.to

GoIfJobs ==
  {[code |-> Acc(FALSE)!GenGoIf(t, 1), val |-> v, want |-> StateLabel(GoIfTarget(t, v)),
    warned |-> FALSE] : t \in GoIfTrees, v \in 0..3}

(* The computed gotos of gen_gocp, in a model with symbols 0 .. 3 and a   *)
(* table for 0 .. 2: without hgo the table covers every symbol, with it   *)
(* the symbols past the table take hgo, a switch on them or an if-tree.   *)
SwCase(cs, to, d) == [chars |-> cs, jump |-> Acc(FALSE)!Jump(to, 0, FALSE, FALSE, FALSE), dflt |-> d]
HighGos ==
  {[swif |-> "SWITCH", cases |-> <<SwCase({3}, t, FALSE), SwCase({}, e, TRUE)>>, goif |-> <<>>]
   : t, e \in Tos}
  \cup {[swif |-> "IF", cases |-> <<>>, goif |-> t] : t \in Linear0 \cup Linear1}
SwIfTarget(go, v) ==
  IF go.swif = "IF" THEN GoIfTarget(go.goif, v)
  ELSE LET hit == {i \in DOMAIN go.cases : ~go.cases[i].dflt /\ v \in go.cases[i].chars}
       IN IF hit # {} THEN go.cases[CHOOSE i \in hit : TRUE].jump.to
          ELSE (CHOOSE c \in Range(go.cases) : c.dflt).jump.to
Gocps ==
  {[table |-> tb, hashgo |-> FALSE, hgo |-> <<>>] : tb \in [1..3 -> Tos]}
  \cup {[table |-> tb, hashgo |-> TRUE, hgo |-> h] : tb \in [1..3 -> Tos], h \in HighGos}
GocpJobs ==
  UNION {{[code |-> Acc(FALSE)!GenGocp(g, IF g.hashgo THEN Acc(FALSE)!GenGoSwIf(g.hgo, 1) ELSE <<>>), val |-> v,
           want |-> StateLabel(IF v < Len(g.table) THEN g.table[v + 1] ELSE SwIfTarget(g.hgo, v)),
           warned |-> FALSE] : v \in 0..(IF g.hashgo THEN 3 ELSE 2)}
         : g \in Gocps}

DispatchJobs == AcceptJobs \cup CondJobs \cup GoIfJobs \cup GocpJobs

VARIABLES form, bms, top, elems, next, bmidx, k, ch

(* Does the dispatch code compare or index with the condition number?     *)
DependsOnNumbering(c) ==
  \E i \in DOMAIN c : c[i].op = "gototable" \/ (c[i].op = "if" /\ c[i].cond.c = "cond")

(* Note [condition order]: with the warning enabled and no condition      *)
(* header, gen_cond_goto warns exactly when the dispatch it generates     *)
(* relies on the internal numbering of the conditions (a computed goto,   *)
(* or nested ifs with more than one condition), and not for a switch on   *)
(* the condition names.                                                    *)
WarnsIffNumbered == form = "DISPATCH" => warned = DependsOnNumbering(code)


BMJobs == INSTANCE MCBitmap WITH Jobs <- {}, HighBound <- 2
BM == INSTANCE MCBitmap WITH Jobs <- BMJobs!BitmapJobs, HighBound <- BMJobs!MCHighBound

bmvars == <<bms, top, elems, next, bmidx, k, ch>>
dvars  == <<val, want, warned>>

(* The variables of the form a behaviour does not run stay fixed.         *)
MCInit ==
  \/ /\ form = "DISPATCH" /\ Init
     /\ bms = <<>> /\ top = 0 /\ elems = <<>> /\ next = 0 /\ bmidx = 0 /\ k = 0 /\ ch = 0
  \/ /\ form = "BITMAP" /\ BM!Init
     /\ val = 0 /\ want = NoTarget /\ warned = FALSE

MCNext ==
  \/ form = "DISPATCH" /\ Next /\ UNCHANGED <<form, bmvars>>
  \/ form = "BITMAP" /\ BM!Next /\ UNCHANGED <<form, dvars>>

MCSpec == MCInit /\ [][MCNext]_<<form, vars, bmvars>> /\ WF_<<form, vars, bmvars>>(MCNext)

(* DispatchCorrect of the dispatch fragments (Dispatch).                  *)
DispatchesCorrect == form = "DISPATCH" => DispatchCorrect

(* The bitmap transition of every state leaves for the state its go sends *)
(* the symbol to (Bitmap!GoBmCorrect).                                     *)
GoBmCorrect == form = "BITMAP" => BM!GoBmCorrect

(* The bitmap test reads yybm only in its group's row (Bitmap).           *)
BitmapReadInRow == form = "BITMAP" => BM!BitmapReadInRow

=============================================================================
