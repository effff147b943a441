------------------------------- MODULE Bitmap -------------------------------
(***************************************************************************)
(* Bitmap transitions: gen_bitmap builds the table yybm in which up to 8   *)
(* states (CodeBmState: a go and a destination state) share one row of     *)
(* nchars elements, one bit each, and stores in every state the offset of *)
(* its row and its mask; gen_gobm then emits for a go the test             *)
(* yybm[offset + yych] & mask, guarded by the high-byte branch hgo when    *)
(* the go has spans above the bitmap, followed by the sub-dispatch lgo.    *)
(*                                                                         *)
(* A run generates the table one group of 8 states per step (the outer    *)
(* loop of gen_bitmap), then generates the transition of one bitmap state  *)
(* and runs it on one symbol, until control leaves it.  HighBound stands  *)
(* for 0x100, the bound of the high-byte guard yych & ~0xFF.               *)
(***************************************************************************)
EXTENDS Integers, Sequences, SequencesExt, FiniteSetsExt, Bitwise, CodeTree

CONSTANTS
  Jobs,       \* a set of [bms, top]: the bitmap states in list order, each
              \* [go, state] with go a seq of spans [ub, to]; symbols are 0..top-1
  HighBound   \* 0x100

WIDTH == 8

NoTarget  == <<"none">>
FallTarget == <<"fallthrough">>

(* The symbols of span i of a go: from the upper bound of the span before *)
(* it, or lb, to its own upper bound.                                      *)
SpanLo(go, i, lb) == IF i = 1 THEN lb ELSE go[i - 1].ub
SpanChars(go, i, lb) == SpanLo(go, i, lb) .. (go[i].ub - 1)

(* Where a go sends a symbol: the span whose range holds it.               *)
GoTarget(go, c) == StateLabel(go[CHOOSE i \in DOMAIN go : c \in SpanChars(go, i, 0)].to)

(* Mutant: the span loop advances c only past spans to the state, so a     *)
(* span to the state after one to another state starts too early.         *)
StateBitsNoAdvance(go, state, nchars) ==
  LET lo(i) == IF \E j \in 1..(i - 1) : go[j].to = state
               THEN Min({go[Max({j \in 1..(i - 1) : go[j].to = state})].ub, nchars})
               ELSE 0
  IN UNION {lo(i) .. (Min({go[i].ub, nchars}) - 1) : i \in {j \in DOMAIN go : go[j].to = state}}

(* The symbols whose bit the span loop of gen_bitmap sets for a state:    *)
(* those of its spans to the state, cut at nchars.                         *)
StateBits(go, state, nchars) ==
  UNION {SpanLo(go, i, 0) .. (Min({go[i].ub, nchars}) - 1) :
           i \in {j \in DOMAIN go : go[j].to = state}}

(* The states of a group: from the first, while the mask 0x80 >> k is not  *)
(* zero and states remain.                                                 *)
Group(first, nmaps) == first .. Min({first + WIDTH - 1, nmaps})

MaskOf(first, i) == 128 \div 2^(i - first)

(* The bitmap of a job: nchars is the number of symbols below HighBound.  *)
NChars(top) == Min({top, HighBound})

NElems(nchars, nmaps) == nchars * ((nmaps + WIDTH - 1) \div WIDTH)

-----------------------------------------------------------------------------
(* The transition of a bitmap state (gen_gobm), with the sub-dispatches    *)
(* of its go.                                                              *)

HighCond  == [c |-> "high"]                         \* yych & ~0xFF
BmCond(b) == [c |-> "bm", off |-> b.offset, mask |-> b.mask]

(* unmap(): the spans of the go without those to the bitmap state, a span *)
(* merged into the one before it when both go to the same state.          *)
Unmap(go, state) ==
  FoldLeft(LAMBDA acc, s :
             CASE s.to = state -> acc
               [] acc # <<>> /\ Last(acc).to = s.to -> [acc EXCEPT ![Len(acc)].ub = s.ub]
               [] OTHER -> Append(acc, s),
           <<>>, go)

(* The spans of a go above HighBound, the dispatch of hgo.                 *)
HighSpans(go) == SelectSeq(go, LAMBDA s : s.ub > HighBound)

(* gen_gosw() on the switch built from spans: a case per span, the last   *)
(* one the default.                                                        *)
SpanSwitch(spans, lb) ==
  Switch("yych",
         [i \in 1..(Len(spans) - 1) |->
            [vals |-> SpanChars(spans, i, lb), body |-> <<Goto(StateLabel(spans[i].to))>>]],
         <<Goto(StateLabel(Last(spans).to))>>)

(* Mutant: the bitmap test is emitted without the high-byte branch.        *)
GenGoBmNoHigh(b) ==
  LET lgo == Unmap(b.go, b.state)
  IN IfThenElse(BmCond(b), <<Goto(StateLabel(b.state))>>, <<>>)
     \o (IF lgo # <<>> THEN SpanSwitch(lgo, 0) ELSE <<>>)

(* gen_gobm(): if (yych & ~0xFF) hgo else if (yybm[..] & mask) goto the   *)
(* state, then lgo.                                                        *)
GenGoBm(b) ==
  LET hgo == HighSpans(b.go)
      lgo == Unmap(b.go, b.state)
      bm  == IfThenElse(BmCond(b), <<Goto(StateLabel(b.state))>>, <<>>)
  IN (IF hgo # <<>> THEN IfThenElse(HighCond, SpanSwitch(hgo, HighBound), bm) ELSE bm)
     \o (IF lgo # <<>> THEN SpanSwitch(lgo, 0) ELSE <<>>)

-----------------------------------------------------------------------------
VARIABLES
  bms,     \* the bitmap states, each [go, state, offset, mask]
  top,     \* the number of symbols
  elems,   \* yybm: index 0 .. nelems - 1 to element
  next,    \* the index of the state the outer loop starts a group with
  bmidx,   \* the group number
  k,       \* the state whose transition runs, 0 before it is generated
  ch,      \* yych
  code,    \* the transition
  pc,      \* its next instruction
  target   \* where control went, NoTarget while it runs

vars == <<bms, top, elems, next, bmidx, k, ch, code, pc, target>>

nchars == NChars(top)

Init ==
  /\ \E j \in Jobs :
       /\ bms = [i \in DOMAIN j.bms |-> [go |-> j.bms[i].go, state |-> j.bms[i].state,
                                          offset |-> 0, mask |-> 0]]
       /\ top = j.top
       /\ elems = [i \in 0..(NElems(NChars(j.top), Len(j.bms)) - 1) |-> 0]
  /\ next = 1
  /\ bmidx = 0
  /\ k = 0
  /\ ch = 0
  /\ code = <<>>
  /\ pc = 1
  /\ target = NoTarget

(* One iteration of the outer loop of gen_bitmap: the states of the group *)
(* get the offset of the group's row and their masks, and the row becomes *)
(* the bitwise or of their bits.                                           *)
GenBitmapGroup ==
  /\ next <= Len(bms)
  /\ LET offset == bmidx * nchars
         grp    == Group(next, Len(bms))
         row(c) == FoldSet(LAMBDA x, y : x | y, 0,
                     {MaskOf(next, i) : i \in {j \in grp :
                        c \in StateBits(bms[j].go, bms[j].state, nchars)}})
     IN /\ bms' = [i \in DOMAIN bms |->
                     IF i \in grp THEN [bms[i] EXCEPT !.offset = offset,
                                                      !.mask = MaskOf(next, i)]
                                  ELSE bms[i]]
        /\ elems' = [i \in DOMAIN elems |->
                       IF bmidx * nchars <= i /\ i < (bmidx + 1) * nchars
                       THEN row(i - bmidx * nchars) ELSE elems[i]]
        /\ next' = Max(grp) + 1
  /\ bmidx' = bmidx + 1
  /\ UNCHANGED <<top, k, ch, code, pc, target>>

(* The DFA code is generated after the table: the transition of a bitmap  *)
(* state reads the offset and mask gen_bitmap stored in it.                *)
GenTransition ==
  /\ next > Len(bms) /\ k = 0
  /\ \E i \in DOMAIN bms, c \in 0..(top - 1) :
       /\ k' = i
       /\ ch' = c
       /\ code' = GenGoBm(bms[i])
  /\ UNCHANGED <<bms, top, elems, next, bmidx, pc, target>>

Holds(cond) ==
  CASE cond.c = "high" -> ch >= HighBound
    [] cond.c = "bm"   -> (elems[cond.off + ch] & cond.mask) # 0

Running(op) == k # 0 /\ target = NoTarget /\ pc \in DOMAIN code /\ code[pc].op = op

ExecIf ==
  /\ Running("if")
  /\ pc' = IF Holds(code[pc].cond) THEN pc + 1 ELSE pc + code[pc].off
  /\ UNCHANGED <<bms, top, elems, next, bmidx, k, ch, code, target>>

ExecSwitch ==
  /\ Running("switch")
  /\ LET ins  == code[pc]
         hits == {i \in DOMAIN ins.vals : ch \in ins.vals[i]}
     IN pc' = pc + (IF hits # {} THEN ins.offs[CHOOSE i \in hits : TRUE]
                    ELSE ins.offs[Len(ins.offs)])
  /\ UNCHANGED <<bms, top, elems, next, bmidx, k, ch, code, target>>

(* A goto, or the end of the transition (no lgo: the next state).          *)
ExecLeave ==
  /\ k # 0 /\ target = NoTarget
  /\ pc \notin DOMAIN code \/ code[pc].op = "goto"
  /\ target' = IF pc \notin DOMAIN code THEN FallTarget ELSE code[pc].l
  /\ UNCHANGED <<bms, top, elems, next, bmidx, k, ch, code, pc>>

(* Every branch of hgo ends in a goto: the jump over the bitmap test is    *)
(* never reached.  Once control has left the transition nothing more      *)
(* happens: the configurations do not check deadlock.                      *)
Next == GenBitmapGroup \/ GenTransition \/ ExecIf \/ ExecSwitch \/ ExecLeave

Spec == Init /\ [][Next]_vars /\ WF_vars(Next)

-----------------------------------------------------------------------------
(* The transition of every bitmap state leaves for the state its go sends *)
(* the symbol to, for every symbol: the shared row, the mask and the       *)
(* offset gen_bitmap stored in the state, the high-byte branch and the     *)
(* sub-dispatch lgo together agree with the spans.                          *)
GoBmCorrect == target # NoTarget => target = GoTarget(bms[k].go, ch)

(* The bitmap test reads yybm only in the row of its state's group: no     *)
(* symbol at or above nchars reaches it (that would read the row of the    *)
(* next group, or past the end of the table).                              *)
BitmapReadInRow ==
  Running("if") /\ code[pc].cond.c = "bm" =>
    LET i == code[pc].cond.off + ch
    IN code[pc].cond.off <= i /\ i < code[pc].cond.off + nchars /\ i \in DOMAIN elems

=============================================================================
