---------------------------- MODULE MCLexerFixture ----------------------------
(***************************************************************************)
(* The DFA that re2c builds for                                            *)
(*                                                                         *)
(*     re2c:eof = 0;                                                       *)
(*     "a"    { A }     "aa"   { B }     "abb" { C }     "aabb" { D }      *)
(*     *      { Def }   $      { Eof }                                     *)
(*                                                                         *)
(* over the symbols NUL (0, also the sentinel), a (1) and b (2), as the    *)
(* constants of module Codegen (one definition per constant), with the    *)
(* reference rules and the inputs the lexer is run on.  States 3 and 4    *)
(* are final (SAVE: YYBACKUP, yyaccept 0 and 1), 5 and 6 are not, so a    *)
(* mismatch or the end of input there backtracks through the ACCEPT state *)
(* 9.  States with a transition on the sentinel carry the eof flag and a  *)
(* YYFILL label; their fallback on YYFILL failure is the rule they would  *)
(* accept ($ in the initial state).                                        *)
(***************************************************************************)
EXTENDS Integers, Sequences, FiniteSets

A == 1
B == 2

\* state ids
SInit == 1
SDef == 2
SA == 3
SAA == 4
SAB == 5
SAAB == 6
SABB == 7
SAABB == 8
SAcc == 9
RA == 10
RB == 11
RC == 12
RD == 13
RDef == 14
REof == 15

MCStates == 1..15

MCNOSAVE == -1
MCNONE   == -1
MCTCID0  == 0
\* a tag list that the transitions of SA share, hoisted into SA's go (as for
\* a rule "a" @t ...); the transitions themselves carry none
MCTC1    == 1

J(to, eof) == [to |-> to, tags |-> MCTCID0, skip |-> FALSE, elide |-> FALSE, eof |-> eof]

Case(chars, to, eof) == [chars |-> chars, dflt |-> FALSE, jump |-> J(to, eof)]

Default(to, eof) == [chars |-> {}, dflt |-> TRUE, jump |-> J(to, eof)]

MCKind ==
  [s \in MCStates |->
     CASE s = SInit -> "INITIAL"
       [] s \in {SA, SAA} -> "SAVE"
       [] s \in {SDef, SAB, SAAB, SABB, SAABB} -> "MATCH"
       [] s = SAcc -> "ACCEPT"
       [] OTHER -> "RULE"]

MCSaveSlot == [s \in MCStates |->
                 CASE s = SA -> 0 [] s = SAA -> 1 [] OTHER -> MCNOSAVE]

MCAcceptsOf == [s \in MCStates |->
                  IF s = SAcc
                  THEN <<[state |-> RA, tags |-> MCTCID0],
                         [state |-> RB, tags |-> MCTCID0]>>
                  ELSE <<>>]

MCRuleOf == [s \in MCStates |->
               CASE s = RA -> "A" [] s = RB -> "B" [] s = RC -> "C"
                 [] s = RD -> "D" [] s = RDef -> "Def" [] OTHER -> "Eof"]

NoGo == [kind |-> "EMPTY", tags |-> MCTCID0, skip |-> FALSE, swif |-> "SWITCH",
         cases |-> <<>>, goif |-> <<>>]
SwGo(cs) == [kind |-> "SWITCH_IF", tags |-> MCTCID0, skip |-> FALSE, swif |-> "SWITCH",
             cases |-> cs, goif |-> <<>>]

MCGo ==
  [s \in MCStates |->
     CASE s = SInit -> SwGo(<<Case({A}, SA, FALSE), Case({B}, SDef, FALSE),
                              Default(SDef, TRUE)>>)
       [] s = SDef  -> SwGo(<<Default(RDef, FALSE)>>)
       [] s = SA    -> [SwGo(<<Case({A}, SAA, FALSE), Case({B}, SAB, FALSE),
                               Default(RA, TRUE)>>) EXCEPT !.tags = MCTC1]
       [] s = SAA   -> SwGo(<<Case({B}, SAAB, FALSE), Default(RB, TRUE)>>)
       [] s = SAB   -> SwGo(<<Case({B}, SABB, FALSE), Default(SAcc, TRUE)>>)
       [] s = SAAB  -> SwGo(<<Case({B}, SAABB, FALSE), Default(SAcc, TRUE)>>)
       [] s = SABB  -> SwGo(<<Default(RC, FALSE)>>)
       [] s = SAABB -> SwGo(<<Default(RD, FALSE)>>)
       [] OTHER     -> NoGo]

MCFillAmount == [s \in MCStates |-> 0]

MCFillLabelOf == [s \in MCStates |->
                    CASE s = SInit -> 0 [] s = SA -> 1 [] s = SAA -> 2
                      [] s = SAB -> 3 [] s = SAAB -> 4 [] OTHER -> MCNONE]

MCFillState == [s \in MCStates |-> s]

MCFallback == [s \in MCStates |->
                 CASE s = SInit -> REof [] s = SA -> RA [] s = SAA -> RB
                   [] s \in {SAB, SAAB} -> SAcc [] OTHER -> s]

MCFallTags == [s \in MCStates |-> MCTCID0]

MCUsed == [s \in MCStates |-> s # SInit]

(* The same DFA with its transitions as if-trees (SWITCH_IF goes of kind  *)
(* IF): binary nodes in the initial state and in SA, linear chains in the *)
(* other states.  The default span of each state is the sentinel 0, the   *)
(* only symbol below A.  The spans (cases) stay those of MCGo: endstate  *)
(* and omit_peek look at the spans, whatever form the dispatch takes.     *)
IfGo(s, t) == [MCGo[s] EXCEPT !.swif = "IF", !.goif = t]
Br(c, n, to, eof) == [hascond |-> TRUE, cmp |-> c, val |-> n, jump |-> J(to, eof)]
Else(to, eof) == [hascond |-> FALSE, cmp |-> "", val |-> 0, jump |-> J(to, eof)]
Lin(bs) == [kind |-> "LINEAR", branches |-> bs]
Bin(c, n, t, e) == [kind |-> "BINARY", cmp |-> c, val |-> n, gothen |-> t, goelse |-> e]

MCGoIf ==
  [s \in MCStates |->
     CASE s = SInit -> IfGo(s, Bin(">=", A, Lin(<<Br("==", A, SA, FALSE), Else(SDef, FALSE)>>),
                                       Lin(<<Else(SDef, TRUE)>>)))
       [] s = SDef  -> IfGo(s, Lin(<<Else(RDef, FALSE)>>))
       [] s = SA    -> [IfGo(s, Bin("<=", A, Lin(<<Br("==", A, SAA, FALSE), Else(RA, TRUE)>>),
                                        Lin(<<Else(SAB, FALSE)>>))) EXCEPT !.tags = MCTC1]
       [] s = SAA   -> IfGo(s, Lin(<<Br("==", B, SAAB, FALSE), Else(RB, TRUE)>>))
       [] s = SAB   -> IfGo(s, Lin(<<Br("!=", B, SAcc, TRUE), Else(SABB, FALSE)>>))
       [] s = SAAB  -> IfGo(s, Lin(<<Br("==", B, SAABB, FALSE), Else(SAcc, TRUE)>>))
       [] s = SABB  -> IfGo(s, Lin(<<Else(RC, FALSE)>>))
       [] s = SAABB -> IfGo(s, Lin(<<Else(RD, FALSE)>>))
       [] OTHER     -> NoGo]

\* labels are numbered in state order, the initial state 0
MCLabelIndex == [s \in MCStates |-> s - 1]

(* Loop/switch mode.  YYSKIP is eager: it is on the transitions into the  *)
(* states that would otherwise skip on entry (MATCH and SAVE), so that a  *)
(* rematch, which re-enters the state at its case, does not skip again.   *)
(* The YYFILL labels are numbered after the state labels, so that the     *)
(* fill-goto cases and the state cases of the yystate switch differ.      *)
MCGoEager ==
  [s \in MCStates |->
     [MCGo[s] EXCEPT !.cases =
        [i \in DOMAIN MCGo[s].cases |->
           [MCGo[s].cases[i] EXCEPT !.jump.skip =
              MCKind[MCGo[s].cases[i].jump.to] \in {"MATCH", "SAVE"}]]]]

MCFillLabelOfLS == [s \in MCStates |->
                      IF MCFillLabelOf[s] = MCNONE THEN MCNONE
                      ELSE Cardinality(MCStates) + MCFillLabelOf[s]]

\* the reference rules, in priority order, the default rule last
MCRules == <<[name |-> "A", lang |-> {<<A>>}],
             [name |-> "B", lang |-> {<<A, A>>}],
             [name |-> "C", lang |-> {<<A, B, B>>}],
             [name |-> "D", lang |-> {<<A, A, B, B>>}],
             [name |-> "Def", lang |-> {<<0>>, <<A>>, <<B>>}]>>

\* all inputs of up to MaxInput symbols
MaxInput == 4
MCInputs == UNION {[1..n -> {0, A, B}] : n \in 0..MaxInput}

(* The DFA after tunnelling, for rec/func mode: the dispatch of SAB moves *)
(* into a MOVE state SM, which SAB reaches on every symbol after peeking. *)
(* SM has no YYPEEK of its own and dispatches on the symbol SAB peeked,  *)
(* so its function takes yych as an argument.  After YYFILL on the eof  *)
(* transition of SM the lexer resumes at SAB (its fill state), which     *)
(* peeks again.                                                            *)
SM == 16
MCStatesT == 1..16

MCKindT      == [s \in MCStatesT |-> IF s = SM THEN "MOVE" ELSE MCKind[s]]
MCSaveSlotT  == [s \in MCStatesT |-> IF s = SM THEN MCNOSAVE ELSE MCSaveSlot[s]]
MCAcceptsOfT == [s \in MCStatesT |-> IF s = SM THEN <<>> ELSE MCAcceptsOf[s]]
MCRuleOfT    == [s \in MCStatesT |-> IF s = SM THEN "Eof" ELSE MCRuleOf[s]]
(* A go with one span is a linear if-chain of one unconditional branch.   *)
OneSpan(g) == [g EXCEPT !.swif = "IF",
                        !.goif = Lin(<<[hascond |-> FALSE, cmp |-> "", val |-> 0,
                                        jump |-> g.cases[1].jump]>>)]
(* SM dispatches with an if/else: yych == b goes to SABB, else to SAcc.   *)
IfChainOf(g) == [g EXCEPT !.swif = "IF",
                          !.goif = Lin(<<[hascond |-> TRUE, cmp |-> "==", val |-> B,
                                          jump |-> g.cases[1].jump],
                                         [hascond |-> FALSE, cmp |-> "", val |-> 0,
                                          jump |-> g.cases[2].jump]>>)]
MCGoT ==
  [s \in MCStatesT |->
     CASE s = SM  -> IfChainOf(MCGoEager[SAB])
       [] s = SAB -> OneSpan(SwGo(<<Default(SM, FALSE)>>))
       [] Len(MCGoEager[s].cases) = 1 -> OneSpan(MCGoEager[s])
       [] OTHER   -> MCGoEager[s]]
MCFillAmountT  == [s \in MCStatesT |-> 0]
MCFillLabelOfT == [s \in MCStatesT |-> IF s = SM THEN MCNONE ELSE MCFillLabelOf[s]]
MCFillStateT   == [s \in MCStatesT |-> IF s = SM THEN SAB ELSE s]
MCFallbackT    == [s \in MCStatesT |-> IF s = SM THEN SAcc ELSE MCFallback[s]]
MCFallTagsT    == [s \in MCStatesT |-> MCTCID0]
MCUsedT        == [s \in MCStatesT |-> s # SInit]
MCLabelIndexT  == [s \in MCStatesT |-> s - 1]

=============================================================================
