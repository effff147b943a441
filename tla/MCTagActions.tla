---------------------------- MODULE MCTagActions ----------------------------
(***************************************************************************)
(* Tag-command lists over three s-tag versions and two m-tag versions:    *)
(* every list of at most two commands, and every list of three s-tag      *)
(* commands, with distinct left-hand sides; runs of up to MCMaxCursor     *)
(* transitions.  The API is an option of the block: a behaviour picks    *)
(* the C API (CApi) or the generic API (GenericApi) and keeps it.  A     *)
(* third kind of behaviour runs the final tags of a rule (Fin, the jobs   *)
(* of MCFinTags with both APIs): the two tag emitters of a DFA checked in  *)
(* one model.                                                              *)
(***************************************************************************)
EXTENDS Naturals, Sequences

MCSTags == {1, 2, 3}
MCMTags == {4, 5}
MCBottom == "bottom"
MCCursor == "cursor"

Hists == {<<h>> : h \in {MCBottom, MCCursor}}
         \cup {<<h, g>> : h, g \in {MCBottom, MCCursor}}

Copy(l, r)    == [lhs |-> l, rhs |-> r, hist |-> <<>>]
Save(l, h)    == [lhs |-> l, rhs |-> 0, hist |-> <<h>>]
Add(l, r, hs) == [lhs |-> l, rhs |-> r, hist |-> hs]

SCmds == {Copy(l, r) : l, r \in MCSTags} \cup {Save(l, h) : l \in MCSTags, h \in {MCBottom, MCCursor}}
MCmds == {Copy(l, r) : l, r \in MCMTags} \cup {Add(l, r, hs) : l, r \in MCMTags, hs \in Hists}

\* a copy never copies a version onto itself
Ok(c) == c.hist = <<>> => c.lhs # c.rhs

Cmds == {c \in SCmds \cup MCmds : Ok(c)}

DistinctLhs(cs) == \A i, j \in DOMAIN cs : i # j => cs[i].lhs # cs[j].lhs

MCCmdLists ==
  {<<>>} \cup {<<c>> : c \in Cmds}
  \cup {cs \in {<<c, d>> : c, d \in Cmds} : DistinctLhs(cs)}
  \cup {cs \in {<<c, d, e>> : c, d, e \in {x \in Cmds : x.lhs \in MCSTags}} : DistinctLhs(cs)}

MCMaxCursor == 2

VARIABLES api, tagsC, refC, tagsG, refG, code, store, pc, want

vars == <<api, tagsC, refC, tagsG, refG, code, store, pc, want>>

CApi == INSTANCE TagActions
          WITH STags <- MCSTags, MTags <- MCMTags, Generic <- FALSE,
               OldStyleCtxMarker <- FALSE, CmdLists <- MCCmdLists,
               MaxCursor <- MCMaxCursor, tags <- tagsC, ref <- refC

GenericApi == INSTANCE TagActions
          WITH STags <- MCSTags, MTags <- MCMTags, Generic <- TRUE,
               OldStyleCtxMarker <- FALSE, CmdLists <- MCCmdLists,
               MaxCursor <- MCMaxCursor, tags <- tagsG, ref <- refG

FinJobs == INSTANCE MCFinTags WITH Jobs <- {}
Fin == INSTANCE MCFinTags WITH Jobs <- FinJobs!FinTagsJobs

(* The variables of the emitter a behaviour does not run stay empty.      *)
Init ==
  \/ /\ api \in {"C", "GENERIC"}
     /\ CApi!Init
     /\ GenericApi!Init
     /\ code = <<>> /\ store = <<>> /\ pc = 0 /\ want = <<>>
  \/ /\ api = "FINAL"
     /\ Fin!Init
     /\ tagsC = <<>> /\ refC = <<>> /\ tagsG = <<>> /\ refG = <<>>

Next ==
  \/ /\ api = "C"
     /\ CApi!Next
     /\ UNCHANGED <<api, tagsG, refG, code, store, pc, want>>
  \/ /\ api = "GENERIC"
     /\ GenericApi!Next
     /\ UNCHANGED <<api, tagsC, refC, code, store, pc, want>>
  \/ /\ api = "FINAL"
     /\ Fin!Next
     /\ UNCHANGED <<api, tagsC, refC, tagsG, refG>>

Spec == Init /\ [][Next]_vars

(* With either API, after any sequence of transitions the tag variables  *)
(* hold what the commands of gen_settags mean (TagActions!TagsAgree).     *)
TagsAgreeBothApis == api # "FINAL" => CApi!TagsAgree /\ GenericApi!TagsAgree

(* After gen_fintags' code has run, the final tags, YYCURSOR and yynmatch *)
(* hold what the rule's tags mean, with either API (FinTags).             *)
FinTagsCorrect == api = "FINAL" => Fin!FinTagsCorrect

(* gen_fintags never shifts a NULL tag value (FinTags).                   *)
NoShiftOfNull == api = "FINAL" => Fin!NoShiftOfNull

=============================================================================
