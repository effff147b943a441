--------------------------- MODULE MCLexerModels ---------------------------
(***************************************************************************)
(* The lexer of MCLexerFixture with the $ rule, YYFILL that returns its   *)
(* status and no storable state, generated in the two code models that   *)
(* have no entry into the middle of a state (and so run with eager skip): *)
(* loop/switch over the DFA as built, and rec/func over the tunnelled DFA *)
(* whose MOVE state takes yych as an argument.  The initial state loads   *)
(* one of the two programs into code.                                     *)
(***************************************************************************)
EXTENDS MCGeneratedLexer

RF == INSTANCE MCGeneratedLexer
        WITH States <- MCStatesT, Kind <- MCKindT, SaveSlot <- MCSaveSlotT,
             AcceptsOf <- MCAcceptsOfT, RuleOf <- MCRuleOfT, Go <- MCGoT,
             FillAmount <- MCFillAmountT, FillLabelOf <- MCFillLabelOfT,
             FillState <- MCFillStateT, Fallback <- MCFallbackT, FallTags <- MCFallTagsT,
             Used <- MCUsedT, LabelIndex <- MCLabelIndexT, InitialUsed <- FALSE,
             NAccepts <- 2, TCID0 <- MCTCID0, NOSAVE <- MCNOSAVE, NONE <- MCNONE,
             CodeModel <- "REC_FUNC", EagerSkip <- TRUE, FillEnable <- TRUE,
             EofRule <- TRUE, StorableState <- FALSE, FillCheck <- TRUE,
             StateAbort <- TRUE, NestedIfs <- FALSE, Inputs <- MCInputs,
             NUL <- 0, EofRuleId <- "Eof"

(* The configuration gives the constants of the loop/switch lexer; RF is *)
(* the rec/func lexer over the same variables.  The steps of the generated *)
(* code read the program only through code, and the two agree on every    *)
(* constant a step reads (StorableState, NUL, EofRuleId), so LexerStep   *)
(* runs whichever program the initial state loaded.  Without storable     *)
(* state YYFILL never returns from the lexer, so there is no re-entry.    *)
MCInit == Init \/ RF!Init

MCSpec == MCInit /\ [][LexerStep]_vars /\ WF_vars(LexerStep)

(* The properties are those of GeneratedLexer and MCGeneratedLexer:      *)
(* BufferBounds and RefinesTokenizer for both lexers, EveryPathTailcalls *)
(* and YychSetWhenRead, which only the rec/func program can break.         *)

=============================================================================
