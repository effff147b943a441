\* $ rule with YYFILL that returns its status (no storable state)
CONSTANTS
  States <- MCStates
  Kind <- MCKind
  SaveSlot <- MCSaveSlot
  AcceptsOf <- MCAcceptsOf
  RuleOf <- MCRuleOf
  Go <- MCGo
  FillAmount <- MCFillAmount
  FillLabelOf <- MCFillLabelOf
  FillState <- MCFillState
  Fallback <- MCFallback
  FallTags <- MCFallTags
  Used <- MCUsed
  LabelIndex <- MCLabelIndex
  InitialUsed = FALSE
  NAccepts = 2
  TCID0 <- MCTCID0
  NOSAVE <- MCNOSAVE
  NONE <- MCNONE
  CodeModel = "GOTO_LABEL"
  EagerSkip = FALSE
  FillEnable = TRUE
  EofRule = TRUE
  StorableState = FALSE
  FillCheck = TRUE
  StateAbort = TRUE
  NestedIfs = FALSE
  Inputs <- MCInputs
  NUL = 0
  EofRuleId = "Eof"
SPECIFICATION Spec
INVARIANT TypeOK
 
INVARIANT RestoreWithinToken
INVARIANT TagsAppliedOnce
PROPERTY RefinesTokenizer

CHECK_DEADLOCK FALSE
