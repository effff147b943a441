\* $ rule with YYFILL that returns its status and storable state (push model)
CONSTANTS
  States <- MCStates
  Kind <- MCKind
  SaveSlot <- MCSaveSlot
  AcceptsOf <- MCAcceptsOf
  RuleOf <- MCRuleOf
  Go <- MCGoEager
  FillAmount <- MCFillAmount
  FillLabelOf <- MCFillLabelOfLS
  FillState <- MCFillState
  Fallback <- MCFallback
  FallTags <- MCFallTags
  Used <- MCUsed
  LabelIndex <- MCLabelIndex
  InitialUsed = FALSE
  NAccepts = 2
  TCID0 <- MCTCID0
  NOSAVE <- MCNOSAVE
  NONE <- MCNONE
  CodeModel = "LOOP_SWITCH"
  EagerSkip = TRUE
  FillEnable = TRUE
  EofRule = TRUE
  StorableState = TRUE
  FillCheck = TRUE
  StateAbort = TRUE
  NestedIfs = FALSE
  Inputs <- MCInputs
  NUL = 0
  EofRuleId = "Eof"
SPECIFICATION Spec
PROPERTY RefinesTokenizer

CHECK_DEADLOCK FALSE
