\* loop/switch, $ rule: the hoisted tags of SA against a rematch after YYFILL
CONSTANTS
  States <- MCStates
  Kind <- MCKind
  SaveSlot <- MCSaveSlot
  AcceptsOf <- MCAcceptsOf
  RuleOf <- MCRuleOf
  Go <- MCGoEager
  FillAmount <- MCFillAmount
  FillLabelOf <- MCFillLabelOfLS
  FillState <- MCFillState
  Fallback <- MCFallback
  FallTags <- MCFallTags
  Used <- MCUsed
  LabelIndex <- MCLabelIndex
  InitialUsed = FALSE
  NAccepts = 2
  TCID0 <- MCTCID0
  NOSAVE <- MCNOSAVE
  NONE <- MCNONE
  CodeModel = "LOOP_SWITCH"
  EagerSkip = TRUE
  FillEnable = TRUE
  EofRule = TRUE
  StorableState = FALSE
  FillCheck = TRUE
  StateAbort = TRUE
  NestedIfs = FALSE
  Inputs <- MCInputs
  NUL = 0
  EofRuleId = "Eof"
SPECIFICATION Spec
INVARIANT TagsAppliedOnce

CHECK_DEADLOCK FALSE
