\* storable state (push model), every transition an if-tree (goto/label)
CONSTANTS
  States <- MCStates
  Kind <- MCKind
  SaveSlot <- MCSaveSlot
  AcceptsOf <- MCAcceptsOf
  RuleOf <- MCRuleOf
  Go <- MCGoIf
  FillAmount <- MCFillAmount
  FillLabelOf <- MCFillLabelOf
  FillState <- MCFillState
  Fallback <- MCFallback
  FallTags <- MCFallTags
  Used <- MCUsed
  LabelIndex <- MCLabelIndex
  InitialUsed = FALSE
  NAccepts = 2
  TCID0 <- MCTCID0
  NOSAVE <- MCNOSAVE
  NONE <- MCNONE
  CodeModel = "GOTO_LABEL"
  EagerSkip = FALSE
  FillEnable = TRUE
  EofRule = TRUE
  StorableState = TRUE
  FillCheck = TRUE
  StateAbort = TRUE
  NestedIfs = FALSE
  Inputs <- MCInputs
  NUL = 0
  EofRuleId = "Eof"
SPECIFICATION Spec
INVARIANT TypeOK
INVARIANT BufferBounds
INVARIANT RestoreWithinToken
INVARIANT TagsAppliedOnce
PROPERTY RefinesTokenizer

CHECK_DEADLOCK FALSE
