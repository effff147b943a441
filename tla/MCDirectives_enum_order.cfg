\* types:re2c in goto/label mode against the numeric condition dispatch of each block
CONSTANTS
  Programs <- MCPrograms
  Targets = {"CODE", "DOT"}
  CodeModels = {"GOTO_LABEL", "LOOP_SWITCH", "REC_FUNC"}
SPECIFICATION Spec
INVARIANT EnumMatchesDispatch
