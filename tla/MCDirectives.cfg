\* the directive loop over two-block programs, code and DOT output, every code model
CONSTANTS
  Programs <- MCPrograms
  Targets = {"CODE", "DOT"}
  CodeModels = {"GOTO_LABEL", "LOOP_SWITCH", "REC_FUNC"}
SPECIFICATION Spec
INVARIANT CondEnumCorrect
INVARIANT StateSwitchesCover
