\* gen_fintags (generic_capture)
CONSTANTS
  Jobs <- GenericCaptureJobs
SPECIFICATION Spec
INVARIANT FinTagsCorrect
\* control passes to the rule action after the final tags
CHECK_DEADLOCK FALSE
