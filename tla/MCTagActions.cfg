\* gen_settags under the C API and the generic API, no old-style context
\* marker; gen_fintags with both APIs
SPECIFICATION Spec
INVARIANT TagsAgreeBothApis
INVARIANT FinTagsCorrect
INVARIANT NoShiftOfNull
\* runs stop at the cursor bound, and control passes to the rule action
\* after the final tags
CHECK_DEADLOCK FALSE
