\* the accept dispatch (1 .. MaxAcc values), the condition dispatch
\* (1 .. MaxCond conditions, every form), the if-trees of gen_goif, the
\* computed gotos of gen_gocp, and the bitmaps of MCBitmap with gen_gobm
CONSTANTS
  Jobs <- DispatchJobs
SPECIFICATION MCSpec
INVARIANT DispatchesCorrect
INVARIANT WarnsIffNumbered
INVARIANT GoBmCorrect
INVARIANT BitmapReadInRow
CHECK_DEADLOCK FALSE
