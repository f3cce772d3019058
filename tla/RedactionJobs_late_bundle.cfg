SPECIFICATION Spec
CONSTANTS
  j1 = j1
  d1 = d1
  Jobs = {j1}
  Documents = {d1}
  DocumentOf <- OnOneDocument
  Attempts = {w1, inl}
  Inline = inl
  AllowInlineFallback = FALSE
  MayCrash = FALSE
  NoRun = NoRun
CHECK_DEADLOCK FALSE
INVARIANTS
  FailedClosedHasNoBundle
