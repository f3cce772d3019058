\* One job, delivered once or twice to workers; no fallback, no crashes.
SPECIFICATION FairSpec
CONSTANTS
  j1 = j1
  d1 = d1
  Jobs = {j1}
  Documents = {d1}
  DocumentOf <- OnOneDocument
  Attempts = {w1, w2, inl}
  Inline = inl
  AllowInlineFallback = FALSE
  MayCrash = FALSE
  NoRun = NoRun
PROPERTIES
  SubmissionSettles
CHECK_DEADLOCK FALSE
