\* One job, delivered once or twice to workers or also run inline; any process may die.
SPECIFICATION Spec
CONSTANTS
  j1 = j1
  d1 = d1
  Jobs = {j1}
  Documents = {d1}
  DocumentOf <- OnOneDocument
  Attempts = {w1, inl}
  Inline = inl
  AllowInlineFallback = TRUE
  MayCrash = TRUE
  NoRun = NoRun
INVARIANTS
  TypeOK
  JobPublishesOwnResult
  VerifiedIsBacked
  ResultIsReadable
  SourceLinksOwnResult
  TimelineIsTrue
  CompletionIsRecorded
  TerminalStageIsTrue
  NoJobIsForgotten
PROPERTIES
  PublicationSpec
CHECK_DEADLOCK FALSE
