\* Two handlers, one of which may die, interleave on two documents, a root and its
\* result or its OCR copy, and on two binaries.
SPECIFICATION Spec
CONSTANTS
  Docs = {d1, d2}
  Requests = {q1, q2}
  MaxUploads = 2
  MaxDeaths = 1
  None = None
INVARIANTS
  TypeOK
  TimelineIsComplete
  LatestIsOwnResult
  EvidenceMatchesDocument
SYMMETRY LineageSymmetry
CHECK_DEADLOCK FALSE
