\* One handler at a time, one of which may die, on up to four documents: lineages
\* three deep or three wide.
SPECIFICATION Spec
CONSTANTS
  Docs = {d1, d2, d3, d4}
  Requests = {q1}
  MaxUploads = 1
  MaxDeaths = 1
  None = None
INVARIANTS
  LatestIsNewestLive
  ResultsFollowRoot
PROPERTIES
  DeletedStaysDeleted
SYMMETRY LineageSymmetry
CHECK_DEADLOCK FALSE
