\* A notarization overtaken by a deletion.
SPECIFICATION Spec
CONSTANTS
  Docs = {d1, d2}
  Requests = {q1, q2}
  MaxUploads = 1
  MaxDeaths = 0
  None = None
PROPERTIES
  DeletedStaysDeleted
CHECK_DEADLOCK FALSE
