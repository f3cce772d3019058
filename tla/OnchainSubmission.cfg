\* Two handlers of one relayer on two bundles, and two transactions: one may replace
\* or follow the other, be a retry of it, or be sent after it is confirmed.
SPECIFICATION Spec
CONSTANTS
  Bundles = {b1, b2}
  Eligible = {b1, b2}
  Handlers = {q1, q2}
  NoBundle = NoBundle
  MaxSends = 2
  MayFail = TRUE
INVARIANTS
  TypeOK
  OutcomeIsReal
  DocumentAgrees
PROPERTIES
  ConfirmedIsFinal
  PromiseSpec
SYMMETRY SubmissionSymmetry
CHECK_DEADLOCK FALSE
