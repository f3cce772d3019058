\* Two handlers, any of which may die, on one file and two recipients.
SPECIFICATION Spec
CONSTANTS
  Files = {f1}
  Recipients = {w1, w2}
  Requests = {q1, q2}
  MaxShares = 3
  None = None
INVARIANTS
  TypeOK
  AccessIsRecorded
  OneSharePerRecipient
  DeletedRevokesShares
SYMMETRY VaultSymmetry
CHECK_DEADLOCK FALSE
