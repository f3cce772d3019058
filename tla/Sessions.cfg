\* Two handlers, two wallets, two nonces and two sessions, all of which expire at the next tick.
SPECIFICATION Spec
CONSTANTS
  Wallets = {w1, w2}
  Requests = {q1, q2}
  NonceTTL = 0
  SessionTTL = 0
  TestAuth = TRUE
  MaxNonces = 2
  MaxSessions = 2
  MaxTime = 1
  None = None
INVARIANTS
  NonceUsedOnce
  LastNonceWaits
  SessionHasUser
SYMMETRY SessionsSymmetry
CHECK_DEADLOCK FALSE
