SPECIFICATION StoreSpec
CONSTANTS
  Keys = {k1, k2}
  Sessions = {s1, s2}
  Hashes = {h1, h2}
  Workers = {w1, w2}
  Nobody = Nobody
  MaxAttempts = 2
SYMMETRY StoreSymmetry
INVARIANTS
  StoreTypeOK
  OneRequestPerKey
  OutboxAgrees
  UnknownIsReconciledBeforeRetry
  VerdictFromLastAttempt
  AppliedEndsTheCommand
PROPERTIES
  FinalIsForever
