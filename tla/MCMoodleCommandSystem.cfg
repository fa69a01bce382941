SPECIFICATION SystemSpec
CONSTANTS
  Keys = {k1}
  Sessions = {s1}
  Hashes = {h1}
  Workers = {w1, w2, w3}
  Payloads = {p1, p2}
  Nobody = Nobody
  NoPayload = NoPayload
  MaxAttempts = 3
  MaxFaults = 2
SYMMETRY SystemSymmetry
INVARIANTS
  SystemTypeOK
  AppliedIsTrue
  FailedAfterLostAnswerOnly
PROPERTIES
  KeepsContract
