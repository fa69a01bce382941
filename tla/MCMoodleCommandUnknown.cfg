SPECIFICATION SystemSpec
CONSTANTS
  Keys = {k1}
  Sessions = {s1}
  Hashes = {h1}
  Workers = {w1, w2}
  Payloads = {p1}
  Nobody = Nobody
  NoPayload = NoPayload
  MaxAttempts = 2
  MaxFaults = 1
SYMMETRY SystemSymmetry
INVARIANTS
  ReportedUnknownIsReconciled
