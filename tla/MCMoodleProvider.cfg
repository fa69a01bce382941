SPECIFICATION ProviderSpec
CONSTANTS
  Keys = {k1, k2}
  Requests = {r1, r2, r3}
  Payloads = {p1, p2}
  NoPayload = NoPayload
SYMMETRY ProviderSymmetry
INVARIANTS
  ProviderTypeOK
  AtMostOneEffect
  AppliedMeansCommitted
  OneExecutionPerKey
CHECK_DEADLOCK FALSE
