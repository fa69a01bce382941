SPECIFICATION FairSystemSpec
CONSTANTS
  Keys = {k1, k2}
  Sessions = {s1}
  Hashes = {h1}
  Workers = {w1, w2, w3}
  Payloads = {p1}
  Nobody = Nobody
  NoPayload = NoPayload
  MaxAttempts = 3
  MaxFaults = 1
PROPERTIES
  EveryCommandIsDecided
