SPECIFICATION NccSpec
CONSTANTS
  Pairs = {p1, p2, p3}
  Requests = {r1, r2}
  Roles = {teacher, registrar}
  Branches = {b1, b2}
  NoPair = NoPair
SYMMETRY Symmetry
INVARIANT NewTokensAreStored
CHECK_DEADLOCK FALSE
