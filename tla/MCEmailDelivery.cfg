SPECIFICATION Spec
CONSTANTS
  Events = {e1, e2}
  Users = {u1}
  Workers = {w1, w2}
  None = None
  NoticeTypes = {"delivered", "bounced", "scheduled"}
  MaxAttempts = 2
  MaxNotices = 2
  MaxFaults = 2
SYMMETRY EmailSymmetry
INVARIANTS
  EmailTypeOK
  OneMailPerEvent
  SentIsAccepted
  OutboxMatchesDelivery
  SuppressionIsKept
  StatusIsNewest
PROPERTIES
  OnlyTheHolderSettles
  KeepsMailContract
