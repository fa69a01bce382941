SPECIFICATION Spec
CONSTANTS
  Events = {e1}
  Users = {u1}
  Workers = {w1, w2}
  None = None
  NoticeTypes = {"bounced"}
  MaxAttempts = 2
  MaxNotices = 1
  MaxFaults = 2
PROPERTIES
  BouncedAreSuppressed
