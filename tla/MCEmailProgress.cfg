SPECIFICATION FairSpec
CONSTANTS
  Events = {e1, e2}
  Users = {u1}
  Workers = {w1, w2, w3}
  None = None
  NoticeTypes = {"bounced"}
  MaxAttempts = 2
  MaxNotices = 0
  MaxFaults = 1
PROPERTIES
  EveryRequestIsSettled
