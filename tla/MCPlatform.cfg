SPECIFICATION PlatformSpec
CONSTANTS
  Nobody = Nobody
  Absent = Absent
  NoPair = NoPair
  Missing = Missing
  Invites = {a, b}
  Emails = {c, d}
  Acceptances = {e, f}
  Seats = 1
  Tokens = {a, b}
  Users = {u}
  Browsers = {v}
  Jobs = {c, d}
  Tickets = {w}
  Exchanges = {e, f}
  Pairs = {e, f, p}
  Requests = {a, b}
  Roles = {c, d}
  Branches = {v}
  Respondents = {u}
  Ids = {a, b}
  Instances = {c, d}
  Attempts = 2
  Observations = {1, 2}
  Retention = 4
  MaxTime = 4
  Admins = {v}
  Nothing = Nothing
SYMMETRY Symmetry
INVARIANTS
  PlatformTypeOK
  RosterWithinSeats
  AccountKeepsItsIdentity
  ActivatedByItsOwner
  EndedIsFinal
  TicketDiesWithItsSession
  RoleFitsTheTokens
  NoSessionIsLeftBehind
  OneResponseEach
  AnsweredIsStored
  PromotionHasOneRecord
  FreshnessAgrees
PROPERTIES
  NeverShownOlder
CHECK_DEADLOCK FALSE
