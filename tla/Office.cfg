SPECIFICATION OfficeSpec
CONSTANTS
  CaseThreads = {t1, t2}
  Peers = {b}
  OwnThread = a
  Addressees = {"all"}
  MaxWords = 2
  MaxSent = 2
  Newcomers = {b}
  StaffBranches = {hq}
  Given = {"OPERATOR", "MODERATOR"}
  MaxForms = 2
  MaxRivals = 1
  Cases = {c1, c2, c3}
  Facts <- MCFacts
  FirstRows <- MCRows
  Viewers <- MCViewers
  Branches = {hq, br}
  RegionOf <- MCRegionOf
  Terms = {hq}
  Today = 3
  DaysPerMonth = 2
  DaysPerWeek = 2
  Months = 2
  PageSize = 1
  MaxShifts = 1
  MaxChoices = 2
  Windows = {t1, t2}
  Steps <- MCSteps
  Rates = {"minRate", "maxRate"}
  Start <- MCStart
  Typed <- MCTyped
  MaxSaves = 2
  MaxEntered <- MCMaxEntered
  t1 = t1
  t2 = t2
  a = a
  b = b
  hq = hq
  c1 = c1
  c2 = c2
  c3 = c3
  br = br
  north = north
  south = south
  NoDoc = NoDoc
  NoAccount = NoAccount
  NoBranch = NoBranch
  NoThread = NoThread
  Null = Null
  Registered = Registered
  New = New
  Requests = {t1, t2}
  Users = {a, b}
  Admins = {b}
  MaxFiles = 3
  Tabs = {t1, t2}
  Accounts = {a, b}
  Portals = {"MODERATOR"}
  Other = "OPERATOR"
  Visited = {"re-mfl", "profile"}
  NoUser = NoUser
  NoName = NoName
  MaxChanges <- MCMaxChanges
  MaxCalls <- MCMaxCalls
SYMMETRY Symmetry
\* files and bounds run out
CHECK_DEADLOCK FALSE
INVARIANTS
  MissingOnlyWhileReplaced
  ListsAreComplete
  WordsStayInPlace
  SessionHolds
  AdminPagesSound
