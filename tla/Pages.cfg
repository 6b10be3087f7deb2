SPECIFICATION PagesSpec
CONSTANTS
  Keys = {firmKey, ownKey}
  FirmKeys = {firmKey}
  Probes = {1, 2}
  MaxTries = 2
  MaxProbes = 2
  NoKey = NoKey
  NoStep = NoStep
  Scans = {1, 2}
  MaxImages = 3
  MaxConcurrent = 1
  Passes = 2
  Candidates <- MCCandidates
  NoCandidate = NoCandidate
  pop = pop
  veh = veh
  c1 = c1
  c2 = c2
  Tabs = {t1, t2}
  Users = {a, b}
  Root = a
  Branches = {hq}
  NoAccount = NoAccount
  NoBranch = NoBranch
\* bounds on tries, images and typing are used up; two administrators may lock each other out
CHECK_DEADLOCK FALSE
INVARIANTS
  AdminRemains
  NoKeyForgotten
  AppliedIsVerified
PROPERTIES
  DialogEnds
  WaitingScansRun
