\* One request at a time against CaseLedger, and two requests on one case.
SPECIFICATION DeskSpec
\* When every event of the bound is spent and no case is a draft, nothing is left to do.
CHECK_DEADLOCK FALSE
SYMMETRY Symmetry
CONSTANTS
  op = op
  mod = mod
  dir = dir
  adm = adm
  c1 = c1
  c2 = c2
  Cases = {c1, c2}
  Users = {op, mod, dir, adm}
  RoleOf <- MCRoleOf
  BranchOf <- MCBranchOf
  Branches <- MCBranches
  Requests = {r1, r2}
  NoRow = NoRow
  NoCase = NoCase
  NoMfl = NoMfl
  NoNumber = NoNumber
  Years = {1}
  MaxEvents = 5
INVARIANTS
  RepeatKeepsMfl
  ModeratorApprovedFirst
PROPERTIES
  SerialLedgerSpec
