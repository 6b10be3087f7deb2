\* Violation: two decisions read the same status.
SPECIFICATION Spec
\* When every event of the bound is spent and no case is a draft, nothing is left to do.
CHECK_DEADLOCK FALSE
SYMMETRY Symmetry
CONSTANTS
  op = op
  mod = mod
  dir = dir
  adm = adm
  Cases = {c1}
  Users = {op, mod, dir}
  RoleOf <- MCRoleOfNoAdmin
  BranchOf <- MCBranchOfNoAdmin
  Branches <- MCBranches
  Requests = {r1, r2}
  NoRow = NoRow
  NoCase = NoCase
  NoMfl = NoMfl
  NoNumber = NoNumber
  Years = {1}
  MaxEvents = 4
PROPERTIES
  ClosedStaysClosed
