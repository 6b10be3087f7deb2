\* Two requests of an operator on two cases, creations and submits only, across a new
\* year: registration and contract numbers under every interleaving.
SPECIFICATION Spec
\* When every event of the bound is spent and no case is a draft, nothing is left to do.
CHECK_DEADLOCK FALSE
SYMMETRY Symmetry
CONSTANTS
  op = op
  mod = mod
  dir = dir
  adm = adm
  Cases = {c1, c2}
  Users = {op}
  RoleOf <- MCRoleOfClerks
  BranchOf <- MCBranchOfClerks
  Branches <- MCBranches
  Requests = {r1, r2}
  NoRow = NoRow
  NoCase = NoCase
  NoMfl = NoMfl
  NoNumber = NoNumber
  Years = {1, 2}
  MaxEvents = 2
INVARIANTS
  IdentifiersUnique
  NumberedOutsideDraft
  RegNosGapless
