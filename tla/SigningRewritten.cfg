\* Violation: a prepare or a failure report still running when the case is signed.
SPECIFICATION MCSpec
SYMMETRY Symmetry
CONSTANTS
  Directors = {d1}
  Data = {x}
  Stamps = {s1}
  LastDoc = 1
  ChallengeIds = {i1}
  Requests = {r1, r2}
  NoFile = NoFile
  NoChallenge = NoChallenge
  NoSignature = NoSignature
INVARIANTS
  IssuedFilesAreSigned
