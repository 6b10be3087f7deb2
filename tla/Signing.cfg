\* One request at a time, and two at once: what the challenge and the digest guard.
SPECIFICATION MCSpec
SYMMETRY Symmetry
CONSTANTS
  Directors = {d1, d2}
  Data = {x, y}
  Stamps = {s1, s2}
  LastDoc = 2
  ChallengeIds = {i1, i2}
  Requests = {r1, r2}
  NoFile = NoFile
  NoChallenge = NoChallenge
  NoSignature = NoSignature
INVARIANTS
  SigningInv
  SignatureCoversFiled
  IssuedFilesAreSignedAlone
PROPERTIES
  SignatureIsFinal
  ClosedAttemptNeverSigns
  SignedCaseIsLockedAlone
