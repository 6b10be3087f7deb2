SPECIFICATION FormsSpec
CONSTANTS
  Null = Null
  MaxEdits = 2
  MaxSaves = 3
  Pages = {"new", "draft"}
  MaxPledges = 2
  MaxScans = 2
  Today = 20
  LastDay = 21
  Dates <- MCDates
  Sums = {3}
  Terms = {0, 13}
  LowestRate = 57
  MaxTyped = 2
  MaxLineSaves = 1
  Cases = {c1, c2}
  Traits <- MCTraits
  Starts <- MCStarts
  \* each kind of what moves or changes a case; RETURN is taken and refused like APPROVE
  Tried = {"SUBMIT", "APPROVE", "CANCEL", "REOPEN", "sign", "delete", "restore", "requisites"}
  MaxMoves = 1
  MaxPressed = 2
  NoCase = NoCase
  c1 = c1
  c2 = c2
  t1 = t1
  t2 = t2
  MicroThreshold = 5
  Requests = {t1, t2}
  Limit = 4
  Payloads <- MCPayloads
  Rates = {59, 70}
  Configs <- MCConfigs
  Splits <- MCSplits
SYMMETRY Symmetry
\* the bounds end every part
CHECK_DEADLOCK FALSE
INVARIANTS
  ScoreDescribesCase
  MoneyAgrees
  SavedStepsStay
  ScansOwnPledge
  LineAgrees
  GateMirrorsWizard
  BlankScoresNothing
  ScheduleSound
  WorkIsFound
  OwnWords
PROPERTIES
  RaisedRateKept
  ShownStepDecided
