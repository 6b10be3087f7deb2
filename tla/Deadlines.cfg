SPECIFICATION FairSpec
CONSTANTS
  FirstDay = 3
  LastDay <- MCLastDay
  DaysChoices <- MCDaysChoices
  PauseChoices <- MCPauseChoices
  SettingSteps = {"MODERATION"}
  PauseLimit = 2
  Requests = {r1}
  NoDay = NoDay
INVARIANTS
  TimerFollowsSetting
PROPERTIES
  DeadlineNeverMovesBack
  LateIsTold
  PauseEnds
