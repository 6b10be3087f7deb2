\* "... so a later-step autosave can't wipe rows or reset collateral IDs"
\* (applyUpdate): refuted, a second save of the pledges inserts them anew.
SPECIFICATION Spec
CONSTANTS
  Null = Null
  MicroThreshold = 5
  MaxEdits = 3
  MaxSaves = 3
CHECK_DEADLOCK FALSE
INVARIANTS
  AttachmentsKept
