SPECIFICATION FairSpec
CONSTANTS
  t1 = t1
  t2 = t2
  t3 = t3
  s = s
  a = a
  b = b
  m1 = m1
  m2 = m2
  Tabs = {t1, t2, t3}
  Users = {s, a, b}
  UserOf <- MCUserOf
  RoleOf <- MCRoleOf
  MessageIds = {m1, m2}
  Limit <- MCLimit
  Addresses <- MCAddresses
  LastText = 2
  NoMessage = NoMessage
  Deleted = Deleted
  Nobody = Nobody
  NoRole = NoRole
INVARIANTS
  WhatIsSeen
PROPERTIES
  ReadersRecorded
