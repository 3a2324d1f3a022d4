SPECIFICATION FairLHSpec
CONSTANTS
  NoUser = NoUser
  NoToken = NoToken
  NoIP = NoIP
  NoJob = NoJob
  Users = {u1, u2}
  Forgetful = {u1}
  Tokens = {}
  Requests = {}
  IPs = {}
  Jobs = {j1, j2, j3}
  RefreshTtl = 1
  LinkTtl = 1
  MaxTime = 1
  AdminStatuses = {}
  AdminLists = {}
CHECK_DEADLOCK FALSE
INVARIANTS
  PasswordsTypeOK
  OneResetPerLink
  OnlyConcurrentLinksCoexist
PROPERTY
  JobsEnd
