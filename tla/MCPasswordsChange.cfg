SPECIFICATION PHSpec
CONSTANTS
  NoUser = NoUser
  NoToken = NoToken
  NoIP = NoIP
  NoJob = NoJob
  Users = {u1}
  Forgetful = {}
  Tokens = {t1, t2}
  Requests = {r1, r2}
  IPs = {ip1}
  Jobs = {j1, j2}
  RefreshTtl = 1
  LinkTtl = 1
  MaxTime = 0
  AdminStatuses = {}
  AdminLists = {}
SYMMETRY AnyNames
CHECK_DEADLOCK FALSE
INVARIANT
  ChangeEndsSessions
